---------------------------- MODULE PipelineProofs ----------------------------
(***************************************************************************)
(* Theorems about whole processes of run_all: the entry point drives its   *)
(* two components as their specifications say, so that what is proved of   *)
(* each of them holds of the program; streaming starts only behind gold    *)
(* tables that keep the contracts; and whatever raises, wherever it        *)
(* raises, the log opens and closes each stage at most once, and what      *)
(* failed is the statement that raised and its layer.                      *)
(***************************************************************************)
EXTENDS PipelineProperties, SequenceTheorems, TLAPS

-----------------------------------------------------------------------------
(* The two components.                                                     *)

\* A process in its batch stages knows how its container was started.
ShellInv ==
    /\ container \in RestartKinds \cup {"none"}
    /\ process = "running" /\ stage = "batch" => container \in RestartKinds

\* No process gets past its batch stages without a kind of start.
LEMMA ShellInvariant == Spec => []ShellInv
<1>1. Init => ShellInv
  BY DEF Init, ShellInv
<1>2. ShellInv /\ [Next]_vars => ShellInv'
  <2> SUFFICES ASSUME ShellInv, [Next]_vars PROVE ShellInv'
    OBVIOUS
  <2> USE DEF ShellInv
  <2>1. CASE \E kind \in RestartKinds : Start(kind)
    BY <2>1 DEF Start
  <2>2. CASE StreamStage
    BY <2>2 DEF StreamStage
  <2>3. CASE StartUnconfigured
    BY <2>3 DEF StartUnconfigured
  <2>4. CASE StreamUnconfigured \/ Exit \/ Kill
    BY <2>4 DEF StreamUnconfigured, Exit, Kill
  <2>5. CASE EnterTimer \/ LeaveTimer
    BY <2>5 DEF EnterTimer, LeaveTimer
  <2>6. CASE BatchStep \/ BatchRaises \/ StreamStep \/ StreamRaises \/ BatchEnvironment
             \/ (\E f \in Files : Arrive(f)) \/ UNCHANGED vars
    BY <2>6 DEF BatchStep, BatchRaises, StreamStep, StreamRaises, BatchEnvironment, Arrive,
                shell, vars
  <2> QED
    BY <2>1, <2>2, <2>3, <2>4, <2>5, <2>6 DEF Next, Step
<1> QED  BY <1>1, <1>2, PTL DEF Spec

\* The batch stages run as Medallion says, whatever the rest of the process does.
THEOREM RunsMedallion == Spec => Batch!Spec
<1>1. Init => Batch!Init
  BY DEF Init
<1>2. [Next]_vars => [Batch!Next]_batch
  <2> SUFFICES ASSUME [Next]_vars PROVE Batch!Next \/ UNCHANGED batch
    OBVIOUS
  <2>1. CASE \E kind \in RestartKinds : Start(kind)
    BY <2>1 DEF Start, Batch!Next
  <2>2. CASE BatchStep \/ BatchRaises \/ BatchEnvironment
    BY <2>2 DEF BatchStep, BatchRaises, BatchEnvironment, Batch!Next
  <2>3. CASE Kill
    BY <2>3 DEF Kill, Batch!Next
  <2>4. CASE EnterTimer \/ LeaveTimer \/ StartUnconfigured \/ StreamUnconfigured \/ Exit
    BY <2>4 DEF EnterTimer, LeaveTimer, StartUnconfigured, StreamUnconfigured, Exit
  <2>5. CASE StreamStage \/ StreamStep \/ StreamRaises \/ (\E f \in Files : Arrive(f))
             \/ UNCHANGED vars
    BY <2>5 DEF StreamStage, StreamStep, StreamRaises, Arrive, vars
  <2> QED
    BY <2>1, <2>2, <2>3, <2>4, <2>5 DEF Next, Step
<1>3. UNCHANGED batch => UNCHANGED Batch!vars
  BY DEF batch, Batch!vars, Batch!volume, Batch!memory, Batch!bounds
<1>4. [Next]_vars => [Batch!Next]_(Batch!vars)
  BY <1>2, <1>3
<1> QED  BY <1>1, <1>4, PTL DEF Spec, Batch!Spec

\* The streaming stage runs as StreamIngest says.
THEOREM RunsStreamIngest == Spec => Stream!Spec
<1>1. Init => Stream!Init
  BY DEF Init
<1>2. ShellInv /\ [Next]_vars => [Stream!Next]_stream
  <2> SUFFICES ASSUME ShellInv, [Next]_vars PROVE Stream!Next \/ UNCHANGED stream
    OBVIOUS
  <2>1. CASE StreamStage
    <3>1. container \in RestartKinds /\ look' \in Stream!Looks /\ Stream!Start(container, look')
      BY <2>1 DEF StreamStage, ShellInv
    <3> QED  BY <3>1 DEF Stream!Next
  <2>2. CASE StreamStep \/ StreamRaises
    BY <2>2 DEF StreamStep, StreamRaises, Stream!Next
  <2>3. CASE \E f \in Files : Arrive(f)
    BY <2>3 DEF Arrive, Stream!Next
  <2>4. CASE Kill
    BY <2>4 DEF Kill, Stream!Next
  <2>5. CASE EnterTimer \/ LeaveTimer \/ StartUnconfigured \/ StreamUnconfigured \/ Exit
             \/ (\E kind \in RestartKinds : Start(kind))
    BY <2>5 DEF EnterTimer, LeaveTimer, StartUnconfigured, StreamUnconfigured, Exit, Start
  <2>6. CASE BatchStep \/ BatchRaises \/ BatchEnvironment \/ UNCHANGED vars
    BY <2>6 DEF BatchStep, BatchRaises, BatchEnvironment, vars
  <2> QED
    BY <2>1, <2>2, <2>3, <2>4, <2>5, <2>6 DEF Next, Step
<1>3. UNCHANGED stream => UNCHANGED Stream!vars
  BY DEF stream, Stream!vars, Stream!volume, Stream!tmp, Stream!memory, Stream!pass,
         Stream!bounds, Stream!history
<1>4. ShellInv /\ [Next]_vars => [Stream!Next]_(Stream!vars)
  BY <1>2, <1>3
<1> QED  BY <1>1, <1>4, ShellInvariant, PTL DEF Spec, Stream!Spec

-----------------------------------------------------------------------------
(* The order of the stages.                                                *)

\* Batch stages that have completed leave the contracts kept, and the streaming
\* stage runs only behind completed ones.
ContractInv ==
    /\ batch_pc = "completed" => ContractsHold
    /\ stage = "stream" => batch_pc = "completed" \/ process # "running"

\* What the contracts are measured on.
LEMMA ContractsReadGold == gold' = gold => (ContractsHold' <=> ContractsHold)
<1> SUFFICES ASSUME gold' = gold PROVE ContractsHold' <=> ContractsHold
  OBVIOUS
<1>1. Batch!Q1' = Batch!Q1
  BY DEF Batch!Q1
<1>2. Batch!Q2' = Batch!Q2
  BY DEF Batch!Q2
<1>3. Batch!Q3' = Batch!Q3
  BY DEF Batch!Q3
<1> QED  BY <1>1, <1>2, <1>3 DEF ContractsHold

\* A step of the batch stages that completes them has found the contracts kept.
LEMMA CompletionChecks == Batch!Step /\ batch_pc' = "completed" => ContractsHold'
<1> SUFFICES ASSUME Batch!Step, batch_pc' = "completed" PROVE ContractsHold'
  OBVIOUS
<1>1. Batch!AssertContractInvariants
  BY DEF Batch!Step, Batch!BronzeAccounts, Batch!BronzeTransactions,
         Batch!BronzeSchemaMismatch, Batch!BronzeCustomers, Batch!SilverCustomers,
         Batch!SilverAccounts, Batch!SilverTransactions, Batch!BuildDimCustomers,
         Batch!BuildDimAccounts, Batch!BuildFactTransactions, Batch!WriteDqReport,
         Batch!DumpDqReport
<1>2. gold' = gold /\ Batch!Verdict = "none"
  BY <1>1 DEF Batch!AssertContractInvariants, Batch!volume
<1>3. ~(Batch!Q1 < MinTypes) /\ Batch!Q2 = 0 /\ Batch!Q3 \in 1 .. MaxProvinces
  BY <1>2 DEF Batch!Verdict
<1> QED  BY <1>2, <1>3, ContractsReadGold DEF ContractsHold

\* The contracts stay kept from the end of the batch stages to the next start.
LEMMA ContractInvariant == Spec => []ContractInv
<1>1. Init => ContractInv
  BY DEF Init, Batch!Init, ContractInv
<1>2. ContractInv /\ [Next]_vars => ContractInv'
  <2> SUFFICES ASSUME ContractInv, [Next]_vars PROVE ContractInv'
    OBVIOUS
  <2>1. CASE \E kind \in RestartKinds : Start(kind)
    BY <2>1 DEF Start, Batch!Start, ContractInv
  <2>2. CASE BatchStep
    BY <2>2, CompletionChecks DEF BatchStep, shell, ContractInv
  <2>3. CASE BatchRaises
    BY <2>3 DEF BatchRaises, Batch!Raise, shell, ContractInv
  <2>4. CASE BatchEnvironment
    BY <2>4, ContractsReadGold
       DEF BatchEnvironment, Batch!ReplaceInput, Batch!Tick, Batch!volume, shell, ContractInv
  <2>5. CASE Kill
    BY <2>5, ContractsReadGold
       DEF Kill, Batch!Crash, Batch!Stopped, Batch!volume, batch, ContractInv
  <2>6. CASE StreamStage
    BY <2>6, ContractsReadGold DEF StreamStage, BatchDone, batch, ContractInv
  <2>7. CASE EnterTimer \/ LeaveTimer \/ StartUnconfigured \/ StreamUnconfigured \/ Exit
    BY <2>7, ContractsReadGold
       DEF EnterTimer, LeaveTimer, StartUnconfigured, StreamUnconfigured, Exit, batch, ContractInv
  <2>8. CASE StreamStep \/ StreamRaises \/ (\E f \in Files : Arrive(f)) \/ UNCHANGED vars
    BY <2>8, ContractsReadGold
       DEF StreamStep, StreamRaises, Arrive, vars, batch, shell, ContractInv
  <2> QED
    BY <2>1, <2>2, <2>3, <2>4, <2>5, <2>6, <2>7, <2>8 DEF Next, Step
<1> QED  BY <1>1, <1>2, PTL DEF Spec

\* The loop runs only when the look at the directory found files.
LookInv ==
    /\ look \in {"none"} \cup Stream!Looks
    /\ process = "running" /\ stage = "batch" => look = "none"
    /\ stage = "stream" => look # "none"
    /\ stage = "stream" /\ stream_pc \notin Stream!Stopped => look = "found"

\* A statement of the loop, or an error in it, needs the loop to be running.
LEMMA LoopRuns == Stream!Step \/ Stream!Raise => stream_pc \notin Stream!Stopped
BY DEF Stream!Step, Stream!Poll, Stream!EndOfPass, Stream!Sleep, Stream!ParseStreamEvents,
       Stream!UpsertCurrentBalances, Stream!UpsertRecentTransactions, Stream!Retention,
       Stream!RecordProcessed, Stream!RetryLater, Stream!GiveUp, Stream!RecordFailed,
       Stream!Raise, Stream!PollRaises, Stream!StatementRaises, Stream!RecordProcessedRaises,
       Stream!HandlerRaises, Stream!Stopped

\* A process looks once, behind its batch stages and before anything else.
LEMMA LookInvariant == Spec => []LookInv
<1>1. Init => LookInv
  BY DEF Init, LookInv
<1>2. LookInv /\ [Next]_vars => LookInv'
  <2> SUFFICES ASSUME LookInv, [Next]_vars PROVE LookInv'
    OBVIOUS
  <2> USE DEF LookInv
  <2>1. CASE \E kind \in RestartKinds : Start(kind)
    BY <2>1 DEF Start
  <2>2. CASE StreamStage
    BY <2>2 DEF StreamStage, Stream!Start, Stream!Stopped, Stream!Looks
  <2>3. CASE StreamStep \/ StreamRaises
    BY <2>3, LoopRuns DEF StreamStep, StreamRaises, shell
  <2>4. CASE StartUnconfigured \/ StreamUnconfigured \/ Exit \/ EnterTimer \/ LeaveTimer
             \/ BatchStep \/ BatchRaises \/ BatchEnvironment \/ UNCHANGED vars
    BY <2>4 DEF StartUnconfigured, StreamUnconfigured, Exit, EnterTimer, LeaveTimer, BatchStep,
                BatchRaises, BatchEnvironment, stream, shell, vars
  <2>5. CASE Kill
    BY <2>5 DEF Kill, Stream!Crash, Stream!Stopped, stream
  <2>6. CASE \E f \in Files : Arrive(f)
    BY <2>6 DEF Arrive, Stream!Arrive, shell
  <2> QED
    BY <2>1, <2>2, <2>3, <2>4, <2>5, <2>6 DEF Next, Step
<1> QED  BY <1>1, <1>2, PTL DEF Spec

\* No step moves the stream tables before the gold tables on the volume keep the
\* contracts and the process has found stream files, and none that does touches
\* anything of the batch stages.
THEOREM StreamingIsLast == Spec => StreamAfterContracts
<1> DEFINE Behind == <<balances, recents>>' # <<balances, recents>> =>
                         ContractsHold /\ look = "found" /\ UNCHANGED batch
<1>1. ContractInv /\ LookInv /\ [Next]_vars => [Behind]_vars
  <2> SUFFICES ASSUME ContractInv, LookInv, Next, <<balances, recents>>' # <<balances, recents>>
               PROVE  ContractsHold /\ look = "found" /\ UNCHANGED batch
    OBVIOUS
  <2>1. CASE StreamStep
    <3>1. stream_pc \notin Stream!Stopped
      BY <2>1, LoopRuns DEF StreamStep
    <3> QED  BY <2>1, <3>1 DEF StreamStep, ContractInv, LookInv
  <2>2. CASE StreamStage
    BY <2>2 DEF StreamStage, Stream!Start, Stream!volume
  <2>3. CASE StreamRaises
    BY <2>3 DEF StreamRaises, Stream!Raise, Stream!PollRaises, Stream!StatementRaises,
                Stream!RecordProcessedRaises, Stream!HandlerRaises, Stream!volume
  <2>4. CASE Kill
    BY <2>4 DEF Kill, Stream!Crash, Stream!volume, stream
  <2>5. CASE \E f \in Files : Arrive(f)
    BY <2>5 DEF Arrive, Stream!Arrive
  <2>6. CASE EnterTimer \/ LeaveTimer \/ StartUnconfigured \/ StreamUnconfigured \/ Exit
             \/ (\E kind \in RestartKinds : Start(kind))
    BY <2>6 DEF EnterTimer, LeaveTimer, StartUnconfigured, StreamUnconfigured, Exit, Start, stream
  <2>7. CASE BatchStep \/ BatchRaises \/ BatchEnvironment
    BY <2>7 DEF BatchStep, BatchRaises, BatchEnvironment, stream
  <2> QED
    BY <2>1, <2>2, <2>3, <2>4, <2>5, <2>6, <2>7 DEF Next, Step
<1> QED  BY <1>1, ContractInvariant, LookInvariant, PTL DEF Spec, StreamAfterContracts

-----------------------------------------------------------------------------
(* The stages of the log.                                                  *)

BronzeStages == {"bronze.accounts", "bronze.transactions", "bronze.customers"}
SilverStages == {"silver.customers", "silver.accounts", "silver.transactions"}
GoldStages   == {"gold.dim_customers", "gold.dim_accounts", "gold.fact_transactions",
                 "gold.dq_report", "gold.contracts"}
Statements == BronzeStages \cup SilverStages \cup GoldStages

LayerOf(s) == IF s \in BronzeStages THEN "bronze"
              ELSE IF s \in SilverStages THEN "silver" ELSE "gold"

\* The points at which a statement is about to run, and its stage.
Working == Batch!PCs \ Batch!Stopped

StageAt(pc) == IF pc \in {"dq_report", "dq_report.dump"} THEN "gold.dq_report"
               ELSE IF pc = "contracts" THEN "gold.contracts" ELSE pc

\* The order in which stages end: a layer with its last statement.
Place(s) ==
    CASE s = "bronze.accounts"     -> 1
      [] s = "bronze.transactions" -> 2
      [] s = "bronze.customers"    -> 3
      [] s = "bronze"              -> 3
      [] s = "silver.customers"    -> 4
      [] s = "silver.accounts"     -> 5
      [] s = "silver.transactions" -> 6
      [] s = "silver"              -> 6
      [] s = "gold.dim_customers"     -> 7
      [] s = "gold.dim_accounts"      -> 8
      [] s = "gold.fact_transactions" -> 9
      [] s = "gold.dq_report"         -> 10
      [] s = "gold.contracts"         -> 11
      [] s = "gold"                   -> 11
      [] OTHER -> 12

\* The stages that end before the statement at pc begins, and the ones around it.
Before(pc) == {s \in Stages : Place(s) < Place(StageAt(pc))}
Around(pc) == IF pc \in Working THEN {LayerOf(StageAt(pc)), StageAt(pc)} ELSE {}

\* The open timers: none, a layer, or a statement in its layer.
Stacks == {<<>>} \cup {<<l>> : l \in Layers} \cup {<<LayerOf(s), s>> : s \in Statements}

Open == {s \in Stages : \E i \in 1 .. Len(timers) : timers[i] = s}

TimersInv ==
    /\ timers \in Stacks
    /\ process # "running" \/ stage = "stream" => timers = <<>>
    /\ log \subseteq [stage : Stages, event : {"start", "end", "failed"}]

BookInv ==
    process # "killed" => \A s \in Stages :
        /\ Logged(s, "start") <=> Logged(s, "end") \/ Logged(s, "failed") \/ s \in Open
        /\ ~(Logged(s, "end") /\ Logged(s, "failed"))
        /\ s \in Open => ~Logged(s, "end") /\ ~Logged(s, "failed")

\* A process on its way has opened nothing it has not reached and failed nothing;
\* one that has raised fails what was open.
PlaceInv ==
    /\ batch_pc \in Batch!PCs
    /\ LoadedConfig = "absent" =>
           process # "running" /\ log = {} /\ cause = "none" /\ batch_pc = "stopped"
    /\ process = "running" => batch_pc # "stopped"
    /\ process # "killed" /\ batch_pc # "exited" => Failed = {} /\ cause = "none"
    /\ process = "running" /\ stage = "batch" /\ batch_pc # "exited" =>
           /\ Open \subseteq Before(batch_pc) \cup Around(batch_pc)
           /\ \A s \in Stages : Logged(s, "start") => s \in Before(batch_pc) \cup Open
    /\ process # "killed" /\ batch_pc = "exited" =>
           /\ \E l \in Layers, s \in Statements : Failed \cup Open \subseteq {l, s}
           /\ cause \in {"Q1", "Q2", "Q3"} => "gold.contracts" \in Failed \cup Open
           /\ cause = "schema" => "bronze.transactions" \in Failed \cup Open

LogInv == TimersInv /\ BookInv /\ PlaceInv

-----------------------------------------------------------------------------
(* The stages and their places.                                            *)

\* What a statement's layer, and the stage of a program counter, are.
LEMMA StagesApart ==
    /\ Stages = Layers \cup Statements
    /\ Layers \cap Statements = {}
    /\ \A s \in Statements : LayerOf(s) \in Layers
    /\ \A pc \in Working : StageAt(pc) \in Statements
<1>1. Stages = Layers \cup Statements /\ Layers \cap Statements = {}
  BY DEF Stages, Layers, Statements, BronzeStages, SilverStages, GoldStages
<1>2. \A s \in Statements : LayerOf(s) \in Layers
  BY DEF LayerOf, Layers
<1>3. \A pc \in Working : StageAt(pc) \in Statements
  BY DEF Working, StageAt, Statements, BronzeStages, SilverStages, GoldStages,
         Batch!PCs, Batch!Stopped
<1> QED  BY <1>1, <1>2, <1>3

\* A layer ends no earlier than each of its statements, and everything ends
\* before the batch stages have completed.
LEMMA Places ==
    /\ \A s \in Stages : Place(s) \in 1 .. 11
    /\ \A s \in Statements : Place(s) <= Place(LayerOf(s))
    /\ Place(StageAt("completed")) = 12
<1>1. \A s \in Stages : Place(s) \in 1 .. 11
  BY DEF Stages, Place
<1>2. \A s \in BronzeStages : Place(s) <= Place(LayerOf(s))
  BY DEF BronzeStages, LayerOf, Place
<1>3. \A s \in SilverStages : Place(s) <= Place(LayerOf(s))
  BY DEF BronzeStages, SilverStages, LayerOf, Place
<1>4. \A s \in GoldStages : Place(s) <= Place(LayerOf(s))
  BY DEF BronzeStages, SilverStages, GoldStages, LayerOf, Place
<1>5. Place(StageAt("completed")) = 12
  BY DEF StageAt, Place
<1> QED  BY <1>1, <1>2, <1>3, <1>4, <1>5 DEF Statements

\* The timers around the statement the batch stages have reached are its layer's
\* and its own.
LEMMA DueTimers ==
    ASSUME batch_pc \in Batch!PCs
    PROVE  /\ batch_pc \in Working => Due = <<LayerOf(StageAt(batch_pc)), StageAt(batch_pc)>>
           /\ batch_pc \notin Working => Due = <<>>
<1> DEFINE bronzeT == BronzeTimers(batch_pc)
           silverT == SilverTimers(batch_pc)
           goldT   == GoldTimers(batch_pc)
<1>1. \A t \in Seq(Stages) : t \o <<>> = t /\ <<>> \o t = t
  BY ConcatEmptySeq
<1>2. Due = bronzeT \o silverT \o goldT
  BY DEF Due
<1>3. CASE batch_pc \in BronzeStages
  <2>1. bronzeT = <<"bronze", batch_pc>> /\ silverT = <<>> /\ goldT = <<>>
    BY <1>3 DEF BronzeStages, BronzeTimers, SilverTimers, GoldTimers
  <2>2. LayerOf(StageAt(batch_pc)) = "bronze" /\ StageAt(batch_pc) = batch_pc
    BY <1>3 DEF BronzeStages, LayerOf, StageAt
  <2>3. bronzeT \in Seq(Stages) /\ batch_pc \in Working
    BY <2>1, <1>3 DEF BronzeStages, Stages, Working, Batch!PCs, Batch!Stopped
  <2> HIDE DEF bronzeT, silverT, goldT
  <2> QED  BY <1>1, <1>2, <2>1, <2>2, <2>3
<1>4. CASE batch_pc \in SilverStages
  <2>1. bronzeT = <<>> /\ silverT = <<"silver", batch_pc>> /\ goldT = <<>>
    BY <1>4 DEF SilverStages, BronzeTimers, SilverTimers, GoldTimers
  <2>2. LayerOf(StageAt(batch_pc)) = "silver" /\ StageAt(batch_pc) = batch_pc
    BY <1>4 DEF BronzeStages, SilverStages, LayerOf, StageAt
  <2>3. silverT \in Seq(Stages) /\ batch_pc \in Working
    BY <2>1, <1>4 DEF SilverStages, Stages, Working, Batch!PCs, Batch!Stopped
  <2> HIDE DEF bronzeT, silverT, goldT
  <2> QED  BY <1>1, <1>2, <2>1, <2>2, <2>3
<1>5. CASE batch_pc \in Working \ (BronzeStages \cup SilverStages)
  <2>1. bronzeT = <<>> /\ silverT = <<>> /\ goldT = <<"gold", StageAt(batch_pc)>>
    BY <1>5 DEF Working, Batch!PCs, Batch!Stopped, BronzeStages, SilverStages, StageAt,
                BronzeTimers, SilverTimers, GoldTimers
  <2>2. StageAt(batch_pc) \in GoldStages /\ LayerOf(StageAt(batch_pc)) = "gold"
    BY <1>5 DEF Working, Batch!PCs, Batch!Stopped, BronzeStages, SilverStages, GoldStages,
                StageAt, LayerOf
  <2>3. goldT \in Seq(Stages)
    BY <2>1, <2>2 DEF GoldStages, Stages
  <2> HIDE DEF bronzeT, silverT, goldT
  <2>4. <<>> \o <<>> = <<>>
    BY <1>1
  <2> QED  BY <1>1, <1>2, <1>5, <2>1, <2>2, <2>3, <2>4
<1>6. CASE batch_pc \notin Working
  <2>1. bronzeT = <<>> /\ silverT = <<>> /\ goldT = <<>>
    BY <1>6 DEF Working, Batch!PCs, Batch!Stopped, BronzeTimers, SilverTimers, GoldTimers
  <2> HIDE DEF bronzeT, silverT, goldT
  <2>2. <<>> \o <<>> = <<>>
    BY <1>1
  <2> QED  BY <1>2, <1>6, <2>1, <2>2
<1> QED  BY <1>3, <1>4, <1>5, <1>6

-----------------------------------------------------------------------------
(* Opening and closing a timer.                                            *)

\* Prefixes of sequences of one and of two elements.
LEMMA ShortSequences ==
    ASSUME NEW a, NEW b
    PROVE  /\ SubSeq(<<a>>, 1, 0) = <<>>
           /\ SubSeq(<<a>>, 1, 1) = <<a>>
           /\ SubSeq(<<a, b>>, 1, 1) = <<a>>
           /\ SubSeq(<<a, b>>, 1, 2) = <<a, b>>
<1>1. SubSeq(<<a>>, 1, 0) = <<>>
  BY SubSeqEmpty
<1>2. <<a>> \in Seq({a, b}) /\ <<a, b>> \in Seq({a, b})
  OBVIOUS
<1>3. Len(<<a>>) = 1 /\ Len(<<a, b>>) = 2
  OBVIOUS
<1>4. SubSeq(<<a>>, 1, 1) = <<a>> /\ SubSeq(<<a, b>>, 1, 2) = <<a, b>>
  BY <1>2, <1>3, SubSeqFull
<1>5. SubSeq(<<a, b>>, 1, 1) = <<a>>
  <2> DEFINE t == SubSeq(<<a, b>>, 1, 1)
  <2>1. /\ t \in Seq({a, b}) /\ Len(t) = 1
        /\ \A i \in 1 .. 1 : t[i] = <<a, b>>[i]
    <3>1. \A i \in 1 .. 1 : <<a, b>>[i] \in {a, b}
      OBVIOUS
    <3> QED  BY <3>1, SubSeqProperties
  <2> HIDE DEF t
  <2>2. \A i \in 1 .. Len(t) : t[i] = <<a>>[i]
    BY <2>1
  <2>3. t = <<a>>
    BY <1>2, <1>3, <2>1, <2>2, SeqEqual
  <2> QED  BY <2>3 DEF t
<1> QED  BY <1>1, <1>4, <1>5

\* The open stages of a statement in its layer.
LEMMA OpenPair ==
    ASSUME NEW s \in Statements, timers = <<LayerOf(s), s>>
    PROVE  Open = {LayerOf(s), s}
<1>1. LayerOf(s) \in Stages /\ s \in Stages
  BY StagesApart
<1>2. Len(timers) = 2 /\ timers[1] = LayerOf(s) /\ timers[2] = s
  OBVIOUS
<1>3. \A i \in 1 .. Len(timers) : i = 1 \/ i = 2
  BY <1>2
<1>4. 1 \in 1 .. Len(timers) /\ 2 \in 1 .. Len(timers)
  BY <1>2
<1> QED  BY <1>1, <1>2, <1>3, <1>4 DEF Open

\* What an open timer is, for each shape of the stack.
LEMMA OpenTimers ==
    ASSUME timers \in Stacks
    PROVE  \/ timers = <<>> /\ Open = {}
           \/ (\E l \in Layers : timers = <<l>> /\ Open = {l})
           \/ (\E s \in Statements : timers = <<LayerOf(s), s>> /\ Open = {LayerOf(s), s})
<1>1. CASE timers = <<>>
  BY <1>1 DEF Open
<1>2. ASSUME NEW l \in Layers, timers = <<l>> PROVE Open = {l}
  BY <1>2, StagesApart DEF Open
<1>3. ASSUME NEW s \in Statements, timers = <<LayerOf(s), s>> PROVE Open = {LayerOf(s), s}
  BY <1>3, OpenPair
<1>4. timers = <<>> \/ (\E l \in Layers : timers = <<l>>)
                   \/ (\E s \in Statements : timers = <<LayerOf(s), s>>)
  BY DEF Stacks
<1> QED  BY <1>1, <1>2, <1>3, <1>4

\* No timers, no open stage.
LEMMA EmptyStack == timers = <<>> => Open = {}
BY DEF Open

\* A timer is opened around the statement that has been reached: its layer's,
\* then its own, and it was not open yet.
LEMMA TimerOpened ==
    ASSUME timers \in Stacks, batch_pc \in Batch!PCs, EnterTimer
    PROVE  /\ batch_pc \in Working
           /\ timers' \in Stacks
           /\ Last(timers') \in Around(batch_pc) \ Open
           /\ Open' = Open \cup {Last(timers')}
<1> DEFINE s == StageAt(batch_pc)
<1>1. IsPrefix(timers, Due) /\ timers # Due /\ timers' = SubSeq(Due, 1, Len(timers) + 1)
  BY DEF EnterTimer, IsStrictPrefix
<1>2. batch_pc \in Working
  <2> SUFFICES ASSUME Due = <<>> PROVE FALSE
    BY DueTimers
  <2>1. Len(timers) = 0
    BY <1>1, OpenTimers DEF IsPrefix
  <2> QED  BY <1>1, <2>1, OpenTimers
<1>3. Due = <<LayerOf(s), s>> /\ s \in Statements /\ LayerOf(s) \in Layers /\ s # LayerOf(s)
  BY <1>2, DueTimers, StagesApart
<1>4. Around(batch_pc) = {LayerOf(s), s}
  BY <1>2 DEF Around
<1> HIDE DEF s
<1>5. CASE timers = <<>>
  <2>1. timers' = <<LayerOf(s)>>
    BY <1>1, <1>3, <1>5, ShortSequences
  <2>2. timers' \in Stacks
    BY <2>1, <1>3 DEF Stacks
  <2>3. Open = {} /\ Open' = {LayerOf(s)}
    BY <1>3, <1>5, <2>1, StagesApart DEF Open
  <2>4. Last(timers') = LayerOf(s)
    BY <2>1 DEF Last
  <2> QED  BY <1>2, <1>4, <2>2, <2>3, <2>4
<1>6. CASE \E l \in Layers : timers = <<l>> /\ Open = {l}
  <2> PICK l \in Layers : timers = <<l>> /\ Open = {l}
    BY <1>6
  <2>1. l = LayerOf(s)
    <3>1. SubSeq(timers, 1, 1) = SubSeq(Due, 1, 1)
      BY <1>1 DEF IsPrefix
    <3>2. SubSeq(timers, 1, 1) = <<l>> /\ SubSeq(Due, 1, 1) = <<LayerOf(s)>>
      BY <1>3, ShortSequences
    <3>3. <<l>>[1] = l /\ <<LayerOf(s)>>[1] = LayerOf(s)
      OBVIOUS
    <3> QED  BY <3>1, <3>2, <3>3
  <2>2. timers' = <<LayerOf(s), s>>
    <3>1. Len(timers) + 1 = 2
      OBVIOUS
    <3> QED  BY <1>1, <1>3, <3>1, ShortSequences
  <2>3. timers' \in Stacks
    BY <2>2, <1>3 DEF Stacks
  <2>4. Open' = {LayerOf(s), s}
    <3>1. Len(timers') = 2 /\ timers'[1] = LayerOf(s) /\ timers'[2] = s
      BY <2>2
    <3>2. \A i \in 1 .. Len(timers') : i = 1 \/ i = 2
      BY <3>1
    <3>3. 1 \in 1 .. Len(timers') /\ 2 \in 1 .. Len(timers')
      BY <3>1
    <3>4. LayerOf(s) \in Stages /\ s \in Stages
      BY <1>3, StagesApart
    <3> QED  BY <3>1, <3>2, <3>3, <3>4 DEF Open
  <2>5. Last(timers') = s
    BY <2>2 DEF Last
  <2> QED  BY <1>2, <1>3, <1>4, <2>1, <2>3, <2>4, <2>5
<1>7. CASE \E x \in Statements : timers = <<LayerOf(x), x>>
  <2> PICK x \in Statements : timers = <<LayerOf(x), x>>
    BY <1>7
  <2>1. SubSeq(timers, 1, 2) = SubSeq(Due, 1, 2)
    BY <1>1 DEF IsPrefix
  <2>2. SubSeq(timers, 1, 2) = timers /\ SubSeq(Due, 1, 2) = Due
    BY <1>3, ShortSequences
  <2> QED  BY <1>1, <2>1, <2>2
<1> QED  BY <1>5, <1>6, <1>7, OpenTimers

\* The timer that is closed is an open one, and not one around the statement
\* that has been reached.
LEMMA TimerClosed ==
    ASSUME timers \in Stacks, batch_pc \in Batch!PCs, LeaveTimer
    PROVE  /\ timers' \in Stacks
           /\ Last(timers) \in Open \ Around(batch_pc)
           /\ Open' = Open \ {Last(timers)}
<1>1. ~IsPrefix(timers, Due) /\ timers' = Front(timers)
  BY DEF LeaveTimer
<1>2. CASE timers = <<>>
  <2>1. IsPrefix(<<>>, Due)
    BY DueTimers DEF IsPrefix
  <2> QED  BY <1>1, <1>2, <2>1
<1>3. CASE \E l \in Layers : timers = <<l>> /\ Open = {l}
  <2> PICK l \in Layers : timers = <<l>> /\ Open = {l}
    BY <1>3
  <2>1. timers' = <<>> /\ Last(timers) = l
    BY <1>1 DEF Front, Last
  <2>2. timers' \in Stacks /\ Open' = {}
    BY <2>1 DEF Stacks, Open
  <2>3. l \notin Around(batch_pc)
    <3> SUFFICES ASSUME batch_pc \in Working, l = LayerOf(StageAt(batch_pc)) PROVE FALSE
      BY StagesApart DEF Around
    <3>1. Due = <<l, StageAt(batch_pc)>>
      BY DueTimers
    <3>2. IsPrefix(<<l>>, Due)
      BY <3>1 DEF IsPrefix
    <3> QED  BY <1>1, <3>2
  <2> QED  BY <2>1, <2>2, <2>3
<1>4. CASE \E s \in Statements : timers = <<LayerOf(s), s>> /\ Open = {LayerOf(s), s}
  <2> PICK s \in Statements : timers = <<LayerOf(s), s>> /\ Open = {LayerOf(s), s}
    BY <1>4
  <2>1. timers' = <<LayerOf(s)>> /\ Last(timers) = s
    BY <1>1, ShortSequences DEF Front, Last
  <2>2. LayerOf(s) \in Layers /\ s # LayerOf(s)
    BY StagesApart
  <2>3. timers' \in Stacks
    BY <2>1, <2>2 DEF Stacks
  <2>4. Open' = {LayerOf(s)}
    BY <2>1, <2>2, StagesApart DEF Open
  <2>5. s \notin Around(batch_pc)
    <3> SUFFICES ASSUME batch_pc \in Working, s = StageAt(batch_pc) PROVE FALSE
      BY StagesApart DEF Around
    <3>1. Due = timers
      BY DueTimers
    <3>2. IsPrefix(timers, timers)
      BY DEF IsPrefix
    <3> QED  BY <1>1, <3>1, <3>2
  <2> QED  BY <2>1, <2>2, <2>3, <2>4, <2>5
<1> QED  BY <1>2, <1>3, <1>4, OpenTimers

-----------------------------------------------------------------------------
(* The log of a process.                                                   *)

\* The points a batch stage leads to when it does not raise.
Succession ==
    {<<"bronze.accounts", "bronze.transactions">>,
     <<"bronze.transactions", "bronze.customers">>,
     <<"bronze.customers", "silver.customers">>,
     <<"silver.customers", "silver.accounts">>,
     <<"silver.accounts", "silver.transactions">>,
     <<"silver.transactions", "gold.dim_customers">>,
     <<"gold.dim_customers", "gold.dim_accounts">>,
     <<"gold.dim_accounts", "gold.fact_transactions">>,
     <<"gold.fact_transactions", "dq_report">>,
     <<"dq_report", "dq_report.dump">>,
     <<"dq_report.dump", "contracts">>,
     <<"contracts", "completed">>}

\* The next statement is of a later stage or of the same, and of the same layer
\* or of one whose stages all come later.
LEMMA StagesInOrder ==
    ASSUME NEW from, NEW to, <<from, to>> \in Succession
    PROVE  /\ StageAt(from) = StageAt(to) \/ Place(StageAt(from)) < Place(StageAt(to))
           /\ LayerOf(StageAt(from)) = LayerOf(StageAt(to))
                  \/ Place(LayerOf(StageAt(from))) < Place(StageAt(to))
BY DEF Succession, StageAt, Place, LayerOf, BronzeStages, SilverStages

\* A batch stage does its work and leads to the next one, or it raises: Q1, Q2
\* and Q3 in the contracts, the schema in bronze.transactions.
LEMMA BatchStepLeads ==
    ASSUME Batch!Step
    PROVE  \/ <<batch_pc, batch_pc'>> \in Succession /\ (cause = "none" => cause' = "none")
           \/ /\ batch_pc' = "exited"
              /\ \/ batch_pc = "contracts" /\ cause' # "schema"
                 \/ batch_pc = "bronze.transactions" /\ cause' = "schema"
<1>1. CASE Batch!BronzeAccounts
  BY <1>1 DEF Batch!BronzeAccounts, Batch!WriteBronze, Succession
<1>2. CASE Batch!BronzeTransactions
  BY <1>2 DEF Batch!BronzeTransactions, Succession
<1>3. CASE Batch!BronzeCustomers
  BY <1>3 DEF Batch!BronzeCustomers, Batch!WriteBronze, Succession
<1>4. CASE Batch!SilverCustomers
  BY <1>4 DEF Batch!SilverCustomers, Batch!WriteSilver, Succession
<1>5. CASE Batch!SilverAccounts
  BY <1>5 DEF Batch!SilverAccounts, Batch!WriteSilver, Succession
<1>6. CASE Batch!SilverTransactions
  BY <1>6 DEF Batch!SilverTransactions, Batch!WriteSilver, Succession
<1>7. CASE Batch!BuildDimCustomers
  BY <1>7 DEF Batch!BuildDimCustomers, Batch!WriteGold, Succession
<1>8. CASE Batch!BuildDimAccounts
  BY <1>8 DEF Batch!BuildDimAccounts, Batch!WriteGold, Succession
<1>9. CASE Batch!BuildFactTransactions
  BY <1>9 DEF Batch!BuildFactTransactions, Batch!WriteGold, Succession
<1>10. CASE Batch!WriteDqReport
  BY <1>10 DEF Batch!WriteDqReport, Succession
<1>11. CASE Batch!DumpDqReport
  BY <1>11 DEF Batch!DumpDqReport, Succession
<1>12. CASE Batch!BronzeSchemaMismatch
  BY <1>12 DEF Batch!BronzeSchemaMismatch
<1>13. CASE Batch!AssertContractInvariants
  BY <1>13 DEF Batch!AssertContractInvariants, Batch!Verdict, Succession
<1> QED
  BY <1>1, <1>2, <1>3, <1>4, <1>5, <1>6, <1>7, <1>8, <1>9, <1>10, <1>11, <1>12, <1>13
     DEF Batch!Step

\* What has ended or is under way at one statement has ended or is under way at
\* the next.
LEMMA NothingReopens ==
    ASSUME NEW from, NEW to, <<from, to>> \in Succession
    PROVE  /\ from \in Working /\ to \in Batch!PCs \ {"stopped", "exited"}
           /\ Before(from) \subseteq Before(to)
           /\ Around(from) \subseteq Before(to) \cup Around(to)
<1>1. /\ from \in Working /\ to \in Working \cup {"completed"}
      /\ to \in Batch!PCs \ {"stopped", "exited"}
  BY DEF Succession, Working, Batch!PCs, Batch!Stopped
<1>2. Place(StageAt(from)) \in Nat /\ Place(StageAt(to)) \in Nat
  BY <1>1, StagesApart, Places
<1>3. Before(from) \subseteq Before(to)
  <2>1. Place(StageAt(from)) <= Place(StageAt(to))
    BY <1>2, StagesInOrder
  <2>2. \A s \in Stages : Place(s) \in Nat
    BY Places
  <2> QED  BY <1>2, <2>1, <2>2 DEF Before
<1>4. Around(from) = {LayerOf(StageAt(from)), StageAt(from)} /\ Around(from) \subseteq Stages
  BY <1>1, StagesApart DEF Around
<1>5. CASE to \in Working
  <2>1. Around(to) = {LayerOf(StageAt(to)), StageAt(to)}
    BY <1>5 DEF Around
  <2>2. StageAt(from) \in Before(to) \cup Around(to)
    BY <1>4, <2>1, StagesInOrder DEF Before
  <2>3. LayerOf(StageAt(from)) \in Before(to) \cup Around(to)
    BY <1>4, <2>1, StagesInOrder DEF Before
  <2> QED  BY <1>1, <1>3, <1>4, <2>2, <2>3
<1>6. CASE to = "completed"
  <2>1. \A s \in Stages : s \in Before(to)
    BY <1>6, Places DEF Before
  <2>2. Around(from) \subseteq Before(to)
    BY <1>4, <2>1
  <2> QED  BY <1>1, <1>3, <2>2
<1> QED  BY <1>1, <1>5, <1>6

\* The open timers of a process are at most a layer and a statement of it.
LEMMA FewOpen ==
    ASSUME timers \in Stacks
    PROVE  Open \subseteq Stages /\ \E l \in Layers, s \in Statements : Open \subseteq {l, s}
<1>1. "bronze" \in Layers /\ "gold.contracts" \in Statements
  BY DEF Layers, Statements, GoldStages
<1>2. \E l \in Layers, s \in Statements : Open \subseteq {l, s}
  BY <1>1, OpenTimers, StagesApart
<1> QED  BY <1>2 DEF Open

\* A statement runs inside its layer's timer and its own.
LEMMA OpenAtStatement ==
    ASSUME timers = Due, batch_pc \in Working
    PROVE  Open = {LayerOf(StageAt(batch_pc)), StageAt(batch_pc)}
<1>1. timers = <<LayerOf(StageAt(batch_pc)), StageAt(batch_pc)>>
  BY DueTimers DEF Working
<1> QED  BY <1>1, StagesApart, OpenPair

\* What the invariant reads of the log, the timers and the configuration.
LEMMA LogReads ==
    /\ UNCHANGED configs => LoadedConfig' = LoadedConfig
    /\ UNCHANGED timers => Open' = Open
    /\ UNCHANGED log => Failed' = Failed /\ \A s, e : Logged(s, e)' <=> Logged(s, e)
<1>1. UNCHANGED configs => LoadedConfig' = LoadedConfig
  BY DEF LoadedConfig
<1>2. UNCHANGED timers => Open' = Open
  BY DEF Open
<1>3. ASSUME UNCHANGED log PROVE \A s, e : Logged(s, e)' <=> Logged(s, e)
  BY <1>3 DEF Logged
<1>4. ASSUME UNCHANGED log PROVE Failed' = Failed
  BY <1>4 DEF Failed, Logged
<1> QED  BY <1>1, <1>2, <1>3, <1>4

\* The invariant: while a process runs its log is in step with its timers.
LEMMA LogInvariant == Spec => []LogInv
<1>1. Init => LogInv
  BY DEF Init, Batch!Init, LogInv, TimersInv, BookInv, PlaceInv, Stacks, Failed, Logged,
         Batch!PCs, Batch!Stopped
<1>2. LogInv /\ [Next]_vars => LogInv'
  <2> SUFFICES ASSUME LogInv, [Next]_vars PROVE LogInv'
    OBVIOUS
  <2>0. TimersInv /\ BookInv /\ PlaceInv
    BY DEF LogInv
  <2>1. CASE EnterTimer
    <3> DEFINE x == Last(timers')
    <3>1. /\ batch_pc \in Working /\ timers' \in Stacks
          /\ x \in Around(batch_pc) /\ x \notin Open /\ Open' = Open \cup {x}
      BY <2>0, <2>1, TimerOpened DEF TimersInv, PlaceInv
    <3>2. /\ log' = log \cup {[stage |-> x, event |-> "start"]}
          /\ process = "running" /\ stage = "batch"
          /\ UNCHANGED <<batch_pc, cause, configs, process, stage>>
      BY <2>1 DEF EnterTimer, batch
    <3> HIDE DEF x
    <3>3. /\ \A s : Logged(s, "start")' <=> Logged(s, "start") \/ s = x
          /\ \A s : Logged(s, "end")' <=> Logged(s, "end")
          /\ \A s : Logged(s, "failed")' <=> Logged(s, "failed")
      BY <3>2 DEF Logged
    <3>4. batch_pc # "exited" /\ LoadedConfig # "absent"
      BY <3>1, <3>2, <2>0 DEF Working, Batch!Stopped, PlaceInv
    <3>5. x \in Stages /\ x \notin Before(batch_pc)
      <4>1. /\ StageAt(batch_pc) \in Statements
            /\ x \in {LayerOf(StageAt(batch_pc)), StageAt(batch_pc)}
        BY <3>1, StagesApart DEF Around
      <4>2. x \in Stages /\ Place(StageAt(batch_pc)) <= Place(x)
        BY <4>1, StagesApart, Places
      <4>3. Place(StageAt(batch_pc)) \in Nat /\ Place(x) \in Nat
        BY <4>1, <4>2, StagesApart, Places
      <4> QED  BY <4>2, <4>3 DEF Before
    <3>6. ~Logged(x, "start")
      BY <3>1, <3>2, <3>4, <3>5, <2>0 DEF PlaceInv
    <3>7. ~Logged(x, "end") /\ ~Logged(x, "failed")
      BY <3>2, <3>5, <3>6, <2>0 DEF BookInv
    <3>8. TimersInv'
      BY <3>1, <3>2, <3>5, <2>0 DEF TimersInv
    <3>9. BookInv'
      BY <3>1, <3>2, <3>3, <3>7, <2>0 DEF BookInv
    <3>10. Failed' = Failed /\ LoadedConfig' = LoadedConfig
      BY <3>2, <3>3 DEF Failed, LoadedConfig
    <3>11. Before(batch_pc)' = Before(batch_pc) /\ Around(batch_pc)' = Around(batch_pc)
      BY <3>2
    <3>12. PlaceInv'
      BY <3>1, <3>2, <3>3, <3>4, <3>10, <3>11, <2>0 DEF PlaceInv
    <3> QED  BY <3>8, <3>9, <3>12 DEF LogInv
  <2>2. CASE LeaveTimer
    <3> DEFINE x == Last(timers)
    <3>1. /\ timers' \in Stacks
          /\ x \in Open /\ x \notin Around(batch_pc) /\ Open' = Open \ {x}
      BY <2>0, <2>2, TimerClosed DEF TimersInv, PlaceInv
    <3>2. /\ log' = log \cup {[stage |-> x, event |-> ExitEvent]}
          /\ process = "running" /\ stage = "batch"
          /\ UNCHANGED <<batch_pc, cause, configs, process, stage>>
      BY <2>2 DEF LeaveTimer, Event, batch
    <3> HIDE DEF x
    <3>3. x \in Stages /\ ~Logged(x, "end") /\ ~Logged(x, "failed") /\ Logged(x, "start")
      BY <3>1, <3>2, <2>0 DEF BookInv, Open
    <3>4. LoadedConfig' = LoadedConfig /\ LoadedConfig # "absent"
      BY <3>2, <2>0 DEF LoadedConfig, PlaceInv
    <3>5. Before(batch_pc)' = Before(batch_pc) /\ Around(batch_pc)' = Around(batch_pc)
      BY <3>2
    <3>6. CASE batch_pc = "exited"
      <4>1. /\ \A s : Logged(s, "start")' <=> Logged(s, "start")
            /\ \A s : Logged(s, "end")' <=> Logged(s, "end")
            /\ \A s : Logged(s, "failed")' <=> Logged(s, "failed") \/ s = x
        BY <3>2, <3>6 DEF Logged, ExitEvent
      <4>2. Failed' = Failed \cup {x}
        BY <4>1, <3>3 DEF Failed
      <4>3. Failed' \cup Open' = Failed \cup Open
        BY <4>2, <3>1
      <4>4. TimersInv'
        BY <3>1, <3>2, <3>3, <3>6, <2>0 DEF TimersInv, ExitEvent
      <4>5. BookInv'
        BY <3>1, <3>2, <3>3, <4>1, <2>0 DEF BookInv
      <4>6. PlaceInv'
        BY <3>2, <3>4, <3>6, <4>3, <2>0 DEF PlaceInv
      <4> QED  BY <4>4, <4>5, <4>6 DEF LogInv
    <3>7. CASE batch_pc # "exited"
      <4>1. /\ \A s : Logged(s, "start")' <=> Logged(s, "start")
            /\ \A s : Logged(s, "end")' <=> Logged(s, "end") \/ s = x
            /\ \A s : Logged(s, "failed")' <=> Logged(s, "failed")
        BY <3>2, <3>7 DEF Logged, ExitEvent
      <4>2. Failed' = Failed
        BY <4>1 DEF Failed
      <4>3. x \in Before(batch_pc)
        BY <3>1, <3>2, <3>7, <2>0 DEF PlaceInv
      <4>4. TimersInv'
        BY <3>1, <3>2, <3>3, <3>7, <2>0 DEF TimersInv, ExitEvent
      <4>5. BookInv'
        BY <3>1, <3>2, <3>3, <4>1, <2>0 DEF BookInv
      <4>6. PlaceInv'
        BY <3>1, <3>2, <3>4, <3>5, <3>7, <4>1, <4>2, <4>3, <2>0 DEF PlaceInv
      <4> QED  BY <4>4, <4>5, <4>6 DEF LogInv
    <3> QED  BY <3>6, <3>7
  <2>3. CASE BatchStep
    <3>1. /\ process = "running" /\ stage = "batch" /\ timers = Due /\ Batch!Step
          /\ UNCHANGED <<configs, process, stage, timers, log>>
      BY <2>3 DEF BatchStep, shell
    <3>2. batch_pc # "exited" /\ Failed = {} /\ cause = "none" /\ LoadedConfig # "absent"
      BY <3>1, <2>0, BatchStepLeads DEF PlaceInv, Succession
    <3>3. LoadedConfig' = LoadedConfig /\ Failed' = Failed /\ Open' = Open
          /\ \A s, e : Logged(s, e)' <=> Logged(s, e)
      BY <3>1, LogReads
    <3>4. TimersInv' /\ BookInv'
      BY <3>1, <3>3, <2>0 DEF TimersInv, BookInv
    <3>5. CASE <<batch_pc, batch_pc'>> \in Succession /\ (cause = "none" => cause' = "none")
      <4>1. /\ batch_pc' \in Batch!PCs \ {"stopped", "exited"}
            /\ Before(batch_pc) \subseteq Before(batch_pc')
            /\ Around(batch_pc) \subseteq Before(batch_pc') \cup Around(batch_pc')
        BY <3>5, NothingReopens
      <4>2. /\ Open \subseteq Before(batch_pc') \cup Around(batch_pc')
            /\ \A s \in Stages : Logged(s, "start") => s \in Before(batch_pc') \cup Open
        BY <3>1, <3>2, <4>1, <2>0 DEF PlaceInv
      <4>3. PlaceInv'
        BY <3>1, <3>2, <3>3, <3>5, <4>1, <4>2 DEF PlaceInv
      <4> QED  BY <3>4, <4>3 DEF LogInv
    <3>6. CASE /\ batch_pc' = "exited"
               /\ \/ batch_pc = "contracts" /\ cause' # "schema"
                  \/ batch_pc = "bronze.transactions" /\ cause' = "schema"
      <4>1. \E l \in Layers, s \in Statements : Failed \cup Open \subseteq {l, s}
        BY <3>2, <2>0, FewOpen DEF TimersInv
      <4>2. batch_pc \in Working => Open = {LayerOf(StageAt(batch_pc)), StageAt(batch_pc)}
        BY <3>1, OpenAtStatement
      <4>3. /\ cause' # "schema" => "gold.contracts" \in Open
            /\ cause' = "schema" => "bronze.transactions" \in Open
        BY <3>6, <4>2 DEF Working, Batch!PCs, Batch!Stopped, StageAt
      <4>4. PlaceInv'
        BY <3>1, <3>2, <3>3, <3>6, <4>1, <4>3 DEF PlaceInv, Batch!PCs, Batch!Stopped
      <4> QED  BY <3>4, <4>4 DEF LogInv
    <3> QED  BY <3>1, <3>5, <3>6, BatchStepLeads
  <2>4. CASE BatchRaises
    <3>1. /\ process = "running" /\ stage = "batch"
          /\ batch_pc \notin Batch!Stopped /\ batch_pc' = "exited" /\ cause' = "error"
          /\ UNCHANGED <<configs, process, stage, timers, log>>
      BY <2>4 DEF BatchRaises, Batch!Raise, shell
    <3>2. Failed = {} /\ LoadedConfig # "absent"
      BY <3>1, <2>0 DEF PlaceInv, Batch!Stopped
    <3>3. LoadedConfig' = LoadedConfig /\ Failed' = Failed /\ Open' = Open
          /\ \A s, e : Logged(s, e)' <=> Logged(s, e)
      BY <3>1, LogReads
    <3>4. TimersInv' /\ BookInv'
      BY <3>1, <3>3, <2>0 DEF TimersInv, BookInv
    <3>5. \E l \in Layers, s \in Statements : Failed \cup Open \subseteq {l, s}
      BY <3>2, <2>0, FewOpen DEF TimersInv
    <3>6. PlaceInv'
      BY <3>1, <3>2, <3>3, <3>5 DEF PlaceInv, Batch!PCs, Batch!Stopped
    <3> QED  BY <3>4, <3>6 DEF LogInv
  <2>5. CASE \E kind \in RestartKinds : Start(kind)
    <3>1. /\ process # "running" /\ process' = "running" /\ stage' = "batch"
          /\ LoadedConfig # "absent" /\ log' = {} /\ UNCHANGED <<configs, timers>>
          /\ batch_pc' = "bronze.accounts" /\ cause' = "none"
      BY <2>5 DEF Start, Batch!Start
    <3>2. timers = <<>> /\ timers' = <<>>
      BY <3>1, <2>0 DEF TimersInv
    <3>3. Open' = {} /\ Failed' = {} /\ \A s, e : ~Logged(s, e)'
      BY <3>1, <3>2 DEF Open, Failed, Logged
    <3>4. LoadedConfig' = LoadedConfig
      BY <3>1 DEF LoadedConfig
    <3>5. TimersInv'
      BY <3>1, <3>2 DEF TimersInv, Stacks
    <3>6. BookInv'
      BY <3>3 DEF BookInv
    <3>7. PlaceInv'
      BY <3>1, <3>3, <3>4 DEF PlaceInv, Batch!PCs
    <3> QED  BY <3>5, <3>6, <3>7 DEF LogInv
  <2>6. CASE StartUnconfigured
    <3>1. /\ process = "killed" /\ LoadedConfig = "absent" /\ process' = "exit 1"
          /\ UNCHANGED <<configs, timers, log, stage, batch_pc, cause>>
      BY <2>6 DEF StartUnconfigured, batch
    <3>2. log = {} /\ cause = "none" /\ batch_pc = "stopped" /\ timers = <<>>
      BY <3>1, <2>0 DEF PlaceInv, TimersInv
    <3>3. Open' = {} /\ Failed' = {} /\ \A s, e : ~Logged(s, e)'
      <4>1. Open = {} /\ Failed = {} /\ \A s, e : ~Logged(s, e)
        BY <3>2 DEF Open, Failed, Logged
      <4> QED  BY <3>1, <4>1, LogReads
    <3>4. TimersInv'
      BY <3>1, <3>2, <2>0 DEF TimersInv
    <3>5. BookInv'
      BY <3>3 DEF BookInv
    <3>6. PlaceInv'
      BY <3>1, <3>2, <3>3 DEF PlaceInv, Batch!PCs, Batch!Stopped
    <3> QED  BY <3>4, <3>5, <3>6 DEF LogInv
  <2>7. CASE Kill
    <3>1. /\ process = "running" /\ process' = "killed" /\ timers' = <<>>
          /\ UNCHANGED <<configs, log, stage>>
          /\ batch_pc' = batch_pc \/ batch_pc' = "stopped"
      BY <2>7 DEF Kill, Batch!Crash, batch
    <3>2. LoadedConfig' = LoadedConfig /\ LoadedConfig # "absent"
      BY <3>1, <2>0 DEF LoadedConfig, PlaceInv
    <3>3. TimersInv'
      BY <3>1, <2>0 DEF TimersInv, Stacks
    <3>4. BookInv' /\ PlaceInv'
      BY <3>1, <3>2, <2>0 DEF BookInv, PlaceInv, Batch!PCs, Batch!Stopped
    <3> QED  BY <3>3, <3>4 DEF LogInv
  <2>8. CASE StreamStage \/ StreamUnconfigured \/ Exit
    <3>1. /\ process = "running" /\ timers = <<>>
          /\ process' \in {"running", "exit 0", "exit 1"}
          /\ stage' = "stream" \/ process' # "running"
          /\ UNCHANGED <<configs, timers, log, batch_pc, cause>>
      BY <2>8, <2>0
         DEF StreamStage, StreamUnconfigured, Exit, BatchDone, BatchFailed, TimersInv, batch
    <3>2. LoadedConfig' = LoadedConfig /\ Failed' = Failed /\ Open' = Open
          /\ \A s, e : Logged(s, e)' <=> Logged(s, e)
      BY <3>1, LogReads
    <3>3. TimersInv'
      BY <3>1, <2>0 DEF TimersInv
    <3>4. BookInv' /\ PlaceInv'
      BY <3>1, <3>2, <2>0 DEF BookInv, PlaceInv
    <3> QED  BY <3>3, <3>4 DEF LogInv
  <2>9. CASE BatchEnvironment \/ StreamStep \/ StreamRaises \/ (\E f \in Files : Arrive(f))
             \/ UNCHANGED vars
    <3>1. UNCHANGED <<configs, process, stage, timers, log, batch_pc, cause>>
      BY <2>9 DEF BatchEnvironment, Batch!ReplaceInput, Batch!Tick, StreamStep, StreamRaises,
                  Arrive, vars, batch, shell
    <3>2. LoadedConfig' = LoadedConfig /\ Failed' = Failed /\ Open' = Open
          /\ \A s, e : Logged(s, e)' <=> Logged(s, e)
          /\ Before(batch_pc)' = Before(batch_pc) /\ Around(batch_pc)' = Around(batch_pc)
      BY <3>1, LogReads
    <3> QED  BY <3>1, <3>2, <2>0 DEF LogInv, TimersInv, BookInv, PlaceInv
  <2> QED
    BY <2>1, <2>2, <2>3, <2>4, <2>5, <2>6, <2>7, <2>8, <2>9 DEF Next, Step
<1> QED  BY <1>1, <1>2, PTL DEF Spec

-----------------------------------------------------------------------------
(* What the log says.                                                      *)

\* No step of the pipeline removes a stream file.
LEMMA FilesStay == [Next]_vars => dir \subseteq dir'
<1> SUFFICES ASSUME [Next]_vars PROVE dir \subseteq dir'
  OBVIOUS
<1>1. CASE StreamStep
  BY <1>1 DEF StreamStep, Stream!Step, Stream!Poll, Stream!EndOfPass, Stream!Sleep,
              Stream!ParseStreamEvents, Stream!UpsertCurrentBalances,
              Stream!UpsertRecentTransactions, Stream!Retention, Stream!RecordProcessed,
              Stream!RetryLater, Stream!GiveUp, Stream!RecordFailed, Stream!volume
<1>2. CASE StreamRaises
  BY <1>2 DEF StreamRaises, Stream!Raise, Stream!PollRaises, Stream!StatementRaises,
              Stream!RecordProcessedRaises, Stream!HandlerRaises, Stream!volume
<1>3. CASE StreamStage
  BY <1>3 DEF StreamStage, Stream!Start, Stream!volume
<1>4. CASE Kill
  BY <1>4 DEF Kill, Stream!Crash, Stream!volume, stream
<1>5. CASE \E f \in Files : Arrive(f)
  BY <1>5 DEF Arrive, Stream!Arrive
<1>6. CASE EnterTimer \/ LeaveTimer \/ BatchStep \/ BatchRaises \/ BatchEnvironment
           \/ StreamUnconfigured \/ StartUnconfigured \/ Exit
           \/ (\E kind \in RestartKinds : Start(kind)) \/ UNCHANGED vars
  BY <1>6 DEF EnterTimer, LeaveTimer, BatchStep, BatchRaises, BatchEnvironment,
              StreamUnconfigured, StartUnconfigured, Exit, Start, stream, vars
<1> QED  BY <1>1, <1>2, <1>3, <1>4, <1>5, <1>6 DEF Next, Step

\* The variables of the process that the log's invariant leaves open.
ProcessInv ==
    /\ configs \in [1 .. 3 -> ConfigKinds]
    /\ process \in {"running", "killed", "exit 0", "exit 1"}
    /\ stage \in {"batch", "stream"}
    /\ present \subseteq dir

\* They keep their shape, and the files of the start or the look stay in the directory.
LEMMA ProcessInvariant == Spec => []ProcessInv
<1>1. Init => ProcessInv
  BY PipelineAssumption DEF Init, ProcessInv
<1>2. ProcessInv /\ [Next]_vars => ProcessInv'
  <2> SUFFICES ASSUME ProcessInv, [Next]_vars PROVE ProcessInv'
    OBVIOUS
  <2>0. dir \subseteq dir'
    BY FilesStay
  <2>1. CASE \E kind \in RestartKinds : Start(kind)
    BY <2>0, <2>1 DEF Start, ProcessInv
  <2>2. CASE StreamStage \/ StartUnconfigured \/ StreamUnconfigured \/ Exit \/ Kill
    BY <2>0, <2>2 DEF StreamStage, StartUnconfigured, StreamUnconfigured, Exit, Kill, ProcessInv
  <2>3. CASE EnterTimer \/ LeaveTimer \/ BatchStep \/ BatchRaises \/ BatchEnvironment
             \/ StreamStep \/ StreamRaises \/ (\E f \in Files : Arrive(f)) \/ UNCHANGED vars
    BY <2>0, <2>3 DEF EnterTimer, LeaveTimer, BatchStep, BatchRaises, BatchEnvironment,
                      StreamStep, StreamRaises, Arrive, shell, vars, ProcessInv
  <2> QED  BY <2>1, <2>2, <2>3 DEF Next, Step
<1> QED  BY <1>1, <1>2, PTL DEF Spec

\* The type invariant of what the entry point adds to its components: no timer is
\* open once the batch stages are over, and the stack is never deeper than two.
THEOREM ProcessTyped == Spec => []TypeOK
<1>1. LogInv /\ ShellInv /\ LookInv /\ ProcessInv => TypeOK
  <2> SUFFICES ASSUME LogInv, ShellInv, LookInv, ProcessInv PROVE TypeOK
    OBVIOUS
  <2>1. TimersInv
    BY DEF LogInv
  <2>2. timers \in Seq(Stages) /\ Len(timers) <= 2
    <3>1. CASE timers = <<>>
      BY <3>1
    <3>2. CASE \E l \in Layers : timers = <<l>>
      BY <3>2, StagesApart
    <3>3. CASE \E s \in Statements : timers = <<LayerOf(s), s>>
      <4> PICK s \in Statements : timers = <<LayerOf(s), s>>
        BY <3>3
      <4>1. LayerOf(s) \in Stages /\ s \in Stages
        BY StagesApart
      <4> QED  BY <4>1
    <3> QED  BY <2>1, <3>1, <3>2, <3>3, OpenTimers DEF TimersInv
  <2> QED  BY <2>1, <2>2 DEF TimersInv, ShellInv, LookInv, ProcessInv, TypeOK
<1> QED  BY <1>1, LogInvariant, ShellInvariant, LookInvariant, ProcessInvariant, PTL

\* However a process ends by itself, its log closes every stage it opened, once,
\* and what failed is the statement that raised and its layer; a violated contract
\* fails gold.contracts, an unknown column bronze.transactions.
THEOREM LogNamesFailure == Spec => []FailureIsNamed
<1>1. LogInv => FailureIsNamed
  <2> SUFFICES ASSUME LogInv, process \in {"exit 0", "exit 1"} PROVE FailureIsNamed
    BY DEF FailureIsNamed
  <2>0. TimersInv /\ BookInv /\ PlaceInv
    BY DEF LogInv
  <2>1. timers = <<>> /\ Open = {}
    BY <2>0, EmptyStack DEF TimersInv
  <2>2. \A s \in Stages :
            /\ Logged(s, "start") <=> (Logged(s, "end") \/ Logged(s, "failed"))
            /\ ~(Logged(s, "end") /\ Logged(s, "failed"))
    BY <2>0, <2>1 DEF BookInv
  <2>3. /\ cause \in {"Q1", "Q2", "Q3"} => "gold.contracts" \in Failed
        /\ cause = "schema" => "bronze.transactions" \in Failed
        /\ \E l \in Layers, s \in Statements : Failed \subseteq {l, s}
    <3>1. CASE batch_pc = "exited"
      BY <3>1, <2>0, <2>1 DEF PlaceInv
    <3>2. CASE batch_pc # "exited"
      <4>1. Failed = {} /\ cause = "none"
        BY <3>2, <2>0 DEF PlaceInv
      <4>2. "bronze" \in Layers /\ "gold.contracts" \in Statements
        BY DEF Layers, Statements, GoldStages
      <4> QED  BY <4>1, <4>2
    <3> QED  BY <3>1, <3>2
  <2>4. Statements = Stages \ Layers
    BY StagesApart
  <2> QED  BY <2>2, <2>3, <2>4 DEF FailureIsNamed, Failed
<1> QED  BY <1>1, LogInvariant, PTL
=============================================================================
