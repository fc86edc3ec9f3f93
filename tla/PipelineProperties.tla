-------------------------- MODULE PipelineProperties --------------------------
(***************************************************************************)
(* What one run of the pipeline promises, over the states of PipelineRun:  *)
(* what its exit code and its log say of the tables on the data volume.    *)
(***************************************************************************)
EXTENDS PipelineRun

Stages == {"bronze", "bronze.accounts", "bronze.transactions", "bronze.customers",
           "silver", "silver.customers", "silver.accounts", "silver.transactions",
           "gold", "gold.dim_customers", "gold.dim_accounts", "gold.fact_transactions",
           "gold.dq_report", "gold.contracts"}

Layers == {"bronze", "silver", "gold"}

Logged(s, e) == [stage |-> s, event |-> e] \in log
Failed == {s \in Stages : Logged(s, "failed")}

\* The type invariant of what the entry point adds to its two components.
TypeOK ==
    /\ configs \in [1 .. 3 -> ConfigKinds]
    /\ process \in {"running", "killed", "exit 0", "exit 1"}
    /\ stage \in {"batch", "stream"}
    /\ timers \in Seq(Stages) /\ Len(timers) <= 2
    /\ process # "running" \/ stage = "stream" => timers = <<>>
    /\ log \subseteq [stage : Stages, event : {"start", "end", "failed"}]
    /\ container \in {"none"} \cup RestartKinds
    /\ look \in {"none"} \cup Stream!Looks /\ present \subseteq dir

\* Q1, Q2 and Q3 of the gold tables now on the volume.
ContractsHold ==
    /\ ~(Batch!Q1 < MinTypes)
    /\ Batch!Q2 = 0
    /\ Batch!Q3 \in 1 .. MaxProvinces

\* A run wrote these gold tables one after the other, and the report is of them:
\* not the truncated file a kill leaves, nor the report of an earlier run. Only a
\* count that raised may be 0.
GoldIsWhole ==
    /\ \E o \in outcomes : o.gold = gold
    /\ report # NoTable
    /\ \E unread \in SUBSET Batch!GoldTables :
           report.gold_layer_record_counts =
               [t \in Batch!GoldTables |-> Batch!Counted(gold[t], unread, t)]

Settled(f) == f \in merged \/ failures[f] > MAX_RETRIES

\* README.md, exit code 0: "Pipeline completed and all Q1 / Q2 / Q3 contracts
\* verified". The gold tables and the report are whole and keep the contracts, no
\* stage failed, and every stream file that was there when run_all looked is in both
\* tables or was given up. Only a look that raised leaves files: it counts as an
\* empty directory (_stream_files_exist), and the exit code does not show it.
ExitZeroIsEarned ==
    process = "exit 0" =>
        /\ GoldIsWhole /\ ContractsHold
        /\ Failed = {}
        /\ look # "failed" => \A f \in present : Settled(f)

\* README.md, exit code 1: a violated contract fails gold.contracts; an unknown
\* column fails bronze.transactions. The log of a process that ended by itself
\* closes every stage it opened, once, as ended or failed, and what failed is one
\* statement and the layer it belongs to.
FailureIsNamed ==
    process \in {"exit 0", "exit 1"} =>
        /\ cause \in {"Q1", "Q2", "Q3"} => Logged("gold.contracts", "failed")
        /\ cause = "schema" => Logged("bronze.transactions", "failed")
        /\ \A s \in Stages :
               Logged(s, "start") <=> (Logged(s, "end") \/ Logged(s, "failed"))
        /\ \A s \in Stages : ~(Logged(s, "end") /\ Logged(s, "failed"))
        /\ \E layer \in Layers, statement \in Stages \ Layers : Failed \subseteq {layer, statement}

\* What the log says of the volume: a layer that has ended is there and holds this
\* run's input, not what an earlier run had put there; when the report has ended
\* the gold tables and it are whole, also for a run that fails a contract next,
\* and after the last stage they keep the contracts.
LogTellsLayers ==
    /\ batch_pc \notin Batch!Stopped /\ Logged("bronze", "end") =>
           \A t \in Batch!SourceTables : bronze[t] # NoTable /\ bronze[t].rows = input[t]
    /\ batch_pc \notin Batch!Stopped /\ Logged("silver", "end") =>
           /\ \A t \in Batch!SourceTables : silver[t] # NoTable
           /\ silver["customers"].rows \subseteq {Batch!ToSilverCustomer(r) : r \in input.customers}
           /\ silver["accounts"].rows \subseteq input.accounts
           /\ silver["transactions"].rows \subseteq
                  {Batch!ToSilverTxn(r, silver["accounts"].rows) : r \in input.transactions}
    /\ Logged("gold.dq_report", "end") => GoldIsWhole
    /\ Logged("gold", "end") => ContractsHold

\* The stream tables only move in a process whose batch stages have put gold
\* tables on the volume that keep the contracts and which has then found files, and
\* move nothing of those.
StreamAfterContracts ==
    [][<<balances, recents>>' # <<balances, recents>> =>
           ContractsHold /\ look = "found" /\ UNCHANGED batch]_vars

\* Every process comes to an end, under FairSpec: the batch stages reach their
\* end or an error, and no stream file keeps the loop busy for ever.
Terminates == process = "running" ~> process # "running"
-----------------------------------------------------------------------------
(* The process as a job of PipelineJob.                                    *)

\* The contracts as README.md states them, of gold tables g.
KeepsContracts(g) ==
    /\ ~(Cardinality({r.txn.transaction_type : r \in g["fact_transactions"]} \ {NULL}) < MinTypes)
    /\ \A a \in g["dim_accounts"] : \E c \in g["dim_customers"] : c.customer_id = a.customer_id
    /\ Cardinality({c.province : c \in g["dim_customers"]} \ {NULL}) \in 1 .. MaxProvinces

\* How far the gold tables of the last process have come, and what it vouches for.
Phase ==
    CASE batch_pc = "completed" -> "verified"
      [] batch_pc \in {"dq_report", "dq_report.dump", "contracts"} -> "whole"
      [] batch_pc \in {"stopped", "exited"} -> "broken"
      [] OTHER -> "writing"

Vouched == IF Phase \in {"whole", "verified"} THEN gold ELSE NoTable

Rules == INSTANCE BatchProperties
    WITH Inputs <- BatchInputs, pc <- batch_pc, runs <- batch_runs, faults <- batch_faults

Job == INSTANCE PipelineJob
    WITH Inputs <- BatchInputs, Allowed <- Rules!IsGoldOf, Kept <- KeepsContracts,
         Unknown <- NoTable, phase <- Phase, tables <- Vouched, effect <- applied,
         settled <- processed, strikes <- retry_counts, arrived <- dir, owed <- present

\* The nine overwrites, the timers, the loop and its state files act together as one
\* job: gold tables that its input allows are published as a whole, then verified,
\* then stream files are fed and nothing of the tables is taken back, and exit
\* code 0 comes only after all of it. An error or a kill at any point between
\* leaves gold unvouched for, or verified.
IsAJob == Job!Spec

=============================================================================
