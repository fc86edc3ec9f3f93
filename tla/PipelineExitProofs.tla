-------------------------- MODULE PipelineExitProofs --------------------------
(***************************************************************************)
(* Theorems about what an operator may conclude. From the log: a layer     *)
(* called ended is on the volume and holds this run's input. From exit     *)
(* code 0: behind it stand gold tables that one run wrote from end to end, *)
(* a report of those tables, kept contracts, a log without a failed stage, *)
(* and stream files that are all dealt with.  And from the proofs of the   *)
(* components: what they show of the stages holds of the whole process,    *)
(* which is thereby a job of PipelineJob.                                  *)
(***************************************************************************)
EXTENDS PipelineProofs, WellFoundedInduction

-----------------------------------------------------------------------------
(* The stream files.                                                       *)

\* What the loop skips, and what it is about to skip, is settled.
SettledInv ==
    /\ dir \subseteq Files /\ new_files \subseteq Files
    /\ processed \subseteq Files /\ processed_state \subseteq Files
    /\ retry_counts \in [Files -> Nat] /\ failures \in [Files -> Nat]
    /\ \A f \in Files : retry_counts[f] <= failures[f]
    /\ stream_pc \in Stream!InFile => new_files # {}
    /\ stream_pc \in {"retention", "record"} => Stream!Current \in merged
    /\ \A f \in processed \cup processed_state : Settled(f)

\* The bounds of StreamIngest that the proofs need.
LEMMA StreamConstants == Files \subseteq Nat /\ PreStaged \subseteq Files /\ MAX_RETRIES \in Nat
BY ComponentAssumptions DEF Stream!TablesAssumption, Stream!IngestAssumption

\* Within a pass the current file is one of those still to take.
LEMMA CurrentIsNew ==
    ASSUME new_files \subseteq Files, new_files # {}
    PROVE  Stream!Current \in new_files
<1>1. new_files \subseteq Nat
  BY StreamConstants
<1>2. PICK m \in new_files : \A y \in new_files : ~ (<<y, m>> \in OpToRel(<, Nat))
  BY <1>1, NatLessThanWellFounded, WFMin, Zenon
<1>3. \A y \in new_files : ~ (y < m)
  BY <1>1, <1>2, Zenon DEF OpToRel
<1>4. \A y \in new_files : m <= y
  BY <1>1, <1>3
<1> QED  BY <1>4 DEF Stream!Current, Stream!Min

\* A failed attempt is counted in memory and in the history alike.
LEMMA AttemptCounted ==
    ASSUME SettledInv, Stream!CountAttempt, Stream!Current \in Files
    PROVE  /\ retry_counts' \in [Files -> Nat] /\ failures' \in [Files -> Nat]
           /\ \A f \in Files : retry_counts'[f] <= failures'[f] /\ failures'[f] >= failures[f]
           /\ Stream!Exhausted => failures'[Stream!Current] > MAX_RETRIES
<1> DEFINE c == Stream!Current
<1>1. /\ retry_counts' = [retry_counts EXCEPT ![c] = retry_counts[c] + 1]
      /\ failures' = [failures EXCEPT ![c] = failures[c] + 1]
  BY DEF Stream!CountAttempt, Stream!Attempts
<1>2. Stream!Exhausted => retry_counts[c] + 1 > MAX_RETRIES
  BY DEF Stream!Exhausted, Stream!Attempts
<1> HIDE DEF c
<1>3. c \in Files
  BY DEF c
<1>4. /\ retry_counts' \in [Files -> Nat] /\ failures' \in [Files -> Nat]
      /\ \A f \in Files : retry_counts'[f] <= failures'[f] /\ failures'[f] >= failures[f]
  BY <1>1, <1>3 DEF SettledInv
<1>5. Stream!Exhausted => failures'[c] > MAX_RETRIES
  BY <1>1, <1>2, <1>3, StreamConstants DEF SettledInv
<1> QED  BY <1>4, <1>5 DEF c

\* Each step of the streaming stage, of its failures and of its environment keeps it.
LEMMA SettledNext == SettledInv /\ [Stream!Next]_stream => SettledInv'
<1> SUFFICES ASSUME SettledInv, Stream!Next \/ UNCHANGED stream PROVE SettledInv'
  OBVIOUS
<1> USE DEF SettledInv, Settled, Stream!volume, Stream!tmp, Stream!memory, Stream!pass,
            Stream!bounds, Stream!history, Stream!InFile
<1>1. new_files # {} => Stream!Current \in new_files
  BY CurrentIsNew
<1>2. new_files' = new_files => Stream!Current' = Stream!Current
  BY DEF Stream!Current
<1>3. CASE Stream!Poll
  BY <1>3 DEF Stream!Poll, Stream!NewFiles
<1>4. CASE Stream!EndOfPass \/ Stream!Sleep
  BY <1>4 DEF Stream!EndOfPass, Stream!Sleep
<1>5. CASE Stream!ParseStreamEvents
  BY <1>5, <1>2 DEF Stream!ParseStreamEvents
<1>6. CASE Stream!UpsertCurrentBalances
  BY <1>6, <1>2 DEF Stream!UpsertCurrentBalances
<1>7. CASE Stream!UpsertRecentTransactions
  BY <1>7, <1>2 DEF Stream!UpsertRecentTransactions
<1>8. CASE Stream!Retention
  BY <1>8, <1>2 DEF Stream!Retention
<1>9. CASE Stream!RecordProcessed
  <2>1. Stream!Current \in Files /\ Stream!Current \in merged
    BY <1>1, <1>9 DEF Stream!RecordProcessed
  <2>2. retry_counts' \in [Files -> Nat] /\ \A f \in Files : retry_counts'[f] <= failures[f]
    BY <1>9, <2>1 DEF Stream!RecordProcessed
  <2> QED  BY <1>9, <2>1, <2>2 DEF Stream!RecordProcessed, Stream!NextFile
<1>10. CASE Stream!RetryLater
  <2>1. Stream!Current \in Files
    BY <1>1, <1>10 DEF Stream!RetryLater
  <2>2. /\ retry_counts' \in [Files -> Nat] /\ failures' \in [Files -> Nat]
        /\ \A f \in Files : retry_counts'[f] <= failures'[f] /\ failures'[f] >= failures[f]
    BY <1>10, <2>1, AttemptCounted DEF Stream!RetryLater
  <2>3. \A f \in Files : Settled(f) => Settled(f)'
    BY <1>10, <2>2, StreamConstants DEF Stream!RetryLater
  <2> QED  BY <1>10, <2>2, <2>3 DEF Stream!RetryLater, Stream!NextFile
<1>11. CASE Stream!GiveUp
  <2>1. Stream!Current \in Files
    BY <1>1, <1>11 DEF Stream!GiveUp
  <2>2. /\ retry_counts' \in [Files -> Nat] /\ failures' \in [Files -> Nat]
        /\ \A f \in Files : retry_counts'[f] <= failures'[f] /\ failures'[f] >= failures[f]
        /\ failures'[Stream!Current] > MAX_RETRIES
    BY <1>11, <2>1, AttemptCounted DEF Stream!GiveUp
  <2>3. (\A f \in Files : Settled(f) => Settled(f)') /\ Settled(Stream!Current)'
    BY <1>2, <1>11, <2>1, <2>2, StreamConstants DEF Stream!GiveUp
  <2> QED  BY <1>2, <1>11, <2>1, <2>2, <2>3 DEF Stream!GiveUp
<1>12. CASE Stream!RecordFailed
  BY <1>12 DEF Stream!RecordFailed, Stream!NextFile
<1>13. CASE Stream!PollRaises \/ Stream!StatementRaises
  BY <1>13, <1>2 DEF Stream!PollRaises, Stream!StatementRaises
<1>14. CASE Stream!RecordProcessedRaises
  BY <1>1, <1>2, <1>14 DEF Stream!RecordProcessedRaises
<1>15. CASE Stream!HandlerRaises
  <2>1. CASE UNCHANGED <<processed, retry_counts, failures>>
    BY <1>2, <1>15, <2>1 DEF Stream!HandlerRaises
  <2>2. CASE /\ stream_pc = "except" /\ Stream!Exhausted /\ Stream!CountAttempt
             /\ processed' = processed \cup {Stream!Current}
    <3>1. Stream!Current \in Files
      BY <1>1, <2>2
    <3>2. /\ retry_counts' \in [Files -> Nat] /\ failures' \in [Files -> Nat]
          /\ \A f \in Files : retry_counts'[f] <= failures'[f] /\ failures'[f] >= failures[f]
          /\ failures'[Stream!Current] > MAX_RETRIES
      BY <2>2, <3>1, AttemptCounted
    <3>3. (\A f \in Files : Settled(f) => Settled(f)') /\ Settled(Stream!Current)'
      BY <1>2, <1>15, <3>1, <3>2, StreamConstants DEF Stream!HandlerRaises
    <3> QED  BY <1>15, <2>2, <3>1, <3>2, <3>3 DEF Stream!HandlerRaises
  <2> QED  BY <1>15, <2>1, <2>2 DEF Stream!HandlerRaises
<1>16. CASE Stream!Crash
  BY <1>16 DEF Stream!Crash
<1>17. CASE \E kind \in RestartKinds, result \in Stream!Looks : Stream!Start(kind, result)
  BY <1>17 DEF Stream!Start, Stream!KeptTmp
<1>18. CASE \E f \in Files : Stream!Arrive(f)
  BY <1>18, <1>2 DEF Stream!Arrive
<1>19. CASE UNCHANGED stream
  BY <1>19, <1>2 DEF stream
<1> QED
  BY <1>3, <1>4, <1>5, <1>6, <1>7, <1>8, <1>9, <1>10, <1>11, <1>12, <1>13, <1>14, <1>15,
     <1>16, <1>17, <1>18, <1>19 DEF Stream!Next, Stream!Step, Stream!Raise

\* Whatever the pipeline does, a file that is skipped is settled.
LEMMA SettledInvariant == Spec => []SettledInv
<1>1. Init => SettledInv
  BY StreamConstants DEF Init, Stream!Init, SettledInv, Stream!InFile
<1>2. Stream!Init /\ [][Stream!Next]_(Stream!vars) => []SettledInv
  <2>1. Stream!Init => SettledInv
    BY StreamConstants DEF Stream!Init, SettledInv, Stream!InFile
  <2>2. UNCHANGED Stream!vars => UNCHANGED stream
    BY DEF stream, Stream!vars, Stream!volume, Stream!tmp, Stream!memory, Stream!pass,
           Stream!bounds, Stream!history
  <2>3. SettledInv /\ [Stream!Next]_(Stream!vars) => SettledInv'
    BY <2>2, SettledNext
  <2> QED  BY <2>1, <2>3, PTL
<1> QED  BY <1>2, RunsStreamIngest, PTL DEF Stream!Spec

-----------------------------------------------------------------------------
(* The tables of a run.                                                    *)

\* What marks an absent table or a truncated file is neither a table nor a report.
NoTableIsNothing ==
    /\ \A rows, stamp : NoTable # [rows |-> rows, stamp |-> stamp]
    /\ \A rows, stamp, optional :
           NoTable # [rows |-> rows, stamp |-> stamp, optional |-> optional]
    /\ \A day, counts, issues, rows :
           NoTable # [run_timestamp |-> day, source_record_counts |-> counts,
                      dq_issues |-> issues, gold_layer_record_counts |-> rows]

InGold   == {"gold.dim_customers", "gold.dim_accounts", "gold.fact_transactions",
             "dq_report", "dq_report.dump", "contracts"}
InSilver == {"silver.customers", "silver.accounts", "silver.transactions"}

HoldsBronze(t) == bronze[t] # NoTable /\ bronze[t].rows = input[t]

\* Each bronze table, from its write to the end of the run, is of this input.
BronzeInv ==
    /\ bronze = [t \in Batch!SourceTables |-> bronze[t]]
    /\ batch_pc \in {"bronze.transactions", "bronze.customers"} \cup InSilver \cup InGold =>
           HoldsBronze("accounts")
    /\ batch_pc \in {"bronze.customers"} \cup InSilver \cup InGold => HoldsBronze("transactions")
    /\ batch_pc \in InSilver \cup InGold => HoldsBronze("customers")

\* Each silver table is what the conversions make of this input.
SilverInv ==
    /\ silver = [t \in Batch!SourceTables |-> silver[t]]
    /\ batch_pc \in {"silver.accounts", "silver.transactions"} \cup InGold =>
           /\ silver["customers"] # NoTable
           /\ silver["customers"].rows \subseteq {Batch!ToSilverCustomer(r) : r \in input.customers}
    /\ batch_pc \in {"silver.transactions"} \cup InGold =>
           silver["accounts"] # NoTable /\ silver["accounts"].rows \subseteq input.accounts
    /\ batch_pc \in InGold =>
           /\ silver["transactions"] # NoTable
           /\ silver["transactions"].rows \subseteq
                  {Batch!ToSilverTxn(r, silver["accounts"].rows) : r \in input.transactions}

\* Every statement keeps both: one case per statement that writes them.
LEMMA LayersNext ==
    ASSUME NoTableIsNothing
    PROVE  BronzeInv /\ SilverInv /\ [Batch!Next]_batch => BronzeInv' /\ SilverInv'
<1> SUFFICES ASSUME BronzeInv, SilverInv, Batch!Next \/ UNCHANGED batch
             PROVE  BronzeInv' /\ SilverInv'
  OBVIOUS
<1> USE DEF Batch!volume, Batch!memory, Batch!bounds, Batch!Stopped, InGold, InSilver,
            HoldsBronze, Batch!SourceTables
<1>1. CASE Batch!BronzeAccounts
  <2>1. /\ bronze' = [bronze EXCEPT !["accounts"] = [rows |-> input.accounts,
                                       stamp |-> ingestion_ts, optional |-> FALSE]]
        /\ batch_pc' = "bronze.transactions" /\ UNCHANGED <<input, silver>>
    BY <1>1 DEF Batch!BronzeAccounts, Batch!WriteBronze
  <2> QED  BY <2>1 DEF BronzeInv, SilverInv, NoTableIsNothing
<1>2. CASE Batch!BronzeTransactions
  <2>1. /\ batch_pc = "bronze.transactions"
        /\ batch_pc' = "bronze.customers" /\ UNCHANGED <<input, silver>>
    BY <1>2 DEF Batch!BronzeTransactions
  <2>2. PICK o : bronze' = [bronze EXCEPT !["transactions"] =
                     [rows |-> input.transactions, stamp |-> ingestion_ts, optional |-> o]]
    BY <1>2 DEF Batch!BronzeTransactions
  <2> QED  BY <2>1, <2>2 DEF BronzeInv, SilverInv, NoTableIsNothing
<1>3. CASE Batch!BronzeCustomers
  <2>1. /\ batch_pc = "bronze.customers"
        /\ bronze' = [bronze EXCEPT !["customers"] = [rows |-> input.customers,
                                       stamp |-> ingestion_ts, optional |-> FALSE]]
        /\ batch_pc' = "silver.customers" /\ UNCHANGED <<input, silver>>
    BY <1>3 DEF Batch!BronzeCustomers, Batch!WriteBronze
  <2> QED  BY <2>1 DEF BronzeInv, SilverInv, NoTableIsNothing
<1>4. CASE Batch!SilverCustomers
  <2>1. PICK kept \in SUBSET Batch!Identified(bronze["customers"].rows, "customer_id") :
            Batch!WriteSilver("customers", {Batch!ToSilverCustomer(r) : r \in kept})
    BY <1>4 DEF Batch!SilverCustomers
  <2>2. batch_pc = "silver.customers" /\ batch_pc' = "silver.accounts"
    BY <1>4 DEF Batch!SilverCustomers
  <2>3. kept \subseteq input.customers
    BY <2>2 DEF BronzeInv, Batch!Identified
  <2>4. /\ UNCHANGED <<input, bronze>>
        /\ silver' = [silver EXCEPT !["customers"] =
                         [rows |-> {Batch!ToSilverCustomer(r) : r \in kept},
                          stamp |-> bronze["customers"].stamp]]
    BY <2>1 DEF Batch!WriteSilver
  <2> QED  BY <2>2, <2>3, <2>4 DEF BronzeInv, SilverInv, NoTableIsNothing
<1>5. CASE Batch!SilverAccounts
  <2>1. PICK kept \in SUBSET Batch!Identified(bronze["accounts"].rows, "account_id") :
            Batch!WriteSilver("accounts", kept)
    BY <1>5 DEF Batch!SilverAccounts
  <2>2. batch_pc = "silver.accounts" /\ batch_pc' = "silver.transactions"
    BY <1>5 DEF Batch!SilverAccounts
  <2>3. kept \subseteq input.accounts
    BY <2>2 DEF BronzeInv, Batch!Identified
  <2>4. /\ UNCHANGED <<input, bronze>>
        /\ silver' = [silver EXCEPT !["accounts"] =
                         [rows |-> kept, stamp |-> bronze["accounts"].stamp]]
    BY <2>1 DEF Batch!WriteSilver
  <2> QED  BY <2>2, <2>3, <2>4 DEF BronzeInv, SilverInv, NoTableIsNothing
<1>6. CASE Batch!SilverTransactions
  <2> DEFINE accounts == silver["accounts"].rows
             rows == {Batch!ToSilverTxn(t, accounts) :
                          t \in Batch!Identified(bronze["transactions"].rows, "transaction_id")}
  <2>1. PICK kept \in SUBSET rows : Batch!WriteSilver("transactions", kept)
    BY <1>6 DEF Batch!SilverTransactions
  <2>2. batch_pc = "silver.transactions" /\ batch_pc' = "gold.dim_customers"
    BY <1>6 DEF Batch!SilverTransactions
  <2>3. kept \subseteq {Batch!ToSilverTxn(t, accounts) : t \in input.transactions}
    BY <2>2 DEF BronzeInv, Batch!Identified
  <2>4. /\ UNCHANGED <<input, bronze>>
        /\ silver' = [silver EXCEPT !["transactions"] =
                         [rows |-> kept, stamp |-> bronze["transactions"].stamp]]
    BY <2>1 DEF Batch!WriteSilver
  <2>5. /\ silver'["customers"] = silver["customers"]
        /\ silver'["accounts"] = silver["accounts"]
        /\ silver' = [t \in Batch!SourceTables |-> silver'[t]]
    BY <2>4 DEF SilverInv
  <2>6. silver'["transactions"] # NoTable /\ silver'["transactions"].rows = kept
    BY <2>4 DEF SilverInv, NoTableIsNothing
  <2>7. BronzeInv'
    BY <2>2, <2>4 DEF BronzeInv
  <2> HIDE DEF rows
  <2>8. /\ silver["customers"] # NoTable
        /\ silver["customers"].rows \subseteq {Batch!ToSilverCustomer(r) : r \in input.customers}
        /\ silver["accounts"] # NoTable /\ silver["accounts"].rows \subseteq input.accounts
    BY <2>2 DEF SilverInv
  <2>9. input' = input
    BY <2>4
  <2>10. SilverInv'
    BY <2>3, <2>5, <2>6, <2>8, <2>9 DEF SilverInv
  <2> QED  BY <2>7, <2>10
<1>7. CASE \/ Batch!BuildDimCustomers \/ Batch!BuildDimAccounts \/ Batch!BuildFactTransactions
           \/ Batch!WriteDqReport \/ Batch!DumpDqReport
  <2>1. batch_pc \in InGold /\ batch_pc' \in InGold /\ UNCHANGED <<input, bronze, silver>>
    BY <1>7 DEF Batch!BuildDimCustomers, Batch!BuildDimAccounts, Batch!BuildFactTransactions,
                Batch!WriteDqReport, Batch!DumpDqReport, Batch!WriteGold
  <2> QED  BY <2>1 DEF BronzeInv, SilverInv
<1>8. CASE \/ Batch!BronzeSchemaMismatch \/ Batch!AssertContractInvariants
           \/ Batch!Start \/ Batch!Crash \/ Batch!Raise
  <2>1. batch_pc' \in Batch!Stopped \cup {"bronze.accounts"} /\ UNCHANGED <<input, bronze, silver>>
    BY <1>8 DEF Batch!BronzeSchemaMismatch, Batch!AssertContractInvariants, Batch!Start,
                Batch!Crash, Batch!Raise
  <2> QED  BY <2>1 DEF BronzeInv, SilverInv
<1>9. CASE Batch!ReplaceInput
  <2>1. batch_pc' \in Batch!Stopped /\ UNCHANGED <<bronze, silver>>
    BY <1>9 DEF Batch!ReplaceInput
  <2> QED  BY <2>1 DEF BronzeInv, SilverInv
<1>10. CASE Batch!Tick \/ UNCHANGED batch
  <2>1. UNCHANGED <<batch_pc, input, bronze, silver>>
    BY <1>10 DEF Batch!Tick, batch
  <2> QED  BY <2>1 DEF BronzeInv, SilverInv
<1> QED
  BY <1>1, <1>2, <1>3, <1>4, <1>5, <1>6, <1>7, <1>8, <1>9, <1>10 DEF Batch!Next, Batch!Step

\* Whatever earlier runs left, the layers a run has gone through are of its input.
LEMMA LayersInvariant ==
    ASSUME NoTableIsNothing
    PROVE  Spec => [](BronzeInv /\ SilverInv)
<1>1. Batch!Init => BronzeInv /\ SilverInv
  BY DEF Batch!Init, BronzeInv, SilverInv, InGold, InSilver
<1>2. UNCHANGED Batch!vars => UNCHANGED batch
  BY DEF batch, Batch!vars, Batch!volume, Batch!memory, Batch!bounds
<1>3. BronzeInv /\ SilverInv /\ [Batch!Next]_(Batch!vars) => (BronzeInv /\ SilverInv)'
  BY <1>2, LayersNext
<1> QED  BY <1>1, <1>3, RunsMedallion, PTL DEF Batch!Spec

-----------------------------------------------------------------------------
(* The gold tables and their report.                                       *)

\* A report as run_provisioning assembles it from these gold tables.
IsReportOf(r, tables) ==
    \E day, counts, issues, unread :
        r = [run_timestamp            |-> day,
             source_record_counts     |-> counts,
             dq_issues                |-> issues,
             gold_layer_record_counts |->
                 [t \in Batch!GoldTables |-> Batch!Counted(tables[t], unread, t)]]

\* Once the fact table is written the volume has the gold tables of one run, and
\* from there the report of them is assembled and dumped.
WholeInv ==
    /\ batch_pc \in {"dq_report", "dq_report.dump", "contracts", "completed"} =>
           \E o \in outcomes : o.gold = gold
    /\ batch_pc = "dq_report.dump" => IsReportOf(draft, gold)
    /\ batch_pc \in {"contracts", "completed"} => IsReportOf(report, gold)

\* Every statement keeps it: one case per group of actions.
LEMMA WholeNext == WholeInv /\ [Batch!Next]_batch => WholeInv'
<1> SUFFICES ASSUME WholeInv, Batch!Next \/ UNCHANGED batch PROVE WholeInv'
  OBVIOUS
<1> USE DEF WholeInv, Batch!volume, Batch!memory, Batch!bounds, Batch!Stopped
<1>1. CASE Batch!BronzeAccounts \/ Batch!BronzeTransactions \/ Batch!BronzeSchemaMismatch
           \/ Batch!BronzeCustomers
  BY <1>1 DEF Batch!BronzeAccounts, Batch!BronzeTransactions, Batch!BronzeSchemaMismatch,
              Batch!BronzeCustomers
<1>2. CASE Batch!SilverCustomers \/ Batch!SilverAccounts \/ Batch!SilverTransactions
  BY <1>2 DEF Batch!SilverCustomers, Batch!SilverAccounts, Batch!SilverTransactions
<1>3. CASE Batch!BuildDimCustomers \/ Batch!BuildDimAccounts
  BY <1>3 DEF Batch!BuildDimCustomers, Batch!BuildDimAccounts
<1>4. CASE Batch!BuildFactTransactions
  <2>1. [input |-> input, gold |-> gold'] \in outcomes' /\ batch_pc' = "dq_report"
    BY <1>4 DEF Batch!BuildFactTransactions
  <2> QED  BY <2>1
<1>5. CASE Batch!WriteDqReport
  <2>1. /\ batch_pc = "dq_report" /\ batch_pc' = "dq_report.dump"
        /\ gold' = gold /\ outcomes' = outcomes
    BY <1>5 DEF Batch!WriteDqReport
  <2>2. IsReportOf(draft', gold)
    BY <1>5 DEF Batch!WriteDqReport, IsReportOf
  <2> QED  BY <2>1, <2>2
<1>6. CASE Batch!DumpDqReport
  BY <1>6 DEF Batch!DumpDqReport
<1>7. CASE Batch!AssertContractInvariants
  BY <1>7 DEF Batch!AssertContractInvariants
<1>8. CASE Batch!Start \/ Batch!Crash \/ Batch!Raise
  BY <1>8 DEF Batch!Start, Batch!Crash, Batch!Raise
<1>9. CASE Batch!ReplaceInput \/ Batch!Tick
  BY <1>9 DEF Batch!ReplaceInput, Batch!Tick
<1>10. CASE UNCHANGED batch
  BY <1>10 DEF batch
<1> QED
  BY <1>1, <1>2, <1>3, <1>4, <1>5, <1>6, <1>7, <1>8, <1>9, <1>10 DEF Batch!Next, Batch!Step

\* Whatever the pipeline does, past the fact table gold is of one run.
LEMMA WholeInvariant == Spec => []WholeInv
<1>1. Batch!Init => WholeInv
  BY DEF Batch!Init, WholeInv
<1>2. UNCHANGED Batch!vars => UNCHANGED batch
  BY DEF batch, Batch!vars, Batch!volume, Batch!memory, Batch!bounds
<1>3. WholeInv /\ [Batch!Next]_(Batch!vars) => WholeInv'
  BY <1>2, WholeNext
<1> QED  BY <1>1, <1>3, RunsMedallion, PTL DEF Batch!Spec

-----------------------------------------------------------------------------
(* The log.                                                                *)

\* A process that is not running has left its batch stages; what the log says of
\* the end of gold outlives the process.
LogTellsInv ==
    /\ process # "running" => batch_pc \in Batch!Stopped
    /\ Logged("gold.dq_report", "end") =>
           /\ batch_pc \in {"contracts"} \cup Batch!Stopped
           /\ \E o \in outcomes : o.gold = gold
           /\ IsReportOf(report, gold)
    /\ Logged("gold", "end") => batch_pc = "completed"

\* The places of the stages that the log is read for.
LEMMA PlacesPassed ==
    ASSUME NEW pc \in Batch!PCs \ {"stopped", "exited"}
    PROVE  /\ "bronze" \in Before(pc) => pc \in InSilver \cup InGold \cup {"completed"}
           /\ "silver" \in Before(pc) => pc \in InGold \cup {"completed"}
           /\ "gold.dq_report" \in Before(pc) => pc \in {"contracts", "completed"}
           /\ "gold" \in Before(pc) => pc = "completed"
BY DEF Batch!PCs, Batch!Stopped, Before, Place, StageAt, InSilver, InGold

\* Every step of a process, and of its environment, keeps it.
LEMMA LogTellsNext ==
    LogTellsInv /\ LogInv /\ ContractInv /\ WholeInv /\ [Next]_vars => LogTellsInv'
<1> SUFFICES ASSUME LogTellsInv, LogInv, ContractInv, WholeInv, [Next]_vars PROVE LogTellsInv'
  OBVIOUS
<1> USE DEF LogTellsInv, Batch!Stopped
<1>0. TimersInv /\ PlaceInv
  BY DEF LogInv
<1>1. CASE LeaveTimer
  <2> DEFINE x == Last(timers)
  <2>1. x \in Open /\ x \notin Around(batch_pc)
    BY <1>0, <1>1, TimerClosed DEF TimersInv, PlaceInv
  <2>2. /\ process = "running" /\ stage = "batch"
        /\ UNCHANGED <<process, batch_pc, outcomes, gold, report>>
        /\ log' = log \cup {[stage |-> x, event |-> ExitEvent]}
    BY <1>1 DEF LeaveTimer, Event, batch
  <2> HIDE DEF x
  <2>3. CASE batch_pc = "exited"
    <3>1. \A s : Logged(s, "end")' <=> Logged(s, "end")
      BY <2>2, <2>3 DEF Logged, ExitEvent
    <3> QED  BY <2>2, <3>1
  <2>4. CASE batch_pc # "exited"
    <3>1. \A s : Logged(s, "end")' => Logged(s, "end") \/ s = x
      BY <2>2, <2>4 DEF Logged, ExitEvent
    <3>2. x \in Before(batch_pc) /\ batch_pc \in Batch!PCs \ {"stopped", "exited"}
      BY <1>0, <2>1, <2>2, <2>4 DEF PlaceInv
    <3>3. /\ x = "gold.dq_report" => batch_pc \in {"contracts", "completed"}
          /\ x = "gold" => batch_pc = "completed"
      BY <3>2, PlacesPassed
    <3> QED  BY <2>2, <3>1, <3>3 DEF WholeInv
  <2> QED  BY <2>3, <2>4
<1>2. CASE EnterTimer
  <2>1. /\ UNCHANGED <<process, batch_pc, outcomes, gold, report>>
        /\ log' = log \cup {[stage |-> Last(timers'), event |-> "start"]}
    BY <1>2 DEF EnterTimer, batch
  <2>2. \A s : Logged(s, "end")' <=> Logged(s, "end")
    BY <2>1 DEF Logged
  <2> QED  BY <2>1, <2>2
<1>3. CASE BatchStep
  <2>1. process = "running" /\ Batch!Step /\ UNCHANGED <<process, log>>
    BY <1>3 DEF BatchStep, shell
  <2>2. \A s : Logged(s, "end")' <=> Logged(s, "end")
    BY <2>1 DEF Logged
  <2>3. batch_pc \in Working
    BY <2>1, BatchStepLeads DEF Succession, Working, Batch!PCs
  <2>4. CASE batch_pc = "contracts"
    <3>1. Batch!AssertContractInvariants
      BY <2>1, <2>4
         DEF Batch!Step, Batch!BronzeAccounts, Batch!BronzeTransactions,
             Batch!BronzeSchemaMismatch, Batch!BronzeCustomers, Batch!SilverCustomers,
             Batch!SilverAccounts, Batch!SilverTransactions, Batch!BuildDimCustomers,
             Batch!BuildDimAccounts, Batch!BuildFactTransactions, Batch!WriteDqReport,
             Batch!DumpDqReport
    <3>2. /\ batch_pc' \in {"completed", "exited"}
          /\ UNCHANGED <<outcomes, gold, report>>
      BY <3>1 DEF Batch!AssertContractInvariants, Batch!volume
    <3> QED  BY <2>1, <2>2, <2>4, <3>2
  <2>5. CASE batch_pc # "contracts"
    BY <2>1, <2>2, <2>3, <2>5 DEF Working
  <2> QED  BY <2>4, <2>5
<1>4. CASE BatchRaises
  BY <1>4 DEF BatchRaises, Batch!Raise, Batch!volume, shell, Logged
<1>5. CASE \E kind \in RestartKinds : Start(kind)
  BY <1>5 DEF Start, Logged
<1>6. CASE Kill
  BY <1>6 DEF Kill, Batch!Crash, Batch!volume, batch, Logged
<1>7. CASE StreamStage \/ StreamUnconfigured \/ StartUnconfigured
  BY <1>7 DEF StreamStage, StreamUnconfigured, StartUnconfigured, BatchDone, batch, Logged
<1>8. CASE Exit
  BY <1>8 DEF Exit, BatchFailed, ContractInv, batch, Logged
<1>9. CASE BatchEnvironment
  BY <1>9 DEF BatchEnvironment, Batch!ReplaceInput, Batch!Tick, Batch!volume, shell, Logged
<1>10. CASE StreamStep \/ StreamRaises \/ (\E f \in Files : Arrive(f)) \/ UNCHANGED vars
  BY <1>10 DEF StreamStep, StreamRaises, Arrive, batch, shell, vars, Logged
<1> QED
  BY <1>1, <1>2, <1>3, <1>4, <1>5, <1>6, <1>7, <1>8, <1>9, <1>10 DEF Next, Step

\* What the log says of the end of gold stays true to the volume.
LEMMA LogTellsInvariant == Spec => []LogTellsInv
<1>1. Init => LogTellsInv
  BY DEF Init, Batch!Init, LogTellsInv, Batch!Stopped, Logged
<1> QED
  BY <1>1, LogTellsNext, LogInvariant, ContractInvariant, WholeInvariant, PTL DEF Spec

\* A report of the gold tables is one that is there.
LEMMA ReportedIsWhole ==
    ASSUME NoTableIsNothing, \E o \in outcomes : o.gold = gold, IsReportOf(report, gold)
    PROVE  GoldIsWhole
<1>1. report # NoTable
  BY DEF IsReportOf, NoTableIsNothing
<1>2. \E unread \in SUBSET Batch!GoldTables :
          report.gold_layer_record_counts =
              [t \in Batch!GoldTables |-> Batch!Counted(gold[t], unread, t)]
  <2>1. PICK day, counts, issues, unread :
                report = [run_timestamp            |-> day,
                          source_record_counts     |-> counts,
                          dq_issues                |-> issues,
                          gold_layer_record_counts |->
                              [t \in Batch!GoldTables |-> Batch!Counted(gold[t], unread, t)]]
    BY DEF IsReportOf
  <2>2. report.gold_layer_record_counts =
            [t \in Batch!GoldTables |-> Batch!Counted(gold[t], unread, t)]
    BY <2>1
  <2> DEFINE gone == unread \cap Batch!GoldTables
  <2>3. \A t \in Batch!GoldTables :
            Batch!Counted(gold[t], unread, t) = Batch!Counted(gold[t], gone, t)
    BY DEF Batch!Counted
  <2>4. gone \in SUBSET Batch!GoldTables
    OBVIOUS
  <2> HIDE DEF gone
  <2>5. report.gold_layer_record_counts =
            [t \in Batch!GoldTables |-> Batch!Counted(gold[t], gone, t)]
    BY <2>2, <2>3
  <2> QED  BY <2>4, <2>5
<1> QED  BY <1>1, <1>2 DEF GoldIsWhole

\* A layer that the log calls ended is on the volume and holds this run's input,
\* whatever earlier runs left there; the report's end means whole gold tables and
\* a report of them, also when a contract then fails, and gold's end kept contracts.
THEOREM LogIsTrue ==
    ASSUME NoTableIsNothing
    PROVE  Spec => []LogTellsLayers
<1>1. /\ LogInv /\ ProcessInv /\ ContractInv /\ BronzeInv /\ SilverInv
      /\ LogTellsInv
      => LogTellsLayers
  <2> SUFFICES ASSUME LogInv, ProcessInv, ContractInv, BronzeInv, SilverInv, LogTellsInv
               PROVE  LogTellsLayers
    OBVIOUS
  <2>1. ASSUME batch_pc \notin Batch!Stopped, NEW s \in Stages, Logged(s, "end")
        PROVE  s \in Before(batch_pc) /\ batch_pc \in Batch!PCs \ {"stopped", "exited"}
    <3>1. process = "running" /\ stage # "stream"
      BY <2>1 DEF LogTellsInv, ContractInv, Batch!Stopped
    <3>2. stage = "batch"
      BY <3>1 DEF ProcessInv
    <3>3. Logged(s, "start") /\ s \notin Open
      BY <2>1, <3>1 DEF LogInv, BookInv
    <3> QED  BY <2>1, <3>1, <3>2, <3>3 DEF LogInv, PlaceInv, Batch!Stopped
  <2>2. "bronze" \in Stages /\ "silver" \in Stages
    BY DEF Stages
  <2>3. batch_pc \notin Batch!Stopped /\ Logged("bronze", "end") =>
            \A t \in Batch!SourceTables : HoldsBronze(t)
    <3> SUFFICES ASSUME batch_pc \notin Batch!Stopped, Logged("bronze", "end")
                 PROVE  \A t \in Batch!SourceTables : HoldsBronze(t)
      OBVIOUS
    <3>1. batch_pc \in InSilver \cup InGold
      BY <2>1, <2>2, PlacesPassed DEF Batch!Stopped
    <3> QED  BY <3>1 DEF BronzeInv, Batch!SourceTables
  <2>4. batch_pc \notin Batch!Stopped /\ Logged("silver", "end") => batch_pc \in InGold
    BY <2>1, <2>2, PlacesPassed DEF Batch!Stopped
  <2>5. Logged("gold.dq_report", "end") => GoldIsWhole
    BY ReportedIsWhole DEF LogTellsInv
  <2>6. Logged("gold", "end") => ContractsHold
    BY DEF LogTellsInv, ContractInv
  <2> QED
    BY <2>3, <2>4, <2>5, <2>6 DEF LogTellsLayers, HoldsBronze, SilverInv, Batch!SourceTables
<1> QED
  BY <1>1, LogInvariant, ProcessInvariant, ContractInvariant, LayersInvariant,
     LogTellsInvariant, PTL

-----------------------------------------------------------------------------
(* The exit code.                                                          *)

\* A loop that has quiesced skips every file that was there when the process
\* started, and only behind such a loop does a process exit with 0.
ExitInv ==
    /\ process = "running" /\ stage = "stream" /\ stream_pc = "done" /\ look # "failed" =>
           present \subseteq processed
    /\ process = "exit 0" =>
           batch_pc = "completed" /\ (look # "failed" => \A f \in present : Settled(f))

\* Every step of a process, and of its environment, keeps it.
LEMMA ExitNext ==
    ExitInv /\ ProcessInv /\ SettledInv /\ ContractInv /\ [Next]_vars => ExitInv'
<1> SUFFICES ASSUME ExitInv, ProcessInv, SettledInv, ContractInv, [Next]_vars PROVE ExitInv'
  OBVIOUS
<1> USE DEF ExitInv, Settled
<1>1. CASE StreamStep
  <2>1. process = "running" /\ UNCHANGED <<process, stage, look, present, batch_pc>>
    BY <1>1 DEF StreamStep, shell, batch
  <2>2. stream_pc' = "done" => present \subseteq processed'
    <3>1. CASE Stream!Poll
      <4>1. processed' = processed /\ (stream_pc' = "done" => dir \ processed = {})
        BY <3>1 DEF Stream!Poll, Stream!Quiet, Stream!NewFiles
      <4> QED  BY <4>1 DEF ProcessInv
    <3>2. CASE ~Stream!Poll
      BY <1>1, <3>2 DEF StreamStep, Stream!Step, Stream!EndOfPass, Stream!Sleep,
         Stream!ParseStreamEvents, Stream!UpsertCurrentBalances, Stream!UpsertRecentTransactions,
         Stream!Retention, Stream!RecordProcessed, Stream!RetryLater, Stream!GiveUp,
         Stream!RecordFailed, Stream!NextFile
    <3> QED  BY <3>1, <3>2
  <2> QED  BY <2>1, <2>2
<1>2. CASE StreamRaises
  <2>1. process = "running" /\ UNCHANGED <<process, stage, look, present, batch_pc>>
    BY <1>2 DEF StreamRaises, shell, batch
  <2>2. stream_pc' # "done"
    BY <1>2 DEF StreamRaises, Stream!Raise, Stream!PollRaises, Stream!StatementRaises,
                Stream!RecordProcessedRaises, Stream!HandlerRaises
  <2> QED  BY <2>1, <2>2
<1>3. CASE StreamStage
  <2>1. /\ process = "running" /\ process' = process /\ present' = dir
        /\ stream_pc' = "done" => dir = {} \/ look' = "failed"
    BY <1>3 DEF StreamStage, Stream!Start
  <2> QED  BY <2>1
<1>4. CASE Exit
  <2>1. /\ process = "running" /\ process' # "running"
        /\ process' = "exit 0" => stage = "stream" /\ stream_pc = "done"
        /\ UNCHANGED <<batch_pc, look, present, merged, failures>>
    BY <1>4 DEF Exit, batch, stream
  <2> QED  BY <2>1 DEF ContractInv, SettledInv
<1>5. CASE Kill \/ StreamUnconfigured \/ StartUnconfigured
  BY <1>5 DEF Kill, StreamUnconfigured, StartUnconfigured
<1>6. CASE \E kind \in RestartKinds : Start(kind)
  BY <1>6 DEF Start
<1>7. CASE EnterTimer \/ LeaveTimer
  BY <1>7 DEF EnterTimer, LeaveTimer, batch, stream
<1>8. CASE BatchStep \/ BatchRaises
  BY <1>8 DEF BatchStep, BatchRaises, shell
<1>9. CASE BatchEnvironment
  BY <1>9 DEF BatchEnvironment, Batch!ReplaceInput, Batch!Tick, shell, stream
<1>10. CASE \E f \in Files : Arrive(f)
  BY <1>10 DEF Arrive, Stream!Arrive, Stream!tmp, Stream!memory, Stream!pass, Stream!history,
               batch, shell
<1>11. CASE UNCHANGED vars
  BY <1>11 DEF vars, batch, stream, shell
<1> QED
  BY <1>1, <1>2, <1>3, <1>4, <1>5, <1>6, <1>7, <1>8, <1>9, <1>10, <1>11 DEF Next, Step

\* The exit code stands on a quiesced loop behind completed batch stages.
LEMMA ExitInvariant == Spec => []ExitInv
<1>1. Init => ExitInv
  BY DEF Init, ExitInv
<1> QED
  BY <1>1, ExitNext, ProcessInvariant, SettledInvariant, ContractInvariant, PTL DEF Spec

\* A process exits with 0 only behind gold tables that one run wrote from end to
\* end, a report of them, kept contracts, a log without a failed stage, and, unless
\* its look at the directory raised, stream files that are in both tables or were
\* given up, whatever failed, was killed or was replaced before it and arrives while
\* it runs.
THEOREM ExitZeroMeansDone ==
    ASSUME NoTableIsNothing
    PROVE  Spec => []ExitZeroIsEarned
<1>1. LogInv /\ ContractInv /\ WholeInv /\ ExitInv => ExitZeroIsEarned
  <2> SUFFICES ASSUME LogInv, ContractInv, WholeInv, ExitInv, process = "exit 0"
               PROVE  /\ GoldIsWhole /\ ContractsHold /\ Failed = {}
                      /\ look # "failed" => \A f \in present : Settled(f)
    BY DEF ExitZeroIsEarned
  <2>1. batch_pc = "completed" /\ (look # "failed" => \A f \in present : Settled(f))
    BY DEF ExitInv
  <2>2. ContractsHold /\ Failed = {}
    BY <2>1 DEF ContractInv, LogInv, PlaceInv
  <2>3. (\E o \in outcomes : o.gold = gold) /\ IsReportOf(report, gold)
    BY <2>1 DEF WholeInv
  <2>4. GoldIsWhole
    BY <2>3, ReportedIsWhole
  <2> QED  BY <2>1, <2>2, <2>4
<1> QED
  BY <1>1, LogInvariant, ContractInvariant, WholeInvariant, ExitInvariant, PTL

-----------------------------------------------------------------------------
(* What is proved of the streaming stage holds of the process.             *)

Streaming == INSTANCE StreamTableProofs
    WITH Inputs <- StreamInputs, pc <- stream_pc, runs <- stream_runs, faults <- stream_faults

\* The instance the theorems are about and the one of PipelineRun have the same
\* rows and conversions.
LEMMA SameEvents ==
    /\ \A S : Stream!Cardinality(S) = Streaming!Cardinality(S)
    /\ \A S : Stream!Max(S) = Streaming!Max(S)
    /\ \A S : Stream!Min(S) = Streaming!Min(S)
    /\ \A d : Stream!Events(d) = Streaming!Events(d)
    /\ \A E, a : Stream!Counted(E, a) = Streaming!Counted(E, a)
    /\ \A r, s : Stream!SameKey(r, s) = Streaming!SameKey(r, s)
<1>1. \A S : Stream!Cardinality(S) = Streaming!Cardinality(S)
  BY DEF Stream!Cardinality, Streaming!Cardinality
<1>2. \A S : Stream!Max(S) = Streaming!Max(S)
  BY DEF Stream!Max, Streaming!Max
<1>3. \A S : Stream!Min(S) = Streaming!Min(S)
  BY DEF Stream!Min, Streaming!Min
<1>4. \A l : Stream!ParseLine(l) = Streaming!ParseLine(l)
  BY DEF Stream!ParseLine, Streaming!ParseLine, Stream!ToTimestamp, Streaming!ToTimestamp,
         Stream!ToDecimal, Streaming!ToDecimal, Stream!Decimals, Streaming!Decimals
<1>5. \A d : Stream!Events(d) = Streaming!Events(d)
  BY <1>4 DEF Stream!Events, Streaming!Events
<1>6. \A E, a : Stream!Counted(E, a) = Streaming!Counted(E, a)
  BY DEF Stream!Counted, Streaming!Counted
<1>7. \A r, s : Stream!SameKey(r, s) = Streaming!SameKey(r, s)
  BY DEF Stream!SameKey, Streaming!SameKey
<1> QED
  BY <1>1, <1>2, <1>3, <1>5, <1>6, <1>7

\* And the same MERGE into current_balances.
LEMMA SameBalances ==
    \A table, E : Stream!MergeBalances(table, E) = Streaming!MergeBalances(table, E)
<1>1. \A C : Stream!MapThenSumSet(Stream!SignedAmount, C)
             = Streaming!MapThenSumSet(Streaming!SignedAmount, C)
  BY DEF Stream!MapThenSumSet, Streaming!MapThenSumSet, Stream!MapThenFoldSet,
         Streaming!MapThenFoldSet, Stream!SignedAmount, Streaming!SignedAmount
<1>2. \A x : Stream!ToDecimal(x) = Streaming!ToDecimal(x)
  BY DEF Stream!ToDecimal, Streaming!ToDecimal, Stream!Decimals, Streaming!Decimals
<1>3. \A E, a : Stream!NetDelta(E, a) = Streaming!NetDelta(E, a)
  BY <1>1, <1>2, SameEvents DEF Stream!NetDelta, Streaming!NetDelta
<1>4. \A E, a : Stream!BatchLastTs(E, a) = Streaming!BatchLastTs(E, a)
  BY SameEvents DEF Stream!BatchLastTs, Streaming!BatchLastTs
<1>5. \A x, y : Stream!PlusDecimal(x, y) = Streaming!PlusDecimal(x, y)
  BY <1>2 DEF Stream!PlusDecimal, Streaming!PlusDecimal
<1>6. \A x, y : Stream!NewerTs(x, y) = Streaming!NewerTs(x, y)
  BY DEF Stream!NewerTs, Streaming!NewerTs
<1>7. \A row, E, a : Stream!MergedBalance(row, E, a) = Streaming!MergedBalance(row, E, a)
  BY <1>3, <1>4, <1>5, <1>6 DEF Stream!MergedBalance, Streaming!MergedBalance
<1> QED
  BY <1>7, SameEvents DEF Stream!MergeBalances, Streaming!MergeBalances

\* And the same MERGE, window and delete on recent_transactions.
LEMMA SameRecents ==
    /\ \A table, E : Stream!AmbiguousMerge(table, E) <=> Streaming!AmbiguousMerge(table, E)
    /\ \A table, f, E : Stream!MergeRecent(table, f, E) = Streaming!MergeRecent(table, f, E)
    /\ \A table, D : Stream!PastLimit(table, D) <=> Streaming!PastLimit(table, D)
    /\ \A table, D : Stream!DeleteKeys(table, D) = Streaming!DeleteKeys(table, D)
<1>1. \A table, E : Stream!AmbiguousMerge(table, E) <=> Streaming!AmbiguousMerge(table, E)
  BY SameEvents DEF Stream!AmbiguousMerge, Streaming!AmbiguousMerge
<1>2. \A r, E : Stream!UpdatedRow(r, E) = Streaming!UpdatedRow(r, E)
  BY SameEvents DEF Stream!UpdatedRow, Streaming!UpdatedRow
<1>3. \A table, f, e : Stream!NewRow(table, f, e) = Streaming!NewRow(table, f, e)
  BY SameEvents DEF Stream!NewRow, Streaming!NewRow
<1>4. \A table, f, E : Stream!MergeRecent(table, f, E) = Streaming!MergeRecent(table, f, E)
  BY <1>2, <1>3, SameEvents DEF Stream!MergeRecent, Streaming!MergeRecent
<1>5. \A table, a : Stream!OfAccount(table, a) = Streaming!OfAccount(table, a)
  BY DEF Stream!OfAccount, Streaming!OfAccount
<1>6. \A r, s : Stream!NotOlder(r, s) <=> Streaming!NotOlder(r, s)
  BY DEF Stream!NotOlder, Streaming!NotOlder
<1>7. \A table, D : Stream!PastLimit(table, D) <=> Streaming!PastLimit(table, D)
  BY <1>5, <1>6, SameEvents
     DEF Stream!PastLimit, Streaming!PastLimit, Stream!Nullable, Streaming!Nullable
<1>8. \A table, D : Stream!DeleteKeys(table, D) = Streaming!DeleteKeys(table, D)
  BY SameEvents DEF Stream!DeleteKeys, Streaming!DeleteKeys
<1> QED
  BY <1>1, <1>4, <1>7, <1>8

\* So that they take the same steps.
LEMMA SameSteps == [Stream!Next]_(Stream!vars) => [Streaming!Next]_(Streaming!vars)
<1> SUFFICES ASSUME [Stream!Next]_(Stream!vars) PROVE [Streaming!Next]_(Streaming!vars)
  OBVIOUS
<1> USE DEF Stream!volume, Streaming!volume, Stream!tmp, Streaming!tmp, Stream!pass,
            Streaming!pass, Stream!memory, Streaming!memory, Stream!bounds, Streaming!bounds,
            Stream!history, Streaming!history, Stream!Stopped, Streaming!Stopped,
            Stream!Running, Streaming!Running, Stream!Fault, Streaming!Fault,
            Stream!Error, Streaming!Error
<1>1. Stream!Current = Streaming!Current
  BY SameEvents DEF Stream!Current, Streaming!Current
<1>2. Stream!Batch = Streaming!Batch
  BY <1>1, SameEvents DEF Stream!Batch, Streaming!Batch
<1>3. \A S : Stream!HasColumns(S) <=> Streaming!HasColumns(S)
  BY <1>1 DEF Stream!HasColumns, Streaming!HasColumns
<1>4. /\ Stream!Exhausted <=> Streaming!Exhausted
      /\ Stream!CountAttempt <=> Streaming!CountAttempt
      /\ Stream!NextFile <=> Streaming!NextFile
  BY <1>1 DEF Stream!Attempts, Streaming!Attempts, Stream!Exhausted, Streaming!Exhausted,
              Stream!CountAttempt, Streaming!CountAttempt, Stream!NextFile, Streaming!NextFile
<1>5. ASSUME NEW kind \in RestartKinds, NEW result \in Stream!Looks, Stream!Start(kind, result)
      PROVE  Streaming!Start(kind, result) /\ result \in Streaming!Looks
  BY <1>5 DEF Stream!Start, Streaming!Start, Stream!KeptTmp, Streaming!KeptTmp, Stream!Looks,
              Streaming!Looks
<1>6. ASSUME NEW f \in Files, Stream!Arrive(f) PROVE Streaming!Arrive(f)
  BY <1>6 DEF Stream!Arrive, Streaming!Arrive
<1>7. CASE Stream!Poll \/ Stream!EndOfPass \/ Stream!Sleep \/ Stream!Crash
  <2>1. Stream!Poll => Streaming!Poll
    BY DEF Stream!Poll, Streaming!Poll, Stream!NewFiles, Streaming!NewFiles, Stream!Quiet,
           Streaming!Quiet
  <2>2. Stream!EndOfPass => Streaming!EndOfPass
    BY DEF Stream!EndOfPass, Streaming!EndOfPass
  <2>3. Stream!Sleep => Streaming!Sleep
    BY DEF Stream!Sleep, Streaming!Sleep, Stream!Slept, Streaming!Slept
  <2>4. Stream!Crash => Streaming!Crash
    BY DEF Stream!Crash, Streaming!Crash
  <2> QED
    BY <1>7, <2>1, <2>2, <2>3, <2>4 DEF Streaming!Next, Streaming!Step
<1>8. CASE \/ Stream!ParseStreamEvents \/ Stream!UpsertCurrentBalances
           \/ Stream!UpsertRecentTransactions \/ Stream!Retention
  <2>1. Stream!ParseStreamEvents => Streaming!ParseStreamEvents
    BY <1>3 DEF Stream!ParseStreamEvents, Streaming!ParseStreamEvents, Stream!ParseColumns,
                Streaming!ParseColumns
  <2>2. Stream!UpsertCurrentBalances => Streaming!UpsertCurrentBalances
    BY <1>1, <1>2, <1>3, SameBalances
       DEF Stream!UpsertCurrentBalances, Streaming!UpsertCurrentBalances, Stream!BalanceColumns,
           Streaming!BalanceColumns
  <2>3. Stream!UpsertRecentTransactions => Streaming!UpsertRecentTransactions
    BY <1>1, <1>2, <1>3, SameRecents
       DEF Stream!UpsertRecentTransactions, Streaming!UpsertRecentTransactions,
           Stream!RecentColumns, Streaming!RecentColumns
  <2>4. Stream!Retention => Streaming!Retention
    BY SameRecents DEF Stream!Retention, Streaming!Retention
  <2> QED
    BY <1>8, <2>1, <2>2, <2>3, <2>4 DEF Streaming!Next, Streaming!Step
<1>9. CASE Stream!RecordProcessed \/ Stream!RetryLater \/ Stream!GiveUp \/ Stream!RecordFailed
  <2>1. Stream!RecordProcessed => Streaming!RecordProcessed
    BY <1>1, <1>4 DEF Stream!RecordProcessed, Streaming!RecordProcessed
  <2>2. Stream!RetryLater => Streaming!RetryLater
    BY <1>4 DEF Stream!RetryLater, Streaming!RetryLater
  <2>3. Stream!GiveUp => Streaming!GiveUp
    BY <1>1, <1>4 DEF Stream!GiveUp, Streaming!GiveUp
  <2>4. Stream!RecordFailed => Streaming!RecordFailed
    BY <1>1, <1>4 DEF Stream!RecordFailed, Streaming!RecordFailed
  <2> QED
    BY <1>9, <2>1, <2>2, <2>3, <2>4 DEF Streaming!Next, Streaming!Step
<1>10. CASE Stream!Raise
  <2>1. Stream!StatementRaises => Streaming!StatementRaises
    BY DEF Stream!StatementRaises, Streaming!StatementRaises
  <2>2. Stream!RecordProcessedRaises => Streaming!RecordProcessedRaises
    BY <1>1 DEF Stream!RecordProcessedRaises, Streaming!RecordProcessedRaises
  <2>3. Stream!HandlerRaises => Streaming!HandlerRaises
    BY <1>1, <1>4 DEF Stream!HandlerRaises, Streaming!HandlerRaises
  <2>4. Stream!PollRaises => Streaming!PollRaises
    BY DEF Stream!PollRaises, Streaming!PollRaises
  <2> QED
    BY <1>10, <2>1, <2>2, <2>3, <2>4 DEF Stream!Raise, Streaming!Raise, Streaming!Next
<1>11. CASE UNCHANGED Stream!vars
  BY <1>11 DEF Stream!vars, Streaming!vars
<1> QED
  BY <1>5, <1>6, <1>7, <1>8, <1>9, <1>10, <1>11 DEF Stream!Next, Stream!Step, Streaming!Next

\* Under the same assumptions on the constants.
LEMMA SameStreamAssumptions ==
    /\ Streaming!TablesAssumption /\ Streaming!NullAssumption /\ Streaming!NoRowAssumption
    /\ Streaming!IngestAssumption
<1> USE DEF Stream!IsFiniteSet, Streaming!IsFiniteSet, Stream!Nullable, Streaming!Nullable,
            Stream!Decimals, Streaming!Decimals, Stream!Times, Streaming!Times,
            Stream!Types, Streaming!Types
<1>1. Streaming!TablesAssumption
  BY ComponentAssumptions DEF Stream!TablesAssumption, Streaming!TablesAssumption
<1>2. Streaming!NullAssumption
  BY ComponentAssumptions DEF Stream!NullAssumption, Streaming!NullAssumption
<1>3. Streaming!NoRowAssumption
  BY ComponentAssumptions DEF Stream!NoRowAssumption, Streaming!NoRowAssumption,
                              Stream!BalanceRow, Streaming!BalanceRow
<1>4. Streaming!IngestAssumption
  <2>1. Stream!FileData = Streaming!FileData
    BY DEF Stream!FileData, Streaming!FileData, Stream!Columns, Streaming!Columns, Stream!Line,
           Streaming!Line
  <2> QED
    BY <2>1, ComponentAssumptions DEF Stream!IngestAssumption, Streaming!IngestAssumption
<1> QED
  BY <1>1, <1>2, <1>3, <1>4

\* The theorems on the loop and on its tables are theorems on the process.
LEMMA StreamTheoremsApply == Spec => Streaming!Spec
<1>1. Stream!Init => Streaming!Init
  BY DEF Stream!Init, Streaming!Init
<1> QED
  BY <1>1, SameSteps, RunsStreamIngest, PTL DEF Stream!Spec, Streaming!Spec

-----------------------------------------------------------------------------
(* What is proved of the batch stages holds of the process.                *)

Batches == INSTANCE GoldRunProofs
    WITH Inputs <- BatchInputs, pc <- batch_pc, runs <- batch_runs, faults <- batch_faults

\* Again the same conversions and deduplications.
LEMMA SameRules ==
    /\ \A rows, key : Batch!Identified(rows, key) = Batches!Identified(rows, key)
    /\ \A S, rows, key :
           Batch!IsDeduplication(S, rows, key) <=> Batches!IsDeduplication(S, rows, key)
    /\ \A S, rows : Batch!KeepsEarliest(S, rows) <=> Batches!KeepsEarliest(S, rows)
    /\ \A r : Batch!ToSilverCustomer(r) = Batches!ToSilverCustomer(r)
    /\ \A t, accounts : Batch!ToSilverTxn(t, accounts) = Batches!ToSilverTxn(t, accounts)
<1>1. \A rows, key : Batch!Identified(rows, key) = Batches!Identified(rows, key)
  BY DEF Batch!Identified, Batches!Identified
<1>2. \A S, rows, key :
          Batch!IsDeduplication(S, rows, key) <=> Batches!IsDeduplication(S, rows, key)
  BY DEF Batch!IsDeduplication, Batches!IsDeduplication
<1>3. \A S, rows : Batch!KeepsEarliest(S, rows) <=> Batches!KeepsEarliest(S, rows)
  BY DEF Batch!KeepsEarliest, Batches!KeepsEarliest, Batch!Earlier, Batches!Earlier
<1>4. \A text : Batch!ParseDateRobust(text) = Batches!ParseDateRobust(text)
  BY DEF Batch!ParseDateRobust, Batches!ParseDateRobust
<1>5. \A r : Batch!ToSilverCustomer(r) = Batches!ToSilverCustomer(r)
  BY <1>4 DEF Batch!ToSilverCustomer, Batches!ToSilverCustomer
<1>6. \A t, accounts : Batch!ToSilverTxn(t, accounts) = Batches!ToSilverTxn(t, accounts)
  <2>1. \A d, t : Batch!TransactionTimestamp(d, t) = Batches!TransactionTimestamp(d, t)
    BY DEF Batch!TransactionTimestamp, Batches!TransactionTimestamp
  <2>2. \A orphan, amount, date, variant :
            Batch!DqFlag(orphan, amount, date, variant)
            = Batches!DqFlag(orphan, amount, date, variant)
    BY DEF Batch!DqFlag, Batches!DqFlag
  <2>3. \A c : Batch!CurrencyWasVariant(c) = Batches!CurrencyWasVariant(c)
    BY DEF Batch!CurrencyWasVariant, Batches!CurrencyWasVariant
  <2>4. \A c : Batch!NormaliseCurrency(c) = Batches!NormaliseCurrency(c)
    BY DEF Batch!NormaliseCurrency, Batches!NormaliseCurrency
  <2> QED
    BY <1>4, <2>1, <2>2, <2>3, <2>4 DEF Batch!ToSilverTxn, Batches!ToSilverTxn
<1> QED
  BY <1>1, <1>2, <1>3, <1>5, <1>6

\* The same gold tables and counts.
LEMMA SameGold ==
    /\ \A S : Batch!Cardinality(S) = Batches!Cardinality(S)
    /\ \A rows, day : Batch!DimCustomers(rows, day) = Batches!DimCustomers(rows, day)
    /\ \A rows, dim : Batch!DimAccounts(rows, dim) = Batches!DimAccounts(rows, dim)
    /\ \A txns, accounts, customers :
           Batch!Fact(txns, accounts, customers) = Batches!Fact(txns, accounts, customers)
    /\ \A txns : Batch!DqIssues(txns) = Batches!DqIssues(txns)
<1>1. \A S : Batch!Cardinality(S) = Batches!Cardinality(S)
  BY DEF Batch!Cardinality, Batches!Cardinality
<1>2. \A dob, day : Batch!DeriveAgeBand(dob, day) = Batches!DeriveAgeBand(dob, day)
  BY <1>1 DEF Batch!DeriveAgeBand, Batches!DeriveAgeBand
<1>3. \A rows, day : Batch!DimCustomers(rows, day) = Batches!DimCustomers(rows, day)
  BY <1>2 DEF Batch!DimCustomers, Batches!DimCustomers
<1>4. \A rows, dim : Batch!DimAccounts(rows, dim) = Batches!DimAccounts(rows, dim)
  BY DEF Batch!DimAccounts, Batches!DimAccounts, Batch!DimAccountsRow, Batches!DimAccountsRow
<1>5. \A txns, accounts, customers :
          Batch!Fact(txns, accounts, customers) = Batches!Fact(txns, accounts, customers)
  BY DEF Batch!Fact, Batches!Fact
<1>6. \A txns : Batch!DqIssues(txns) = Batches!DqIssues(txns)
  BY <1>1 DEF Batch!DqIssues, Batches!DqIssues
<1> QED
  BY <1>1, <1>3, <1>4, <1>5, <1>6

\* So that the batch stages take the same steps.
LEMMA SameBatchSteps == [Batch!Next]_(Batch!vars) => [Batches!Next]_(Batches!vars)
<1> SUFFICES ASSUME [Batch!Next]_(Batch!vars) PROVE [Batches!Next]_(Batches!vars)
  OBVIOUS
<1> USE DEF Batch!volume, Batches!volume, Batch!memory, Batches!memory, Batch!bounds,
            Batches!bounds, Batch!Stopped, Batches!Stopped
<1>1. Batch!RunTimestamp = Batches!RunTimestamp
  BY DEF Batch!RunTimestamp, Batches!RunTimestamp
<1>2. Batch!SourceTables = Batches!SourceTables /\ Batch!GoldTables = Batches!GoldTables
  BY DEF Batch!SourceTables, Batches!SourceTables, Batch!GoldTables, Batches!GoldTables
<1>3. CASE Batch!Start \/ Batch!Crash \/ Batch!Raise \/ Batch!ReplaceInput \/ Batch!Tick
  BY <1>1, <1>3
     DEF Batch!Start, Batches!Start, Batch!Crash, Batches!Crash, Batch!Raise, Batches!Raise,
         Batch!ReplaceInput, Batches!ReplaceInput, Batch!Tick, Batches!Tick, Batches!Next
<1>4. CASE \/ Batch!BronzeAccounts \/ Batch!BronzeTransactions \/ Batch!BronzeSchemaMismatch
           \/ Batch!BronzeCustomers
  <2>1. Batch!BronzeAccounts => Batches!BronzeAccounts
    BY DEF Batch!BronzeAccounts, Batches!BronzeAccounts, Batch!WriteBronze, Batches!WriteBronze
  <2>2. Batch!BronzeTransactions => Batches!BronzeTransactions
    BY DEF Batch!BronzeTransactions, Batches!BronzeTransactions, Batch!SchemaFits,
           Batches!SchemaFits
  <2>3. Batch!BronzeSchemaMismatch => Batches!BronzeSchemaMismatch
    BY DEF Batch!BronzeSchemaMismatch, Batches!BronzeSchemaMismatch, Batch!SchemaFits,
           Batches!SchemaFits
  <2>4. Batch!BronzeCustomers => Batches!BronzeCustomers
    BY DEF Batch!BronzeCustomers, Batches!BronzeCustomers, Batch!WriteBronze, Batches!WriteBronze
  <2> QED
    BY <1>4, <2>1, <2>2, <2>3, <2>4 DEF Batches!Next, Batches!Step
<1>5. CASE Batch!SilverCustomers \/ Batch!SilverAccounts \/ Batch!SilverTransactions
  <2>1. \A table, rows : Batch!WriteSilver(table, rows) => Batches!WriteSilver(table, rows)
    BY DEF Batch!WriteSilver, Batches!WriteSilver
  <2>2. Batch!SilverCustomers => Batches!SilverCustomers
    BY <2>1, SameRules DEF Batch!SilverCustomers, Batches!SilverCustomers
  <2>3. Batch!SilverAccounts => Batches!SilverAccounts
    BY <2>1, SameRules DEF Batch!SilverAccounts, Batches!SilverAccounts
  <2>4. Batch!SilverTransactions => Batches!SilverTransactions
    BY <2>1, SameRules DEF Batch!SilverTransactions, Batches!SilverTransactions
  <2> QED
    BY <1>5, <2>2, <2>3, <2>4 DEF Batches!Next, Batches!Step
<1>6. CASE Batch!BuildDimCustomers \/ Batch!BuildDimAccounts \/ Batch!BuildFactTransactions
  <2>1. \A table, rows : Batch!WriteGold(table, rows) => Batches!WriteGold(table, rows)
    BY DEF Batch!WriteGold, Batches!WriteGold
  <2>2. Batch!BuildDimCustomers => Batches!BuildDimCustomers
    BY <1>1, <2>1, SameGold DEF Batch!BuildDimCustomers, Batches!BuildDimCustomers
  <2>3. Batch!BuildDimAccounts => Batches!BuildDimAccounts
    BY <2>1, SameGold DEF Batch!BuildDimAccounts, Batches!BuildDimAccounts
  <2>4. Batch!BuildFactTransactions => Batches!BuildFactTransactions
    BY <2>1, SameGold DEF Batch!BuildFactTransactions, Batches!BuildFactTransactions
  <2> QED
    BY <1>6, <2>2, <2>3, <2>4 DEF Batches!Next, Batches!Step
<1>7. CASE Batch!WriteDqReport \/ Batch!DumpDqReport \/ Batch!AssertContractInvariants
  <2>1. \A rows, unread, name :
            Batch!Counted(rows, unread, name) = Batches!Counted(rows, unread, name)
    BY SameGold DEF Batch!Counted, Batches!Counted
  <2>2. Batch!WriteDqReport => Batches!WriteDqReport
    BY <1>1, <1>2, <2>1, SameGold DEF Batch!WriteDqReport, Batches!WriteDqReport
  <2>3. Batch!DumpDqReport => Batches!DumpDqReport
    BY DEF Batch!DumpDqReport, Batches!DumpDqReport
  <2>4. Batch!Q1 = Batches!Q1 /\ Batch!Q2 = Batches!Q2 /\ Batch!Q3 = Batches!Q3
    BY SameGold DEF Batch!Q1, Batches!Q1, Batch!Q2, Batches!Q2, Batch!Q3, Batches!Q3
  <2>5. Batch!Verdict = Batches!Verdict
    BY <2>4 DEF Batch!Verdict, Batches!Verdict
  <2>6. Batch!AssertContractInvariants => Batches!AssertContractInvariants
    BY <2>5 DEF Batch!AssertContractInvariants, Batches!AssertContractInvariants
  <2> QED
    BY <1>7, <2>2, <2>3, <2>6 DEF Batches!Next, Batches!Step
<1>8. CASE UNCHANGED Batch!vars
  BY <1>8 DEF Batch!vars, Batches!vars
<1> QED
  BY <1>3, <1>4, <1>5, <1>6, <1>7, <1>8 DEF Batch!Next, Batch!Step

\* Under the same assumptions on the constants.
LEMMA SameBatchAssumptions == Batches!RulesAssumption /\ Batches!MedallionAssumption
<1>1. Batches!RulesAssumption
  BY ComponentAssumptions DEF Batch!RulesAssumption, Batches!RulesAssumption
<1>2. Batches!MedallionAssumption
  <2> USE DEF Batch!IsFiniteSet, Batches!IsFiniteSet, Batch!Nullable, Batches!Nullable
  <2>1. /\ Batch!CustomerLine = Batches!CustomerLine /\ Batch!AccountLine = Batches!AccountLine
        /\ Batch!TxnLine = Batches!TxnLine
    BY DEF Batch!CustomerLine, Batches!CustomerLine, Batch!AccountLine, Batches!AccountLine,
           Batch!TxnLine, Batches!TxnLine, Batch!DateText, Batches!DateText, Batch!Days,
           Batches!Days, Batch!DayTimes, Batches!DayTimes
  <2>2. Batch!Input = Batches!Input
    BY <2>1 DEF Batch!Input, Batches!Input
  <2> QED
    BY <2>2, ComponentAssumptions DEF Batch!MedallionAssumption, Batches!MedallionAssumption
<1> QED
  BY <1>1, <1>2

\* The theorems on the batch stages are theorems on the process.
LEMMA BatchTheoremsApply == Spec => Batches!Spec
<1>1. Batch!Init => Batches!Init
  BY DEF Batch!Init, Batches!Init, Batch!SourceTables, Batches!SourceTables, Batch!GoldTables,
         Batches!GoldTables
<1> QED
  BY <1>1, SameBatchSteps, RunsMedallion, PTL DEF Batch!Spec, Batches!Spec

-----------------------------------------------------------------------------
(* The theorems on the components, as theorems on the process.             *)

\* Whatever happens to the process around it, at every moment of its life the
\* stream tables are right, and the loop has forgotten or repeated no file beyond
\* what failures and restarts explain.
THEOREM StreamTablesOfProcess ==
    Spec => [](/\ Streaming!BalanceIsLedger /\ Streaming!RecentIsNewest
               /\ Streaming!LastTsIsNewest /\ Streaming!KeyedRowsBounded
               /\ Streaming!SkippedOnlyForCause /\ Streaming!ExtraApplicationsExplained
               /\ Streaming!RetriesStop /\ Streaming!OvertakenOnlyAfterFailure)
<1>1. Streaming!Spec => []Streaming!BalanceIsLedger
  BY SameStreamAssumptions, Streaming!BalancesAddUp
<1>2. Streaming!Spec => []Streaming!RecentIsNewest
  BY SameStreamAssumptions, Streaming!NewestTransactionsKept
<1>3. Streaming!Spec => []Streaming!LastTsIsNewest
  BY SameStreamAssumptions, Streaming!NewestTimestampKept
<1>4. Streaming!Spec => []Streaming!KeyedRowsBounded
  BY SameStreamAssumptions, Streaming!RetentionEffective
<1>5. Streaming!Spec => []Streaming!SkippedOnlyForCause
  BY SameStreamAssumptions, Streaming!NoFileForgotten
<1>6. Streaming!Spec => []Streaming!ExtraApplicationsExplained
  BY SameStreamAssumptions, Streaming!ExtraApplicationsBounded
<1>7. Streaming!Spec => []Streaming!RetriesStop
  BY SameStreamAssumptions, Streaming!AttemptsBounded
<1>8. Streaming!Spec => []Streaming!OvertakenOnlyAfterFailure
  BY SameStreamAssumptions, Streaming!NameOrderKept
<1> QED
  BY <1>1, <1>2, <1>3, <1>4, <1>5, <1>6, <1>7, <1>8, StreamTheoremsApply, PTL

\* The process as a whole feeds files at least once, as MicroBatchFeed says.
THEOREM ProcessImplementsFeed == Spec => Streaming!FeedContract
<1>1. Streaming!Spec => Streaming!FeedContract
  BY SameStreamAssumptions, Streaming!ImplementsFeed
<1> QED
  BY <1>1, StreamTheoremsApply, PTL

\* The gold tables of every run of a process are right, whatever killed it before
\* or after, and so is the report behind them.
THEOREM GoldTablesOfProcess ==
    Spec => [](/\ Batches!StarSchemaClosed /\ Batches!FactIsExact /\ Batches!FlagsAreExact
               /\ Batches!RerunIsIdentical /\ Batches!ReportAddsUp)
<1>1. Batches!Spec => []Batches!StarSchemaClosed
  BY SameBatchAssumptions, Batches!GoldIsAStar
<1>2. Batches!Spec => []Batches!FactIsExact
  BY SameBatchAssumptions, Batches!FactLosesNothing
<1>3. Batches!Spec => []Batches!FlagsAreExact
  BY SameBatchAssumptions, Batches!FactFlagsExact
<1>4. Batches!Spec => []Batches!RerunIsIdentical
  BY SameBatchAssumptions, Batches!RerunsAgree
<1>5. Batches!Spec => []Batches!ReportAddsUp
  BY SameBatchAssumptions, Batches!ReportTotals
<1> QED
  BY <1>1, <1>2, <1>3, <1>4, <1>5, BatchTheoremsApply, PTL

\* A process as a whole writes gold in one step, as GoldRun says.
THEOREM ProcessRunsAreAtomic == Spec => Batches!RunsAreAtomic
<1>1. Batches!Spec => Batches!RunsAreAtomic
  BY SameBatchAssumptions, Batches!RunIsOneStep
<1> QED
  BY <1>1, BatchTheoremsApply, PTL

\* What a process that exits with 0 leaves to the readers of the volume: gold
\* tables that the input of one run allows, a closed star schema with exact flags,
\* and a report whose numbers are those of the tables, but for reads that failed.
GoldIsRight ==
    /\ \E o \in outcomes : o.gold = gold /\ Batches!IsGoldOf(o.input, gold)
    /\ Batches!Closed(gold) /\ Batches!Flagged(gold)
    /\ Batches!AddsUp(report)

\* Exit code 0 means right gold tables, whatever failed, was killed or was replaced
\* before it, and whatever the streaming stage has met since.
THEOREM ExitZeroMeansRight == Spec => [](process = "exit 0" => GoldIsRight)
<1>1. Batches!Spec => [](Batches!BatchInv /\ Batches!GoldRunInv)
  BY SameBatchAssumptions, Batches!RunInvariant
<1>2. Batches!Spec => []Batches!ReportInv
  BY SameBatchAssumptions, Batches!ReportInvariant
<1>3. /\ Batches!BatchInv /\ Batches!GoldRunInv /\ Batches!ReportInv
      /\ ExitInv /\ WholeInv
      => (process = "exit 0" => GoldIsRight)
  <2> SUFFICES ASSUME Batches!BatchInv, Batches!GoldRunInv, Batches!ReportInv, ExitInv,
                      WholeInv, process = "exit 0"
               PROVE  GoldIsRight
    OBVIOUS
  <2>1. batch_pc = "completed"
    BY DEF ExitInv
  <2>2. PICK o \in outcomes : o.gold = gold
    BY <2>1 DEF WholeInv
  <2>3. Batches!IsGoldOf(o.input, gold)
    BY <2>2 DEF Batches!GoldRunInv, Batches!IsOutcome
  <2>4. Batches!Closed(gold) /\ Batches!Flagged(gold)
    BY <2>2 DEF Batches!BatchInv, Batches!OutcomesInv
  <2>5. Batches!AddsUp(report)
    BY <2>1 DEF Batches!ReportInv
  <2> QED
    BY <2>2, <2>3, <2>4, <2>5 DEF GoldIsRight
<1> QED
  BY <1>1, <1>2, <1>3, BatchTheoremsApply, ExitInvariant, WholeInvariant, PTL

-----------------------------------------------------------------------------
(* The process is a job of PipelineJob.                                    *)

\* The gold tables that the job's specification allows are those of GoldRun's proof.
LEMMA SameAllowed == \A in, g : Batches!IsGoldOf(in, g) => Rules!IsGoldOf(in, g)
<1>1. \A rows, key : Batches!Identified(rows, key) = Rules!Identified(rows, key)
  BY DEF Batches!Identified, Rules!Identified
<1>2. \A S, rows, key :
          Batches!IsDeduplication(S, rows, key) <=> Rules!IsDeduplication(S, rows, key)
  BY DEF Batches!IsDeduplication, Rules!IsDeduplication
<1>3. \A S, rows : Batches!KeepsEarliest(S, rows) <=> Rules!KeepsEarliest(S, rows)
  BY DEF Batches!KeepsEarliest, Rules!KeepsEarliest, Batches!Earlier, Rules!Earlier
<1>4. \A text : Batches!ParseDateRobust(text) = Rules!ParseDateRobust(text)
  BY DEF Batches!ParseDateRobust, Rules!ParseDateRobust
<1>5. \A r : Batches!ToSilverCustomer(r) = Rules!ToSilverCustomer(r)
  BY <1>4 DEF Batches!ToSilverCustomer, Rules!ToSilverCustomer
<1>6. \A t, accounts : Batches!ToSilverTxn(t, accounts) = Rules!ToSilverTxn(t, accounts)
  <2>1. \A d, t : Batches!TransactionTimestamp(d, t) = Rules!TransactionTimestamp(d, t)
    BY DEF Batches!TransactionTimestamp, Rules!TransactionTimestamp
  <2>2. \A orphan, amount, date, variant :
            Batches!DqFlag(orphan, amount, date, variant)
            = Rules!DqFlag(orphan, amount, date, variant)
    BY DEF Batches!DqFlag, Rules!DqFlag
  <2>3. \A c : Batches!CurrencyWasVariant(c) = Rules!CurrencyWasVariant(c)
    BY DEF Batches!CurrencyWasVariant, Rules!CurrencyWasVariant
  <2>4. \A c : Batches!NormaliseCurrency(c) = Rules!NormaliseCurrency(c)
    BY DEF Batches!NormaliseCurrency, Rules!NormaliseCurrency
  <2> QED
    BY <1>4, <2>1, <2>2, <2>3, <2>4 DEF Batches!ToSilverTxn, Rules!ToSilverTxn
<1>7. \A dob, day : Batches!DeriveAgeBand(dob, day) = Rules!DeriveAgeBand(dob, day)
  BY DEF Batches!DeriveAgeBand, Rules!DeriveAgeBand, Batches!Cardinality, Rules!Cardinality
<1>8. \A rows, day : Batches!DimCustomers(rows, day) = Rules!DimCustomers(rows, day)
  BY <1>7 DEF Batches!DimCustomers, Rules!DimCustomers
<1>9. \A rows, dim : Batches!DimAccounts(rows, dim) = Rules!DimAccounts(rows, dim)
  BY DEF Batches!DimAccounts, Rules!DimAccounts, Batches!DimAccountsRow, Rules!DimAccountsRow
<1>10. \A txns, accounts, customers :
           Batches!Fact(txns, accounts, customers) = Rules!Fact(txns, accounts, customers)
  BY DEF Batches!Fact, Rules!Fact
<1>11. Batches!RunDates = Rules!RunDates
  BY DEF Batches!RunDates, Rules!RunDates
<1>12. ASSUME NEW in, NEW g, Batches!IsGoldOf(in, g) PROVE Rules!IsGoldOf(in, g)
  <2> DEFINE customers == Batches!Identified(in.customers, "customer_id")
             accounts  == Batches!Identified(in.accounts, "account_id")
             Silvered(A)  == {Batches!ToSilverTxn(t, A) :
                               t \in Batches!Identified(in.transactions, "transaction_id")}
  <2>1. PICK C \in SUBSET customers, A \in SUBSET accounts :
            /\ Batches!IsDeduplication(C, customers, "customer_id")
            /\ Batches!IsDeduplication(A, accounts, "account_id")
            /\ \E day \in Batches!RunDates :
                  g["dim_customers"] =
                      Batches!DimCustomers({Batches!ToSilverCustomer(r) : r \in C}, day)
            /\ g["dim_accounts"] = Batches!DimAccounts(A, g["dim_customers"])
            /\ \E T \in SUBSET Silvered(A) :
                  /\ Batches!IsDeduplication(T, Silvered(A), "transaction_id")
                  /\ Batches!KeepsEarliest(T, Silvered(A))
                  /\ g["fact_transactions"] =
                        Batches!Fact(T, g["dim_accounts"], g["dim_customers"])
    BY <1>12 DEF Batches!IsGoldOf
  <2>2. /\ customers = Rules!Identified(in.customers, "customer_id")
        /\ accounts = Rules!Identified(in.accounts, "account_id")
        /\ Silvered(A) = {Rules!ToSilverTxn(t, A) :
                           t \in Rules!Identified(in.transactions, "transaction_id")}
        /\ {Batches!ToSilverCustomer(r) : r \in C} = {Rules!ToSilverCustomer(r) : r \in C}
    BY <1>1, <1>5, <1>6
  <2> HIDE DEF customers, accounts, Silvered
  <2>3. /\ Rules!IsDeduplication(C, customers, "customer_id")
        /\ Rules!IsDeduplication(A, accounts, "account_id")
        /\ g["dim_accounts"] = Rules!DimAccounts(A, g["dim_customers"])
    BY <1>2, <1>9, <2>1
  <2>4. \E day \in Rules!RunDates :
            g["dim_customers"] = Rules!DimCustomers({Rules!ToSilverCustomer(r) : r \in C}, day)
    BY <1>8, <1>11, <2>1, <2>2
  <2>5. \E T \in SUBSET Silvered(A) :
            /\ Rules!IsDeduplication(T, Silvered(A), "transaction_id")
            /\ Rules!KeepsEarliest(T, Silvered(A))
            /\ g["fact_transactions"] = Rules!Fact(T, g["dim_accounts"], g["dim_customers"])
    BY <1>2, <1>3, <1>10, <2>1
  <2> QED
    BY <2>1, <2>2, <2>3, <2>4, <2>5 DEF Rules!IsGoldOf
<1> QED
  BY <1>12

\* A step of the streaming stage is a step of the job's feed, or leaves it alone.
LEMMA FeedMoves ==
    Streaming!LoopInv /\ [Stream!Next]_stream =>
        Job!Feed!Next \/ UNCHANGED <<applied, merged, processed, retry_counts>>
<1> SUFFICES ASSUME Streaming!LoopInv, [Stream!Next]_stream
             PROVE  Job!Feed!Next \/ UNCHANGED <<applied, merged, processed, retry_counts>>
  OBVIOUS
<1>1. [Stream!Next]_(Stream!vars)
  BY DEF stream, Stream!vars, Stream!volume, Stream!tmp, Stream!memory, Stream!pass,
         Stream!bounds, Stream!history
<1>2. [Streaming!Feed!Next]_(Streaming!Feed!vars)
  BY <1>1, SameSteps, SameStreamAssumptions, Streaming!FeedNext
<1>3. Streaming!Feed!Next => Job!Feed!Next
  BY DEF Streaming!Feed!Next, Job!Feed!Next, Streaming!Feed!Apply, Job!Feed!Apply,
         Streaming!Feed!Merge, Job!Feed!Merge, Streaming!Feed!Settle, Job!Feed!Settle,
         Streaming!Feed!Strike, Job!Feed!Strike, Streaming!Feed!GiveUp, Job!Feed!GiveUp,
         Streaming!Feed!Forget, Job!Feed!Forget
<1> QED
  BY <1>2, <1>3 DEF Streaming!Feed!vars

\* The loop does not touch the stream directory.
LEMMA LoopKeepsDirectory ==
    Stream!Step \/ Stream!Raise \/ (\E kind, result : Stream!Start(kind, result)) => UNCHANGED dir
BY DEF Stream!Step, Stream!Poll, Stream!EndOfPass, Stream!Sleep, Stream!ParseStreamEvents,
       Stream!UpsertCurrentBalances, Stream!UpsertRecentTransactions, Stream!Retention,
       Stream!RecordProcessed, Stream!RetryLater, Stream!GiveUp, Stream!RecordFailed,
       Stream!Raise, Stream!PollRaises, Stream!StatementRaises, Stream!RecordProcessedRaises,
       Stream!HandlerRaises, Stream!Start, Stream!volume

\* The last overwrite of gold publishes tables that this input allows.
LEMMA FactPublishes ==
    ASSUME Batches!BatchInv, Batches!GoldRunInv, Batch!BuildFactTransactions
    PROVE  /\ Job!Runs!Run
           /\ outcomes' = outcomes \cup {[input |-> input, gold |-> gold']}
           /\ batch_pc = "gold.fact_transactions" /\ batch_pc' = "dq_report"
<1> DEFINE o == [input |-> input, gold |-> gold']
<1>1. Batches!BuildFactTransactions
  <2>1. \A table, rows : Batch!WriteGold(table, rows) => Batches!WriteGold(table, rows)
    BY DEF Batch!WriteGold, Batches!WriteGold, Batch!memory, Batches!memory, Batch!bounds,
           Batches!bounds
  <2> QED
    BY <2>1, SameGold DEF Batch!BuildFactTransactions, Batches!BuildFactTransactions
<1>2. outcomes' = outcomes \cup {o} /\ Batches!IsOutcome(o)
  BY <1>1, SameBatchAssumptions, Batches!RunAdds
<1>3. o \in outcomes' /\ outcomes' = outcomes \cup {o} /\ o.input = input
  BY <1>2
<1>4. Rules!IsGoldOf(o.input, o.gold)
  BY <1>2, SameAllowed DEF Batches!IsOutcome
<1>5. UNCHANGED input /\ batch_pc = "gold.fact_transactions" /\ batch_pc' = "dq_report"
  BY DEF Batch!BuildFactTransactions, Batch!WriteGold
<1>6. outcomes' = outcomes \cup {[input |-> input, gold |-> gold']}
  BY <1>3
<1> HIDE DEF o
<1>7. Job!Runs!Run
  BY <1>3, <1>4, <1>5 DEF Job!Runs!Run
<1> QED
  BY <1>5, <1>6, <1>7

\* Contracts that the queries found kept are kept: the star schema is closed.
LEMMA ContractsAreKept ==
    ASSUME Batches!BatchInv, WholeInv, batch_pc = "contracts", ContractsHold
    PROVE  KeepsContracts(gold)
<1>1. \A S : Batch!Cardinality(S) = Cardinality(S)
  BY DEF Batch!Cardinality, Cardinality
<1>2. PICK o \in outcomes : o.gold = gold
  BY DEF WholeInv
<1>3. Batches!Joined(gold["dim_accounts"], gold["dim_customers"])
  BY <1>2 DEF Batches!BatchInv, Batches!OutcomesInv, Batches!Closed
<1>4. \A a \in gold["dim_accounts"] :
          \E c \in gold["dim_customers"] : c.customer_id = a.customer_id
  BY <1>3 DEF Batches!Joined
<1>5. ~(Cardinality({r.txn.transaction_type : r \in gold["fact_transactions"]} \ {NULL})
          < MinTypes)
  BY <1>1 DEF ContractsHold, Batch!Q1
<1>6. Cardinality({c.province : c \in gold["dim_customers"]} \ {NULL}) \in 1 .. MaxProvinces
  BY <1>1 DEF ContractsHold, Batch!Q3
<1> QED
  BY <1>4, <1>5, <1>6 DEF KeepsContracts

\* What the job reads of a process.
JobView == <<process, Phase, Vouched, input, outcomes, applied, merged, processed, retry_counts,
             dir, look, present>>

\* A batch statement publishes, verifies, breaks, or is not seen.
LEMMA BatchStepIsJobs ==
    ASSUME BatchStep, Batches!BatchInv, Batches!GoldRunInv, WholeInv
    PROVE  Job!Publish \/ Job!Verify \/ Job!Break \/ UNCHANGED JobView
<1>1. /\ process = "running" /\ Batch!Step
      /\ UNCHANGED <<process, look, present, applied, merged, processed, retry_counts, dir>>
  BY DEF BatchStep, shell, stream
<1> USE DEF Phase, Vouched, Batch!volume, Batch!memory, Batch!bounds
<1>2. CASE Batch!BronzeAccounts \/ Batch!BronzeTransactions \/ Batch!BronzeCustomers
  <2>1. /\ Phase = "writing" /\ Phase' = "writing"
        /\ UNCHANGED <<input, outcomes>>
    BY <1>2 DEF Batch!BronzeAccounts, Batch!BronzeTransactions, Batch!BronzeCustomers,
                Batch!WriteBronze
  <2> QED  BY <1>1, <2>1 DEF JobView
<1>3. CASE Batch!SilverCustomers \/ Batch!SilverAccounts \/ Batch!SilverTransactions
  <2>1. /\ batch_pc \in {"silver.customers", "silver.accounts", "silver.transactions"}
        /\ batch_pc' \in {"silver.accounts", "silver.transactions", "gold.dim_customers"}
        /\ UNCHANGED <<input, outcomes>>
    BY <1>3 DEF Batch!SilverCustomers, Batch!SilverAccounts, Batch!SilverTransactions,
                Batch!WriteSilver
  <2>2. Phase = "writing" /\ Phase' = "writing"
    BY <2>1
  <2> QED  BY <1>1, <2>1, <2>2 DEF JobView
<1>4. CASE Batch!BuildDimCustomers \/ Batch!BuildDimAccounts
  <2>1. /\ Phase = "writing" /\ Phase' = "writing"
        /\ UNCHANGED <<input, outcomes>>
    BY <1>4 DEF Batch!BuildDimCustomers, Batch!BuildDimAccounts, Batch!WriteGold
  <2> QED  BY <1>1, <2>1 DEF JobView
<1>5. CASE Batch!BuildFactTransactions
  <2>1. /\ Job!Runs!Run
        /\ outcomes' = outcomes \cup {[input |-> input, gold |-> gold']}
        /\ batch_pc = "gold.fact_transactions" /\ batch_pc' = "dq_report"
    BY <1>5, FactPublishes
  <2>2. Phase = "writing" /\ Phase' = "whole" /\ Vouched' = gold'
    BY <2>1
  <2> QED  BY <1>1, <2>1, <2>2 DEF Job!Publish, Job!feed, Job!files
<1>6. CASE Batch!WriteDqReport \/ Batch!DumpDqReport
  <2>1. /\ Phase = "whole" /\ Phase' = "whole"
        /\ UNCHANGED <<gold, input, outcomes>>
    BY <1>6 DEF Batch!WriteDqReport, Batch!DumpDqReport
  <2> QED  BY <1>1, <2>1 DEF JobView
<1>7. CASE Batch!AssertContractInvariants
  <2>1. /\ batch_pc = "contracts" /\ Phase = "whole" /\ UNCHANGED <<gold, input, outcomes>>
        /\ \/ batch_pc' = "completed" /\ Batch!Verdict = "none"
           \/ batch_pc' = "exited"
    BY <1>7 DEF Batch!AssertContractInvariants
  <2>2. CASE batch_pc' = "completed" /\ Batch!Verdict = "none"
    <3>1. ContractsHold
      BY <2>2 DEF Batch!Verdict, ContractsHold
    <3>2. KeepsContracts(gold)
      BY <2>1, <3>1, ContractsAreKept
    <3>3. Phase' = "verified" /\ Vouched = gold /\ Vouched' = gold
      BY <2>1, <2>2
    <3> QED  BY <1>1, <2>1, <3>2, <3>3 DEF Job!Verify, Job!runs, Job!feed, Job!files
  <2>3. CASE batch_pc' = "exited"
    <3>1. Phase' = "broken" /\ Vouched' = NoTable
      BY <2>3
    <3> QED  BY <1>1, <2>1, <3>1 DEF Job!Break, Job!Lose, Job!runs, Job!feed, Job!files
  <2> QED  BY <2>1, <2>2, <2>3
<1>8. CASE Batch!BronzeSchemaMismatch
  <2>1. /\ Phase = "writing" /\ Phase' = "broken" /\ Vouched' = NoTable
        /\ UNCHANGED <<input, outcomes>>
    BY <1>8 DEF Batch!BronzeSchemaMismatch
  <2> QED  BY <1>1, <2>1 DEF Job!Break, Job!Lose, Job!runs, Job!feed, Job!files
<1> QED
  BY <1>1, <1>2, <1>3, <1>4, <1>5, <1>6, <1>7, <1>8 DEF Batch!Step

\* What the proof that a process is a job rests on.
JobInv ==
    /\ Batches!BatchInv /\ Batches!GoldRunInv /\ WholeInv
    /\ Streaming!LoopInv
    /\ ShellInv /\ ContractInv /\ LookInv /\ LogTellsInv /\ ExitInv

\* Past a kill or behind the batch stages, no gold table is being written.
LEMMA PhaseAtRest ==
    ASSUME JobInv, process # "running" \/ stage = "stream"
    PROVE  /\ Phase \in {"broken", "verified"}
           /\ process = "running" => Phase = "verified"
<1>1. \/ process # "running" /\ batch_pc \in Batch!Stopped
      \/ process = "running" /\ batch_pc = "completed"
  BY DEF JobInv, LogTellsInv, ContractInv
<1> QED
  BY <1>1 DEF Phase, Batch!Stopped

\* The look may be that of a new container, which has nothing settled.
LEMMA StageForgets ==
    ASSUME Streaming!LoopInv, NEW kind, NEW result, Stream!Start(kind, result)
    PROVE  Job!Feed!Forget /\ UNCHANGED dir
<1>1. processed_state \subseteq processed
  BY DEF Streaming!LoopInv, Streaming!MemoryInv
<1> QED
  BY <1>1 DEF Stream!Start, Stream!KeptTmp, Stream!volume, Stream!history, Job!Feed!Forget

\* Reaching the streaming stage is the job's look.
LEMMA StageIsLook == ASSUME JobInv, StreamStage PROVE Job!Look
<1>1. /\ process = "running" /\ stage = "batch" /\ batch_pc = "completed"
      /\ UNCHANGED <<process, batch>> /\ present' = dir
  BY DEF StreamStage, BatchDone
<1>2. Phase = "verified" /\ UNCHANGED <<Phase, Vouched, input, outcomes>>
  BY <1>1 DEF Phase, Vouched, batch
<1>3. look = "none"
  BY <1>1 DEF JobInv, LookInv
<1>4. Stream!Start(container, look')
  BY DEF StreamStage
<1>5. Job!Feed!Forget /\ UNCHANGED dir
  BY <1>4, StageForgets DEF JobInv
<1>6. \/ look' = "found" /\ dir # {}
      \/ look' = "empty" /\ dir = {}
      \/ look' = "failed"
  BY <1>4 DEF Stream!Start
<1> QED
  BY <1>1, <1>2, <1>3, <1>5, <1>6 DEF Job!Look, Job!runs

\* A step of the loop feeds, or is not seen.
LEMMA LoopDelivers ==
    ASSUME JobInv, StreamStep \/ StreamRaises
    PROVE  Job!Deliver \/ UNCHANGED JobView
<1>1. /\ process = "running" /\ stage = "stream"
      /\ UNCHANGED <<process, look, present, batch>>
      /\ Stream!Step \/ Stream!Raise
  BY DEF StreamStep, StreamRaises, shell
<1>2. UNCHANGED dir /\ [Stream!Next]_stream
  BY <1>1, LoopKeepsDirectory DEF Stream!Next
<1>3. look = "found" /\ batch_pc = "completed"
  BY <1>1, LoopRuns DEF JobInv, LookInv, ContractInv
<1>4. Phase = "verified" /\ UNCHANGED <<Phase, Vouched, input, outcomes>>
  BY <1>1, <1>3 DEF Phase, Vouched, batch
<1>5. Job!Feed!Next \/ UNCHANGED <<applied, merged, processed, retry_counts>>
  BY <1>2, FeedMoves DEF JobInv
<1> QED
  BY <1>1, <1>2, <1>3, <1>4, <1>5 DEF Job!Deliver, Job!runs, Job!files, JobView

\* Every step of a process, and of its environment, is one of the job or not seen.
LEMMA JobNext == JobInv /\ [Next]_vars => [Job!Next]_(Job!vars)
<1> SUFFICES ASSUME JobInv, [Next]_vars PROVE Job!Next \/ UNCHANGED JobView
  BY DEF Job!vars, Job!runs, Job!feed, Job!files, JobView
<1> USE DEF Job!runs, Job!feed, Job!files
<1>1. CASE BatchStep
  BY <1>1, BatchStepIsJobs DEF JobInv, Job!Next
<1>2. CASE StreamStage \/ StreamStep \/ StreamRaises
  BY <1>2, StageIsLook, LoopDelivers DEF Job!Next
<1>3. CASE \E kind \in RestartKinds : Start(kind)
  <2>1. /\ process # "running" /\ process' = "running" /\ look' = "none" /\ present' = dir
        /\ batch_pc' = "bronze.accounts" /\ UNCHANGED <<input, outcomes>>
        /\ UNCHANGED <<applied, merged, processed, retry_counts, dir>>
    BY <1>3 DEF Start, Batch!Start, Batch!volume, stream
  <2>2. Phase' = "writing" /\ Vouched' = NoTable
    BY <2>1 DEF Phase, Vouched
  <2> QED  BY <2>1, <2>2 DEF Job!Begin, Job!Next
<1>4. CASE BatchRaises
  <2>1. /\ process = "running" /\ UNCHANGED <<process, look, present, input, outcomes>>
        /\ batch_pc \notin Batch!Stopped /\ batch_pc' = "exited"
        /\ UNCHANGED <<applied, merged, processed, retry_counts, dir>>
    BY <1>4 DEF BatchRaises, Batch!Raise, Batch!volume, stream, shell
  <2>2. Phase # "verified" /\ Phase' = "broken" /\ Vouched' = NoTable
    BY <2>1 DEF Phase, Vouched, Batch!Stopped
  <2> QED  BY <2>1, <2>2 DEF Job!Break, Job!Lose, Job!Next
<1>5. CASE Kill
  <2>1. /\ process = "running" /\ process' = "killed"
        /\ UNCHANGED <<look, present, input, outcomes, gold>>
        /\ UNCHANGED <<applied, merged, processed, retry_counts, dir>>
    BY <1>5 DEF Kill, Batch!Crash, Stream!Crash, Batch!volume, Stream!volume, Stream!memory,
                Stream!history, batch, stream
  <2>2. batch_pc' = IF batch_pc \in Batch!Stopped THEN batch_pc ELSE "stopped"
    BY <1>5 DEF Kill, Batch!Crash, batch
  <2>3. CASE batch_pc = "completed"
    <3>1. Phase = "verified" /\ UNCHANGED <<Phase, Vouched>>
      BY <2>1, <2>2, <2>3 DEF Phase, Vouched, Batch!Stopped
    <3> QED  BY <2>1, <3>1 DEF Job!Kill, Job!Lose, Job!Next
  <2>4. CASE batch_pc # "completed"
    <3>1. Phase # "verified" /\ Phase' = "broken" /\ Vouched' = NoTable
      BY <2>2, <2>4 DEF Phase, Vouched, Batch!Stopped
    <3> QED  BY <2>1, <3>1 DEF Job!Kill, Job!Lose, Job!Next
  <2> QED  BY <2>3, <2>4
<1>6. CASE Exit
  <2>1. /\ process = "running"
        /\ UNCHANGED <<Phase, Vouched, input, outcomes, look, present>>
        /\ UNCHANGED <<applied, merged, processed, retry_counts, dir>>
    BY <1>6 DEF Exit, Phase, Vouched, batch, stream
  <2>2. CASE stage = "stream" /\ stream_pc = "done" /\ process' = "exit 0"
    <3>1. Phase = "verified"
      BY <2>1, <2>2, PhaseAtRest
    <3>2. look = "failed" \/ (look # "none" /\ present \subseteq processed)
      BY <2>1, <2>2 DEF JobInv, ExitInv, LookInv
    <3> QED  BY <2>1, <2>2, <3>1, <3>2 DEF Job!Succeed, Job!Next
  <2>3. CASE ((stage = "batch" /\ BatchFailed) \/ stage = "stream") /\ process' = "exit 1"
    <3>1. Phase \in {"broken", "verified"}
      BY <2>3, PhaseAtRest DEF BatchFailed, Phase
    <3> QED  BY <2>1, <2>3, <3>1 DEF Job!Fail, Job!Next
  <2> QED  BY <1>6, <2>2, <2>3 DEF Exit
<1>7. CASE StartUnconfigured \/ StreamUnconfigured
  <2>1. /\ process \in {"running", "killed"} /\ process' = "exit 1"
        /\ UNCHANGED <<Phase, Vouched, input, outcomes, look, present>>
        /\ UNCHANGED <<applied, merged, processed, retry_counts, dir>>
        /\ process = "running" => batch_pc = "completed"
    BY <1>7 DEF StartUnconfigured, StreamUnconfigured, BatchDone, Phase, Vouched, batch, stream
  <2>2. Phase \in {"broken", "verified"}
    BY <2>1, PhaseAtRest DEF Phase
  <2> QED  BY <2>1, <2>2 DEF Job!Fail, Job!Next
<1>8. CASE BatchEnvironment
  <2>1. UNCHANGED <<process, look, present, applied, merged, processed, retry_counts, dir>>
    BY <1>8 DEF BatchEnvironment, stream, shell
  <2>2. CASE Batch!ReplaceInput
    <3>1. /\ batch_pc \in Batch!Stopped /\ UNCHANGED <<batch_pc, gold, outcomes>>
          /\ input' \in BatchInputs \ {input}
      BY <2>2 DEF Batch!ReplaceInput
    <3>2. Phase \in {"broken", "verified"} /\ UNCHANGED <<Phase, Vouched>>
      BY <3>1 DEF Phase, Vouched, Batch!Stopped
    <3> QED  BY <2>1, <3>1, <3>2 DEF Job!ReplaceInput, Job!Runs!ReplaceInput, Job!Next
  <2>3. CASE Batch!Tick
    BY <2>1, <2>3 DEF Batch!Tick, Batch!volume, Phase, Vouched, JobView
  <2> QED  BY <1>8, <2>2, <2>3 DEF BatchEnvironment
<1>9. CASE \E f \in Files : Arrive(f)
  <2>1. PICK f \in Files : Arrive(f)
    BY <1>9
  <2>2. /\ f \notin dir /\ dir' = dir \cup {f}
        /\ UNCHANGED <<applied, merged, processed, retry_counts>>
    BY <2>1 DEF Arrive, Stream!Arrive, Stream!memory, Stream!history
  <2>3. UNCHANGED <<process, look, present, Phase, Vouched, input, outcomes>>
    BY <2>1 DEF Arrive, Phase, Vouched, batch, shell
  <2> QED  BY <2>2, <2>3 DEF Job!Arrive, Job!Next
<1>10. CASE EnterTimer \/ LeaveTimer \/ UNCHANGED vars
  BY <1>10 DEF EnterTimer, LeaveTimer, Phase, Vouched, batch, stream, shell, vars, JobView
<1> QED
  BY <1>1, <1>2, <1>3, <1>4, <1>5, <1>6, <1>7, <1>8, <1>9, <1>10 DEF Next, Step

\* A process is a job: whatever fails, is killed, is replaced or arrives, and however
\* the nine overwrites, the timers and the loop interleave with that, gold tables are
\* published whole, verified, and then kept while stream files are looked for and fed,
\* and exit code 0 comes only after all of it, or after a look that failed.
THEOREM ProcessIsAJob == Spec => IsAJob
<1>1. Init => Job!Init
  <2> SUFFICES ASSUME Init PROVE Job!Init
    OBVIOUS
  <2>1. Job!Runs!Init
    BY DEF Init, Batch!Init, Job!Runs!Init
  <2>2. Job!Feed!Init
    BY DEF Init, Stream!Init, Job!Feed!Init
  <2>3. process = "killed" /\ Phase = "broken" /\ Vouched = NoTable
    BY DEF Init, Batch!Init, Phase, Vouched
  <2>4. dir \subseteq Files /\ look = "none" /\ present = {}
    BY StreamConstants DEF Init, Stream!Init
  <2> QED  BY <2>1, <2>2, <2>3, <2>4 DEF Job!Init
<1>2. Batches!Spec => [](Batches!BatchInv /\ Batches!GoldRunInv)
  BY SameBatchAssumptions, Batches!RunInvariant
<1>3. Streaming!Spec => []Streaming!LoopInv
  BY SameStreamAssumptions, Streaming!LoopInvariant
<1>4. Spec => []JobInv
  BY <1>2, <1>3, BatchTheoremsApply, StreamTheoremsApply, WholeInvariant, ShellInvariant,
     ContractInvariant, LookInvariant, LogTellsInvariant, ExitInvariant, PTL DEF JobInv
<1> QED
  BY <1>1, <1>4, JobNext, PTL DEF Spec, IsAJob, Job!Spec
=============================================================================
