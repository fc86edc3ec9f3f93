------------------------------ MODULE Medallion ------------------------------
(***************************************************************************)
(* The batch stages of run_all: run_ingestion (bronze), run_transformation *)
(* (silver) and run_provisioning (gold, dq_report.json, the Q1/Q2/Q3       *)
(* contracts), one process that overwrites nine Delta tables one after the *)
(* other.  It may raise between any two commits, be killed and be run      *)
(* again over what the earlier run left on the data volume, with the same  *)
(* input or another.                                                       *)
(*                                                                         *)
(* A Delta overwrite commits as a whole, so each write is one action.      *)
(* A definition named <Definition>_<fault> is a faulty variant of the one  *)
(* that follows it, used by no action.                                     *)
(***************************************************************************)
EXTENDS BatchRules

CONSTANTS
    Inputs,        \* possible contents of /data/input
    RUN_TIMESTAMP, \* the pinned run timestamp, or NULL for the clock
    MinTypes,      \* Q1: 4 in the source
    MaxProvinces,  \* Q3: 9 in the source
    NoTable,       \* nothing has been written at the path yet
    MaxFaults,     \* bound: transient errors
    MaxRuns,       \* bound: process starts
    MaxChanges,    \* bound: times the input is replaced
    MaxClock       \* bound: the clock, in days

ASSUME MedallionAssumption ==
    /\ Inputs \subseteq Input
    /\ \A in \in Inputs :
           /\ IsFiniteSet(in.customers) /\ IsFiniteSet(in.accounts)
           /\ IsFiniteSet(in.transactions)
    /\ RUN_TIMESTAMP \in Nullable(Nat)
    /\ MinTypes \in Nat /\ MaxProvinces \in Nat
    /\ MaxFaults \in Nat /\ MaxRuns \in Nat /\ MaxChanges \in Nat /\ MaxClock \in Nat

VARIABLES
    input,         \* data volume: the three input files
    bronze,        \* data volume: the bronze tables
    silver,        \* data volume: the silver tables
    gold,          \* data volume: the gold tables
    report,        \* data volume: dq_report.json
    pc,            \* where the process is
    cause,         \* why it exited with 1
    started,       \* memory: pipeline_start_time
    ingestion_ts,  \* memory: the timestamp of the bronze rows
    draft,         \* memory: the assembled report
    now,           \* the clock
    runs, faults, changes, \* how much of the bounds is used
    outcomes       \* history: [input, gold] of the runs that wrote all of gold

volume == <<input, bronze, silver, gold, report>>
memory == <<started, ingestion_ts, draft>>
bounds == <<now, runs, faults, changes>>
vars   == <<volume, pc, cause, memory, bounds, outcomes>>

Stopped == {"stopped", "completed", "exited"}
PCs == Stopped \cup
    {"bronze.accounts", "bronze.transactions", "bronze.customers",
     "silver.customers", "silver.accounts", "silver.transactions",
     "gold.dim_customers", "gold.dim_accounts", "gold.fact_transactions",
     "dq_report", "dq_report.dump", "contracts"}

Causes == {"none", "error", "schema", "Q1", "Q2", "Q3"}

SourceTables == {"customers", "accounts", "transactions"}
GoldTables   == {"dim_customers", "dim_accounts", "fact_transactions"}

\* resolve_run_timestamp
RunTimestamp_clock == now
RunTimestamp == IF RUN_TIMESTAMP = NULL THEN now ELSE RUN_TIMESTAMP

-----------------------------------------------------------------------------
Init ==
    /\ input \in Inputs
    /\ bronze = [t \in SourceTables |-> NoTable]
    /\ silver = [t \in SourceTables |-> NoTable]
    /\ gold = [t \in GoldTables |-> NoTable]
    /\ report = NoTable
    /\ pc = "stopped" /\ cause = "none"
    /\ started = 0 /\ ingestion_ts = 0 /\ draft = NoTable
    /\ now = 0 /\ runs = 0 /\ faults = 0 /\ changes = 0
    /\ outcomes = {}

Start ==
    /\ pc \in Stopped /\ runs < MaxRuns
    /\ runs' = runs + 1
    /\ started' = now
    /\ ingestion_ts' = RunTimestamp
    /\ pc' = "bronze.accounts" /\ cause' = "none"
    /\ UNCHANGED <<volume, draft, now, faults, changes, outcomes>>

Crash ==
    /\ pc \notin Stopped
    /\ pc' = "stopped"
    /\ UNCHANGED <<volume, cause, memory, bounds, outcomes>>

\* Any statement may raise before it commits: run_all exits with 1.
Raise ==
    /\ pc \notin Stopped
    /\ faults < MaxFaults /\ faults' = faults + 1
    /\ pc' = "exited" /\ cause' = "error"
    /\ UNCHANGED <<volume, memory, now, runs, changes, outcomes>>

\* The operator replaces the input between two runs.
ReplaceInput ==
    /\ pc \in Stopped
    /\ changes < MaxChanges /\ changes' = changes + 1
    /\ input' \in Inputs \ {input}
    /\ UNCHANGED <<bronze, silver, gold, report, pc, cause, memory, now, runs, faults, outcomes>>

Tick ==
    /\ now < MaxClock
    /\ now' = now + 1
    /\ UNCHANGED <<volume, pc, cause, memory, runs, faults, changes, outcomes>>

-----------------------------------------------------------------------------
(* run_ingestion.                                                          *)

WriteBronze_append(table, rows) ==
    /\ bronze' = [bronze EXCEPT ![table] =
                     [rows |-> IF @ = NoTable THEN rows ELSE @.rows \cup rows,
                      stamp |-> ingestion_ts, optional |-> FALSE]]
    /\ UNCHANGED <<input, silver, gold, report, cause, memory, bounds, outcomes>>
WriteBronze(table, rows) ==
    /\ bronze' = [bronze EXCEPT ![table] = [rows |-> rows, stamp |-> ingestion_ts,
                                            optional |-> FALSE]]
    /\ UNCHANGED <<input, silver, gold, report, cause, memory, bounds, outcomes>>

BronzeAccounts ==
    /\ pc = "bronze.accounts"
    /\ WriteBronze("accounts", input.accounts)
    /\ pc' = "bronze.transactions"

\* An overwrite may leave columns of the table out, but not add any: the JSONL
\* file's optional columns must already be in the table, if there is one.
SchemaFits ==
    input.optional /\ bronze["transactions"] # NoTable => bronze["transactions"].optional

BronzeTransactions ==
    /\ pc = "bronze.transactions"
    /\ SchemaFits
    /\ bronze' = [bronze EXCEPT !["transactions"] =
                     [rows |-> input.transactions, stamp |-> ingestion_ts,
                      optional |-> IF @ = NoTable THEN input.optional ELSE @.optional]]
    /\ pc' = "bronze.customers"
    /\ UNCHANGED <<input, silver, gold, report, cause, memory, bounds, outcomes>>

BronzeSchemaMismatch ==
    /\ pc = "bronze.transactions"
    /\ ~SchemaFits
    /\ pc' = "exited" /\ cause' = "schema"
    /\ UNCHANGED <<volume, memory, bounds, outcomes>>

BronzeCustomers ==
    /\ pc = "bronze.customers"
    /\ WriteBronze("customers", input.customers)
    /\ pc' = "silver.customers"

-----------------------------------------------------------------------------
(* run_transformation.                                                     *)

WriteSilver(table, rows) ==
    /\ silver' = [silver EXCEPT ![table] = [rows |-> rows, stamp |-> bronze[table].stamp]]
    /\ UNCHANGED <<input, bronze, gold, report, cause, memory, bounds, outcomes>>

SilverCustomers ==
    /\ pc = "silver.customers"
    /\ LET rows == Identified(bronze["customers"].rows, "customer_id")
       IN  \E kept \in SUBSET rows :
              /\ IsDeduplication(kept, rows, "customer_id")
              /\ WriteSilver("customers", {ToSilverCustomer(r) : r \in kept})
    /\ pc' = "silver.accounts"

SilverAccounts ==
    /\ pc = "silver.accounts"
    /\ LET rows == Identified(bronze["accounts"].rows, "account_id")
       IN  \E kept \in SUBSET rows :
              /\ IsDeduplication(kept, rows, "account_id")
              /\ WriteSilver("accounts", kept)
    /\ pc' = "silver.transactions"

\* Conversion and flags come first, the deduplication last.
SilverTransactions ==
    /\ pc = "silver.transactions"
    /\ LET rows == {ToSilverTxn(t, silver["accounts"].rows) :
                        t \in Identified(bronze["transactions"].rows, "transaction_id")}
       IN  \E kept \in SUBSET rows :
              /\ IsDeduplication(kept, rows, "transaction_id")
              /\ KeepsEarliest(kept, rows)
              /\ WriteSilver("transactions", kept)
    /\ pc' = "gold.dim_customers"

-----------------------------------------------------------------------------
(* run_provisioning.                                                       *)

WriteGold(table, rows) ==
    /\ gold' = [gold EXCEPT ![table] = rows]
    /\ UNCHANGED <<input, bronze, silver, report, cause, memory, bounds>>

BuildDimCustomers ==
    /\ pc = "gold.dim_customers"
    /\ WriteGold("dim_customers", DimCustomers(silver["customers"].rows, RunTimestamp))
    /\ pc' = "gold.dim_accounts"
    /\ UNCHANGED outcomes

BuildDimAccounts ==
    /\ pc = "gold.dim_accounts"
    /\ WriteGold("dim_accounts", DimAccounts(silver["accounts"].rows, gold["dim_customers"]))
    /\ pc' = "gold.fact_transactions"
    /\ UNCHANGED outcomes

BuildFactTransactions ==
    /\ pc = "gold.fact_transactions"
    /\ WriteGold("fact_transactions",
                 Fact(silver["transactions"].rows, gold["dim_accounts"], gold["dim_customers"]))
    /\ outcomes' = outcomes \cup {[input |-> input, gold |-> gold']}
    /\ pc' = "dq_report"

\* Each of the seven reads behind the report counts as empty when it raises.
Counted(rows, unread, name) == IF name \in unread THEN 0 ELSE Cardinality(rows)

WriteDqReport ==
    /\ pc = "dq_report"
    /\ \E unread \in SUBSET (SourceTables \cup GoldTables \cup {"flags"}) :
          /\ faults + Cardinality(unread) <= MaxFaults
          /\ faults' = faults + Cardinality(unread)
          /\ draft' =
               [run_timestamp            |-> RunTimestamp,
                source_record_counts     |->
                    [t \in SourceTables |-> Counted(bronze[t].rows, unread, t)],
                dq_issues                |->
                    DqIssues(IF "flags" \in unread THEN {} ELSE silver["transactions"].rows),
                gold_layer_record_counts |->
                    [t \in GoldTables |-> Counted(gold[t], unread, t)]]
    /\ report' = NoTable
    /\ pc' = "dq_report.dump"
    /\ UNCHANGED <<input, bronze, silver, gold, cause, started, ingestion_ts, now, runs,
                   changes, outcomes>>

\* open(path, "w") has truncated the file; json.dump fills it.
DumpDqReport ==
    /\ pc = "dq_report.dump"
    /\ report' = draft
    /\ pc' = "contracts"
    /\ UNCHANGED <<input, bronze, silver, gold, cause, memory, bounds, outcomes>>

Q1 == Cardinality({r.txn.transaction_type : r \in gold["fact_transactions"]} \ {NULL})
Q2 == Cardinality({a \in gold["dim_accounts"] :
                      \A c \in gold["dim_customers"] : c.customer_id # a.customer_id})
Q3 == Cardinality({c.province : c \in gold["dim_customers"]} \ {NULL})

Verdict_q1Only == IF Q1 < MinTypes THEN "Q1" ELSE "none"
Verdict ==
    IF Q1 < MinTypes THEN "Q1"
    ELSE IF Q2 # 0 THEN "Q2"
    ELSE IF Q3 \notin 1 .. MaxProvinces THEN "Q3"
    ELSE "none"

AssertContractInvariants ==
    /\ pc = "contracts"
    /\ cause' = Verdict
    /\ pc' = IF Verdict = "none" THEN "completed" ELSE "exited"
    /\ UNCHANGED <<volume, memory, bounds, outcomes>>

-----------------------------------------------------------------------------
Step ==
    \/ BronzeAccounts \/ BronzeTransactions \/ BronzeSchemaMismatch \/ BronzeCustomers
    \/ SilverCustomers \/ SilverAccounts \/ SilverTransactions
    \/ BuildDimCustomers \/ BuildDimAccounts \/ BuildFactTransactions
    \/ WriteDqReport \/ DumpDqReport \/ AssertContractInvariants

Next == Step \/ Start \/ Crash \/ Raise \/ ReplaceInput \/ Tick

Spec == Init /\ [][Next]_vars
=============================================================================
