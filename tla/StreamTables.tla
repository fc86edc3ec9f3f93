---------------------------- MODULE StreamTables ----------------------------
(***************************************************************************)
(* The data side of pipeline/stream_ingest.py: what one micro-batch file   *)
(* does to the two stream_gold tables.  There is no state here: the module *)
(* defines the rows, the conversions of parse_stream_events and the MERGE  *)
(* and retention statements as functions of a table and a batch of events. *)
(*                                                                         *)
(* A row of a table is a record; current_balances is a function from       *)
(* accounts (its merge key) and recent_transactions a set of rows, each    *)
(* with an identity, because nothing in the code keeps two rows with equal *)
(* columns apart or from existing.  A table that has not been created yet  *)
(* is the empty table: both branches on DeltaTable.isDeltaTable leave the  *)
(* same rows.  updated_at, channel and currency are left out: nothing in   *)
(* the code reads them back.                                               *)
(***************************************************************************)
EXTENDS FiniteSetsExt

CONSTANTS
    Files,       \* names of the micro-batch files; < is the name order
    Accounts,    \* account_id values
    Txns,        \* transaction_id values
    LastInstant, \* transaction timestamps are the instants 0 .. LastInstant
    DecMax,      \* the largest DECIMAL(18,2)
    MAX_RECENT,  \* rows retained per account
    NULL,        \* SQL NULL
    NoRow        \* the account has no row in current_balances

ASSUME TablesAssumption ==
    /\ Files \subseteq Nat /\ IsFiniteSet(Files)
    /\ LastInstant \in Nat
    /\ DecMax \in Nat
    /\ MAX_RECENT \in Nat \ {0}

Nullable(S) == S \cup {NULL}
Decimals    == -DecMax .. DecMax
Times       == 0 .. LastInstant
Types       == {"CREDIT", "REVERSAL", "DEBIT", "FEE"}

\* SQL NULL is neither a number nor a text.
ASSUME NullAssumption == NULL \notin Int \cup Types

\* The columns whose absence from a file's inferred schema raises.
Columns == {"currency", "amount", "transaction_date", "transaction_time",
            "account_id", "transaction_id", "transaction_type"}

\* A JSON line as written by the producer.  instant is the moment its date and
\* time denote, the two texts only how they were written ("dmy" stands for any
\* date the streaming pattern does not match); an amount whose text is not a
\* number is NULL.
Line == [no               : Nat,
         account_id       : Nullable(Accounts),
         transaction_id   : Nullable(Txns),
         transaction_date : {"iso", "dmy", NULL},
         transaction_time : {"hms", NULL},
         instant          : Times,
         amount           : Nullable(Int),
         transaction_type : Nullable(Types)]

FileData == [columns : SUBSET Columns,
             lines   : {L \in SUBSET Line : IsFiniteSet(L)}]

Event == [no                    : Nat,
          account_id            : Nullable(Accounts),
          transaction_id        : Nullable(Txns),
          transaction_timestamp : Nullable(Times),
          amount                : Nullable(Decimals),
          transaction_type      : Nullable(Types)]

BalanceRow == [current_balance            : Nullable(Decimals),
               last_transaction_timestamp : Nullable(Times)]

ASSUME NoRowAssumption == NoRow \notin BalanceRow

RecentRow == [id : Files \X Nat \X Nat, event : Event]

-----------------------------------------------------------------------------
(* Conversions.                                                            *)

\* CAST(x AS DECIMAL(18,2)): out of range is NULL, and so is the cast of NULL.
ToDecimal_uncast(x) == x
ToDecimal(x) == IF x \in Decimals THEN x ELSE NULL

\* concat(date, ' ', time) is NULL when either part is, and to_timestamp is
\* NULL when the text does not match yyyy-MM-dd HH:mm:ss.
ToTimestamp(l) ==
    IF l.transaction_date = "iso" /\ l.transaction_time = "hms"
    THEN l.instant ELSE NULL

ParseLine(l) ==
    [no                    |-> l.no,
     account_id            |-> l.account_id,
     transaction_id        |-> l.transaction_id,
     transaction_timestamp |-> ToTimestamp(l),
     amount                |-> ToDecimal(l.amount),
     transaction_type      |-> l.transaction_type]

Events(data) == {ParseLine(l) : l \in data.lines}

\* What Spark's analysis of each statement needs to find in the file.
ParseColumns   == {"currency", "amount", "transaction_date", "transaction_time"}
BalanceColumns == {"account_id", "transaction_type"}
RecentColumns  == {"account_id", "transaction_id", "transaction_type"}

-----------------------------------------------------------------------------
(* current_balances.                                                       *)

\* The sign convention; an unknown or missing type counts as an outflow.
SignedAmount_reversalIsOutflow(e) ==
    IF e.transaction_type = "CREDIT" THEN e.amount ELSE -e.amount

SignedAmount(e) ==
    IF e.transaction_type \in {"CREDIT", "REVERSAL"} THEN e.amount ELSE -e.amount

\* The events of an account that the aggregation keeps.
Counted(E, a) == {e \in E : e.account_id = a /\ e.amount # NULL}

NetDelta(E, a) == ToDecimal(MapThenSumSet(SignedAmount, Counted(E, a)))

BatchLastTs(E, a) ==
    LET T == {e.transaction_timestamp : e \in Counted(E, a)} \ {NULL}
    IN  IF T = {} THEN NULL ELSE Max(T)

PlusDecimal_nullIsZero(x, y) ==
    IF x = NULL THEN y ELSE IF y = NULL THEN x ELSE ToDecimal(x + y)

PlusDecimal(x, y) == IF NULL \in {x, y} THEN NULL ELSE ToDecimal(x + y)

\* CASE WHEN src > tgt THEN src ELSE tgt END: comparing with NULL is not true.
NewerTs_lastBatch(src, tgt) == IF src # NULL THEN src ELSE tgt
NewerTs(src, tgt) ==
    IF src # NULL /\ tgt # NULL /\ src > tgt THEN src ELSE tgt

MergedBalance(row, E, a) ==
    IF row = NoRow
    THEN [current_balance            |-> NetDelta(E, a),
          last_transaction_timestamp |-> BatchLastTs(E, a)]
    ELSE [current_balance            |-> PlusDecimal(row.current_balance, NetDelta(E, a)),
          last_transaction_timestamp |->
              NewerTs(BatchLastTs(E, a), row.last_transaction_timestamp)]

MergeBalances(table, E) ==
    [a \in Accounts |->
        IF Counted(E, a) = {} THEN table[a] ELSE MergedBalance(table[a], E, a)]

-----------------------------------------------------------------------------
(* recent_transactions.                                                    *)

\* The merge condition: an equality with a NULL on either side is not true.
SameKey(e1, e2) ==
    /\ e1.account_id # NULL /\ e1.account_id = e2.account_id
    /\ e1.transaction_id # NULL /\ e1.transaction_id = e2.transaction_id

\* Delta refuses a MERGE in which two source rows update one target row.
AmbiguousMerge(table, E) ==
    \E r \in table : \E e1, e2 \in E :
        e1 # e2 /\ SameKey(r.event, e1) /\ SameKey(r.event, e2)

UpdatedRow(r, E) ==
    IF \E e \in E : SameKey(r.event, e)
    THEN [r EXCEPT !.event = CHOOSE e \in E : SameKey(r.event, e)]
    ELSE r

\* A row is identified by the line it was inserted from and by how many rows
\* that line has left in the table.
NewRow(table, f, e) ==
    [id    |-> <<f, e.no, Cardinality({r \in table : r.id[1] = f /\ r.id[2] = e.no})>>,
     event |-> e]

MergeRecent(table, f, E) ==
    {UpdatedRow(r, E) : r \in table} \cup
    {NewRow(table, f, e) : e \in {x \in E : \A r \in table : ~SameKey(r.event, x)}}

OfAccount(table, a) == {r \in table : r.event.account_id = a}

\* ORDER BY transaction_timestamp DESC, which puts NULL last.
NotOlder_ascending(r, s) ==
    \/ r.event.transaction_timestamp = NULL
    \/ /\ s.event.transaction_timestamp # NULL
       /\ r.event.transaction_timestamp <= s.event.transaction_timestamp

NotOlder(r, s) ==
    \/ s.event.transaction_timestamp = NULL
    \/ /\ r.event.transaction_timestamp # NULL
       /\ s.event.transaction_timestamp # NULL
       /\ r.event.transaction_timestamp >= s.event.transaction_timestamp

\* Spark numbers rows with equal timestamps in any order: D is a possible
\* result of keeping the rows numbered above MAX_RECENT.
PastLimit_offByOne(table, D) ==
    \A a \in Nullable(Accounts) :
        LET rows == OfAccount(table, a)
            old  == OfAccount(D, a)
        IN  /\ Cardinality(old) = Max({0, Cardinality(rows) - (MAX_RECENT + 1)})
            /\ \A r \in rows \ old, s \in old : NotOlder(r, s)

PastLimit(table, D) ==
    \A a \in Nullable(Accounts) :
        LET rows == OfAccount(table, a)
            old  == OfAccount(D, a)
        IN  /\ Cardinality(old) = Max({0, Cardinality(rows) - MAX_RECENT})
            /\ \A r \in rows \ old, s \in old : NotOlder(r, s)

\* The delete is by key, so it removes every row of a key listed in D.
DeleteKeys(table, D) == {r \in table : \A d \in D : ~SameKey(r.event, d.event)}
=============================================================================
