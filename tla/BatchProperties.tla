--------------------------- MODULE BatchProperties ---------------------------
(***************************************************************************)
(* What the batch stages promise, over the states of Medallion.  Most of   *)
(* it is said of outcomes: the input and the gold tables of every run that *)
(* wrote all of gold, whatever runs went before it and however they ended. *)
(***************************************************************************)
EXTENDS Medallion

BronzeRow(t) == CASE t = "customers"    -> CustomerLine
                  [] t = "accounts"     -> AccountLine
                  [] t = "transactions" -> TxnLine

SilverRow(t) == CASE t = "customers"    -> SilverCustomer
                  [] t = "accounts"     -> AccountLine
                  [] t = "transactions" -> SilverTxn

IsReport(r) ==
    /\ r.run_timestamp \in Nat
    /\ r.source_record_counts \in [SourceTables -> Nat]
    /\ \E codes \in SUBSET DqCodes : r.dq_issues \in [codes -> Nat \ {0}]
    /\ r.gold_layer_record_counts \in [GoldTables -> Nat]

\* The type invariant: every table on the data volume and every variable of the
\* process has the shape the code gives it.
TypeOK ==
    /\ input \in Input
    /\ \A t \in SourceTables : bronze[t] # NoTable =>
          bronze[t] \in [rows : SUBSET BronzeRow(t), stamp : Nat, optional : BOOLEAN]
    /\ \A t \in SourceTables : silver[t] # NoTable =>
          silver[t] \in [rows : SUBSET SilverRow(t), stamp : Nat]
    /\ \A t \in GoldTables : gold[t] # NoTable => IsFiniteSet(gold[t])
    /\ \A r \in {report, draft} : r # NoTable => IsReport(r)
    /\ pc \in PCs /\ cause \in Causes
    /\ started \in 0 .. MaxClock /\ ingestion_ts \in Nat /\ now \in 0 .. MaxClock
    /\ runs \in 0 .. MaxRuns /\ faults \in 0 .. MaxFaults /\ changes \in 0 .. MaxChanges

-----------------------------------------------------------------------------
(* The gold tables of a run.                                               *)

UniqueBy(rows, Key(_)) == \A r, s \in rows : Key(r) = Key(s) => r = s

\* No join multiplies a row and no key dangles: the natural keys of the three
\* gold tables are unique, and each fact row names the account its transaction
\* belongs to and the customer that account belongs to, even when each of the
\* three inputs repeats keys.
StarSchemaClosed ==
    \A o \in outcomes :
        LET customers == o.gold["dim_customers"]
            accounts  == o.gold["dim_accounts"]
            fact      == o.gold["fact_transactions"]
        IN  /\ UniqueBy(customers, LAMBDA c : c.customer_id)
            /\ UniqueBy(accounts, LAMBDA a : a.account_id)
            /\ UniqueBy(fact, LAMBDA r : r.txn.transaction_id)
            /\ \A a \in accounts : \E c \in customers : c.customer_id = a.customer_id
            /\ \A r \in fact :
                  \E a \in accounts, c \in customers :
                      /\ r.account = a.no /\ r.customer = c.no
                      /\ a.account_id = r.txn.account_id /\ c.customer_id = a.customer_id

LineTimestamp(l) ==
    TransactionTimestamp(ParseDateRobust(l.transaction_date), l.transaction_time)

\* The lines that the rule "keep earliest" allows to survive.
Candidates(lines, id) ==
    LET same == {l \in lines : l.transaction_id = id}
        T    == {LineTimestamp(l) : l \in same} \ {NULL}
    IN  {l \in same : LineTimestamp(l) = IF T = {} THEN NULL ELSE Min(T)}

\* fact_transactions loses and invents nothing: a transaction is in it, once and
\* from one of its earliest lines, exactly when the line that was kept belongs to
\* an account of dim_accounts.
FactIsExact ==
    \A o \in outcomes :
        LET known == {a.account_id : a \in o.gold["dim_accounts"]}
        IN  \A id \in TxnIds :
                LET earliest == Candidates(o.input.transactions, id)
                    lines    == {r.txn.no : r \in {x \in o.gold["fact_transactions"] :
                                                       x.txn.transaction_id = id}}
                IN  /\ lines \subseteq {l.no : l \in {x \in earliest : x.account_id \in known}}
                    /\ lines = {} => earliest = {} \/ \E l \in earliest : l.account_id \notin known

\* dq_flag tells what is wrong with a fact row: never ORPHANED_ACCOUNT (those are
\* kept in silver only), TYPE_MISMATCH exactly when the amount is NULL and
\* DATE_FORMAT exactly when only the date is.
FlagsAreExact ==
    \A o \in outcomes : \A r \in o.gold["fact_transactions"] :
        /\ r.txn.dq_flag # "ORPHANED_ACCOUNT"
        /\ r.txn.dq_flag = "TYPE_MISMATCH" <=> r.txn.amount = NULL
        /\ r.txn.dq_flag = "DATE_FORMAT" <=>
               r.txn.amount # NULL /\ r.txn.transaction_date = NULL

\* The Q2 assertion never is what stops a run: the inner join of
\* build_dim_accounts guarantees it.
Q2NeverFails == cause # "Q2"

\* No choice is left to the deduplications.
NoTies(in) ==
    /\ \A r, s \in Identified(in.customers, "customer_id") : r.customer_id = s.customer_id => r = s
    /\ \A r, s \in Identified(in.accounts, "account_id") : r.account_id = s.account_id => r = s
    /\ \A id \in TxnIds : \A r, s \in Candidates(in.transactions, id) : r = s

\* With RUN_TIMESTAMP pinned and no ties, every run on an input writes the same
\* gold tables, whatever crashed or replaced runs left behind.
RerunIsIdentical ==
    RUN_TIMESTAMP # NULL =>
        \A o1, o2 \in outcomes : o1.input = o2.input /\ NoTies(o1.input) => o1 = o2

\* The gold tables that one look at an input may give: what survives each
\* deduplication and the date of the run are the only choices.
RunDates == IF RUN_TIMESTAMP = NULL THEN 0 .. MaxClock ELSE {RUN_TIMESTAMP}

IsGoldOf(in, g) ==
    LET customers == Identified(in.customers, "customer_id")
        accounts  == Identified(in.accounts, "account_id")
        txns      == Identified(in.transactions, "transaction_id")
    IN  \E C \in SUBSET customers, A \in SUBSET accounts :
            /\ IsDeduplication(C, customers, "customer_id")
            /\ IsDeduplication(A, accounts, "account_id")
            /\ \E day \in RunDates :
                  g["dim_customers"] = DimCustomers({ToSilverCustomer(r) : r \in C}, day)
            /\ g["dim_accounts"] = DimAccounts(A, g["dim_customers"])
            /\ \E T \in SUBSET {ToSilverTxn(t, A) : t \in txns} :
                  /\ IsDeduplication(T, {ToSilverTxn(t, A) : t \in txns}, "transaction_id")
                  /\ KeepsEarliest(T, {ToSilverTxn(t, A) : t \in txns})
                  /\ g["fact_transactions"] =
                        Fact(T, g["dim_accounts"], g["dim_customers"])

\* The nine overwrites of a run act as one step from its input to its gold tables,
\* over whatever killed, failed or earlier runs on other inputs left behind.
Gold == INSTANCE GoldRun WITH Allowed <- IsGoldOf
RunsAreAtomic == Gold!Spec

-----------------------------------------------------------------------------
(* dq_report.json.                                                         *)

CountedOrUnread(count, rows) == count = Cardinality(rows) \/ (count = 0 /\ faults > 0)

\* When the report is on disk its numbers are those of the tables of this run,
\* but for reads that failed and were counted as empty; the flags it counts and
\* the clean rows add up to silver transactions, so no row counts twice.
ReportAddsUp ==
    pc \in {"contracts", "completed"} =>
        LET txns == silver["transactions"].rows
            found == DOMAIN report.dq_issues
        IN  /\ \A t \in SourceTables :
                   CountedOrUnread(report.source_record_counts[t], bronze[t].rows)
            /\ \A t \in GoldTables :
                   CountedOrUnread(report.gold_layer_record_counts[t], gold[t])
            /\ \/ MapThenSumSet(LAMBDA code : report.dq_issues[code], found)
                    = Cardinality({t \in txns : t.dq_flag # NULL})
               \/ found = {} /\ faults > 0

-----------------------------------------------------------------------------
(* What the repository says of these stages, and the code does not do.     *)

\* README.md: "orphaned customer references can never reach Gold".
OrphansNeverInGold ==
    NoTable \notin {gold["dim_accounts"], gold["dim_customers"]} => Q2 = 0

\* README.md: "batch re-runs produce identical Gold tables".
GoldIsReproducible ==
    RUN_TIMESTAMP # NULL => \A o1, o2 \in outcomes : o1.input = o2.input => o1 = o2
=============================================================================
