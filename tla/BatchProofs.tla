----------------------------- MODULE BatchProofs -----------------------------
(***************************************************************************)
(* Theorems about the batch stages, for every input and every bound on     *)
(* errors, restarts and replaced inputs.  The inductive invariant says     *)
(* what each stage has established by the time the next one reads it.      *)
(***************************************************************************)
EXTENDS BatchProperties, FiniteSums

Unique(rows, key) == \A r, s \in rows : r[key] = s[key] => r = s

\* From which statement on a table is the one of this run.
HasDimAccounts        == {"gold.fact_transactions", "dq_report", "dq_report.dump", "contracts"}
HasDimCustomers       == HasDimAccounts \cup {"gold.dim_accounts"}
HasSilverTransactions == HasDimCustomers \cup {"gold.dim_customers"}
HasSilverAccounts     == HasSilverTransactions \cup {"silver.transactions"}
HasSilverCustomers    == HasSilverAccounts \cup {"silver.accounts"}

Orphan(t, accounts) == \A a \in accounts : a.account_id # t.account_id

\* The flag of a silver transaction against the silver accounts.
FlagRight(t, accounts) ==
    /\ t.dq_flag = "ORPHANED_ACCOUNT" <=> Orphan(t, accounts)
    /\ ~Orphan(t, accounts) =>
           /\ t.dq_flag = "TYPE_MISMATCH" <=> t.amount = NULL
           /\ t.dq_flag = "DATE_FORMAT" <=> t.amount # NULL /\ t.transaction_date = NULL

SilverInv ==
    /\ pc \in HasSilverCustomers => Unique(silver["customers"].rows, "customer_id")
    /\ pc \in HasSilverAccounts => Unique(silver["accounts"].rows, "account_id")
    /\ pc \in HasSilverTransactions =>
           /\ Unique(silver["transactions"].rows, "transaction_id")
           /\ \A t \in silver["transactions"].rows : FlagRight(t, silver["accounts"].rows)

\* Every account has its customer.
Joined(accounts, customers) ==
    \A a \in accounts : \E c \in customers : c.customer_id = a.customer_id

GoldInv ==
    /\ pc \in HasDimCustomers => Unique(gold["dim_customers"], "customer_id")
    /\ pc \in HasDimAccounts =>
           /\ Unique(gold["dim_accounts"], "account_id")
           /\ Joined(gold["dim_accounts"], gold["dim_customers"])
           /\ \A a \in gold["dim_accounts"] :
                 \E s \in silver["accounts"].rows : s.account_id = a.account_id

\* A complete set of gold tables is a star schema with exact flags.
Closed(g) ==
    /\ Unique(g["dim_customers"], "customer_id")
    /\ Unique(g["dim_accounts"], "account_id")
    /\ Joined(g["dim_accounts"], g["dim_customers"])
    /\ \A r, s \in g["fact_transactions"] :
          r.txn.transaction_id = s.txn.transaction_id => r = s
    /\ \A r \in g["fact_transactions"] :
          \E a \in g["dim_accounts"], c \in g["dim_customers"] :
              /\ r.account = a.no /\ r.customer = c.no
              /\ a.account_id = r.txn.account_id /\ c.customer_id = a.customer_id

Flagged(g) ==
    \A r \in g["fact_transactions"] :
        /\ r.txn.dq_flag # "ORPHANED_ACCOUNT"
        /\ r.txn.dq_flag = "TYPE_MISMATCH" <=> r.txn.amount = NULL
        /\ r.txn.dq_flag = "DATE_FORMAT" <=> r.txn.amount # NULL /\ r.txn.transaction_date = NULL

TablesInv ==
    /\ input \in Input
    /\ bronze = [t \in SourceTables |-> bronze[t]]
    /\ pc = "silver.customers" => bronze["customers"].rows \subseteq CustomerLine
    /\ silver = [t \in SourceTables |-> silver[t]]
    /\ gold = [t \in GoldTables |-> gold[t]]

OutcomesInv == \A o \in outcomes : Closed(o.gold) /\ Flagged(o.gold)

BatchInv ==
    /\ TablesInv /\ SilverInv /\ GoldInv /\ OutcomesInv
    /\ cause # "Q2"

-----------------------------------------------------------------------------
(* What the statements establish.                                          *)

\* A deduplication leaves one row per key.
LEMMA DeduplicationUnique ==
    ASSUME NEW S, NEW rows, NEW key, IsDeduplication(S, rows, key)
    PROVE  Unique(S, key)
BY DEF IsDeduplication, Unique

\* The conversion of a customer keeps the key.
LEMMA ConvertedCustomersUnique ==
    ASSUME NEW S, S \subseteq CustomerLine, Unique(S, "customer_id")
    PROVE  Unique({ToSilverCustomer(r) : r \in S}, "customer_id")
<1>1. \A r \in S : ToSilverCustomer(r).customer_id = r.customer_id
  BY DEF ToSilverCustomer, CustomerLine
<1> QED  BY <1>1 DEF Unique

\* A silver customer gives one row of dim_customers, under the same key.
LEMMA DimCustomersUnique ==
    ASSUME NEW rows, NEW day, Unique(rows, "customer_id")
    PROVE  Unique(DimCustomers(rows, day), "customer_id")
BY DEF Unique, DimCustomers

\* The inner join of dim_accounts keeps the key, and keeps only accounts that have
\* their customer.
LEMMA DimAccountsJoined ==
    ASSUME NEW rows, NEW dim_customers, Unique(rows, "account_id")
    PROVE  /\ Unique(DimAccounts(rows, dim_customers), "account_id")
           /\ Joined(DimAccounts(rows, dim_customers), dim_customers)
           /\ \A a \in DimAccounts(rows, dim_customers) :
                 \E s \in rows : s.account_id = a.account_id
<1>1. \A d \in DimAccounts(rows, dim_customers) :
         \E a \in rows : /\ d = DimAccountsRow(a)
                         /\ \E c \in dim_customers : c.customer_id = a.customer_ref
  BY DEF DimAccounts
<1>2. \A a : /\ DimAccountsRow(a).account_id = a.account_id
             /\ DimAccountsRow(a).customer_id = a.customer_ref
  BY DEF DimAccountsRow
<1> QED  BY <1>1, <1>2 DEF Unique, Joined

\* The two inner joins of the fact table.
LEMMA FactClosed ==
    ASSUME NEW txns, NEW accounts, NEW customers, NEW silver_accounts,
           Unique(txns, "transaction_id"),
           Unique(accounts, "account_id"), Unique(customers, "customer_id"),
           \A a \in accounts : \E s \in silver_accounts : s.account_id = a.account_id,
           \A t \in txns : FlagRight(t, silver_accounts)
    PROVE  LET fact == Fact(txns, accounts, customers)
           IN  /\ \A r, s \in fact : r.txn.transaction_id = s.txn.transaction_id => r = s
               /\ \A r \in fact : \E a \in accounts, c \in customers :
                     /\ r.account = a.no /\ r.customer = c.no
                     /\ a.account_id = r.txn.account_id /\ c.customer_id = a.customer_id
               /\ \A r \in fact :
                     FlagRight(r.txn, silver_accounts) /\ ~Orphan(r.txn, silver_accounts)
<1> DEFINE fact == Fact(txns, accounts, customers)
<1>1. \A r \in fact : \E t \in txns, a \in accounts, c \in customers :
         /\ r = [txn |-> t, account |-> a.no, customer |-> c.no]
         /\ t.account_id = a.account_id /\ a.customer_id = c.customer_id
  BY DEF Fact
<1>2. ASSUME NEW r \in fact
      PROVE  \E t \in txns, a \in accounts, c \in customers :
         /\ r.txn = t /\ r.account = a.no /\ r.customer = c.no
         /\ t.account_id = a.account_id /\ a.customer_id = c.customer_id
         /\ r = [txn |-> t, account |-> a.no, customer |-> c.no]
  BY <1>1
<1> HIDE DEF fact
<1>3. ASSUME NEW r \in fact, NEW s \in fact, r.txn.transaction_id = s.txn.transaction_id
      PROVE  r = s
  BY <1>2, <1>3 DEF Unique
<1>4. ASSUME NEW r \in fact
      PROVE  FlagRight(r.txn, silver_accounts) /\ ~Orphan(r.txn, silver_accounts)
  BY <1>2 DEF Orphan
<1> QED  BY <1>2, <1>3, <1>4 DEF fact

\* The flag chain and the fields it looks at.
LEMMA FlagsOfConversion ==
    ASSUME NEW line, NEW accounts
    PROVE  FlagRight(ToSilverTxn(line, accounts), accounts)
<1> DEFINE t == ToSilverTxn(line, accounts)
           variant == CurrencyWasVariant(line.currency)
<1>1. t.dq_flag = DqFlag(Orphan(t, accounts), t.amount, t.transaction_date, variant)
  BY DEF ToSilverTxn, Orphan
<1> HIDE DEF t, variant
<1> QED  BY <1>1, RulesAssumption DEF FlagRight, DqFlag, t

-----------------------------------------------------------------------------
(* The invariant.                                                          *)

\* A volume without tables keeps the invariant.
LEMMA BatchInit == Init => BatchInv
BY MedallionAssumption
   DEF Init, BatchInv, TablesInv, SilverInv, GoldInv, OutcomesInv, HasSilverCustomers,
       HasSilverAccounts, HasSilverTransactions, HasDimCustomers, HasDimAccounts

\* Every statement leaves behind what the statements after it read: one case per
\* action.
LEMMA BatchNext == BatchInv /\ [Next]_vars => BatchInv'
<1> SUFFICES ASSUME BatchInv, [Next]_vars PROVE BatchInv'
  OBVIOUS
<1> USE DEF HasSilverCustomers, HasSilverAccounts, HasSilverTransactions, HasDimCustomers,
            HasDimAccounts, volume, memory, bounds
<1>1. TablesInv /\ SilverInv /\ GoldInv /\ OutcomesInv /\ cause # "Q2"
  BY DEF BatchInv
<1>2. CASE Start \/ Crash \/ Raise \/ Tick \/ UNCHANGED vars
  BY <1>1, <1>2 DEF Start, Crash, Raise, Tick, Stopped, vars, BatchInv, TablesInv, SilverInv,
                    GoldInv, OutcomesInv
<1>3. CASE ReplaceInput
  BY <1>1, <1>3, MedallionAssumption
     DEF ReplaceInput, Stopped, BatchInv, TablesInv, SilverInv, GoldInv, OutcomesInv
<1>4. CASE BronzeAccounts \/ BronzeTransactions \/ BronzeSchemaMismatch
  BY <1>1, <1>4 DEF BronzeAccounts, BronzeTransactions, BronzeSchemaMismatch, WriteBronze,
                    SourceTables, BatchInv, TablesInv, SilverInv, GoldInv, OutcomesInv
<1>5. CASE BronzeCustomers
  BY <1>1, <1>5 DEF BronzeCustomers, WriteBronze, SourceTables, Input, BatchInv, TablesInv,
                    SilverInv, GoldInv, OutcomesInv
<1>6. CASE SilverCustomers
  <2>1. PICK kept : /\ IsDeduplication(kept, Identified(bronze["customers"].rows, "customer_id"),
                                        "customer_id")
                    /\ WriteSilver("customers", {ToSilverCustomer(r) : r \in kept})
    BY <1>6 DEF SilverCustomers
  <2>2. kept \subseteq CustomerLine
    BY <1>1, <1>6, <2>1 DEF SilverCustomers, IsDeduplication, Identified, TablesInv
  <2>3. Unique({ToSilverCustomer(r) : r \in kept}, "customer_id")
    BY <2>1, <2>2, DeduplicationUnique, ConvertedCustomersUnique
  <2>4. /\ silver' = [silver EXCEPT !["customers"] =
                         [rows |-> {ToSilverCustomer(r) : r \in kept},
                          stamp |-> bronze["customers"].stamp]]
        /\ UNCHANGED <<input, bronze, gold, cause, outcomes>>
        /\ pc' = "silver.accounts"
    BY <1>6, <2>1 DEF SilverCustomers, WriteSilver
  <2>5. silver'["customers"].rows = {ToSilverCustomer(r) : r \in kept}
    BY <1>1, <2>4 DEF TablesInv, SourceTables
  <2>6. silver' = [t \in SourceTables |-> silver'[t]]
    BY <1>1, <2>4 DEF TablesInv
  <2> QED
    BY <1>1, <2>3, <2>4, <2>5, <2>6
       DEF BatchInv, TablesInv, SilverInv, GoldInv, OutcomesInv
<1>7. CASE SilverAccounts
  <2>1. PICK kept : /\ IsDeduplication(kept, Identified(bronze["accounts"].rows, "account_id"),
                                        "account_id")
                    /\ WriteSilver("accounts", kept)
    BY <1>7 DEF SilverAccounts
  <2>2. Unique(kept, "account_id")
    BY <2>1, DeduplicationUnique
  <2>3. /\ silver' = [silver EXCEPT !["accounts"] =
                         [rows |-> kept, stamp |-> bronze["accounts"].stamp]]
        /\ UNCHANGED <<input, bronze, gold, cause, outcomes>>
        /\ pc = "silver.accounts" /\ pc' = "silver.transactions"
    BY <1>7, <2>1 DEF SilverAccounts, WriteSilver
  <2>4. silver'["accounts"].rows = kept /\ silver'["customers"] = silver["customers"]
    BY <1>1, <2>3 DEF TablesInv, SourceTables
  <2>5. silver' = [t \in SourceTables |-> silver'[t]]
    BY <1>1, <2>3 DEF TablesInv
  <2> QED
    BY <1>1, <2>2, <2>3, <2>4, <2>5
       DEF BatchInv, TablesInv, SilverInv, GoldInv, OutcomesInv
<1>8. CASE SilverTransactions
  <2> DEFINE accounts == silver["accounts"].rows
             rows == {ToSilverTxn(t, accounts) :
                          t \in Identified(bronze["transactions"].rows, "transaction_id")}
  <2>1. PICK kept : /\ IsDeduplication(kept, rows, "transaction_id")
                    /\ WriteSilver("transactions", kept)
    BY <1>8 DEF SilverTransactions
  <2>2. Unique(kept, "transaction_id")
    BY <2>1, DeduplicationUnique
  <2>3. \A t \in kept : FlagRight(t, accounts)
    BY <2>1, FlagsOfConversion DEF IsDeduplication
  <2>4. /\ silver' = [silver EXCEPT !["transactions"] =
                         [rows |-> kept, stamp |-> bronze["transactions"].stamp]]
        /\ UNCHANGED <<input, bronze, gold, cause, outcomes>>
        /\ pc = "silver.transactions" /\ pc' = "gold.dim_customers"
    BY <1>8, <2>1 DEF SilverTransactions, WriteSilver
  <2>5. /\ silver'["transactions"].rows = kept
        /\ silver'["customers"] = silver["customers"] /\ silver'["accounts"] = silver["accounts"]
    BY <1>1, <2>4 DEF TablesInv, SourceTables
  <2>6. silver' = [t \in SourceTables |-> silver'[t]]
    BY <1>1, <2>4 DEF TablesInv
  <2> QED
    BY <1>1, <2>2, <2>3, <2>4, <2>5, <2>6
       DEF BatchInv, TablesInv, SilverInv, GoldInv, OutcomesInv
<1>9. CASE BuildDimCustomers
  <2> DEFINE dim == DimCustomers(silver["customers"].rows, RunTimestamp)
  <2>1. /\ gold' = [gold EXCEPT !["dim_customers"] = dim]
        /\ UNCHANGED <<input, bronze, silver, cause, outcomes>>
        /\ pc = "gold.dim_customers" /\ pc' = "gold.dim_accounts"
    BY <1>9 DEF BuildDimCustomers, WriteGold
  <2>2. Unique(dim, "customer_id")
    BY <1>1, <2>1, DimCustomersUnique DEF SilverInv
  <2>3. gold'["dim_customers"] = dim /\ gold' = [t \in GoldTables |-> gold'[t]]
    BY <1>1, <2>1 DEF TablesInv, GoldTables
  <2> QED
    BY <1>1, <2>1, <2>2, <2>3 DEF BatchInv, TablesInv, SilverInv, GoldInv, OutcomesInv
<1>10. CASE BuildDimAccounts
  <2> DEFINE dim == DimAccounts(silver["accounts"].rows, gold["dim_customers"])
  <2>1. /\ gold' = [gold EXCEPT !["dim_accounts"] = dim]
        /\ UNCHANGED <<input, bronze, silver, cause, outcomes>>
        /\ pc = "gold.dim_accounts" /\ pc' = "gold.fact_transactions"
    BY <1>10 DEF BuildDimAccounts, WriteGold
  <2>2. /\ Unique(dim, "account_id") /\ Joined(dim, gold["dim_customers"])
        /\ \A a \in dim : \E s \in silver["accounts"].rows : s.account_id = a.account_id
    BY <1>1, <2>1, DimAccountsJoined DEF SilverInv
  <2>3. /\ gold'["dim_accounts"] = dim /\ gold'["dim_customers"] = gold["dim_customers"]
        /\ gold' = [t \in GoldTables |-> gold'[t]]
    BY <1>1, <2>1 DEF TablesInv, GoldTables
  <2> QED
    BY <1>1, <2>1, <2>2, <2>3 DEF BatchInv, TablesInv, SilverInv, GoldInv, OutcomesInv
<1>11. CASE BuildFactTransactions
  <2> DEFINE fact == Fact(silver["transactions"].rows, gold["dim_accounts"], gold["dim_customers"])
  <2>1. /\ gold' = [gold EXCEPT !["fact_transactions"] = fact]
        /\ outcomes' = outcomes \cup {[input |-> input, gold |-> gold']}
        /\ UNCHANGED <<input, bronze, silver, cause>>
        /\ pc = "gold.fact_transactions" /\ pc' = "dq_report"
    BY <1>11 DEF BuildFactTransactions, WriteGold
  <2>2. /\ gold'["fact_transactions"] = fact
        /\ gold'["dim_accounts"] = gold["dim_accounts"]
        /\ gold'["dim_customers"] = gold["dim_customers"]
        /\ gold' = [t \in GoldTables |-> gold'[t]]
    BY <1>1, <2>1 DEF TablesInv, GoldTables
  <2>3. /\ Unique(silver["transactions"].rows, "transaction_id")
        /\ \A t \in silver["transactions"].rows : FlagRight(t, silver["accounts"].rows)
        /\ Unique(gold["dim_customers"], "customer_id")
        /\ Unique(gold["dim_accounts"], "account_id")
        /\ Joined(gold["dim_accounts"], gold["dim_customers"])
        /\ \A a \in gold["dim_accounts"] :
              \E s \in silver["accounts"].rows : s.account_id = a.account_id
    BY <1>1, <2>1 DEF SilverInv, GoldInv
  <2>4. Closed(gold')
    BY <2>2, <2>3, FactClosed DEF Closed
  <2>5. Flagged(gold')
    BY <2>2, <2>3, FactClosed DEF Flagged, FlagRight
  <2>6. OutcomesInv'
    <3> SUFFICES ASSUME NEW o \in outcomes' PROVE Closed(o.gold) /\ Flagged(o.gold)
      BY DEF OutcomesInv
    <3>1. o \in outcomes \/ o = [input |-> input, gold |-> gold']
      BY <2>1, Zenon
    <3>2. CASE o \in outcomes
      BY <1>1, <3>2 DEF OutcomesInv
    <3>3. CASE o = [input |-> input, gold |-> gold']
      <4>1. o.gold = gold'
        BY <3>3
      <4> QED  BY <2>4, <2>5, <4>1 DEF Closed, Flagged
    <3> QED  BY <3>1, <3>2, <3>3
  <2>7. TablesInv' /\ SilverInv'
    BY <1>1, <2>1, <2>2 DEF TablesInv, SilverInv
  <2>8. GoldInv'
    BY <2>1, <2>2, <2>3 DEF GoldInv
  <2> QED
    BY <1>1, <2>1, <2>6, <2>7, <2>8 DEF BatchInv
<1>12. CASE WriteDqReport \/ DumpDqReport
  BY <1>1, <1>12 DEF WriteDqReport, DumpDqReport, BatchInv, TablesInv, SilverInv, GoldInv,
                     OutcomesInv
<1>13. CASE AssertContractInvariants
  <2>1. Q2 = 0
    <3>1. Joined(gold["dim_accounts"], gold["dim_customers"])
      BY <1>1, <1>13 DEF AssertContractInvariants, GoldInv
    <3>2. {a \in gold["dim_accounts"] :
              \A c \in gold["dim_customers"] : c.customer_id # a.customer_id} = {}
      BY <3>1 DEF Joined
    <3> QED  BY <3>2, FS_EmptySet DEF Q2
  <2>2. cause' # "Q2"
    BY <1>13, <2>1 DEF AssertContractInvariants, Verdict
  <2> QED
    BY <1>1, <1>13, <2>2
       DEF AssertContractInvariants, BatchInv, TablesInv, SilverInv, GoldInv, OutcomesInv
<1> QED
  BY <1>2, <1>3, <1>4, <1>5, <1>6, <1>7, <1>8, <1>9, <1>10, <1>11, <1>12, <1>13 DEF Next, Step

\* The invariant holds of every reachable state.
LEMMA BatchInvariant == Spec => []BatchInv
BY BatchInit, BatchNext, PTL DEF Spec

-----------------------------------------------------------------------------
(* The theorems.                                                           *)

\* The Q2 assertion is never what stops a run: its message about a regression of
\* the inner join is unreachable.
THEOREM Q2Unreachable == Spec => []Q2NeverFails
<1>1. BatchInv => Q2NeverFails
  BY DEF BatchInv, Q2NeverFails
<1> QED  BY <1>1, BatchInvariant, PTL

\* Whatever the inputs repeat, leave out or orphan, the gold tables of a run form
\* a closed star schema with unique keys.
THEOREM GoldIsAStar == Spec => []StarSchemaClosed
<1>1. BatchInv => StarSchemaClosed
  <2> SUFFICES ASSUME BatchInv, NEW o \in outcomes, Closed(o.gold)
               PROVE  LET customers == o.gold["dim_customers"]
                          accounts  == o.gold["dim_accounts"]
                          fact      == o.gold["fact_transactions"]
                      IN  /\ UniqueBy(customers, LAMBDA c : c.customer_id)
                          /\ UniqueBy(accounts, LAMBDA a : a.account_id)
                          /\ UniqueBy(fact, LAMBDA r : r.txn.transaction_id)
                          /\ \A a \in accounts : \E c \in customers : c.customer_id = a.customer_id
                          /\ \A r \in fact :
                                \E a \in accounts, c \in customers :
                                    /\ r.account = a.no /\ r.customer = c.no
                                    /\ a.account_id = r.txn.account_id
                                    /\ c.customer_id = a.customer_id
    BY DEF BatchInv, OutcomesInv, StarSchemaClosed
  <2> QED  BY DEF Closed, Unique, UniqueBy, Joined
<1> QED  BY <1>1, BatchInvariant, PTL

\* The flags of the fact rows say exactly what is wrong with them.
THEOREM FactFlagsExact == Spec => []FlagsAreExact
<1>1. BatchInv => FlagsAreExact
  BY DEF BatchInv, OutcomesInv, Flagged, FlagsAreExact
<1> QED  BY <1>1, BatchInvariant, PTL

-----------------------------------------------------------------------------
(* The type invariant.                                                     *)

HasBronzeCustomers    == HasSilverCustomers \cup {"silver.customers"}
HasBronzeTransactions == HasBronzeCustomers \cup {"bronze.customers"}
HasBronzeAccounts     == HasBronzeTransactions \cup {"bronze.transactions"}
HasFact               == {"dq_report", "dq_report.dump", "contracts"}

BronzeTyped(t) ==
    /\ bronze[t] \in [rows : SUBSET BronzeRow(t), stamp : Nat, optional : BOOLEAN]
    /\ IsFiniteSet(bronze[t].rows)
SilverTyped(t) ==
    /\ silver[t] \in [rows : SUBSET SilverRow(t), stamp : Nat]
    /\ IsFiniteSet(silver[t].rows)

\* A table that is there has its type and finitely many rows; one that this run
\* has written is there.
WrittenInv ==
    /\ \A t \in SourceTables : bronze[t] # NoTable => BronzeTyped(t)
    /\ pc \in HasBronzeAccounts => BronzeTyped("accounts")
    /\ pc \in HasBronzeTransactions => BronzeTyped("transactions")
    /\ pc \in HasBronzeCustomers => BronzeTyped("customers")
    /\ \A t \in SourceTables : silver[t] # NoTable => SilverTyped(t)
    /\ pc \in HasSilverCustomers => SilverTyped("customers")
    /\ pc \in HasSilverAccounts => SilverTyped("accounts")
    /\ pc \in HasSilverTransactions => SilverTyped("transactions")
    /\ \A t \in GoldTables : gold[t] # NoTable => IsFiniteSet(gold[t])
    /\ pc \in HasDimCustomers => IsFiniteSet(gold["dim_customers"])
    /\ pc \in HasDimAccounts => IsFiniteSet(gold["dim_accounts"])
    /\ pc \in HasFact => IsFiniteSet(gold["fact_transactions"])

\* The input files are finite, and the variables of the process have their types.
ScalarsInv ==
    /\ input \in Inputs
    /\ \A r \in {report, draft} : r # NoTable => IsReport(r)
    /\ pc \in PCs /\ cause \in Causes
    /\ started \in 0 .. MaxClock /\ ingestion_ts \in Nat /\ now \in 0 .. MaxClock
    /\ runs \in 0 .. MaxRuns /\ faults \in 0 .. MaxFaults /\ changes \in 0 .. MaxChanges

TypeInv == WrittenInv /\ ScalarsInv

\* The conversion of a date that is NULL or a text is NULL or a day.
LEMMA ParsedDateTyped ==
    ASSUME NEW d \in Nullable(DateText)
    PROVE  ParseDateRobust(d) \in Nullable(Days)
BY DEF ParseDateRobust, Nullable, DateText

\* A customer with a key becomes a silver customer.
LEMMA SilverCustomerTyped ==
    ASSUME NEW r \in CustomerLine, r.customer_id # NULL
    PROVE  ToSilverCustomer(r) \in SilverCustomer
<1>1. r.dob \in Nullable(DateText) /\ r.customer_id \in CustomerIds
  BY DEF CustomerLine, Nullable
<1>2. ParseDateRobust(r.dob) \in Nullable(Days)
  BY <1>1, ParsedDateTyped
<1>3. ToSilverCustomer(r) =
        [no |-> r.no, customer_id |-> r.customer_id, province |-> r.province,
         dob |-> ParseDateRobust(r.dob)]
  BY DEF ToSilverCustomer, CustomerLine
<1>4. r.no \in Nat /\ r.province \in Nullable(Provinces)
  BY DEF CustomerLine
<1> QED  BY <1>1, <1>2, <1>3, <1>4 DEF SilverCustomer

\* The timestamp of a day and a time of day is NULL or within the calendar.
LEMMA TransactionTimestampTyped ==
    ASSUME NEW date \in Nullable(Days), NEW time \in Nullable(DayTimes \cup {BadTime})
    PROVE  TransactionTimestamp(date, time) \in Nullable(Timestamps)
<1>1. DayLength \in Nat \ {0} /\ LastDay \in Nat
  BY RulesAssumption
<1>2. CASE date = NULL \/ time = BadTime
  BY <1>2 DEF TransactionTimestamp, Nullable
<1>3. CASE date # NULL /\ time # BadTime
  <2> DEFINE t == IF time = NULL THEN 0 ELSE time
  <2>1. date \in 0 .. LastDay /\ t \in 0 .. DayLength - 1
    BY <1>1, <1>3 DEF Nullable, Days, DayTimes
  <2>2. TransactionTimestamp(date, time) = date * DayLength + t
    BY <1>3 DEF TransactionTimestamp
  <2> HIDE DEF t
  <2>3. PICK rest \in Nat : LastDay = date + rest
    <3>1. LastDay - date \in Nat /\ LastDay = date + (LastDay - date)
      BY <1>1, <2>1
    <3> QED  BY <3>1
  <2>4. date \in Nat /\ t \in Nat /\ t <= DayLength
    BY <1>1, <2>1
  <2>5. date * DayLength \in Nat /\ rest * DayLength \in Nat
    BY <1>1, <2>4
  <2>6. (LastDay + 1) * DayLength = date * DayLength + rest * DayLength + DayLength
    BY <1>1, <2>3, <2>4
  <2>7. date * DayLength + t \in 0 .. (LastDay + 1) * DayLength
    BY <1>1, <2>4, <2>5, <2>6
  <2> QED  BY <2>2, <2>7 DEF Timestamps, Nullable
<1> QED  BY <1>2, <1>3

\* A transaction with a key becomes a silver transaction.
LEMMA SilverTxnTyped ==
    ASSUME NEW l \in TxnLine, l.transaction_id # NULL, NEW accounts
    PROVE  ToSilverTxn(l, accounts) \in SilverTxn
<1> DEFINE date    == ParseDateRobust(l.transaction_date)
           amount  == IF l.amount = "decimal" THEN l.amount ELSE NULL
           orphan  == \A a \in accounts : a.account_id # l.account_id
           variant == CurrencyWasVariant(l.currency)
<1>1. /\ l.no \in Nat /\ l.transaction_id \in TxnIds
      /\ l.account_id \in Nullable(AccountIds)
      /\ l.transaction_date \in Nullable(DateText)
      /\ l.transaction_time \in Nullable(DayTimes \cup {BadTime})
      /\ l.currency \in {"ZAR", "variant", "foreign", NULL}
      /\ l.transaction_type \in Nullable(TxnTypes)
  BY DEF TxnLine, Nullable
<1>2. date \in Nullable(Days)
  BY <1>1, ParsedDateTyped
<1>3. TransactionTimestamp(date, l.transaction_time) \in Nullable(Timestamps)
  BY <1>1, <1>2, TransactionTimestampTyped
<1>4. amount \in {"decimal", NULL}
  OBVIOUS
<1>5. NormaliseCurrency(l.currency) \in {"ZAR", "foreign", NULL}
  BY <1>1 DEF NormaliseCurrency
<1>6. DqFlag(orphan, amount, date, variant) \in Nullable(DqCodes)
  BY DEF DqFlag, DqCodes, Nullable
<1>7. ToSilverTxn(l, accounts) =
        [no                    |-> l.no,
         transaction_id        |-> l.transaction_id,
         account_id            |-> l.account_id,
         transaction_date      |-> date,
         transaction_timestamp |-> TransactionTimestamp(date, l.transaction_time),
         amount                |-> amount,
         currency              |-> NormaliseCurrency(l.currency),
         transaction_type      |-> l.transaction_type,
         dq_flag               |-> DqFlag(orphan, amount, date, variant)]
  BY DEF ToSilverTxn
<1> HIDE DEF date, amount, orphan, variant
<1> QED  BY <1>1, <1>2, <1>3, <1>4, <1>5, <1>6, <1>7 DEF SilverTxn

\* The gold tables made of finite silver tables are finite.
LEMMA GoldFinite ==
    ASSUME NEW customers, IsFiniteSet(customers), NEW accounts, IsFiniteSet(accounts),
           NEW txns, IsFiniteSet(txns), NEW day
    PROVE  /\ IsFiniteSet(DimCustomers(customers, day))
           /\ IsFiniteSet(DimAccounts(accounts, customers))
           /\ IsFiniteSet(Fact(txns, accounts, customers))
<1>1. IsFiniteSet(DimCustomers(customers, day))
  <2> DEFINE f == [c \in customers |->
                      [no |-> c.no, customer_id |-> c.customer_id, province |-> c.province,
                       age_band |-> DeriveAgeBand(c.dob, day)]]
  <2>1. f \in Surjection(customers, DimCustomers(customers, day))
    BY DEF Surjection, DimCustomers
  <2> QED  BY <2>1, FS_Surjection
<1>2. IsFiniteSet(DimAccounts(accounts, customers))
  <2> DEFINE S == {x \in accounts : \E c \in customers : c.customer_id = x.customer_ref}
             f == [a \in S |-> DimAccountsRow(a)]
  <2>1. f \in Surjection(S, DimAccounts(accounts, customers))
    BY DEF Surjection, DimAccounts
  <2>2. IsFiniteSet(S)
    BY FS_Subset
  <2> QED  BY <2>1, <2>2, FS_Surjection
<1>3. IsFiniteSet(Fact(txns, accounts, customers))
  <2> DEFINE P == (txns \X accounts) \X customers
             f == [p \in P |-> [txn |-> p[1][1], account |-> p[1][2].no, customer |-> p[2].no]]
  <2>1. IsFiniteSet(P)
    <3>1. IsFiniteSet(txns \X accounts)
      BY FS_Product
    <3> QED  BY <3>1, FS_Product
  <2>2. IsFiniteSet({f[p] : p \in P})
    <3>1. f \in Surjection(P, {f[p] : p \in P})
      BY DEF Surjection
    <3> QED  BY <2>1, <3>1, FS_Surjection
  <2>3. ASSUME NEW r \in Fact(txns, accounts, customers)
        PROVE  r \in {f[p] : p \in P}
    <3>1. PICK t \in txns, a \in accounts, c \in customers :
              r = [txn |-> t, account |-> a.no, customer |-> c.no]
      BY DEF Fact
    <3>2. <<<<t, a>>, c>> \in P /\ f[<<<<t, a>>, c>>] = r
      BY <3>1
    <3> QED  BY <3>2
  <2> HIDE DEF P, f
  <2> QED  BY <2>2, <2>3, FS_Subset
<1> QED  BY <1>1, <1>2, <1>3

\* The counts of flags found in silver transactions are positive, each of a code.
LEMMA IssuesTyped ==
    ASSUME NEW txns, IsFiniteSet(txns), \A t \in txns : t.dq_flag \in Nullable(DqCodes)
    PROVE  \E codes \in SUBSET DqCodes : DqIssues(txns) \in [codes -> Nat \ {0}]
<1> DEFINE found == {t.dq_flag : t \in txns} \ {NULL}
<1>1. found \in SUBSET DqCodes
  BY DEF Nullable
<1>2. ASSUME NEW code \in found
      PROVE  Cardinality({t \in txns : t.dq_flag = code}) \in Nat \ {0}
  <2> DEFINE T == {t \in txns : t.dq_flag = code}
  <2>1. IsFiniteSet(T)
    BY FS_Subset
  <2>2. T # {}
    OBVIOUS
  <2> HIDE DEF T
  <2>3. Cardinality(T) \in Nat /\ Cardinality(T) # 0
    BY <2>1, <2>2, FS_CardinalityType, FS_EmptySet
  <2> QED  BY <2>3 DEF T
<1>3. DqIssues(txns) = [code \in found |-> Cardinality({t \in txns : t.dq_flag = code})]
  BY DEF DqIssues
<1> HIDE DEF found
<1> QED  BY <1>1, <1>2, <1>3

\* The run timestamp is a number, pinned or not.
LEMMA RunTimestampTyped ==
    ASSUME now \in 0 .. MaxClock
    PROVE  RunTimestamp \in Nat
BY MedallionAssumption DEF RunTimestamp, Nullable

\* A count that raised is 0, any other is the number of rows.
LEMMA CountedTyped ==
    ASSUME NEW rows, IsFiniteSet(rows), NEW unread, NEW name
    PROVE  Counted(rows, unread, name) \in Nat
BY FS_CardinalityType DEF Counted

\* Three names are finitely many.
LEMMA TripleFinite == ASSUME NEW a, NEW b, NEW c PROVE IsFiniteSet({a, b, c})
<1>1. IsFiniteSet({a}) /\ IsFiniteSet({b}) /\ IsFiniteSet({c})
  BY FS_Singleton
<1>2. IsFiniteSet({a} \cup {b})
  BY <1>1, FS_Union
<1>3. IsFiniteSet({a} \cup {b} \cup {c})
  BY <1>1, <1>2, FS_Union
<1>4. {a, b, c} = {a} \cup {b} \cup {c}
  OBVIOUS
<1> QED  BY <1>3, <1>4

\* The reads behind a report are finitely many.
LEMMA ReadsFinite == IsFiniteSet(SourceTables \cup GoldTables \cup {"flags"})
<1>1. IsFiniteSet(SourceTables) /\ IsFiniteSet(GoldTables) /\ IsFiniteSet({"flags"})
  BY TripleFinite, FS_Singleton DEF SourceTables, GoldTables
<1>2. IsFiniteSet(SourceTables \cup GoldTables)
  BY <1>1, FS_Union
<1> QED
  BY <1>1, <1>2, FS_Union

\* The report that run_provisioning assembles has the shape of a report.
LEMMA ReportTyped ==
    ASSUME BatchInv, TypeInv, WriteDqReport
    PROVE  IsReport(draft') /\ faults' \in 0 .. MaxFaults
<1>1. PICK unread \in SUBSET (SourceTables \cup GoldTables \cup {"flags"}) :
          /\ faults + Cardinality(unread) <= MaxFaults
          /\ faults' = faults + Cardinality(unread)
          /\ draft' =
               [run_timestamp            |-> RunTimestamp,
                source_record_counts     |->
                    [t \in SourceTables |-> Counted(bronze[t].rows, unread, t)],
                dq_issues                |->
                    DqIssues(IF "flags" \in unread THEN {} ELSE silver["transactions"].rows),
                gold_layer_record_counts |->
                    [t \in GoldTables |-> Counted(gold[t], unread, t)]]
  BY DEF WriteDqReport
<1>2. pc = "dq_report"
  BY DEF WriteDqReport
<1>3. /\ \A t \in SourceTables : IsFiniteSet(bronze[t].rows)
      /\ SilverTyped("transactions")
      /\ \A t \in GoldTables : IsFiniteSet(gold[t])
  BY <1>2 DEF TypeInv, WrittenInv, BronzeTyped, SourceTables, GoldTables, HasFact,
              HasDimAccounts, HasDimCustomers, HasSilverTransactions, HasSilverAccounts,
              HasSilverCustomers, HasBronzeCustomers, HasBronzeTransactions, HasBronzeAccounts
<1>4. [t \in SourceTables |-> Counted(bronze[t].rows, unread, t)] \in [SourceTables -> Nat]
  BY <1>3, CountedTyped
<1>5. [t \in GoldTables |-> Counted(gold[t], unread, t)] \in [GoldTables -> Nat]
  BY <1>3, CountedTyped
<1>6. \E codes \in SUBSET DqCodes :
          DqIssues(IF "flags" \in unread THEN {} ELSE silver["transactions"].rows)
              \in [codes -> Nat \ {0}]
  <2> DEFINE txns == IF "flags" \in unread THEN {} ELSE silver["transactions"].rows
  <2>1. IsFiniteSet(txns)
    BY <1>3, FS_EmptySet DEF SilverTyped
  <2>2. \A t \in txns : t.dq_flag \in Nullable(DqCodes)
    BY <1>3 DEF SilverTyped, SilverRow, SilverTxn
  <2> HIDE DEF txns
  <2>3. \E codes \in SUBSET DqCodes : DqIssues(txns) \in [codes -> Nat \ {0}]
    BY <2>1, <2>2, IssuesTyped
  <2> QED  BY <2>3 DEF txns
<1>7. RunTimestamp \in Nat
  BY RunTimestampTyped DEF TypeInv, ScalarsInv
<1>8. IsReport(draft')
  BY <1>1, <1>4, <1>5, <1>6, <1>7 DEF IsReport
<1>9. Cardinality(unread) \in Nat
  BY ReadsFinite, FS_Subset, FS_CardinalityType
<1>10. faults' \in 0 .. MaxFaults
  BY <1>1, <1>9, MedallionAssumption DEF TypeInv, ScalarsInv
<1> QED  BY <1>8, <1>10

\* Nothing is written when the pipeline starts.
LEMMA TypeInit == Init => TypeInv
BY MedallionAssumption
   DEF Init, TypeInv, WrittenInv, ScalarsInv, PCs, Stopped, Causes, SourceTables, GoldTables,
       HasBronzeAccounts, HasBronzeTransactions, HasBronzeCustomers, HasSilverCustomers,
       HasSilverAccounts, HasSilverTransactions, HasDimCustomers, HasDimAccounts, HasFact

\* An input file has rows of its type, finitely many.
LEMMA InputTyped ==
    ASSUME ScalarsInv
    PROVE  /\ input.customers \subseteq CustomerLine /\ IsFiniteSet(input.customers)
           /\ input.accounts \subseteq AccountLine /\ IsFiniteSet(input.accounts)
           /\ input.transactions \subseteq TxnLine /\ IsFiniteSet(input.transactions)
           /\ input.optional \in BOOLEAN
BY MedallionAssumption DEF ScalarsInv, Input

\* Every statement writes rows of the table's type: one case per action.
LEMMA TypeNext == BatchInv /\ TypeInv /\ [Next]_vars => TypeInv'
<1> SUFFICES ASSUME BatchInv, TypeInv, [Next]_vars PROVE TypeInv'
  OBVIOUS
<1> USE DEF HasBronzeAccounts, HasBronzeTransactions, HasBronzeCustomers, HasSilverCustomers,
            HasSilverAccounts, HasSilverTransactions, HasDimCustomers, HasDimAccounts, HasFact,
            volume, memory, bounds, Stopped
<1>1. TablesInv /\ WrittenInv /\ ScalarsInv
  BY DEF BatchInv, TypeInv
<1>2. \A t : bronze' = bronze => (BronzeTyped(t)' <=> BronzeTyped(t))
  BY DEF BronzeTyped
<1>3. \A t : silver' = silver => (SilverTyped(t)' <=> SilverTyped(t))
  BY DEF SilverTyped
<1>4. CASE Start \/ Crash \/ Raise \/ Tick \/ ReplaceInput \/ BronzeSchemaMismatch
           \/ AssertContractInvariants \/ UNCHANGED vars
  <2>1. UNCHANGED <<bronze, silver, gold, report, draft>>
    BY <1>4 DEF Start, Crash, Raise, Tick, ReplaceInput, BronzeSchemaMismatch,
                AssertContractInvariants, vars
  <2>2. pc' = pc \/ pc' \in Stopped \cup {"bronze.accounts"}
    BY <1>4 DEF Start, Crash, Raise, Tick, ReplaceInput, BronzeSchemaMismatch,
                AssertContractInvariants, vars
  <2>3. WrittenInv'
    BY <1>1, <1>2, <1>3, <2>1, <2>2 DEF WrittenInv
  <2>4. now \in 0 .. MaxClock => RunTimestamp \in Nat
    BY RunTimestampTyped
  <2>5. ScalarsInv'
    BY <1>1, <1>4, <2>1, <2>4, MedallionAssumption
       DEF Start, Crash, Raise, Tick, ReplaceInput, BronzeSchemaMismatch, vars,
           AssertContractInvariants, Verdict, ScalarsInv, PCs, Causes
  <2> QED  BY <2>3, <2>5 DEF TypeInv
<1>5. CASE BronzeAccounts \/ BronzeTransactions \/ BronzeCustomers
  <2>1. PICK t, rows, optional :
            /\ t \in SourceTables
            /\ bronze' = [bronze EXCEPT ![t] = [rows |-> rows, stamp |-> ingestion_ts,
                                                optional |-> optional]]
            /\ \/ t = "accounts" /\ rows = input.accounts
                  /\ pc = "bronze.accounts" /\ pc' = "bronze.transactions"
               \/ t = "transactions" /\ rows = input.transactions
                  /\ pc = "bronze.transactions" /\ pc' = "bronze.customers"
               \/ t = "customers" /\ rows = input.customers
                  /\ pc = "bronze.customers" /\ pc' = "silver.customers"
            /\ \/ optional \in {FALSE, input.optional}
               \/ bronze[t] # NoTable /\ optional = bronze[t].optional
    <3>1. CASE BronzeAccounts
      <4>1. /\ bronze' = [bronze EXCEPT !["accounts"] =
                             [rows |-> input.accounts, stamp |-> ingestion_ts, optional |-> FALSE]]
            /\ pc = "bronze.accounts" /\ pc' = "bronze.transactions"
        BY <3>1 DEF BronzeAccounts, WriteBronze
      <4> WITNESS "accounts", input.accounts, FALSE
      <4> QED  BY <4>1 DEF SourceTables
    <3>2. CASE BronzeCustomers
      <4>1. /\ bronze' = [bronze EXCEPT !["customers"] =
                             [rows |-> input.customers, stamp |-> ingestion_ts, optional |-> FALSE]]
            /\ pc = "bronze.customers" /\ pc' = "silver.customers"
        BY <3>2 DEF BronzeCustomers, WriteBronze
      <4> WITNESS "customers", input.customers, FALSE
      <4> QED  BY <4>1 DEF SourceTables
    <3>3. CASE BronzeTransactions
      <4> DEFINE optional == IF bronze["transactions"] = NoTable THEN input.optional
                             ELSE bronze["transactions"].optional
      <4>1. /\ bronze' = [bronze EXCEPT !["transactions"] =
                             [rows |-> input.transactions, stamp |-> ingestion_ts,
                              optional |-> optional]]
            /\ pc = "bronze.transactions" /\ pc' = "bronze.customers"
        BY <1>1, <3>3 DEF BronzeTransactions, TablesInv, SourceTables
      <4>2. \/ optional \in {FALSE, input.optional}
            \/ bronze["transactions"] # NoTable /\ optional = bronze["transactions"].optional
        OBVIOUS
      <4> HIDE DEF optional
      <4> WITNESS "transactions", input.transactions, optional
      <4> QED  BY <4>1, <4>2 DEF SourceTables
    <3> QED  BY <1>5, <3>1, <3>2, <3>3
  <2>2. optional \in BOOLEAN
    BY <1>1, <2>1, InputTyped DEF WrittenInv, BronzeTyped
  <2>3. rows \subseteq BronzeRow(t) /\ IsFiniteSet(rows)
    BY <1>1, <2>1, InputTyped DEF BronzeRow
  <2>4. /\ bronze'[t] = [rows |-> rows, stamp |-> ingestion_ts, optional |-> optional]
        /\ \A s \in SourceTables \ {t} : bronze'[s] = bronze[s]
    BY <1>1, <2>1 DEF TablesInv
  <2>5. BronzeTyped(t)'
    BY <1>1, <2>2, <2>3, <2>4 DEF BronzeTyped, ScalarsInv
  <2>6. \A s \in SourceTables \ {t} : BronzeTyped(s)' <=> BronzeTyped(s)
    BY <2>4 DEF BronzeTyped
  <2>7. UNCHANGED <<input, silver, gold, report, cause, memory, bounds>>
    BY <1>5 DEF BronzeAccounts, BronzeTransactions, BronzeCustomers, WriteBronze
  <2>8. WrittenInv'
    BY <1>1, <1>3, <2>1, <2>4, <2>5, <2>6, <2>7 DEF WrittenInv, SourceTables
  <2>9. ScalarsInv'
    BY <1>1, <2>1, <2>7 DEF ScalarsInv, PCs
  <2> QED  BY <2>8, <2>9 DEF TypeInv
<1>6. CASE SilverCustomers \/ SilverAccounts \/ SilverTransactions
  <2>1. PICK t, rows :
            /\ t \in SourceTables
            /\ WriteSilver(t, rows)
            /\ BronzeTyped(t)
            /\ rows \subseteq SilverRow(t) /\ IsFiniteSet(rows)
            /\ \/ t = "customers" /\ pc = "silver.customers" /\ pc' = "silver.accounts"
               \/ t = "accounts" /\ pc = "silver.accounts" /\ pc' = "silver.transactions"
               \/ t = "transactions" /\ pc = "silver.transactions" /\ pc' = "gold.dim_customers"
    <3>1. CASE SilverCustomers
      <4> DEFINE lines == Identified(bronze["customers"].rows, "customer_id")
      <4>1. BronzeTyped("customers")
        BY <1>1, <3>1 DEF SilverCustomers, WrittenInv
      <4>2. PICK kept \in SUBSET lines :
                WriteSilver("customers", {ToSilverCustomer(r) : r \in kept})
        BY <3>1 DEF SilverCustomers
      <4>3. \A r \in kept : r \in CustomerLine /\ r.customer_id # NULL
        BY <4>1 DEF BronzeTyped, BronzeRow, Identified
      <4>4. IsFiniteSet(kept)
        BY <4>1, FS_Subset DEF BronzeTyped, Identified
      <4>5. {ToSilverCustomer(r) : r \in kept} \subseteq SilverRow("customers")
        BY <4>3, SilverCustomerTyped DEF SilverRow
      <4>6. IsFiniteSet({ToSilverCustomer(r) : r \in kept})
        <5> DEFINE f == [r \in kept |-> ToSilverCustomer(r)]
        <5>1. f \in Surjection(kept, {ToSilverCustomer(r) : r \in kept})
          BY DEF Surjection
        <5> QED  BY <4>4, <5>1, FS_Surjection
      <4> QED
        BY <3>1, <4>1, <4>2, <4>5, <4>6 DEF SilverCustomers, SourceTables
    <3>2. CASE SilverAccounts
      <4>1. BronzeTyped("accounts")
        BY <1>1, <3>2 DEF SilverAccounts, WrittenInv
      <4>2. PICK kept \in SUBSET Identified(bronze["accounts"].rows, "account_id") :
                WriteSilver("accounts", kept)
        BY <3>2 DEF SilverAccounts
      <4>3. kept \subseteq SilverRow("accounts") /\ IsFiniteSet(kept)
        BY <4>1, FS_Subset DEF BronzeTyped, BronzeRow, SilverRow, Identified
      <4> QED
        BY <3>2, <4>1, <4>2, <4>3 DEF SilverAccounts, SourceTables
    <3>3. CASE SilverTransactions
      <4> DEFINE lines == Identified(bronze["transactions"].rows, "transaction_id")
                 rows  == {ToSilverTxn(l, silver["accounts"].rows) : l \in lines}
      <4>1. BronzeTyped("transactions")
        BY <1>1, <3>3 DEF SilverTransactions, WrittenInv
      <4>2. PICK kept \in SUBSET rows : WriteSilver("transactions", kept)
        BY <3>3 DEF SilverTransactions
      <4>3. \A l \in lines : l \in TxnLine /\ l.transaction_id # NULL
        BY <4>1 DEF BronzeTyped, BronzeRow, Identified
      <4>4. rows \subseteq SilverRow("transactions")
        BY <4>3, SilverTxnTyped DEF SilverRow
      <4>5. IsFiniteSet(rows)
        <5> DEFINE f == [l \in lines |-> ToSilverTxn(l, silver["accounts"].rows)]
        <5>1. f \in Surjection(lines, rows)
          BY DEF Surjection
        <5>2. IsFiniteSet(lines)
          BY <4>1, FS_Subset DEF BronzeTyped, Identified
        <5> QED  BY <5>1, <5>2, FS_Surjection
      <4>6. kept \subseteq SilverRow("transactions") /\ IsFiniteSet(kept)
        BY <4>4, <4>5, FS_Subset
      <4> QED
        BY <3>3, <4>1, <4>2, <4>6 DEF SilverTransactions, SourceTables
    <3> QED  BY <1>6, <3>1, <3>2, <3>3
  <2>2. /\ silver' = [silver EXCEPT ![t] = [rows |-> rows, stamp |-> bronze[t].stamp]]
        /\ UNCHANGED <<input, bronze, gold, report, cause, memory, bounds>>
    BY <2>1 DEF WriteSilver
  <2>3. /\ silver'[t] = [rows |-> rows, stamp |-> bronze[t].stamp]
        /\ \A s \in SourceTables \ {t} : silver'[s] = silver[s]
    BY <1>1, <2>1, <2>2 DEF TablesInv
  <2>4. SilverTyped(t)'
    BY <2>1, <2>3 DEF SilverTyped, BronzeTyped
  <2>5. \A s \in SourceTables \ {t} : SilverTyped(s)' <=> SilverTyped(s)
    BY <2>3 DEF SilverTyped
  <2>6. WrittenInv'
    BY <1>1, <1>2, <2>1, <2>2, <2>3, <2>4, <2>5 DEF WrittenInv, SourceTables
  <2>7. ScalarsInv'
    BY <1>1, <2>1, <2>2 DEF ScalarsInv, PCs
  <2> QED  BY <2>6, <2>7 DEF TypeInv
<1>7. CASE BuildDimCustomers \/ BuildDimAccounts \/ BuildFactTransactions
  <2>1. PICK t, rows :
            /\ t \in GoldTables
            /\ WriteGold(t, rows)
            /\ IsFiniteSet(rows)
            /\ \/ t = "dim_customers" /\ pc = "gold.dim_customers" /\ pc' = "gold.dim_accounts"
               \/ t = "dim_accounts" /\ pc = "gold.dim_accounts" /\ pc' = "gold.fact_transactions"
               \/ t = "fact_transactions" /\ pc = "gold.fact_transactions" /\ pc' = "dq_report"
    <3>1. CASE BuildDimCustomers
      BY <1>1, <3>1, GoldFinite, FS_EmptySet
         DEF BuildDimCustomers, WrittenInv, SilverTyped, GoldTables
    <3>2. CASE BuildDimAccounts
      BY <1>1, <3>2, GoldFinite, FS_EmptySet
         DEF BuildDimAccounts, WrittenInv, SilverTyped, GoldTables
    <3>3. CASE BuildFactTransactions
      <4> DEFINE fact == Fact(silver["transactions"].rows, gold["dim_accounts"],
                              gold["dim_customers"])
      <4>1. WriteGold("fact_transactions", fact)
        BY <3>3 DEF BuildFactTransactions
      <4>2. IsFiniteSet(fact)
        BY <1>1, <3>3, GoldFinite DEF BuildFactTransactions, WrittenInv, SilverTyped
      <4> HIDE DEF fact
      <4> QED
        BY <3>3, <4>1, <4>2 DEF BuildFactTransactions, GoldTables
    <3> QED  BY <1>7, <3>1, <3>2, <3>3
  <2>2. /\ gold' = [gold EXCEPT ![t] = rows]
        /\ UNCHANGED <<input, bronze, silver, report, cause, memory, bounds>>
    BY <2>1 DEF WriteGold
  <2>3. gold'[t] = rows /\ \A s \in GoldTables \ {t} : gold'[s] = gold[s]
    BY <1>1, <2>1, <2>2 DEF TablesInv
  <2>4. WrittenInv'
    BY <1>1, <1>2, <1>3, <2>1, <2>2, <2>3 DEF WrittenInv, GoldTables
  <2>5. ScalarsInv'
    BY <1>1, <2>1, <2>2 DEF ScalarsInv, PCs
  <2> QED  BY <2>4, <2>5 DEF TypeInv
<1>8. CASE WriteDqReport
  <2>1. /\ UNCHANGED <<input, bronze, silver, gold, cause, started, ingestion_ts, now, runs,
                       changes>>
        /\ report' = NoTable /\ pc = "dq_report" /\ pc' = "dq_report.dump"
    BY <1>8 DEF WriteDqReport
  <2>2. IsReport(draft') /\ faults' \in 0 .. MaxFaults
    BY <1>8, ReportTyped
  <2>3. WrittenInv'
    BY <1>1, <1>2, <1>3, <2>1 DEF WrittenInv
  <2>4. ScalarsInv'
    BY <1>1, <2>1, <2>2 DEF ScalarsInv, PCs
  <2> QED  BY <2>3, <2>4 DEF TypeInv
<1>9. CASE DumpDqReport
  <2>1. /\ UNCHANGED <<input, bronze, silver, gold, cause, memory, bounds>>
        /\ report' = draft /\ pc = "dq_report.dump" /\ pc' = "contracts"
    BY <1>9 DEF DumpDqReport
  <2>2. WrittenInv'
    BY <1>1, <1>2, <1>3, <2>1 DEF WrittenInv
  <2>3. ScalarsInv'
    BY <1>1, <2>1 DEF ScalarsInv, PCs
  <2> QED  BY <2>2, <2>3 DEF TypeInv
<1> QED
  BY <1>4, <1>5, <1>6, <1>7, <1>8, <1>9 DEF Next, Step

\* Every table and every variable of the batch stages keeps its type, whatever an
\* earlier run left half-written.
THEOREM TypeCorrect == Spec => []TypeOK
<1>1. TypeInv => TypeOK
  <2> SUFFICES ASSUME TypeInv PROVE TypeOK
    OBVIOUS
  <2>1. WrittenInv /\ ScalarsInv
    BY DEF TypeInv
  <2> QED
    BY <2>1, MedallionAssumption DEF WrittenInv, ScalarsInv, BronzeTyped, SilverTyped, TypeOK
<1>2. Spec => [](BatchInv /\ TypeInv)
  BY BatchInit, BatchNext, TypeInit, TypeNext, PTL DEF Spec
<1> QED  BY <1>1, <1>2, PTL

-----------------------------------------------------------------------------
(* dq_report.json.                                                         *)

\* The numbers of a report are those of the tables on the volume, but for reads
\* that failed: ReportAddsUp, of the draft as well.
AddsUp(r) ==
    /\ \A t \in SourceTables : CountedOrUnread(r.source_record_counts[t], bronze[t].rows)
    /\ \A t \in GoldTables : CountedOrUnread(r.gold_layer_record_counts[t], gold[t])
    /\ \/ SumFunctionOnSet(r.dq_issues, DOMAIN r.dq_issues)
             = Cardinality({t \in silver["transactions"].rows : t.dq_flag # NULL})
       \/ DOMAIN r.dq_issues = {} /\ faults > 0

\* It holds of the draft until json.dump has written it, then of the file.
ReportInv ==
    /\ pc = "dq_report.dump" => AddsUp(draft)
    /\ pc \in {"contracts", "completed"} => AddsUp(report)

\* The counts of the flags found add up to the rows that have a flag.
LEMMA IssuesAddUp ==
    ASSUME NEW txns, IsFiniteSet(txns)
    PROVE  SumFunctionOnSet(DqIssues(txns), DOMAIN DqIssues(txns))
             = Cardinality({t \in txns : t.dq_flag # NULL})
<1> DEFINE found == {t.dq_flag : t \in txns} \ {NULL}
           part  == [code \in found |-> {t \in txns : t.dq_flag = code}]
           v     == DqIssues(txns)
<1>1. IsFiniteSet(found)
  <2> DEFINE flag == [t \in txns |-> t.dq_flag]
  <2>1. flag \in Surjection(txns, {t.dq_flag : t \in txns})
    BY DEF Surjection
  <2>2. IsFiniteSet({t.dq_flag : t \in txns})
    BY <2>1, FS_Surjection
  <2> QED
    BY <2>2, FS_Subset
<1>2. DOMAIN v = found /\ \A code \in found : v[code] = Cardinality(part[code])
  BY DEF DqIssues
<1>3. \A code \in found : IsFiniteSet(part[code])
  BY FS_Subset
<1>4. \A c, d \in found : c # d => part[c] \cap part[d] = {}
  OBVIOUS
<1>5. UNION {part[code] : code \in found} = {t \in txns : t.dq_flag # NULL}
  <2>1. ASSUME NEW t \in UNION {part[code] : code \in found}
        PROVE  t \in txns /\ t.dq_flag # NULL
    OBVIOUS
  <2>2. ASSUME NEW t \in txns, t.dq_flag # NULL
        PROVE  t \in UNION {part[code] : code \in found}
    <3>1. t.dq_flag \in found
      BY <2>2
    <3>2. t \in part[t.dq_flag]
      BY <3>1
    <3> HIDE DEF part, found
    <3> QED  BY <3>1, <3>2
  <2> HIDE DEF part, found
  <2> QED  BY <2>1, <2>2
<1> HIDE DEF found, part, v
<1>6. SumFunctionOnSet(v, found) = Cardinality(UNION {part[code] : code \in found})
  BY <1>1, <1>2, <1>3, <1>4, SumOfSizes
<1> QED
  BY <1>2, <1>5, <1>6 DEF v

\* What WriteDqReport assembles adds up.
LEMMA DraftAddsUp ==
    ASSUME BatchInv, TypeInv, WriteDqReport
    PROVE  AddsUp(draft)'
<1>1. PICK unread \in SUBSET (SourceTables \cup GoldTables \cup {"flags"}) :
          /\ faults + Cardinality(unread) <= MaxFaults
          /\ faults' = faults + Cardinality(unread)
          /\ draft' =
               [run_timestamp            |-> RunTimestamp,
                source_record_counts     |->
                    [t \in SourceTables |-> Counted(bronze[t].rows, unread, t)],
                dq_issues                |->
                    DqIssues(IF "flags" \in unread THEN {} ELSE silver["transactions"].rows),
                gold_layer_record_counts |->
                    [t \in GoldTables |-> Counted(gold[t], unread, t)]]
  BY DEF WriteDqReport
<1>2. pc = "dq_report" /\ UNCHANGED <<bronze, silver, gold>>
  BY DEF WriteDqReport
<1>3. IsFiniteSet(silver["transactions"].rows)
  BY <1>2 DEF TypeInv, WrittenInv, SilverTyped, HasFact, HasDimAccounts, HasDimCustomers,
              HasSilverTransactions
<1>4. faults \in Nat
  BY MedallionAssumption DEF TypeInv, ScalarsInv
<1>5. \A x : x \in unread => faults' > 0
  <2>1. IsFiniteSet(unread)
    BY ReadsFinite, FS_Subset
  <2>2. Cardinality(unread) \in Nat /\ (Cardinality(unread) = 0 => unread = {})
    BY <2>1, FS_CardinalityType, FS_EmptySet
  <2> QED
    BY <1>1, <1>4, <2>2
<1>7. /\ \A t \in SourceTables :
            CountedOrUnread(draft.source_record_counts[t], bronze[t].rows)'
      /\ \A t \in GoldTables :
            CountedOrUnread(draft.gold_layer_record_counts[t], gold[t])'
  <2>1. \A t \in SourceTables :
            draft'.source_record_counts[t] = Counted(bronze[t].rows, unread, t)
    BY <1>1
  <2>2. \A t \in GoldTables :
            draft'.gold_layer_record_counts[t] = Counted(gold[t], unread, t)
    BY <1>1
  <2> QED
    BY <1>2, <1>5, <2>1, <2>2 DEF CountedOrUnread, Counted
<1>8. draft'.dq_issues =
          DqIssues(IF "flags" \in unread THEN {} ELSE silver["transactions"].rows)
  BY <1>1
<1>9. CASE "flags" \in unread
  <2>1. DOMAIN draft'.dq_issues = {}
    BY <1>8, <1>9 DEF DqIssues
  <2> QED
    BY <1>5, <1>7, <1>9, <2>1 DEF AddsUp
<1>10. CASE "flags" \notin unread
  <2>1. draft'.dq_issues = DqIssues(silver["transactions"].rows)
    BY <1>8, <1>10
  <2> QED
    BY <1>2, <1>3, <1>7, <2>1, IssuesAddUp DEF AddsUp
<1> QED
  BY <1>9, <1>10

\* No report is there at first.
LEMMA ReportInit == Init => ReportInv
BY DEF Init, ReportInv

\* One case per statement that writes the report, and one for all the others.
LEMMA ReportNext == BatchInv /\ TypeInv /\ ReportInv /\ [Next]_vars => ReportInv'
<1> SUFFICES ASSUME BatchInv, TypeInv, ReportInv, [Next]_vars PROVE ReportInv'
  OBVIOUS
<1> USE DEF volume, memory, bounds, Stopped
<1>1. CASE WriteDqReport
  BY <1>1, DraftAddsUp DEF WriteDqReport, ReportInv
<1>2. CASE DumpDqReport
  BY <1>2 DEF DumpDqReport, ReportInv, AddsUp, CountedOrUnread
<1>3. CASE AssertContractInvariants \/ Tick \/ ReplaceInput \/ UNCHANGED vars
  BY <1>3 DEF AssertContractInvariants, Tick, ReplaceInput, vars, ReportInv, AddsUp,
              CountedOrUnread
<1>4. CASE \/ BronzeAccounts \/ BronzeTransactions \/ BronzeSchemaMismatch \/ BronzeCustomers
           \/ SilverCustomers \/ SilverAccounts \/ SilverTransactions
           \/ BuildDimCustomers \/ BuildDimAccounts \/ BuildFactTransactions
           \/ Start \/ Crash \/ Raise
  <2>1. pc' \notin {"dq_report.dump", "contracts", "completed"}
    BY <1>4
       DEF BronzeAccounts, BronzeTransactions, BronzeSchemaMismatch, BronzeCustomers,
           SilverCustomers, SilverAccounts, SilverTransactions, BuildDimCustomers,
           BuildDimAccounts, BuildFactTransactions, Start, Crash, Raise
  <2> QED
    BY <2>1 DEF ReportInv
<1> QED
  BY <1>1, <1>2, <1>3, <1>4 DEF Next, Step

\* The draft and the file add up whenever they are looked at.
LEMMA ReportInvariant == Spec => []ReportInv
BY BatchInit, BatchNext, TypeInit, TypeNext, ReportInit, ReportNext, PTL DEF Spec

\* Whatever runs, crashes and failed reads came before, the numbers of the report
\* on disk are those of the tables of this run, or zero where a read failed, and
\* the flags it counts are those of silver transactions.
THEOREM ReportTotals == Spec => []ReportAddsUp
<1>1. ReportInv => ReportAddsUp
  BY DEF ReportInv, ReportAddsUp, AddsUp, SumFunctionOnSet, FoldFunctionOnSet, MapThenSumSet,
         MapThenFoldSet
<1> QED  BY <1>1, ReportInvariant, PTL
=============================================================================
