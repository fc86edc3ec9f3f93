----------------------------- MODULE GoldRunProofs -----------------------------
(***************************************************************************)
(* The batch stages implement GoldRun, for every input and every bound on  *)
(* errors, restarts and replaced inputs; what a completed set of gold      *)
(* tables says of its input follows from that.  The invariant traces each  *)
(* table of the run in progress back to the input it is about.             *)
(***************************************************************************)
EXTENDS BatchProofs

\* The choice each silver table stands for.
KeptCustomers(S, in) ==
    \E C \in SUBSET Identified(in.customers, "customer_id") :
        /\ IsDeduplication(C, Identified(in.customers, "customer_id"), "customer_id")
        /\ S = {ToSilverCustomer(r) : r \in C}

KeptAccounts(S, in) ==
    IsDeduplication(S, Identified(in.accounts, "account_id"), "account_id")

Converted(in, accounts) ==
    {ToSilverTxn(t, accounts) : t \in Identified(in.transactions, "transaction_id")}

KeptTxns(S, accounts, in) ==
    /\ IsDeduplication(S, Converted(in, accounts), "transaction_id")
    /\ KeepsEarliest(S, Converted(in, accounts))

\* The bronze tables that a later statement still reads hold the input.
BronzeInv ==
    /\ pc \in {"bronze.transactions", "bronze.customers", "silver.customers",
               "silver.accounts"} => bronze["accounts"].rows = input.accounts
    /\ pc \in {"bronze.customers", "silver.customers", "silver.accounts",
               "silver.transactions"} => bronze["transactions"].rows = input.transactions
    /\ pc = "silver.customers" => bronze["customers"].rows = input.customers

SilverOf ==
    /\ pc \in HasSilverCustomers => KeptCustomers(silver["customers"].rows, input)
    /\ pc \in HasSilverAccounts => KeptAccounts(silver["accounts"].rows, input)
    /\ pc \in HasSilverTransactions =>
           KeptTxns(silver["transactions"].rows, silver["accounts"].rows, input)

GoldOf ==
    /\ pc \in HasDimCustomers =>
           \E day \in RunDates :
               gold["dim_customers"] = DimCustomers(silver["customers"].rows, day)
    /\ pc \in HasDimAccounts =>
           gold["dim_accounts"] = DimAccounts(silver["accounts"].rows, gold["dim_customers"])

IsOutcome(o) ==
    /\ o = [input |-> o.input, gold |-> o.gold]
    /\ o.input \in Input
    /\ o.gold = [t \in GoldTables |-> o.gold[t]]
    /\ IsGoldOf(o.input, o.gold)

GoldRunInv ==
    /\ now \in 0 .. MaxClock
    /\ BronzeInv /\ SilverOf /\ GoldOf
    /\ \A o \in outcomes : IsOutcome(o)

-----------------------------------------------------------------------------
(* What the choices determine.                                             *)

\* Where keys are unique there is nothing to choose.
LEMMA NothingToChoose ==
    ASSUME NEW S, NEW rows, NEW key, IsDeduplication(S, rows, key),
           \A r, s \in rows : r[key] = s[key] => r = s
    PROVE  S = rows
BY DEF IsDeduplication

\* A timestamp is a number, or NULL.
LEMMA TimestampType ==
    ASSUME NEW l \in TxnLine
    PROVE  LineTimestamp(l) \in Int \cup {NULL}
<1>1. DayLength \in Nat /\ LastDay \in Nat
  BY RulesAssumption
<1>2. CASE ParseDateRobust(l.transaction_date) = NULL \/ l.transaction_time = BadTime
  BY <1>2 DEF LineTimestamp, TransactionTimestamp
<1>3. CASE ParseDateRobust(l.transaction_date) # NULL /\ l.transaction_time # BadTime
  <2> DEFINE date == ParseDateRobust(l.transaction_date)
             time == IF l.transaction_time = NULL THEN 0 ELSE l.transaction_time
  <2>1. date \in Int
    <3>1. l.transaction_date # NULL /\ date = l.transaction_date.day
      BY <1>3 DEF ParseDateRobust
    <3>2. l.transaction_date \in DateText
      BY <3>1 DEF TxnLine, Nullable
    <3> QED  BY <1>1, <3>1, <3>2 DEF DateText, Days
  <2>2. time \in Int
    BY <1>1, <1>3 DEF TxnLine, Nullable, DayTimes
  <2>3. LineTimestamp(l) = date * DayLength + time
    BY <1>3 DEF LineTimestamp, TransactionTimestamp
  <2> HIDE DEF date, time
  <2> QED  BY <1>1, <2>1, <2>2, <2>3
<1> QED  BY <1>2, <1>3

\* A row that deduplication keeps comes from one of the earliest lines of its
\* transaction.
LEMMA KeptIsEarliest ==
    ASSUME NEW in \in Input, NEW A, NEW T, KeptTxns(T, A, in), NEW t \in T
    PROVE  \E l \in Candidates(in.transactions, t.transaction_id) :
               /\ t = ToSilverTxn(l, A) /\ l \in in.transactions
               /\ t.no = l.no /\ t.account_id = l.account_id
               /\ l.transaction_id = t.transaction_id
<1> DEFINE id    == t.transaction_id
           same  == {l \in in.transactions : l.transaction_id = id}
           times == {LineTimestamp(l) : l \in same} \ {NULL}
<1>1. PICK l \in in.transactions : l.transaction_id # NULL /\ t = ToSilverTxn(l, A)
  BY DEF KeptTxns, IsDeduplication, Converted, Identified
<1>2. /\ id = l.transaction_id /\ t.no = l.no /\ t.account_id = l.account_id
      /\ t.transaction_timestamp = LineTimestamp(l)
  BY <1>1 DEF ToSilverTxn, LineTimestamp
<1>3. l \in same
  BY <1>2
<1>4. ASSUME NEW m \in same
      PROVE  /\ LineTimestamp(m) \in Int \cup {NULL}
             /\ LineTimestamp(m) # NULL =>
                    LineTimestamp(l) # NULL /\ LineTimestamp(l) <= LineTimestamp(m)
  <2>1. m \in TxnLine
    BY DEF Input
  <2>2. ToSilverTxn(m, A) \in Converted(in, A)
    BY <1>1, <1>2 DEF Converted, Identified
  <2>3. /\ ToSilverTxn(m, A).transaction_id = id
        /\ ToSilverTxn(m, A).transaction_timestamp = LineTimestamp(m)
    BY DEF ToSilverTxn, LineTimestamp
  <2>4. Earlier(t, ToSilverTxn(m, A))
    BY <2>2, <2>3 DEF KeptTxns, KeepsEarliest
  <2> QED  BY <1>2, <2>1, <2>3, <2>4, TimestampType DEF Earlier
<1>5. LineTimestamp(l) = IF times = {} THEN NULL ELSE Min(times)
  <2>1. CASE LineTimestamp(l) = NULL
    <3>1. times = {}
      BY <1>4, <2>1
    <3> QED  BY <2>1, <3>1
  <2>2. CASE LineTimestamp(l) # NULL
    <3>1. LineTimestamp(l) \in times /\ \A u \in times : LineTimestamp(l) <= u /\ u \in Int
      BY <1>3, <1>4, <2>2
    <3> DEFINE first == LineTimestamp(l)
    <3> HIDE DEF times, first
    <3>2. Min(times) \in times /\ \A u \in times : Min(times) <= u
      BY <3>1 DEF Min, first
    <3>3. Min(times) = first
      BY <3>1, <3>2 DEF first
    <3> QED  BY <3>1, <3>3 DEF first
  <2> QED  BY <2>1, <2>2
<1>6. l \in Candidates(in.transactions, id)
  BY <1>3, <1>5 DEF Candidates
<1> QED  BY <1>1, <1>2, <1>6

\* Without ties a repeated run keeps the same lines.
LEMMA SameTxns ==
    ASSUME NEW in \in Input, NoTies(in), NEW A, NEW T, NEW U,
           KeptTxns(T, A, in), KeptTxns(U, A, in), RulesAssumption
    PROVE  T = U
<1>1. ASSUME NEW S, NEW V, KeptTxns(S, A, in), KeptTxns(V, A, in), NEW t \in S
      PROVE  t \in V
  <2>1. PICK l \in Candidates(in.transactions, t.transaction_id) : t = ToSilverTxn(l, A)
    BY <1>1, KeptIsEarliest
  <2>2. t \in Converted(in, A)
    BY <1>1 DEF KeptTxns, IsDeduplication
  <2>3. PICK u \in V : u.transaction_id = t.transaction_id
    BY <1>1, <2>2 DEF KeptTxns, IsDeduplication
  <2>4. PICK m \in Candidates(in.transactions, t.transaction_id) : u = ToSilverTxn(m, A)
    BY <1>1, <2>3, KeptIsEarliest
  <2>5. t.transaction_id \in TxnIds
    <3>1. PICK k \in in.transactions : k.transaction_id # NULL /\ t = ToSilverTxn(k, A)
      BY <2>2 DEF Converted, Identified
    <3>2. k.transaction_id \in TxnIds
      BY <3>1 DEF Input, TxnLine, Nullable
    <3> QED  BY <3>1, <3>2 DEF ToSilverTxn
  <2> QED  BY <2>1, <2>3, <2>4, <2>5 DEF NoTies
<1> QED  BY <1>1

\* With the run date pinned and no ties an input determines its gold tables.
LEMMA GoldDetermined ==
    ASSUME NEW in \in Input, NoTies(in), RUN_TIMESTAMP # NULL, NEW g, NEW h,
           g = [t \in GoldTables |-> g[t]], h = [t \in GoldTables |-> h[t]],
           IsGoldOf(in, g), IsGoldOf(in, h)
    PROVE  g = h
<1> DEFINE customers == Identified(in.customers, "customer_id")
           accounts  == Identified(in.accounts, "account_id")
<1>1. ASSUME NEW x, IsGoldOf(in, x)
      PROVE  /\ x["dim_customers"] =
                    DimCustomers({ToSilverCustomer(r) : r \in customers}, RUN_TIMESTAMP)
             /\ x["dim_accounts"] = DimAccounts(accounts, x["dim_customers"])
             /\ \E T : /\ KeptTxns(T, accounts, in)
                       /\ x["fact_transactions"] =
                              Fact(T, x["dim_accounts"], x["dim_customers"])
  <2>1. PICK C \in SUBSET customers, A \in SUBSET accounts :
            /\ IsDeduplication(C, customers, "customer_id")
            /\ IsDeduplication(A, accounts, "account_id")
            /\ \E day \in RunDates :
                  x["dim_customers"] = DimCustomers({ToSilverCustomer(r) : r \in C}, day)
            /\ x["dim_accounts"] = DimAccounts(A, x["dim_customers"])
            /\ \E T \in SUBSET Converted(in, A) :
                  /\ KeptTxns(T, A, in)
                  /\ x["fact_transactions"] = Fact(T, x["dim_accounts"], x["dim_customers"])
    BY <1>1 DEF IsGoldOf, KeptTxns, Converted
  <2>2. C = customers /\ A = accounts
    BY <2>1, NothingToChoose DEF NoTies
  <2>3. RunDates = {RUN_TIMESTAMP}
    BY DEF RunDates
  <2> QED  BY <2>1, <2>2, <2>3
<1> HIDE DEF customers, accounts
<1>2. g["dim_customers"] = h["dim_customers"] /\ g["dim_accounts"] = h["dim_accounts"]
  BY <1>1
<1>3. g["fact_transactions"] = h["fact_transactions"]
  <2>1. PICK T : /\ KeptTxns(T, accounts, in)
                 /\ g["fact_transactions"] = Fact(T, g["dim_accounts"], g["dim_customers"])
    BY <1>1
  <2>2. PICK U : /\ KeptTxns(U, accounts, in)
                 /\ h["fact_transactions"] = Fact(U, h["dim_accounts"], h["dim_customers"])
    BY <1>1
  <2>3. T = U
    BY <2>1, <2>2, SameTxns, RulesAssumption
  <2> QED  BY <1>2, <2>1, <2>2, <2>3
<1> QED  BY <1>2, <1>3 DEF GoldTables

\* A transaction with its account and that account's customer is in the fact table.
LEMMA JoinedIsInFact ==
    ASSUME NEW T, NEW G, NEW H, NEW t \in T, NEW a \in G, NEW c \in H,
           t.account_id = a.account_id, a.customer_id = c.customer_id
    PROVE  [txn |-> t, account |-> a.no, customer |-> c.no] \in Fact(T, G, H)
<1> DEFINE Row(y) == [txn |-> y[1], account |-> y[2].no, customer |-> y[3].no]
           joined == {y \in T \X G \X H : /\ y[1].account_id = y[2].account_id
                                          /\ y[2].customer_id = y[3].customer_id}
<1>1. <<t, a, c>> \in joined
  OBVIOUS
<1>2. Row(<<t, a, c>>) = [txn |-> t, account |-> a.no, customer |-> c.no]
  OBVIOUS
<1>3. Fact(T, G, H) = {Row(y) : y \in joined}
  BY Zenon DEF Fact
<1> HIDE DEF Row, joined
<1> QED  BY <1>1, <1>2, <1>3

\* Gold tables that an input allows have lost and invented no transaction.
LEMMA GoldIsExact ==
    ASSUME NEW in \in Input, NEW g, IsGoldOf(in, g), NEW id \in TxnIds
    PROVE  LET known    == {a.account_id : a \in g["dim_accounts"]}
               earliest == Candidates(in.transactions, id)
               lines    == {r.txn.no : r \in {x \in g["fact_transactions"] :
                                                  x.txn.transaction_id = id}}
           IN  /\ lines \subseteq {l.no : l \in {x \in earliest : x.account_id \in known}}
               /\ lines = {} => earliest = {} \/ \E l \in earliest : l.account_id \notin known
<1> DEFINE known    == {a.account_id : a \in g["dim_accounts"]}
           earliest == Candidates(in.transactions, id)
           found    == {x \in g["fact_transactions"] : x.txn.transaction_id = id}
<1>1. PICK A, T : /\ g["dim_accounts"] = DimAccounts(A, g["dim_customers"])
                  /\ KeptTxns(T, A, in)
                  /\ g["fact_transactions"] = Fact(T, g["dim_accounts"], g["dim_customers"])
  BY DEF IsGoldOf, KeptTxns, Converted
<1>2. ASSUME NEW r \in found
      PROVE  \E l \in earliest : l.account_id \in known /\ r.txn.no = l.no
  <2>1. PICK t \in T, a \in g["dim_accounts"] : r.txn = t /\ t.account_id = a.account_id
    BY <1>1 DEF Fact
  <2>2. t.transaction_id = id /\ t.account_id \in known
    BY <2>1
  <2> QED  BY <1>1, <2>1, <2>2, KeptIsEarliest
<1>3. ASSUME NEW first \in earliest, \A l \in earliest : l.account_id \in known
      PROVE  \E r \in found : TRUE
  <2>1. first \in in.transactions /\ first.transaction_id = id /\ id # NULL
    BY RulesAssumption DEF Candidates
  <2>2. /\ ToSilverTxn(first, A) \in Converted(in, A)
        /\ ToSilverTxn(first, A).transaction_id = id
    BY <2>1 DEF Converted, Identified, ToSilverTxn
  <2>3. PICK t \in T : t.transaction_id = id
    BY <1>1, <2>2 DEF KeptTxns, IsDeduplication
  <2>4. t.account_id \in known
    BY <1>1, <1>3, <2>3, KeptIsEarliest
  <2>5. PICK a \in g["dim_accounts"] : a.account_id = t.account_id
    BY <2>4
  <2>6. PICK c \in g["dim_customers"] : c.customer_id = a.customer_id
    BY <1>1 DEF DimAccounts, DimAccountsRow
  <2>7. [txn |-> t, account |-> a.no, customer |-> c.no] \in g["fact_transactions"]
    BY <1>1, <2>5, <2>6, JoinedIsInFact
  <2> QED  BY <2>3, <2>7
<1> HIDE DEF known, earliest, found
<1>4. {r.txn.no : r \in found} \subseteq {l.no : l \in {x \in earliest : x.account_id \in known}}
  BY <1>2
<1>5. {r.txn.no : r \in found} = {} =>
          earliest = {} \/ \E l \in earliest : l.account_id \notin known
  BY <1>3
<1> QED  BY <1>4, <1>5 DEF known, earliest, found

-----------------------------------------------------------------------------
(* The invariant.                                                          *)

\* What a process that is stopped, or has just started, has to show.
LEMMA RunInit == Init => GoldRunInv
BY MedallionAssumption
   DEF Init, GoldRunInv, BronzeInv, SilverOf, GoldOf, HasSilverCustomers, HasSilverAccounts,
       HasSilverTransactions, HasDimCustomers, HasDimAccounts

\* A run timestamp is one of the possible run dates.
LEMMA RunDateType == now \in 0 .. MaxClock => RunTimestamp \in RunDates
BY DEF RunTimestamp, RunDates

\* The gold tables that the last overwrite completes are ones the input allows.
LEMMA RunAdds ==
    ASSUME BatchInv, GoldRunInv, BuildFactTransactions
    PROVE  /\ outcomes' = outcomes \cup {[input |-> input, gold |-> gold']}
           /\ IsOutcome([input |-> input, gold |-> gold'])
<1> DEFINE o == [input |-> input, gold |-> gold']
<1>1. /\ outcomes' = outcomes \cup {o}
      /\ gold' = [gold EXCEPT !["fact_transactions"] =
                     Fact(silver["transactions"].rows, gold["dim_accounts"], gold["dim_customers"])]
      /\ pc = "gold.fact_transactions" /\ UNCHANGED input
  BY DEF BuildFactTransactions, WriteGold
<1>2. input \in Input /\ gold = [t \in GoldTables |-> gold[t]]
  BY DEF BatchInv, TablesInv
<1>3. /\ gold' = [t \in GoldTables |-> gold'[t]]
      /\ gold'["dim_customers"] = gold["dim_customers"]
      /\ gold'["dim_accounts"] = gold["dim_accounts"]
      /\ gold'["fact_transactions"] =
            Fact(silver["transactions"].rows, gold["dim_accounts"], gold["dim_customers"])
  BY <1>1, <1>2 DEF GoldTables
<1>4. /\ KeptCustomers(silver["customers"].rows, input)
      /\ KeptAccounts(silver["accounts"].rows, input)
      /\ KeptTxns(silver["transactions"].rows, silver["accounts"].rows, input)
      /\ \E day \in RunDates :
            gold["dim_customers"] = DimCustomers(silver["customers"].rows, day)
      /\ gold["dim_accounts"] = DimAccounts(silver["accounts"].rows, gold["dim_customers"])
  BY <1>1 DEF GoldRunInv, SilverOf, GoldOf, HasSilverCustomers, HasSilverAccounts,
              HasSilverTransactions, HasDimCustomers, HasDimAccounts
<1>5. IsGoldOf(input, gold')
  <2> DEFINE A == silver["accounts"].rows
             T == silver["transactions"].rows
             rows == {ToSilverTxn(t, A) : t \in Identified(input.transactions, "transaction_id")}
  <2>1. PICK C \in SUBSET Identified(input.customers, "customer_id") :
            /\ IsDeduplication(C, Identified(input.customers, "customer_id"), "customer_id")
            /\ silver["customers"].rows = {ToSilverCustomer(r) : r \in C}
    BY <1>4 DEF KeptCustomers
  <2>2. /\ A \in SUBSET Identified(input.accounts, "account_id")
        /\ IsDeduplication(A, Identified(input.accounts, "account_id"), "account_id")
    BY <1>4 DEF KeptAccounts, IsDeduplication
  <2>3. /\ T \in SUBSET rows /\ IsDeduplication(T, rows, "transaction_id")
        /\ KeepsEarliest(T, rows)
    BY <1>4 DEF KeptTxns, Converted, IsDeduplication
  <2>4. \E day \in RunDates :
            gold'["dim_customers"] = DimCustomers({ToSilverCustomer(r) : r \in C}, day)
    BY <1>3, <1>4, <2>1
  <2>5. /\ gold'["dim_accounts"] = DimAccounts(A, gold'["dim_customers"])
        /\ gold'["fact_transactions"] = Fact(T, gold'["dim_accounts"], gold'["dim_customers"])
    BY <1>3, <1>4
  <2> HIDE DEF A, T
  <2> QED  BY <2>1, <2>2, <2>3, <2>4, <2>5 DEF IsGoldOf
<1>6. IsOutcome(o)
  BY <1>2, <1>3, <1>5 DEF IsOutcome
<1> QED  BY <1>1, <1>6

\* Every statement hands on what the next ones read: one case per action.
LEMMA RunNext == BatchInv /\ GoldRunInv /\ [Next]_vars => GoldRunInv'
<1> SUFFICES ASSUME BatchInv, GoldRunInv, [Next]_vars PROVE GoldRunInv'
  OBVIOUS
<1> USE DEF HasSilverCustomers, HasSilverAccounts, HasSilverTransactions, HasDimCustomers,
            HasDimAccounts, volume, memory, bounds
<1>1. /\ now \in 0 .. MaxClock /\ BronzeInv /\ SilverOf /\ GoldOf
      /\ \A o \in outcomes : IsOutcome(o)
      /\ TablesInv
  BY DEF GoldRunInv, BatchInv
<1>2. CASE Start \/ Crash \/ Raise \/ UNCHANGED vars
  BY <1>1, <1>2 DEF Start, Crash, Raise, Stopped, vars, GoldRunInv, BronzeInv, SilverOf, GoldOf
<1>3. CASE Tick
  <2>1. now' \in 0 .. MaxClock
    BY <1>1, <1>3, MedallionAssumption DEF Tick
  <2> QED  BY <1>1, <1>3, <2>1 DEF Tick, GoldRunInv, BronzeInv, SilverOf, GoldOf
<1>4. CASE ReplaceInput
  BY <1>1, <1>4 DEF ReplaceInput, Stopped, GoldRunInv, BronzeInv, SilverOf, GoldOf
<1>5. CASE BronzeAccounts \/ BronzeTransactions \/ BronzeSchemaMismatch \/ BronzeCustomers
  BY <1>1, <1>5 DEF BronzeAccounts, BronzeTransactions, BronzeSchemaMismatch, BronzeCustomers,
                    WriteBronze, TablesInv, SourceTables, GoldRunInv, BronzeInv, SilverOf, GoldOf
<1>6. CASE SilverCustomers
  <2>1. PICK C \in SUBSET Identified(bronze["customers"].rows, "customer_id") :
            /\ IsDeduplication(C, Identified(bronze["customers"].rows, "customer_id"), "customer_id")
            /\ WriteSilver("customers", {ToSilverCustomer(r) : r \in C})
    BY <1>6 DEF SilverCustomers
  <2>2. /\ silver'["customers"].rows = {ToSilverCustomer(r) : r \in C}
        /\ UNCHANGED <<input, bronze, gold, now, outcomes>>
        /\ pc = "silver.customers" /\ pc' = "silver.accounts"
    BY <1>1, <1>6, <2>1 DEF SilverCustomers, WriteSilver, TablesInv, SourceTables
  <2>3. KeptCustomers(silver'["customers"].rows, input)
    BY <1>1, <2>1, <2>2 DEF KeptCustomers, BronzeInv
  <2> QED  BY <1>1, <2>2, <2>3 DEF GoldRunInv, BronzeInv, SilverOf, GoldOf
<1>7. CASE SilverAccounts
  <2>1. PICK A \in SUBSET Identified(bronze["accounts"].rows, "account_id") :
            /\ IsDeduplication(A, Identified(bronze["accounts"].rows, "account_id"), "account_id")
            /\ WriteSilver("accounts", A)
    BY <1>7 DEF SilverAccounts
  <2>2. /\ silver'["accounts"].rows = A /\ silver'["customers"] = silver["customers"]
        /\ UNCHANGED <<input, bronze, gold, now, outcomes>>
        /\ pc = "silver.accounts" /\ pc' = "silver.transactions"
    BY <1>1, <1>7, <2>1 DEF SilverAccounts, WriteSilver, TablesInv, SourceTables
  <2>3. KeptAccounts(silver'["accounts"].rows, input)
    BY <1>1, <2>1, <2>2 DEF KeptAccounts, BronzeInv
  <2> QED  BY <1>1, <2>2, <2>3 DEF GoldRunInv, BronzeInv, SilverOf, GoldOf
<1>8. CASE SilverTransactions
  <2> DEFINE accounts == silver["accounts"].rows
             rows == {ToSilverTxn(t, accounts) :
                          t \in Identified(bronze["transactions"].rows, "transaction_id")}
  <2>1. PICK T \in SUBSET rows : /\ IsDeduplication(T, rows, "transaction_id")
                                 /\ KeepsEarliest(T, rows)
                                 /\ WriteSilver("transactions", T)
    BY <1>8 DEF SilverTransactions
  <2>2. /\ silver'["transactions"].rows = T
        /\ silver'["customers"] = silver["customers"] /\ silver'["accounts"] = silver["accounts"]
        /\ UNCHANGED <<input, bronze, gold, now, outcomes>>
        /\ pc = "silver.transactions" /\ pc' = "gold.dim_customers"
    BY <1>1, <1>8, <2>1 DEF SilverTransactions, WriteSilver, TablesInv, SourceTables
  <2>3. rows = Converted(input, accounts)
    BY <1>1, <2>2 DEF Converted, BronzeInv
  <2>4. KeptTxns(silver'["transactions"].rows, silver["accounts"].rows, input)
    BY <2>1, <2>2, <2>3 DEF KeptTxns
  <2> QED  BY <1>1, <2>2, <2>4 DEF GoldRunInv, BronzeInv, SilverOf, GoldOf
<1>9. CASE BuildDimCustomers
  <2>1. /\ gold'["dim_customers"] = DimCustomers(silver["customers"].rows, RunTimestamp)
        /\ UNCHANGED <<input, bronze, silver, now, outcomes>>
        /\ pc = "gold.dim_customers" /\ pc' = "gold.dim_accounts"
    BY <1>1, <1>9 DEF BuildDimCustomers, WriteGold, TablesInv, GoldTables
  <2>2. \E day \in RunDates : gold'["dim_customers"] = DimCustomers(silver["customers"].rows, day)
    BY <1>1, <2>1, RunDateType
  <2> QED  BY <1>1, <2>1, <2>2 DEF GoldRunInv, BronzeInv, SilverOf, GoldOf
<1>10. CASE BuildDimAccounts
  <2>1. /\ gold'["dim_accounts"] = DimAccounts(silver["accounts"].rows, gold["dim_customers"])
        /\ gold'["dim_customers"] = gold["dim_customers"]
        /\ UNCHANGED <<input, bronze, silver, now, outcomes>>
        /\ pc = "gold.dim_accounts" /\ pc' = "gold.fact_transactions"
    BY <1>1, <1>10 DEF BuildDimAccounts, WriteGold, TablesInv, GoldTables
  <2> QED  BY <1>1, <2>1 DEF GoldRunInv, BronzeInv, SilverOf, GoldOf
<1>11. CASE BuildFactTransactions
  <2>1. /\ outcomes' = outcomes \cup {[input |-> input, gold |-> gold']}
        /\ IsOutcome([input |-> input, gold |-> gold'])
    BY <1>11 , RunAdds
  <2>2. /\ gold'["dim_customers"] = gold["dim_customers"]
        /\ gold'["dim_accounts"] = gold["dim_accounts"]
        /\ UNCHANGED <<input, bronze, silver, now>>
        /\ pc = "gold.fact_transactions" /\ pc' = "dq_report"
    BY <1>1, <1>11 DEF BuildFactTransactions, WriteGold, TablesInv, GoldTables
  <2>3. \A o \in outcomes' : IsOutcome(o)
    <3> SUFFICES ASSUME NEW o \in outcomes' PROVE IsOutcome(o)
      OBVIOUS
    <3>1. o \in outcomes \/ o = [input |-> input, gold |-> gold']
      BY <2>1, Zenon
    <3> QED  BY <1>1, <2>1, <3>1, Zenon
  <2> QED  BY <1>1, <2>2, <2>3 DEF GoldRunInv, BronzeInv, SilverOf, GoldOf
<1>12. CASE WriteDqReport \/ DumpDqReport \/ AssertContractInvariants
  BY <1>1, <1>12 DEF WriteDqReport, DumpDqReport, AssertContractInvariants, GoldRunInv,
                     BronzeInv, SilverOf, GoldOf
<1> QED
  BY <1>2, <1>3, <1>4, <1>5, <1>6, <1>7, <1>8, <1>9, <1>10, <1>11, <1>12 DEF Next, Step

\* Both invariants hold of every reachable state.
LEMMA RunInvariant == Spec => [](BatchInv /\ GoldRunInv)
<1>1. Init => BatchInv /\ GoldRunInv
  BY BatchInit, RunInit
<1>2. BatchInv /\ GoldRunInv /\ [Next]_vars => (BatchInv /\ GoldRunInv)'
  BY BatchNext, RunNext
<1> QED  BY <1>1, <1>2, PTL DEF Spec

-----------------------------------------------------------------------------
(* The theorems.                                                           *)

\* The nine overwrites of a run act as one step from its input to its gold tables.
THEOREM RunIsOneStep == Spec => RunsAreAtomic
<1>1. Init => Gold!Init
  BY DEF Init, Gold!Init
<1>2. BatchInv /\ GoldRunInv /\ [Next]_vars => [Gold!Run \/ Gold!ReplaceInput]_<<input, outcomes>>
  <2> SUFFICES ASSUME BatchInv, GoldRunInv, Next
               PROVE  Gold!Run \/ Gold!ReplaceInput \/ UNCHANGED <<input, outcomes>>
    BY DEF vars, volume
  <2>1. CASE BuildFactTransactions
    <3>1. /\ outcomes' = outcomes \cup {[input |-> input, gold |-> gold']}
          /\ IsOutcome([input |-> input, gold |-> gold'])
          /\ UNCHANGED input
      BY <2>1, RunAdds DEF BuildFactTransactions, WriteGold
    <3> DEFINE o == [input |-> input, gold |-> gold']
    <3>2. o \in outcomes' /\ outcomes' = outcomes \cup {o} /\ o.input = input
      BY <3>1
    <3>3. IsGoldOf(o.input, o.gold)
      BY <3>1 DEF IsOutcome
    <3> HIDE DEF o
    <3> QED  BY <3>1, <3>2, <3>3 DEF Gold!Run
  <2>2. CASE ReplaceInput
    BY <2>2 DEF ReplaceInput, Gold!ReplaceInput
  <2>3. CASE Start \/ Crash \/ Raise \/ Tick
    BY <2>3 DEF Start, Crash, Raise, Tick, volume
  <2>4. CASE BronzeAccounts \/ BronzeTransactions \/ BronzeSchemaMismatch \/ BronzeCustomers
             \/ SilverCustomers \/ SilverAccounts \/ SilverTransactions
    BY <2>4 DEF BronzeAccounts, BronzeTransactions, BronzeSchemaMismatch, BronzeCustomers,
                SilverCustomers, SilverAccounts, SilverTransactions, WriteBronze, WriteSilver, volume
  <2>5. CASE BuildDimCustomers \/ BuildDimAccounts \/ WriteDqReport \/ DumpDqReport
             \/ AssertContractInvariants
    BY <2>5 DEF BuildDimCustomers, BuildDimAccounts, WriteGold, WriteDqReport, DumpDqReport,
                AssertContractInvariants, volume
  <2> QED  BY <2>1, <2>2, <2>3, <2>4, <2>5 DEF Next, Step
<1> QED  BY <1>1, <1>2, RunInvariant, PTL DEF Spec, RunsAreAtomic, Gold!Spec

\* The fact table of a run loses and invents no transaction, whatever the input
\* repeats and whatever ran before.
THEOREM FactLosesNothing == Spec => []FactIsExact
<1>1. GoldRunInv => FactIsExact
  BY GoldIsExact DEF GoldRunInv, IsOutcome, FactIsExact
<1> QED  BY <1>1, RunInvariant, PTL

\* With RUN_TIMESTAMP pinned and no ties, every run on an input writes the same
\* gold tables.
THEOREM RerunsAgree == Spec => []RerunIsIdentical
<1>1. GoldRunInv => RerunIsIdentical
  <2> SUFFICES ASSUME GoldRunInv, RUN_TIMESTAMP # NULL, NEW o1 \in outcomes, NEW o2 \in outcomes,
                      o1.input = o2.input, NoTies(o1.input)
               PROVE  o1 = o2
    BY DEF RerunIsIdentical
  <2>1. IsOutcome(o1) /\ IsOutcome(o2)
    BY DEF GoldRunInv
  <2>2. o1.gold = o2.gold
    BY <2>1, GoldDetermined DEF IsOutcome
  <2> QED  BY <2>1, <2>2 DEF IsOutcome
<1> QED  BY <1>1, RunInvariant, PTL
=============================================================================
