----------------------------- MODULE BatchRules -----------------------------
(***************************************************************************)
(* The data side of the batch stages: the rows of the three input files    *)
(* and what pipeline/transform.py and pipeline/provision.py do to a row or *)
(* to a table of rows.  There is no state here.                            *)
(*                                                                         *)
(* A table is a set of rows.  no is the line a row was read from: nothing  *)
(* in the code carries it, it only keeps rows with equal columns apart, so *)
(* that duplicates and join fan-out stay visible.  Columns that are copied *)
(* and never looked at are left out.  A surrogate key is represented by    *)
(* the natural key it is a hash of.                                        *)
(***************************************************************************)
EXTENDS FiniteSetsExt

CONSTANTS
    CustomerIds, AccountIds, TxnIds, \* natural keys
    Provinces,                       \* province texts of customers.csv
    TxnTypes,                        \* transaction_type texts
    LastDay,                         \* dates are the days 0 .. LastDay
    DayLength,                       \* times of a day are 0 .. DayLength - 1
    AgeLimits,                       \* the ages at which an age_band begins
    BadTime,                         \* a transaction_time that is no time of day
    NULL                             \* SQL NULL

ASSUME RulesAssumption ==
    /\ LastDay \in Nat
    /\ DayLength \in Nat \ {0}
    /\ AgeLimits \subseteq Nat
    /\ NULL \notin TxnIds
    /\ NULL \notin {"ORPHANED_ACCOUNT", "TYPE_MISMATCH", "DATE_FORMAT", "CURRENCY_VARIANT"}

Nullable(S) == S \cup {NULL}
Days        == 0 .. LastDay
DayTimes    == 0 .. DayLength - 1
Timestamps  == 0 .. (LastDay + 1) * DayLength

\* A date as text: the three formats the code knows, and anything else.
DateText == [form : {"yyyy-MM-dd", "dd/MM/yyyy", "epoch", "other"}, day : Days]

CustomerLine == [no : Nat, customer_id : Nullable(CustomerIds),
                 province : Nullable(Provinces), dob : Nullable(DateText)]

AccountLine == [no : Nat, account_id : Nullable(AccountIds),
                customer_ref : Nullable(CustomerIds)]

\* amount: does the text cast to DECIMAL(18,2); currency: the upper-cased,
\* trimmed text, "variant" for R, RANDS and 710.
TxnLine == [no : Nat, transaction_id : Nullable(TxnIds),
            account_id : Nullable(AccountIds),
            transaction_date : Nullable(DateText),
            transaction_time : Nullable(DayTimes \cup {BadTime}),
            amount : {"decimal", "not_decimal", NULL},
            currency : {"ZAR", "variant", "foreign", NULL},
            transaction_type : Nullable(TxnTypes)]

Input == [customers : SUBSET CustomerLine, accounts : SUBSET AccountLine,
          transactions : SUBSET TxnLine, optional : BOOLEAN]

DqCodes == {"ORPHANED_ACCOUNT", "TYPE_MISMATCH", "DATE_FORMAT", "CURRENCY_VARIANT"}

SilverCustomer == [no : Nat, customer_id : CustomerIds,
                   province : Nullable(Provinces), dob : Nullable(Days)]

SilverTxn == [no : Nat, transaction_id : TxnIds, account_id : Nullable(AccountIds),
              transaction_date : Nullable(Days),
              transaction_timestamp : Nullable(Timestamps),
              amount : {"decimal", NULL},
              currency : {"ZAR", "foreign", NULL},
              transaction_type : Nullable(TxnTypes),
              dq_flag : Nullable(DqCodes)]

-----------------------------------------------------------------------------
(* Silver.                                                                 *)

ParseDateRobust(text) ==
    IF text # NULL /\ text.form # "other" THEN text.day ELSE NULL

NormaliseCurrency_codesOnly(currency) == currency
NormaliseCurrency(currency) == IF currency = "variant" THEN "ZAR" ELSE currency

\* NOT IN (ZAR) is NULL for a NULL currency, which WHEN takes for false.
CurrencyWasVariant(currency) == currency \in {"variant", "foreign"}

\* A missing time is midnight; a missing date leaves no timestamp.
TransactionTimestamp(date, time) ==
    IF date = NULL \/ time = BadTime THEN NULL
    ELSE date * DayLength + (IF time = NULL THEN 0 ELSE time)

\* One dominant flag: the first that applies.
DqFlag_castUnchecked(orphan, amount, date, variant) ==
    IF orphan THEN "ORPHANED_ACCOUNT"
    ELSE IF date = NULL THEN "DATE_FORMAT"
    ELSE IF variant THEN "CURRENCY_VARIANT"
    ELSE NULL
DqFlag(orphan, amount, date, variant) ==
    IF orphan THEN "ORPHANED_ACCOUNT"
    ELSE IF amount = NULL THEN "TYPE_MISMATCH"
    ELSE IF date = NULL THEN "DATE_FORMAT"
    ELSE IF variant THEN "CURRENCY_VARIANT"
    ELSE NULL

\* row_number() = 1 in each partition of a key. Customers and accounts are
\* ordered by ingestion_timestamp, which is the same for every row of a bronze
\* table, so which row is kept is Spark's choice.
IsDeduplication(S, rows, key) ==
    /\ S \subseteq rows
    /\ \A r \in rows : \E s \in S : s[key] = r[key]
    /\ \A r, s \in S : r[key] = s[key] => r = s

\* ORDER BY transaction_timestamp ASC NULLS LAST.
Earlier_nullsFirst(r, s) ==
    \/ r.transaction_timestamp = NULL
    \/ /\ r.transaction_timestamp # NULL /\ s.transaction_timestamp # NULL
       /\ r.transaction_timestamp <= s.transaction_timestamp
Earlier(r, s) ==
    \/ s.transaction_timestamp = NULL
    \/ /\ r.transaction_timestamp # NULL /\ s.transaction_timestamp # NULL
       /\ r.transaction_timestamp <= s.transaction_timestamp

\* Rows with equal timestamps are in any order.
KeepsEarliest(S, rows) ==
    \A s \in S, r \in rows : s.transaction_id = r.transaction_id => Earlier(s, r)

Identified(rows, key) == {r \in rows : r[key] # NULL}

ToSilverCustomer(r) == [r EXCEPT !.dob = ParseDateRobust(@)]

\* The orphan flag is a left join with the account_ids of silver accounts.
ToSilverTxn(t, accounts) ==
    LET date   == ParseDateRobust(t.transaction_date)
        amount == IF t.amount = "decimal" THEN t.amount ELSE NULL
        orphan == \A a \in accounts : a.account_id # t.account_id
    IN  [no                    |-> t.no,
         transaction_id        |-> t.transaction_id,
         account_id            |-> t.account_id,
         transaction_date      |-> date,
         transaction_timestamp |-> TransactionTimestamp(date, t.transaction_time),
         amount                |-> amount,
         currency              |-> NormaliseCurrency(t.currency),
         transaction_type      |-> t.transaction_type,
         dq_flag               |-> DqFlag(orphan, amount, date, CurrencyWasVariant(t.currency))]

-----------------------------------------------------------------------------
(* Gold.                                                                   *)

\* The index of the age band as of run_date; NULL below the first.
DeriveAgeBand(dob, run_date) ==
    LET begun == {l \in AgeLimits : dob # NULL /\ run_date - dob >= l}
    IN  IF begun = {} THEN NULL ELSE Cardinality(begun)

DimCustomers(customers, run_date) ==
    {[no |-> c.no, customer_id |-> c.customer_id, province |-> c.province,
      age_band |-> DeriveAgeBand(c.dob, run_date)] : c \in customers}

DimAccountsRow(a) == [no |-> a.no, account_id |-> a.account_id, customer_id |-> a.customer_ref]

\* The Q2 guarantee: an inner join with the customer_ids of dim_customers.
DimAccounts_leftJoin(accounts, dim_customers) == {DimAccountsRow(a) : a \in accounts}
DimAccounts(accounts, dim_customers) ==
    {DimAccountsRow(a) : a \in {x \in accounts :
        \E c \in dim_customers : c.customer_id = x.customer_ref}}

\* Both joins are inner joins, and a NULL key joins with nothing.
Fact(txns, dim_accounts, dim_customers) ==
    {[txn |-> x[1], account |-> x[2].no, customer |-> x[3].no] :
        x \in {y \in txns \X dim_accounts \X dim_customers :
                  /\ y[1].account_id = y[2].account_id
                  /\ y[2].customer_id = y[3].customer_id}}

\* Counts of the flags found in silver transactions; zero counts are left out.
DqIssues_cleanCounted(txns) ==
    [code \in {t.dq_flag : t \in txns} |-> Cardinality({t \in txns : t.dq_flag = code})]

DqIssues(txns) ==
    LET found == {t.dq_flag : t \in txns} \ {NULL}
    IN  [code \in found |-> Cardinality({t \in txns : t.dq_flag = code})]
=============================================================================
