------------------------------- MODULE MCBatch -------------------------------
(***************************************************************************)
(* Small instances of BatchProperties for TLC: pools of input lines from   *)
(* which the input files are drawn.                                        *)
(***************************************************************************)
EXTENDS BatchProperties, TLC

CONSTANTS c1, c2, c3, a1, a2, a3, t1, t2, p1, p2

Iso(d) == [form |-> "yyyy-MM-dd", day |-> d]
Dmy(d) == [form |-> "dd/MM/yyyy", day |-> d]
Bad    == [form |-> "other", day |-> 0]

Customer(no, id, province, dob) ==
    [no |-> no, customer_id |-> id, province |-> province, dob |-> dob]
Account(no, id, ref) == [no |-> no, account_id |-> id, customer_ref |-> ref]
Txn(no, id, account, date, time, amount, currency, type) ==
    [no |-> no, transaction_id |-> id, account_id |-> account, transaction_date |-> date,
     transaction_time |-> time, amount |-> amount, currency |-> currency,
     transaction_type |-> type]

\* A repeated customer, a missing key, a missing province, an unreadable dob.
CustomerPool ==
    {Customer(1, c1, p1, Iso(0)), Customer(2, c1, p2, Bad),
     Customer(3, c2, NULL, NULL), Customer(4, NULL, p1, Dmy(0))}

\* A repeated account with two customers, one with an unknown customer.
AccountPool ==
    {Account(1, a1, c1), Account(2, a1, c2), Account(3, a2, c3), Account(4, NULL, c1)}

\* A transaction three times over (one line without a date, one of an account
\* nobody has), the four flags, a tie, currencies in every form.
TxnPool ==
    {Txn(1, t1, a1, Iso(1), NULL, "decimal", "ZAR", "CREDIT"),
     Txn(2, t1, a1, Bad, 1, "decimal", "variant", "DEBIT"),
     Txn(3, t1, a3, Dmy(1), 0, "decimal", "ZAR", "CREDIT"),
     Txn(4, t2, a1, Dmy(0), 1, "not_decimal", "foreign", "FEE"),
     Txn(5, t2, a2, NULL, BadTime, NULL, NULL, "REVERSAL"),
     Txn(6, NULL, a1, Iso(0), 0, "decimal", "ZAR", "FEE")}

File(C, A, T, optional) ==
    [customers |-> C, accounts |-> A, transactions |-> T, optional |-> optional]

\* Every input drawn from the pools.
PoolInputs ==
    {File(C, A, T, FALSE) :
        C \in SUBSET CustomerPool, A \in SUBSET AccountPool, T \in SUBSET TxnPool}

\* Four inputs to be run one after the other: clean, fewer customers, with
\* optional columns, with ties.
CleanCustomers == {Customer(1, c1, p1, Iso(0)), Customer(3, c2, p2, Dmy(1))}
CleanAccounts  == {Account(1, a1, c1), Account(2, a2, c2)}
CleanTxns      ==
    {Txn(1, t1, a1, Iso(1), 1, "decimal", "ZAR", "CREDIT"),
     Txn(2, t1, a1, Dmy(1), 0, "decimal", "ZAR", "CREDIT"),
     Txn(3, t2, a1, Iso(0), 0, "decimal", "foreign", "DEBIT")}

RerunInputs ==
    {File(CleanCustomers, CleanAccounts, CleanTxns, FALSE),
     File(CleanCustomers, CleanAccounts, CleanTxns, TRUE),
     File({Customer(1, c1, p1, Iso(0))}, CleanAccounts, CleanTxns, FALSE),
     File(CleanCustomers \cup {Customer(2, c1, p2, Iso(1))},
          CleanAccounts \cup {Account(3, a1, c2)}, CleanTxns, FALSE)}
=============================================================================
