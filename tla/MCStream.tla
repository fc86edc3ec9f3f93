------------------------------ MODULE MCStream ------------------------------
(***************************************************************************)
(* Small instances of StreamProperties for TLC: pools of JSON lines from   *)
(* which the contents of the stream directory are drawn.                   *)
(***************************************************************************)
EXTENDS StreamProperties, TLC

CONSTANTS a1, a2, t1, t2, t3, t4

MCFiles == 1 .. 2

JsonLine(no, account, txn, date, instant, amount, type) ==
    [no |-> no, account_id |-> account, transaction_id |-> txn,
     transaction_date |-> date, transaction_time |-> "hms", instant |-> instant,
     amount |-> amount, transaction_type |-> type]

Whole(lines) == [columns |-> Columns, lines |-> lines]

\* Well-formed lines: all transactions differ, two of a1 at the same instant.
CleanPool ==
    {JsonLine(1, a1, t1, "iso", 1, 2, "CREDIT"),
     JsonLine(2, a1, t2, "iso", 2, 1, "DEBIT"),
     JsonLine(3, a1, t3, "iso", 2, 1, "FEE"),
     JsonLine(4, a2, t4, "iso", 0, 3, "REVERSAL")}

CleanFiles  == {Whole(L) : L \in SUBSET CleanPool}
CleanInputs == [MCFiles -> CleanFiles]

\* Lines as they should not be: a date the pattern does not match, the same
\* transaction twice, missing keys, a missing type, a missing amount.
DirtyPool ==
    {JsonLine(1, a1, t1, "dmy", 0, 2, "CREDIT"),
     JsonLine(2, a1, t1, "iso", 2, 1, "DEBIT"),
     JsonLine(3, a1, NULL, "iso", 1, 2, NULL),
     JsonLine(4, NULL, t2, "iso", 1, 1, "FEE"),
     JsonLine(5, a1, t3, "iso", 1, NULL, "REVERSAL")}

\* Files whose schema lacks a column some statement of process_file names.
BrokenFiles ==
    {[columns |-> Columns \ {c}, lines |-> {JsonLine(1, a1, t1, "iso", 1, 2, "CREDIT")}] :
        c \in {"currency", "transaction_type"}}
    \cup {[columns |-> Columns \ {"transaction_id"},
           lines   |-> {JsonLine(1, a1, NULL, "iso", 1, 2, "CREDIT")}]}

DirtyFiles  == {Whole(L) : L \in SUBSET DirtyPool} \cup BrokenFiles
DirtyInputs == [MCFiles -> DirtyFiles]

\* One good file, one whose repetition of it makes a later MERGE ambiguous and
\* the broken ones, in every position: for the properties of the loop.
LoopFiles ==
    {Whole({JsonLine(1, a1, t1, "iso", 1, 2, "CREDIT")}),
     Whole({JsonLine(1, a1, t1, "iso", 1, 2, "CREDIT"), JsonLine(2, a1, t1, "iso", 1, 2, "CREDIT")})}
    \cup BrokenFiles
LoopInputs == [MCFiles -> LoopFiles]

OneStaged  == {2}
=============================================================================
