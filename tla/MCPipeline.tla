------------------------------ MODULE MCPipeline ------------------------------
(***************************************************************************)
(* A small instance of PipelineProperties for TLC: inputs that keep the    *)
(* contracts and inputs that break them, good and bad stream files.        *)
(***************************************************************************)
EXTENDS PipelineProperties, TLC

CONSTANTS c1, a1, t1, t2, p1, s1

Customer(province) == [no |-> 1, customer_id |-> c1, province |-> province, dob |-> NULL]
Account == [no |-> 1, account_id |-> a1, customer_ref |-> c1]
Txn(no, id, type) ==
    [no |-> no, transaction_id |-> id, account_id |-> a1,
     transaction_date |-> [form |-> "yyyy-MM-dd", day |-> 0], transaction_time |-> NULL,
     amount |-> "decimal", currency |-> "ZAR", transaction_type |-> type]

InputOf(province, types, optional) ==
    [customers |-> {Customer(province)}, accounts |-> {Account},
     transactions |-> {Txn(1, t1, types[1]), Txn(2, t2, types[2])}, optional |-> optional]

\* One that keeps the contracts, and one with an optional column and without a
\* province: Q3 fails, or bronze when the first one was there before.
MCBatchInputs ==
    {InputOf(p1, <<"CREDIT", "DEBIT">>, FALSE), InputOf(NULL, <<"CREDIT", "DEBIT">>, TRUE)}

JsonLine ==
    [no |-> 1, account_id |-> a1, transaction_id |-> s1, transaction_date |-> "iso",
     transaction_time |-> "hms", instant |-> 0, amount |-> 1, transaction_type |-> "CREDIT"]

\* A good file and one without a currency column.
MCColumns == {"currency", "amount", "transaction_date", "transaction_time", "account_id",
              "transaction_id", "transaction_type"}
MCStreamFiles ==
    {[columns |-> MCColumns, lines |-> {JsonLine}],
     [columns |-> MCColumns \ {"currency"}, lines |-> {JsonLine}]}

MCFiles == {1}
MCStreamInputs == {[f \in MCFiles |-> d] : d \in MCStreamFiles}
OneStaged == {}

\* Configured by /data/config or the image, without a stream directory, nowhere.
MCConfigs ==
    {<<"absent", "absent", "with_stream">>, <<"absent", "without_stream", "with_stream">>,
     <<"absent", "absent", "absent">>}
=============================================================================
