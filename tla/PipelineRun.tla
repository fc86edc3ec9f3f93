----------------------------- MODULE PipelineRun -----------------------------
(***************************************************************************)
(* run_all.py: one process that resolves its configuration, runs the batch *)
(* stages (Medallion) inside their stage timers, looks at the stream       *)
(* directory once, runs the streaming stage (StreamIngest) or skips it,    *)
(* and exits with 0 or, after any exception, with 1.  The two components   *)
(* share the process: it is killed, started again and given a new          *)
(* container as a whole.                                                   *)
(*                                                                         *)
(* The log is the set of the stage events of one process, without their    *)
(* fields.  A definition named <Definition>_<fault> is a faulty variant of *)
(* the one that follows it, used by no action.                             *)
(***************************************************************************)
EXTENDS Integers, SequencesExt

CONSTANTS
    \* of Medallion
    CustomerIds, AccountIds, TxnIds, Provinces, TxnTypes, LastDay, DayLength,
    AgeLimits, BadTime, NULL, BatchInputs, RUN_TIMESTAMP, MinTypes, MaxProvinces,
    NoTable, MaxChanges, MaxClock,
    \* of StreamIngest
    Files, Accounts, Txns, LastInstant, DecMax, MAX_RECENT, NoRow, StreamInputs,
    PreStaged, MAX_RETRIES, QUIESCE_POLLS, RestartKinds,
    \* of both
    MaxFaults, MaxRuns,
    Configs        \* what may be found at the three configuration paths

\* PIPELINE_CONFIG, /data/config and /app/config: no file there, or one with or
\* without paths.stream.input_dir.
ConfigKinds == {"absent", "with_stream", "without_stream"}

ASSUME PipelineAssumption == Configs \subseteq [1 .. 3 -> ConfigKinds]

VARIABLES
    input, bronze, silver, gold, report, batch_pc, cause, started, ingestion_ts,
    draft, now, batch_runs, batch_faults, changes, outcomes,
    inputs, dir, balances, recents, processed_state, failed_state, stream_pc,
    all_files, new_files, processed, retry_counts, idle, stream_runs,
    stream_faults, applied, merged, failures,
    configs,   \* the files at the configuration paths
    process,   \* the process: running, or how it ended
    stage,     \* the part of run_all it has reached
    timers,    \* memory: the open stage timers, outermost first
    log,       \* stdout: [stage, event] of this process
    container, \* the containers started since the streaming stage last ran
    look,      \* history: what its one look at the stream directory came to
    present    \* history: the stream files there at that look, or when it started

Batch == INSTANCE Medallion
    WITH Inputs <- BatchInputs, pc <- batch_pc, runs <- batch_runs, faults <- batch_faults

Stream == INSTANCE StreamIngest
    WITH Inputs <- StreamInputs, pc <- stream_pc, runs <- stream_runs, faults <- stream_faults

ASSUME ComponentAssumptions ==
    /\ Batch!RulesAssumption /\ Batch!MedallionAssumption
    /\ Stream!TablesAssumption /\ Stream!NullAssumption /\ Stream!NoRowAssumption
    /\ Stream!IngestAssumption

batch  == <<input, bronze, silver, gold, report, batch_pc, cause, started, ingestion_ts,
            draft, now, batch_runs, batch_faults, changes, outcomes>>
stream == <<inputs, dir, balances, recents, processed_state, failed_state, stream_pc,
            all_files, new_files, idle, processed, retry_counts, stream_runs,
            stream_faults, applied, merged, failures>>
shell  == <<configs, process, stage, timers, log, container, look, present>>
vars   == <<batch, stream, shell>>

-----------------------------------------------------------------------------
(* The stage timers.                                                       *)

\* The last table is written after the with block of the stage.
BronzeTimers_dedented(pc) ==
    IF pc \in {"bronze.accounts", "bronze.transactions"} THEN <<"bronze", pc>>
    ELSE IF pc = "bronze.customers" THEN <<pc>> ELSE <<>>
BronzeTimers(pc) ==
    IF pc \in {"bronze.accounts", "bronze.transactions", "bronze.customers"}
    THEN <<"bronze", pc>> ELSE <<>>

SilverTimers(pc) ==
    IF pc \in {"silver.customers", "silver.accounts", "silver.transactions"}
    THEN <<"silver", pc>> ELSE <<>>

GoldTimers(pc) ==
    CASE pc \in {"gold.dim_customers", "gold.dim_accounts", "gold.fact_transactions"} ->
             <<"gold", pc>>
      [] pc \in {"dq_report", "dq_report.dump"} -> <<"gold", "gold.dq_report">>
      [] pc = "contracts" -> <<"gold", "gold.contracts">>
      [] OTHER -> <<>>

\* The timers around the statement the batch stages have reached.
Due == BronzeTimers(batch_pc) \o SilverTimers(batch_pc) \o GoldTimers(batch_pc)

Event(name) == [stage |-> Last(timers), event |-> name]

EnterTimer ==
    /\ process = "running" /\ stage = "batch"
    /\ IsStrictPrefix(timers, Due)
    /\ timers' = SubSeq(Due, 1, Len(timers) + 1)
    /\ log' = log \cup {[stage |-> Last(timers'), event |-> "start"]}
    /\ UNCHANGED <<batch, stream, configs, process, stage, container, look, present>>

\* __exit__ on the way out, with the exception or without.
ExitEvent_alwaysEnd == "end"
ExitEvent == IF batch_pc = "exited" THEN "failed" ELSE "end"

LeaveTimer ==
    /\ process = "running" /\ stage = "batch"
    /\ ~IsPrefix(timers, Due)
    /\ timers' = Front(timers)
    /\ log' = log \cup {Event(ExitEvent)}
    /\ UNCHANGED <<batch, stream, configs, process, stage, container, look, present>>

-----------------------------------------------------------------------------
(* The process.                                                            *)

Init ==
    /\ Batch!Init /\ Stream!Init
    /\ configs \in Configs
    /\ process = "killed" /\ stage = "batch"
    /\ timers = <<>> /\ log = {}
    /\ container = "none" /\ look = "none" /\ present = {}

\* The first path that exists; a PIPELINE_CONFIG without a file is passed over.
LoadedConfig ==
    LET found == {i \in 1 .. 3 : configs[i] # "absent"}
    IN  IF found = {} THEN "absent" ELSE configs[CHOOSE i \in found : \A j \in found : i <= j]

\* A container is started, new or the same one again.
Start(kind) ==
    /\ process # "running"
    /\ LoadedConfig # "absent"
    /\ Batch!Start
    /\ process' = "running" /\ stage' = "batch"
    /\ log' = {}
    /\ container' = IF container = "new" THEN "new" ELSE kind
    /\ look' = "none" /\ present' = dir
    /\ UNCHANGED <<stream, configs, timers>>

\* open() raises FileNotFoundError: nothing has been touched.
StartUnconfigured ==
    /\ process = "killed"
    /\ LoadedConfig = "absent"
    /\ process' = "exit 1"
    /\ UNCHANGED <<batch, stream, configs, stage, timers, log, container, look, present>>

\* The bound on errors is one for the whole process.
ErrorsBounded == batch_faults' + stream_faults' <= MaxFaults

BatchStep ==
    /\ process = "running" /\ stage = "batch"
    /\ timers = Due
    /\ Batch!Step
    /\ UNCHANGED <<stream, shell>>
    /\ ErrorsBounded

\* Inside a timer or between two of them.
BatchRaises ==
    /\ process = "running" /\ stage = "batch"
    /\ Batch!Raise
    /\ UNCHANGED <<stream, shell>>
    /\ ErrorsBounded

BatchDone_reportWritten == batch_pc \in {"contracts", "completed"}
BatchDone == batch_pc = "completed" /\ timers = <<>>

BatchFailed_insideTimers == batch_pc = "exited"
BatchFailed == batch_pc = "exited" /\ timers = <<>>

\* _stream_files_exist, then the loop, or no stage when the look finds no files
\* or raises: both are logged as pipeline.stream.skipped.
StreamStage ==
    /\ process = "running" /\ stage = "batch"
    /\ BatchDone
    /\ look' \in Stream!Looks
    /\ look' = "found" => LoadedConfig = "with_stream"
    /\ Stream!Start(container, look')
    /\ stage' = "stream" /\ container' = "none" /\ present' = dir
    /\ UNCHANGED <<batch, configs, process, timers, log>>
    /\ ErrorsBounded

\* Files in the default directory, but paths.stream is missing: KeyError.
StreamUnconfigured ==
    /\ process = "running" /\ stage = "batch"
    /\ BatchDone
    /\ LoadedConfig = "without_stream" /\ dir # {}
    /\ process' = "exit 1"
    /\ UNCHANGED <<batch, stream, configs, stage, timers, log, container, look, present>>

StreamStep ==
    /\ process = "running" /\ stage = "stream"
    /\ Stream!Step
    /\ UNCHANGED <<batch, shell>>

StreamRaises ==
    /\ process = "running" /\ stage = "stream"
    /\ Stream!Raise
    /\ UNCHANGED <<batch, shell>>
    /\ ErrorsBounded

\* sys.exit(0), or the except clause and sys.exit(1).
Exit ==
    /\ process = "running"
    /\ \/ /\ stage = "stream" /\ stream_pc = "done"
          /\ process' = "exit 0"
       \/ /\ \/ stage = "batch" /\ BatchFailed
             \/ stage = "stream" /\ stream_pc = "exited"
          /\ process' = "exit 1"
    /\ UNCHANGED <<batch, stream, configs, stage, timers, log, container, look, present>>

\* The memory of both components goes with the process.
Kill ==
    /\ process = "running"
    /\ process' = "killed"
    /\ timers' = <<>>
    /\ IF batch_pc \in Batch!Stopped THEN UNCHANGED batch ELSE Batch!Crash
    /\ IF stream_pc \in Stream!Stopped THEN UNCHANGED stream ELSE Stream!Crash
    /\ UNCHANGED <<configs, stage, log, container, look, present>>

\* The operator and the clock.
BatchEnvironment ==
    /\ Batch!ReplaceInput \/ Batch!Tick
    /\ UNCHANGED <<stream, shell>>

Arrive(f) ==
    /\ Stream!Arrive(f)
    /\ UNCHANGED <<batch, shell>>

-----------------------------------------------------------------------------
Step ==
    \/ EnterTimer \/ LeaveTimer \/ BatchStep \/ StreamStage \/ StreamUnconfigured
    \/ StreamStep \/ Exit

Next ==
    \/ Step \/ BatchRaises \/ StreamRaises \/ Kill \/ StartUnconfigured \/ BatchEnvironment
    \/ \E kind \in RestartKinds : Start(kind)
    \/ \E f \in Files : Arrive(f)

Spec == Init /\ [][Next]_vars

\* One thread that waits for nothing but its own sleep keeps going; nothing is
\* assumed of the operator, the producer, errors or restarts.
FairSpec == Spec /\ WF_vars(Step)
=============================================================================
