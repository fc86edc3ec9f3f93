---------------------------- MODULE StreamIngest ----------------------------
(***************************************************************************)
(* run_stream_ingestion (pipeline/stream_ingest.py): the polling loop that *)
(* feeds the JSONL files of /data/stream into the stream_gold tables, with *)
(* its retries, its two state files in /tmp, and the container being       *)
(* killed or run again around it.                                          *)
(*                                                                         *)
(* One action is one step between two points at which the program can stop *)
(* or raise: the commit of a Delta statement, the append to a state file,  *)
(* the glob, the sleep.  What survives a stop is on the data volume (the   *)
(* tables, the input files) or, if the same container is started again, in *)
(* /tmp; the rest is the memory of one process.                            *)
(*                                                                         *)
(* A definition named <Definition>_<fault> is a faulty variant of the one  *)
(* that follows it.  No action uses it: it stands for a mistake that the   *)
(* properties are meant to notice.                                         *)
(***************************************************************************)
EXTENDS StreamTables

CONSTANTS
    Inputs,         \* possible contents of the stream directory
    PreStaged,      \* the files already there when the container starts
    MAX_RETRIES,    \* as in the source
    QUIESCE_POLLS,  \* QUIESCE_SECONDS / POLL_INTERVAL_SECONDS
    RestartKinds,   \* how the container is run again: "same" keeps /tmp
    MaxFaults,      \* bound: transient errors of Spark, Delta and the disk
    MaxRuns         \* bound: process starts

ASSUME IngestAssumption ==
    /\ Inputs \subseteq [Files -> FileData]
    /\ PreStaged \subseteq Files
    /\ MAX_RETRIES \in Nat
    /\ QUIESCE_POLLS \in Nat \ {0}
    /\ RestartKinds \subseteq {"same", "new"}
    /\ MaxFaults \in Nat
    /\ MaxRuns \in Nat

VARIABLES
    inputs,           \* data volume: what each file contains
    dir,              \* data volume: the files present in the stream directory
    balances,         \* data volume: stream_gold/current_balances
    recents,          \* data volume: stream_gold/recent_transactions
    processed_state,  \* /tmp/stream_processed.txt
    failed_state,     \* /tmp/stream_failed.txt
    pc,               \* where the process is
    all_files,        \* memory: the last glob
    new_files,        \* memory: what the for loop has still to take
    processed,        \* memory: the processed set
    retry_counts,     \* memory: failed attempts of each file
    idle,             \* memory: poll intervals since last_activity
    runs, faults,     \* how much of the two bounds is used
    applied,          \* history: commits of each file's net deltas
    merged,           \* history: files whose rows were merged into recents
    failures          \* history: failed attempts of each file, over all runs

volume  == <<inputs, dir, balances, recents>>
tmp     == <<processed_state, failed_state>>
pass    == <<all_files, new_files, idle>>
memory  == <<pass, processed, retry_counts>>
bounds  == <<runs, faults>>
history == <<applied, merged, failures>>
vars    == <<volume, tmp, pc, memory, bounds, history>>

Stopped == {"stopped", "done", "exited"}
InFile  == {"balances", "recents", "retention", "record", "except", "gave_up"}
PCs     == Stopped \cup InFile \cup {"poll", "file", "sleep"}

Running == pc \notin Stopped

\* The loop takes the new files in name order.
Current_unsorted == Max(new_files)
Current == Min(new_files)

Batch == Events(inputs[Current])

\* A point at which Spark, Delta or the disk may raise.
Error == faults < MaxFaults /\ faults' = faults + 1
Fault == Error /\ UNCHANGED runs

-----------------------------------------------------------------------------
Init ==
    /\ inputs \in Inputs
    /\ dir = PreStaged
    /\ balances = [a \in Accounts |-> NoRow]
    /\ recents = {}
    /\ processed_state = {} /\ failed_state = {}
    /\ pc = "stopped"
    /\ all_files = {} /\ new_files = {} /\ processed = {}
    /\ retry_counts = [f \in Files |-> 0]
    /\ idle = 0
    /\ runs = 0 /\ faults = 0
    /\ applied = [f \in Files |-> 0]
    /\ merged = {}
    /\ failures = [f \in Files |-> 0]

\* A new container starts with an empty /tmp, whatever the volume holds.
KeptTmp(kind, state) == IF kind = "same" THEN state ELSE {}

\* What the one look of run_all at the directory comes to: any exception of it
\* counts as an empty directory.
Looks == {"found", "empty", "failed"}

\* A process reaches the stream stage. When the look finds files, run_stream_ingestion
\* loads its configuration, Spark and the processed set, or raises at that;
\* otherwise run_all skips the stage.
Start(kind, look) ==
    /\ pc \in Stopped /\ runs < MaxRuns
    /\ runs' = runs + 1
    /\ processed_state' = KeptTmp(kind, processed_state)
    /\ failed_state' = KeptTmp(kind, failed_state)
    /\ processed' = processed_state'
    /\ retry_counts' = [f \in Files |-> 0]
    /\ all_files' = {} /\ new_files' = {} /\ idle' = 0
    /\ \/ look = "found" /\ dir # {} /\ pc' = "poll" /\ UNCHANGED faults
       \/ look = "found" /\ dir # {} /\ pc' = "exited" /\ Error
       \/ look = "empty" /\ dir = {} /\ pc' = "done" /\ UNCHANGED faults
       \/ look = "failed" /\ pc' = "done" /\ Error
    /\ UNCHANGED <<volume, history>>

\* The process is killed: memory is gone, which Start makes visible.
Crash ==
    /\ Running
    /\ pc' = "stopped"
    /\ UNCHANGED <<volume, tmp, memory, bounds, history>>

\* A producer drops a further file into the directory.
Arrive(f) ==
    /\ f \notin dir
    /\ dir' = dir \cup {f}
    /\ UNCHANGED <<inputs, balances, recents, tmp, pc, memory, bounds, history>>

-----------------------------------------------------------------------------
(* The polling loop.                                                       *)

NewFiles_all == dir
NewFiles == dir \ processed

\* The idle time is looked at only when there is nothing new.
Quiet_checkedFirst == idle >= QUIESCE_POLLS
Quiet == new_files' = {} /\ idle >= QUIESCE_POLLS

Poll ==
    /\ pc = "poll"
    /\ all_files' = dir
    /\ new_files' = NewFiles
    /\ pc' = IF Quiet THEN "done" ELSE IF new_files' = {} THEN "sleep" ELSE "file"
    /\ UNCHANGED <<volume, tmp, processed, retry_counts, idle, bounds, history>>

\* The glob of the loop is in no try: what it raises ends the process.
PollRaises ==
    /\ pc = "poll"
    /\ Fault
    /\ pc' = "exited"
    /\ UNCHANGED <<volume, tmp, memory, history>>

EndOfPass ==
    /\ pc = "file" /\ new_files = {}
    /\ idle' = 0
    /\ pc' = "sleep"
    /\ UNCHANGED <<volume, tmp, all_files, new_files, processed, retry_counts,
                   bounds, history>>

Slept_activityRefreshed == 0
Slept == idle + 1

Sleep ==
    /\ pc = "sleep"
    /\ idle' = Slept
    /\ pc' = "poll"
    /\ UNCHANGED <<volume, tmp, all_files, new_files, processed, retry_counts,
                   bounds, history>>

-----------------------------------------------------------------------------
(* process_file on the first remaining file.                               *)

HasColumns(needed) == needed \subseteq inputs[Current].columns

ParseStreamEvents ==
    /\ pc = "file" /\ new_files # {}
    /\ pc' = IF HasColumns(ParseColumns) THEN "balances" ELSE "except"
    /\ UNCHANGED <<volume, tmp, memory, bounds, history>>

UpsertCurrentBalances ==
    /\ pc = "balances"
    /\ \/ /\ HasColumns(BalanceColumns)
          /\ balances' = MergeBalances(balances, Batch)
          /\ applied' = [applied EXCEPT ![Current] = @ + 1]
          /\ pc' = "recents"
       \/ /\ ~HasColumns(BalanceColumns)
          /\ pc' = "except"
          /\ UNCHANGED <<balances, applied>>
    /\ UNCHANGED <<inputs, dir, recents, tmp, memory, bounds, merged, failures>>

UpsertRecentTransactions ==
    /\ pc = "recents"
    /\ \/ /\ HasColumns(RecentColumns)
          /\ ~AmbiguousMerge(recents, Batch)
          /\ recents' = MergeRecent(recents, Current, Batch)
          /\ merged' = merged \cup {Current}
          /\ pc' = "retention"
       \/ /\ ~HasColumns(RecentColumns) \/ AmbiguousMerge(recents, Batch)
          /\ pc' = "except"
          /\ UNCHANGED <<recents, merged>>
    /\ UNCHANGED <<inputs, dir, balances, tmp, memory, bounds, applied, failures>>

\* The delete is skipped when no row is past the limit.
Retention ==
    /\ pc = "retention"
    /\ \E D \in SUBSET recents :
          /\ PastLimit(recents, D)
          /\ recents' = DeleteKeys(recents, D)
    /\ pc' = "record"
    /\ UNCHANGED <<inputs, dir, balances, tmp, memory, bounds, history>>

\* A statement of process_file raises before it commits, or after the last commit.
StatementRaises ==
    /\ \/ pc \in {"balances", "recents", "retention", "record"}
       \/ pc = "file" /\ new_files # {}
    /\ Fault
    /\ pc' = "except"
    /\ UNCHANGED <<volume, tmp, memory, history>>

\* The for loop goes on to the next file.
NextFile ==
    /\ new_files' = new_files \ {Current}
    /\ pc' = "file"
    /\ UNCHANGED <<all_files, idle>>

\* The file is done: the in-memory set first, then the state file.
RecordProcessed ==
    /\ pc = "record"
    /\ processed' = processed \cup {Current}
    /\ processed_state' = processed_state \cup {Current}
    /\ retry_counts' = [retry_counts EXCEPT ![Current] = 0]
    /\ NextFile
    /\ UNCHANGED <<volume, failed_state, bounds, history>>

\* The append to the state file raises; the in-memory set keeps the name.
RecordProcessedRaises ==
    /\ pc = "record"
    /\ Fault
    /\ processed' = processed \cup {Current}
    /\ pc' = "except"
    /\ UNCHANGED <<volume, tmp, pass, retry_counts, history>>

-----------------------------------------------------------------------------
(* The except clause.                                                      *)

Attempts == retry_counts[Current] + 1

Exhausted_never == FALSE
Exhausted_tooEarly == Attempts >= MAX_RETRIES
Exhausted == Attempts > MAX_RETRIES

CountAttempt_forgotten ==
    /\ failures' = [failures EXCEPT ![Current] = @ + 1]
    /\ UNCHANGED retry_counts
CountAttempt ==
    /\ retry_counts' = [retry_counts EXCEPT ![Current] = Attempts]
    /\ failures' = [failures EXCEPT ![Current] = @ + 1]

\* Left out of the processed set, the file is new again at the next poll.
RetryLater ==
    /\ pc = "except" /\ ~Exhausted
    /\ CountAttempt
    /\ NextFile
    /\ UNCHANGED <<volume, tmp, processed, bounds, applied, merged>>

GiveUp ==
    /\ pc = "except" /\ Exhausted
    /\ CountAttempt
    /\ processed' = processed \cup {Current}
    /\ processed_state' = processed_state \cup {Current}
    /\ pc' = "gave_up"
    /\ UNCHANGED <<volume, failed_state, pass, bounds, applied, merged>>

RecordFailed_unwritten ==
    /\ pc = "gave_up"
    /\ NextFile
    /\ UNCHANGED <<volume, tmp, processed, retry_counts, bounds, history>>
RecordFailed ==
    /\ pc = "gave_up"
    /\ failed_state' = failed_state \cup {Current}
    /\ NextFile
    /\ UNCHANGED <<volume, processed_state, processed, retry_counts, bounds, history>>

\* An append that raises inside the except clause leaves the loop: run_all
\* logs pipeline.failed and exits 1.
HandlerRaises ==
    /\ \/ /\ pc = "except" /\ Exhausted
          /\ CountAttempt
          /\ processed' = processed \cup {Current}
       \/ /\ pc = "gave_up"
          /\ UNCHANGED <<processed, retry_counts, failures>>
    /\ Fault
    /\ pc' = "exited"
    /\ UNCHANGED <<volume, tmp, pass, applied, merged>>

-----------------------------------------------------------------------------
Step ==
    \/ Poll \/ EndOfPass \/ Sleep
    \/ ParseStreamEvents \/ UpsertCurrentBalances \/ UpsertRecentTransactions
    \/ Retention \/ RecordProcessed
    \/ RetryLater \/ GiveUp \/ RecordFailed

Raise == PollRaises \/ StatementRaises \/ RecordProcessedRaises \/ HandlerRaises

Next ==
    \/ Step \/ Raise \/ Crash
    \/ \E kind \in RestartKinds, look \in Looks : Start(kind, look)
    \/ \E f \in Files : Arrive(f)

Spec == Init /\ [][Next]_vars

\* The process is one thread that never waits for another: it keeps going.
\* Nothing says that it is started again, that files arrive, or that it fails.
FairSpec == Spec /\ WF_vars(Step)
=============================================================================
