-------------------------- MODULE StreamProperties --------------------------
(***************************************************************************)
(* What the streaming stage promises, over the states of StreamIngest.     *)
(***************************************************************************)
EXTENDS StreamIngest

LoopTyped ==
    /\ dir \subseteq Files
    /\ processed_state \subseteq Files /\ failed_state \subseteq Files
    /\ pc \in PCs
    /\ all_files \subseteq Files /\ new_files \subseteq all_files
    /\ pc \in InFile => new_files # {}
    /\ processed \subseteq Files
    /\ retry_counts \in [Files -> 0 .. MAX_RETRIES + 1]
    /\ idle \in 0 .. QUIESCE_POLLS
    /\ runs \in 0 .. MaxRuns /\ faults \in 0 .. MaxFaults
    /\ applied \in [Files -> Nat] /\ failures \in [Files -> Nat]
    /\ merged \subseteq Files

TablesTyped ==
    /\ inputs \in [Files -> FileData]
    /\ balances \in [Accounts -> BalanceRow \cup {NoRow}]
    /\ recents \subseteq RecentRow

\* The type invariant: every variable keeps the shape the code gives it, and
\* between the glob and the end of a pass the loop always has a current file.
TypeOK == LoopTyped /\ TablesTyped

-----------------------------------------------------------------------------
(* What the loop does to a file, whatever fails and whenever it is killed. *)

\* A file's deltas are added at most once per process start, plus once for
\* each attempt that failed: without failures and restarts, exactly once.
ExtraApplicationsExplained ==
    \A f \in Files : applied[f] <= runs + failures[f]

\* The loop never attempts one file more than MAX_RETRIES + 1 times per
\* process start.
RetriesStop ==
    \A f \in Files : failures[f] <= runs * (MAX_RETRIES + 1)

\* A file is skipped as processed only when both tables have taken it, or
\* after MAX_RETRIES + 1 failed attempts: no crash or error makes the loop
\* forget a file it has not dealt with.
SkippedOnlyForCause ==
    \A f \in processed \cup processed_state :
        \/ f \in merged /\ applied[f] > 0
        \/ failures[f] > MAX_RETRIES

\* Files are taken in name order: one that is overtaken by a later name
\* within a pass has failed in this process.
OvertakenOnlyAfterFailure ==
    pc \in InFile =>
        \A f \in all_files : f < Current => f \in processed \/ retry_counts[f] > 0

\* When the loop quiesces, every file it has seen is in both tables or named
\* in /tmp/stream_failed.txt.
QuiescedIsAccounted ==
    pc = "done" => \A f \in all_files : f \in merged \/ f \in failed_state

\* The loop implements the feed of MicroBatchFeed.
Feed == INSTANCE MicroBatchFeed
            WITH effect <- applied, settled <- processed, strikes <- retry_counts

FeedContract == Feed!Spec

-----------------------------------------------------------------------------
(* Why: an inductive invariant of the loop.                                *)

\* The files still to take are not processed, except that a failed append to
\* the state file leaves the current one so; an unprocessed one has tries left
\* and the loop sleeps only while it is not quiet.
MemoryInv ==
    /\ processed_state \subseteq processed
    /\ pc \in {"poll", "sleep"} => new_files = {}
    /\ Running /\ pc \notin {"except", "gave_up"} => new_files \cap processed = {}
    /\ pc \in {"except", "gave_up"} => new_files \cap processed \subseteq {Current}
    /\ pc = "gave_up" => Current \in processed
    /\ \A f \in Files \ processed : retry_counts[f] <= MAX_RETRIES
    /\ pc = "except" => retry_counts[Current] <= MAX_RETRIES
    /\ pc = "sleep" => idle < QUIESCE_POLLS

\* What a processed file, and each step on the way there, stands on.
EvidenceInv ==
    /\ \A f \in processed : f \in merged \/ failures[f] > MAX_RETRIES
    /\ \A f \in merged : applied[f] > 0
    /\ \A f \in Files : retry_counts[f] <= failures[f]
    /\ pc = "recents" => applied[Current] > 0
    /\ pc \in {"retention", "record"} => Current \in merged

\* A file that may yet be applied, or fail, has room left under its bound.
TallyInv ==
    /\ \A f \in Files : applied[f] <= runs + failures[f]
    /\ Running =>
         \A f \in Files \ processed :
             \/ applied[f] < runs + failures[f]
             \/ pc \in {"recents", "retention", "record", "except"} /\ f = Current
    /\ \A f \in Files : failures[f] <= runs * (MAX_RETRIES + 1)
    /\ Running =>
         \A f \in Files :
             f \notin processed \/ (pc = "except" /\ f = Current) =>
                 failures[f] <= (runs - 1) * (MAX_RETRIES + 1) + retry_counts[f]

\* A file the pass has left behind was processed or has failed.
OrderInv ==
    Running => \A f \in all_files \ new_files : f \in processed \/ retry_counts[f] > 0

\* Every step keeps this, from any state, and the four properties above
\* follow from it: the loop's bookkeeping is consistent whenever it is killed.
LoopInv == LoopTyped /\ MemoryInv /\ EvidenceInv /\ TallyInv /\ OrderInv

-----------------------------------------------------------------------------
(* What the two tables hold.                                               *)

\* The docstring's sign convention; a line without a type is an outflow.
Inflow(e) == IF e.transaction_type \in {"DEBIT", "FEE", NULL} THEN -e.amount ELSE e.amount
Volume(e) == IF e.amount < 0 THEN -e.amount ELSE e.amount

\* Every committed batch counts once for each time it was committed.
Ledger(Value(_), a) ==
    MapThenSumSet(LAMBDA f : applied[f] * MapThenSumSet(Value, Counted(Events(inputs[f]), a)),
                  Files)

\* The events of an account that the applied batches contain.
AppliedEvents(a) ==
    UNION {Counted(Events(inputs[f]), a) : f \in {g \in Files : applied[g] > 0}}

\* current_balances is the ledger of committed batches: an account has a row
\* exactly when some batch counted it, and the row's balance is the ledger's
\* sum; DECIMAL overflow can only turn it into NULL, never into another number.
BalanceIsLedger ==
    \A a \in Accounts :
        /\ balances[a] = NoRow <=> AppliedEvents(a) = {}
        /\ balances[a] # NoRow =>
             \/ balances[a].current_balance = Ledger(Inflow, a)
             \/ balances[a].current_balance = NULL /\ Ledger(Volume, a) > DecMax

AppliedTs(a) == {e.transaction_timestamp : e \in AppliedEvents(a)} \ {NULL}

\* last_transaction_timestamp, once it is set, is the newest timestamp of the
\* applied events, in whatever order and however often batches were applied.
LastTsIsNewest ==
    \A a \in Accounts :
        balances[a] # NoRow /\ balances[a].last_transaction_timestamp # NULL =>
            balances[a].last_transaction_timestamp = Max(AppliedTs(a))

Keyed(e) == e.account_id # NULL /\ e.transaction_id # NULL

\* Transactions that always come with the same content, once per file.
ImmutableTransactions ==
    \A f, g \in Files : \A e1 \in Events(inputs[f]), e2 \in Events(inputs[g]) :
        /\ Keyed(e1)
        /\ SameKey(e1, e2) => e1 = e2

MergedEvents(a) ==
    UNION {{e \in Events(inputs[f]) : e.account_id = a} : f \in merged}

\* After the retention pass recent_transactions holds, for each account, one
\* row for each of the MAX_RECENT newest transactions of all merged batches:
\* trimming batch by batch, with retries and restarts in between, is as good
\* as trimming once.
RecentIsNewest ==
    pc = "record" /\ ImmutableTransactions =>
        \A a \in Accounts :
            LET kept == {r.event : r \in OfAccount(recents, a)}
                all  == MergedEvents(a)
            IN  /\ kept \subseteq all
                /\ Cardinality(OfAccount(recents, a)) = Cardinality(kept)
                /\ Cardinality(kept) = Min({MAX_RECENT, Cardinality(all)})
                /\ \A k \in kept, e \in all \ kept :
                       k.transaction_timestamp = NULL => e.transaction_timestamp = NULL
                /\ \A k \in kept, e \in all \ kept :
                       {k.transaction_timestamp, e.transaction_timestamp} \subseteq Times =>
                           k.transaction_timestamp >= e.transaction_timestamp

\* Whatever the lines look like, after the retention pass an account has at
\* most MAX_RECENT rows that carry a transaction_id.
KeyedRowsBounded ==
    pc = "record" =>
        \A a \in Accounts :
            Cardinality({r \in OfAccount(recents, a) : Keyed(r.event)}) <= MAX_RECENT

-----------------------------------------------------------------------------
(* Liveness, under FairSpec.                                               *)

\* Every pass ends and the loop quiesces (or the process is stopped): a bad
\* file cannot keep it busy for ever.
Quiesces == pc = "poll" ~> pc \in Stopped

\* A file that is in the directory at a poll is settled before the loop ends
\* by itself; only a kill or an error outside the try, in the glob or in the
\* except clause, can prevent it.
SeenIsSettled ==
    \A f \in Files :
        (pc = "poll" /\ f \in dir) ~> (f \in processed \/ pc \in {"stopped", "exited"})

-----------------------------------------------------------------------------
(* What the repository says of this stage, and the code does not do.       *)

\* README.md "Idempotent writes - Delta MERGE INTO for streaming": a file's
\* deltas are never added twice.
IdempotentFeed == \A f \in Files : applied[f] <= 1

\* README.md, current_balances: last_transaction_timestamp is the "Newest
\* event seen".
NewestEventSeen ==
    \A a \in Accounts :
        AppliedTs(a) # {} => balances[a].last_transaction_timestamp = Max(AppliedTs(a))
=============================================================================
