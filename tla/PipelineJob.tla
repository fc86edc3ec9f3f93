----------------------------- MODULE PipelineJob -----------------------------
(***************************************************************************)
(* What the pipeline promises to whoever starts its container and reads    *)
(* the exit code, with the stages, timers, configuration and state files   *)
(* left out: a run publishes whole gold tables of its input in one step    *)
(* (GoldRun), then verifies their contracts, and only then feeds stream    *)
(* files (MicroBatchFeed), which takes nothing of the gold tables back.    *)
(* Between, it looks once whether there are files.  It succeeds only after *)
(* all that, with every file dealt with that was there at the look, unless *)
(* the look failed: that is not told from finding none.  At any moment it  *)
(* may break or be killed; then nothing is promised of the gold tables     *)
(* unless they had been verified.                                          *)
(***************************************************************************)
EXTENDS Naturals

CONSTANTS
    Inputs,        \* possible contents of /data/input
    Allowed(_, _), \* the gold tables an input may give
    Kept(_),       \* gold tables that keep the contracts
    Files, MAX_RETRIES,
    Unknown        \* no gold tables that a reader could rely on

VARIABLES
    process,   \* running, or how it ended
    phase,     \* how far the gold tables of the last process have come
    tables,    \* the gold tables it vouches for
    input, outcomes,                  \* of GoldRun
    effect, merged, settled, strikes, \* of MicroBatchFeed
    arrived,   \* the stream files there are
    look,      \* what the look at them came to
    owed       \* the stream files there were at the look, or when the process began

Runs == INSTANCE GoldRun
Feed == INSTANCE MicroBatchFeed

runs == <<input, outcomes>>
feed == <<effect, merged, settled, strikes>>
files == <<arrived, look, owed>>
vars == <<process, phase, tables, runs, feed, files>>

Init ==
    /\ Runs!Init /\ Feed!Init
    /\ process = "killed" /\ phase = "broken" /\ tables = Unknown
    /\ arrived \subseteq Files /\ look = "none" /\ owed = {}

Begin ==
    /\ process # "running" /\ process' = "running"
    /\ phase' = "writing" /\ tables' = Unknown
    /\ look' = "none" /\ owed' = arrived
    /\ UNCHANGED <<runs, feed, arrived>>

Publish ==
    /\ process = "running"
    /\ phase = "writing" /\ phase' = "whole"
    /\ Runs!Run
    /\ outcomes' = outcomes \cup {[input |-> input, gold |-> tables']}
    /\ UNCHANGED <<process, feed, files>>

Verify ==
    /\ process = "running"
    /\ phase = "whole" /\ phase' = "verified"
    /\ Kept(tables)
    /\ UNCHANGED <<process, tables, runs, feed, files>>

\* Nothing is delivered yet, but a rerun may have forgotten what was settled.
Look ==
    /\ process = "running" /\ phase = "verified" /\ look = "none"
    /\ owed' = arrived
    /\ \/ look' = "found" /\ arrived # {}
       \/ look' = "empty" /\ arrived = {}
       \/ look' = "failed"
    /\ Feed!Forget
    /\ UNCHANGED <<process, phase, tables, runs, arrived>>

Deliver ==
    /\ process = "running" /\ phase = "verified" /\ look = "found"
    /\ Feed!Next
    /\ UNCHANGED <<process, phase, tables, runs, files>>

Succeed ==
    /\ process = "running" /\ process' = "exit 0"
    /\ phase = "verified"
    /\ look = "failed" \/ (look # "none" /\ owed \subseteq settled)
    /\ UNCHANGED <<phase, tables, runs, feed, files>>

\* What has not been verified is not vouched for any more.
Lose ==
    IF phase = "verified" THEN UNCHANGED <<phase, tables>>
    ELSE phase' = "broken" /\ tables' = Unknown

Break ==
    /\ process = "running" /\ phase # "verified"
    /\ Lose
    /\ UNCHANGED <<process, runs, feed, files>>

Kill ==
    /\ process = "running" /\ process' = "killed"
    /\ Lose
    /\ UNCHANGED <<runs, feed, files>>

\* Also without having begun.
Fail ==
    /\ process \in {"running", "killed"} /\ process' = "exit 1"
    /\ phase \in {"broken", "verified"}
    /\ UNCHANGED <<phase, tables, runs, feed, files>>

\* Not under the stages that read it.
ReplaceInput ==
    /\ phase \in {"broken", "verified"}
    /\ Runs!ReplaceInput
    /\ UNCHANGED <<process, phase, tables, feed, files>>

Arrive ==
    /\ \E f \in Files \ arrived : arrived' = arrived \cup {f}
    /\ UNCHANGED <<process, phase, tables, runs, feed, look, owed>>

Next ==
    \/ Begin \/ Publish \/ Verify \/ Look \/ Deliver \/ Succeed \/ Break \/ Kill \/ Fail
    \/ ReplaceInput \/ Arrive

Spec == Init /\ [][Next]_vars
=============================================================================
