---------------------------- MODULE MicroBatchFeed ----------------------------
(***************************************************************************)
(* What the streaming stage promises of each micro-batch file, with the    *)
(* tables, the state files and the loop left out: an at-least-once feed    *)
(* into two tables.  A settled file is not touched again until settled     *)
(* files are forgotten; a file is settled once it is in both tables, or    *)
(* after MAX_RETRIES + 1 strikes; it is never in the second table without  *)
(* being in the first.  How often it is in the first is not limited:       *)
(* nothing ties the commit of a table to the strike or the settling.       *)
(***************************************************************************)
EXTENDS Naturals

CONSTANTS Files, MAX_RETRIES

VARIABLES
    effect,   \* how often the file's deltas were added to current_balances
    merged,   \* the files that reached recent_transactions
    settled,  \* the files that are skipped
    strikes   \* failed attempts since settled files were last forgotten

vars == <<effect, merged, settled, strikes>>

Init ==
    /\ effect = [f \in Files |-> 0]
    /\ merged = {} /\ settled = {}
    /\ strikes = [f \in Files |-> 0]

Apply(f) ==
    /\ f \notin settled
    /\ effect' = [effect EXCEPT ![f] = @ + 1]
    /\ UNCHANGED <<merged, settled, strikes>>

Merge(f) ==
    /\ f \notin settled /\ effect[f] > 0
    /\ merged' = merged \cup {f}
    /\ UNCHANGED <<effect, settled, strikes>>

Settle(f) ==
    /\ f \in merged
    /\ settled' = settled \cup {f}
    /\ strikes' \in {strikes, [strikes EXCEPT ![f] = 0]}
    /\ UNCHANGED <<effect, merged>>

Strike(f) ==
    /\ strikes[f] < MAX_RETRIES
    /\ strikes' = [strikes EXCEPT ![f] = @ + 1]
    /\ UNCHANGED <<effect, merged, settled>>

GiveUp(f) ==
    /\ strikes[f] = MAX_RETRIES
    /\ strikes' = [strikes EXCEPT ![f] = @ + 1]
    /\ settled' = settled \cup {f}
    /\ UNCHANGED <<effect, merged>>

\* A rerun: it may remember some of the settled files, and no strikes.
Forget ==
    /\ settled' \subseteq settled
    /\ strikes' = [f \in Files |-> 0]
    /\ UNCHANGED <<effect, merged>>

Next ==
    \/ \E f \in Files : Apply(f) \/ Merge(f) \/ Settle(f) \/ Strike(f) \/ GiveUp(f)
    \/ Forget

Spec == Init /\ [][Next]_vars
=============================================================================
