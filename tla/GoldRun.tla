------------------------------- MODULE GoldRun -------------------------------
(***************************************************************************)
(* What the batch stages promise of gold, with the bronze and silver       *)
(* tables, the nine commits, errors, kills and reruns left out: a run that *)
(* writes all of gold is a single step, and its tables are ones that its   *)
(* input alone allows.  Nothing an earlier run left on the volume shows.   *)
(***************************************************************************)
CONSTANTS
    Inputs,        \* possible contents of /data/input
    Allowed(_, _)  \* the gold tables an input may give

VARIABLES
    input,         \* data volume: the input
    outcomes       \* history: [input, gold] of the runs so far

Init == input \in Inputs /\ outcomes = {}

Run ==
    /\ \E o \in outcomes' :
          /\ o.input = input /\ Allowed(o.input, o.gold)
          /\ outcomes' = outcomes \cup {o}
    /\ UNCHANGED input

ReplaceInput ==
    /\ input' \in Inputs \ {input}
    /\ UNCHANGED outcomes

Spec == Init /\ [][Run \/ ReplaceInput]_<<input, outcomes>>
=============================================================================
