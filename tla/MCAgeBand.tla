------------------------------ MODULE MCAgeBand ------------------------------
(***************************************************************************)
(* A small instance of AgeBand for TLC: everyone born in four years, one   *)
(* of them a leap year, around the birthdays on which a band begins.       *)
(***************************************************************************)
EXTENDS AgeBand

Yesterday(d) ==
    IF d.place = 0 THEN [year |-> d.year - 1, place |-> 365]
    ELSE IF d.place = Feb29 + 1 /\ ~Leap(d.year) THEN [d EXCEPT !.place = Feb29 - 1]
    ELSE [d EXCEPT !.place = @ - 1]

Born(years) == {d \in [year : years, place : 0 .. 365] : d.place = Feb29 => Leap(d.year)}

Birthday(birth, n) ==
    LET y == birth.year + n
    IN  [year  |-> y,
         place |-> IF birth.place = Feb29 /\ ~Leap(y) THEN Feb29 + 1 ELSE birth.place]

MCCases ==
    {[dob |-> b, today |-> Yesterday(Birthday(b, n))] :
        b \in Born(1959 .. 1962), n \in {18, 26, 36, 46, 56, 65}}
    \cup {[dob |-> NULL, today |-> [year |-> 2026, place |-> 0]]}
=============================================================================
