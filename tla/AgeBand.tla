------------------------------- MODULE AgeBand -------------------------------
(***************************************************************************)
(* The age_band column of dim_customers: derive_age_band turns the days    *)
(* between dob and the run date into years by a division by 365.25, while  *)
(* a customer's age rises on birthdays of the Gregorian calendar.          *)
(*                                                                         *)
(* One customer, whose row is rebuilt by a run on any of some days.        *)
(* A definition named <Definition>_<fault> is a faulty variant of the one  *)
(* that follows it, used by no action.                                     *)
(***************************************************************************)
EXTENDS Integers

CONSTANTS
    FirstYear, LastYear, \* the years of all dates
    NULL,                \* SQL NULL
    NotBuilt,            \* the customer is in no gold table yet
    Cases,               \* pairs of a dob and the day of a first run
    MaxDays              \* bound: days that pass

Bands == {"18-25", "26-35", "36-45", "46-55", "56-65", "65+"}

\* 1900 and 2100 have no leap day; between them every fourth year has one.
ASSUME YearsAssumption ==
    /\ FirstYear \in 1901 .. 2099 /\ LastYear \in 1901 .. 2099
    /\ {NULL, NotBuilt} \cap (Bands \cup [year : Int, place : Int]) = {}
    /\ NULL # NotBuilt

Leap(y) == y % 4 = 0 /\ (y % 100 # 0 \/ y % 400 = 0)

\* place is the place of the month and the day in a leap year, from 0: it
\* compares as (month, day) does.
Feb29 == 59
Date  == {d \in [year : FirstYear .. LastYear, place : 0 .. 365] :
             d.place = Feb29 => Leap(d.year)}

ASSUME CasesAssumption ==
    /\ Cases \subseteq [dob : Date \cup {NULL}, today : Date]
    /\ MaxDays \in Nat

-----------------------------------------------------------------------------
(* The calendar.                                                           *)

Jan1(y) == 365 * y + (y - 1) \div 4 - (y - 1) \div 100 + (y - 1) \div 400

DayNumber(d) ==
    Jan1(d.year) + (IF d.place > Feb29 /\ ~Leap(d.year) THEN d.place - 1 ELSE d.place)

DateDiff(end, start) == DayNumber(end) - DayNumber(start)

Tomorrow(d) ==
    IF d.place = 365 THEN [year |-> d.year + 1, place |-> 0]
    ELSE IF d.place = Feb29 - 1 /\ ~Leap(d.year) THEN [d EXCEPT !.place = Feb29 + 1]
    ELSE [d EXCEPT !.place = @ + 1]

-----------------------------------------------------------------------------
(* derive_age_band.                                                        *)

\* floor(days / 365.25)
Age_commonYears(dob, run_date) == DateDiff(run_date, dob) \div 365
Age(dob, run_date) == (4 * DateDiff(run_date, dob)) \div 1461

BandOf_gapAt65(age) ==
    IF age > 65 THEN "65+"
    ELSE IF age \in 56 .. 64 THEN "56-65"
    ELSE NULL
BandOf(age) ==
    IF age >= 65 THEN "65+"
    ELSE IF age >= 56 THEN "56-65"
    ELSE IF age >= 46 THEN "46-55"
    ELSE IF age >= 36 THEN "36-45"
    ELSE IF age >= 26 THEN "26-35"
    ELSE IF age >= 18 THEN "18-25"
    ELSE NULL

DeriveAgeBand_nullIsAdult(dob, run_date) ==
    IF dob = NULL THEN "65+" ELSE BandOf(Age(dob, run_date))
DeriveAgeBand(dob, run_date) == IF dob = NULL THEN NULL ELSE BandOf(Age(dob, run_date))

-----------------------------------------------------------------------------
VARIABLES
    dob,      \* data volume: the date of birth in silver customers
    age_band, \* data volume: the column of dim_customers
    as_of,    \* history: the run date of that row
    today,    \* the clock
    passed    \* how much of the bound is used

vars == <<dob, age_band, as_of, today, passed>>

Init ==
    /\ \E c \in Cases : dob = c.dob /\ today = c.today
    /\ age_band = NotBuilt /\ as_of = NotBuilt
    /\ passed = 0

\* A run on this day overwrites dim_customers.
BuildDimCustomers ==
    /\ age_band' = DeriveAgeBand(dob, today)
    /\ as_of' = today
    /\ UNCHANGED <<dob, today, passed>>

NextDay ==
    /\ passed < MaxDays /\ passed' = passed + 1
    /\ today' = Tomorrow(today)
    /\ today' \in Date
    /\ UNCHANGED <<dob, age_band, as_of>>

Next == BuildDimCustomers \/ NextDay

Spec == Init /\ [][Next]_vars

-----------------------------------------------------------------------------
(* The age of a person, and what the column says of it.                    *)

\* Completed years; who is born on a 29 February completes one on 1 March of a
\* common year.
TrueAge(birth, on) ==
    on.year - birth.year - (IF on.place < birth.place THEN 1 ELSE 0)

\* The first day of a further year.
IsBirthday(birth, on) ==
    on.place = birth.place \/ (birth.place = Feb29 /\ ~Leap(on.year) /\ on.place = Feb29 + 1)

Built == as_of # NotBuilt /\ dob # NULL /\ DayNumber(dob) <= DayNumber(as_of)

LowerLimit(band) ==
    CASE band = "18-25" -> 18 [] band = "26-35" -> 26 [] band = "36-45" -> 36
      [] band = "46-55" -> 46 [] band = "56-65" -> 56 [] band = "65+"   -> 65
      [] OTHER -> 0

\* The type invariant: the column holds one of the six bands or NULL, and a
\* customer without a date of birth has no band.
TypeOK ==
    /\ dob \in Date \cup {NULL} /\ today \in Date
    /\ age_band = NotBuilt <=> as_of = NotBuilt
    /\ age_band \in Bands \cup {NULL, NotBuilt} /\ as_of \in Date \cup {NotBuilt}
    /\ dob = NULL => age_band \in {NULL, NotBuilt}
    /\ passed \in 0 .. MaxDays

\* The division by 365.25 never puts a customer in a band before the birthday
\* that begins it.
NeverTooOld == Built => LowerLimit(age_band) <= TrueAge(dob, as_of)

\* It keeps a customer back by at most one day: when the band is not that of the
\* customer's age, the run was on the birthday itself.
LateOnlyOnBirthday ==
    Built /\ age_band # BandOf(TrueAge(dob, as_of)) => IsBirthday(dob, as_of)

\* Over the days a customer only moves up: no later run takes a band back.
BandsNeverFall ==
    [][Built /\ Built' => LowerLimit(age_band) <= LowerLimit(age_band')]_vars
=============================================================================
