---------------------------- MODULE AgeBandProofs ----------------------------
(***************************************************************************)
(* Theorems about AgeBand, for all dates of the years 1901 to 2099: a row  *)
(* holds the band of the age that derive_age_band computes for its run     *)
(* date (AgeInv), and that age is the true one but on birthdays.           *)
(***************************************************************************)
EXTENDS AgeBand, TLAPS

-----------------------------------------------------------------------------
(* The calendar.                                                           *)

\* In these years every fourth year is a leap year.
LEMMA LeapRule ==
    ASSUME NEW y \in 1901 .. 2099
    PROVE  Leap(y) <=> y % 4 = 0
BY SMT DEF Leap

\* The first of January of a year, in quarters of a day: 1461 of them a year,
\* and up to three more in the years after a leap year.
Quarters(y) ==
    /\ Jan1(y) \in Int
    /\ Leap(y) => 4 * Jan1(y) = 1461 * y - 64
    /\ ~Leap(y) => 4 * Jan1(y) >= 1461 * y - 63 /\ 4 * Jan1(y) <= 1461 * y - 61

LEMMA QuartersOfYears ==
    ASSUME NEW y \in 1901 .. 2099
    PROVE  Quarters(y)
BY LeapRule, SMT DEF Jan1, Quarters

\* The days of a year before d.
Place(d) == IF d.place > Feb29 /\ ~Leap(d.year) THEN d.place - 1 ELSE d.place

\* What is used of a date: its number, made of its year and its place.
LEMMA DateParts ==
    ASSUME NEW d \in Date
    PROVE  /\ d.year \in Int /\ d.place \in 0 .. 365 /\ Place(d) \in Int
           /\ Jan1(d.year) \in Int
           /\ DayNumber(d) = Jan1(d.year) + Place(d)
           /\ \/ /\ 4 * Jan1(d.year) = 1461 * d.year - 64
                 /\ Place(d) = d.place
              \/ /\ 4 * Jan1(d.year) >= 1461 * d.year - 63
                 /\ 4 * Jan1(d.year) <= 1461 * d.year - 61
                 /\ (d.place < 59 /\ Place(d) = d.place) \/ (d.place > 59 /\ Place(d) = d.place - 1)
<1>1. d.year \in 1901 .. 2099 /\ d.place \in 0 .. 365 /\ (d.place = 59 => Leap(d.year))
  BY YearsAssumption, SMT DEF Date, Feb29
<1>2. Quarters(d.year)
  BY <1>1, QuartersOfYears
<1>3. DayNumber(d) = Jan1(d.year) + Place(d)
  BY DEF DayNumber, Place
<1>4. CASE Leap(d.year)
  <2>1. 4 * Jan1(d.year) = 1461 * d.year - 64
    BY <1>2, <1>4 DEF Quarters
  <2>2. Place(d) = d.place
    BY <1>4 DEF Place
  <2>3. d.year \in Int /\ Place(d) \in Int
    BY <1>1, <2>2, SMT
  <2> HIDE <1>4
  <2>4. Jan1(d.year) \in Int
    BY <1>2 DEF Quarters
  <2> QED  BY <1>1, <1>3, <2>4, <2>1, <2>2, <2>3
<1>5. CASE ~Leap(d.year)
  <2>1. 4 * Jan1(d.year) >= 1461 * d.year - 63
    BY <1>2, <1>5 DEF Quarters
  <2>2. 4 * Jan1(d.year) <= 1461 * d.year - 61
    BY <1>2, <1>5 DEF Quarters
  <2>3. d.place \in 0 .. 365 /\ d.place # 59
    BY <1>1, <1>5
  <2>4. Place(d) = IF d.place > 59 THEN d.place - 1 ELSE d.place
    BY <1>5 DEF Place, Feb29
  <2>5. Place(d) \in Int
    BY <2>3, <2>4, SMT
  <2>6. (d.place < 59 /\ Place(d) = d.place) \/ (d.place > 59 /\ Place(d) = d.place - 1)
    BY <2>3, <2>4, SMT
  <2>7. d.year \in Int
    BY <1>1, SMT
  <2> HIDE <1>5
  <2>8. Jan1(d.year) \in Int
    BY <1>2 DEF Quarters
  <2> QED  BY <1>1, <1>3, <2>8, <2>1, <2>2, <2>5, <2>6, <2>7
<1> QED  BY <1>4, <1>5

\* The day after has the next number.
LEMMA TomorrowIsNext ==
    ASSUME NEW d \in Date, Tomorrow(d) \in Date
    PROVE  DayNumber(Tomorrow(d)) = DayNumber(d) + 1
<1>1. d.year \in 1901 .. 2099 /\ d.place \in 0 .. 365 /\ (d.place = 59 => Leap(d.year))
  BY YearsAssumption, SMT DEF Date, Feb29
<1>2. CASE d.place = 365
  <2>1. Tomorrow(d) = [year |-> d.year + 1, place |-> 0]
    BY <1>2 DEF Tomorrow
  <2>2. d.year + 1 \in 1901 .. 2099
    BY <1>1, <2>1, YearsAssumption, SMT DEF Date
  <2>3. Jan1(d.year + 1) = Jan1(d.year) + (IF Leap(d.year) THEN 366 ELSE 365)
    BY <1>1, <2>2, LeapRule, SMT DEF Jan1
  <2>4. Jan1(d.year) \in Int
    BY <1>1, SMT DEF Jan1
  <2> QED  BY <1>1, <1>2, <2>1, <2>3, <2>4, SMT DEF DayNumber, Feb29
<1>3. CASE d.place # 365
  <2>1. d = [year |-> d.year, place |-> d.place]
    BY DEF Date
  <2>2. Tomorrow(d) = [year  |-> d.year,
                       place |-> IF d.place = 58 /\ ~Leap(d.year) THEN 60 ELSE d.place + 1]
    BY <1>1, <1>3, <2>1, SMT DEF Tomorrow, Feb29
  <2>3. Jan1(d.year) \in Int
    BY <1>1, SMT DEF Jan1
  <2> QED  BY <1>1, <1>3, <2>2, <2>3, SMT DEF DayNumber, Feb29
<1> QED  BY <1>2, <1>3

-----------------------------------------------------------------------------
(* The age that is computed and the true one.                              *)

\* The computed age does not run ahead of the true one, and on every day that is
\* no birthday the two are the same.
LEMMA AgeAlmostTrue ==
    ASSUME NEW birth \in Date, NEW on \in Date
    PROVE  /\ Age(birth, on) \in Int /\ TrueAge(birth, on) \in Int
           /\ Age(birth, on) <= TrueAge(birth, on)
           /\ ~IsBirthday(birth, on) => Age(birth, on) = TrueAge(birth, on)
<1> DEFINE yb == birth.year  pb == birth.place  jb == Jan1(birth.year)  kb == Place(birth)
           yo == on.year     po == on.place     jo == Jan1(on.year)     ko == Place(on)
           n  == TrueAge(birth, on)
<1>1. /\ yb \in Int /\ pb \in 0 .. 365 /\ jb \in Int /\ kb \in Int
      /\ \/ (4 * jb = 1461 * yb - 64 /\ kb = pb)
         \/ /\ 4 * jb >= 1461 * yb - 63 /\ 4 * jb <= 1461 * yb - 61
            /\ (pb < 59 /\ kb = pb) \/ (pb > 59 /\ kb = pb - 1)
  BY DateParts
<1>2. /\ yo \in Int /\ po \in 0 .. 365 /\ jo \in Int /\ ko \in Int
      /\ \/ (4 * jo = 1461 * yo - 64 /\ ko = po)
         \/ /\ 4 * jo >= 1461 * yo - 63 /\ 4 * jo <= 1461 * yo - 61
            /\ (po < 59 /\ ko = po) \/ (po > 59 /\ ko = po - 1)
  BY DateParts
<1>3. n = yo - yb - (IF po < pb THEN 1 ELSE 0)
  BY DEF TrueAge
<1>4. ~IsBirthday(birth, on) => po # pb /\ ~(pb = 59 /\ po = 60 /\ ko = 59)
  BY <1>2, SMT DEF IsBirthday, Feb29, Place
<1>5. Age(birth, on) = (4 * ((jo + ko) - (jb + kb))) \div 1461
  BY DateParts DEF Age, DateDiff
<1> HIDE DEF yb, pb, jb, kb, yo, po, jo, ko, n
<1>6. n \in Int
  BY <1>1, <1>2, <1>3, SMT
<1>7. 4 * ((jo + ko) - (jb + kb)) < 1461 * (n + 1)
  BY <1>1, <1>2, <1>3, SMT
<1>8. ~IsBirthday(birth, on) => 4 * ((jo + ko) - (jb + kb)) >= 1461 * n
  BY <1>1, <1>2, <1>3, <1>4, SMT
<1>9. Age(birth, on) \in Int /\ Age(birth, on) <= n
  BY <1>1, <1>2, <1>5, <1>6, <1>7, SMT
<1>10. ~IsBirthday(birth, on) => Age(birth, on) = n
  BY <1>1, <1>2, <1>5, <1>6, <1>7, <1>8, SMT
<1> QED  BY <1>6, <1>9, <1>10 DEF n

\* A later day never gives a lower age.
LEMMA AgeRises ==
    ASSUME NEW birth \in Date, NEW d \in Date, NEW e \in Date,
           DayNumber(d) <= DayNumber(e)
    PROVE  Age(birth, d) <= Age(birth, e)
<1>1. DayNumber(d) \in Int /\ DayNumber(e) \in Int /\ DayNumber(birth) \in Int
  BY DateParts, SMT
<1> QED  BY <1>1, SMT DEF Age, DateDiff

\* A band begins at an age that has been reached, and a higher age has no lower
\* band.
LEMMA BandLimits ==
    /\ \A n \in Int : BandOf(n) \in Bands \cup {NULL}
    /\ \A n \in Int : LowerLimit(BandOf(n)) \in Nat
    /\ \A n \in Nat : LowerLimit(BandOf(n)) <= n
    /\ \A m, n \in Int : m <= n => LowerLimit(BandOf(m)) <= LowerLimit(BandOf(n))
<1>1. \A n \in Int : BandOf(n) \in Bands \cup {NULL}
  BY SMT DEF BandOf, Bands
<1>2. /\ LowerLimit("18-25") = 18 /\ LowerLimit("26-35") = 26 /\ LowerLimit("36-45") = 36
      /\ LowerLimit("46-55") = 46 /\ LowerLimit("56-65") = 56 /\ LowerLimit("65+") = 65
      /\ LowerLimit(NULL) = 0
  BY YearsAssumption DEF LowerLimit, Bands
<1>3. \A n \in Int : LowerLimit(BandOf(n)) =
         IF n >= 65 THEN 65 ELSE IF n >= 56 THEN 56 ELSE IF n >= 46 THEN 46
         ELSE IF n >= 36 THEN 36 ELSE IF n >= 26 THEN 26 ELSE IF n >= 18 THEN 18 ELSE 0
  BY <1>2, SMT DEF BandOf
<1> QED  BY <1>1, <1>3, SMT

-----------------------------------------------------------------------------
(* The state machine.                                                      *)

\* The row is the one the run on its date wrote, and no run is later than today.
AgeInv ==
    /\ TypeOK
    /\ as_of # NotBuilt =>
           /\ age_band = DeriveAgeBand(dob, as_of)
           /\ DayNumber(as_of) <= DayNumber(today)

\* What derive_age_band returns is a documented band or NULL.
LEMMA BandType ==
    ASSUME NEW b \in Date \cup {NULL}, NEW d \in Date
    PROVE  DeriveAgeBand(b, d) \in Bands \cup {NULL} /\ (b = NULL => DeriveAgeBand(b, d) = NULL)
<1>1. CASE b = NULL
  BY <1>1 DEF DeriveAgeBand
<1>2. CASE b # NULL
  <2>1. b \in Date /\ Age(b, d) \in Int
    BY <1>2, AgeAlmostTrue
  <2> QED  BY <1>2, <2>1, BandLimits DEF DeriveAgeBand
<1> QED  BY <1>1, <1>2

\* A row that is not built yet, or has no date of birth, is no date.
LEMMA SentinelsApart ==
    NotBuilt \notin Date /\ NULL \notin Date /\ NotBuilt \notin Bands \cup {NULL}
<1>1. Date \subseteq [year : Int, place : Int]
  BY YearsAssumption, SMT DEF Date
<1> QED  BY <1>1, YearsAssumption

\* A volume without a row keeps the invariant.
LEMMA InitAge == Init => AgeInv
BY CasesAssumption, SMT DEF Init, AgeInv, TypeOK

\* The passing of a day and the building of a row keep the invariant.
LEMMA StepAge == AgeInv /\ [Next]_vars => AgeInv'
<1> SUFFICES ASSUME AgeInv, [Next]_vars PROVE AgeInv'
  OBVIOUS
<1> USE DEF AgeInv, TypeOK
<1>1. CASE BuildDimCustomers
  <2>1. /\ age_band' = DeriveAgeBand(dob, today) /\ as_of' = today
        /\ dob' = dob /\ today' = today /\ passed' = passed
    BY <1>1 DEF BuildDimCustomers
  <2>2. DayNumber(today) \in Int
    BY DateParts, SMT
  <2>3. age_band' \in Bands \cup {NULL} /\ (dob = NULL => age_band' = NULL)
    BY <2>1, BandType
  <2>4. age_band' # NotBuilt /\ as_of' # NotBuilt
    BY <2>1, <2>3, SentinelsApart
  <2>5. DayNumber(as_of') <= DayNumber(today')
    BY <2>1, <2>2, SMT
  <2> QED  BY <2>1, <2>3, <2>4, <2>5
<1>2. CASE NextDay
  <2>1. /\ today' = Tomorrow(today) /\ today' \in Date /\ passed < MaxDays
        /\ passed' = passed + 1
        /\ dob' = dob /\ age_band' = age_band /\ as_of' = as_of
    BY <1>2 DEF NextDay
  <2>2. passed' \in 0 .. MaxDays
    BY <2>1, CasesAssumption, SMT
  <2>3. DayNumber(today) \in Int /\ DayNumber(today') = DayNumber(today) + 1
    BY <2>1, TomorrowIsNext, DateParts, SMT
  <2>4. ASSUME as_of # NotBuilt PROVE DayNumber(as_of') <= DayNumber(today')
    <3>1. as_of \in Date /\ DayNumber(as_of) <= DayNumber(today) /\ DayNumber(as_of) \in Int
      BY <2>4, DateParts, SMT
    <3> QED  BY <2>1, <2>3, <3>1, SMT
  <2> QED  BY <2>1, <2>2, <2>4
<1>3. CASE UNCHANGED vars
  BY <1>3 DEF vars
<1> QED  BY <1>1, <1>2, <1>3 DEF Next

\* The invariant holds of every reachable state.
LEMMA AgeInvariant == Spec => []AgeInv
BY InitAge, StepAge, PTL DEF Spec

\* The column always holds one of the documented bands, or NULL where there is no
\* date of birth or no band.
THEOREM TypeCorrect == Spec => []TypeOK
<1>1. AgeInv => TypeOK
  BY DEF AgeInv
<1> QED  BY <1>1, AgeInvariant, PTL

\* What holds of a built row of a customer who is born.
LEMMA BuiltRow ==
    ASSUME AgeInv, Built
    PROVE  /\ dob \in Date /\ as_of \in Date
           /\ age_band = BandOf(Age(dob, as_of))
           /\ DayNumber(as_of) \in Int /\ DayNumber(today) \in Int
           /\ DayNumber(as_of) <= DayNumber(today)
<1>1. dob \in Date /\ as_of \in Date /\ today \in Date
  BY DEF AgeInv, TypeOK, Built
<1>2. age_band = DeriveAgeBand(dob, as_of) /\ DayNumber(as_of) <= DayNumber(today)
  BY DEF AgeInv, Built
<1>3. age_band = BandOf(Age(dob, as_of))
  BY <1>2 DEF DeriveAgeBand, Built
<1>4. DayNumber(as_of) \in Int /\ DayNumber(today) \in Int
  BY <1>1, DateParts, SMT
<1> QED  BY <1>1, <1>2, <1>3, <1>4

\* From the day of birth on the true age is no negative number.
LEMMA TrueAgeNatural ==
    ASSUME NEW birth \in Date, NEW on \in Date, DayNumber(birth) <= DayNumber(on)
    PROVE  TrueAge(birth, on) \in Nat
<1>1. Age(birth, on) \in Int /\ TrueAge(birth, on) \in Int
      /\ Age(birth, on) <= TrueAge(birth, on)
  BY AgeAlmostTrue
<1>2. DayNumber(birth) \in Int /\ DayNumber(on) \in Int
  BY DateParts, SMT
<1>3. Age(birth, on) >= 0
  BY <1>2, SMT DEF Age, DateDiff
<1> QED  BY <1>1, <1>3, SMT

\* No customer is ever in a band before the birthday that begins it.
THEOREM NeverInABandTooEarly == Spec => []NeverTooOld
<1>1. AgeInv => NeverTooOld
  <2> SUFFICES ASSUME AgeInv, Built PROVE LowerLimit(age_band) <= TrueAge(dob, as_of)
    BY DEF NeverTooOld
  <2> DEFINE age == Age(dob, as_of)
             n   == TrueAge(dob, as_of)
  <2>1. age \in Int /\ n \in Int /\ age <= n
    BY BuiltRow, AgeAlmostTrue
  <2>2. n \in Nat
    BY BuiltRow, TrueAgeNatural DEF Built
  <2>3. age_band = BandOf(age)
    BY BuiltRow
  <2> HIDE DEF age, n
  <2>4. /\ LowerLimit(BandOf(age)) \in Nat /\ LowerLimit(BandOf(n)) \in Nat
        /\ LowerLimit(BandOf(age)) <= LowerLimit(BandOf(n)) /\ LowerLimit(BandOf(n)) <= n
    BY <2>1, <2>2, BandLimits
  <2>5. LowerLimit(age_band) <= n
    BY <2>2, <2>3, <2>4, SMT
  <2> QED  BY <2>5 DEF n
<1> QED  BY <1>1, AgeInvariant, PTL

\* A customer is kept in the earlier band on no day but a birthday.
THEOREM OneDayLateAtMost == Spec => []LateOnlyOnBirthday
<1>1. AgeInv => LateOnlyOnBirthday
  <2> SUFFICES ASSUME AgeInv, Built, ~IsBirthday(dob, as_of)
               PROVE  age_band = BandOf(TrueAge(dob, as_of))
    BY DEF LateOnlyOnBirthday
  <2>1. Age(dob, as_of) = TrueAge(dob, as_of)
    BY BuiltRow, AgeAlmostTrue
  <2> QED  BY <2>1, BuiltRow
<1> QED  BY <1>1, AgeInvariant, PTL

\* No later run takes a band back.
THEOREM NoBandTakenBack == Spec => BandsNeverFall
<1> DEFINE Kept == Built /\ Built' => LowerLimit(age_band) <= LowerLimit(age_band')
<1>1. AgeInv /\ AgeInv' /\ [Next]_vars => [Kept]_vars
  <2> SUFFICES ASSUME AgeInv, AgeInv', Built, Built', Next
               PROVE  LowerLimit(age_band) <= LowerLimit(age_band')
    BY DEF vars
  <2>1. /\ dob' = dob
        /\ as_of' = as_of \/ as_of' = today
    BY DEF Next, BuildDimCustomers, NextDay
  <2>2. /\ dob \in Date /\ as_of \in Date /\ as_of' \in Date /\ today \in Date
        /\ age_band = DeriveAgeBand(dob, as_of) /\ age_band' = DeriveAgeBand(dob, as_of')
        /\ DayNumber(as_of) <= DayNumber(today)
    BY <2>1 DEF AgeInv, TypeOK, Built
  <2>3. age_band = BandOf(Age(dob, as_of)) /\ age_band' = BandOf(Age(dob, as_of'))
    BY <2>2 DEF DeriveAgeBand, Built
  <2>4. DayNumber(as_of) <= DayNumber(as_of')
    BY <2>1, <2>2, DateParts, SMT
  <2>5. /\ Age(dob, as_of) \in Int /\ Age(dob, as_of') \in Int
        /\ Age(dob, as_of) <= Age(dob, as_of')
    BY <2>2, <2>4, AgeRises, AgeAlmostTrue
  <2> QED  BY <2>3, <2>5, BandLimits
<1> QED  BY <1>1, StepAge, AgeInvariant, PTL DEF Spec, BandsNeverFall
=============================================================================
