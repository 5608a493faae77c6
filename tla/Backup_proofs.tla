--------------------------- MODULE Backup_proofs ----------------------------
(***************************************************************************)
(* Retention deletes nothing it should keep, for any sources, any window,  *)
(* any number of runners that overlap and any number of failures.  With a  *)
(* single runner, what is left at the end of a run is the window alone and *)
(* a manifest tells what its run did.                                      *)
(***************************************************************************)
EXTENDS Backup, FiniteSetTheorems, SequenceTheorems, TLAPS

USE RetentionAssumption, BackupAssumption

-----------------------------------------------------------------------------
(***************************************************************************)
(* Retention: what a plan made of more dates keeps of them, a plan made of *)
(* fewer keeps too.                                                        *)
(***************************************************************************)

LEMMA NewerType ==
  ASSUME NEW dates, IsFiniteSet(dates), NEW date
  PROVE  IsFiniteSet(Newer(dates, date)) /\ Cardinality(Newer(dates, date)) \in Nat
<1>1. Newer(dates, date) \in SUBSET dates
  BY DEF Newer
<1>2. QED
  BY <1>1, FS_Subset, FS_CardinalityType

LEMMA WeeksType ==
  ASSUME NEW dates, IsFiniteSet(dates)
  PROVE  IsFiniteSet(Weeks(dates)) /\ Cardinality(Weeks(dates)) \in Nat
<1> DEFINE f == [d \in dates |-> Week(d)]
<1>1. f \in Surjection(dates, Weeks(dates))
  BY DEF Surjection, Weeks
<1>2. QED
  BY <1>1, FS_Surjection, FS_CardinalityType

\* The rank of a date, and the number of newer weeks, grow with the dates.
LEMMA NewerMonotone ==
  ASSUME NEW all, IsFiniteSet(all), NEW some \in SUBSET all, NEW date
  PROVE  /\ Cardinality(Newer(some, date)) <= Cardinality(Newer(all, date))
         /\ Cardinality(Weeks(Newer(some, date))) <= Cardinality(Weeks(Newer(all, date)))
<1>1. Newer(some, date) \in SUBSET Newer(all, date) /\ IsFiniteSet(Newer(all, date))
  BY NewerType DEF Newer
<1>2. Weeks(Newer(some, date)) \in SUBSET Weeks(Newer(all, date))
  BY <1>1 DEF Weeks
<1>3. IsFiniteSet(Weeks(Newer(all, date)))
  BY <1>1, WeeksType
<1>4. QED
  BY <1>1, <1>2, <1>3, FS_Subset

LEMMA DailyMonotone ==
  ASSUME NEW all, IsFiniteSet(all), NEW some \in SUBSET all, NEW date, InDaily(all, date)
  PROVE  InDaily(some, date)
<1>1. IsFiniteSet(some)
  BY FS_Subset
<1>2. /\ Cardinality(Newer(some, date)) \in Nat
      /\ Cardinality(Newer(all, date)) \in Nat
  BY <1>1, NewerType
<1>3. Cardinality(Newer(some, date)) <= Cardinality(Newer(all, date))
  BY NewerMonotone
<1>4. QED
  BY <1>2, <1>3 DEF InDaily

LEMMA KeepMonotone ==
  ASSUME NEW all, IsFiniteSet(all), NEW some \in SUBSET all, NEW date \in some,
         date \in Keep(all)
  PROVE  date \in Keep(some)
<1>1. CASE InDaily(some, date)
  BY <1>1 DEF Keep
<1>2. CASE ~ InDaily(some, date)
  <2>1. ~ InDaily(all, date) /\ InWeekly(all, date)
    BY <1>2, DailyMonotone DEF Keep
  <2>2. Remaining(some) \in SUBSET Remaining(all) /\ Remaining(all) \in SUBSET all
    BY DailyMonotone DEF Remaining
  <2>3. IsFiniteSet(Remaining(all)) /\ IsFiniteSet(Remaining(some))
    BY <2>2, FS_Subset
  <2>4. date \in Remaining(some)
    BY <1>2 DEF Remaining
  <2>5. \A d \in Newer(Remaining(some), date) : Week(d) # Week(date)
    BY <2>1, <2>2 DEF InWeekly, Newer
  <2>6. Cardinality(Weeks(Newer(Remaining(some), date))) < RetainWeekly
    <3>1. Cardinality(Weeks(Newer(Remaining(all), date))) < RetainWeekly
      BY <2>1 DEF InWeekly
    <3>2. Cardinality(Weeks(Newer(Remaining(some), date)))
            <= Cardinality(Weeks(Newer(Remaining(all), date)))
      BY <2>2, <2>3, NewerMonotone
    <3>3. /\ Cardinality(Weeks(Newer(Remaining(some), date))) \in Nat
          /\ Cardinality(Weeks(Newer(Remaining(all), date))) \in Nat
      BY <2>3, NewerType, WeeksType
    <3>4. QED
      BY <3>1, <3>2, <3>3
  <2>7. QED
    BY <2>4, <2>5, <2>6 DEF Keep, InWeekly
<1>3. QED
  BY <1>1, <1>2

-----------------------------------------------------------------------------
(***************************************************************************)
(* The loop of planRetention keeps just the two windows.  After the n      *)
(* newest dates it has seen the weeks of those of them that are in the     *)
(* weekly window, and kept these beside the daily window: this closed form *)
(* goes through the loop's own steps, and no other function does, since    *)
(* the least index at which another would differ has none.                 *)
(***************************************************************************)

LEMMA DatesFinite == \A dates \in SUBSET Days : IsFiniteSet(dates)
<1>1. IsFiniteSet(Days)
  BY FS_Interval DEF Days
<1>2. QED
  BY <1>1, FS_Subset

\* A set of dates that is not empty has a newest one.
LEMMA NewestDate ==
  ASSUME NEW dates \in SUBSET Days, dates # {}
  PROVE  \E last \in dates : \A d \in dates : d <= last
<1> DEFINE later == {Newer(dates, d) : d \in dates}
<1>1. later \subseteq FiniteSubsetsOf(Days) /\ later # {}
  <2>1. \A d \in dates : Newer(dates, d) \in SUBSET Days
    BY DEF Newer
  <2>2. \A S \in SUBSET Days : S \in FiniteSubsetsOf(Days)
    BY DatesFinite DEF FiniteSubsetsOf
  <2>3. QED
    BY <2>1, <2>2
<1>2. IsWellFoundedOn(StrictSubsetOrdering(Days), FiniteSubsetsOf(Days))
  BY FS_StrictSubsetOrderingWellFounded
<1> HIDE DEF later
<1>3. PICK S \in later : \A T \in later : ~ (<<T, S>> \in StrictSubsetOrdering(Days))
  BY <1>1, <1>2, WFMin
<1>4. PICK last \in dates : S = Newer(dates, last)
  BY DEF later
<1>5. ASSUME NEW d \in dates, ~ (d <= last)
      PROVE  FALSE
  <2>1. d \in Nat /\ last \in Nat /\ d > last
    BY <1>5 DEF Days
  <2>2. \A x \in dates : x \in Nat
    BY DEF Days
  <2>3. d \in S /\ d \notin Newer(dates, d)
    BY <1>4, <2>1 DEF Newer
  <2>4. S \in SUBSET Days /\ Newer(dates, d) \in SUBSET Days
    BY <1>4 DEF Newer
  <2>5. ASSUME NEW x \in Newer(dates, d)
        PROVE  x \in S
    <3>1. x \in dates /\ x > d /\ x \in Nat
      BY <2>2 DEF Newer
    <3>2. x > last
      BY <2>1, <3>1
    <3>3. QED
      BY <1>4, <3>1, <3>2 DEF Newer
  <2>6. <<Newer(dates, d), S>> \in StrictSubsetOrdering(Days)
    BY <2>5, <2>3, <2>4 DEF StrictSubsetOrdering
  <2>7. Newer(dates, d) \in later
    BY DEF later
  <2>8. QED
    BY <1>3, <2>6, <2>7
<1>6. QED
  BY <1>5

\* The newest date of each week.
Firsts(rest) == {d \in rest : \A e \in Newer(rest, d) : Week(e) # Week(d)}

LEMMA FirstOfWeek ==
  ASSUME NEW rest \in SUBSET Days, NEW date \in rest
  PROVE  \E first \in Firsts(rest) : Week(first) = Week(date) /\ date <= first
<1> DEFINE same == {d \in rest : Week(d) = Week(date)}
<1>1. same \in SUBSET Days /\ date \in same
  OBVIOUS
<1>2. PICK first \in same : \A d \in same : d <= first
  BY <1>1, NewestDate
<1>3. \A d \in rest : d \in Nat
  BY DEF Days
<1>4. first \in Firsts(rest)
  BY <1>2, <1>3 DEF Firsts, Newer
<1>5. QED
  BY <1>1, <1>2, <1>4

\* A set of numbers that is not empty has a least one.
LEMMA LeastNat ==
  ASSUME NEW S \in SUBSET Nat, S # {}
  PROVE  \E x \in S : \A y \in S : x <= y
<1>1. PICK x \in S : \A y \in S : ~ (<<y, x>> \in OpToRel(<, Nat))
  BY NatLessThanWellFounded, WFMin
<1>2. ASSUME NEW y \in S PROVE x <= y
  <2>1. x \in Nat /\ y \in Nat /\ <<y, x>> \in Nat \X Nat
    OBVIOUS
  <2>2. ~ (y < x)
    BY <1>1, <2>1 DEF OpToRel
  <2>3. QED
    BY <2>1, <2>2
<1>3. QED
  BY <1>2

\* The rank of a date.
Rank(dates, date) == Cardinality(Newer(dates, date))

\* Of two dates the newer has the lower rank, and every rank is taken.
LEMMA RankOrder ==
  ASSUME NEW dates \in SUBSET Days, NEW date \in dates, NEW other \in dates
  PROVE  /\ Rank(dates, date) \in Nat /\ Rank(dates, other) \in Nat
         /\ Rank(dates, date) < Cardinality(dates) /\ Cardinality(dates) \in Nat
         /\ Rank(dates, date) < Rank(dates, other) <=> date > other
<1>1. IsFiniteSet(dates) /\ \A d \in dates : d \in Nat
  BY DatesFinite DEF Days
<1>2. ASSUME NEW d \in dates
      PROVE  /\ IsFiniteSet(Newer(dates, d)) /\ Rank(dates, d) \in Nat
             /\ Newer(dates, d) \in SUBSET dates /\ d \notin Newer(dates, d)
  <2>1. IsFiniteSet(Newer(dates, d)) /\ Rank(dates, d) \in Nat
    BY <1>1, NewerType DEF Rank
  <2>2. d \in Nat /\ ~ (d > d)
    BY <1>1
  <2>3. QED
    BY <2>1, <2>2 DEF Newer
<1>3. Rank(dates, date) < Cardinality(dates) /\ Cardinality(dates) \in Nat
  <2>1. Newer(dates, date) \in SUBSET dates /\ Newer(dates, date) # dates
    BY <1>2
  <2>2. /\ Cardinality(Newer(dates, date)) <= Cardinality(dates)
        /\ Cardinality(Newer(dates, date)) # Cardinality(dates)
    BY <1>1, <2>1, FS_Subset
  <2>3. Cardinality(dates) \in Nat /\ Cardinality(Newer(dates, date)) \in Nat
    BY <1>1, <1>2, FS_CardinalityType DEF Rank
  <2>4. QED
    BY <2>2, <2>3 DEF Rank
<1>4. ASSUME NEW d \in dates, NEW e \in dates, d > e
      PROVE  Rank(dates, d) < Rank(dates, e)
  <2>1. d \in Newer(dates, e) /\ d \notin Newer(dates, d)
    BY <1>2, <1>4 DEF Newer
  <2>2. ASSUME NEW x \in Newer(dates, d)
        PROVE  x \in Newer(dates, e)
    BY <1>1, <1>4 DEF Newer
  <2>3. Newer(dates, d) \in SUBSET Newer(dates, e) /\ Newer(dates, d) # Newer(dates, e)
    BY <2>1, <2>2
  <2>4. /\ Cardinality(Newer(dates, d)) <= Cardinality(Newer(dates, e))
        /\ Cardinality(Newer(dates, d)) # Cardinality(Newer(dates, e))
    BY <1>2, <2>3, FS_Subset
  <2>5. QED
    BY <1>2, <2>4 DEF Rank
<1>5. Rank(dates, date) < Rank(dates, other) <=> date > other
  <2>1. date > other \/ date = other \/ other > date
    BY <1>1
  <2>2. Rank(dates, date) \in Nat /\ Rank(dates, other) \in Nat
    BY <1>2
  <2>3. CASE date > other
    BY <2>3, <1>4
  <2>4. CASE date = other
    BY <1>1, <2>2, <2>4
  <2>5. CASE other > date
    <3>1. Rank(dates, other) < Rank(dates, date)
      BY <1>4, <2>5
    <3>2. ~ (date > other)
      BY <1>1, <2>5
    <3>3. QED
      BY <2>2, <3>1, <3>2
  <2>6. QED
    BY <2>1, <2>3, <2>4, <2>5
<1>6. QED
  BY <1>2, <1>3, <1>5

LEMMA NewestRank ==
  ASSUME NEW dates \in SUBSET Days, NEW i \in 1 .. Cardinality(dates)
  PROVE  Newest(dates, i) \in dates /\ Rank(dates, Newest(dates, i)) = i - 1
<1> DEFINE n == Cardinality(dates)
           rank == [d \in dates |-> Rank(dates, d) + 1]
<1>1. IsFiniteSet(dates) /\ n \in Nat
  BY DatesFinite, FS_CardinalityType
<1>2. rank \in [dates -> 1 .. n]
  <2>1. \A d \in dates : Rank(dates, d) \in Nat /\ Rank(dates, d) < n
    BY RankOrder
  <2>2. QED
    BY <1>1, <2>1
<1>3. ASSUME NEW d \in dates, NEW e \in dates, rank[d] = rank[e]
      PROVE  d = e
  <2>1. Rank(dates, d) \in Nat /\ Rank(dates, d) = Rank(dates, e)
    BY <1>3, RankOrder
  <2>2. ~ (d > e) /\ ~ (e > d)
    BY <2>1, RankOrder
  <2>3. d \in Nat /\ e \in Nat
    BY DEF Days
  <2>4. QED
    BY <2>2, <2>3
<1>4. rank \in Injection(dates, 1 .. n)
  BY <1>2, <1>3 DEF Injection, IsInjective
<1>5. IsFiniteSet(1 .. n) /\ Cardinality(1 .. n) = n
  BY <1>1, FS_Interval
<1> HIDE DEF rank
<1>6. rank \in Surjection(dates, 1 .. n)
  BY <1>1, <1>4, <1>5, FS_Injection
<1>7. PICK d \in dates : rank[d] = i
  BY <1>6 DEF Surjection
<1>8. Rank(dates, d) = i - 1
  <2>1. rank[d] = Rank(dates, d) + 1 /\ Rank(dates, d) \in Nat
    BY RankOrder DEF rank
  <2>2. QED
    BY <1>7, <2>1
<1>9. QED
  BY <1>8 DEF Newest, Rank

\* The weekly window of what is newer than a date.
WeeklyBefore(dates, date) == {d \in Newer(Remaining(dates), date) : InWeekly(dates, d)}

\* While fewer weeks than RetainWeekly were seen, every week was that there is.
LEMMA WeeksSeen ==
  ASSUME NEW dates \in SUBSET Days, NEW date \in Remaining(dates),
         Cardinality(Weeks(WeeklyBefore(dates, date))) < RetainWeekly,
         NEW newer \in Newer(Remaining(dates), date)
  PROVE  Week(newer) \in Weeks(WeeklyBefore(dates, date))
<1> DEFINE rest == Remaining(dates)
           left == {d \in Firsts(rest) : ~ InWeekly(dates, d) /\ d > date}
<1>1. left \in SUBSET Days /\ rest \in SUBSET Days /\ newer \in rest
  BY DEF Firsts, Remaining, Newer
<1>2. date \in Nat /\ \A d \in rest : d \in Nat
  BY <1>1 DEF Days
<1>3. ASSUME NEW d \in Newer(rest, date)
      PROVE  \E f \in Firsts(rest) : Week(f) = Week(d) /\ f \in Newer(rest, date) /\ d <= f
  <2>1. d \in rest /\ d > date
    BY DEF Newer
  <2>2. PICK f \in Firsts(rest) : Week(f) = Week(d) /\ d <= f
    BY <1>1, <2>1, FirstOfWeek
  <2>3. f \in rest /\ f > date
    BY <1>2, <2>1, <2>2 DEF Firsts
  <2>4. QED
    BY <2>2, <2>3 DEF Newer
<1>4. PICK f \in Firsts(rest) : Week(f) = Week(newer) /\ f \in Newer(rest, date)
  BY <1>3
<1>5. CASE InWeekly(dates, f)
  BY <1>4, <1>5 DEF Weeks, WeeklyBefore
<1>6. CASE ~ InWeekly(dates, f)
  <2>1. f \in left
    BY <1>4, <1>6 DEF Newer
  <2>2. PICK last \in left : \A d \in left : d <= last
    BY <1>1, <2>1, NewestDate
  <2>3. last \in rest /\ last \in Nat /\ last > date
    BY <1>2, <2>2 DEF Firsts
  <2>4. ASSUME NEW d \in Newer(rest, last)
        PROVE  Week(d) \in Weeks(WeeklyBefore(dates, date))
    <3>1. d \in rest /\ d > last /\ d > date /\ d \in Nat
      BY <1>2, <2>3 DEF Newer
    <3>2. PICK g \in Firsts(rest) : Week(g) = Week(d) /\ g \in Newer(rest, date) /\ d <= g
      BY <1>3, <3>1 DEF Newer
    <3>3. g \in Nat /\ g > last /\ g > date
      BY <1>2, <2>3, <3>1, <3>2 DEF Firsts
    <3>4. g \notin left
      BY <2>2, <2>3, <3>3
    <3>5. InWeekly(dates, g)
      BY <3>2, <3>3, <3>4
    <3>6. QED
      BY <3>2, <3>5 DEF Weeks, WeeklyBefore
  <2>5. Weeks(Newer(rest, last)) \in SUBSET Weeks(WeeklyBefore(dates, date))
    BY <2>4 DEF Weeks
  <2>6. /\ IsFiniteSet(Weeks(WeeklyBefore(dates, date)))
        /\ Cardinality(Weeks(WeeklyBefore(dates, date))) \in Nat
        /\ Cardinality(Weeks(Newer(rest, last))) \in Nat
    <3>1. WeeklyBefore(dates, date) \in SUBSET Days /\ Newer(rest, last) \in SUBSET Days
      BY <1>1 DEF WeeklyBefore, Newer
    <3>2. QED
      BY <3>1, DatesFinite, WeeksType
  <2>7. Cardinality(Weeks(Newer(rest, last))) <= Cardinality(Weeks(WeeklyBefore(dates, date)))
    BY <2>5, <2>6, FS_Subset
  <2>8. ~ (Cardinality(Weeks(Newer(rest, last))) < RetainWeekly)
    BY <2>2, <2>3 DEF Firsts, InWeekly
  <2>9. QED
    BY <2>6, <2>7, <2>8
<1>7. QED
  BY <1>5, <1>6

\* What the loop asks of a date is what the weekly window says of it.
LEMMA WeeklyVisit ==
  ASSUME NEW dates \in SUBSET Days, NEW date \in Remaining(dates)
  PROVE  LET seen == Weeks(WeeklyBefore(dates, date))
         IN  InWeekly(dates, date)
               <=> (Week(date) \notin seen /\ Cardinality(seen) < RetainWeekly)
<1> DEFINE seen == Weeks(WeeklyBefore(dates, date))
           newer == Newer(Remaining(dates), date)
<1>1. newer \in SUBSET Days /\ WeeklyBefore(dates, date) \in SUBSET newer
  BY DEF Newer, Remaining, WeeklyBefore
<1>2. seen \in SUBSET Weeks(newer)
  BY <1>1 DEF Weeks
<1>3. /\ IsFiniteSet(Weeks(newer)) /\ Cardinality(Weeks(newer)) \in Nat
      /\ Cardinality(seen) \in Nat
  BY <1>1, DatesFinite, WeeksType
<1>4. ASSUME InWeekly(dates, date)
      PROVE  Week(date) \notin seen /\ Cardinality(seen) < RetainWeekly
  <2>1. Cardinality(Weeks(newer)) < RetainWeekly /\ Week(date) \notin Weeks(newer)
    BY <1>4 DEF InWeekly, Weeks
  <2>2. Cardinality(seen) <= Cardinality(Weeks(newer))
    BY <1>2, <1>3, FS_Subset
  <2>3. QED
    BY <1>2, <1>3, <2>1, <2>2
<1>5. ASSUME Week(date) \notin seen, Cardinality(seen) < RetainWeekly
      PROVE  InWeekly(dates, date)
  <2>1. \A d \in newer : Week(d) \in seen
    BY <1>5, WeeksSeen
  <2>2. Weeks(newer) = seen
    BY <1>2, <2>1 DEF Weeks
  <2>3. QED
    BY <1>5, <2>1, <2>2 DEF InWeekly
<1>6. QED
  BY <1>4, <1>5

\* What the loop has when it is through with the first n dates.
WeeklyOf(dates, n) == {d \in Remaining(dates) : Rank(dates, d) < n /\ InWeekly(dates, d)}

DailyOf(dates) == {d \in dates : InDaily(dates, d)}

After(dates, n) ==
  [seen |-> Weeks(WeeklyOf(dates, n)), keep |-> DailyOf(dates) \cup WeeklyOf(dates, n)]

LEMMA DailyFirst ==
  ASSUME NEW dates \in SUBSET Days
  PROVE  {Newest(dates, i) : i \in (1 .. Cardinality(dates)) \cap (1 .. RetainDaily)}
           = DailyOf(dates)
<1> DEFINE first == (1 .. Cardinality(dates)) \cap (1 .. RetainDaily)
<1>1. ASSUME NEW i \in first
      PROVE  Newest(dates, i) \in DailyOf(dates)
  <2>1. Newest(dates, i) \in dates /\ Rank(dates, Newest(dates, i)) = i - 1
    BY NewestRank
  <2>2. i \in 1 .. RetainDaily /\ i - 1 < RetainDaily
    <3>1. i \in 1 .. RetainDaily
      OBVIOUS
    <3>2. QED
      BY <3>1
  <2>3. QED
    BY <2>1, <2>2 DEF DailyOf, InDaily, Rank
<1>2. ASSUME NEW d \in DailyOf(dates)
      PROVE  \E i \in first : d = Newest(dates, i)
  <2> DEFINE i == Rank(dates, d) + 1
  <2>1. d \in dates /\ Rank(dates, d) \in Nat /\ Rank(dates, d) < Cardinality(dates)
        /\ Cardinality(dates) \in Nat /\ Rank(dates, d) < RetainDaily
    BY RankOrder DEF DailyOf, InDaily, Rank
  <2>2. i \in first /\ i - 1 = Rank(dates, d)
    BY <2>1
  <2>3. Newest(dates, i) \in dates /\ Rank(dates, Newest(dates, i)) = Rank(dates, d)
    BY <2>2, NewestRank
  <2>4. ~ (d > Newest(dates, i)) /\ ~ (Newest(dates, i) > d)
    BY <2>1, <2>3, RankOrder
  <2>5. \A e \in dates : e \in Nat
    BY DEF Days
  <2>6. d = Newest(dates, i)
    <3>1. PICK e \in dates : e = Newest(dates, i)
      BY <2>3
    <3>2. d \in Nat /\ e \in Nat /\ ~ (d > e) /\ ~ (e > d)
      BY <2>1, <2>4, <2>5, <3>1
    <3>3. QED
      BY <3>1, <3>2
  <2>7. QED
    BY <2>2, <2>6
<1>3. QED
  BY <1>1, <1>2

LEMMA AfterDaily ==
  ASSUME NEW dates \in SUBSET Days, NEW n \in Nat, n <= RetainDaily
  PROVE  After(dates, n) = [seen |-> {}, keep |-> DailyOf(dates)]
<1>1. ASSUME NEW d \in WeeklyOf(dates, n)
      PROVE  FALSE
  <2>1. d \in dates /\ Rank(dates, d) < n /\ ~ (Rank(dates, d) < RetainDaily)
    BY DEF WeeklyOf, Remaining, InDaily, Rank
  <2>2. Rank(dates, d) \in Nat
    BY <2>1, RankOrder
  <2>3. QED
    BY <2>1, <2>2
<1>2. WeeklyOf(dates, n) = {} /\ Weeks({}) = {}
  BY <1>1 DEF Weeks
<1>3. QED
  BY <1>2 DEF After

LEMMA AfterNext ==
  ASSUME NEW dates \in SUBSET Days, NEW n \in 1 .. Cardinality(dates), ~ (n <= RetainDaily)
  PROVE  After(dates, n) = VisitDate(After(dates, n - 1), Newest(dates, n))
<1>1. PICK date \in dates : date = Newest(dates, n) /\ Rank(dates, date) = n - 1
  BY NewestRank
<1>2. date \in Remaining(dates) /\ \A d \in dates : d \in Nat
  BY <1>1 DEF Remaining, InDaily, Rank, Days
<1>3. WeeklyOf(dates, n - 1) = WeeklyBefore(dates, date)
  <2>1. ASSUME NEW d \in Remaining(dates)
        PROVE  Rank(dates, d) < n - 1 <=> d \in Newer(Remaining(dates), date)
    BY <1>1, RankOrder DEF Remaining, Newer
  <2>2. \A d : d \in Newer(Remaining(dates), date) => d \in Remaining(dates)
    BY DEF Newer
  <2>3. QED
    BY <2>1, <2>2 DEF WeeklyOf, WeeklyBefore
<1>4. ASSUME NEW d \in Remaining(dates)
      PROVE  Rank(dates, d) < n <=> Rank(dates, d) < n - 1 \/ d = date
  <2>1. d \in dates /\ d \in Nat /\ date \in Nat /\ Rank(dates, d) \in Nat /\ n \in Nat
    BY <1>2, RankOrder DEF Remaining
  <2>2. Rank(dates, d) < n - 1 <=> d > date
    BY <1>1, <2>1, RankOrder
  <2>3. n - 1 < Rank(dates, d) <=> date > d
    BY <1>1, <2>1, RankOrder
  <2>4. d = date => Rank(dates, d) = n - 1
    BY <1>1
  <2>5. QED
    BY <2>1, <2>2, <2>3, <2>4
<1>5. WeeklyOf(dates, n) = WeeklyOf(dates, n - 1) \cup {d \in {date} : InWeekly(dates, d)}
  BY <1>2, <1>4 DEF WeeklyOf
<1> DEFINE seen == Weeks(WeeklyOf(dates, n - 1))
<1>6. InWeekly(dates, date) <=> (Week(date) \notin seen /\ Cardinality(seen) < RetainWeekly)
  BY <1>2, <1>3, WeeklyVisit
<1>7. CASE InWeekly(dates, date)
  <2>1. WeeklyOf(dates, n) = WeeklyOf(dates, n - 1) \cup {date}
    BY <1>5, <1>7
  <2>2. Weeks(WeeklyOf(dates, n)) = seen \cup {Week(date)}
    BY <2>1 DEF Weeks
  <2>3. QED
    BY <1>1, <1>6, <1>7, <2>1, <2>2 DEF After, VisitDate
<1>8. CASE ~ InWeekly(dates, date)
  <2>1. WeeklyOf(dates, n) = WeeklyOf(dates, n - 1)
    BY <1>5, <1>8
  <2>2. QED
    BY <1>1, <1>6, <1>8, <2>1 DEF After, VisitDate
<1>9. QED
  BY <1>7, <1>8

\* The loop.
LEMMA VisitedAfter ==
  ASSUME NEW dates \in SUBSET Days, NEW n \in 0 .. Cardinality(dates)
  PROVE  Visited(dates)[n] = After(dates, n)
<1> DEFINE all == 0 .. Cardinality(dates)
           start == [seen |-> {},
                     keep |-> {Newest(dates, j) :
                                 j \in (1 .. Cardinality(dates)) \cap (1 .. RetainDaily)}]
           Loop(f) == f = [i \in all |->
             IF i <= RetainDaily THEN start ELSE VisitDate(f[i - 1], Newest(dates, i))]
           after == [i \in all |-> After(dates, i)]
<1>1. Visited(dates) = CHOOSE f : Loop(f)
  BY DEF Visited
<1>2. \A i \in all : i <= RetainDaily => After(dates, i) = start
  <2>1. start = [seen |-> {}, keep |-> DailyOf(dates)]
    BY DailyFirst
  <2>2. QED
    BY <2>1, AfterDaily
<1> HIDE DEF start
<1>3. \A i \in all : ~ (i <= RetainDaily) =>
        /\ i \in Nat /\ i - 1 \in all
        /\ After(dates, i) = VisitDate(After(dates, i - 1), Newest(dates, i))
  <2>1. ASSUME NEW i \in all, ~ (i <= RetainDaily)
        PROVE  i \in Nat /\ i - 1 \in all /\ i \in 1 .. Cardinality(dates)
    <3>1. Cardinality(dates) \in Nat
      BY DatesFinite, FS_CardinalityType
    <3>2. i \in Nat /\ i <= Cardinality(dates) /\ i # 0
      BY <2>1, <3>1
    <3>3. QED
      BY <3>1, <3>2
  <2>2. QED
    BY <2>1, AfterNext
<1>4. Loop(after)
  <2>1. ASSUME NEW i \in all
        PROVE  after[i] = IF i <= RetainDaily THEN start
                          ELSE VisitDate(after[i - 1], Newest(dates, i))
    BY <1>2, <1>3
  <2>2. QED
    BY <2>1
<1>5. PICK f : f = Visited(dates) /\ Loop(f)
  BY <1>1, <1>4
<1>6. ASSUME f[n] # After(dates, n)
      PROVE  FALSE
  <2> DEFINE wrong == {i \in all : f[i] # After(dates, i)}
  <2>1. wrong \in SUBSET Nat /\ wrong # {}
    BY <1>6
  <2>2. PICK i \in wrong : \A j \in wrong : i <= j
    BY <2>1, LeastNat
  <2>3. i \in all /\ f[i] # After(dates, i)
    OBVIOUS
  <2>4. f[i] = IF i <= RetainDaily THEN start ELSE VisitDate(f[i - 1], Newest(dates, i))
    BY <1>5, <2>3
  <2>5. CASE i <= RetainDaily
    BY <1>2, <2>3, <2>4, <2>5
  <2>6. CASE ~ (i <= RetainDaily)
    <3>1. i \in Nat /\ i - 1 \in all /\ ~ (i <= i - 1)
      BY <1>3, <2>3, <2>6
    <3>2. i - 1 \notin wrong
      BY <2>2, <3>1
    <3>3. f[i - 1] = After(dates, i - 1)
      BY <3>1, <3>2
    <3>4. QED
      BY <1>3, <2>3, <2>4, <2>6, <3>3
  <2>7. QED
    BY <2>5, <2>6
<1>7. QED
  BY <1>5, <1>6

\* planRetention's loop keeps the daily and the weekly window.
LEMMA PlanIsWindow == \A dates \in SUBSET Days : PlanLoop(dates) = Keep(dates)
<1> SUFFICES ASSUME NEW dates \in SUBSET Days PROVE PlanLoop(dates) = Keep(dates)
  OBVIOUS
<1> DEFINE n == Cardinality(dates)
<1>1. n \in Nat /\ n \in 0 .. n
  BY DatesFinite, FS_CardinalityType
<1>2. Visited(dates)[n] = After(dates, n)
  BY <1>1, VisitedAfter
<1>3. \A d \in Remaining(dates) : Rank(dates, d) < n
  BY RankOrder DEF Remaining
<1>4. Keep(dates) = DailyOf(dates) \cup WeeklyOf(dates, n)
  BY <1>3 DEF Keep, DailyOf, WeeklyOf, InWeekly, Remaining
<1>5. QED
  BY <1>2, <1>4 DEF PlanLoop, After

LEMMA DoomedKeys == \A x : Doomed(x) = {k \in KeysOf(x) : k[2] \notin Keep(DatesOf(x))}
<1>1. \A x : DatesOf(x) \in SUBSET Days
  BY DEF DatesOf, KeysOf, Key
<1>2. QED
  BY <1>1, PlanIsWindow DEF Doomed

\* Whatever dates the store holds, the loop over them keeps the windows of their plan.
THEOREM BackupLoopPlansWindow == Spec => []LoopPlansWindow
<1>1. LoopPlansWindow
  <2>1. \A x : DatesOf(x) \in SUBSET Days
    BY DEF DatesOf, KeysOf, Key
  <2>2. QED
    BY <2>1, PlanIsWindow DEF LoopPlansWindow
<1>2. QED
  BY <1>1, PTL

-----------------------------------------------------------------------------
(***************************************************************************)
(* Types.  A run knows its number from its start to its end, and has a     *)
(* source or a prefix left while it is in one of its loops.                *)
(***************************************************************************)

JobInv ==
  \A p \in Runners :
    /\ pc[p] = "upload" => job[p].left # <<>>
    /\ pc[p] \in {"prune", "delete"} => job[p].prefixes # <<>>

TypeInv == TypeOK /\ JobInv

KeyPrefixes == Elements(PruneOrder)

LEMMA NoJobType == NoManifest \in Manifest /\ NoJob \in Job
  BY DEF NoManifest, Manifest, Days, NoJob, Job

LEMMA JobFields ==
  ASSUME NEW j \in Job
  PROVE  /\ j.manifest \in Manifest /\ j.left \in Seq(Sources)
         /\ j.prefixes \in Seq(KeyPrefixes) /\ j.doomed \in SUBSET Key
         /\ j.manifest.run \in Nat /\ j.manifest.date \in Days
  BY DEF Job, Manifest, KeyPrefixes

LEMMA JobUpdates ==
  ASSUME NEW j \in Job
  PROVE  /\ \A group \in SUBSET Sources : Recorded(j, group) \in Job
         /\ \A s \in Sources : Listed(j, s) \in Job
         /\ \A left \in Seq(Sources) : [j EXCEPT !.left = left] \in Job
         /\ \A prefixes \in Seq(KeyPrefixes) : [j EXCEPT !.prefixes = prefixes] \in Job
         /\ \A doomed \in SUBSET Key : [j EXCEPT !.doomed = doomed] \in Job
  BY DEF Job, Manifest, Recorded, Listed, KeyPrefixes

LEMMA HeadTail ==
  ASSUME NEW S, NEW seq \in Seq(S), seq # <<>>
  PROVE  /\ Head(seq) \in S /\ Tail(seq) \in Seq(S)
         /\ Len(seq) > 1 => Tail(seq) # <<>>
<1>1. /\ Head(seq) \in S /\ Tail(seq) \in Seq(S)
      /\ Len(Tail(seq)) = Len(seq) - 1 /\ Len(seq) \in Nat
  BY HeadTailProperties, EmptySeq
<1>2. ASSUME Len(seq) > 1 PROVE Tail(seq) # <<>>
  <2>1. Len(Tail(seq)) # 0
    BY <1>1, <1>2
  <2>2. QED
    BY <2>1, EmptySeq
<1>3. QED
  BY <1>1, <1>2

LEMMA TypeInitial == Init => TypeInv
<1> SUFFICES ASSUME Init PROVE TypeInv
  OBVIOUS
<1>1. 0 \in Days
  BY DEF Days
<1>2. TypeOK
  BY <1>1, NoJobType DEF Init, TypeOK, Labels
<1>3. JobInv
  BY DEF Init, JobInv
<1>4. QED
  BY <1>2, <1>3 DEF TypeInv

\* What Goto needs: a job, and the part of it the label is about.
LEMMA GotoType ==
  ASSUME TypeInv, NEW p \in Runners, NEW label \in Labels, NEW j \in Job,
         label = "upload" => j.left # <<>>,
         label \in {"prune", "delete"} => j.prefixes # <<>>,
         Goto(p, label, j)
  PROVE  /\ pc' \in [Runners -> Labels] /\ job' \in [Runners -> Job]
         /\ JobInv'
<1>1. pc' = [pc EXCEPT ![p] = label] /\ job' = [job EXCEPT ![p] = j]
  BY DEF Goto
<1>2. pc \in [Runners -> Labels] /\ job \in [Runners -> Job]
  BY DEF TypeInv, TypeOK
<1>3. pc' \in [Runners -> Labels] /\ job' \in [Runners -> Job]
  BY <1>1, <1>2
<1>4. ASSUME NEW q \in Runners
      PROVE  /\ pc'[q] = "upload" => job'[q].left # <<>>
             /\ pc'[q] \in {"prune", "delete"} => job'[q].prefixes # <<>>
  <2>1. CASE q = p
    BY <1>1, <1>2, <2>1
  <2>2. CASE q # p
    <3>1. pc'[q] = pc[q] /\ job'[q] = job[q]
      BY <1>1, <1>2, <2>2
    <3>2. QED
      BY <3>1 DEF TypeInv, JobInv
  <2>3. QED
    BY <2>1, <2>2
<1>5. QED
  BY <1>3, <1>4 DEF JobInv

LEMMA PutType ==
  ASSUME TypeInv, NEW p \in Runners, NEW s \in Sources, Put(p, s)
  PROVE  /\ store' \in [Sources -> [Days -> Nat]]
         /\ made' \in [KeyPrefixes -> SUBSET Days]
         /\ settled' \in [KeyPrefixes -> BOOLEAN]
<1>1. job[p].manifest.date \in Days /\ job[p].manifest.run \in Nat
  BY JobFields DEF TypeInv, TypeOK
<1>2. PrefixOf[s] \in KeyPrefixes
  BY DEF KeyPrefixes
<1>3. store' \in [Sources -> [Days -> Nat]]
  BY <1>1 DEF Put, TypeInv, TypeOK
<1>4. made' \in [KeyPrefixes -> SUBSET Days]
  BY <1>1, <1>2 DEF Put, TypeInv, TypeOK, KeyPrefixes
<1>5. settled' \in [KeyPrefixes -> BOOLEAN]
  BY <1>2 DEF Put, TypeInv, TypeOK, KeyPrefixes
<1>6. QED
  BY <1>3, <1>4, <1>5

\* What a run goes on with after a source: the rest of its list, or the next stage.
LEMMA AfterSourceType ==
  ASSUME TypeInv, NEW p \in Runners, pc[p] = "upload", NEW j \in Job
  PROVE  /\ Head(job[p].left) \in Sources
         /\ AfterSource(job[p]) \in Labels \ {"prune", "delete"}
         /\ [j EXCEPT !.left = Tail(job[p].left)] \in Job
         /\ AfterSource(job[p]) = "upload" => Tail(job[p].left) # <<>>
<1>1. job[p].left \in Seq(Sources) /\ job[p].left # <<>>
  BY JobFields DEF TypeInv, TypeOK, JobInv
<1>2. /\ Head(job[p].left) \in Sources /\ Tail(job[p].left) \in Seq(Sources)
      /\ Len(job[p].left) > 1 => Tail(job[p].left) # <<>>
  BY <1>1, HeadTail
<1>3. QED
  BY <1>2, JobUpdates DEF AfterSource, Labels

LEMMA NextPrefixType ==
  ASSUME TypeInv, NEW p \in Runners, pc[p] \in {"prune", "delete"}, NextPrefix(p)
  PROVE  /\ pc' \in [Runners -> Labels] /\ job' \in [Runners -> Job]
         /\ JobInv'
<1> DEFINE j == [job[p] EXCEPT !.prefixes = Tail(@), !.doomed = {}]
<1>1. job[p] \in Job
  BY DEF TypeInv, TypeOK
<1>2. job[p].prefixes \in Seq(KeyPrefixes) /\ job[p].prefixes # <<>>
  BY <1>1, JobFields DEF TypeInv, JobInv
<1>3. Tail(job[p].prefixes) \in Seq(KeyPrefixes)
  BY <1>2, HeadTail
<1>4. j \in Job
  BY <1>1, <1>3 DEF Job, KeyPrefixes
<1>5. CASE j.prefixes = <<>>
  <2>1. Goto(p, "idle", NoJob)
    BY <1>5 DEF NextPrefix
  <2>2. QED
    BY <2>1, GotoType, NoJobType DEF Labels
<1>6. CASE j.prefixes # <<>>
  <2>1. Goto(p, "prune", j)
    BY <1>6 DEF NextPrefix
  <2>2. QED
    BY <2>1, <1>4, <1>6, GotoType DEF Labels
<1>7. QED
  BY <1>5, <1>6

LEMMA RemovedType ==
  ASSUME TypeInv, NEW k \in Key
  PROVE  Removed(k) \in [Sources -> [Days -> Nat]]
<1>1. k[1] \in Sources /\ k[2] \in Days
  BY DEF Key
<1>2. QED
  BY <1>1 DEF Removed, TypeInv, TypeOK

LEMMA TypeRunStep ==
  ASSUME TypeInv, NEW p \in Runners,
         \/ StartRun(p) \/ Upload(p) \/ UploadFails(p) \/ ExportAgents(p) \/ ExportFails(p)
         \/ PutDated(p) \/ PutLatest(p) \/ PutManifestFails(p)
  PROVE  TypeInv'
<1> DEFINE j == job[p]
           s == Head(j.left)
<1>1. j \in Job /\ j.manifest \in Manifest /\ j.manifest.date \in Days
  BY JobFields DEF TypeInv, TypeOK
<1>2. runs \in Nat /\ faults \in Nat
  BY DEF TypeInv, TypeOK
<1>3. CASE StartRun(p)
  <2> DEFINE new == [NoJob EXCEPT !.manifest.run = runs + 1, !.manifest.date = DateOfRun,
                                  !.left = Plain]
  <2>1. new \in Job /\ new.left # <<>>
    <3>1. DateOfRun \in Days /\ runs + 1 \in Nat
      BY <1>2 DEF DateOfRun, TypeInv, TypeOK
    <3>2. QED
      BY <3>1, NoJobType DEF Job, Manifest, NoJob, NoManifest
  <2>2. Goto(p, "upload", new)
    BY <1>3 DEF StartRun
  <2>3. /\ pc' \in [Runners -> Labels] /\ job' \in [Runners -> Job] /\ JobInv'
    BY <2>1, <2>2, GotoType DEF Labels
  <2>4. /\ UNCHANGED <<today, store, dated, latest, faults, made, settled>>
        /\ runs' \in Nat
    BY <1>2, <1>3 DEF StartRun, manifestVars
  <2>5. begun' \in [Days -> Nat]
    <3>1. begun' = [begun EXCEPT ![DateOfRun] = runs + 1] /\ runs + 1 \in Nat
      BY <1>2, <1>3 DEF StartRun
    <3>2. QED
      BY <3>1 DEF TypeInv, TypeOK
  <2> HIDE DEF new
  <2>6. QED
    BY <2>3, <2>4, <2>5 DEF TypeInv, TypeOK
<1>4. CASE Upload(p)
  <2>1. pc[p] = "upload" /\ Put(p, s)
        /\ Goto(p, AfterSource(j), [Listed(j, s) EXCEPT !.left = Tail(@)])
    BY <1>4 DEF Upload
  <2>2. s \in Sources /\ Listed(j, s) \in Job /\ Listed(j, s).left = j.left
    BY <1>1, <2>1, AfterSourceType, JobUpdates DEF Listed, Job
  <2>3. /\ [Listed(j, s) EXCEPT !.left = Tail(@)] \in Job
        /\ [Listed(j, s) EXCEPT !.left = Tail(@)].left = Tail(j.left)
    BY <2>1, <2>2, AfterSourceType DEF Job
  <2>4. pc' \in [Runners -> Labels] /\ job' \in [Runners -> Job] /\ JobInv'
    BY <2>1, <2>2, <2>3, AfterSourceType, GotoType
  <2>5. QED
    BY <1>2, <1>4, <2>1, <2>2, <2>4, PutType
       DEF Upload, manifestVars, TypeInv, TypeOK, KeyPrefixes
<1>5. CASE UploadFails(p)
  <2>1. pc[p] = "upload" /\ (Put(p, s) \/ UNCHANGED <<store, made, settled>>)
        /\ Goto(p, AfterSource(j), [Recorded(j, {s}) EXCEPT !.left = Tail(@)])
    BY <1>5 DEF UploadFails
  <2>2. s \in Sources /\ Recorded(j, {s}) \in Job /\ Recorded(j, {s}).left = j.left
    <3>1. s \in Sources
      BY <1>1, <2>1, AfterSourceType
    <3>2. Recorded(j, {s}) \in Job
      BY <1>1, <3>1, JobUpdates
    <3>3. Recorded(j, {s}).left = j.left
      BY <1>1 DEF Recorded, Job
    <3>4. QED
      BY <3>1, <3>2, <3>3
  <2>3. /\ [Recorded(j, {s}) EXCEPT !.left = Tail(@)] \in Job
        /\ [Recorded(j, {s}) EXCEPT !.left = Tail(@)].left = Tail(j.left)
    BY <2>1, <2>2, AfterSourceType DEF Job
  <2>4. pc' \in [Runners -> Labels] /\ job' \in [Runners -> Job] /\ JobInv'
    BY <2>1, <2>2, <2>3, AfterSourceType, GotoType
  <2>5. /\ store' \in [Sources -> [Days -> Nat]]
        /\ made' \in [KeyPrefixes -> SUBSET Days] /\ settled' \in [KeyPrefixes -> BOOLEAN]
    BY <2>1, <2>2, PutType DEF TypeInv, TypeOK, KeyPrefixes
  <2>6. QED
    <3>1. faults' \in Nat /\ UNCHANGED <<today, dated, latest, runs, begun>>
      <4>1. Fault /\ UNCHANGED <<today, manifestVars, runs, begun>>
        BY <1>5 DEF UploadFails
      <4>2. QED
        BY <1>2, <4>1 DEF Fault, manifestVars
    <3>2. QED
      BY <2>4, <2>5, <3>1 DEF TypeInv, TypeOK, KeyPrefixes
<1>6. CASE ExportAgents(p)
  <2>1. [j EXCEPT !.left = Agents] \in Job /\ [j EXCEPT !.left = Agents].left = Agents
    BY <1>1, JobUpdates DEF Job
  <2>2. pc' \in [Runners -> Labels] /\ job' \in [Runners -> Job] /\ JobInv'
    <3>1. PICK label : label = IF Agents = <<>> THEN "manifest" ELSE "upload"
      OBVIOUS
    <3>2. /\ Goto(p, label, [j EXCEPT !.left = Agents])
          /\ label \in Labels \ {"prune", "delete"} /\ (label = "upload" => Agents # <<>>)
      BY <1>6, <3>1 DEF ExportAgents, Labels
    <3> DEFINE new == [j EXCEPT !.left = Agents]
    <3>3. new \in Job /\ new.left = Agents /\ Goto(p, label, new)
      BY <2>1, <3>2
    <3> HIDE DEF new
    <3>4. QED
      BY <3>2, <3>3, GotoType
  <2>3. QED
    BY <1>6, <2>2 DEF ExportAgents, manifestVars, TypeInv, TypeOK
<1>7. CASE ExportFails(p)
  <2>1. Recorded(j, Elements(Agents)) \in Job
    BY <1>1, JobUpdates DEF Sources
  <2>2. pc' \in [Runners -> Labels] /\ job' \in [Runners -> Job] /\ JobInv'
    BY <1>7, <2>1, GotoType DEF ExportFails, Labels
  <2>3. QED
    BY <1>2, <1>7, <2>2 DEF ExportFails, Fault, manifestVars, TypeInv, TypeOK
<1>8. CASE PutDated(p)
  <2>1. pc' \in [Runners -> Labels] /\ job' \in [Runners -> Job] /\ JobInv'
    BY <1>1, <1>8, GotoType DEF PutDated, Labels
  <2>2. dated' \in [Days -> Manifest]
    BY <1>1, <1>8 DEF PutDated, TypeInv, TypeOK
  <2>3. QED
    BY <1>8, <2>1, <2>2 DEF PutDated, TypeInv, TypeOK
<1>9. StartPrune(j) \in Job /\ StartPrune(j).prefixes # <<>>
  BY <1>1, JobUpdates DEF StartPrune, KeyPrefixes, Job
<1>10. CASE PutLatest(p)
  <2>1. pc' \in [Runners -> Labels] /\ job' \in [Runners -> Job] /\ JobInv'
    BY <1>9, <1>10, GotoType DEF PutLatest, Labels
  <2>2. QED
    BY <1>1, <1>10, <2>1 DEF PutLatest, TypeInv, TypeOK
<1>11. CASE PutManifestFails(p)
  <2>1. pc' \in [Runners -> Labels] /\ job' \in [Runners -> Job] /\ JobInv'
    BY <1>9, <1>11, GotoType DEF PutManifestFails, Labels
  <2>2. dated' \in [Days -> Manifest] /\ latest' \in Manifest
    BY <1>1, <1>11 DEF PutManifestFails, TypeInv, TypeOK
  <2>3. QED
    BY <1>2, <1>11, <2>1, <2>2 DEF PutManifestFails, Fault, TypeInv, TypeOK
<1>12. QED
  BY <1>3, <1>4, <1>5, <1>6, <1>7, <1>8, <1>10, <1>11

LEMMA TypePruneStep ==
  ASSUME TypeInv, NEW p \in Runners,
         ListKeys(p) \/ DeleteObject(p) \/ FinishPrune(p) \/ PruneFails(p) \/ Kill(p)
  PROVE  TypeInv'
<1> DEFINE j == job[p]
<1>1. j \in Job /\ j.doomed \in SUBSET Key
  BY JobFields DEF TypeInv, TypeOK
<1>2. runs \in Nat /\ faults \in Nat
  BY DEF TypeInv, TypeOK
<1>3. pc[p] \in {"prune", "delete"} => Head(j.prefixes) \in KeyPrefixes /\ j.prefixes # <<>>
  BY <1>1, JobFields, HeadTail DEF TypeInv, JobInv
<1>4. CASE ListKeys(p)
  <2> DEFINE new == [j EXCEPT !.doomed = Doomed(Head(j.prefixes))]
  <2>1. Doomed(Head(j.prefixes)) \in SUBSET Key
    BY DEF Doomed, KeysOf
  <2>2. new \in Job /\ new.prefixes # <<>>
    BY <1>1, <1>3, <1>4, <2>1, JobUpdates DEF ListKeys, Job
  <2>3. Goto(p, "delete", new)
    BY <1>4 DEF ListKeys
  <2>4. pc' \in [Runners -> Labels] /\ job' \in [Runners -> Job] /\ JobInv'
    BY <2>2, <2>3, GotoType DEF Labels
  <2>5. QED
    BY <1>4, <2>4 DEF ListKeys, manifestVars, TypeInv, TypeOK
<1>5. CASE DeleteObject(p)
  <2>1. PICK k \in j.doomed :
          store' = Removed(k) /\ Goto(p, "delete", [j EXCEPT !.doomed = @ \ {k}])
    BY <1>5 DEF DeleteObject
  <2> DEFINE new == [j EXCEPT !.doomed = @ \ {k}]
  <2>2. new \in Job /\ new.prefixes # <<>>
    BY <1>1, <1>3, <1>5 DEF DeleteObject, Job
  <2>3. Goto(p, "delete", new)
    BY <2>1
  <2>4. pc' \in [Runners -> Labels] /\ job' \in [Runners -> Job] /\ JobInv'
    BY <2>2, <2>3, GotoType DEF Labels
  <2>5. store' \in [Sources -> [Days -> Nat]]
    BY <1>1, <2>1, RemovedType
  <2>6. QED
    BY <1>5, <2>4, <2>5 DEF DeleteObject, manifestVars, TypeInv, TypeOK
<1>6. CASE FinishPrune(p)
  <2>1. pc' \in [Runners -> Labels] /\ job' \in [Runners -> Job] /\ JobInv'
    BY <1>6, NextPrefixType DEF FinishPrune
  <2>2. QED
    BY <1>3, <1>6, <2>1 DEF FinishPrune, manifestVars, TypeInv, TypeOK, KeyPrefixes
<1>7. CASE PruneFails(p)
  <2>1. pc' \in [Runners -> Labels] /\ job' \in [Runners -> Job] /\ JobInv'
    BY <1>7, NextPrefixType DEF PruneFails
  <2>2. store' \in [Sources -> [Days -> Nat]]
    BY <1>1, <1>7, RemovedType DEF PruneFails, TypeInv, TypeOK
  <2>3. QED
    BY <1>2, <1>7, <2>1, <2>2 DEF PruneFails, Fault, manifestVars, TypeInv, TypeOK
<1>8. CASE Kill(p)
  <2>1. pc' \in [Runners -> Labels] /\ job' \in [Runners -> Job] /\ JobInv'
    BY <1>8, NoJobType, GotoType DEF Kill, Labels
  <2>2. QED
    BY <1>2, <1>8, <2>1 DEF Kill, Fault, manifestVars, TypeInv, TypeOK
<1>9. QED
  BY <1>4, <1>5, <1>6, <1>7, <1>8

LEMMA TypeStep == TypeInv /\ [Next]_vars => TypeInv'
<1> SUFFICES ASSUME TypeInv, [Next]_vars PROVE TypeInv'
  OBVIOUS
<1>1. CASE NextDay
  <2>1. today' \in Days
    BY <1>1 DEF NextDay, Days, TypeInv, TypeOK
  <2>2. QED
    BY <1>1, <2>1 DEF NextDay, manifestVars, TypeInv, TypeOK, JobInv
<1>2. CASE UNCHANGED vars
  BY <1>2 DEF vars, manifestVars, TypeInv, TypeOK, JobInv
<1>3. QED
  BY <1>1, <1>2, TypeRunStep, TypePruneStep DEF Next

\* Whatever fails and however the runs overlap, every variable keeps its type: a run
\* never takes the head of an empty list of sources or prefixes.
THEOREM BackupTypeCorrect == Spec => []TypeOK
<1>1. Spec => []TypeInv
  BY TypeInitial, TypeStep, PTL DEF Spec
<1>2. TypeInv => TypeOK
  BY DEF TypeInv
<1>3. QED
  BY <1>1, <1>2, PTL

-----------------------------------------------------------------------------
(***************************************************************************)
(* The window.  A key is condemned on a listing that may be old when the   *)
(* DELETE goes out, other runs having put and deleted in between; but a    *)
(* date once beyond the window of all that was made is beyond it for good. *)
(***************************************************************************)

Beyond(k) == k[2] \in made[PrefixOf[k[1]]] \ Keep(made[PrefixOf[k[1]]])

StoreOK == \A s \in Sources : \A d \in Days : store[s][d] # 0 => d \in made[PrefixOf[s]]

DoomedOK == \A p \in Runners : \A k \in job[p].doomed : Beyond(k)

NumberedOK ==
  \A p \in Runners : pc[p] \in {"upload", "export"} => job[p].manifest.run # 0

WindowInv == TypeInv /\ StoreOK /\ DoomedOK /\ NumberedOK /\ WindowKept

Held(objects, x) == {d \in Days : \E s \in Sources : PrefixOf[s] = x /\ objects[s][d] # 0}

LEMMA DatesHeld ==
  ASSUME NEW x
  PROVE  DatesOf(x) = Held(store, x) /\ DatesOf(x)' = Held(store', x)
<1> DEFINE keys(objects) == {k \in Key : PrefixOf[k[1]] = x /\ objects[k[1]][k[2]] # 0}
           dates(objects) == {k[2] : k \in keys(objects)}
<1>1. ASSUME NEW objects
      PROVE  dates(objects) = Held(objects, x)
  <2>1. ASSUME NEW d \in dates(objects)
        PROVE  d \in Held(objects, x)
    BY DEF Key, Held
  <2>2. ASSUME NEW d \in Held(objects, x)
        PROVE  d \in dates(objects)
    <3>1. PICK s \in Sources : PrefixOf[s] = x /\ objects[s][d] # 0 /\ d \in Days
      BY DEF Held
    <3>2. <<s, d>> \in keys(objects) /\ <<s, d>>[2] = d
      BY <3>1 DEF Key
    <3>3. QED
      BY <3>2
  <2>3. QED
    BY <2>1, <2>2
<1>2. DatesOf(x) = dates(store) /\ DatesOf(x)' = dates(store')
  BY DEF DatesOf, KeysOf
<1>3. QED
  BY <1>1, <1>2

\* A plan made with one date more keeps of the others only what was kept already.
LEMMA KeepWithNew ==
  ASSUME NEW dates \in SUBSET Days, NEW new \in Days, NEW date \in dates,
         date \in Keep(dates \cup {new})
  PROVE  date \in Keep(dates)
<1>1. IsFiniteSet(dates \cup {new}) /\ dates \in SUBSET (dates \cup {new})
  BY DatesFinite
<1>2. QED
  BY <1>1, KeepMonotone

LEMMA PutWindow ==
  ASSUME TypeInv, StoreOK, WindowKept, NEW p \in Runners, NEW s \in Sources, Put(p, s),
         job[p].manifest.run # 0
  PROVE  /\ StoreOK' /\ WindowKept'
         /\ \A k \in Key : Beyond(k) => Beyond(k)'
<1> DEFINE m == job[p].manifest
           x == PrefixOf[s]
<1>1. m.date \in Days /\ x \in KeyPrefixes
  BY JobFields DEF TypeInv, TypeOK, KeyPrefixes
<1>2. /\ store' = [store EXCEPT ![s][m.date] = m.run]
      /\ made' = [made EXCEPT ![x] = @ \cup {m.date}]
  BY DEF Put
<1>3. store \in [Sources -> [Days -> Nat]] /\ made \in [KeyPrefixes -> SUBSET Days]
  BY DEF TypeInv, TypeOK, KeyPrefixes
<1>4. /\ made'[x] = made[x] \cup {m.date}
      /\ \A y \in KeyPrefixes \ {x} : made'[y] = made[y]
  BY <1>1, <1>2, <1>3
<1>5. \A t \in Sources : \A d \in Days :
        store'[t][d] = IF t = s /\ d = m.date THEN m.run ELSE store[t][d]
  BY <1>1, <1>2, <1>3
<1>6. StoreOK'
  BY <1>4, <1>5 DEF StoreOK, KeyPrefixes
<1>7. \A y \in KeyPrefixes : Held(store, y) \subseteq Held(store', y)
  BY <1>5 DEF Held
<1>8. m.date \in Held(store', x)
  BY <1>1, <1>5 DEF Held
<1>9. ASSUME NEW y \in KeyPrefixes, NEW d \in Keep(made'[y])
      PROVE  d \in Held(store', y)
  <2>1. made[y] \in SUBSET Days /\ Keep(made[y]) \subseteq Held(store, y)
    BY <1>3, DatesHeld DEF WindowKept, KeyPrefixes
  <2>2. CASE y = x /\ d = m.date
    BY <1>8, <2>2
  <2>3. CASE y # x
    BY <1>4, <1>7, <1>9, <2>1, <2>3
  <2>4. CASE y = x /\ d # m.date
    <3>1. d \in made[x] /\ d \in Keep(made[x] \cup {m.date})
      BY <1>4, <1>9, <2>4 DEF Keep
    <3>2. d \in Keep(made[x])
      BY <1>1, <2>1, <2>4, <3>1, KeepWithNew
    <3>3. QED
      BY <1>7, <2>1, <2>4, <3>2
  <2>5. QED
    BY <2>2, <2>3, <2>4
<1>10. WindowKept'
  BY <1>9, DatesHeld DEF WindowKept, KeyPrefixes
<1>11. ASSUME NEW k \in Key, Beyond(k)
       PROVE  Beyond(k)'
  <2> DEFINE y == PrefixOf[k[1]]
  <2>1. y \in KeyPrefixes /\ k[2] \in made[y] /\ k[2] \notin Keep(made[y])
    BY <1>11 DEF Beyond, Key, KeyPrefixes
  <2>2. CASE y # x
    BY <1>4, <2>1, <2>2 DEF Beyond
  <2>3. CASE y = x
    <3>1. made[x] \in SUBSET Days
      BY <1>1, <1>3
    <3>2. k[2] \notin Keep(made[x] \cup {m.date})
      BY <1>1, <2>1, <2>3, <3>1, KeepWithNew
    <3>3. QED
      BY <1>4, <2>1, <2>3, <3>2 DEF Beyond
  <2>4. QED
    BY <2>2, <2>3
<1>12. QED
  BY <1>6, <1>10, <1>11

LEMMA RemovedWindow ==
  ASSUME TypeInv, StoreOK, WindowKept, NEW k \in Key, Beyond(k),
         store' = Removed(k), made' = made
  PROVE  StoreOK' /\ WindowKept'
<1>1. k[1] \in Sources /\ k[2] \in Days
  BY DEF Key
<1>2. \A t \in Sources : \A d \in Days :
        store'[t][d] = IF t = k[1] /\ d = k[2] THEN 0 ELSE store[t][d]
  BY <1>1 DEF Removed, TypeInv, TypeOK
<1>3. StoreOK'
  BY <1>2 DEF StoreOK
<1>4. ASSUME NEW y \in KeyPrefixes, NEW d \in Keep(made[y])
      PROVE  d \in Held(store', y)
  <2>1. d \in Held(store, y)
    BY <1>4, DatesHeld DEF WindowKept, KeyPrefixes
  <2>2. PICK t \in Sources : PrefixOf[t] = y /\ store[t][d] # 0 /\ d \in Days
    BY <2>1 DEF Held
  <2>3. ~ (t = k[1] /\ d = k[2])
    BY <1>4, <2>2 DEF Beyond
  <2>4. QED
    BY <1>2, <2>2, <2>3 DEF Held
<1>5. WindowKept'
  BY <1>4, DatesHeld DEF WindowKept, KeyPrefixes
<1>6. QED
  BY <1>3, <1>5

LEMMA ListedWindow ==
  ASSUME TypeInv, StoreOK, NEW x \in KeyPrefixes, NEW k \in Doomed(x)
  PROVE  Beyond(k)
<1>1. k \in Key /\ PrefixOf[k[1]] = x /\ k[2] \in DatesOf(x) /\ k[2] \notin Keep(DatesOf(x))
  BY DoomedKeys DEF KeysOf, DatesOf
<1>2. DatesOf(x) \in SUBSET made[x] /\ made[x] \in SUBSET Days
  BY DatesHeld DEF Held, StoreOK, TypeInv, TypeOK, KeyPrefixes
<1>3. k[2] \notin Keep(made[x])
  BY <1>1, <1>2, DatesFinite, KeepMonotone
<1>4. QED
  BY <1>1, <1>2, <1>3 DEF Beyond

\* A run goes on with keys that are beyond the window.
LEMMA GotoWindow ==
  ASSUME WindowInv, NEW p \in Runners, NEW label, NEW j, Goto(p, label, j),
         \A k \in Key : Beyond(k) => Beyond(k)',
         \A k \in j.doomed : Beyond(k)',
         label \in {"upload", "export"} => j.manifest.run # 0
  PROVE  DoomedOK' /\ NumberedOK'
<1>1. pc' = [pc EXCEPT ![p] = label] /\ job' = [job EXCEPT ![p] = j]
  BY DEF Goto
<1>2. pc \in [Runners -> Labels] /\ job \in [Runners -> Job]
  BY DEF WindowInv, TypeInv, TypeOK
<1>3. ASSUME NEW q \in Runners
      PROVE  /\ \A k \in job'[q].doomed : Beyond(k)'
             /\ pc'[q] \in {"upload", "export"} => job'[q].manifest.run # 0
  <2>1. CASE q = p
    <3>1. pc'[q] = label /\ job'[q] = j
      BY <1>1, <1>2, <2>1
    <3>2. QED
      BY <3>1
  <2>2. CASE q # p
    <3>1. pc'[q] = pc[q] /\ job'[q] = job[q]
      BY <1>1, <1>2, <2>2
    <3>2. job[q].doomed \in SUBSET Key
      BY <1>2, JobFields
    <3>3. QED
      BY <3>1, <3>2 DEF WindowInv, DoomedOK, NumberedOK
  <2>3. QED
    BY <2>1, <2>2
<1>4. QED
  BY <1>3 DEF DoomedOK, NumberedOK

LEMMA WindowInitial == Init => WindowInv
<1> SUFFICES ASSUME Init PROVE WindowInv
  OBVIOUS
<1>1. TypeInv
  BY TypeInitial
<1>2. StoreOK /\ NumberedOK
  BY DEF Init, StoreOK, NumberedOK
<1>3. DoomedOK
  BY DEF Init, NoJob, DoomedOK
<1>4. WindowKept
  BY DEF Init, Keep, WindowKept
<1>5. QED
  BY <1>1, <1>2, <1>3, <1>4 DEF WindowInv

\* A step that leaves the objects as they are.
LEMMA WindowQuiet ==
  ASSUME WindowInv, TypeInv', UNCHANGED <<store, made>>,
         NEW p \in Runners, NEW label, NEW j, Goto(p, label, j),
         \A k \in j.doomed : Beyond(k),
         label \in {"upload", "export"} => j.manifest.run # 0
  PROVE  WindowInv'
<1>1. \A k : Beyond(k)' = Beyond(k)
  BY DEF Beyond
<1>2. DoomedOK' /\ NumberedOK'
  BY <1>1, GotoWindow
<1>3. StoreOK' /\ WindowKept'
  BY DatesHeld DEF WindowInv, StoreOK, WindowKept
<1>4. QED
  BY <1>2, <1>3 DEF WindowInv

\* A step that goes on to the next prefix, or to the end of the run.
LEMMA NextPrefixWindow ==
  ASSUME WindowInv, NEW p \in Runners, NextPrefix(p), UNCHANGED made
  PROVE  DoomedOK' /\ NumberedOK'
<1> DEFINE j == [job[p] EXCEPT !.prefixes = Tail(@), !.doomed = {}]
<1>1. j.doomed = {} /\ NoJob.doomed = {}
  BY DEF NoJob, WindowInv, TypeInv, TypeOK, Job
<1>2. \A k : Beyond(k)' = Beyond(k)
  BY DEF Beyond
<1>3. Goto(p, "idle", NoJob) \/ Goto(p, "prune", j)
  BY DEF NextPrefix
<1>4. QED
  BY <1>1, <1>2, <1>3, GotoWindow

LEMMA WindowUploadStep ==
  ASSUME WindowInv, TypeInv', NEW p \in Runners, Upload(p) \/ UploadFails(p)
  PROVE  WindowInv'
<1> DEFINE j == job[p]
           s == Head(j.left)
<1>1. /\ pc[p] = "upload" /\ j \in Job /\ s \in Sources
      /\ j.manifest.run # 0 /\ \A k \in j.doomed : Beyond(k)
  BY AfterSourceType
     DEF Upload, UploadFails, WindowInv, TypeInv, TypeOK, DoomedOK, NumberedOK
<1>2. PICK new \in {[Listed(j, s) EXCEPT !.left = Tail(@)],
                   [Recorded(j, {s}) EXCEPT !.left = Tail(@)]} :
        /\ Goto(p, AfterSource(j), new)
        /\ Put(p, s) \/ UNCHANGED <<store, made>>
  BY DEF Upload, UploadFails
<1>3. new.doomed = j.doomed /\ new.manifest.run = j.manifest.run
  <2>1. j.manifest \in Manifest
    BY <1>1, JobFields
  <2>2. /\ Listed(j, s).manifest.run = j.manifest.run
        /\ Listed(j, s).doomed = j.doomed /\ Listed(j, s) \in Job
    BY <1>1, <2>1, JobUpdates DEF Listed, Job, Manifest
  <2>3. /\ Recorded(j, {s}).manifest.run = j.manifest.run
        /\ Recorded(j, {s}).doomed = j.doomed /\ Recorded(j, {s}) \in Job
    <3>1. Recorded(j, {s}) \in Job
      BY <1>1, JobUpdates
    <3>2. QED
      BY <1>1, <2>1, <3>1 DEF Recorded, Job, Manifest
  <2>4. QED
    BY <1>2, <2>2, <2>3 DEF Job
<1>4. CASE UNCHANGED <<store, made>>
  BY <1>1, <1>2, <1>3, <1>4, WindowQuiet
<1>5. CASE Put(p, s)
  <2>1. StoreOK' /\ WindowKept' /\ \A k \in Key : Beyond(k) => Beyond(k)'
    BY <1>1, <1>5, PutWindow DEF WindowInv
  <2>2. \A k \in new.doomed : Beyond(k)'
    BY <1>1, <1>3, <2>1, JobFields
  <2>3. DoomedOK' /\ NumberedOK'
    BY <1>1, <1>2, <1>3, <2>1, <2>2, GotoWindow
  <2>4. QED
    BY <2>1, <2>3 DEF WindowInv
<1>6. QED
  BY <1>2, <1>4, <1>5

LEMMA WindowPruneStep ==
  ASSUME WindowInv, TypeInv', NEW p \in Runners,
         ListKeys(p) \/ DeleteObject(p) \/ FinishPrune(p) \/ PruneFails(p)
  PROVE  WindowInv'
<1> DEFINE j == job[p]
<1>1. j \in Job /\ j.doomed \in SUBSET Key /\ \A k \in j.doomed : Beyond(k)
  BY JobFields DEF WindowInv, TypeInv, TypeOK, DoomedOK
<1>2. CASE ListKeys(p)
  <2> DEFINE new == [j EXCEPT !.doomed = Doomed(Head(j.prefixes))]
  <2>1. Head(j.prefixes) \in KeyPrefixes
    BY <1>1, <1>2, JobFields, HeadTail DEF ListKeys, WindowInv, TypeInv, JobInv
  <2>2. \A k \in new.doomed : Beyond(k)
    BY <1>1, <2>1, ListedWindow DEF WindowInv, Job
  <2>3. Goto(p, "delete", new) /\ UNCHANGED <<store, made>>
    BY <1>2 DEF ListKeys
  <2>4. QED
    BY <2>2, <2>3, WindowQuiet
<1>3. CASE DeleteObject(p)
  <2>1. PICK k \in j.doomed :
          store' = Removed(k) /\ Goto(p, "delete", [j EXCEPT !.doomed = @ \ {k}])
    BY <1>3 DEF DeleteObject
  <2> DEFINE new == [j EXCEPT !.doomed = @ \ {k}]
  <2>2. made' = made
    BY <1>3 DEF DeleteObject
  <2>3. StoreOK' /\ WindowKept'
    BY <1>1, <2>1, <2>2, RemovedWindow DEF WindowInv
  <2>4. new.doomed \subseteq j.doomed
    BY <1>1 DEF Job
  <2>5. \A l : Beyond(l)' = Beyond(l)
    BY <2>2 DEF Beyond
  <2>6. Goto(p, "delete", new)
    BY <2>1
  <2>7. DoomedOK' /\ NumberedOK'
    BY <1>1, <2>4, <2>5, <2>6, GotoWindow
  <2>8. QED
    BY <2>3, <2>7 DEF WindowInv
<1>4. CASE FinishPrune(p)
  <2>1. NextPrefix(p) /\ UNCHANGED <<store, made>>
    BY <1>4 DEF FinishPrune
  <2>2. StoreOK' /\ WindowKept'
    BY <2>1, DatesHeld DEF WindowInv, StoreOK, WindowKept
  <2>3. QED
    BY <2>1, <2>2, NextPrefixWindow DEF WindowInv
<1>5. CASE PruneFails(p)
  <2>1. NextPrefix(p) /\ made' = made /\ store' \in {store} \cup {Removed(k) : k \in j.doomed}
    BY <1>5 DEF PruneFails
  <2>2. CASE store' = store
    BY <2>1, <2>2, DatesHeld, NextPrefixWindow DEF WindowInv, StoreOK, WindowKept
  <2>3. CASE \E k \in j.doomed : store' = Removed(k)
    <3>1. StoreOK' /\ WindowKept'
      BY <1>1, <2>1, <2>3, RemovedWindow DEF WindowInv
    <3>2. QED
      BY <2>1, <3>1, NextPrefixWindow DEF WindowInv
  <2>4. QED
    BY <2>1, <2>2, <2>3
<1>6. QED
  BY <1>2, <1>3, <1>4, <1>5

LEMMA WindowOtherStep ==
  ASSUME WindowInv, TypeInv', NEW p \in Runners,
         \/ StartRun(p) \/ ExportAgents(p) \/ ExportFails(p)
         \/ PutDated(p) \/ PutLatest(p) \/ PutManifestFails(p) \/ Kill(p)
  PROVE  WindowInv'
<1> DEFINE j == job[p]
           start == [NoJob EXCEPT !.manifest.run = runs + 1, !.manifest.date = DateOfRun,
                                  !.left = Plain]
<1>1. j \in Job /\ \A k \in j.doomed : Beyond(k)
  BY DEF WindowInv, TypeInv, TypeOK, DoomedOK
<1>2. UNCHANGED <<store, made>>
  BY DEF StartRun, ExportAgents, ExportFails, PutDated, PutLatest, PutManifestFails, Kill
<1>3. CASE StartRun(p)
  <2>1. Goto(p, "upload", start)
    BY <1>3 DEF StartRun
  <2>2. start.doomed = {} /\ start.manifest.run = runs + 1
    BY DEF NoJob, NoManifest
  <2>3. runs + 1 # 0
    BY DEF WindowInv, TypeInv, TypeOK
  <2>4. QED
    BY <1>2, <2>1, <2>2, <2>3, WindowQuiet
<1>4. CASE ExportAgents(p)
  <2> DEFINE new == [j EXCEPT !.left = Agents]
  <2>1. new.doomed = j.doomed /\ new.manifest = j.manifest
    BY <1>1 DEF Job
  <2>2. PICK label : Goto(p, label, new)
    BY <1>4 DEF ExportAgents
  <2>3. j.manifest.run # 0
    BY <1>4 DEF ExportAgents, WindowInv, NumberedOK
  <2>4. QED
    BY <1>1, <1>2, <2>1, <2>2, <2>3, WindowQuiet
<1>5. CASE ExportFails(p)
  <2>1. Recorded(j, Elements(Agents)).doomed = j.doomed
    BY <1>1 DEF Recorded, Job
  <2>2. Goto(p, "manifest", Recorded(j, Elements(Agents)))
    BY <1>5 DEF ExportFails
  <2>3. QED
    BY <1>1, <1>2, <2>1, <2>2, WindowQuiet
<1>6. CASE PutDated(p) \/ PutLatest(p) \/ PutManifestFails(p)
  <2>1. StartPrune(j).doomed = j.doomed
    BY <1>1 DEF StartPrune, Job
  <2>2. Goto(p, "latest", j) \/ Goto(p, "prune", StartPrune(j))
    BY <1>6 DEF PutDated, PutLatest, PutManifestFails
  <2>3. QED
    BY <1>1, <1>2, <2>1, <2>2, WindowQuiet
<1>7. CASE Kill(p)
  <2>1. NoJob.doomed = {}
    BY DEF NoJob
  <2>2. QED
    BY <1>2, <1>7, <2>1, WindowQuiet DEF Kill
<1>8. QED
  BY <1>3, <1>4, <1>5, <1>6, <1>7

LEMMA WindowStep == WindowInv /\ [Next]_vars => WindowInv'
<1> SUFFICES ASSUME WindowInv, [Next]_vars PROVE WindowInv'
  OBVIOUS
<1>1. TypeInv'
  BY TypeStep DEF WindowInv
<1>2. CASE NextDay \/ UNCHANGED vars
  <2>1. UNCHANGED <<store, made, pc, job>>
    BY <1>2 DEF NextDay, vars
  <2>2. StoreOK' /\ WindowKept'
    BY <2>1, DatesHeld DEF WindowInv, StoreOK, WindowKept
  <2>3. DoomedOK' /\ NumberedOK'
    BY <2>1 DEF WindowInv, DoomedOK, NumberedOK, Beyond
  <2>4. QED
    BY <1>1, <2>2, <2>3 DEF WindowInv
<1>3. QED
  BY <1>1, <1>2, WindowUploadStep, WindowPruneStep, WindowOtherStep DEF Next

\* No failure, no kill and no overlap of runs makes the retention of pruneRetention
\* delete a date that planRetention, given every backup there ever was, would keep.
THEOREM BackupWindowKept == Spec => []WindowKept
<1>1. Spec => []WindowInv
  BY WindowInitial, WindowStep, PTL DEF Spec
<1>2. WindowInv => WindowKept
  BY DEF WindowInv
<1>3. QED
  BY <1>1, <1>2, PTL


-----------------------------------------------------------------------------
(***************************************************************************)
(* A plan depends on nothing that an earlier plan gave up: made of any     *)
(* dates between those kept and all there were, it keeps the same.         *)
(***************************************************************************)

\* What the daily window of fewer dates holds, that of all of them holds.
LEMMA DailyOfKept ==
  ASSUME NEW all \in SUBSET Days, NEW some \in SUBSET all, Keep(all) \subseteq some,
         NEW date \in some
  PROVE  InDaily(some, date) <=> InDaily(all, date)
<1>1. IsFiniteSet(all) /\ IsFiniteSet(some)
  BY DatesFinite
<1>2. ASSUME InDaily(some, date), ~ InDaily(all, date)
      PROVE  FALSE
  <2>1. PICK last \in Remaining(all) : \A d \in Remaining(all) : d <= last
    <3>1. Remaining(all) \in SUBSET Days /\ Remaining(all) # {}
      BY <1>2 DEF Remaining
    <3>2. QED
      BY <3>1, NewestDate
  <2>0. \A d \in all : d \in Nat
    BY DEF Days
  <2>2. /\ date \in Nat /\ last \in Nat /\ date <= last /\ ~ InDaily(all, last)
    <3>1. date \in Remaining(all) /\ last \in all /\ ~ InDaily(all, last)
      BY <1>2, <2>1 DEF Remaining
    <3>2. QED
      BY <2>0, <2>1, <3>1
  <2>3. Newer(all, last) \subseteq some
    <3>1. ASSUME NEW d \in Newer(all, last)
          PROVE  d \in some
      <4>1. d \in all /\ d > last /\ d \in Nat
        BY <2>0 DEF Newer
      <4>2. d \notin Remaining(all)
        BY <2>1, <2>2, <4>1
      <4>3. QED
        BY <4>1, <4>2 DEF Remaining, Keep
    <3>2. QED
      BY <3>1
  <2>4. Newer(all, last) \in SUBSET Newer(some, date)
    <3>1. ASSUME NEW d \in Newer(all, last)
          PROVE  d \in Newer(some, date)
      <4>1. d \in some /\ d > last /\ d \in Nat
        BY <2>0, <2>3 DEF Newer
      <4>2. d > date
        BY <2>2, <4>1
      <4>3. QED
        BY <4>1, <4>2 DEF Newer
    <3>2. QED
      BY <3>1
  <2>5. /\ Cardinality(Newer(all, last)) <= Cardinality(Newer(some, date))
        /\ Cardinality(Newer(all, last)) \in Nat /\ Cardinality(Newer(some, date)) \in Nat
    BY <1>1, <2>4, NewerType, FS_Subset
  <2>6. QED
    BY <1>2, <2>2, <2>5 DEF InDaily
<1>3. QED
  BY <1>1, <1>2, DailyMonotone

\* A date that has too many weeks before it has as many of them in what is kept.
LEMMA WeeksOfKept ==
  ASSUME NEW all \in SUBSET Days, NEW some \in SUBSET all, Keep(all) \subseteq some,
         NEW date \in Remaining(some), NEW first \in Firsts(Remaining(all)), date <= first,
         ~ InWeekly(all, first)
  PROVE  ~ (Cardinality(Weeks(Newer(Remaining(some), date))) < RetainWeekly)
<1> DEFINE rest == Remaining(all)
           left == {d \in Firsts(rest) : ~ InWeekly(all, d)}
<1>1. left \in SUBSET Days /\ rest \in SUBSET Days /\ first \in left
  BY DEF Firsts, Remaining
<1>2. PICK last \in left : \A d \in left : d <= last
  BY <1>1, NewestDate
<1>3. /\ date \in Nat /\ last \in Nat /\ first \in Nat /\ date <= last
      /\ \A d \in rest : d \in Nat
  BY <1>1, <1>2 DEF Days, Remaining
<1>4. ASSUME NEW d \in Newer(rest, last)
      PROVE  Week(d) \in Weeks(Newer(Remaining(some), date))
  <2>1. d \in rest
    BY DEF Newer
  <2>2. PICK f \in Firsts(rest) : Week(f) = Week(d) /\ d <= f
    BY <1>1, <2>1, FirstOfWeek
  <2>3. f \in rest /\ f > last /\ d \in Nat
    BY <1>3, <2>2 DEF Firsts, Newer
  <2>4. InWeekly(all, f)
    BY <1>2, <1>3, <2>2, <2>3
  <2>5. f \in some
    BY <2>3, <2>4 DEF Keep, Remaining
  <2>6. f \in Remaining(some)
    BY <2>3, <2>5, DailyOfKept DEF Remaining
  <2>7. f \in Newer(Remaining(some), date)
    BY <1>3, <2>3, <2>6 DEF Newer
  <2>8. QED
    BY <2>2, <2>7 DEF Weeks
<1>5. Weeks(Newer(rest, last)) \in SUBSET Weeks(Newer(Remaining(some), date))
  BY <1>4 DEF Weeks
<1>6. IsFiniteSet(Remaining(some)) /\ IsFiniteSet(rest)
  BY DatesFinite DEF Remaining
<1>7. /\ IsFiniteSet(Weeks(Newer(Remaining(some), date)))
      /\ Cardinality(Weeks(Newer(Remaining(some), date))) \in Nat
      /\ Cardinality(Weeks(Newer(rest, last))) \in Nat
  BY <1>6, NewerType, WeeksType
<1>8. Cardinality(Weeks(Newer(rest, last))) <= Cardinality(Weeks(Newer(Remaining(some), date)))
  BY <1>5, <1>7, FS_Subset
<1>9. ~ (Cardinality(Weeks(Newer(rest, last))) < RetainWeekly)
  BY <1>2 DEF Firsts, InWeekly
<1>10. QED
  BY <1>7, <1>8, <1>9

LEMMA KeepOfKept ==
  ASSUME NEW all \in SUBSET Days, NEW some \in SUBSET all, Keep(all) \subseteq some
  PROVE  Keep(some) = Keep(all)
<1>1. Keep(all) \subseteq Keep(some)
  BY DatesFinite, KeepMonotone DEF Keep
<1>2. ASSUME NEW date \in Keep(some)
      PROVE  date \in Keep(all)
  <2>1. date \in some /\ date \in all
    BY DEF Keep
  <2>2. CASE InDaily(some, date)
    BY <2>1, <2>2, DailyOfKept DEF Keep
  <2>3. CASE ~ InDaily(some, date)
    <3>1. InWeekly(some, date) /\ date \in Remaining(some)
      BY <2>3 DEF Keep, InWeekly
    <3>2. /\ Cardinality(Weeks(Newer(Remaining(some), date))) < RetainWeekly
          /\ \A d \in Newer(Remaining(some), date) : Week(d) # Week(date)
      BY <3>1 DEF InWeekly
    <3>3. date \in Remaining(all) /\ Remaining(all) \in SUBSET Days
      BY <2>1, <2>3, DailyOfKept DEF Remaining
    <3>4. PICK first \in Firsts(Remaining(all)) : Week(first) = Week(date) /\ date <= first
      BY <3>3, FirstOfWeek
    <3>5. InWeekly(all, first)
      BY <3>1, <3>2, <3>4, WeeksOfKept
    <3>6. first \in Remaining(all) /\ first \in some /\ first \in Remaining(some)
      <4>1. first \in Remaining(all) /\ first \in all
        BY DEF Firsts, Remaining
      <4>2. first \in some
        BY <3>5, <4>1 DEF Keep
      <4>3. QED
        BY <4>1, <4>2, DailyOfKept DEF Remaining
    <3>7. first = date
      <4>1. first \in Nat /\ date \in Nat
        BY <2>1, <3>6 DEF Days
      <4>2. first \notin Newer(Remaining(some), date)
        BY <3>2, <3>4
      <4>3. QED
        BY <3>4, <3>6, <4>1, <4>2 DEF Newer
    <3>8. QED
      BY <2>1, <3>5, <3>7 DEF Keep
  <2>4. QED
    BY <2>2, <2>3
<1>3. QED
  BY <1>1, <1>2


-----------------------------------------------------------------------------
(***************************************************************************)
(* One run at a time.  While a prune deletes, nothing is put: what is left *)
(* of a prefix is condemned or in the window of all that was made, and     *)
(* when no key is condemned any more the window alone is left.             *)
(***************************************************************************)

OneRunner == \A p, q \in Runners : p = q

Prefix(p) == Head(job[p].prefixes)

InWindow(k) == k[2] \in Keep(made[PrefixOf[k[1]]])

PrunedOK ==
  \A p \in Runners : pc[p] = "delete" =>
    \A k \in KeysOf(Prefix(p)) : k \in job[p].doomed \/ InWindow(k)

OnlyInv == WindowInv /\ PrunedOK /\ WindowOnly

\* A prefix whose dates all are in the window holds the window and nothing else.
LEMMA WindowAlone ==
  ASSUME WindowInv, NEW x \in KeyPrefixes, \A k \in KeysOf(x) : InWindow(k)
  PROVE  DatesOf(x) = Keep(made[x])
<1>1. DatesOf(x) \subseteq Keep(made[x])
  BY DEF DatesOf, KeysOf, InWindow
<1>2. QED
  BY <1>1 DEF WindowInv, WindowKept, KeyPrefixes

\* What a listing does not condemn is in the window of all that was ever made.
LEMMA ListedPruned ==
  ASSUME WindowInv, NEW x \in KeyPrefixes, NEW k \in KeysOf(x), k \notin Doomed(x)
  PROVE  InWindow(k)
<1>1. PrefixOf[k[1]] = x /\ k[2] \in Keep(DatesOf(x))
  BY DoomedKeys DEF KeysOf
<1>2. /\ made[x] \in SUBSET Days /\ DatesOf(x) \in SUBSET made[x]
      /\ Keep(made[x]) \subseteq DatesOf(x)
  BY DatesHeld DEF Held, StoreOK, WindowInv, WindowKept, TypeInv, TypeOK, KeyPrefixes
<1>3. Keep(DatesOf(x)) = Keep(made[x])
  BY <1>2, KeepOfKept
<1>4. QED
  BY <1>1, <1>3 DEF InWindow

\* A deletion leaves a prefix that nothing was put under since its prune as it is.
LEMMA RemovedOnly ==
  ASSUME OnlyInv, NEW k \in Key, Beyond(k), store' = Removed(k), UNCHANGED <<made, settled>>
  PROVE  /\ WindowOnly'
         /\ \A x : KeysOf(x)' \subseteq KeysOf(x) \ {k}
<1>1. k[1] \in Sources /\ k[2] \in Days
  BY DEF Key
<1>2. \A t \in Sources : \A d \in Days :
        store'[t][d] = IF t = k[1] /\ d = k[2] THEN 0 ELSE store[t][d]
  BY <1>1 DEF Removed, OnlyInv, WindowInv, TypeInv, TypeOK
<1>3. \A l \in Key : l[1] \in Sources /\ l[2] \in Days /\ l = <<l[1], l[2]>>
  BY DEF Key
<1>4. \A x : KeysOf(x)' \subseteq KeysOf(x) \ {k}
  <2> SUFFICES ASSUME NEW x, NEW l \in Key, PrefixOf[l[1]] = x, store'[l[1]][l[2]] # 0
               PROVE  l # k /\ store[l[1]][l[2]] # 0
    BY DEF KeysOf
  <2>1. QED
    BY <1>2, <1>3
<1>5. ASSUME NEW x \in KeyPrefixes, settled[x]
      PROVE  DatesOf(x)' = Keep(made[x])
  <2>1. DatesOf(x) = Keep(made[x])
    BY <1>5 DEF OnlyInv, WindowOnly, KeyPrefixes
  <2>2. ASSUME NEW l \in KeysOf(x)
        PROVE  l \in KeysOf(x)'
    <3>1. l \in Key /\ PrefixOf[l[1]] = x /\ store[l[1]][l[2]] # 0 /\ l[2] \in DatesOf(x)
      BY DEF KeysOf, DatesOf
    <3>2. l # k
      BY <2>1, <3>1 DEF Beyond
    <3>3. store'[l[1]][l[2]] = store[l[1]][l[2]]
      <4>1. l[1] \in Sources /\ l[2] \in Days /\ l = <<l[1], l[2]>>
        BY <1>3, <3>1
      <4>2. ~ (l[1] = k[1] /\ l[2] = k[2])
        <5>1. k \in Key /\ k = <<k[1], k[2]>>
          BY <1>3
        <5>2. QED
          BY <3>2, <4>1, <5>1
      <4>3. QED
        BY <1>2, <4>1, <4>2
    <3>4. QED
      BY <3>1, <3>3 DEF KeysOf
  <2>3. KeysOf(x)' = KeysOf(x)
    BY <1>4, <2>2
  <2>4. QED
    BY <2>1, <2>3 DEF DatesOf
<1>6. QED
  BY <1>4, <1>5 DEF WindowOnly, KeyPrefixes

LEMMA OnlyInitial == Init => OnlyInv
<1> SUFFICES ASSUME Init PROVE OnlyInv
  OBVIOUS
<1>1. WindowInv /\ PrunedOK
  BY WindowInitial DEF Init, PrunedOK
<1>2. \A x : KeysOf(x) = {}
  BY DEF Init, KeysOf, Key
<1>3. WindowOnly
  BY <1>1, <1>2, WindowAlone DEF WindowOnly, KeyPrefixes
<1>4. QED
  BY <1>1, <1>3 DEF OnlyInv

\* A step that leaves the objects alone.
LEMMA OnlyQuiet ==
  ASSUME OnlyInv, WindowInv', UNCHANGED <<store, made, settled>>, PrunedOK'
  PROVE  OnlyInv'
<1>1. \A x : DatesOf(x)' = DatesOf(x)
  BY DEF DatesOf, KeysOf
<1>2. WindowOnly'
  BY <1>1 DEF OnlyInv, WindowOnly
<1>3. QED
  BY <1>2 DEF OnlyInv

\* No prune goes on after a step of the only runner to another label.
LEMMA NoPrune ==
  ASSUME OneRunner, TypeInv, NEW p \in Runners, NEW label, label # "delete", NEW j, Goto(p, label, j)
  PROVE  PrunedOK'
<1>1. \A q \in Runners : pc'[q] = label
  BY DEF OneRunner, Goto, TypeInv, TypeOK
<1>2. QED
  BY <1>1 DEF PrunedOK

LEMMA OnlyPruneStep ==
  ASSUME OneRunner, OnlyInv, WindowInv', NEW p \in Runners,
         ListKeys(p) \/ DeleteObject(p) \/ FinishPrune(p) \/ PruneFails(p)
  PROVE  OnlyInv'
<1> DEFINE j == job[p]
<1>1. /\ j \in Job /\ j.doomed \in SUBSET Key /\ \A k \in j.doomed : Beyond(k)
      /\ Prefix(p) \in KeyPrefixes
  <2>1. j \in Job /\ pc[p] \in {"prune", "delete"}
    BY DEF ListKeys, DeleteObject, FinishPrune, PruneFails, OnlyInv, WindowInv, TypeInv, TypeOK
  <2>2. j.prefixes # <<>>
    BY <2>1 DEF OnlyInv, WindowInv, TypeInv, JobInv
  <2>3. QED
    BY <2>1, <2>2, JobFields, HeadTail DEF Prefix, OnlyInv, WindowInv, DoomedOK
<1>2. \A q \in Runners : q = p
  BY DEF OneRunner
<1>3. pc \in [Runners -> Labels] /\ job \in [Runners -> Job]
  BY DEF OnlyInv, WindowInv, TypeInv, TypeOK
<1>4. CASE ListKeys(p)
  <2>1. /\ job' = [job EXCEPT ![p] = [j EXCEPT !.doomed = Doomed(Prefix(p))]]
        /\ UNCHANGED <<store, made, settled>>
    BY <1>4 DEF ListKeys, Goto, Prefix
  <2>2. job'[p].doomed = Doomed(Prefix(p)) /\ Prefix(p)' = Prefix(p)
    BY <1>1, <1>3, <2>1 DEF Prefix, Job
  <2>3. \A x : KeysOf(x)' = KeysOf(x)
    BY <2>1 DEF KeysOf
  <2>4. \A k : InWindow(k)' = InWindow(k)
    BY <2>1 DEF InWindow
  <2>5. ASSUME NEW k \in KeysOf(Prefix(p))'
        PROVE  k \in job'[p].doomed \/ InWindow(k)'
    <3>1. k \in KeysOf(Prefix(p))
      BY <2>2, <2>3, <2>5
    <3>2. k \in Doomed(Prefix(p)) \/ InWindow(k)
      BY <1>1, <3>1, ListedPruned DEF OnlyInv
    <3>3. QED
      BY <2>2, <2>4, <3>2
  <2>6. PrunedOK'
    BY <1>2, <2>5 DEF PrunedOK
  <2>7. QED
    BY <2>1, <2>6, OnlyQuiet
<1>5. CASE DeleteObject(p)
  <2>1. PICK k \in j.doomed :
          /\ store' = Removed(k) /\ job' = [job EXCEPT ![p] = [j EXCEPT !.doomed = @ \ {k}]]
          /\ pc[p] = "delete" /\ UNCHANGED <<made, settled>>
    BY <1>5 DEF DeleteObject, Goto
  <2>2. job'[p].doomed = j.doomed \ {k} /\ Prefix(p)' = Prefix(p)
    BY <1>1, <1>3, <2>1 DEF Prefix, Job
  <2>3. WindowOnly' /\ \A x : KeysOf(x)' \subseteq KeysOf(x) \ {k}
    BY <1>1, <2>1, RemovedOnly
  <2>4. \A l : InWindow(l)' = InWindow(l)
    BY <2>1 DEF InWindow
  <2>5. ASSUME NEW l \in KeysOf(Prefix(p))'
        PROVE  l \in job'[p].doomed \/ InWindow(l)'
    <3>1. l \in KeysOf(Prefix(p)) /\ l # k
      BY <2>2, <2>3, <2>5
    <3>2. l \in j.doomed \/ InWindow(l)
      BY <2>1, <3>1 DEF OnlyInv, PrunedOK
    <3>3. QED
      BY <2>2, <2>4, <3>1, <3>2
  <2>6. PrunedOK'
    BY <1>2, <2>5 DEF PrunedOK
  <2>7. QED
    BY <2>3, <2>6 DEF OnlyInv
<1>6. ASSUME NextPrefix(p)
      PROVE  PrunedOK'
  BY <1>6, NoPrune DEF NextPrefix, OnlyInv, WindowInv
<1>7. CASE FinishPrune(p)
  <2>1. /\ pc[p] = "delete" /\ j.doomed = {} /\ NextPrefix(p) /\ UNCHANGED <<store, made>>
        /\ settled' = [settled EXCEPT ![Prefix(p)] = TRUE]
    BY <1>7 DEF FinishPrune, Prefix
  <2>2. \A k \in KeysOf(Prefix(p)) : InWindow(k)
    BY <2>1 DEF OnlyInv, PrunedOK
  <2>3. DatesOf(Prefix(p)) = Keep(made[Prefix(p)])
    BY <1>1, <2>2, WindowAlone DEF OnlyInv
  <2>4. \A x : DatesOf(x)' = DatesOf(x)
    BY <2>1 DEF DatesOf, KeysOf
  <2>5. ASSUME NEW x \in KeyPrefixes, settled'[x]
        PROVE  DatesOf(x)' = Keep(made'[x])
    <3>1. settled[x] \/ x = Prefix(p)
      BY <2>1, <2>5 DEF OnlyInv, WindowInv, TypeInv, TypeOK, KeyPrefixes
    <3>2. DatesOf(x) = Keep(made[x])
      BY <2>3, <3>1 DEF OnlyInv, WindowOnly, KeyPrefixes
    <3>3. QED
      BY <2>1, <2>4, <3>2
  <2>6. WindowOnly'
    BY <2>5 DEF WindowOnly, KeyPrefixes
  <2>7. QED
    BY <1>6, <2>1, <2>6 DEF OnlyInv
<1>8. CASE PruneFails(p)
  <2>1. /\ NextPrefix(p) /\ UNCHANGED <<made, settled>>
        /\ store' = store \/ \E k \in j.doomed : store' = Removed(k)
    BY <1>8 DEF PruneFails
  <2>2. CASE store' = store
    BY <1>6, <2>1, <2>2, OnlyQuiet
  <2>3. CASE \E k \in j.doomed : store' = Removed(k)
    <3>1. WindowOnly'
      BY <1>1, <2>1, <2>3, RemovedOnly
    <3>2. QED
      BY <1>6, <2>1, <3>1 DEF OnlyInv
  <2>4. QED
    BY <2>1, <2>2, <2>3
<1>9. QED
  BY <1>4, <1>5, <1>7, <1>8

\* A PUT leaves the other prefixes as they are, and nothing is said of its own.
LEMMA OnlyPut ==
  ASSUME OneRunner, OnlyInv, WindowInv', NEW p \in Runners, NEW s \in Sources, Put(p, s), PrunedOK'
  PROVE  OnlyInv'
<1> DEFINE d == job[p].manifest.date
           x == PrefixOf[s]
<1>1. d \in Days /\ x \in KeyPrefixes
  BY JobFields DEF OnlyInv, WindowInv, TypeInv, TypeOK, KeyPrefixes
<1>2. /\ settled \in [KeyPrefixes -> BOOLEAN] /\ made \in [KeyPrefixes -> SUBSET Days]
      /\ store \in [Sources -> [Days -> Nat]]
  BY DEF OnlyInv, WindowInv, TypeInv, TypeOK, KeyPrefixes
<1>3. /\ ~ settled'[x]
      /\ \A y \in KeyPrefixes \ {x} : settled'[y] = settled[y] /\ made'[y] = made[y]
  BY <1>1, <1>2 DEF Put
<1>4. \A t \in Sources \ {s} : store'[t] = store[t]
  BY <1>2 DEF Put
<1>5. ASSUME NEW y \in KeyPrefixes, settled'[y]
      PROVE  DatesOf(y)' = Keep(made'[y])
  <2>1. y # x /\ settled[y] /\ made'[y] = made[y]
    BY <1>3, <1>5
  <2>2. \A k \in Key : PrefixOf[k[1]] = y => store'[k[1]] = store[k[1]]
    BY <1>4, <2>1 DEF Key
  <2>3. KeysOf(y)' = KeysOf(y)
    BY <2>2 DEF KeysOf
  <2>4. DatesOf(y)' = DatesOf(y)
    BY <2>3 DEF DatesOf
  <2>5. QED
    BY <2>1, <2>4 DEF OnlyInv, WindowOnly, KeyPrefixes
<1>6. WindowOnly'
  BY <1>5 DEF WindowOnly, KeyPrefixes
<1>7. QED
  BY <1>6 DEF OnlyInv

LEMMA OnlyStep == OneRunner /\ OnlyInv /\ [Next]_vars => OnlyInv'
<1> SUFFICES ASSUME OneRunner, OnlyInv, [Next]_vars PROVE OnlyInv'
  OBVIOUS
<1>1. WindowInv' /\ TypeInv
  BY WindowStep DEF OnlyInv, WindowInv
<1>2. ASSUME NEW p \in Runners, Upload(p) \/ UploadFails(p)
      PROVE  OnlyInv'
  <2>1. PICK s, j :
          /\ s \in Sources
          /\ Goto(p, AfterSource(job[p]), j)
          /\ Put(p, s) \/ UNCHANGED <<store, made, settled>>
    <3>1. Head(job[p].left) \in Sources
      BY <1>1, <1>2, AfterSourceType, NoJobType DEF Upload, UploadFails
    <3>2. QED
      BY <1>2, <3>1 DEF Upload, UploadFails
  <2>2. PrunedOK'
    BY <1>1, <2>1, NoPrune DEF AfterSource
  <2>3. QED
    BY <1>1, <2>1, <2>2, OnlyPut, OnlyQuiet
<1>3. ASSUME NEW p \in Runners,
             \/ StartRun(p) \/ ExportAgents(p) \/ ExportFails(p)
             \/ PutDated(p) \/ PutLatest(p) \/ PutManifestFails(p) \/ Kill(p)
      PROVE  OnlyInv'
  <2>1. PICK label, j :
          label \in {"idle", "upload", "manifest", "latest", "prune"} /\ Goto(p, label, j)
    BY <1>3 DEF StartRun, ExportAgents, ExportFails, PutDated, PutLatest, PutManifestFails, Kill
  <2>2. UNCHANGED <<store, made, settled>>
    BY <1>3 DEF StartRun, ExportAgents, ExportFails, PutDated, PutLatest, PutManifestFails, Kill
  <2>3. QED
    BY <1>1, <2>1, <2>2, NoPrune, OnlyQuiet
<1>4. CASE NextDay \/ UNCHANGED vars
  <2>1. UNCHANGED <<store, made, settled, pc, job>>
    BY <1>4 DEF NextDay, vars
  <2>2. PrunedOK'
    BY <2>1 DEF OnlyInv, PrunedOK, InWindow, KeysOf, Prefix
  <2>3. QED
    BY <1>1, <2>1, <2>2, OnlyQuiet
<1>5. QED
  BY <1>1, <1>2, <1>3, <1>4, OnlyPruneStep DEF Next

\* While runs do not overlap, a prune that goes through leaves the window of every backup
\* there ever was and nothing else, whatever earlier failures and kills left behind.
THEOREM BackupWindowOnly ==
  ASSUME OneRunner
  PROVE  Spec => []WindowOnly
<1>1. OnlyInv /\ [Next]_vars => OnlyInv'
  BY OnlyStep
<1>2. OnlyInv => WindowOnly
  BY DEF OnlyInv
<1>3. QED
  BY <1>1, <1>2, OnlyInitial, PTL DEF Spec


-----------------------------------------------------------------------------
(***************************************************************************)
(* The manifest.  A run owes an account of the sources it has still to     *)
(* visit and of no other; what an account says stays true, because a later *)
(* object of the same date is one of a later run, and because what is      *)
(* deleted is beyond the window.                                           *)
(***************************************************************************)

\* An account is "intact" when the object has the bytes of the run, or of a later one, and
\* "there" when there is an object.
Kinds == {"intact", "there"}

Accounted(kind, m, s) ==
  \/ s \in m.failed
  \/ /\ s \in m.assets
     /\ \/ Beyond(<<s, m.date>>)
        \/ kind = "intact" /\ store[s][m.date] >= m.run
        \/ kind = "there" /\ store[s][m.date] # 0

\* The sources a run that goes on at a label has still to visit.
Todo(label, left) ==
  IF label = "upload"
  THEN Elements(left) \cup (IF Elements(left) \subseteq Elements(Plain) THEN Elements(Agents) ELSE {})
  ELSE IF label = "export" THEN Elements(Agents) ELSE {}

Reporting == {"upload", "export", "manifest", "latest"}

\* Only a run that is alone is the last one that was begun, and has no older run after it.
Alone(kind) == kind = "intact" => OneRunner

Past(kind, m) == kind = "intact" => m.run <= runs

ReportOK(kind, label, j) ==
  label \in Reporting =>
    /\ kind = "intact" => j.manifest.run = runs
    /\ \A s \in Sources \ Todo(label, j.left) : Accounted(kind, j.manifest, s)

WrittenOK(kind, m) ==
  Past(kind, m) /\ (m.run # 0 => \A s \in Sources : Accounted(kind, m, s))

HonestInv(kind) ==
  /\ WindowInv
  /\ \A p \in Runners : ReportOK(kind, pc[p], job[p])
  /\ \A d \in Days : WrittenOK(kind, dated[d])
  /\ WrittenOK(kind, latest)

LEMMA ElementsOf ==
  ASSUME NEW seq \in Seq(Sources), seq # <<>>
  PROVE  /\ Elements(seq) = {Head(seq)} \cup Elements(Tail(seq))
         /\ ~ (Len(seq) > 1) => Elements(seq) = {Head(seq)}
<1>1. /\ Len(seq) \in Nat /\ Len(seq) # 0 /\ DOMAIN seq = 1 .. Len(seq)
      /\ Head(seq) = seq[1] /\ Tail(seq) \in Seq(Sources)
      /\ Len(Tail(seq)) = Len(seq) - 1
  BY EmptySeq, HeadTailProperties, LenProperties
<1>2. \A i \in 1 .. Len(Tail(seq)) : Tail(seq)[i] = seq[i + 1]
  BY HeadTailProperties
<1>3. DOMAIN Tail(seq) = 1 .. Len(seq) - 1
  BY <1>1, LenProperties
<1>4. ASSUME NEW i \in 1 .. Len(seq)
      PROVE  seq[i] \in {Head(seq)} \cup Elements(Tail(seq))
  <2>1. CASE i = 1
    BY <1>1, <2>1
  <2>2. CASE i # 1
    <3>1. PICK k \in 1 .. Len(seq) - 1 : i = k + 1
      BY <1>1, <2>2
    <3>2. Tail(seq)[k] = seq[i]
      BY <1>1, <1>2, <3>1
    <3>3. QED
      BY <1>3, <3>2 DEF Elements
  <2>3. QED
    BY <2>1, <2>2
<1>5. ASSUME NEW i \in 1 .. Len(seq) - 1
      PROVE  Tail(seq)[i] \in Elements(seq)
  <2>1. Tail(seq)[i] = seq[i + 1] /\ i + 1 \in 1 .. Len(seq)
    BY <1>1, <1>2
  <2>2. QED
    BY <1>1, <2>1 DEF Elements
<1>6. Head(seq) \in Elements(seq)
  <2>1. 1 \in 1 .. Len(seq)
    BY <1>1
  <2>2. QED
    BY <1>1, <2>1 DEF Elements
<1>7. Elements(seq) = {Head(seq)} \cup Elements(Tail(seq))
  BY <1>1, <1>3, <1>4, <1>5, <1>6 DEF Elements
<1>8. ASSUME ~ (Len(seq) > 1)
      PROVE  Elements(Tail(seq)) = {}
  BY <1>1, <1>3, <1>8 DEF Elements
<1>9. QED
  BY <1>7, <1>8

\* After a source the run owes no less than it did, but for that source.
LEMMA TodoAfter ==
  ASSUME NEW j \in Job, j.left # <<>>
  PROVE  Todo("upload", j.left) \ {Head(j.left)} \subseteq Todo(AfterSource(j), Tail(j.left))
<1> DEFINE h == Head(j.left)
           rest == Tail(j.left)
<1>1. /\ Elements(j.left) = {h} \cup Elements(rest)
      /\ ~ (Len(j.left) > 1) => Elements(j.left) = {h}
  BY JobFields, ElementsOf
<1>2. CASE Len(j.left) > 1
  BY <1>1, <1>2 DEF Todo, AfterSource
<1>3. CASE ~ (Len(j.left) > 1) /\ h \in Elements(Agents)
  BY <1>1, <1>3, SourcesAssumption DEF Todo, AfterSource
<1>4. CASE ~ (Len(j.left) > 1) /\ h \notin Elements(Agents)
  BY <1>1, <1>4 DEF Todo, AfterSource
<1>5. QED
  BY <1>2, <1>3, <1>4

\* An account stays true when a run puts an object: the last run, for the bytes.
LEMMA AccountedPut ==
  ASSUME NEW kind \in Kinds, WindowInv, NEW p \in Runners, NEW s \in Sources, Put(p, s),
         job[p].manifest.run # 0, kind = "intact" => job[p].manifest.run = runs,
         NEW m \in Manifest, Past(kind, m), NEW t \in Sources, Accounted(kind, m, t)
  PROVE  Accounted(kind, m, t)'
<1>1. \A k \in Key : Beyond(k) => Beyond(k)'
  BY PutWindow DEF WindowInv
<1>2. m.date \in Days /\ m.run \in Nat /\ runs \in Nat
  BY DEF Manifest, WindowInv, TypeInv, TypeOK
<1>3. <<t, m.date>> \in Key
  BY <1>2 DEF Key
<1>4. store'[t][m.date] = store[t][m.date] \/ store'[t][m.date] = job[p].manifest.run
  BY <1>2 DEF Put, WindowInv, TypeInv, TypeOK
<1>5. CASE kind = "intact"
  <2>1. m.run <= runs
    BY <1>5 DEF Past
  <2>2. QED
    BY <1>1, <1>2, <1>3, <1>4, <1>5, <2>1 DEF Accounted
<1>6. CASE kind = "there"
  BY <1>1, <1>3, <1>4, <1>6 DEF Accounted
<1>7. QED
  BY <1>5, <1>6 DEF Kinds

\* ... and when an object is deleted that is beyond the window.
LEMMA AccountedRemoved ==
  ASSUME NEW kind \in Kinds, WindowInv, NEW k \in Key, Beyond(k), store' = Removed(k),
         made' = made, NEW m \in Manifest, NEW t \in Sources, Accounted(kind, m, t)
  PROVE  Accounted(kind, m, t)'
<1>1. k[1] \in Sources /\ k[2] \in Days /\ k = <<k[1], k[2]>> /\ m.date \in Days
  BY DEF Key, Manifest
<1>2. \A l : Beyond(l)' = Beyond(l)
  BY DEF Beyond
<1>3. store'[t][m.date] = store[t][m.date] \/ k = <<t, m.date>>
  BY <1>1 DEF Removed, WindowInv, TypeInv, TypeOK
<1>4. QED
  BY <1>2, <1>3 DEF Accounted

\* A step of a runner that leaves every account true, and writes a true one.
LEMMA HonestGoto ==
  ASSUME NEW kind \in Kinds, Alone(kind), HonestInv(kind), WindowInv', runs <= runs',
         \A m \in Manifest : \A t \in Sources :
           Past(kind, m) /\ Accounted(kind, m, t) => Accounted(kind, m, t)',
         NEW p \in Runners, NEW label, NEW j, Goto(p, label, j), ReportOK(kind, label, j)',
         NEW new \in Manifest, WrittenOK(kind, new)',
         \A d \in Days : dated'[d] \in {dated[d], new},
         latest' \in {latest, new}
  PROVE  HonestInv(kind)'
<1>1. /\ dated \in [Days -> Manifest] /\ latest \in Manifest /\ runs \in Nat /\ runs' \in Nat
      /\ pc \in [Runners -> Labels] /\ job \in [Runners -> Job]
  BY DEF HonestInv, WindowInv, TypeInv, TypeOK
<1>2. ASSUME NEW m \in Manifest, WrittenOK(kind, m)
      PROVE  WrittenOK(kind, m)'
  <2>1. m.run \in Nat /\ Past(kind, m)
    BY <1>2 DEF WrittenOK, Manifest
  <2>2. Past(kind, m)'
    BY <1>1, <2>1 DEF Past
  <2>3. ASSUME m.run # 0, NEW t \in Sources
        PROVE  Accounted(kind, m, t)'
    BY <1>2, <2>1, <2>3 DEF WrittenOK
  <2>4. QED
    BY <2>2, <2>3 DEF WrittenOK
<1>3. \A d \in Days : WrittenOK(kind, dated[d])'
  <2> SUFFICES ASSUME NEW d \in Days PROVE WrittenOK(kind, dated[d])'
    OBVIOUS
  <2>1. PICK m \in Manifest : m = dated[d]
    BY <1>1
  <2>2. WrittenOK(kind, m)'
    BY <1>2, <2>1 DEF HonestInv
  <2>3. dated'[d] = m \/ dated'[d] = new
    BY <2>1
  <2>4. QED
    BY <2>2, <2>3 DEF WrittenOK, Past, Accounted
<1>4. WrittenOK(kind, latest)'
  <2>1. PICK m \in Manifest : m = latest
    BY <1>1
  <2>2. WrittenOK(kind, m)'
    BY <1>2, <2>1 DEF HonestInv
  <2>3. latest' = m \/ latest' = new
    BY <2>1
  <2>4. QED
    BY <2>2, <2>3 DEF WrittenOK, Past, Accounted
<1>5. \A q \in Runners : ReportOK(kind, pc[q], job[q])'
  <2> SUFFICES ASSUME NEW q \in Runners PROVE ReportOK(kind, pc[q], job[q])'
    OBVIOUS
  <2>1. CASE q = p
    <3>1. pc'[q] = label /\ job'[q] = j
      BY <1>1, <2>1 DEF Goto
    <3>2. QED
      BY <3>1 DEF ReportOK, Accounted
  <2>2. CASE q # p
    <3>1. kind # "intact"
      BY <2>2 DEF Alone, OneRunner
    <3>2. pc'[q] = pc[q] /\ job'[q] = job[q]
      BY <1>1, <2>2 DEF Goto
    <3>3. PICK m \in Manifest : m = job[q].manifest
      BY <1>1, JobFields
    <3>4. \A t \in Sources : Accounted(kind, m, t) => Accounted(kind, m, t)'
      BY <3>1 DEF Past
    <3>5. pc[q] \in Reporting => \A t \in Sources \ Todo(pc[q], job[q].left) : Accounted(kind, m, t)
      BY <3>3 DEF HonestInv, ReportOK
    <3>6. pc[q] \in Reporting =>
            \A t \in Sources \ Todo(pc[q], job[q].left) : Accounted(kind, m, t)'
      BY <3>4, <3>5
    <3>7. QED
      BY <3>1, <3>2, <3>3, <3>6 DEF ReportOK, Accounted
  <2>3. QED
    BY <2>1, <2>2
<1>6. QED
  BY <1>3, <1>4, <1>5 DEF HonestInv

\* A step that leaves the objects alone and begins no run.
LEMMA HonestQuiet ==
  ASSUME NEW kind \in Kinds, Alone(kind), HonestInv(kind), WindowInv', UNCHANGED <<store, made, runs>>,
         NEW p \in Runners, NEW label, NEW j, Goto(p, label, j), ReportOK(kind, label, j),
         NEW new \in Manifest, WrittenOK(kind, new),
         \A d \in Days : dated'[d] \in {dated[d], new},
         latest' \in {latest, new}
  PROVE  HonestInv(kind)'
<1>1. \A k : Beyond(k)' = Beyond(k)
  BY DEF Beyond
<1>2. \A m, t : Accounted(kind, m, t)' = Accounted(kind, m, t)
  BY <1>1 DEF Accounted
<1>3. ReportOK(kind, label, j)' /\ WrittenOK(kind, new)' /\ runs <= runs'
  BY <1>2 DEF ReportOK, WrittenOK, Past, HonestInv, WindowInv, TypeInv, TypeOK
<1>4. QED
  BY <1>2, <1>3, HonestGoto

LEMMA NoManifestWritten ==
  ASSUME NEW kind, WindowInv
  PROVE  NoManifest \in Manifest /\ WrittenOK(kind, NoManifest)
  BY NoJobType DEF WrittenOK, Past, NoManifest, WindowInv, TypeInv, TypeOK

LEMMA HonestInitial ==
  ASSUME NEW kind \in Kinds, Init
  PROVE  HonestInv(kind)
<1>1. WindowInv
  BY WindowInitial
<1>2. WrittenOK(kind, NoManifest)
  BY <1>1, NoManifestWritten
<1>3. QED
  BY <1>1, <1>2 DEF Init, HonestInv, ReportOK, Reporting

LEMMA HonestUploadStep ==
  ASSUME NEW kind \in Kinds, Alone(kind), HonestInv(kind), WindowInv', NEW p \in Runners, Upload(p) \/ UploadFails(p)
  PROVE  HonestInv(kind)'
<1>1. PICK j \in Job, s \in Sources, rest \in Seq(Sources) :
        j = job[p] /\ s = Head(j.left) /\ rest = Tail(j.left)
  <2>1. job[p] \in Job /\ job[p].left # <<>> /\ job[p].left \in Seq(Sources)
    BY JobFields DEF Upload, UploadFails, HonestInv, WindowInv, TypeInv, TypeOK, JobInv
  <2>2. QED
    BY <2>1, HeadTail
<1>2. PICK label : label = AfterSource(j)
  OBVIOUS
<1>3. PICK m \in Manifest : m = j.manifest
  BY <1>1, JobFields
<1>4. /\ pc[p] = "upload" /\ j.left # <<>> /\ (kind = "intact" => m.run = runs)
      /\ m.run # 0 /\ m.run \in Nat /\ runs \in Nat
      /\ m.date \in Days /\ UNCHANGED <<dated, latest, runs>>
      /\ \A t \in Sources \ Todo("upload", j.left) : Accounted(kind, m, t)
  BY <1>1, <1>3
     DEF Upload, UploadFails, manifestVars, HonestInv, ReportOK, Reporting, WindowInv, TypeInv,
         TypeOK, JobInv, NumberedOK, Manifest
<1>5. \A t \in Sources \ Todo(label, rest) : t = s \/ Accounted(kind, m, t)
  BY <1>1, <1>2, <1>4, TodoAfter
<1>6. PICK k \in Job, l \in Manifest :
        /\ Goto(p, label, k) /\ k.manifest = l /\ k.left = rest
        /\ l.run = m.run /\ l.date = m.date /\ m.failed \subseteq l.failed /\ m.assets \subseteq l.assets
        /\ \/ Put(p, s) /\ (s \in l.assets \/ s \in l.failed)
           \/ UNCHANGED <<store, made>> /\ s \in l.failed
  <2>1. PICK new \in {Listed(j, s), Recorded(j, {s})} :
          /\ Goto(p, label, [new EXCEPT !.left = Tail(@)])
          /\ \/ Put(p, s)
             \/ UNCHANGED <<store, made>> /\ new = Recorded(j, {s})
    BY <1>1, <1>2 DEF Upload, UploadFails
  <2>2. new \in Job /\ new.left = j.left
    <3>1. Listed(j, s).left = j.left /\ Recorded(j, {s}).left = j.left
      BY DEF Job, Listed, Recorded
    <3>2. QED
      BY <3>1, JobUpdates
  <2>3. /\ new.manifest.run = m.run /\ new.manifest.date = m.date
        /\ m.failed \subseteq new.manifest.failed /\ m.assets \subseteq new.manifest.assets
        /\ s \in new.manifest.assets \/ s \in new.manifest.failed
        /\ new = Recorded(j, {s}) => s \in new.manifest.failed
    <3>1. /\ Listed(j, s).manifest.run = m.run /\ Listed(j, s).manifest.date = m.date
          /\ Listed(j, s).manifest.failed = m.failed
          /\ Listed(j, s).manifest.assets = m.assets \cup {s}
      BY <1>3 DEF Job, Manifest, Listed
    <3>2. /\ Recorded(j, {s}).manifest.run = m.run /\ Recorded(j, {s}).manifest.date = m.date
          /\ Recorded(j, {s}).manifest.failed = m.failed \cup {s}
          /\ Recorded(j, {s}).manifest.assets = m.assets
      BY <1>3 DEF Job, Manifest, Recorded
    <3>3. CASE new = Recorded(j, {s})
      BY <3>2, <3>3
    <3>4. CASE new # Recorded(j, {s})
      <4>1. new = Listed(j, s)
        BY <2>1, <3>4
      <4>2. QED
        BY <3>1, <3>4, <4>1
    <3>5. QED
      BY <3>3, <3>4
  <2>4. PICK k \in Job : k = [new EXCEPT !.left = Tail(@)]
    BY <1>1, <2>2, JobUpdates
  <2>5. k.manifest = new.manifest /\ k.left = rest
    BY <1>1, <2>2, <2>4 DEF Job
  <2>6. k.manifest \in Manifest
    BY JobFields
  <2>7. PICK l \in Manifest : l = new.manifest
    BY <2>5, <2>6
  <2>8. Goto(p, label, k)
    BY <2>1, <2>4
  <2>9. /\ l.run = m.run /\ l.date = m.date /\ m.failed \subseteq l.failed /\ m.assets \subseteq l.assets
        /\ s \in l.assets \/ s \in l.failed
        /\ new = Recorded(j, {s}) => s \in l.failed
    BY <2>3, <2>7
  <2>10. \/ Put(p, s) /\ (s \in l.assets \/ s \in l.failed)
         \/ UNCHANGED <<store, made>> /\ s \in l.failed
    BY <2>1, <2>9
  <2>11. QED
    BY <2>5, <2>7, <2>8, <2>9, <2>10
<1>7. \A n \in Manifest : \A t \in Sources : Past(kind, n) /\ Accounted(kind, n, t)
          => Accounted(kind, n, t)'
  <2>1. CASE Put(p, s)
    BY <1>1, <1>3, <1>4, <2>1, AccountedPut DEF HonestInv
  <2>2. CASE UNCHANGED <<store, made>>
    BY <2>2 DEF Accounted, Beyond
  <2>3. QED
    BY <1>6, <2>1, <2>2
<1>8. Accounted(kind, l, s)'
  <2>1. CASE s \in l.failed
    BY <2>1 DEF Accounted
  <2>2. CASE Put(p, s) /\ s \in l.assets
    <3>1. store'[s][l.date] = m.run
      <4>1. store' = [store EXCEPT ![s][m.date] = m.run]
        BY <1>1, <1>3, <2>2 DEF Put
      <4>2. store \in [Sources -> [Days -> Nat]]
        BY DEF HonestInv, WindowInv, TypeInv, TypeOK
      <4>3. m.date \in Days /\ l.date = m.date
        BY <1>4, <1>6
      <4>4. QED
        BY <4>1, <4>2, <4>3
    <3>2. l.run = m.run
      BY <1>6
    <3>3. QED
      BY <1>4, <2>2, <3>1, <3>2 DEF Accounted, Kinds
  <2>3. QED
    BY <1>6, <2>1, <2>2
<1>9. ASSUME NEW t \in Sources \ Todo(label, rest)
      PROVE  Accounted(kind, l, t)'
  <2>1. CASE t = s
    BY <1>8, <2>1
  <2>2. CASE t # s
    <3>1. Accounted(kind, m, t) /\ Past(kind, m)
      BY <1>4, <1>5, <2>2 DEF Past
    <3>2. Accounted(kind, m, t)'
      BY <1>7, <3>1
    <3>3. QED
      BY <1>6, <3>2 DEF Accounted
  <2>3. QED
    BY <2>1, <2>2
<1>10. ReportOK(kind, label, k)'
  BY <1>4, <1>6, <1>9 DEF ReportOK
<1>11. NoManifest \in Manifest /\ WrittenOK(kind, NoManifest)'
  BY <1>4, NoManifestWritten DEF WrittenOK, Past, NoManifest, HonestInv
<1>12. QED
  BY <1>4, <1>6, <1>7, <1>10, <1>11, HonestGoto

LEMMA HonestPruneStep ==
  ASSUME NEW kind \in Kinds, Alone(kind), HonestInv(kind), WindowInv', NEW p \in Runners,
         ListKeys(p) \/ DeleteObject(p) \/ FinishPrune(p) \/ PruneFails(p)
  PROVE  HonestInv(kind)'
<1>1. /\ UNCHANGED <<dated, latest, runs, made>> /\ runs \in Nat
      /\ store' = store \/ \E k \in job[p].doomed : store' = Removed(k)
  BY DEF ListKeys, DeleteObject, FinishPrune, PruneFails, manifestVars, HonestInv, WindowInv,
         TypeInv, TypeOK
<1>2. \A k \in job[p].doomed : k \in Key /\ Beyond(k)
  BY JobFields DEF HonestInv, WindowInv, DoomedOK, TypeInv, TypeOK
<1>3. \A n \in Manifest : \A t \in Sources : Past(kind, n) /\ Accounted(kind, n, t)
          => Accounted(kind, n, t)'
  <2>1. CASE store' = store
    BY <1>1, <2>1 DEF Accounted, Beyond
  <2>2. CASE \E k \in job[p].doomed : store' = Removed(k)
    BY <1>1, <1>2, <2>2, AccountedRemoved DEF HonestInv
  <2>3. QED
    BY <1>1, <2>1, <2>2
<1>4. PICK label \in {"idle", "prune", "delete"} : \E j : Goto(p, label, j)
  BY DEF ListKeys, DeleteObject, FinishPrune, PruneFails, NextPrefix
<1>5. PICK j : Goto(p, label, j) /\ ReportOK(kind, label, j)'
  BY <1>4 DEF ReportOK, Reporting
<1>6. NoManifest \in Manifest /\ WrittenOK(kind, NoManifest)'
  BY <1>1, NoManifestWritten DEF WrittenOK, Past, NoManifest, HonestInv
<1>7. QED
  BY <1>1, <1>3, <1>5, <1>6, HonestGoto

LEMMA HonestOtherStep ==
  ASSUME NEW kind \in Kinds, Alone(kind), HonestInv(kind), WindowInv', NEW p \in Runners,
         \/ ExportAgents(p) \/ ExportFails(p)
         \/ PutDated(p) \/ PutLatest(p) \/ PutManifestFails(p) \/ Kill(p)
  PROVE  HonestInv(kind)'
<1>1. PICK j \in Job : j = job[p]
  BY DEF HonestInv, WindowInv, TypeInv, TypeOK
<1>2. j.manifest \in Manifest /\ ReportOK(kind, pc[p], j)
  BY <1>1, JobFields DEF HonestInv
<1>3. UNCHANGED <<store, made, runs>>
  BY DEF ExportAgents, ExportFails, PutDated, PutLatest, PutManifestFails, Kill
<1>4. NoManifest \in Manifest /\ WrittenOK(kind, NoManifest)
  BY NoManifestWritten DEF HonestInv
<1>5. CASE ExportAgents(p)
  <2>1. pc[p] = "export" /\ UNCHANGED <<dated, latest>>
    BY <1>5 DEF ExportAgents, manifestVars
  <2>2. PICK k : k = [j EXCEPT !.left = Agents]
    OBVIOUS
  <2>3. k.manifest = j.manifest /\ k.left = Agents
    BY <2>2 DEF Job
  <2>4. PICK label \in {"upload", "manifest"} :
          Goto(p, label, k) /\ (label = "manifest" => Agents = <<>>)
    BY <1>1, <1>5, <2>2 DEF ExportAgents
  <2>5. Agents = <<>> => Elements(Agents) = {}
    BY DEF Elements
  <2>6. Todo("export", j.left) \subseteq Todo(label, Agents)
    BY <2>4, <2>5 DEF Todo
  <2>7. ReportOK(kind, label, k)
    BY <1>2, <2>1, <2>3, <2>6 DEF ReportOK, Reporting
  <2>8. QED
    BY <1>3, <1>4, <2>1, <2>4, <2>7, HonestQuiet
<1>6. CASE ExportFails(p)
  <2>1. pc[p] = "export" /\ UNCHANGED <<dated, latest>>
    BY <1>6 DEF ExportFails, manifestVars
  <2>2. PICK k : k = Recorded(j, Elements(Agents))
    OBVIOUS
  <2>3. /\ k.manifest.run = j.manifest.run /\ k.manifest.date = j.manifest.date
        /\ k.manifest.assets = j.manifest.assets
        /\ k.manifest.failed = j.manifest.failed \cup Elements(Agents)
    BY <2>2 DEF Job, Manifest, Recorded
  <2>4. Goto(p, "manifest", k)
    BY <1>1, <1>6, <2>2 DEF ExportFails
  <2>5. ReportOK(kind, "manifest", k)
    BY <1>2, <2>1, <2>3 DEF ReportOK, Reporting, Todo, Accounted
  <2>6. QED
    BY <1>3, <1>4, <2>1, <2>4, <2>5, HonestQuiet
<1>7. CASE PutDated(p) \/ PutLatest(p) \/ PutManifestFails(p)
  <2>1. pc[p] \in {"manifest", "latest"}
    BY <1>7 DEF PutDated, PutLatest, PutManifestFails
  <2>2. WrittenOK(kind, j.manifest)
    <3>1. Past(kind, j.manifest) /\ \A s \in Sources : Accounted(kind, j.manifest, s)
      <4>1. /\ kind = "intact" => j.manifest.run = runs
            /\ \A s \in Sources \ Todo(pc[p], j.left) : Accounted(kind, j.manifest, s)
        BY <1>2, <2>1 DEF ReportOK, Reporting
      <4>2. Todo(pc[p], j.left) = {}
        BY <2>1 DEF Todo
      <4>3. runs \in Nat
        BY DEF HonestInv, WindowInv, TypeInv, TypeOK
      <4>4. QED
        BY <4>1, <4>2, <4>3 DEF Past
    <3>2. QED
      BY <3>1 DEF WrittenOK
  <2>3. PICK k : k = StartPrune(j)
    OBVIOUS
  <2>4. PICK label \in {"latest", "prune"}, i \in {j, k} :
          Goto(p, label, i) /\ (label = "latest" => i = j)
    BY <1>1, <1>7, <2>3 DEF PutDated, PutLatest, PutManifestFails
  <2>5. /\ \A d \in Days : dated'[d] \in {dated[d], j.manifest}
        /\ latest' \in {latest, j.manifest}
    BY <1>1, <1>7 DEF PutDated, PutLatest, PutManifestFails, HonestInv, WindowInv, TypeInv, TypeOK
  <2>6. ReportOK(kind, label, i)
    BY <1>2, <2>1, <2>4 DEF ReportOK, Reporting, Todo
  <2>7. QED
    BY <1>2, <1>3, <2>2, <2>4, <2>5, <2>6, HonestQuiet
<1>8. CASE Kill(p)
  <2>1. Goto(p, "idle", NoJob) /\ UNCHANGED <<dated, latest>>
    BY <1>8 DEF Kill, manifestVars
  <2>2. ReportOK(kind, "idle", NoJob)
    BY DEF ReportOK, Reporting
  <2>3. QED
    BY <1>3, <1>4, <2>1, <2>2, HonestQuiet
<1>9. QED
  BY <1>5, <1>6, <1>7, <1>8

LEMMA HonestStart ==
  ASSUME NEW kind \in Kinds, Alone(kind), HonestInv(kind), WindowInv', NEW p \in Runners, StartRun(p)
  PROVE  HonestInv(kind)'
<1>1. PICK j : j = [NoJob EXCEPT !.manifest.run = runs + 1, !.manifest.date = DateOfRun, !.left = Plain]
  OBVIOUS
<1>2. j.manifest.run = runs + 1 /\ j.left = Plain
  BY <1>1 DEF NoJob, NoManifest
<1>3. /\ Goto(p, "upload", j) /\ runs' = runs + 1 /\ runs \in Nat
      /\ UNCHANGED <<store, made, dated, latest>>
  BY <1>1 DEF StartRun, manifestVars, HonestInv, WindowInv, TypeInv, TypeOK
<1>4. \A n \in Manifest : \A t \in Sources : Past(kind, n) /\ Accounted(kind, n, t)
          => Accounted(kind, n, t)'
  BY <1>3 DEF Accounted, Beyond
<1>5. ReportOK(kind, "upload", j)'
  <2>1. Sources \ Todo("upload", Plain) = {}
    BY DEF Sources, Todo
  <2>2. QED
    BY <1>2, <1>3, <2>1 DEF ReportOK
<1>6. NoManifest \in Manifest /\ WrittenOK(kind, NoManifest)'
  BY <1>3, NoManifestWritten DEF WrittenOK, Past, NoManifest, HonestInv
<1>7. runs <= runs'
  BY <1>3
<1>8. QED
  BY <1>3, <1>4, <1>5, <1>6, <1>7, HonestGoto

LEMMA HonestStep ==
  ASSUME NEW kind \in Kinds, Alone(kind), HonestInv(kind), [Next]_vars
  PROVE  HonestInv(kind)'
<1>1. WindowInv'
  BY WindowStep DEF HonestInv
<1>2. CASE NextDay \/ UNCHANGED vars
  <2>1. UNCHANGED <<store, made, pc, job, dated, latest, runs>>
    BY <1>2 DEF NextDay, manifestVars, vars
  <2>2. \A k : Beyond(k)' = Beyond(k)
    BY <2>1 DEF Beyond
  <2>3. \A m, t : Accounted(kind, m, t)' = Accounted(kind, m, t)
    BY <2>1, <2>2 DEF Accounted
  <2>4. \A p \in Runners : ReportOK(kind, pc[p], job[p])'
    BY <2>1, <2>3 DEF HonestInv, ReportOK
  <2>5. WrittenOK(kind, latest)' /\ \A d \in Days : WrittenOK(kind, dated[d])'
    BY <2>1, <2>3 DEF HonestInv, WrittenOK, Past
  <2>6. QED
    BY <1>1, <2>4, <2>5 DEF HonestInv
<1>3. QED
  BY <1>1, <1>2, HonestUploadStep, HonestPruneStep, HonestOtherStep, HonestStart DEF Next

-----------------------------------------------------------------------------
(***************************************************************************)
(* An object has the bytes of a run that was begun on its date: at the     *)
(* latest of the last one.                                                 *)
(***************************************************************************)

BegunInv ==
  /\ TypeInv
  /\ \A s \in Sources, d \in Days : store[s][d] <= begun[d]
  /\ \A p \in Runners : pc[p] # "idle" => job[p].manifest.run <= begun[job[p].manifest.date]
  /\ \A d \in Days : begun[d] <= runs

LEMMA BegunInitial == Init => BegunInv
<1> SUFFICES ASSUME Init PROVE BegunInv
  OBVIOUS
<1>1. TypeInv
  BY TypeInitial
<1>2. QED
  BY <1>1 DEF Init, BegunInv

\* A step that begins no run leaves an object, removes it or puts that of a run.
LEMMA BegunQuiet ==
  ASSUME BegunInv, TypeInv', UNCHANGED <<begun, runs>>,
         NEW p \in Runners, NEW label, NEW j \in Job, Goto(p, label, j), pc[p] # "idle",
         label = "idle" \/ (/\ j.manifest.run = job[p].manifest.run
                            /\ j.manifest.date = job[p].manifest.date),
         \A s \in Sources, d \in Days :
           \/ store'[s][d] \in {0, store[s][d]}
           \/ d = job[p].manifest.date /\ store'[s][d] = job[p].manifest.run
  PROVE  BegunInv'
<1>1. /\ \A d \in Days : begun[d] \in Nat
      /\ \A q \in Runners : job[q] \in Job
      /\ job[p].manifest.run <= begun[job[p].manifest.date]
  BY DEF BegunInv, TypeInv, TypeOK
<1>2. \A s \in Sources, d \in Days : store'[s][d] <= begun[d]
  BY <1>1 DEF BegunInv
<1>3. ASSUME NEW q \in Runners, pc'[q] # "idle"
      PROVE  job'[q].manifest.run <= begun[job'[q].manifest.date]
  <2>1. CASE q = p
    <3>1. pc'[p] = label /\ job'[p] = j
      BY DEF Goto, BegunInv, TypeInv, TypeOK
    <3>2. QED
      BY <1>1, <1>3, <2>1, <3>1
  <2>2. CASE q # p
    <3>1. pc'[q] = pc[q] /\ job'[q] = job[q]
      BY <2>2 DEF Goto, BegunInv, TypeInv, TypeOK
    <3>2. QED
      BY <1>3, <3>1 DEF BegunInv
  <2>3. QED
    BY <2>1, <2>2
<1>4. QED
  BY <1>2, <1>3 DEF BegunInv

LEMMA BegunPut ==
  ASSUME TypeInv, NEW p \in Runners, NEW s \in Sources, Put(p, s)
  PROVE  \A t \in Sources, d \in Days :
           \/ store'[t][d] \in {0, store[t][d]}
           \/ d = job[p].manifest.date /\ store'[t][d] = job[p].manifest.run
  BY DEF Put, TypeInv, TypeOK

LEMMA BegunRemoved ==
  ASSUME TypeInv, NEW k \in Key, store' = Removed(k)
  PROVE  \A t \in Sources, d \in Days : store'[t][d] \in {0, store[t][d]}
<1>1. k[1] \in Sources /\ k[2] \in Days
  BY DEF Key
<1>2. QED
  BY <1>1 DEF Removed, TypeInv, TypeOK

LEMMA BegunRunStep ==
  ASSUME BegunInv, TypeInv', NEW p \in Runners,
         \/ Upload(p) \/ UploadFails(p) \/ ExportAgents(p) \/ ExportFails(p)
         \/ PutDated(p) \/ PutLatest(p) \/ PutManifestFails(p) \/ Kill(p)
  PROVE  BegunInv'
<1>1. PICK j : j = job[p]
  OBVIOUS
<1>2. PICK s : s = Head(job[p].left)
  OBVIOUS
<1>3. TypeInv /\ j \in Job /\ j.manifest \in Manifest
  BY <1>1, JobFields DEF BegunInv, TypeInv, TypeOK
<1>4. CASE Upload(p) \/ UploadFails(p)
  <2>1. /\ pc[p] = "upload" /\ UNCHANGED <<begun, runs>>
        /\ Put(p, s) \/ UNCHANGED store
        /\ \/ Goto(p, AfterSource(j), [Listed(j, s) EXCEPT !.left = Tail(@)])
           \/ Goto(p, AfterSource(j), [Recorded(j, {s}) EXCEPT !.left = Tail(@)])
    BY <1>1, <1>2, <1>4 DEF Upload, UploadFails
  <2>2. s \in Sources
    BY <1>1, <1>2, <1>3, <2>1, AfterSourceType
  <2>3. /\ Listed(j, s) \in Job /\ Recorded(j, {s}) \in Job
        /\ Listed(j, s).left = j.left /\ Recorded(j, {s}).left = j.left
        /\ Listed(j, s).manifest.run = j.manifest.run
        /\ Listed(j, s).manifest.date = j.manifest.date
        /\ Recorded(j, {s}).manifest.run = j.manifest.run
        /\ Recorded(j, {s}).manifest.date = j.manifest.date
    BY <1>3, <2>2, JobUpdates DEF Listed, Recorded, Job, Manifest
  <2>4. PICK i \in Job : /\ i.manifest.run = j.manifest.run /\ i.manifest.date = j.manifest.date
                         /\ Goto(p, AfterSource(j), i)
    <3>1. CASE Goto(p, AfterSource(j), [Listed(j, s) EXCEPT !.left = Tail(@)])
      <4>1. [Listed(j, s) EXCEPT !.left = Tail(j.left)] \in Job
        BY <1>1, <1>3, <2>1, <2>3, AfterSourceType
      <4>2. [Listed(j, s) EXCEPT !.left = Tail(@)] = [Listed(j, s) EXCEPT !.left = Tail(j.left)]
        BY <2>3
      <4>3. [Listed(j, s) EXCEPT !.left = Tail(j.left)].manifest = Listed(j, s).manifest
        BY <2>3 DEF Job
      <4>4. QED
        BY <2>3, <3>1, <4>1, <4>2, <4>3
    <3>2. CASE Goto(p, AfterSource(j), [Recorded(j, {s}) EXCEPT !.left = Tail(@)])
      <4>1. [Recorded(j, {s}) EXCEPT !.left = Tail(j.left)] \in Job
        BY <1>1, <1>3, <2>1, <2>3, AfterSourceType
      <4>2. [Recorded(j, {s}) EXCEPT !.left = Tail(@)] = [Recorded(j, {s}) EXCEPT !.left = Tail(j.left)]
        BY <2>3
      <4>3. [Recorded(j, {s}) EXCEPT !.left = Tail(j.left)].manifest = Recorded(j, {s}).manifest
        BY <2>3 DEF Job
      <4>4. QED
        BY <2>3, <3>2, <4>1, <4>2, <4>3
    <3>3. QED
      BY <2>1, <3>1, <3>2
  <2>5. \A t \in Sources, d \in Days :
          \/ store'[t][d] \in {0, store[t][d]}
          \/ d = job[p].manifest.date /\ store'[t][d] = job[p].manifest.run
    BY <1>3, <2>1, <2>2, BegunPut
  <2>6. QED
    BY <1>1, <2>1, <2>4, <2>5, BegunQuiet
<1>5. CASE ~ (Upload(p) \/ UploadFails(p))
  <2>1. PICK label \in Labels, i \in Job :
          /\ pc[p] # "idle" /\ UNCHANGED <<begun, runs, store>>
          /\ Goto(p, label, i)
          /\ \/ label = "idle"
             \/ i.manifest.run = j.manifest.run /\ i.manifest.date = j.manifest.date
    <3>1. CASE ExportAgents(p)
      <4>1. [j EXCEPT !.left = Agents] \in Job /\ [j EXCEPT !.left = Agents].manifest = j.manifest
        BY <1>3, JobUpdates DEF Job
      <4>2. QED
        BY <1>1, <3>1, <4>1 DEF ExportAgents, Labels
    <3>2. CASE ExportFails(p)
      <4>1. Elements(Agents) \in SUBSET Sources
        BY DEF Sources
      <4>2. Recorded(j, Elements(Agents)) \in Job
        BY <1>3, <4>1, JobUpdates
      <4>3. /\ Recorded(j, Elements(Agents)).manifest.run = j.manifest.run
            /\ Recorded(j, Elements(Agents)).manifest.date = j.manifest.date
        BY <1>3 DEF Recorded, Job, Manifest
      <4>4. QED
        BY <1>1, <3>2, <4>2, <4>3 DEF ExportFails, Labels
    <3>3. CASE PutDated(p)
      BY <1>1, <1>3, <3>3 DEF PutDated, Labels
    <3>4. StartPrune(j) \in Job /\ StartPrune(j).manifest = j.manifest
      BY <1>3, JobUpdates DEF StartPrune, KeyPrefixes, Job
    <3>5. CASE PutLatest(p) \/ PutManifestFails(p)
      BY <1>1, <3>4, <3>5 DEF PutLatest, PutManifestFails, Labels
    <3>6. CASE Kill(p)
      BY <3>6, NoJobType DEF Kill, Labels
    <3>7. QED
      BY <1>5, <3>1, <3>2, <3>3, <3>5, <3>6
  <2>2. QED
    BY <1>1, <2>1, BegunQuiet
<1>6. QED
  BY <1>4, <1>5

LEMMA BegunPruneStep ==
  ASSUME BegunInv, TypeInv', NEW p \in Runners,
         ListKeys(p) \/ DeleteObject(p) \/ FinishPrune(p) \/ PruneFails(p)
  PROVE  BegunInv'
<1>1. PICK j : j = job[p]
  OBVIOUS
<1>2. TypeInv /\ j \in Job /\ j.manifest \in Manifest /\ j.doomed \in SUBSET Key
  BY <1>1, JobFields DEF BegunInv, TypeInv, TypeOK
<1>3. UNCHANGED <<begun, runs>> /\ pc[p] # "idle"
  BY DEF ListKeys, DeleteObject, FinishPrune, PruneFails
<1>4. \A t \in Sources, d \in Days : store'[t][d] \in {0, store[t][d]}
  <2>1. store' = store \/ \E k \in j.doomed : store' = Removed(k)
    BY <1>1 DEF ListKeys, DeleteObject, FinishPrune, PruneFails
  <2>2. QED
    BY <1>2, <2>1, BegunRemoved
<1>5. PICK label \in Labels, i \in Job : Goto(p, label, i) /\ (label = "idle" \/ i.manifest = j.manifest)
  <2>1. CASE ListKeys(p)
    <3>1. Doomed(Head(j.prefixes)) \in SUBSET Key
      BY DEF Doomed, KeysOf
    <3>2. /\ [j EXCEPT !.doomed = Doomed(Head(j.prefixes))] \in Job
          /\ [j EXCEPT !.doomed = Doomed(Head(j.prefixes))].manifest = j.manifest
      BY <1>2, <3>1, JobUpdates DEF Job
    <3>3. QED
      BY <1>1, <2>1, <3>2 DEF ListKeys, Labels
  <2>2. CASE DeleteObject(p)
    <3>1. PICK k \in j.doomed : Goto(p, "delete", [j EXCEPT !.doomed = @ \ {k}])
      BY <1>1, <2>2 DEF DeleteObject
    <3>2. [j EXCEPT !.doomed = @ \ {k}] \in Job /\ [j EXCEPT !.doomed = @ \ {k}].manifest = j.manifest
      BY <1>2 DEF Job
    <3>3. QED
      BY <3>1, <3>2 DEF Labels
  <2>3. CASE FinishPrune(p) \/ PruneFails(p)
    <3>1. PICK i : i = [j EXCEPT !.prefixes = Tail(@), !.doomed = {}]
      OBVIOUS
    <3>2. j.prefixes \in Seq(KeyPrefixes) /\ j.prefixes # <<>>
      BY <1>1, <1>2, <2>3, JobFields DEF FinishPrune, PruneFails, TypeInv, JobInv
    <3>3. Tail(j.prefixes) \in Seq(KeyPrefixes)
      BY <3>2, HeadTail
    <3>4. i \in Job /\ i.manifest = j.manifest
      BY <1>2, <3>1, <3>3 DEF Job, KeyPrefixes
    <3>5. Goto(p, "idle", NoJob) \/ Goto(p, "prune", i)
      BY <1>1, <2>3, <3>1 DEF FinishPrune, PruneFails, NextPrefix
    <3>6. QED
      BY <3>4, <3>5, NoJobType DEF Labels
  <2>4. QED
    BY <2>1, <2>2, <2>3
<1>6. QED
  BY <1>1, <1>3, <1>4, <1>5, BegunQuiet

LEMMA BegunStart ==
  ASSUME BegunInv, TypeInv', NEW p \in Runners, StartRun(p)
  PROVE  BegunInv'
<1>1. /\ runs \in Nat /\ today \in Days /\ UNCHANGED store
      /\ begun \in [Days -> Nat] /\ begun' = [begun EXCEPT ![today] = runs + 1]
      /\ runs' = runs + 1
  BY DEF StartRun, DateOfRun, BegunInv, TypeInv, TypeOK
<1>2. \A d \in Days : begun[d] <= begun'[d] /\ begun'[d] <= runs'
  BY <1>1 DEF BegunInv
<1>3. \A s \in Sources, d \in Days : store'[s][d] <= begun'[d]
  <2>1. \A s \in Sources, d \in Days : store[s][d] \in Nat /\ store[s][d] <= begun[d]
    BY DEF BegunInv, TypeInv, TypeOK
  <2>2. \A d \in Days : begun[d] \in Nat /\ begun'[d] \in Nat
    BY <1>1
  <2>3. QED
    BY <1>1, <1>2, <2>1, <2>2
<1>4. ASSUME NEW q \in Runners, pc'[q] # "idle"
      PROVE  job'[q].manifest.run <= begun'[job'[q].manifest.date]
  <2>1. CASE q = p
    <3>1. job'[p].manifest.run = runs + 1 /\ job'[p].manifest.date = today
      BY DEF StartRun, Goto, DateOfRun, NoJob, NoManifest, BegunInv, TypeInv, TypeOK
    <3>2. QED
      BY <1>1, <2>1, <3>1
  <2>2. CASE q # p
    <3>1. pc'[q] = pc[q] /\ job'[q] = job[q]
      BY <2>2 DEF StartRun, Goto, BegunInv, TypeInv, TypeOK
    <3>2. job[q].manifest.run \in Nat /\ job[q].manifest.date \in Days
      BY JobFields DEF BegunInv, TypeInv, TypeOK
    <3>3. job[q].manifest.run <= begun[job[q].manifest.date]
      BY <1>4, <3>1 DEF BegunInv
    <3>4. begun[job[q].manifest.date] \in Nat /\ begun'[job[q].manifest.date] \in Nat
      BY <1>1, <3>2
    <3>5. QED
      BY <1>2, <3>1, <3>2, <3>3, <3>4
  <2>3. QED
    BY <2>1, <2>2
<1>5. QED
  BY <1>2, <1>3, <1>4 DEF BegunInv

LEMMA BegunStep == BegunInv /\ [Next]_vars => BegunInv'
<1> SUFFICES ASSUME BegunInv, [Next]_vars PROVE BegunInv'
  OBVIOUS
<1>1. TypeInv'
  BY TypeStep DEF BegunInv
<1>2. CASE NextDay \/ UNCHANGED vars
  <2>1. UNCHANGED <<store, pc, job, runs, begun>>
    BY <1>2 DEF NextDay, vars
  <2>2. QED
    BY <1>1, <2>1 DEF BegunInv
<1>3. QED
  BY <1>1, <1>2, BegunRunStep, BegunPruneStep, BegunStart DEF Next

\* While runs do not overlap, every manifest in the store accounts for every source: it
\* names it among the failures, or its object is there until retention drops the date, with
\* the bytes that the manifest describes unless a later run was begun on the same date.
THEOREM BackupManifestHonest ==
  ASSUME OneRunner
  PROVE  Spec => []ManifestHonest
<1>1. HonestInv("intact") /\ [Next]_vars => HonestInv("intact")'
  BY HonestStep DEF Alone, Kinds
<1>2. HonestInv("intact") /\ BegunInv => ManifestHonest
  <2> SUFFICES ASSUME HonestInv("intact"), BegunInv, NEW m \in {dated[d] : d \in Days} \cup {latest},
                      m.run # 0, NEW s \in Sources, s \notin m.failed
               PROVE  /\ s \in m.assets
                      /\ \/ store[s][m.date] \in m.run .. begun[m.date]
                         \/ m.date \notin Keep(made[PrefixOf[s]])
    BY DEF ManifestHonest
  <2>1. m \in Manifest
    BY DEF BegunInv, TypeInv, TypeOK
  <2>2. m.run \in Nat /\ m.date \in Days
    BY <2>1 DEF Manifest
  <2>3. store[s][m.date] \in Nat /\ begun[m.date] \in Nat /\ store[s][m.date] <= begun[m.date]
    <3>1. store \in [Sources -> [Days -> Nat]] /\ begun \in [Days -> Nat]
      BY DEF BegunInv, TypeInv, TypeOK
    <3>2. \A t \in Sources, d \in Days : store[t][d] <= begun[d]
      BY DEF BegunInv
    <3>3. QED
      BY <2>2, <3>1, <3>2
  <2>4. /\ s \in m.assets
        /\ store[s][m.date] >= m.run \/ m.date \notin Keep(made[PrefixOf[s]])
    BY DEF HonestInv, WrittenOK, Accounted, Beyond
  <2>5. QED
    BY <2>2, <2>3, <2>4
<1>3. Init => HonestInv("intact")
  BY HonestInitial DEF Kinds
<1>4. QED
  BY <1>1, <1>2, <1>3, BegunInitial, BegunStep, PTL DEF Spec

\* However many runs overlap, what a manifest in the store lists is in the store too, until
\* retention drops its date, and it lists every source that it does not name as failed.
THEOREM BackupManifestRestorable == Spec => []ManifestRestorable
<1>1. HonestInv("there") /\ [Next]_vars => HonestInv("there")'
  BY HonestStep DEF Alone, Kinds
<1>2. HonestInv("there") => ManifestRestorable
  BY DEF HonestInv, WrittenOK, Accounted, Beyond, ManifestRestorable
<1>3. Init => HonestInv("there")
  BY HonestInitial DEF Kinds
<1>4. QED
  BY <1>1, <1>2, <1>3, PTL DEF Spec
=============================================================================
