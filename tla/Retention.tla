----------------------------- MODULE Retention ------------------------------
(***************************************************************************)
(* The retention plan of the backups (src/backup/retention.ts): which of   *)
(* the dates that are in the object store are kept.  A date is the number  *)
(* of its day, day 0 being a Monday.                                       *)
(***************************************************************************)
EXTENDS Naturals, FiniteSets

CONSTANTS
  RetainDaily,   \* retainDaily
  RetainWeekly,  \* retainWeekly
  WeekLength     \* 7

ASSUME RetentionAssumption ==
  /\ RetainDaily \in Nat
  /\ RetainWeekly \in Nat
  /\ WeekLength \in Nat \ {0}

\* isoWeek: two dates have the same week id just when one week holds them both.
Week(date) == date \div WeekLength

Newer(dates, date) == {d \in dates : d > date}

----------------------------------------------------------------------------
\* planRetention goes through the dates from the newest to the oldest.

\* The date that has i - 1 dates before it.
Newest(dates, i) == CHOOSE d \in dates : Cardinality(Newer(dates, d)) = i - 1

VisitDate_SameWeek(acc, date) ==
  IF Cardinality(acc.seen) < RetainWeekly
  THEN [seen |-> acc.seen \cup {Week(date)}, keep |-> acc.keep \cup {date}]
  ELSE acc

\* Both the `break` and the `continue` leave what is kept as it is, for this date and
\* for all the older ones.
VisitDate(acc, date) ==
  IF Week(date) \notin acc.seen /\ Cardinality(acc.seen) < RetainWeekly
  THEN [seen |-> acc.seen \cup {Week(date)}, keep |-> acc.keep \cup {date}]
  ELSE acc

\* The first RetainDaily dates are kept as they are, and the loop visits the others.
Visited(dates) ==
  LET start == [seen |-> {},
                keep |-> {Newest(dates, i) : i \in (1 .. Cardinality(dates)) \cap (1 .. RetainDaily)}]
      visited[i \in 0 .. Cardinality(dates)] ==
        IF i <= RetainDaily THEN start ELSE VisitDate(visited[i - 1], Newest(dates, i))
  IN  visited

PlanLoop(dates) == Visited(dates)[Cardinality(dates)].keep

----------------------------------------------------------------------------
\* What the plan is to keep.

\* The daily window holds the newest RetainDaily dates.
InDaily(dates, date) == Cardinality(Newer(dates, date)) < RetainDaily

Remaining(dates) == {d \in dates : ~ InDaily(dates, d)}

Weeks(dates) == {Week(d) : d \in dates}

\* The weekly window holds, of the dates that remain, the newest of each of the newest
\* RetainWeekly weeks.
InWeekly(dates, date) ==
  LET rest == Remaining(dates)
  IN  /\ date \in rest
      /\ \A d \in Newer(rest, date) : Week(d) # Week(date)
      /\ Cardinality(Weeks(Newer(rest, date))) < RetainWeekly

Keep(dates) == {d \in dates : InDaily(dates, d) \/ InWeekly(dates, d)}
=============================================================================
