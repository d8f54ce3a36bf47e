------------------------------ MODULE Streaks ------------------------------
(***************************************************************************)
(* The days in a row on which a user has listened (library/service.go,     *)
(* Streaks).  A day is a number; StatsFor asks the database for the days   *)
(* in the zone of the user and takes today from the clock of the server.   *)
(***************************************************************************)
EXTENDS Integers, FiniteSets, FiniteSetsExt

Newer(days, d) == {e \in days : e > d}

\* Distinct days, the newest first.
Normalized(days) ==
    [i \in 1 .. Cardinality(days) |-> CHOOSE d \in days : Cardinality(Newer(days, d)) = i - 1]

NextDay(s, i) == i > 1 /\ s[i - 1] - 1 = s[i]

\* The length of the run of days in a row that the i-th day ends, going back.
\* Without the reset at a gap.
RunsOverGaps(s) ==
    LET run[i \in DOMAIN s] == IF i = 1 THEN 1 ELSE run[i - 1] + (IF NextDay(s, i) THEN 1 ELSE 0)
    IN  run

Runs(s) ==
    LET run[i \in DOMAIN s] == IF NextDay(s, i) THEN run[i - 1] + 1 ELSE 1
    IN  run

\* The longest run, and the newest unless it is over: its last day is neither
\* today nor yesterday.
StreaksOn(days, today) ==
    IF days = {} THEN [current |-> 0, longest |-> 0]
    ELSE LET s == Normalized(days)
             run == Runs(s)
         IN  [current |-> IF s[1] \in {today, today - 1} THEN Max({i \in DOMAIN s : run[i] = i}) ELSE 0,
              longest |-> Max({run[i] : i \in DOMAIN s})]

-----------------------------------------------------------------------------
\* n days in a row, the last of them d.
InARow(days, d, n) == \A k \in 0 .. n - 1 : d - k \in days

MostInARow(days, ends) ==
    Max({n \in 0 .. Cardinality(days) : \E d \in ends : InARow(days, d, n)})

\* "a streak stays alive if the user listened today or yesterday", and counts the
\* days in a row up to then; the longest is the most days in a row anywhere
\* (library/service.go, Streaks).
FollowsTheRule(days, today) ==
    LET last == IF today \in days THEN today ELSE today - 1
    IN  StreaksOn(days, today) = [current |-> MostInARow(days, {last}),
                                  longest |-> MostInARow(days, days \cup {today})]
=============================================================================
