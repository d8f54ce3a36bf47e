---------------------------- MODULE MCListening ----------------------------
(* The players of the run of Listening, and the streaks of their days. *)
EXTENDS Listening, Streaks

\* Streaks keeps its rule on every choice of the six days up to today, gaps and
\* all (library/service.go, Streaks).  The states before the first report show
\* it: it depends on nothing but the days.
StreaksFollowTheRule ==
    reports = 0 => \A days \in SUBSET (Today - 5 .. Today) : FollowsTheRule(days, Today)
=============================================================================
