----------------------------- MODULE CouponRace -----------------------------
(***************************************************************************)
(* The race on a coupon: evaluateCoupon counts the redemptions outside of  *)
(* any lock, the transaction of the purchase writes one.  peak[u]          *)
(* remembers the most calls of u that were ever between the two at the     *)
(* same time, peakOfAll the most of all users.                             *)
(***************************************************************************)
EXTENDS Purchase

VARIABLES peak, peakOfAll       \* history, read by no action

raceVars == <<vars, peak, peakOfAll>>

\* Calls whose coupon was accepted and whose redemption is not yet visible.
Racing == {r \in Requests : discount[r] > 0 /\ pc[r] \in {"open"} \cup InTransaction}

RacingOf(u) == {r \in Racing : Buyer(r) = u}

AtLeast(m, n) == IF m > n THEN m ELSE n

RaceInit == Init /\ peak = [u \in Users |-> 0] /\ peakOfAll = 0

RaceNext ==
    /\ Next
    /\ peak' = [u \in Users |-> AtLeast(peak[u], Cardinality(RacingOf(u)'))]
    /\ peakOfAll' = AtLeast(peakOfAll, Cardinality(Racing'))

RaceSpec == RaceInit /\ [][RaceNext]_raceVars /\ Fairness

-----------------------------------------------------------------------------
\* "a coupon can therefore be over-redeemed only by the number of purchases
\* racing in the same instant" (service.go 427-432): beyond the last
\* redemption below the limit there are at most the calls of one race.
OverRedeemedByRaceOnly ==
    /\ Campaign.maxRedemptions > 0 =>
          Cardinality(Redeemed) <= (Campaign.maxRedemptions - 1) + peakOfAll
    /\ Campaign.perUserLimit > 0 =>
          \A u \in Users : Cardinality(RedeemedBy(u)) <= (Campaign.perUserLimit - 1) + peak[u]

\* Why it holds: whoever is accepted joins a race of calls that all count, and
\* a redemption takes its call out of the race.
RaceTyped == peak \in [Users -> Nat] /\ peakOfAll \in Nat

RaceCounts ==
    /\ Campaign.maxRedemptions > 0 =>
          Cardinality(Redeemed) + Cardinality(Racing) <= (Campaign.maxRedemptions - 1) + peakOfAll
    /\ Campaign.perUserLimit > 0 =>
          \A u \in Users : Cardinality(RedeemedBy(u)) + Cardinality(RacingOf(u))
                              <= (Campaign.perUserLimit - 1) + peak[u]

RaceInv == IInv /\ RaceTyped /\ RaceCounts
=============================================================================
