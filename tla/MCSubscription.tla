--------------------------- MODULE MCSubscription ---------------------------
(* One subscriber for the runs of Subscription. *)
EXTENDS Subscription, TLC

CONSTANTS u1

MCCaller == [c \in Calls |-> u1]

\* Two periods and a half.
Rich == [u \in Users |-> 2 * Price + Price \div 2]

\* Calls differ only in when they run, and so do sweeps.
Symmetry == Permutations(Calls) \cup Permutations(Jobs)

MCNever == -RetryAfter - 1
=============================================================================
