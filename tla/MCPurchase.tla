----------------------------- MODULE MCPurchase -----------------------------
(***************************************************************************)
(* Baskets, prices and a coupon for the run of Purchase and of the race on *)
(* the coupon.                                                             *)
(***************************************************************************)
EXTENDS CouponRace

CONSTANTS u1, u2, e1, e2, k1

Is(e, u) == [edition |-> e, to |-> u]

Basket(u, k, lines, c) == [user |-> u, key |-> k, lines |-> lines, coupon |-> c]

MCPrice == [e \in Editions |-> IF e = e1 THEN 2 ELSE 1]

\* Two uses in all, one for each user.
TwoRialsOff == [kind |-> "fixed", value |-> 2, maxDiscount |-> 0, minSubtotal |-> 0,
                maxRedemptions |-> 2, perUserLimit |-> 1]

\* With a key and without, for oneself and as a gift, one line, two and none; with
\* the coupon worth less than the basket and more.
MCCalls == {Basket(u1, k1, <<Is(e1, u1)>>, FALSE),
            Basket(u1, NoKey, <<Is(e1, u1), Is(e2, u2)>>, TRUE),
            Basket(u1, NoKey, <<Is(e1, u1)>>, FALSE),
            Basket(u2, NoKey, <<Is(e2, u1)>>, TRUE),
            Basket(u2, NoKey, <<>>, FALSE)}
=============================================================================
