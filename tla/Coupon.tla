------------------------------- MODULE Coupon -------------------------------
(***************************************************************************)
(* The arithmetic of a discount code (commerce/model.go, Coupon.Discount). *)
(* Amounts are whole rials.  The validity window is judged by the database *)
(* (GetUsableCouponByCode) and is not part of the record.                  *)
(***************************************************************************)
EXTENDS Integers

\* A zero maxDiscount, maxRedemptions or perUserLimit means "no limit".
CouponType == [kind           : {"percent", "fixed"},
               value          : Nat \ {0},
               maxDiscount    : Nat,
               minSubtotal    : Nat,
               maxRedemptions : Nat,
               perUserLimit   : Nat]

AtMost(d, limit) == IF d > limit THEN limit ELSE d

\* Integer division rounds a percentage down.
FaceValue(c, subtotal) ==
    IF c.kind = "percent" THEN (subtotal * c.value) \div 100 ELSE c.value

Discount(c, subtotal) ==
    IF subtotal < c.minSubtotal
    THEN 0
    ELSE LET face == FaceValue(c, subtotal)
             cut  == IF c.maxDiscount > 0 THEN AtMost(face, c.maxDiscount) ELSE face
         IN  AtMost(cut, subtotal)

-----------------------------------------------------------------------------
\* What a coupon allows: "a discount that rounds up hands out rial the company
\* never agreed to", and "may make an order free but never negative".
Allowed(c, subtotal, d) ==
    /\ d <= subtotal
    /\ c.kind = "percent" => 100 * d <= subtotal * c.value
    /\ c.kind = "fixed" => d <= c.value
    /\ c.maxDiscount # 0 => d <= c.maxDiscount
    /\ subtotal < c.minSubtotal => d = 0

\* d is the most that is allowed.
IsMost(c, subtotal, d) ==
    /\ Allowed(c, subtotal, d)
    /\ \A more \in 0..subtotal : Allowed(c, subtotal, more) => more <= d
=============================================================================
