---------------------------- MODULE WalletProofs ----------------------------
(***************************************************************************)
(* Theorems of Purchase and of TopUp, for any number of users, editions,   *)
(* calls, keys, refunds, payments and callbacks: the coupon arithmetic,    *)
(* the types, the inductive invariant IInv and what follows from it, the   *)
(* refinement of Checkout, the race on a coupon, the books, and that a     *)
(* payment is credited once.                                               *)
(***************************************************************************)
EXTENDS CouponRace, TopUp, FiniteSums

(***************************************************************************)
(* A discount never exceeds what it is taken from: "A coupon may make an   *)
(* order free but never negative" (Coupon.Discount).                       *)
(***************************************************************************)
LEMMA DiscountBound ==
    ASSUME NEW c \in CouponType, NEW s \in Nat
    PROVE  Discount(c, s) \in Nat /\ Discount(c, s) <= s
<1>1. FaceValue(c, s) \in Nat
  <2>1. c.value \in Nat /\ s * c.value \in Nat
    BY DEF CouponType
  <2>2. (s * c.value) \div 100 \in Nat
    BY <2>1
  <2> QED
    BY <2>1, <2>2 DEF FaceValue
<1>2. c.maxDiscount \in Nat /\ c.minSubtotal \in Nat
  BY DEF CouponType
<1> QED
  BY <1>1, <1>2 DEF Discount, AtMost

\* Coupon.Discount gives the most that the coupon allows on a subtotal, and
\* nothing beyond: rounded down, capped, never more than the basket.
THEOREM CouponIsExact ==
    ASSUME NEW c \in CouponType, NEW s \in Nat
    PROVE  IsMost(c, s, Discount(c, s))
<1>1. /\ c.kind \in {"percent", "fixed"} /\ c.maxDiscount \in Nat /\ c.minSubtotal \in Nat
      /\ c.value \in Nat /\ s * c.value \in Nat
  BY DEF CouponType
<1>2. FaceValue(c, s) \in Nat
  BY <1>1 DEF FaceValue
<1>3. \A d \in Nat : d <= FaceValue(c, s) <=>
                        /\ c.kind = "percent" => 100 * d <= s * c.value
                        /\ c.kind = "fixed" => d <= c.value
  <2>1. \A d, p \in Nat : d <= p \div 100 <=> 100 * d <= p
    OBVIOUS
  <2> QED
    BY <1>1, <2>1 DEF FaceValue
<1>4. \A d \in Nat : Allowed(c, s, d) <=> d <= Discount(c, s)
  BY <1>1, <1>2, <1>3 DEF Allowed, Discount, AtMost
<1> QED
  BY <1>4, DiscountBound DEF IsMost

-----------------------------------------------------------------------------
USE CallsAssumption, PriceAssumption, CampaignAssumption, DepositAssumption, NoneAssumption

\* The arguments of a call: who pays, and for which lines (Handler.purchase).
LEMMA CallFacts ==
    ASSUME TypeOK, NEW r \in Requests
    PROVE  /\ arg[r] \in Call
           /\ Buyer(r) \in Users
           /\ Lines(r) \in Seq(Line)
           /\ Len(Lines(r)) \in Nat
           /\ \A i \in 1..Len(Lines(r)) : Lines(r)[i] \in Line
<1>1. arg[r] \in Call
  BY DEF TypeOK
<1> QED
  BY <1>1 DEF Call, Buyer, Lines

\* What a call grants are rows of commerce.entitlements.
LEMMA GrantFacts ==
    ASSUME TypeOK, NEW r \in Requests
    PROVE  GrantsFor(r) \subseteq Entitlement
<1> SUFFICES ASSUME NEW i \in 1..Len(Lines(r)) PROVE GrantFor(r, Lines(r)[i]) \in Entitlement
  BY DEF GrantsFor
<1>1. Lines(r)[i] \in Line
  BY CallFacts
<1> QED
  BY <1>1 DEF GrantFor, Entitlement, Line

\* The tables are empty at first and every variable has its type.
LEMMA TypeInit == Init => TypeOK
BY DEF Init, TypeOK

\* Every step of a call, a deposit or a refund keeps the types.
LEMMA TypeStep == TypeOK /\ [Next]_vars => TypeOK'
<1> SUFFICES ASSUME TypeOK, [Next]_vars PROVE TypeOK'
  OBVIOUS
<1> USE DEF TypeOK, walletVars, orderVars, refundVars, callVars, InTransaction, Running, Finished
<1>1. ASSUME NEW r \in Requests, RefuseEmpty(r) PROVE TypeOK'
  BY <1>1 DEF RefuseEmpty, Goto
<1>2. ASSUME NEW r \in Requests, ReplayKey(r) PROVE TypeOK'
  BY <1>2 DEF ReplayKey, Goto
<1>3. ASSUME NEW r \in Requests, BeginPricing(r) PROVE TypeOK'
  BY <1>3 DEF BeginPricing, Goto
<1>4. ASSUME NEW r \in Requests, RefuseOwned(r) PROVE TypeOK'
  BY <1>4 DEF RefuseOwned, Goto
<1>5. ASSUME NEW r \in Requests, RefuseCoupon(r) PROVE TypeOK'
  BY <1>5 DEF RefuseCoupon, Goto
<1>6. ASSUME NEW r \in Requests, OpenOrder(r) PROVE TypeOK'
  BY <1>6 DEF OpenOrder, Goto
<1>7. ASSUME NEW r \in Requests, RefuseDuplicateKey(r) PROVE TypeOK'
  BY <1>7 DEF RefuseDuplicateKey, Goto
<1>8. ASSUME NEW r \in Requests, DebitLocked(r) PROVE TypeOK'
  BY <1>8 DEF DebitLocked, Goto
<1>9. ASSUME NEW r \in Requests, RefuseFunds(r) PROVE TypeOK'
  BY <1>9 DEF RefuseFunds, RollBack, Unlock
<1>10. ASSUME NEW r \in Requests, Abort(r) PROVE TypeOK'
  BY <1>10 DEF Abort, RollBack, Unlock
<1>11. ASSUME NEW r \in Requests, LockWallet(r) PROVE TypeOK'
  BY <1>11, CallFacts DEF LockWallet, Goto
<1>12. ASSUME NEW r \in Requests, PriceLine(r) PROVE TypeOK'
  <2>1. NextLine(r) \in Line
    <3>1. checked[r] \in Nat /\ checked[r] < Len(Lines(r))
      BY <1>12 DEF PriceLine
    <3>2. Len(Lines(r)) \in Nat /\ \A i \in 1..Len(Lines(r)) : Lines(r)[i] \in Line
      BY CallFacts
    <3> QED
      BY ONLY <3>1, <3>2 DEF NextLine
  <2>2. Price[NextLine(r).edition] \in Nat
    BY <2>1 DEF Line
  <2> QED
    BY <1>12, <2>2 DEF PriceLine
<1>13. ASSUME NEW r \in Requests, ApplyCoupon(r) PROVE TypeOK'
  <2>1. Discount(Campaign, subtotal[r]) \in Nat
    BY DiscountBound
  <2> QED
    BY <1>13, <2>1 DEF ApplyCoupon, Goto
<1>14. ASSUME NEW r \in Requests, Commit(r) PROVE TypeOK'
  <2>1. entitlements' \subseteq Entitlement
    BY <1>14, GrantFacts DEF Commit, Inserted
  <2>2. balance' \in [Users -> Int]
    BY <1>14, CallFacts DEF Commit, Total
  <2> QED
    BY <1>14, <2>1, <2>2 DEF Commit, Unlock, Goto
<1>15. ASSUME NEW u \in Users, NEW amount \in Deposits, Deposit(u, amount) PROVE TypeOK'
  BY <1>15 DEF Deposit
<1>16. ASSUME NEW f \in Refunds, NEW r \in Requests, RequestRefund(f, r) PROVE TypeOK'
  BY <1>16 DEF RequestRefund
<1>17. ASSUME NEW f \in Refunds, ApproveRefund(f) PROVE TypeOK'
  <2>1. refundOf[f] \in Requests
    BY <1>17 DEF ApproveRefund
  <2>2. balance' \in [Users -> Int]
    BY <1>17, <2>1, CallFacts DEF ApproveRefund, Total
  <2> QED
    BY <1>17, <2>1, <2>2 DEF ApproveRefund
<1>18. ASSUME NEW f \in Refunds, RejectRefund(f) PROVE TypeOK'
  BY <1>18 DEF RejectRefund
<1>19. CASE UNCHANGED vars
  BY <1>19 DEF vars
<1> QED
  BY <1>1, <1>2, <1>3, <1>4, <1>5, <1>6, <1>7, <1>8, <1>9, <1>10, <1>11, <1>12, <1>13, <1>14, <1>15, <1>16, <1>17, <1>18, <1>19 DEF Next, Step

\* Every value keeps its type in every reachable state.
THEOREM TypeCorrect == Spec => []TypeOK
BY TypeInit, TypeStep, PTL DEF Spec

\* The row of an order is there exactly while its transaction is open or
\* committed, a discount stays within its subtotal, refunds are of paid orders.
LEMMA ControlStep == IInv /\ [Next]_vars => (TransactionIsPending /\ DiscountWithinSubtotal /\ RefundsOfCommitted)'
<1> SUFFICES ASSUME IInv, [Next]_vars PROVE (TransactionIsPending /\ DiscountWithinSubtotal /\ RefundsOfCommitted)'
  OBVIOUS
<1> USE DEF IInv, TypeOK, TransactionIsPending, DiscountWithinSubtotal, RefundsOfCommitted, InTransaction, Running, Finished, Committed, walletVars, orderVars, refundVars, callVars
<1>1. ASSUME NEW r \in Requests, RefuseEmpty(r) PROVE (TransactionIsPending /\ DiscountWithinSubtotal /\ RefundsOfCommitted)'
  BY <1>1 DEF RefuseEmpty, Goto
<1>2. ASSUME NEW r \in Requests, ReplayKey(r) PROVE (TransactionIsPending /\ DiscountWithinSubtotal /\ RefundsOfCommitted)'
  BY <1>2 DEF ReplayKey, Goto
<1>3. ASSUME NEW r \in Requests, BeginPricing(r) PROVE (TransactionIsPending /\ DiscountWithinSubtotal /\ RefundsOfCommitted)'
  BY <1>3 DEF BeginPricing, Goto
<1>4. ASSUME NEW r \in Requests, PriceLine(r) PROVE (TransactionIsPending /\ DiscountWithinSubtotal /\ RefundsOfCommitted)'
  <2>1. NextLine(r) \in Line
    BY <1>4, CallFacts DEF PriceLine, NextLine
  <2>2. Price[NextLine(r).edition] \in Nat
    BY <2>1 DEF Line
  <2> QED
    BY <1>4, <2>2 DEF PriceLine
<1>5. ASSUME NEW r \in Requests, RefuseOwned(r) PROVE (TransactionIsPending /\ DiscountWithinSubtotal /\ RefundsOfCommitted)'
  BY <1>5 DEF RefuseOwned, Goto
<1>6. ASSUME NEW r \in Requests, ApplyCoupon(r) PROVE (TransactionIsPending /\ DiscountWithinSubtotal /\ RefundsOfCommitted)'
  <2>1. Discount(Campaign, subtotal[r]) \in Nat /\ Discount(Campaign, subtotal[r]) <= subtotal[r]
    BY DiscountBound
  <2> QED
    BY <1>6, <2>1 DEF ApplyCoupon, Goto
<1>7. ASSUME NEW r \in Requests, RefuseCoupon(r) PROVE (TransactionIsPending /\ DiscountWithinSubtotal /\ RefundsOfCommitted)'
  BY <1>7 DEF RefuseCoupon, Goto
<1>8. ASSUME NEW r \in Requests, OpenOrder(r) PROVE (TransactionIsPending /\ DiscountWithinSubtotal /\ RefundsOfCommitted)'
  BY <1>8 DEF OpenOrder, Goto
<1>9. ASSUME NEW r \in Requests, RefuseDuplicateKey(r) PROVE (TransactionIsPending /\ DiscountWithinSubtotal /\ RefundsOfCommitted)'
  BY <1>9 DEF RefuseDuplicateKey, Goto
<1>10. ASSUME NEW r \in Requests, LockWallet(r) PROVE (TransactionIsPending /\ DiscountWithinSubtotal /\ RefundsOfCommitted)'
  BY <1>10 DEF LockWallet, Goto
<1>11. ASSUME NEW r \in Requests, DebitLocked(r) PROVE (TransactionIsPending /\ DiscountWithinSubtotal /\ RefundsOfCommitted)'
  BY <1>11 DEF DebitLocked, Goto
<1>12. ASSUME NEW r \in Requests, RefuseFunds(r) PROVE (TransactionIsPending /\ DiscountWithinSubtotal /\ RefundsOfCommitted)'
  BY <1>12 DEF RefuseFunds, RollBack, Unlock
<1>13. ASSUME NEW r \in Requests, Commit(r) PROVE (TransactionIsPending /\ DiscountWithinSubtotal /\ RefundsOfCommitted)'
  BY <1>13 DEF Commit, Unlock, Goto
<1>14. ASSUME NEW r \in Requests, Abort(r) PROVE (TransactionIsPending /\ DiscountWithinSubtotal /\ RefundsOfCommitted)'
  BY <1>14 DEF Abort, RollBack, Unlock
<1>15. ASSUME NEW u \in Users, NEW amount \in Deposits, Deposit(u, amount) PROVE (TransactionIsPending /\ DiscountWithinSubtotal /\ RefundsOfCommitted)'
  BY <1>15 DEF Deposit
<1>16. ASSUME NEW f \in Refunds, NEW r \in Requests, RequestRefund(f, r) PROVE (TransactionIsPending /\ DiscountWithinSubtotal /\ RefundsOfCommitted)'
  BY <1>16 DEF RequestRefund
<1>17. ASSUME NEW f \in Refunds, ApproveRefund(f) PROVE (TransactionIsPending /\ DiscountWithinSubtotal /\ RefundsOfCommitted)'
  BY <1>17 DEF ApproveRefund
<1>18. ASSUME NEW f \in Refunds, RejectRefund(f) PROVE (TransactionIsPending /\ DiscountWithinSubtotal /\ RefundsOfCommitted)'
  BY <1>18 DEF RejectRefund
<1>19. CASE UNCHANGED vars
  BY <1>19 DEF vars
<1> QED
  BY <1>1, <1>2, <1>3, <1>4, <1>5, <1>6, <1>7, <1>8, <1>9, <1>10, <1>11, <1>12, <1>13, <1>14, <1>15, <1>16, <1>17, <1>18, <1>19 DEF Next, Step

\* The arguments are fixed, and so are the amounts once the lines are priced.
LEMMA CartFixed ==
    ASSUME TypeOK, [Next]_vars, NEW q \in Requests
    PROVE  /\ Buyer(q)' = Buyer(q) /\ Lines(q)' = Lines(q) /\ GrantsFor(q)' = GrantsFor(q)
           /\ pc[q] # "price" => Total(q)' = Total(q)
<1> USE DEF TypeOK, walletVars, orderVars, refundVars, callVars
<1>1. arg' = arg
  BY DEF Next, Step, vars, RefuseEmpty, ReplayKey, BeginPricing, PriceLine, RefuseOwned, ApplyCoupon,
     RefuseCoupon, OpenOrder, RefuseDuplicateKey, LockWallet, DebitLocked, RefuseFunds, Commit, Abort,
     RollBack, Unlock, Deposit, RequestRefund, ApproveRefund, RejectRefund
<1>2. ASSUME pc[q] # "price" PROVE subtotal'[q] = subtotal[q] /\ discount'[q] = discount[q]
  BY <1>2 DEF Next, Step, vars, RefuseEmpty, ReplayKey, BeginPricing, PriceLine, RefuseOwned,
     ApplyCoupon, RefuseCoupon, OpenOrder, RefuseDuplicateKey, LockWallet, DebitLocked, RefuseFunds,
     Commit, Abort, RollBack, Unlock, Deposit, RequestRefund, ApproveRefund, RejectRefund
<1>3. Buyer(q)' = Buyer(q) /\ Lines(q)' = Lines(q)
  BY <1>1 DEF Buyer, Lines
<1>4. GrantsFor(q)' = GrantsFor(q)
  BY <1>1 DEF GrantsFor, GrantFor, Buyer, Lines
<1> QED
  BY <1>2, <1>3, <1>4 DEF Total

\* The advisory lock is held from the reading of the balance to COMMIT, and the
\* debit stays covered: credits and refunds only add, other debits wait.
LEMMA WalletStep == IInv /\ [Next]_vars => (DebitUnderLock /\ DebitIsCovered /\ NeverOverdrawn)'
<1> SUFFICES ASSUME IInv, [Next]_vars PROVE (DebitUnderLock /\ DebitIsCovered /\ NeverOverdrawn)'
  OBVIOUS
<1> USE DEF IInv, TypeOK, DebitUnderLock, DebitIsCovered, NeverOverdrawn, InTransaction, Running, Finished, walletVars, orderVars, refundVars, callVars
<1>0. \A q \in Requests : /\ Buyer(q) \in Users /\ Total(q) \in Nat
                          /\ Buyer(q)' = Buyer(q)
                          /\ pc[q] # "price" => Total(q)' = Total(q)
  BY CallFacts, CartFixed DEF DiscountWithinSubtotal, Total
<1>quiet. ASSUME UNCHANGED <<walletLock, balance>>,
                 \A q \in Requests : pc'[q] = pc[q] \/ pc'[q] \notin InTransaction
          PROVE  (DebitUnderLock /\ DebitIsCovered /\ NeverOverdrawn)'
  BY <1>quiet, <1>0
<1>1. ASSUME NEW r \in Requests, RefuseEmpty(r) PROVE (DebitUnderLock /\ DebitIsCovered /\ NeverOverdrawn)'
  BY <1>1, <1>quiet DEF RefuseEmpty, Goto
<1>2. ASSUME NEW r \in Requests, ReplayKey(r) PROVE (DebitUnderLock /\ DebitIsCovered /\ NeverOverdrawn)'
  BY <1>2, <1>quiet DEF ReplayKey, Goto
<1>3. ASSUME NEW r \in Requests, BeginPricing(r) PROVE (DebitUnderLock /\ DebitIsCovered /\ NeverOverdrawn)'
  BY <1>3, <1>quiet DEF BeginPricing, Goto
<1>4. ASSUME NEW r \in Requests, PriceLine(r) PROVE (DebitUnderLock /\ DebitIsCovered /\ NeverOverdrawn)'
  BY <1>4, <1>quiet DEF PriceLine
<1>5. ASSUME NEW r \in Requests, RefuseOwned(r) PROVE (DebitUnderLock /\ DebitIsCovered /\ NeverOverdrawn)'
  BY <1>5, <1>quiet DEF RefuseOwned, Goto
<1>6. ASSUME NEW r \in Requests, ApplyCoupon(r) PROVE (DebitUnderLock /\ DebitIsCovered /\ NeverOverdrawn)'
  BY <1>6, <1>quiet DEF ApplyCoupon, Goto
<1>7. ASSUME NEW r \in Requests, RefuseCoupon(r) PROVE (DebitUnderLock /\ DebitIsCovered /\ NeverOverdrawn)'
  BY <1>7, <1>quiet DEF RefuseCoupon, Goto
<1>8. ASSUME NEW r \in Requests, OpenOrder(r) PROVE (DebitUnderLock /\ DebitIsCovered /\ NeverOverdrawn)'
  BY <1>8, <1>0 DEF OpenOrder, Goto
<1>9. ASSUME NEW r \in Requests, RefuseDuplicateKey(r) PROVE (DebitUnderLock /\ DebitIsCovered /\ NeverOverdrawn)'
  BY <1>9, <1>quiet DEF RefuseDuplicateKey, Goto
<1>10. ASSUME NEW r \in Requests, LockWallet(r) PROVE (DebitUnderLock /\ DebitIsCovered /\ NeverOverdrawn)'
  BY <1>10, <1>0 DEF LockWallet, Goto
<1>11. ASSUME NEW r \in Requests, DebitLocked(r) PROVE (DebitUnderLock /\ DebitIsCovered /\ NeverOverdrawn)'
  BY <1>11, <1>0 DEF DebitLocked, Goto
<1>12. ASSUME NEW r \in Requests, RefuseFunds(r) PROVE (DebitUnderLock /\ DebitIsCovered /\ NeverOverdrawn)'
  BY <1>12, <1>0 DEF RefuseFunds, RollBack, Unlock
<1>13. ASSUME NEW r \in Requests, Commit(r) PROVE (DebitUnderLock /\ DebitIsCovered /\ NeverOverdrawn)'
  BY <1>13, <1>0 DEF Commit, Unlock, Goto
<1>14. ASSUME NEW r \in Requests, Abort(r) PROVE (DebitUnderLock /\ DebitIsCovered /\ NeverOverdrawn)'
  BY <1>14, <1>0 DEF Abort, RollBack, Unlock
<1>15. ASSUME NEW u \in Users, NEW amount \in Deposits, Deposit(u, amount) PROVE (DebitUnderLock /\ DebitIsCovered /\ NeverOverdrawn)'
  BY <1>15, <1>0 DEF Deposit
<1>16. ASSUME NEW f \in Refunds, NEW r \in Requests, RequestRefund(f, r) PROVE (DebitUnderLock /\ DebitIsCovered /\ NeverOverdrawn)'
  BY <1>16, <1>0 DEF RequestRefund
<1>17. ASSUME NEW f \in Refunds, ApproveRefund(f) PROVE (DebitUnderLock /\ DebitIsCovered /\ NeverOverdrawn)'
  <2>1. refundOf[f] \in Requests
    BY <1>17 DEF ApproveRefund
  <2> QED
    BY <1>17, <1>0, <2>1 DEF ApproveRefund
<1>18. ASSUME NEW f \in Refunds, RejectRefund(f) PROVE (DebitUnderLock /\ DebitIsCovered /\ NeverOverdrawn)'
  BY <1>18, <1>0 DEF RejectRefund
<1>19. CASE UNCHANGED vars
  BY <1>19, <1>0 DEF vars
<1> QED
  BY <1>1, <1>2, <1>3, <1>4, <1>5, <1>6, <1>7, <1>8, <1>9, <1>10, <1>11, <1>12, <1>13, <1>14, <1>15, <1>16, <1>17, <1>18, <1>19 DEF Next, Step

\* The unique index on (user_id, idempotency_key) keeps a second order out.
LEMMA KeyStep == IInv /\ [Next]_vars => OneOrderPerKey'
<1> SUFFICES ASSUME IInv, [Next]_vars PROVE OneOrderPerKey'
  OBVIOUS
<1> USE DEF IInv, TypeOK, OneOrderPerKey, InTransaction, Running, Finished, Committed, walletVars, orderVars, refundVars, callVars
<1>1. ASSUME NEW r \in Requests, RefuseEmpty(r) PROVE OneOrderPerKey'
  BY <1>1 DEF RefuseEmpty, Goto
<1>2. ASSUME NEW r \in Requests, ReplayKey(r) PROVE OneOrderPerKey'
  BY <1>2 DEF ReplayKey, Goto
<1>3. ASSUME NEW r \in Requests, BeginPricing(r) PROVE OneOrderPerKey'
  BY <1>3 DEF BeginPricing, Goto
<1>4. ASSUME NEW r \in Requests, PriceLine(r) PROVE OneOrderPerKey'
  BY <1>4 DEF PriceLine
<1>5. ASSUME NEW r \in Requests, RefuseOwned(r) PROVE OneOrderPerKey'
  BY <1>5 DEF RefuseOwned, Goto
<1>6. ASSUME NEW r \in Requests, ApplyCoupon(r) PROVE OneOrderPerKey'
  BY <1>6 DEF ApplyCoupon, Goto
<1>7. ASSUME NEW r \in Requests, RefuseCoupon(r) PROVE OneOrderPerKey'
  BY <1>7 DEF RefuseCoupon, Goto
<1>8. ASSUME NEW r \in Requests, OpenOrder(r) PROVE OneOrderPerKey'
  BY <1>8 DEF OpenOrder, KeyTaken
<1>9. ASSUME NEW r \in Requests, RefuseDuplicateKey(r) PROVE OneOrderPerKey'
  BY <1>9 DEF RefuseDuplicateKey, Goto
<1>10. ASSUME NEW r \in Requests, LockWallet(r) PROVE OneOrderPerKey'
  BY <1>10 DEF LockWallet, Goto
<1>11. ASSUME NEW r \in Requests, DebitLocked(r) PROVE OneOrderPerKey'
  BY <1>11 DEF DebitLocked, Goto
<1>12. ASSUME NEW r \in Requests, RefuseFunds(r) PROVE OneOrderPerKey'
  BY <1>12 DEF RefuseFunds, RollBack, Unlock
<1>13. ASSUME NEW r \in Requests, Commit(r) PROVE OneOrderPerKey'
  BY <1>13 DEF Commit, TransactionIsPending
<1>14. ASSUME NEW r \in Requests, Abort(r) PROVE OneOrderPerKey'
  BY <1>14 DEF Abort, RollBack, Unlock
<1>15. ASSUME NEW u \in Users, NEW amount \in Deposits, Deposit(u, amount) PROVE OneOrderPerKey'
  BY <1>15 DEF Deposit
<1>16. ASSUME NEW f \in Refunds, NEW r \in Requests, RequestRefund(f, r) PROVE OneOrderPerKey'
  BY <1>16 DEF RequestRefund
<1>17. ASSUME NEW f \in Refunds, ApproveRefund(f) PROVE OneOrderPerKey'
  BY <1>17 DEF ApproveRefund, RefundsOfCommitted
<1>18. ASSUME NEW f \in Refunds, RejectRefund(f) PROVE OneOrderPerKey'
  BY <1>18 DEF RejectRefund
<1>19. CASE UNCHANGED vars
  BY <1>19 DEF vars
<1> QED
  BY <1>1, <1>2, <1>3, <1>4, <1>5, <1>6, <1>7, <1>8, <1>9, <1>10, <1>11, <1>12, <1>13, <1>14, <1>15, <1>16, <1>17, <1>18, <1>19 DEF Next, Step

\* No step changes what a call is going to grant.
LEMMA Grants ==
    ASSUME IInv, [Next]_vars, NEW q \in Requests
    PROVE  GrantsFor(q)' = GrantsFor(q) /\ GrantsFor(q) \subseteq Entitlement
BY CartFixed, GrantFacts DEF IInv

\* A step that changes neither access nor which orders are paid or refunded.
LEMMA AccessFrame ==
    ASSUME IInv, [Next]_vars, entitlements' = entitlements,
           \A q \in Requests : /\ status'[q] = "paid" <=> status[q] = "paid"
                               /\ status'[q] = "refunded" <=> status[q] = "refunded"
    PROVE  AccessIsPaidFor' /\ PaidKeepsAccess'
<1>1. \A grant \in entitlements : grant.source \in Requests
  BY DEF IInv, TypeOK, Entitlement
<1>2. AccessIsPaidFor'
  BY <1>1, Grants DEF IInv, AccessIsPaidFor
<1>3. PaidKeepsAccess'
  BY Grants DEF IInv, PaidKeepsAccess
<1> QED
  BY <1>2, <1>3

\* Commit grants rows of the order it marks paid, or finds them in place.
LEMMA AccessCommit ==
    ASSUME IInv, [Next]_vars, NEW r \in Requests, Commit(r)
    PROVE  AccessIsPaidFor' /\ PaidKeepsAccess'
<1>1. /\ entitlements' = entitlements \cup Inserted(r)
      /\ Inserted(r) \subseteq GrantsFor(r)
      /\ status[r] = "pending" /\ status'[r] = "paid"
      /\ \A q \in Requests \ {r} : status'[q] = status[q]
  BY DEF IInv, TypeOK, Commit, Inserted, TransactionIsPending, InTransaction
<1>2. \A g \in GrantsFor(r) : g.source = r
  BY DEF GrantsFor, GrantFor
<1>3. \A grant \in entitlements : grant.source \in Requests
  BY DEF IInv, TypeOK, Entitlement
<1>4. AccessIsPaidFor'
  BY <1>1, <1>2, <1>3, Grants DEF IInv, AccessIsPaidFor
<1>5. ASSUME NEW q \in Requests, status'[q] = "paid", NEW g \in GrantsFor(q)
      PROVE  \/ \E grant \in entitlements' : SameSlot(grant, g)
             \/ \E p \in Requests : status'[p] = "refunded" /\ \E h \in GrantsFor(p) : SameSlot(h, g)
  <2>1. CASE q = r /\ g \in Inserted(r)
    BY <1>1, <2>1 DEF SameSlot
  <2>2. CASE q = r /\ g \notin Inserted(r)
    BY <1>1, <1>5, <2>2 DEF Inserted
  <2>3. CASE q # r
    <3>1. status[q] = "paid"
      BY <1>1, <1>5, <2>3
    <3>2. \A p \in Requests : status[p] = "refunded" => status'[p] = "refunded"
      BY <1>1
    <3> QED
      BY <1>1, <1>5, <3>1, <3>2 DEF IInv, PaidKeepsAccess
  <2> QED
    BY <2>1, <2>2, <2>3
<1>6. PaidKeepsAccess'
  BY <1>5, Grants DEF PaidKeepsAccess
<1> QED
  BY <1>4, <1>6

\* ApproveRefund revokes every row of the order it marks refunded.
LEMMA AccessRefund ==
    ASSUME IInv, [Next]_vars, NEW f \in Refunds, ApproveRefund(f)
    PROVE  AccessIsPaidFor' /\ PaidKeepsAccess'
<1> DEFINE o == refundOf[f]
<1>1. /\ o \in Requests
      /\ entitlements' = {grant \in entitlements : grant.source # o}
      /\ status'[o] = "refunded"
      /\ \A q \in Requests \ {o} : status'[q] = status[q]
  BY DEF IInv, TypeOK, ApproveRefund
<1>2. \A grant \in entitlements : grant.source \in Requests
  BY DEF IInv, TypeOK, Entitlement
<1> HIDE DEF o
<1>3. AccessIsPaidFor'
  BY <1>1, <1>2, Grants DEF IInv, AccessIsPaidFor
<1>4. ASSUME NEW q \in Requests, status'[q] = "paid", NEW g \in GrantsFor(q)
      PROVE  \/ \E grant \in entitlements' : SameSlot(grant, g)
             \/ \E p \in Requests : status'[p] = "refunded" /\ \E h \in GrantsFor(p) : SameSlot(h, g)
  <2>1. status[q] = "paid"
    BY <1>1, <1>4
  <2>2. CASE \E p \in Requests : status[p] = "refunded" /\ \E h \in GrantsFor(p) : SameSlot(h, g)
    BY <1>1, <2>2
  <2>3. CASE \E grant \in entitlements : SameSlot(grant, g)
    <3>1. PICK grant \in entitlements : SameSlot(grant, g)
      BY <2>3
    <3>2. CASE grant.source # o
      BY <1>1, <3>1, <3>2
    <3>3. CASE grant.source = o
      \* The row goes, and the order it came from is the refunded one.
      BY <1>1, <3>1, <3>3 DEF IInv, AccessIsPaidFor
    <3> QED
      BY <3>2, <3>3
  <2> QED
    BY <1>4, <2>1, <2>2, <2>3 DEF IInv, PaidKeepsAccess
<1>5. PaidKeepsAccess'
  BY <1>4, Grants DEF PaidKeepsAccess
<1> QED
  BY <1>3, <1>5

\* Every step keeps access and paid orders together.
LEMMA AccessStep == IInv /\ [Next]_vars => (AccessIsPaidFor /\ PaidKeepsAccess)'
<1> SUFFICES ASSUME IInv, [Next]_vars PROVE (AccessIsPaidFor /\ PaidKeepsAccess)'
  OBVIOUS
<1> USE DEF walletVars, orderVars, refundVars, callVars
<1>1. ASSUME NEW r \in Requests, RefuseEmpty(r) PROVE (AccessIsPaidFor /\ PaidKeepsAccess)'
  BY <1>1, AccessFrame DEF RefuseEmpty, Goto
<1>2. ASSUME NEW r \in Requests, ReplayKey(r) PROVE (AccessIsPaidFor /\ PaidKeepsAccess)'
  BY <1>2, AccessFrame DEF ReplayKey, Goto
<1>3. ASSUME NEW r \in Requests, BeginPricing(r) PROVE (AccessIsPaidFor /\ PaidKeepsAccess)'
  BY <1>3, AccessFrame DEF BeginPricing, Goto
<1>4. ASSUME NEW r \in Requests, PriceLine(r) PROVE (AccessIsPaidFor /\ PaidKeepsAccess)'
  BY <1>4, AccessFrame DEF PriceLine
<1>5. ASSUME NEW r \in Requests, RefuseOwned(r) PROVE (AccessIsPaidFor /\ PaidKeepsAccess)'
  BY <1>5, AccessFrame DEF RefuseOwned, Goto
<1>6. ASSUME NEW r \in Requests, ApplyCoupon(r) PROVE (AccessIsPaidFor /\ PaidKeepsAccess)'
  BY <1>6, AccessFrame DEF ApplyCoupon, Goto
<1>7. ASSUME NEW r \in Requests, RefuseCoupon(r) PROVE (AccessIsPaidFor /\ PaidKeepsAccess)'
  BY <1>7, AccessFrame DEF RefuseCoupon, Goto
<1>8. ASSUME NEW r \in Requests, OpenOrder(r) PROVE (AccessIsPaidFor /\ PaidKeepsAccess)'
  BY <1>8, AccessFrame DEF OpenOrder, IInv, TypeOK, TransactionIsPending, InTransaction, Committed
<1>9. ASSUME NEW r \in Requests, RefuseDuplicateKey(r) PROVE (AccessIsPaidFor /\ PaidKeepsAccess)'
  BY <1>9, AccessFrame DEF RefuseDuplicateKey, Goto
<1>10. ASSUME NEW r \in Requests, LockWallet(r) PROVE (AccessIsPaidFor /\ PaidKeepsAccess)'
  BY <1>10, AccessFrame DEF LockWallet, Goto
<1>11. ASSUME NEW r \in Requests, DebitLocked(r) PROVE (AccessIsPaidFor /\ PaidKeepsAccess)'
  BY <1>11, AccessFrame DEF DebitLocked, Goto
<1>12. ASSUME NEW r \in Requests, RefuseFunds(r) PROVE (AccessIsPaidFor /\ PaidKeepsAccess)'
  BY <1>12, AccessFrame DEF RefuseFunds, RollBack, Unlock, IInv, TypeOK, TransactionIsPending, InTransaction
<1>13. ASSUME NEW r \in Requests, Commit(r) PROVE (AccessIsPaidFor /\ PaidKeepsAccess)'
  BY <1>13, AccessCommit
<1>14. ASSUME NEW r \in Requests, Abort(r) PROVE (AccessIsPaidFor /\ PaidKeepsAccess)'
  BY <1>14, AccessFrame DEF Abort, RollBack, Unlock, IInv, TypeOK, TransactionIsPending, InTransaction, Running, Committed
<1>15. ASSUME NEW u \in Users, NEW amount \in Deposits, Deposit(u, amount) PROVE (AccessIsPaidFor /\ PaidKeepsAccess)'
  BY <1>15, AccessFrame DEF Deposit
<1>16. ASSUME NEW f \in Refunds, NEW r \in Requests, RequestRefund(f, r) PROVE (AccessIsPaidFor /\ PaidKeepsAccess)'
  BY <1>16, AccessFrame DEF RequestRefund
<1>17. ASSUME NEW f \in Refunds, ApproveRefund(f) PROVE (AccessIsPaidFor /\ PaidKeepsAccess)'
  BY <1>17, AccessRefund
<1>18. ASSUME NEW f \in Refunds, RejectRefund(f) PROVE (AccessIsPaidFor /\ PaidKeepsAccess)'
  BY <1>18, AccessFrame DEF RejectRefund
<1>19. CASE UNCHANGED vars
  BY <1>19, AccessFrame DEF vars
<1> QED
  BY <1>1, <1>2, <1>3, <1>4, <1>5, <1>6, <1>7, <1>8, <1>9, <1>10, <1>11, <1>12, <1>13, <1>14, <1>15, <1>16, <1>17, <1>18, <1>19 DEF Next, Step

\* With empty tables there is nothing to be said against the invariant.
LEMMA IInvInit == Init => IInv
<1> SUFFICES ASSUME Init PROVE IInv
  OBVIOUS
<1>1. TypeOK
  BY TypeInit
<1> QED
  BY <1>1 DEF Init, IInv, TransactionIsPending, DiscountWithinSubtotal, RefundsOfCommitted, DebitUnderLock,
     DebitIsCovered, NeverOverdrawn, OneOrderPerKey, AccessIsPaidFor, PaidKeepsAccess, InTransaction,
     Committed

(***************************************************************************)
(* The lock of debitLocked is taken before the balance is read and goes    *)
(* with the transaction: between the two no other debit of the wallet can  *)
(* commit, so a debit that was covered when it was checked still is.       *)
(***************************************************************************)
THEOREM Inductive == Spec => []IInv
<1>1. IInv /\ [Next]_vars => IInv'
  BY TypeStep, ControlStep, WalletStep, KeyStep, AccessStep DEF IInv
<1> QED
  BY IInvInit, <1>1, PTL DEF Spec

\* No interleaving of purchases, credits, refunds and crashes overdraws a wallet.
THEOREM WalletSafe == Spec => []NeverOverdrawn
BY Inductive, PTL DEF IInv

\* However often a call is retried with its key, it writes one order.
THEOREM RetrySafe == Spec => []OneOrderPerKey
BY Inductive, PTL DEF IInv

\* Access in force is backed by a paid order that grants it.
THEOREM AccessSafe == Spec => []AccessIsPaidFor
BY Inductive, PTL DEF IInv

\* A paid order keeps its access unless an order for the same line was refunded.
THEOREM PaidSafe == Spec => []PaidKeepsAccess
BY Inductive, PTL DEF IInv

(***************************************************************************)
(* The checkout implements Checkout: a purchase is one indivisible step.   *)
(***************************************************************************)
StateOf(r) == IF status[r] \in Committed THEN status[r] ELSE "open"
PaidFor(r) == IF status[r] \in Committed THEN Total(r) ELSE 0

\* A step that neither commits, credits nor refunds is invisible.
LEMMA Invisible ==
    ASSUME IInv, [Next]_vars, UNCHANGED <<balance, entitlements>>,
           \A q \in Requests : /\ status'[q] \in Committed <=> status[q] \in Committed
                               /\ status[q] \in Committed => status'[q] = status[q]
    PROVE  UNCHANGED Abstract!vars
<1>1. \A q \in Requests : Buyer(q)' = Buyer(q) /\ GrantsFor(q)' = GrantsFor(q)
  BY CartFixed DEF IInv
<1>2. \A q \in Requests : StateOf(q)' = StateOf(q)
  BY DEF StateOf
<1>3. \A q \in Requests : PaidFor(q)' = PaidFor(q)
  <2>1. \A q \in Requests : status[q] \in Committed => pc[q] # "price"
    BY DEF IInv, TransactionIsPending
  <2> QED
    BY <2>1, CartFixed DEF PaidFor, IInv
<1> QED
  BY <1>1, <1>2, <1>3 DEF Abstract!vars, StateOf, PaidFor

\* COMMIT is the indivisible purchase of Checkout.
LEMMA CommitIsBuy ==
    ASSUME IInv, [Next]_vars, NEW r \in Requests, Commit(r)
    PROVE  Abstract!Buy(r)
<1>1. /\ status[r] = "pending" /\ status'[r] = "paid"
      /\ \A q \in Requests \ {r} : status'[q] = status[q]
      /\ Total(r)' = Total(r)
      /\ Total(r) \in 0..balance[Buyer(r)]
      /\ balance' = [balance EXCEPT ![Buyer(r)] = @ - Total(r)]
  BY CartFixed, CallFacts DEF IInv, TypeOK, Commit, TransactionIsPending, InTransaction, DebitIsCovered,
     DiscountWithinSubtotal, Total
<1>2. \A q \in Requests : Buyer(q)' = Buyer(q) /\ GrantsFor(q)' = GrantsFor(q)
  BY CartFixed DEF IInv
<1>3. \A q \in Requests \ {r} : StateOf(q)' = StateOf(q)
  BY <1>1 DEF StateOf
<1>4. \A q \in Requests \ {r} : PaidFor(q)' = PaidFor(q)
  <2>1. \A q \in Requests : status[q] \in Committed => pc[q] # "price"
    BY DEF IInv, TransactionIsPending
  <2> QED
    BY <1>1, <2>1, CartFixed DEF PaidFor, IInv
<1>5. StateOf(r) = "open" /\ StateOf(r)' = "paid" /\ PaidFor(r)' = Total(r)
  BY <1>1 DEF StateOf, PaidFor, Committed
<1>6. [q \in Requests |-> StateOf(q)]' = [[q \in Requests |-> StateOf(q)] EXCEPT ![r] = "paid"]
  BY <1>3, <1>5
<1>7. [q \in Requests |-> PaidFor(q)]' = [[q \in Requests |-> PaidFor(q)] EXCEPT ![r] = Total(r)]
  BY <1>4, <1>5
<1>8. /\ entitlements' = entitlements \cup Inserted(r)
      /\ Inserted(r) \subseteq GrantsFor(r)
  BY DEF Commit, Inserted
<1>9. \A g \in GrantsFor(r) : \E grant \in entitlements' : SameSlot(grant, g)
  <2> SUFFICES ASSUME NEW g \in GrantsFor(r) PROVE \E grant \in entitlements' : SameSlot(grant, g)
    OBVIOUS
  <2>1. CASE g \in Inserted(r)
    BY <1>8, <2>1 DEF SameSlot
  <2>2. CASE g \notin Inserted(r)
    BY <1>8, <2>2 DEF Inserted
  <2> QED
    BY <2>1, <2>2
<1> QED
  BY <1>1, <1>2, <1>5, <1>6, <1>7, <1>8, <1>9 DEF Abstract!Buy, Abstract!SameSlot, SameSlot, StateOf, PaidFor

\* ApproveRefund is the refund of Checkout.
LEMMA ApproveIsRefund ==
    ASSUME IInv, [Next]_vars, NEW f \in Refunds, ApproveRefund(f)
    PROVE  \E r \in Requests : Abstract!Refund(r)
<1>1. PICK r \in Requests :
         /\ status[r] \in Committed /\ status'[r] = "refunded"
         /\ \A q \in Requests \ {r} : status'[q] = status[q]
         /\ balance' = [balance EXCEPT ![Buyer(r)] = @ + Total(r)]
         /\ entitlements' = {grant \in entitlements : grant.source # r}
  <2>1. refundOf[f] \in Requests /\ status[refundOf[f]] \in Committed
    BY DEF IInv, TypeOK, ApproveRefund, RefundsOfCommitted
  <2> QED
    BY <2>1 DEF IInv, TypeOK, ApproveRefund
<1>2. \A q \in Requests : Buyer(q)' = Buyer(q) /\ GrantsFor(q)' = GrantsFor(q)
  BY CartFixed DEF IInv
<1>3. \A q \in Requests \ {r} : StateOf(q)' = StateOf(q)
  BY <1>1 DEF StateOf
<1>4. \A q \in Requests : PaidFor(q)' = PaidFor(q)
  <2>1. \A q \in Requests : status[q] \in Committed => pc[q] # "price"
    BY DEF IInv, TransactionIsPending
  <2> QED
    BY <1>1, <2>1, CartFixed DEF PaidFor, IInv, Committed
<1>5. StateOf(r) \in {"paid", "refunded"} /\ StateOf(r)' = "refunded" /\ PaidFor(r) = Total(r)
  BY <1>1 DEF StateOf, PaidFor, Committed
<1>6. [q \in Requests |-> StateOf(q)]' = [[q \in Requests |-> StateOf(q)] EXCEPT ![r] = "refunded"]
  BY <1>3, <1>5
<1>7. Abstract!Refund(r)
  BY <1>1, <1>2, <1>4, <1>5, <1>6 DEF Abstract!Refund, StateOf, PaidFor
<1> QED
  BY <1>1, <1>7

\* Service.Credit is the credit of Checkout.
LEMMA DepositIsCredit ==
    ASSUME IInv, [Next]_vars, NEW u \in Users, NEW amount \in Deposits, Deposit(u, amount)
    PROVE  Abstract!Credit(u)
<1>1. balance' = [balance EXCEPT ![u] = balance'[u]] /\ balance'[u] > balance[u]
  BY DEF Deposit, IInv, TypeOK
<1>2. \A q \in Requests : Buyer(q)' = Buyer(q) /\ GrantsFor(q)' = GrantsFor(q)
  BY CartFixed DEF IInv
<1>3. UNCHANGED <<status, subtotal, discount, entitlements>>
  BY DEF Deposit, callVars, orderVars
<1> QED
  BY <1>1, <1>2, <1>3 DEF Abstract!Credit, Total

\* Every step of the code is a step of Checkout or invisible there.
LEMMA StepImplements == IInv /\ [Next]_vars => [Abstract!Next]_(Abstract!vars)
<1> SUFFICES ASSUME IInv, [Next]_vars PROVE [Abstract!Next]_(Abstract!vars)
  OBVIOUS
<1> USE DEF walletVars, orderVars, refundVars, callVars
<1>1. ASSUME NEW r \in Requests, RefuseEmpty(r) PROVE [Abstract!Next]_(Abstract!vars)
  BY <1>1, Invisible DEF RefuseEmpty
<1>2. ASSUME NEW r \in Requests, ReplayKey(r) PROVE [Abstract!Next]_(Abstract!vars)
  BY <1>2, Invisible DEF ReplayKey
<1>3. ASSUME NEW r \in Requests, BeginPricing(r) PROVE [Abstract!Next]_(Abstract!vars)
  BY <1>3, Invisible DEF BeginPricing
<1>4. ASSUME NEW r \in Requests, PriceLine(r) PROVE [Abstract!Next]_(Abstract!vars)
  BY <1>4, Invisible DEF PriceLine
<1>5. ASSUME NEW r \in Requests, RefuseOwned(r) PROVE [Abstract!Next]_(Abstract!vars)
  BY <1>5, Invisible DEF RefuseOwned
<1>6. ASSUME NEW r \in Requests, ApplyCoupon(r) PROVE [Abstract!Next]_(Abstract!vars)
  BY <1>6, Invisible DEF ApplyCoupon
<1>7. ASSUME NEW r \in Requests, RefuseCoupon(r) PROVE [Abstract!Next]_(Abstract!vars)
  BY <1>7, Invisible DEF RefuseCoupon
<1>8. ASSUME NEW r \in Requests, OpenOrder(r) PROVE [Abstract!Next]_(Abstract!vars)
  BY <1>8, Invisible DEF OpenOrder, IInv, TypeOK, TransactionIsPending, InTransaction, Running, Committed
<1>9. ASSUME NEW r \in Requests, RefuseDuplicateKey(r) PROVE [Abstract!Next]_(Abstract!vars)
  BY <1>9, Invisible DEF RefuseDuplicateKey
<1>10. ASSUME NEW r \in Requests, LockWallet(r) PROVE [Abstract!Next]_(Abstract!vars)
  BY <1>10, Invisible DEF LockWallet
<1>11. ASSUME NEW r \in Requests, DebitLocked(r) PROVE [Abstract!Next]_(Abstract!vars)
  BY <1>11, Invisible DEF DebitLocked
<1>12. ASSUME NEW r \in Requests, RefuseFunds(r) PROVE [Abstract!Next]_(Abstract!vars)
  BY <1>12, Invisible DEF RefuseFunds, RollBack, Unlock, IInv, TypeOK, TransactionIsPending, InTransaction, Running, Committed
<1>13. ASSUME NEW r \in Requests, Commit(r) PROVE [Abstract!Next]_(Abstract!vars)
  BY <1>13, CommitIsBuy DEF Abstract!Next
<1>14. ASSUME NEW r \in Requests, Abort(r) PROVE [Abstract!Next]_(Abstract!vars)
  BY <1>14, Invisible DEF Abort, RollBack, Unlock, IInv, TypeOK, TransactionIsPending, InTransaction, Running, Committed
<1>15. ASSUME NEW u \in Users, NEW amount \in Deposits, Deposit(u, amount) PROVE [Abstract!Next]_(Abstract!vars)
  BY <1>15, DepositIsCredit DEF Abstract!Next
<1>16. ASSUME NEW f \in Refunds, NEW r \in Requests, RequestRefund(f, r) PROVE [Abstract!Next]_(Abstract!vars)
  BY <1>16, Invisible DEF RequestRefund
<1>17. ASSUME NEW f \in Refunds, ApproveRefund(f) PROVE [Abstract!Next]_(Abstract!vars)
  BY <1>17, ApproveIsRefund DEF Abstract!Next
<1>18. ASSUME NEW f \in Refunds, RejectRefund(f) PROVE [Abstract!Next]_(Abstract!vars)
  BY <1>18, Invisible DEF RejectRefund
<1>19. CASE UNCHANGED vars
  BY <1>19, Invisible DEF vars
<1> QED
  BY <1>1, <1>2, <1>3, <1>4, <1>5, <1>6, <1>7, <1>8, <1>9, <1>10, <1>11, <1>12, <1>13, <1>14, <1>15, <1>16, <1>17, <1>18, <1>19 DEF Next, Step

\* Every behaviour of the checkout is a behaviour of Checkout: no purchase is
\* half done, none is paid with money that is not there, and a refund returns
\* what was paid.
THEOREM Implementation == Spec => ImplementsCheckout
<1>1. Init => Abstract!Init
  BY DEF Init, Abstract!Init, Committed
<1> QED
  BY <1>1, StepImplements, Inductive, PTL DEF Spec, ImplementsCheckout, Abstract!Spec

-----------------------------------------------------------------------------
(* The race on the coupon. *)
USE FiniteAssumption

Accepted == {"open"} \cup InTransaction

\* The calls of a race, and the redemptions, can be counted.
LEMMA RaceFinite ==
    /\ IsFiniteSet(Redeemed) /\ Cardinality(Redeemed) \in Nat
    /\ IsFiniteSet(Racing) /\ Cardinality(Racing) \in Nat
    /\ \A u : IsFiniteSet(RedeemedBy(u)) /\ Cardinality(RedeemedBy(u)) \in Nat
    /\ \A u : IsFiniteSet(RacingOf(u)) /\ Cardinality(RacingOf(u)) \in Nat
<1>1. Redeemed \subseteq Requests /\ Racing \subseteq Requests
  BY DEF Redeemed, Racing
<1>2. ASSUME NEW S, S \subseteq Requests PROVE IsFiniteSet(S) /\ Cardinality(S) \in Nat
  BY <1>2, FS_Subset, FS_CardinalityType
<1>3. ASSUME NEW u PROVE RedeemedBy(u) \subseteq Requests /\ RacingOf(u) \subseteq Requests
  BY <1>1 DEF RedeemedBy, RacingOf
<1> QED
  BY <1>1, <1>2, <1>3

\* A step that accepts no coupon and commits nothing.
Quiet ==
    /\ arg' = arg /\ discount' = discount
    /\ \A q \in Requests : /\ pc'[q] \in Accepted => pc[q] \in Accepted
                           /\ status'[q] \in Committed <=> status[q] \in Committed

LEMMA QuietSteps ==
    ASSUME IInv, [Next]_vars, ~ \E r \in Requests : ApplyCoupon(r) \/ Commit(r)
    PROVE  Quiet
<1> USE DEF Quiet, Accepted, Committed, InTransaction, Running, callVars, walletVars, orderVars, refundVars
<1>0. /\ pc \in [Requests -> {"idle"} \cup Running \cup Finished]
      /\ status \in [Requests -> {"none", "pending", "paid", "refunded"}]
  BY DEF IInv, TypeOK
<1>1. ASSUME NEW r \in Requests, RefuseEmpty(r) \/ ReplayKey(r) \/ BeginPricing(r) \/ RefuseOwned(r) \/ RefuseCoupon(r) PROVE Quiet
  BY <1>0, <1>1 DEF RefuseEmpty, ReplayKey, BeginPricing, RefuseOwned, RefuseCoupon, Goto
<1>2. ASSUME NEW r \in Requests, PriceLine(r) PROVE Quiet
  BY <1>2 DEF PriceLine
<1>3. ASSUME NEW r \in Requests, RefuseDuplicateKey(r) \/ LockWallet(r) \/ DebitLocked(r) PROVE Quiet
  BY <1>0, <1>3 DEF RefuseDuplicateKey, LockWallet, DebitLocked, Goto
<1>4. ASSUME NEW r \in Requests, OpenOrder(r) PROVE Quiet
  <2>1. status[r] \notin Committed
    BY <1>4 DEF IInv, TransactionIsPending, OpenOrder
  <2> QED
    BY <1>0, <1>4, <2>1 DEF OpenOrder, Goto
<1>5. ASSUME NEW r \in Requests, RollBack(r), pc[r] \in Running PROVE Quiet
  <2>1. status[r] \notin Committed
    BY <1>5 DEF IInv, TransactionIsPending
  <2> QED
    BY <1>0, <1>5, <2>1 DEF RollBack
<1>6. ASSUME NEW u \in Users, NEW amount \in Deposits, Deposit(u, amount) PROVE Quiet
  BY <1>6 DEF Deposit
<1>7. ASSUME NEW f \in Refunds, NEW r \in Requests, RequestRefund(f, r) PROVE Quiet
  BY <1>7 DEF RequestRefund
<1>8. ASSUME NEW f \in Refunds, ApproveRefund(f) PROVE Quiet
  <2>1. status[refundOf[f]] \in Committed /\ status' = [status EXCEPT ![refundOf[f]] = "refunded"]
    BY <1>8 DEF IInv, RefundsOfCommitted, ApproveRefund
  <2> QED
    BY <1>0, <1>8, <2>1 DEF ApproveRefund
<1>9. ASSUME NEW f \in Refunds, RejectRefund(f) PROVE Quiet
  BY <1>9 DEF RejectRefund
<1>10. CASE UNCHANGED vars
  BY <1>10 DEF vars
<1> HIDE DEF Quiet
<1> QED
  BY <1>1, <1>2, <1>3, <1>4, <1>5, <1>6, <1>7, <1>8, <1>9, <1>10 DEF Next, Step, Abort, RefuseFunds

\* Calls leave a race and redeem; they join it only below the limits.
LEMMA RaceMoves ==
    ASSUME IInv, [Next]_vars, NEW r \in Requests, ApplyCoupon(r) \/ Commit(r)
    PROVE  \/ Racing' \subseteq Racing /\ Redeemed' \subseteq Redeemed
           \/ Usable(r) /\ Racing' \subseteq Racing \cup {r} /\ Redeemed' \subseteq Redeemed
           \/ r \in Racing /\ Racing' \subseteq Racing \ {r} /\ Redeemed' \subseteq Redeemed \cup {r}
<1> USE DEF Racing, Redeemed, Committed, InTransaction, Running
<1>0. /\ pc \in [Requests -> {"idle"} \cup Running \cup Finished] /\ discount \in [Requests -> Nat]
      /\ status \in [Requests -> {"none", "pending", "paid", "refunded"}]
  BY DEF IInv, TypeOK
<1>1. CASE ApplyCoupon(r)
  <2>1. status' = status /\ status[r] \notin Committed /\ \A q \in Requests : q # r => pc'[q] = pc[q] /\ discount'[q] = discount[q]
    BY <1>0, <1>1 DEF ApplyCoupon, Goto, IInv, TransactionIsPending, orderVars
  <2>2. Redeemed' \subseteq Redeemed
    BY <2>1
  <2>3. CASE arg[r].coupon
    <3>1. Usable(r) /\ Racing' \subseteq Racing \cup {r}
      BY <1>1, <2>1, <2>3 DEF ApplyCoupon
    <3> QED
      BY <2>2, <3>1
  <2>4. CASE ~ arg[r].coupon
    <3>1. discount'[r] = 0
      BY <1>0, <1>1, <2>4 DEF ApplyCoupon
    <3> QED
      BY <2>1, <2>2, <3>1
  <2> QED
    BY <2>3, <2>4
<1>2. CASE Commit(r)
  <2>1. /\ discount' = discount /\ pc[r] = "write" /\ pc'[r] = "paid" /\ status'[r] = "paid"
        /\ \A q \in Requests : q # r => pc'[q] = pc[q] /\ status'[q] = status[q]
    BY <1>0, <1>2 DEF Commit, Goto
  <2>2. CASE discount[r] > 0
    BY <2>1, <2>2
  <2>3. CASE ~ discount[r] > 0
    BY <2>1, <2>3
  <2> QED
    BY <2>2, <2>3
<1> QED
  BY <1>1, <1>2

\* The count of a race and the redemptions before it.
LEMMA RaceCount ==
    ASSUME NEW limit \in Nat, limit > 0, NEW high \in Nat, NEW after \in Nat,
           NEW A, NEW B, NEW C, NEW D, NEW r, A \subseteq Requests, B \subseteq Requests,
           C \subseteq Requests, D \subseteq Requests,
           Cardinality(A) + Cardinality(B) <= (limit - 1) + high, high <= after, Cardinality(D) <= after,
           \/ C \subseteq A /\ D \subseteq B
           \/ C \subseteq A /\ Cardinality(A) < limit
           \/ r \in B /\ D \subseteq B \ {r} /\ C \subseteq A \cup {r}
    PROVE  Cardinality(C) + Cardinality(D) <= (limit - 1) + after
<1>1. ASSUME NEW S, S \subseteq Requests PROVE IsFiniteSet(S) /\ Cardinality(S) \in Nat
  BY <1>1, FS_Subset, FS_CardinalityType
<1>2. /\ IsFiniteSet(A) /\ Cardinality(A) \in Nat /\ IsFiniteSet(B) /\ Cardinality(B) \in Nat
      /\ IsFiniteSet(C) /\ Cardinality(C) \in Nat /\ IsFiniteSet(D) /\ Cardinality(D) \in Nat
  BY <1>1
<1>3. CASE C \subseteq A /\ D \subseteq B
  <2>1. Cardinality(C) <= Cardinality(A) /\ Cardinality(D) <= Cardinality(B)
    BY <1>2, <1>3, FS_Subset
  <2> QED
    BY <1>2, <2>1
<1>4. CASE C \subseteq A /\ Cardinality(A) < limit
  <2>1. Cardinality(C) <= Cardinality(A)
    BY <1>2, <1>4, FS_Subset
  <2> QED
    BY <1>2, <1>4, <2>1
<1>5. CASE r \in B /\ D \subseteq B \ {r} /\ C \subseteq A \cup {r}
  <2>1. Cardinality(A \cup {r}) <= Cardinality(A) + 1 /\ IsFiniteSet(A \cup {r})
    <3>1. IsFiniteSet(A \cup {r}) /\ Cardinality(A \cup {r}) \in {Cardinality(A), Cardinality(A) + 1}
      BY <1>2, FS_AddElement
    <3> QED
      BY <1>2, <3>1
  <2>2. Cardinality(B \ {r}) = Cardinality(B) - 1 /\ IsFiniteSet(B \ {r})
    BY <1>2, <1>5, FS_RemoveElement
  <2>3. Cardinality(C) <= Cardinality(A \cup {r}) /\ Cardinality(D) <= Cardinality(B \ {r})
    BY <1>5, <2>1, <2>2, FS_Subset
  <2>4. Cardinality(A \cup {r}) \in Nat
    BY <2>1, FS_CardinalityType
  <2> QED
    BY <1>2, <2>1, <2>2, <2>3, <2>4
<1> QED
  BY <1>3, <1>4, <1>5

LEMMA RaceStep ==
    ASSUME RaceInv, [RaceNext]_raceVars
    PROVE  (RaceTyped /\ RaceCounts)'
<1>0. IInv /\ [Next]_vars /\ RaceTyped /\ RaceCounts
  BY DEF RaceInv, RaceNext, raceVars
<1>1. CASE UNCHANGED raceVars
  <2>1. Redeemed' = Redeemed /\ Racing' = Racing /\ peak' = peak /\ peakOfAll' = peakOfAll
    BY <1>1 DEF raceVars, vars, callVars, orderVars, Redeemed, Racing
  <2>2. \A u \in Users : RedeemedBy(u)' = RedeemedBy(u) /\ RacingOf(u)' = RacingOf(u)
    BY <1>1, <2>1 DEF RedeemedBy, RacingOf, Buyer, raceVars, vars
  <2> QED
    BY <1>0, <2>1, <2>2 DEF RaceTyped, RaceCounts
<1>2. CASE RaceNext
  <2>1. /\ Redeemed' \subseteq Requests /\ Racing' \subseteq Requests
        /\ Redeemed \subseteq Requests /\ Racing \subseteq Requests
    BY DEF Redeemed, Racing
  <2>2. Cardinality(Racing') \in Nat /\ \A u : Cardinality(RacingOf(u)') \in Nat
    <3>1. \A u : RacingOf(u)' \subseteq Requests
      BY <2>1 DEF RacingOf
    <3> QED
      BY <2>1, <3>1, FS_Subset, FS_CardinalityType
  <2>3. peakOfAll' \in Nat /\ peakOfAll' >= peakOfAll /\ peakOfAll' >= Cardinality(Racing')
    BY <1>0, <1>2, <2>2 DEF RaceNext, RaceTyped, AtLeast
  <2>4. \A u \in Users : peak'[u] \in Nat /\ peak'[u] >= peak[u] /\ peak'[u] >= Cardinality(RacingOf(u)')
    BY <1>0, <1>2, <2>2 DEF RaceNext, RaceTyped, AtLeast
  <2>5. RaceTyped'
    <3>1. peak' = [u \in Users |-> AtLeast(peak[u], Cardinality(RacingOf(u)'))]
      BY <1>2 DEF RaceNext
    <3> QED
      BY <2>3, <2>4, <3>1 DEF RaceTyped
  <2>6. \/ Racing' \subseteq Racing /\ Redeemed' \subseteq Redeemed
        \/ \E r \in Requests :
              \/ Usable(r) /\ Racing' \subseteq Racing \cup {r} /\ Redeemed' \subseteq Redeemed
              \/ r \in Racing /\ Racing' \subseteq Racing \ {r} /\ Redeemed' \subseteq Redeemed \cup {r}
    <3>1. CASE Quiet
      BY <3>1 DEF Quiet, Racing, Redeemed, Accepted
    <3> QED
      BY <1>0, <3>1, QuietSteps, RaceMoves
  <2>7. \A q \in Requests : Buyer(q)' = Buyer(q)
    BY <1>0, CartFixed DEF IInv
  <2>8. ASSUME Campaign.maxRedemptions > 0
        PROVE  Cardinality(Redeemed') + Cardinality(Racing') <= (Campaign.maxRedemptions - 1) + peakOfAll'
    <3>1. Campaign.maxRedemptions \in Nat /\ peakOfAll \in Nat
      BY <1>0 DEF CouponType, RaceTyped
    <3>2. Cardinality(Redeemed) + Cardinality(Racing) <= (Campaign.maxRedemptions - 1) + peakOfAll
      BY <1>0, <2>8 DEF RaceCounts
    <3>3. ASSUME NEW r \in Requests, Usable(r) PROVE Cardinality(Redeemed) < Campaign.maxRedemptions
      BY <2>8, <3>3 DEF Usable, BelowLimit
    <3>4. PICK r : \/ Redeemed' \subseteq Redeemed /\ Racing' \subseteq Racing
                   \/ Redeemed' \subseteq Redeemed /\ Cardinality(Redeemed) < Campaign.maxRedemptions
                   \/ r \in Racing /\ Racing' \subseteq Racing \ {r} /\ Redeemed' \subseteq Redeemed \cup {r}
      BY <2>6, <3>3
    <3> QED
      BY <2>1, <2>3, <2>8, <3>1, <3>2, <3>4, RaceCount
  <2>9. ASSUME Campaign.perUserLimit > 0, NEW u \in Users
        PROVE  Cardinality(RedeemedBy(u)') + Cardinality(RacingOf(u)') <= (Campaign.perUserLimit - 1) + peak'[u]
    <3>1. Campaign.perUserLimit \in Nat /\ peak[u] \in Nat
      BY <1>0 DEF CouponType, RaceTyped
    <3>2. Cardinality(RedeemedBy(u)) + Cardinality(RacingOf(u)) <= (Campaign.perUserLimit - 1) + peak[u]
      BY <1>0, <2>9 DEF RaceCounts
    <3>3. ASSUME NEW r \in Requests, Usable(r), Buyer(r) = u PROVE Cardinality(RedeemedBy(u)) < Campaign.perUserLimit
      BY <2>9, <3>3 DEF Usable, BelowLimit
    <3>4. /\ RedeemedBy(u) \subseteq Requests /\ RacingOf(u) \subseteq Requests
          /\ RedeemedBy(u)' = {q \in Redeemed' : Buyer(q) = u} /\ RacingOf(u)' = {q \in Racing' : Buyer(q) = u}
      BY <2>1, <2>7 DEF RedeemedBy, RacingOf
    <3>5. PICK r : \/ RedeemedBy(u)' \subseteq RedeemedBy(u) /\ RacingOf(u)' \subseteq RacingOf(u)
                   \/ RedeemedBy(u)' \subseteq RedeemedBy(u) /\ Cardinality(RedeemedBy(u)) < Campaign.perUserLimit
                   \/ /\ r \in RacingOf(u) /\ RacingOf(u)' \subseteq RacingOf(u) \ {r}
                      /\ RedeemedBy(u)' \subseteq RedeemedBy(u) \cup {r}
      <4>1. CASE Racing' \subseteq Racing /\ Redeemed' \subseteq Redeemed
        BY <3>4, <4>1 DEF RedeemedBy, RacingOf
      <4>2. ASSUME NEW r \in Requests, Usable(r), Racing' \subseteq Racing \cup {r}, Redeemed' \subseteq Redeemed
            PROVE  \/ RedeemedBy(u)' \subseteq RedeemedBy(u) /\ RacingOf(u)' \subseteq RacingOf(u)
                   \/ RedeemedBy(u)' \subseteq RedeemedBy(u) /\ Cardinality(RedeemedBy(u)) < Campaign.perUserLimit
        BY <3>3, <3>4, <4>2 DEF RedeemedBy, RacingOf
      <4>3. ASSUME NEW r \in Racing, Racing' \subseteq Racing \ {r}, Redeemed' \subseteq Redeemed \cup {r}
            PROVE  \/ RedeemedBy(u)' \subseteq RedeemedBy(u) /\ RacingOf(u)' \subseteq RacingOf(u)
                   \/ /\ r \in RacingOf(u) /\ RacingOf(u)' \subseteq RacingOf(u) \ {r}
                      /\ RedeemedBy(u)' \subseteq RedeemedBy(u) \cup {r}
        BY <3>4, <4>3 DEF RedeemedBy, RacingOf
      <4> QED
        BY <2>6, <4>1, <4>2, <4>3
    <3>6. RedeemedBy(u)' \subseteq Requests /\ RacingOf(u)' \subseteq Requests
      BY <2>1, <3>4
    <3>7. /\ peak'[u] \in Nat /\ peak[u] <= peak'[u] /\ Cardinality(RacingOf(u)') <= peak'[u]
      BY <2>4, <2>9, <3>1
    <3>8. ASSUME NEW A, NEW B, NEW C, NEW D, NEW high, NEW after, A = RedeemedBy(u), B = RacingOf(u),
                 C = RedeemedBy(u)', D = RacingOf(u)', high = peak[u], after = peak'[u]
          PROVE  Cardinality(C) + Cardinality(D) <= (Campaign.perUserLimit - 1) + after
      <4>1. /\ A \subseteq Requests /\ B \subseteq Requests /\ C \subseteq Requests /\ D \subseteq Requests
            /\ high \in Nat /\ after \in Nat /\ high <= after /\ Cardinality(D) <= after
            /\ Cardinality(A) + Cardinality(B) <= (Campaign.perUserLimit - 1) + high
        BY <3>1, <3>2, <3>4, <3>6, <3>7, <3>8
      <4>2. \/ C \subseteq A /\ D \subseteq B
            \/ C \subseteq A /\ Cardinality(A) < Campaign.perUserLimit
            \/ r \in B /\ D \subseteq B \ {r} /\ C \subseteq A \cup {r}
        BY <3>5, <3>8
      <4> QED
        BY <2>9, <3>1, <4>1, <4>2, RaceCount
    <3> QED
      BY <3>8
  <2> QED
    BY <2>5, <2>8, <2>9 DEF RaceCounts
<1> QED
  BY <1>0, <1>1, <1>2

LEMMA RaceStart == RaceInit => RaceInv
<1> SUFFICES ASSUME RaceInit PROVE RaceInv
  OBVIOUS
<1>1. IInv
  BY IInvInit DEF RaceInit
<1>2. Redeemed = {} /\ Racing = {} /\ \A u : RedeemedBy(u) = {} /\ RacingOf(u) = {}
  <2>1. \A r \in Requests : ~ (discount[r] > 0)
    BY DEF RaceInit, Init
  <2>2. Redeemed = {} /\ Racing = {}
    BY <2>1 DEF Redeemed, Racing
  <2> QED
    BY <2>2 DEF RedeemedBy, RacingOf
<1>3. peak \in [Users -> Nat] /\ peakOfAll = 0 /\ \A u \in Users : peak[u] = 0
  BY DEF RaceInit
<1>4. Campaign.maxRedemptions \in Nat /\ Campaign.perUserLimit \in Nat /\ Cardinality({}) = 0
  BY FS_EmptySet DEF CouponType
<1>5. Campaign.maxRedemptions > 0 =>
          Cardinality(Redeemed) + Cardinality(Racing) <= (Campaign.maxRedemptions - 1) + peakOfAll
  BY <1>2, <1>3, <1>4
<1>6. ASSUME Campaign.perUserLimit > 0, NEW u \in Users
      PROVE  Cardinality(RedeemedBy(u)) + Cardinality(RacingOf(u)) <= (Campaign.perUserLimit - 1) + peak[u]
  <2>1. RedeemedBy(u) = {} /\ RacingOf(u) = {} /\ peak[u] = 0
    BY <1>2, <1>3
  <2> QED
    BY <1>4, <1>6, <2>1
<1>7. RaceCounts
  BY <1>5, <1>6 DEF RaceCounts
<1> QED
  BY <1>1, <1>3, <1>7 DEF RaceInv, RaceTyped

\* A coupon is over-redeemed by the calls of one race and no more, for every
\* limit and however many calls there are (Service.evaluateCoupon counts before
\* the transaction that redeems).
THEOREM RaceBound == RaceSpec => []OverRedeemedByRaceOnly
<1>1. RaceInv /\ [RaceNext]_raceVars => RaceInv'
  <2> SUFFICES ASSUME RaceInv, [RaceNext]_raceVars PROVE RaceInv'
    OBVIOUS
  <2>1. IInv /\ [Next]_vars
    BY DEF RaceInv, RaceNext, raceVars
  <2>2. IInv'
    BY <2>1, TypeStep, ControlStep, WalletStep, KeyStep, AccessStep DEF IInv
  <2> QED
    BY <2>2, RaceStep DEF RaceInv
<1>2. RaceInv => OverRedeemedByRaceOnly
  <2> SUFFICES ASSUME RaceInv PROVE OverRedeemedByRaceOnly
    OBVIOUS
  <2>1. RaceTyped /\ RaceCounts /\ Campaign.maxRedemptions \in Nat /\ Campaign.perUserLimit \in Nat
    BY DEF RaceInv, CouponType
  <2>2. ASSUME NEW n \in Nat, NEW m \in Nat, NEW b \in Int, n + m <= b PROVE n <= b
    BY <2>2
  <2>3. Campaign.maxRedemptions > 0 => Cardinality(Redeemed) <= (Campaign.maxRedemptions - 1) + peakOfAll
    BY <2>1, <2>2, RaceFinite DEF RaceCounts, RaceTyped
  <2>4. ASSUME Campaign.perUserLimit > 0, NEW u \in Users
        PROVE  Cardinality(RedeemedBy(u)) <= (Campaign.perUserLimit - 1) + peak[u]
    BY <2>1, <2>2, <2>4, RaceFinite DEF RaceCounts, RaceTyped
  <2> QED
    BY <2>3, <2>4 DEF OverRedeemedByRaceOnly
<1> QED
  BY RaceStart, <1>1, <1>2, PTL DEF RaceSpec

-----------------------------------------------------------------------------
\* The books: what the orders and the refunds amount to, as functions.
Totals == [r \in Requests |-> Total(r)]
Repaid == [f \in Refunds |-> Total(refundOf[f])]

\* BooksBalance over the functions of what the orders and the refunds amount to.
Balanced ==
    \A u \in Users : balance[u] = deposited[u] - SumOf(Totals, OrdersOf(u)) + SumOf(Repaid, Credited(u))

\* The sums of BooksBalance are these.
LEMMA OrdersSum == \A S \in SUBSET Requests : Sums!MapThenSumSet(Total, S) = SumOf(Totals, S)
<1> SUFFICES ASSUME NEW S \in SUBSET Requests
             PROVE  Sums!MapThenSumSet(Total, S) = SumOf(Totals, S)
  OBVIOUS
<1> DEFINE ByTotal(g) == g = [s \in SUBSET S |-> IF s = {} THEN 0 ELSE Total(Any(s)) + g[s \ {Any(s)}]]
<1>1. Sums!MapThenSumSet(Total, S) = (CHOOSE g : ByTotal(g))[S]
  BY DEF Sums!MapThenSumSet, Sums!MapThenFoldSet, Any
<1>2. \A s \in SUBSET S : s # {} => Totals[Any(s)] = Total(Any(s))
  BY DEF Totals, Any
<1>3. \A g : ByTotal(g) <=> AddsUp(g, Totals, S)
  BY <1>2 DEF AddsUp
<1> HIDE DEF ByTotal
<1>4. (CHOOSE g : ByTotal(g)) = (CHOOSE g : AddsUp(g, Totals, S))
  BY <1>3
<1> QED
  BY <1>1, <1>4 DEF SumOf

\* Likewise for what the refunds pay back.
LEMMA RefundsSum ==
    \A S \in SUBSET Refunds :
        LET refunded(f) == Total(refundOf[f])
        IN  Sums!MapThenSumSet(refunded, S) = SumOf(Repaid, S)
<1> DEFINE refunded(f) == Total(refundOf[f])
<1> SUFFICES ASSUME NEW S \in SUBSET Refunds
             PROVE  Sums!MapThenSumSet(refunded, S) = SumOf(Repaid, S)
  OBVIOUS
<1> DEFINE ByRefund(g) == g = [s \in SUBSET S |-> IF s = {} THEN 0 ELSE refunded(Any(s)) + g[s \ {Any(s)}]]
<1>1. Sums!MapThenSumSet(refunded, S) = (CHOOSE g : ByRefund(g))[S]
  BY DEF Sums!MapThenSumSet, Sums!MapThenFoldSet, Any
<1>2. \A s \in SUBSET S : s # {} => Repaid[Any(s)] = refunded(Any(s))
  BY DEF Repaid, Any
<1>3. \A g : ByRefund(g) <=> AddsUp(g, Repaid, S)
  BY <1>2 DEF AddsUp
<1> HIDE DEF ByRefund
<1>4. (CHOOSE g : ByRefund(g)) = (CHOOSE g : AddsUp(g, Repaid, S))
  BY <1>3
<1> QED
  BY <1>1, <1>4 DEF SumOf

\* So Balanced says what BooksBalance says.
LEMMA SameBooks == Balanced <=> BooksBalance
<1>1. \A u \in Users : OrdersOf(u) \in SUBSET Requests /\ Credited(u) \in SUBSET Refunds
  BY DEF OrdersOf, Credited
<1> QED
  BY <1>1, OrdersSum, RefundsSum DEF Balanced, BooksBalance

\* Sums of what orders and refunds amount to are numbers.
LEMMA Numbers ==
    ASSUME TypeOK, RefundsOfCommitted
    PROVE  /\ \A r \in Requests : Totals[r] \in Int
           /\ \A f \in Refunds : refundStatus[f] # "none" => Repaid[f] \in Int
           /\ \A u \in Users : /\ IsFiniteSet(OrdersOf(u)) /\ IsFiniteSet(Credited(u))
                               /\ SumOf(Totals, OrdersOf(u)) \in Int
                               /\ SumOf(Repaid, Credited(u)) \in Int
<1>1. \A r \in Requests : Totals[r] \in Int
  BY DEF Totals, Total, TypeOK
<1>2. \A f \in Refunds : refundStatus[f] # "none" => Repaid[f] \in Int
  BY <1>1 DEF Totals, Repaid, TypeOK
<1>3. ASSUME NEW u \in Users
      PROVE  /\ IsFiniteSet(OrdersOf(u)) /\ IsFiniteSet(Credited(u))
             /\ SumOf(Totals, OrdersOf(u)) \in Int
             /\ SumOf(Repaid, Credited(u)) \in Int
  <2>1. IsFiniteSet(OrdersOf(u)) /\ IsFiniteSet(Credited(u))
    BY FS_Subset DEF OrdersOf, Credited
  <2>2. \A r \in OrdersOf(u) : Totals[r] \in Int
    BY <1>1 DEF OrdersOf
  <2>3. \A f \in Credited(u) : Repaid[f] \in Int
    BY <1>2 DEF Credited
  <2> QED
    BY <2>1, <2>2, <2>3, SumType
<1> QED
  BY <1>1, <1>2, <1>3

\* A step that moves no money books nothing.
LEMMA QuietBooks ==
    ASSUME IInv, Balanced, [Next]_vars, UNCHANGED <<balance, deposited>>,
           \A q \in Requests : status'[q] \in Committed <=> status[q] \in Committed,
           \A f \in Refunds : /\ refundStatus'[f] = "approved" <=> refundStatus[f] = "approved"
                              /\ refundStatus[f] = "approved" => refundOf'[f] = refundOf[f]
    PROVE  Balanced'
<1>0. TypeOK /\ TransactionIsPending /\ RefundsOfCommitted
  BY DEF IInv
<1>1. \A q \in Requests : Buyer(q)' = Buyer(q)
  BY <1>0, CartFixed
<1>2. \A q \in Requests : status[q] \in Committed => Total(q)' = Total(q)
  BY <1>0, CartFixed DEF TransactionIsPending
<1>3. \A f \in Refunds : refundStatus[f] = "approved" =>
         refundOf[f] \in Requests /\ status[refundOf[f]] \in Committed
  BY <1>0 DEF RefundsOfCommitted, TypeOK
<1> SUFFICES ASSUME NEW u \in Users
             PROVE  balance'[u] = deposited'[u] - SumOf(Totals', OrdersOf(u)') + SumOf(Repaid', Credited(u)')
  BY DEF Balanced
<1>4. OrdersOf(u)' = OrdersOf(u)
  BY <1>1 DEF OrdersOf
<1>5. Credited(u)' = Credited(u)
  BY <1>1, <1>3 DEF Credited
<1>6. SumOf(Totals', OrdersOf(u)) = SumOf(Totals, OrdersOf(u))
  <2>1. \A q \in OrdersOf(u) : Totals'[q] = Totals[q]
    BY <1>2 DEF OrdersOf, Totals
  <2> QED
    BY <1>0, <2>1, Numbers, SumSame
<1>7. SumOf(Repaid', Credited(u)) = SumOf(Repaid, Credited(u))
  <2>1. \A f \in Credited(u) : Repaid'[f] = Repaid[f]
    BY <1>2, <1>3 DEF Credited, Repaid
  <2> QED
    BY <1>0, <2>1, Numbers, SumSame
<1> QED
  BY <1>4, <1>5, <1>6, <1>7 DEF Balanced

\* createPaidOrder commits: one order more, paid for out of the buyer's wallet.
LEMMA CommitBooks ==
    ASSUME IInv, Balanced, [Next]_vars, NEW r \in Requests, Commit(r)
    PROVE  Balanced'
<1>0. TypeOK /\ TransactionIsPending /\ RefundsOfCommitted
  BY DEF IInv
<1>1. /\ balance' = [balance EXCEPT ![Buyer(r)] = @ - Total(r)]
      /\ status' = [status EXCEPT ![r] = "paid"]
      /\ pc[r] = "write"
      /\ UNCHANGED <<arg, subtotal, discount, deposited, refundOf, refundStatus>>
  BY DEF Commit, refundVars
<1>2. status[r] \notin Committed /\ Buyer(r) \in Users
  BY <1>0, <1>1, CallFacts DEF TransactionIsPending, InTransaction, TypeOK, Committed
<1>3. Totals' = Totals /\ Repaid' = Repaid
  BY <1>1 DEF Totals, Repaid, Total
<1> SUFFICES ASSUME NEW u \in Users
             PROVE  balance'[u] = deposited'[u] - SumOf(Totals, OrdersOf(u)') + SumOf(Repaid, Credited(u)')
  BY <1>3 DEF Balanced
<1>4. Credited(u)' = Credited(u)
  BY <1>1 DEF Credited, Buyer
<1>5. CASE u # Buyer(r)
  <2>1. OrdersOf(u)' = OrdersOf(u)
    BY <1>0, <1>1, <1>5 DEF OrdersOf, Buyer, TypeOK
  <2>2. balance'[u] = balance[u] /\ deposited'[u] = deposited[u]
    BY <1>0, <1>1, <1>5 DEF TypeOK
  <2> QED
    BY <1>4, <2>1, <2>2 DEF Balanced
<1>6. CASE u = Buyer(r)
  <2>1. OrdersOf(u)' = OrdersOf(u) \cup {r} /\ r \notin OrdersOf(u)
    BY <1>0, <1>1, <1>2, <1>6 DEF OrdersOf, Buyer, TypeOK, Committed
  <2>2. SumOf(Totals, OrdersOf(u) \cup {r}) = SumOf(Totals, OrdersOf(u)) + Totals[r]
    <3>1. \A q \in OrdersOf(u) \cup {r} : Totals[q] \in Int
      BY <1>0, Numbers DEF OrdersOf
    <3> QED
      BY <1>0, <2>1, <3>1, Numbers, SumAdd
  <2>3. balance'[u] = balance[u] - Totals[r] /\ deposited'[u] = deposited[u]
    BY <1>0, <1>1, <1>2, <1>6 DEF TypeOK, Totals
  <2>4. /\ balance[u] \in Int /\ deposited[u] \in Int /\ Totals[r] \in Int
        /\ SumOf(Totals, OrdersOf(u)) \in Int /\ SumOf(Repaid, Credited(u)) \in Int
    BY <1>0, Numbers DEF TypeOK
  <2>5. balance[u] = deposited[u] - SumOf(Totals, OrdersOf(u)) + SumOf(Repaid, Credited(u))
    BY DEF Balanced
  <2> QED
    BY <1>4, <2>1, <2>2, <2>3, <2>4, <2>5
<1> QED
  BY <1>5, <1>6

\* ApproveRefund: one refund more, credited to the buyer of its order, which
\* stays on the books as a refunded order.
LEMMA RefundBooks ==
    ASSUME IInv, Balanced, [Next]_vars, NEW f \in Refunds, ApproveRefund(f)
    PROVE  Balanced'
<1> DEFINE r == refundOf[f]
<1>0. TypeOK /\ TransactionIsPending /\ RefundsOfCommitted
  BY DEF IInv
<1>1. /\ balance' = [balance EXCEPT ![Buyer(r)] = @ + Total(r)]
      /\ status' = [status EXCEPT ![r] = "refunded"]
      /\ refundStatus[f] = "requested"
      /\ refundStatus' = [refundStatus EXCEPT ![f] = "approved"]
      /\ UNCHANGED <<arg, subtotal, discount, deposited, refundOf>>
  BY DEF ApproveRefund, callVars
<1>2. r \in Requests /\ status[r] \in Committed /\ Buyer(r) \in Users /\ Repaid[f] = Total(r)
  BY <1>0, <1>1, CallFacts DEF RefundsOfCommitted, TypeOK, Repaid
<1> HIDE DEF r
<1>3. Totals' = Totals /\ Repaid' = Repaid
  BY <1>1 DEF Totals, Repaid, Total
<1> SUFFICES ASSUME NEW u \in Users
             PROVE  balance'[u] = deposited'[u] - SumOf(Totals, OrdersOf(u)') + SumOf(Repaid, Credited(u)')
  BY <1>3 DEF Balanced
<1>4. OrdersOf(u)' = OrdersOf(u)
  BY <1>0, <1>1, <1>2 DEF OrdersOf, Buyer, TypeOK, Committed
<1>5. CASE u # Buyer(r)
  <2>1. Credited(u)' = Credited(u)
    BY <1>0, <1>1, <1>5 DEF Credited, Buyer, TypeOK, r
  <2>2. balance'[u] = balance[u] /\ deposited'[u] = deposited[u]
    BY <1>0, <1>1, <1>5 DEF TypeOK
  <2> QED
    BY <1>4, <2>1, <2>2 DEF Balanced
<1>6. CASE u = Buyer(r)
  <2>1. Credited(u)' = Credited(u) \cup {f} /\ f \notin Credited(u)
    BY <1>0, <1>1, <1>6 DEF Credited, Buyer, TypeOK, r
  <2>2. SumOf(Repaid, Credited(u) \cup {f}) = SumOf(Repaid, Credited(u)) + Repaid[f]
    <3>1. \A g \in Credited(u) \cup {f} : Repaid[g] \in Int
      BY <1>0, <1>1, Numbers DEF Credited
    <3> QED
      BY <1>0, <2>1, <3>1, Numbers, SumAdd
  <2>3. balance'[u] = balance[u] + Repaid[f] /\ deposited'[u] = deposited[u]
    BY <1>0, <1>1, <1>2, <1>6 DEF TypeOK
  <2>4. /\ balance[u] \in Int /\ deposited[u] \in Int /\ Repaid[f] \in Int
        /\ SumOf(Totals, OrdersOf(u)) \in Int /\ SumOf(Repaid, Credited(u)) \in Int
    BY <1>0, <1>1, Numbers DEF TypeOK
  <2>5. balance[u] = deposited[u] - SumOf(Totals, OrdersOf(u)) + SumOf(Repaid, Credited(u))
    BY DEF Balanced
  <2> QED
    BY <1>4, <2>1, <2>2, <2>3, <2>4, <2>5
<1> QED
  BY <1>5, <1>6

\* A deposit is on both sides of the books.
LEMMA DepositBooks ==
    ASSUME IInv, Balanced, NEW v \in Users, NEW amount \in Deposits, Deposit(v, amount)
    PROVE  Balanced'
<1>0. TypeOK /\ RefundsOfCommitted
  BY DEF IInv
<1>1. /\ deposited' = [deposited EXCEPT ![v] = @ + amount]
      /\ balance' = [balance EXCEPT ![v] = @ + amount]
      /\ UNCHANGED <<arg, subtotal, discount, status, refundOf, refundStatus>>
  BY DEF Deposit, callVars, orderVars, refundVars
<1> SUFFICES ASSUME NEW u \in Users
             PROVE  balance'[u] = deposited'[u] - SumOf(Totals', OrdersOf(u)') + SumOf(Repaid', Credited(u)')
  BY DEF Balanced
<1>2. Totals' = Totals /\ Repaid' = Repaid
  BY <1>1 DEF Totals, Repaid, Total
<1>3. OrdersOf(u)' = OrdersOf(u) /\ Credited(u)' = Credited(u)
  BY <1>1 DEF OrdersOf, Credited, Buyer
<1>4. balance[u] = deposited[u] - SumOf(Totals, OrdersOf(u)) + SumOf(Repaid, Credited(u))
  BY DEF Balanced
<1>5. /\ balance[u] \in Int /\ deposited[u] \in Int /\ amount \in Int
      /\ SumOf(Totals, OrdersOf(u)) \in Int /\ SumOf(Repaid, Credited(u)) \in Int
  <2>1. balance[u] \in Int /\ deposited[u] \in Int /\ amount \in Int
    BY <1>0, DepositAssumption DEF TypeOK
  <2> QED
    BY <1>0, <2>1, Numbers
<1>6. \/ balance'[u] = balance[u] + amount /\ deposited'[u] = deposited[u] + amount
      \/ balance'[u] = balance[u] /\ deposited'[u] = deposited[u]
  BY <1>0, <1>1 DEF TypeOK
<1> QED
  BY <1>2, <1>3, <1>4, <1>5, <1>6

\* Every other step leaves the wallets and the committed orders alone.
LEMMA BooksStep == IInv /\ Balanced /\ [Next]_vars => Balanced'
<1> SUFFICES ASSUME IInv, Balanced, [Next]_vars PROVE Balanced'
  OBVIOUS
<1>0. TypeOK /\ TransactionIsPending
  BY DEF IInv
<1> USE DEF walletVars, orderVars, refundVars, callVars
<1>1. ASSUME NEW r \in Requests,
             RefuseEmpty(r) \/ ReplayKey(r) \/ BeginPricing(r) \/ PriceLine(r) \/ RefuseOwned(r)
                \/ ApplyCoupon(r) \/ RefuseCoupon(r) \/ RefuseDuplicateKey(r) \/ LockWallet(r) \/ DebitLocked(r)
      PROVE  Balanced'
  <2>1. UNCHANGED <<balance, deposited, status, refundOf, refundStatus>>
    BY <1>1 DEF RefuseEmpty, ReplayKey, BeginPricing, PriceLine, RefuseOwned, ApplyCoupon, RefuseCoupon,
                RefuseDuplicateKey, LockWallet, DebitLocked
  <2> QED
    BY <2>1, QuietBooks
<1>2. ASSUME NEW r \in Requests, OpenOrder(r) \/ RefuseFunds(r) \/ Abort(r) PROVE Balanced'
  <2>1. UNCHANGED <<balance, deposited, refundOf, refundStatus>>
    BY <1>2 DEF OpenOrder, RefuseFunds, Abort, RollBack
  <2>2. pc[r] \in Running /\ \E s \in {"none", "pending"} : status' = [status EXCEPT ![r] = s]
    BY <1>2 DEF OpenOrder, RefuseFunds, Abort, RollBack, Running, InTransaction
  <2>3. status[r] \notin Committed
    BY <1>0, <2>2 DEF TransactionIsPending, Running, InTransaction
  <2>4. \A q \in Requests : status'[q] \in Committed <=> status[q] \in Committed
    BY <1>0, <2>2, <2>3 DEF TypeOK, Committed
  <2> QED
    BY <2>1, <2>4, QuietBooks
<1>3. ASSUME NEW r \in Requests, Commit(r) PROVE Balanced'
  BY <1>3, CommitBooks
<1>4. ASSUME NEW u \in Users, NEW amount \in Deposits, Deposit(u, amount) PROVE Balanced'
  BY <1>4, DepositBooks
<1>5. ASSUME NEW f \in Refunds, ApproveRefund(f) PROVE Balanced'
  BY <1>5, RefundBooks
<1>6. ASSUME NEW f \in Refunds, RejectRefund(f) \/ \E r \in Requests : RequestRefund(f, r) PROVE Balanced'
  <2>1. UNCHANGED <<balance, deposited, status>>
    BY <1>6 DEF RejectRefund, RequestRefund
  <2>2. \A g \in Refunds : /\ refundStatus'[g] = "approved" <=> refundStatus[g] = "approved"
                           /\ refundStatus[g] = "approved" => refundOf'[g] = refundOf[g]
    BY <1>0, <1>6 DEF RejectRefund, RequestRefund, TypeOK
  <2> QED
    BY <2>1, <2>2, QuietBooks
<1>7. CASE UNCHANGED vars
  BY <1>7, QuietBooks DEF vars
<1> QED
  BY <1>1, <1>2, <1>3, <1>4, <1>5, <1>6, <1>7 DEF Next, Step

\* The books open with nothing sold and nothing refunded.
LEMMA BooksOpen == Init => Balanced
<1> SUFFICES ASSUME Init, NEW u \in Users
             PROVE  balance[u] = deposited[u] - SumOf(Totals, OrdersOf(u)) + SumOf(Repaid, Credited(u))
  BY DEF Balanced
<1>1. OrdersOf(u) = {} /\ Credited(u) = {}
  BY DEF Init, OrdersOf, Credited, Committed
<1> QED
  BY <1>1, SumEmpty DEF Init

\* Every rial of every wallet is accounted for.
THEOREM BooksSafe == Spec => []BooksBalance
<1>1. Spec => []Balanced
  BY BooksOpen, BooksStep, Inductive, PTL DEF Spec
<1>2. Balanced => BooksBalance
  BY SameBooks
<1> QED
  BY <1>1, <1>2, PTL

-----------------------------------------------------------------------------
(* Charging the wallet *)

USE NobodyAssumption

\* No payment, no credit and no callback at first: nothing to be said against TopUpInv.
LEMMA TopUpInitInv == TopUpInit => TopUpInv
BY DEF TopUpInit, TopUpInv, TopUpTypeOK, SettlesUnderLock, CreditedOnce, OkMeansCredited

\* Every step of a callback, of StartTopUp and of the user keeps the invariant.
LEMMA TopUpStepInv == TopUpInv /\ [TopUpNext]_topUpVars => TopUpInv'
<1> SUFFICES ASSUME TopUpInv, [TopUpNext]_topUpVars PROVE TopUpInv'
  OBVIOUS
<1>0. TopUpTypeOK /\ SettlesUnderLock /\ CreditedOnce /\ OkMeansCredited
  BY DEF TopUpInv
<1>1. ASSUME NEW p \in Payments, RegisterAtGateway(p) PROVE TopUpInv'
  <2>1. TopUpTypeOK'
    BY <1>0, <1>1 DEF RegisterAtGateway, callbackVars, TopUpTypeOK
  <2>2. SettlesUnderLock'
    BY <1>0, <1>1 DEF RegisterAtGateway, callbackVars, TopUpTypeOK, SettlesUnderLock
  <2>3. CreditedOnce'
    BY <1>0, <1>1 DEF RegisterAtGateway, callbackVars, TopUpTypeOK, SettlesUnderLock, CreditedOnce
  <2>4. OkMeansCredited'
    BY <1>0, <1>1 DEF RegisterAtGateway, callbackVars, TopUpTypeOK, SettlesUnderLock, CreditedOnce, OkMeansCredited
  <2> QED
    BY <2>1, <2>2, <2>3, <2>4 DEF TopUpInv
<1>2. ASSUME NEW p \in Payments, CreatePayment(p) PROVE TopUpInv'
  <2>1. TopUpTypeOK'
    BY <1>0, <1>2 DEF CreatePayment, callbackVars, TopUpTypeOK
  <2>2. SettlesUnderLock'
    BY <1>0, <1>2 DEF CreatePayment, callbackVars, TopUpTypeOK, SettlesUnderLock
  <2>3. CreditedOnce'
    BY <1>0, <1>2 DEF CreatePayment, callbackVars, TopUpTypeOK, SettlesUnderLock, CreditedOnce
  <2>4. OkMeansCredited'
    BY <1>0, <1>2 DEF CreatePayment, callbackVars, TopUpTypeOK, SettlesUnderLock, CreditedOnce, OkMeansCredited
  <2> QED
    BY <2>1, <2>2, <2>3, <2>4 DEF TopUpInv
<1>3. ASSUME NEW p \in Payments, UserPays(p) PROVE TopUpInv'
  <2>1. TopUpTypeOK'
    BY <1>0, <1>3 DEF UserPays, callbackVars, TopUpTypeOK
  <2>2. SettlesUnderLock'
    BY <1>0, <1>3 DEF UserPays, callbackVars, TopUpTypeOK, SettlesUnderLock
  <2>3. CreditedOnce'
    BY <1>0, <1>3 DEF UserPays, callbackVars, TopUpTypeOK, SettlesUnderLock, CreditedOnce
  <2>4. OkMeansCredited'
    BY <1>0, <1>3 DEF UserPays, callbackVars, TopUpTypeOK, SettlesUnderLock, CreditedOnce, OkMeansCredited
  <2> QED
    BY <2>1, <2>2, <2>3, <2>4 DEF TopUpInv
<1>4. ASSUME NEW c \in Callbacks, Lookup(c) PROVE TopUpInv'
  <2>1. TopUpTypeOK'
    BY <1>0, <1>4 DEF Lookup, Move, TopUpTypeOK
  <2>2. SettlesUnderLock'
    BY <1>0, <1>4 DEF Lookup, Move, TopUpTypeOK, SettlesUnderLock
  <2>3. CreditedOnce'
    BY <1>0, <1>4 DEF Lookup, Move, TopUpTypeOK, SettlesUnderLock, CreditedOnce
  <2>4. OkMeansCredited'
    BY <1>0, <1>4 DEF Lookup, Move, TopUpTypeOK, SettlesUnderLock, CreditedOnce, OkMeansCredited
  <2> QED
    BY <2>1, <2>2, <2>3, <2>4 DEF TopUpInv
<1>5. ASSUME NEW c \in Callbacks, VerifyPaid(c) PROVE TopUpInv'
  <2>1. TopUpTypeOK'
    BY <1>0, <1>5 DEF VerifyPaid, Move, TopUpTypeOK
  <2>2. SettlesUnderLock'
    BY <1>0, <1>5 DEF VerifyPaid, Move, TopUpTypeOK, SettlesUnderLock
  <2>3. CreditedOnce'
    BY <1>0, <1>5 DEF VerifyPaid, Move, TopUpTypeOK, SettlesUnderLock, CreditedOnce
  <2>4. OkMeansCredited'
    BY <1>0, <1>5 DEF VerifyPaid, Move, TopUpTypeOK, SettlesUnderLock, CreditedOnce, OkMeansCredited
  <2> QED
    BY <2>1, <2>2, <2>3, <2>4 DEF TopUpInv
<1>6. ASSUME NEW c \in Callbacks, VerifyNotPaid(c) PROVE TopUpInv'
  <2>1. TopUpTypeOK'
    BY <1>0, <1>6 DEF VerifyNotPaid, Move, TopUpTypeOK
  <2>2. SettlesUnderLock'
    BY <1>0, <1>6 DEF VerifyNotPaid, Move, TopUpTypeOK, SettlesUnderLock
  <2>3. CreditedOnce'
    BY <1>0, <1>6 DEF VerifyNotPaid, Move, TopUpTypeOK, SettlesUnderLock, CreditedOnce
  <2>4. OkMeansCredited'
    BY <1>0, <1>6 DEF VerifyNotPaid, Move, TopUpTypeOK, SettlesUnderLock, CreditedOnce, OkMeansCredited
  <2> QED
    BY <2>1, <2>2, <2>3, <2>4 DEF TopUpInv
<1>7. ASSUME NEW c \in Callbacks, VerifyError(c) PROVE TopUpInv'
  <2>1. TopUpTypeOK'
    BY <1>0, <1>7 DEF VerifyError, Move, TopUpTypeOK
  <2>2. SettlesUnderLock'
    BY <1>0, <1>7 DEF VerifyError, Move, TopUpTypeOK, SettlesUnderLock
  <2>3. CreditedOnce'
    BY <1>0, <1>7 DEF VerifyError, Move, TopUpTypeOK, SettlesUnderLock, CreditedOnce
  <2>4. OkMeansCredited'
    BY <1>0, <1>7 DEF VerifyError, Move, TopUpTypeOK, SettlesUnderLock, CreditedOnce, OkMeansCredited
  <2> QED
    BY <2>1, <2>2, <2>3, <2>4 DEF TopUpInv
<1>8. ASSUME NEW c \in Callbacks, MarkPaymentFailed(c) PROVE TopUpInv'
  <2>1. TopUpTypeOK'
    BY <1>0, <1>8 DEF MarkPaymentFailed, Move, TopUpTypeOK
  <2>2. SettlesUnderLock'
    BY <1>0, <1>8 DEF MarkPaymentFailed, Move, TopUpTypeOK, SettlesUnderLock
  <2>3. CreditedOnce'
    BY <1>0, <1>8 DEF MarkPaymentFailed, Move, TopUpTypeOK, SettlesUnderLock, CreditedOnce
  <2>4. OkMeansCredited'
    BY <1>0, <1>8 DEF MarkPaymentFailed, Move, TopUpTypeOK, SettlesUnderLock, CreditedOnce, OkMeansCredited
  <2> QED
    BY <2>1, <2>2, <2>3, <2>4 DEF TopUpInv
<1>9. ASSUME NEW c \in Callbacks, LockPayment(c) PROVE TopUpInv'
  <2>1. TopUpTypeOK'
    BY <1>0, <1>9 DEF LockPayment, Move, TopUpTypeOK
  <2>2. SettlesUnderLock'
    BY <1>0, <1>9 DEF LockPayment, Move, TopUpTypeOK, SettlesUnderLock
  <2>3. CreditedOnce'
    BY <1>0, <1>9 DEF LockPayment, Move, TopUpTypeOK, SettlesUnderLock, CreditedOnce
  <2>4. OkMeansCredited'
    BY <1>0, <1>9 DEF LockPayment, Move, TopUpTypeOK, SettlesUnderLock, CreditedOnce, OkMeansCredited
  <2> QED
    BY <2>1, <2>2, <2>3, <2>4 DEF TopUpInv
<1>10. ASSUME NEW c \in Callbacks, AlreadySettled(c) PROVE TopUpInv'
  <2>1. TopUpTypeOK'
    BY <1>0, <1>10 DEF AlreadySettled, Move, TopUpTypeOK
  <2>2. SettlesUnderLock'
    BY <1>0, <1>10 DEF AlreadySettled, Move, TopUpTypeOK, SettlesUnderLock
  <2>3. CreditedOnce'
    BY <1>0, <1>10 DEF AlreadySettled, Move, TopUpTypeOK, SettlesUnderLock, CreditedOnce
  <2>4. OkMeansCredited'
    BY <1>0, <1>10 DEF AlreadySettled, Move, TopUpTypeOK, SettlesUnderLock, CreditedOnce, OkMeansCredited
  <2> QED
    BY <2>1, <2>2, <2>3, <2>4 DEF TopUpInv
<1>11. ASSUME NEW c \in Callbacks, Settle(c) PROVE TopUpInv'
  <2>1. /\ callback[c] = "settle" /\ of[c] \in Payments
        /\ rowLock[of[c]] = c /\ gateway[of[c]] = "paid" /\ credits[of[c]] = 0
    BY <1>0, <1>11 DEF Settle, TopUpTypeOK, SettlesUnderLock, CreditedOnce
  <2>2. PICK p \in Payments : p = of[c]
    BY <2>1
  <2>3. /\ callback' = [callback EXCEPT ![c] = "ok"]
        /\ credits' = [credits EXCEPT ![p] = 1]
        /\ row' = [row EXCEPT ![p] = "succeeded"]
        /\ rowLock' = [q \in Payments |-> IF rowLock[q] = c THEN Nobody ELSE rowLock[q]]
        /\ UNCHANGED <<gateway, of>>
    BY <1>11, <2>1, <2>2 DEF Settle, Move, Release
  <2>4. TopUpTypeOK'
    BY <1>0, <2>3 DEF TopUpTypeOK
  <2>5. SettlesUnderLock'
    BY <1>0, <2>1, <2>2, <2>3 DEF TopUpTypeOK, SettlesUnderLock
  <2>6. CreditedOnce'
    BY <1>0, <2>1, <2>2, <2>3 DEF TopUpTypeOK, CreditedOnce
  <2>7. OkMeansCredited'
    BY <1>0, <2>1, <2>2, <2>3 DEF TopUpTypeOK, OkMeansCredited
  <2> QED
    BY <2>4, <2>5, <2>6, <2>7 DEF TopUpInv
<1>12. ASSUME NEW c \in Callbacks, SettleFailed(c) PROVE TopUpInv'
  <2>1. TopUpTypeOK'
    BY <1>0, <1>12 DEF SettleFailed, Move, Release, TopUpTypeOK
  <2>2. SettlesUnderLock'
    BY <1>0, <1>12 DEF SettleFailed, Move, Release, TopUpTypeOK, SettlesUnderLock
  <2>3. CreditedOnce'
    BY <1>0, <1>12 DEF SettleFailed, Move, Release, TopUpTypeOK, SettlesUnderLock, CreditedOnce
  <2>4. OkMeansCredited'
    BY <1>0, <1>12 DEF SettleFailed, Move, Release, TopUpTypeOK, SettlesUnderLock, CreditedOnce, OkMeansCredited
  <2> QED
    BY <2>1, <2>2, <2>3, <2>4 DEF TopUpInv
<1>13. ASSUME NEW c \in Callbacks, Crash(c) PROVE TopUpInv'
  <2>1. TopUpTypeOK'
    BY <1>0, <1>13 DEF Crash, Move, Release, TopUpTypeOK
  <2>2. SettlesUnderLock'
    BY <1>0, <1>13 DEF Crash, Move, Release, TopUpTypeOK, SettlesUnderLock
  <2>3. CreditedOnce'
    BY <1>0, <1>13 DEF Crash, Move, Release, TopUpTypeOK, SettlesUnderLock, CreditedOnce
  <2>4. OkMeansCredited'
    BY <1>0, <1>13 DEF Crash, Move, Release, TopUpTypeOK, SettlesUnderLock, CreditedOnce, OkMeansCredited
  <2> QED
    BY <2>1, <2>2, <2>3, <2>4 DEF TopUpInv
<1>14. CASE UNCHANGED topUpVars
  BY <1>14 DEF topUpVars, callbackVars, TopUpInv, TopUpTypeOK, SettlesUnderLock, CreditedOnce, OkMeansCredited
<1> QED
  BY <1>1, <1>2, <1>3, <1>4, <1>5, <1>6, <1>7, <1>8,
     <1>9, <1>10, <1>11, <1>12, <1>13, <1>14 DEF TopUpNext, Handle

\* The row lock, the credit and the answers of SettleTopUp stay together.
THEOREM TopUpInductive == TopUpSpec => []TopUpInv
BY TopUpInitInv, TopUpStepInv, PTL DEF TopUpSpec

\* The gateway, the rows, their locks and the callbacks keep their types.
THEOREM TopUpTypeCorrect == TopUpSpec => []TopUpTypeOK
BY TopUpInductive, PTL DEF TopUpInv

\* Duplicate callbacks never credit twice, and nothing is credited that the
\* gateway has not confirmed (SettleTopUp).
THEOREM CreditSafe == TopUpSpec => []CreditedOnce
BY TopUpInductive, PTL DEF TopUpInv

\* A callback answered with success has its money in the wallet.
THEOREM AnswerSafe == TopUpSpec => []OkMeansCredited
BY TopUpInductive, PTL DEF TopUpInv

\* The status of a payment moves once, from pending to its end.
THEOREM SettledOnce == TopUpSpec => SettledForGood
<1>1. TopUpInv /\ [TopUpNext]_topUpVars => [\A p \in Payments : row[p] \in {"succeeded", "failed"} => row'[p] = row[p]]_topUpVars
  <2> SUFFICES ASSUME TopUpInv, TopUpNext, NEW p \in Payments, row[p] \in {"succeeded", "failed"}
               PROVE  row'[p] = row[p]
    OBVIOUS
  <2> USE DEF TopUpInv, TopUpTypeOK
  <2> QED
    BY DEF TopUpNext, Handle, RegisterAtGateway, CreatePayment, UserPays, Lookup, VerifyPaid, VerifyNotPaid,
       VerifyError, MarkPaymentFailed, LockPayment, AlreadySettled, Settle, SettleFailed, Crash
<1> QED
  BY <1>1, TopUpInductive, PTL DEF TopUpSpec, SettledForGood
=============================================================================
