------------------------------ MODULE Purchase ------------------------------
(***************************************************************************)
(* The checkout of the commerce module: concurrent calls of                *)
(* Service.Purchase, wallet top-ups, and the refund of paid orders, over   *)
(* the tables they share (commerce/service.go, service_access.go).         *)
(*                                                                         *)
(* A request is one call of Purchase.  It reads without a transaction      *)
(* (idempotency key, owned check, coupon counts), then runs one            *)
(* transaction: insert the order, take the wallet's advisory lock, check   *)
(* the balance, debit, grant, redeem, mark paid.  What a transaction wrote *)
(* is visible to the others from Commit on, so the writes of the open      *)
(* transaction are kept in pc and become effective in Commit; only the row *)
(* of the order is seen earlier, as "pending", by the unique index on      *)
(* (user_id, idempotency_key).                                             *)
(*                                                                         *)
(* The wallet is a SUM over an append-only ledger: balance[u] is the value *)
(* of that SUM over the committed rows.                                    *)
(***************************************************************************)
EXTENDS Coupon, Sequences, FiniteSets

CONSTANTS
    Users,          \* owners of wallets, buyers and recipients
    Editions,       \* audio editions on sale
    Requests,       \* calls of Purchase; a call names the order it creates
    Refunds,        \* refund rows
    Calls,          \* the arguments a call may have
    Keys,           \* idempotency keys
    NoKey,          \* the call carries no key
    None,           \* no request
    Price,          \* catalog price of an edition
    Campaign,       \* the one coupon the calls may name
    Deposits,       \* amounts a wallet is credited with
    DepositLimit    \* bound: what a wallet is credited with in total

Line == [edition : Editions, to : Users]

Call == [user : Users, key : Keys \cup {NoKey}, lines : Seq(Line), coupon : BOOLEAN]

ASSUME CallsAssumption    == Calls \subseteq Call
ASSUME PriceAssumption    == Price \in [Editions -> Nat]
ASSUME CampaignAssumption == Campaign \in CouponType
ASSUME DepositAssumption  == Deposits \subseteq Nat \ {0} /\ DepositLimit \in Nat
ASSUME NoneAssumption     == None \notin Requests /\ NoKey \notin Keys
ASSUME FiniteAssumption   == IsFiniteSet(Requests) /\ IsFiniteSet(Refunds)

VARIABLES
    arg,            \* arguments of each call, never changed
    pc,             \* where the call is
    checked,        \* number of lines priced so far
    subtotal,       \* sum of the prices of those lines
    discount,       \* what the coupon takes off
    walletLock,     \* holder of pg_advisory_xact_lock(user)
    balance,        \* SUM over the user's committed ledger rows
    deposited,      \* history: what the user's wallet was credited with by Deposit
    status,         \* status of the order row of a request
    entitlements,   \* unrevoked rows of commerce.entitlements
    refundOf,       \* order of each refund row
    refundStatus    \* status of each refund row

callVars   == <<pc, checked, subtotal, discount>>
walletVars == <<walletLock, balance, deposited>>
orderVars  == <<status, entitlements>>
refundVars == <<refundOf, refundStatus>>
vars == <<arg, callVars, walletVars, orderVars, refundVars>>

InTransaction == {"lock", "debit", "write"}
Running       == {"price", "open"} \cup InTransaction
Finished      == {"paid", "reused", "failed"}

Entitlement == [owner : Users, edition : Editions, origin : {"purchase", "gift"}, source : Requests]

TypeOK ==
    /\ arg \in [Requests -> Calls]
    /\ pc \in [Requests -> {"idle"} \cup Running \cup Finished]
    /\ checked \in [Requests -> Nat]
    /\ subtotal \in [Requests -> Nat]
    /\ discount \in [Requests -> Nat]
    /\ walletLock \in [Users -> Requests \cup {None}]
    /\ balance \in [Users -> Int]
    /\ deposited \in [Users -> Nat]
    /\ status \in [Requests -> {"none", "pending", "paid", "refunded"}]
    /\ entitlements \subseteq Entitlement
    /\ refundOf \in [Refunds -> Requests \cup {None}]
    /\ refundStatus \in [Refunds -> {"none", "requested", "approved", "rejected"}]
    /\ \A f \in Refunds : refundStatus[f] # "none" => refundOf[f] \in Requests

-----------------------------------------------------------------------------
Buyer(r) == arg[r].user
Lines(r) == arg[r].lines
Total(r) == subtotal[r] - discount[r]

Committed == {"paid", "refunded"}

\* Another order row with the buyer and the key of r, in one of the states S.
KeyTaken(r, S) ==
    /\ arg[r].key # NoKey
    /\ \E q \in Requests : /\ status[q] \in S
                           /\ arg[q].user = arg[r].user
                           /\ arg[q].key = arg[r].key

Owns(u, e) == \E row \in entitlements : row.owner = u /\ row.edition = e

\* The row GrantEntitlement inserts for a line; a recipient other than the
\* buyer makes it a gift.
GrantFor(r, line) ==
    [owner   |-> line.to,
     edition |-> line.edition,
     origin  |-> IF line.to = Buyer(r) THEN "purchase" ELSE "gift",
     source  |-> r]

GrantsFor(r) == {GrantFor(r, Lines(r)[i]) : i \in 1..Len(Lines(r))}

\* The partial unique index on (user_id, audio_edition_id, origin).
SameSlot(a, b) == a.owner = b.owner /\ a.edition = b.edition /\ a.origin = b.origin

\* Mutant: a conflict target without the owner.
InsertedPerEdition(r) ==
    {g \in GrantsFor(r) : ~ \E row \in entitlements : row.edition = g.edition /\ row.origin = g.origin}

\* ON CONFLICT leaves the row already there, with the source it has.
Inserted(r) == {g \in GrantsFor(r) : ~ \E row \in entitlements : SameSlot(row, g)}

Redeemed == {r \in Requests : status[r] \in Committed /\ discount[r] > 0}

RedeemedBy(u) == {r \in Redeemed : Buyer(r) = u}

BelowLimit(limit, used) == limit > 0 => Cardinality(used) < limit

\* Mutant: the limit is compared with "greater than".
UsableOnceMore(r) ==
    /\ subtotal[r] >= Campaign.minSubtotal
    /\ Cardinality(Redeemed) <= Campaign.maxRedemptions
    /\ Cardinality(RedeemedBy(Buyer(r))) <= Campaign.perUserLimit
    /\ Discount(Campaign, subtotal[r]) > 0

Usable(r) ==
    /\ subtotal[r] >= Campaign.minSubtotal
    /\ BelowLimit(Campaign.maxRedemptions, Redeemed)
    /\ BelowLimit(Campaign.perUserLimit, RedeemedBy(Buyer(r)))
    /\ Discount(Campaign, subtotal[r]) > 0

Unlock(r) == walletLock' = [u \in Users |-> IF walletLock[u] = r THEN None ELSE walletLock[u]]

\* Mutants: the debit survives the rollback; a lock of the session and not of
\* the transaction.
RollBackAfterDebit(r) ==
    /\ pc' = [pc EXCEPT ![r] = "failed"]
    /\ status' = [status EXCEPT ![r] = "none"]
    /\ Unlock(r)
    /\ balance' = [balance EXCEPT ![Buyer(r)] = IF pc[r] = "write" THEN @ - Total(r) ELSE @]
    /\ UNCHANGED <<arg, checked, subtotal, discount, deposited, entitlements, refundVars>>

RollBackUnderLock(r) ==
    /\ pc' = [pc EXCEPT ![r] = "failed"]
    /\ status' = [status EXCEPT ![r] = "none"]
    /\ UNCHANGED <<arg, checked, subtotal, discount, walletVars, entitlements, refundVars>>

\* The end of a transaction that takes nothing with it.
RollBack(r) ==
    /\ pc' = [pc EXCEPT ![r] = "failed"]
    /\ status' = [status EXCEPT ![r] = "none"]
    /\ Unlock(r)
    /\ UNCHANGED <<arg, checked, subtotal, discount, balance, deposited, entitlements, refundVars>>

Goto(r, l) == pc' = [pc EXCEPT ![r] = l]

-----------------------------------------------------------------------------
Init ==
    /\ arg \in [Requests -> Calls]
    /\ pc = [r \in Requests |-> "idle"]
    /\ checked = [r \in Requests |-> 0]
    /\ subtotal = [r \in Requests |-> 0]
    /\ discount = [r \in Requests |-> 0]
    /\ walletLock = [u \in Users |-> None]
    /\ balance = [u \in Users |-> 0]
    /\ deposited = [u \in Users |-> 0]
    /\ status = [r \in Requests |-> "none"]
    /\ entitlements = {}
    /\ refundOf = [f \in Refunds |-> None]
    /\ refundStatus = [f \in Refunds |-> "none"]

\* ErrEmptyPurchase.
RefuseEmpty(r) ==
    /\ pc[r] = "idle"
    /\ Lines(r) = <<>>
    /\ Goto(r, "failed")
    /\ UNCHANGED <<arg, checked, subtotal, discount, walletVars, orderVars, refundVars>>

\* GetOrderByIdempotencyKey finds a committed order: it is returned as it is.
ReplayKey(r) ==
    /\ pc[r] = "idle"
    /\ Lines(r) # <<>>
    /\ KeyTaken(r, Committed)
    /\ Goto(r, "reused")
    /\ UNCHANGED <<arg, checked, subtotal, discount, walletVars, orderVars, refundVars>>

BeginPricing(r) ==
    /\ pc[r] = "idle"
    /\ Lines(r) # <<>>
    /\ ~ KeyTaken(r, Committed)
    /\ Goto(r, "price")
    /\ UNCHANGED <<arg, checked, subtotal, discount, walletVars, orderVars, refundVars>>

\* The body of the loop over the lines: the owned check is for the buyer only.
NextLine(r) == Lines(r)[checked[r] + 1]

AlreadyOwned(r) == NextLine(r).to = Buyer(r) /\ Owns(Buyer(r), NextLine(r).edition)

PriceLine(r) ==
    /\ pc[r] = "price"
    /\ checked[r] < Len(Lines(r))
    /\ ~ AlreadyOwned(r)
    /\ subtotal' = [subtotal EXCEPT ![r] = @ + Price[NextLine(r).edition]]
    /\ checked' = [checked EXCEPT ![r] = @ + 1]
    /\ UNCHANGED <<arg, pc, discount, walletVars, orderVars, refundVars>>

\* ErrAlreadyOwned.
RefuseOwned(r) ==
    /\ pc[r] = "price"
    /\ checked[r] < Len(Lines(r))
    /\ AlreadyOwned(r)
    /\ Goto(r, "failed")
    /\ UNCHANGED <<arg, checked, subtotal, discount, walletVars, orderVars, refundVars>>

\* The two COUNTs of evaluateCoupon are one step: they only ever grow, so both
\* were below their limit when the first was read.
ApplyCoupon(r) ==
    /\ pc[r] = "price"
    /\ checked[r] = Len(Lines(r))
    /\ arg[r].coupon => Usable(r)
    /\ discount' = [discount EXCEPT ![r] =
                       IF arg[r].coupon THEN Discount(Campaign, subtotal[r]) ELSE 0]
    /\ Goto(r, "open")
    /\ UNCHANGED <<arg, checked, subtotal, walletVars, orderVars, refundVars>>

\* ErrCouponNotUsable, or the campaign is over by the clock of the database.
RefuseCoupon(r) ==
    /\ pc[r] = "price"
    /\ checked[r] = Len(Lines(r))
    /\ arg[r].coupon
    /\ Goto(r, "failed")
    /\ UNCHANGED <<arg, checked, subtotal, discount, walletVars, orderVars, refundVars>>

\* Mutant: no unique index on the key.
OpenOrderUnindexed(r) ==
    /\ pc[r] = "open"
    /\ status' = [status EXCEPT ![r] = "pending"]
    /\ Goto(r, IF Total(r) > 0 THEN "lock" ELSE "write")
    /\ UNCHANGED <<arg, checked, subtotal, discount, walletVars, entitlements, refundVars>>

\* BEGIN, CreateOrder.  The insert waits for an open transaction that holds the
\* same (user, key).  An order whose total is 0 never touches the ledger.
OpenOrder(r) ==
    /\ pc[r] = "open"
    /\ ~ KeyTaken(r, {"pending"} \cup Committed)
    /\ status' = [status EXCEPT ![r] = "pending"]
    /\ Goto(r, IF Total(r) > 0 THEN "lock" ELSE "write")
    /\ UNCHANGED <<arg, checked, subtotal, discount, walletVars, entitlements, refundVars>>

\* The unique violation: another request with the key has committed meanwhile.
RefuseDuplicateKey(r) ==
    /\ pc[r] = "open"
    /\ KeyTaken(r, Committed)
    /\ Goto(r, "failed")
    /\ UNCHANGED <<arg, checked, subtotal, discount, walletVars, orderVars, refundVars>>

\* Mutant: the advisory lock is shared.
LockWalletShared(r) ==
    /\ pc[r] = "lock"
    /\ walletLock' = [walletLock EXCEPT ![Buyer(r)] = r]
    /\ Goto(r, "debit")
    /\ UNCHANGED <<arg, checked, subtotal, discount, balance, deposited, orderVars, refundVars>>

\* debitLocked, first part: LockWallet.
LockWallet(r) ==
    /\ pc[r] = "lock"
    /\ walletLock[Buyer(r)] = None
    /\ walletLock' = [walletLock EXCEPT ![Buyer(r)] = r]
    /\ Goto(r, "debit")
    /\ UNCHANGED <<arg, checked, subtotal, discount, balance, deposited, orderVars, refundVars>>

\* Mutant: the balance is not compared.
DebitUnchecked(r) ==
    /\ pc[r] = "debit"
    /\ Goto(r, "write")
    /\ UNCHANGED <<arg, checked, subtotal, discount, walletVars, orderVars, refundVars>>

\* debitLocked, second part: GetWalletBalance, then the debit row, which
\* nobody else sees before Commit.
DebitLocked(r) ==
    /\ pc[r] = "debit"
    /\ balance[Buyer(r)] >= Total(r)
    /\ Goto(r, "write")
    /\ UNCHANGED <<arg, checked, subtotal, discount, walletVars, orderVars, refundVars>>

\* ErrInsufficientFunds ends the transaction with a rollback.
RefuseFunds(r) ==
    /\ pc[r] = "debit"
    /\ balance[Buyer(r)] < Total(r)
    /\ RollBack(r)

\* The rest of the transaction and its COMMIT: debit row, order items, grants,
\* redemption (Redeemed), status; the advisory lock goes with the transaction.
Commit(r) ==
    /\ pc[r] = "write"
    /\ balance' = [balance EXCEPT ![Buyer(r)] = @ - Total(r)]
    /\ entitlements' = entitlements \cup Inserted(r)
    /\ status' = [status EXCEPT ![r] = "paid"]
    /\ Unlock(r)
    /\ Goto(r, "paid")
    /\ UNCHANGED <<arg, checked, subtotal, discount, deposited, refundVars>>

\* The process dies, the connection drops, a statement fails or Postgres picks
\* the transaction as the victim of a deadlock among grants.
Abort(r) ==
    /\ pc[r] \in Running
    /\ RollBack(r)

\* Service.Credit: no lock, one row.
Deposit(u, amount) ==
    /\ deposited[u] + amount <= DepositLimit
    /\ deposited' = [deposited EXCEPT ![u] = @ + amount]
    /\ balance' = [balance EXCEPT ![u] = @ + amount]
    /\ UNCHANGED <<arg, callVars, walletLock, orderVars, refundVars>>

\* RequestRefund by the buyer.  The window and the listened share may refuse
\* it, which changes nothing; the amount is the order's total, and the table
\* refuses an amount of 0.
RequestRefund(f, r) ==
    /\ refundStatus[f] = "none"
    /\ status[r] = "paid"
    /\ Total(r) > 0
    /\ refundOf' = [refundOf EXCEPT ![f] = r]
    /\ refundStatus' = [refundStatus EXCEPT ![f] = "requested"]
    /\ UNCHANGED <<arg, callVars, walletVars, orderVars>>

\* Mutant: access is not revoked.
ApproveKeepsAccess(f) ==
    /\ refundStatus[f] = "requested"
    /\ balance' = [balance EXCEPT ![Buyer(refundOf[f])] = @ + Total(refundOf[f])]
    /\ status' = [status EXCEPT ![refundOf[f]] = "refunded"]
    /\ refundStatus' = [refundStatus EXCEPT ![f] = "approved"]
    /\ UNCHANGED <<arg, callVars, walletLock, deposited, entitlements, refundOf>>

\* One transaction: ResolveRefund (only from "requested"), the compensating
\* credit, RevokeEntitlementsForOrder, MarkOrderRefunded (whatever the status).
ApproveRefund(f) ==
    /\ refundStatus[f] = "requested"
    /\ LET r == refundOf[f]
       IN  /\ balance' = [balance EXCEPT ![Buyer(r)] = @ + Total(r)]
           /\ entitlements' = {row \in entitlements : row.source # r}
           /\ status' = [status EXCEPT ![r] = "refunded"]
    /\ refundStatus' = [refundStatus EXCEPT ![f] = "approved"]
    /\ UNCHANGED <<arg, callVars, walletLock, deposited, refundOf>>

RejectRefund(f) ==
    /\ refundStatus[f] = "requested"
    /\ refundStatus' = [refundStatus EXCEPT ![f] = "rejected"]
    /\ UNCHANGED <<arg, callVars, walletVars, orderVars, refundOf>>

Step(r) ==
    \/ RefuseEmpty(r) \/ ReplayKey(r) \/ BeginPricing(r)
    \/ PriceLine(r) \/ RefuseOwned(r) \/ ApplyCoupon(r) \/ RefuseCoupon(r)
    \/ OpenOrder(r) \/ RefuseDuplicateKey(r)
    \/ LockWallet(r) \/ DebitLocked(r) \/ RefuseFunds(r) \/ Commit(r)

Next ==
    \/ \E r \in Requests : Step(r) \/ Abort(r)
    \/ \E u \in Users, amount \in Deposits : Deposit(u, amount)
    \/ \E f \in Refunds : \/ \E r \in Requests : RequestRefund(f, r)
                          \/ ApproveRefund(f)
                          \/ RejectRefund(f)

Spec == Init /\ [][Next]_vars

\* A call that was taken up keeps running; clients need not call at all.
Fairness == \A r \in Requests : WF_vars(pc[r] # "idle" /\ Step(r))

FairSpec == Spec /\ Fairness

-----------------------------------------------------------------------------
Sums == INSTANCE FiniteSetsExt

\* The wallet never goes negative, although every call reads the balance and
\* writes its debit in different steps (debitLocked behind LockWallet).
NeverOverdrawn == \A u \in Users : balance[u] >= 0

OrdersOf(u) == {r \in Requests : Buyer(r) = u /\ status[r] \in Committed}

Credited(u) == {f \in Refunds : refundStatus[f] = "approved" /\ Buyer(refundOf[f]) = u}

\* Every rial is accounted for: what a wallet holds is what was paid in, less
\* the totals of the committed orders, plus the refunds approved (a call that
\* fails or is retried leaves no trace: service.go 295-305).
BooksBalance ==
    \A u \in Users :
        LET refunded(f) == Total(refundOf[f])
        IN  balance[u] = deposited[u] - Sums!MapThenSumSet(Total, OrdersOf(u))
                                      + Sums!MapThenSumSet(refunded, Credited(u))

\* A retried purchase is one purchase: among the orders written, even those of
\* open transactions, no two have the same buyer and key (service.go 303-321).
OneOrderPerKey ==
    \A q, r \in Requests :
        /\ status[q] # "none" /\ status[r] # "none"
        /\ arg[q].user = arg[r].user
        /\ arg[q].key = arg[r].key /\ arg[q].key # NoKey
        => q = r

\* Access in force is access somebody has paid for and has not got back:
\* failed, replayed and refunded calls leave none (RevokeEntitlementsForOrder).
AccessIsPaidFor ==
    \A row \in entitlements : /\ status[row.source] = "paid"
                              /\ row \in GrantsFor(row.source)

\* A paid order gives access to each of its lines, unless an order for the same
\* line was refunded: the row a grant finds in place keeps its first source.
PaidKeepsAccess ==
    \A r \in Requests : status[r] = "paid" =>
        \A g \in GrantsFor(r) :
            \/ \E row \in entitlements : SameSlot(row, g)
            \/ \E q \in Requests : /\ status[q] = "refunded"
                                   /\ \E h \in GrantsFor(q) : SameSlot(h, g)

\* Every call that was taken up ends: paid, replayed or refused, and none is
\* left waiting for a wallet or for a key for ever.
EveryCallEnds == \A r \in Requests : pc[r] # "idle" ~> pc[r] \in Finished

\* Checkout, as the database shows it between transactions.
Abstract == INSTANCE Checkout WITH
    Orders <- Requests,
    buyer  <- [r \in Requests |-> Buyer(r)],
    goods  <- [r \in Requests |-> GrantsFor(r)],
    wallet <- balance,
    state  <- [r \in Requests |-> IF status[r] \in Committed THEN status[r] ELSE "open"],
    paid   <- [r \in Requests |-> IF status[r] \in Committed THEN Total(r) ELSE 0],
    access <- entitlements

\* Every step of the code is a step of Checkout or changes nothing it shows:
\* a purchase is all or nothing, paid out of money the wallet has.
ImplementsCheckout == Abstract!Spec

-----------------------------------------------------------------------------
(* Why NeverOverdrawn and the others hold: an inductive invariant.         *)

\* The order row is written exactly while the transaction is open or after it.
TransactionIsPending ==
    \A r \in Requests : /\ pc[r] \in InTransaction <=> status[r] = "pending"
                        /\ pc[r] = "paid" <=> status[r] \in Committed

DiscountWithinSubtotal ==
    \A r \in Requests : /\ discount[r] <= subtotal[r]
                        /\ pc[r] \in {"idle", "price"} => discount[r] = 0

\* From reading the balance to the end of the transaction the wallet is held.
DebitUnderLock ==
    \A r \in Requests :
        pc[r] = "debit" \/ (pc[r] = "write" /\ Total(r) > 0) => walletLock[Buyer(r)] = r

\* The balance that was read still covers the debit: others may only add.
DebitIsCovered ==
    \A r \in Requests : pc[r] = "write" => balance[Buyer(r)] >= Total(r)

RefundsOfCommitted ==
    \A f \in Refunds : refundStatus[f] # "none" => status[refundOf[f]] \in Committed

\* The inductive invariant of WalletProofs: the lock of debitLocked
\* covers the balance from its reading to the COMMIT.
IInv ==
    /\ TypeOK
    /\ TransactionIsPending /\ DiscountWithinSubtotal /\ RefundsOfCommitted
    /\ DebitUnderLock /\ DebitIsCovered /\ NeverOverdrawn
    /\ OneOrderPerKey
    /\ AccessIsPaidFor /\ PaidKeepsAccess
=============================================================================
