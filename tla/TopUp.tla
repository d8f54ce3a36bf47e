------------------------------- MODULE TopUp -------------------------------
(***************************************************************************)
(* Charging the wallet through a payment gateway (commerce/service.go,     *)
(* StartTopUp and SettleTopUp): the gateway registers a payment, the user  *)
(* pays there, and the gateway calls back, more than once and at any time. *)
(* Each callback is an HTTP request of its own; callbacks for one payment  *)
(* run side by side and meet at the payment's row.                         *)
(***************************************************************************)
EXTENDS Naturals

CONSTANTS
    Payments,       \* payments, by their authority
    Callbacks,      \* calls of the gateway
    Nobody

ASSUME NobodyAssumption == Nobody \notin Callbacks

VARIABLES
    gateway,        \* external: what the gateway knows of the authority
    row,            \* status of the payment's row
    credits,        \* ledger rows that refer to the payment
    rowLock,        \* the callback that holds the row, FOR UPDATE
    callback,       \* where a callback is
    of              \* the payment a callback is about

topUpVars == <<gateway, row, credits, rowLock, callback, of>>

callbackVars == <<rowLock, callback, of>>

TopUpTypeOK ==
    /\ gateway \in [Payments -> {"unknown", "registered", "paid"}]
    /\ row \in [Payments -> {"none", "pending", "succeeded", "failed"}]
    /\ credits \in [Payments -> Nat]
    /\ rowLock \in [Payments -> Callbacks \cup {Nobody}]
    /\ callback \in [Callbacks -> {"idle", "verify", "reject", "lock", "settle",
                             "ok", "refused", "notfound", "dead"}]
    /\ of \in [Callbacks -> Payments]

Answered == {"ok", "refused", "notfound"}

Move(c, l) == callback' = [callback EXCEPT ![c] = l]

Release(c) == rowLock' = [p \in Payments |-> IF rowLock[p] = c THEN Nobody ELSE rowLock[p]]

-----------------------------------------------------------------------------
TopUpInit ==
    /\ gateway = [p \in Payments |-> "unknown"]
    /\ row = [p \in Payments |-> "none"]
    /\ credits = [p \in Payments |-> 0]
    /\ rowLock = [p \in Payments |-> Nobody]
    /\ callback = [c \in Callbacks |-> "idle"]
    /\ of \in [Callbacks -> Payments]

\* StartTopUp within the bounds of the amount: provider.Start, and only then
\* CreatePayment.  A crash between the two leaves an authority without a row.
RegisterAtGateway(p) ==
    /\ gateway[p] = "unknown"
    /\ gateway' = [gateway EXCEPT ![p] = "registered"]
    /\ UNCHANGED <<row, credits, callbackVars>>

CreatePayment(p) ==
    /\ gateway[p] = "registered"
    /\ row[p] = "none"
    /\ row' = [row EXCEPT ![p] = "pending"]
    /\ UNCHANGED <<gateway, credits, callbackVars>>

\* The user is sent to the gateway when StartTopUp has answered.
UserPays(p) ==
    /\ gateway[p] = "registered"
    /\ row[p] # "none"
    /\ gateway' = [gateway EXCEPT ![p] = "paid"]
    /\ UNCHANGED <<row, credits, callbackVars>>

\* Mutant: every settled payment is answered from its row.
LookupSettled(c) ==
    /\ callback[c] = "idle"
    /\ Move(c, CASE row[of[c]] = "none" -> "notfound"
                 [] row[of[c]] = "pending" -> "verify"
                 [] OTHER -> "ok")
    /\ UNCHANGED <<gateway, row, credits, rowLock, of>>

\* GetPaymentByAuthority, and the answer for a payment settled before.
Lookup(c) ==
    /\ callback[c] = "idle"
    /\ Move(c, CASE row[of[c]] = "none" -> "notfound"
                 [] row[of[c]] = "succeeded" -> "ok"
                 [] OTHER -> "verify")
    /\ UNCHANGED <<gateway, row, credits, rowLock, of>>

\* provider.Verify asks the gateway; the answer may be late, or an error.
VerifyPaid(c) ==
    /\ callback[c] = "verify"
    /\ gateway[of[c]] = "paid"
    /\ Move(c, "lock")
    /\ UNCHANGED <<gateway, row, credits, rowLock, of>>

VerifyNotPaid(c) ==
    /\ callback[c] = "verify"
    /\ gateway[of[c]] # "paid"
    /\ Move(c, "reject")
    /\ UNCHANGED <<gateway, row, credits, rowLock, of>>

\* err # nil takes the same branch as "not paid".
VerifyError(c) ==
    /\ callback[c] = "verify"
    /\ Move(c, "reject")
    /\ UNCHANGED <<gateway, row, credits, rowLock, of>>

\* MarkPaymentFailed writes a pending row only, and waits for its lock.
MarkPaymentFailed(c) ==
    /\ callback[c] = "reject"
    /\ rowLock[of[c]] = Nobody
    /\ row' = [row EXCEPT ![of[c]] = IF @ = "pending" THEN "failed" ELSE @]
    /\ Move(c, "refused")
    /\ UNCHANGED <<gateway, credits, rowLock, of>>

\* BEGIN, LockPaymentForSettlement: the row is held to the end.
LockPayment(c) ==
    /\ callback[c] = "lock"
    /\ rowLock[of[c]] = Nobody
    /\ row[of[c]] # "succeeded"
    /\ rowLock' = [rowLock EXCEPT ![of[c]] = c]
    /\ Move(c, "settle")
    /\ UNCHANGED <<gateway, row, credits, of>>

\* Under the lock another callback turns out to have settled the payment.
AlreadySettled(c) ==
    /\ callback[c] = "lock"
    /\ rowLock[of[c]] = Nobody
    /\ row[of[c]] = "succeeded"
    /\ Move(c, "ok")
    /\ UNCHANGED <<gateway, row, credits, rowLock, of>>

\* The credit, MarkPaymentSucceeded (from pending only), COMMIT.
Settle(c) ==
    /\ callback[c] = "settle"
    /\ row[of[c]] = "pending"
    /\ credits' = [credits EXCEPT ![of[c]] = @ + 1]
    /\ row' = [row EXCEPT ![of[c]] = "succeeded"]
    /\ Release(c)
    /\ Move(c, "ok")
    /\ UNCHANGED <<gateway, of>>

\* Mutants: the error is ignored and the credit committed; the transaction is
\* left open.
SettleFailedCommits(c) ==
    /\ callback[c] = "settle"
    /\ row[of[c]] # "pending"
    /\ credits' = [credits EXCEPT ![of[c]] = @ + 1]
    /\ Release(c)
    /\ Move(c, "refused")
    /\ UNCHANGED <<gateway, row, of>>

SettleFailedKeepsLock(c) ==
    /\ callback[c] = "settle"
    /\ row[of[c]] # "pending"
    /\ Move(c, "refused")
    /\ UNCHANGED <<gateway, row, credits, rowLock, of>>

\* MarkPaymentSucceeded finds no pending row: ErrPaymentAlreadySettled, and the
\* credit goes with the rollback.
SettleFailed(c) ==
    /\ callback[c] = "settle"
    /\ row[of[c]] # "pending"
    /\ Release(c)
    /\ Move(c, "refused")
    /\ UNCHANGED <<gateway, row, credits, of>>

\* The process dies, or a statement fails, with an open transaction or without.
Crash(c) ==
    /\ callback[c] \in {"verify", "reject", "lock", "settle"}
    /\ Release(c)
    /\ Move(c, "dead")
    /\ UNCHANGED <<gateway, row, credits, of>>

Handle(c) ==
    \/ VerifyPaid(c) \/ VerifyNotPaid(c) \/ VerifyError(c) \/ MarkPaymentFailed(c)
    \/ LockPayment(c) \/ AlreadySettled(c) \/ Settle(c) \/ SettleFailed(c)

TopUpNext ==
    \/ \E p \in Payments : RegisterAtGateway(p) \/ CreatePayment(p) \/ UserPays(p)
    \/ \E c \in Callbacks : Lookup(c) \/ Handle(c) \/ Crash(c)

TopUpSpec == TopUpInit /\ [][TopUpNext]_topUpVars

\* A callback that was accepted keeps running.
FairTopUp == TopUpSpec /\ \A c \in Callbacks : WF_topUpVars(Handle(c))

-----------------------------------------------------------------------------
\* "credits the wallet exactly once": however many callbacks run side by side,
\* a payment has one ledger row if it succeeded and none otherwise, and it
\* never has one the gateway was not paid for.
CreditedOnce ==
    \A p \in Payments :
        /\ credits[p] = IF row[p] = "succeeded" THEN 1 ELSE 0
        /\ credits[p] > 0 => gateway[p] = "paid"

\* The answer given to a callback is true: "ok" is only said of money that is
\* in the wallet.
OkMeansCredited == \A c \in Callbacks : callback[c] = "ok" => credits[of[c]] = 1

\* A settled payment is never settled again, one way or the other.
SettledForGood ==
    [][\A p \in Payments : row[p] \in {"succeeded", "failed"} => row'[p] = row[p]]_topUpVars

\* No callback waits for the row of its payment for ever.
EveryCallbackEnds ==
    \A c \in Callbacks : callback[c] \in {"verify", "reject", "lock", "settle"} ~>
                         callback[c] \in Answered \cup {"dead"}

\* The row lock of LockPaymentForSettlement: from reading the status to the end
\* of the transaction the row is held, and the gateway has confirmed.
SettlesUnderLock ==
    /\ \A p \in Payments : gateway[p] = "paid" => row[p] # "none"
    /\ \A c \in Callbacks : /\ callback[c] = "settle" => rowLock[of[c]] = c
                            /\ callback[c] \in {"lock", "settle"} => gateway[of[c]] = "paid"

-----------------------------------------------------------------------------
\* The inductive invariant of WalletProofs.
TopUpInv == TopUpTypeOK /\ SettlesUnderLock /\ CreditedOnce /\ OkMeansCredited
=============================================================================
