------------------------------ MODULE Checkout ------------------------------
(***************************************************************************)
(* What the checkout promises to a buyer, without locks, transactions or   *)
(* intermediate states: a wallet is credited, an order is bought in one    *)
(* indivisible step that pays it in full out of money the wallet has and   *)
(* leaves every recipient with access, and a refund gives back exactly     *)
(* what was paid and takes the access that came from the order.            *)
(*                                                                         *)
(* It promises no bound on how often an order is refunded: the code has    *)
(* none: two requests for one order may both be approved.                  *)
(***************************************************************************)
EXTENDS Integers

CONSTANTS Users, Orders

VARIABLES
    buyer,      \* who pays each order
    goods,      \* the access rows each order is about
    wallet,     \* money of each user
    state,      \* "open", "paid" or "refunded"
    paid,       \* what was paid for the order
    access      \* access rows in force

vars == <<buyer, goods, wallet, state, paid, access>>

SameSlot(a, b) == a.owner = b.owner /\ a.edition = b.edition /\ a.origin = b.origin

Init ==
    /\ wallet = [u \in Users |-> 0]
    /\ state = [o \in Orders |-> "open"]
    /\ paid = [o \in Orders |-> 0]
    /\ access = {}

Credit(u) ==
    /\ wallet'[u] > wallet[u]
    /\ wallet' = [wallet EXCEPT ![u] = wallet'[u]]
    /\ UNCHANGED <<buyer, goods, state, paid, access>>

Buy(o) ==
    /\ state[o] = "open"
    /\ \E price \in 0..wallet[buyer[o]] :
          /\ wallet' = [wallet EXCEPT ![buyer[o]] = @ - price]
          /\ paid' = [paid EXCEPT ![o] = price]
    /\ state' = [state EXCEPT ![o] = "paid"]
    /\ access \subseteq access'
    /\ access' \subseteq access \cup goods[o]
    /\ \A g \in goods[o] : \E row \in access' : SameSlot(row, g)
    /\ UNCHANGED <<buyer, goods>>

Refund(o) ==
    /\ state[o] \in {"paid", "refunded"}
    /\ wallet' = [wallet EXCEPT ![buyer[o]] = @ + paid[o]]
    /\ state' = [state EXCEPT ![o] = "refunded"]
    /\ access' = {row \in access : row.source # o}
    /\ UNCHANGED <<buyer, goods, paid>>

Next ==
    \/ \E u \in Users : Credit(u)
    \/ \E o \in Orders : Buy(o) \/ Refund(o)

Spec == Init /\ [][Next]_vars
=============================================================================
