---------------------------- MODULE Subscription ----------------------------
(***************************************************************************)
(* Subscriptions paid from the wallet (commerce/service_access.go): the    *)
(* calls of Subscribe and Cancel, and the sweep ReconcileSubscriptions     *)
(* that renews what is due and then expires what is over.  The sweep is a  *)
(* job the scheduler enqueues every 15 minutes and asynq runs at least     *)
(* once, on any of ten workers: runs may overlap, stop half-way and be     *)
(* started again.  A call of Subscribe names the row it may create.        *)
(*                                                                         *)
(* There is one plan and a clock in hours.  A plan that costs nothing      *)
(* skips debitLocked, which would not have refused it.                     *)
(***************************************************************************)
EXTENDS Integers, FiniteSets

CONSTANTS
    Users, Calls, Jobs,
    Caller,             \* the user of each call
    Nobody,             \* no process, no subscription
    Price,              \* of one period
    Period,             \* hours a payment buys
    Lookahead, Grace, RetryAfter,   \* RenewalWindow
    Never,              \* last_renewal_attempt_at IS NULL
    Funds,              \* what each wallet holds at first
    MaxDowntime,        \* hours within which a sweep begins and finishes, or a call ends
    Horizon,            \* bound on the clock
    MaxFaults           \* bound on renewals that fail with an error

ASSUME CallerAssumption == Caller \in [Calls -> Users]
ASSUME NumberAssumption ==
    /\ {Price, Lookahead, Grace, RetryAfter, MaxDowntime, Horizon, MaxFaults} \subseteq Nat
    /\ Period \in Nat \ {0}
    /\ Funds \in [Users -> Nat]
    /\ Never \in Int /\ Never < -RetryAfter
\* A period is long against what may delay a renewal, and the grace window spans
\* the failures there may be, each at the price of a back-off and of the time to
\* the end of the next sweep (DefaultRenewalWindow: 1, 72 and 6 hours, and
\* periods of months).
ASSUME WindowAssumption ==
    /\ Period >= 2 * MaxDowntime + RetryAfter /\ Period > MaxDowntime + Lookahead
    /\ Grace + Lookahead >= MaxDowntime + MaxFaults * (MaxDowntime + RetryAfter)
ASSUME ProcessAssumption == IsFiniteSet(Jobs) /\ Calls \cap Jobs = {} /\ Nobody \notin Calls \cup Jobs

Procs == Calls \cup Jobs

VARIABLES
    now,            \* the clock of the database
    wallet,         \* SUM over the committed ledger
    lock,           \* holder of the wallet's advisory lock
    status, expires, autoRenew, attempt,    \* the rows
    started, paid,  \* history: when a row was created, debits that refer to it
    pc,             \* where a process is
    began,          \* now() of its transaction, or of its sweep
    target,         \* the row a process works on
    due,            \* what a sweep has listed and not yet tried
    lastSweep,      \* history: when the latest finished sweep began
    faults          \* history: renewals that failed with an error

rowVars   == <<status, expires, autoRenew, attempt, started, paid>>
procVars  == <<pc, began, target, due>>
clockVars == <<now, lastSweep, faults>>
vars == <<wallet, lock, rowVars, procVars, clockVars>>

\* What renewOne returned: nil, ErrInsufficientFunds or another error.
Marks == {"mark renewed", "mark unpaid", "mark failed"}

TypeOK ==
    /\ now \in 0..Horizon /\ lastSweep \in 0..Horizon /\ faults \in 0..MaxFaults
    /\ wallet \in [Users -> Int]
    /\ lock \in [Users -> Procs \cup {Nobody}]
    /\ status \in [Calls -> {"none", "active", "expired", "canceled"}]
    /\ expires \in [Calls -> Nat]
    /\ autoRenew \in [Calls -> BOOLEAN]
    /\ attempt \in [Calls -> {Never} \cup 0..Horizon]
    /\ started \in [Calls -> 0..Horizon]
    /\ paid \in [Calls -> Nat]
    /\ pc \in [Procs -> {"idle", "extend", "create", "write extend", "write create", "refused", "ok",
                         "sweep", "renew", "write renew"} \cup Marks]
    /\ began \in [Procs -> 0..Horizon]
    /\ target \in [Procs -> Calls \cup {Nobody}]
    /\ due \in [Jobs -> SUBSET Calls]

-----------------------------------------------------------------------------
Goto(p, l) == pc' = [pc EXCEPT ![p] = l]

Unlock(p) == lock' = [u \in Users |-> IF lock[u] = p THEN Nobody ELSE lock[u]]

\* GetActiveSubscriptionForUser at time t, before ORDER BY and LIMIT.
ActiveAt(u, t) == {s \in Calls : Caller[s] = u /\ status[s] = "active" /\ expires[s] > t}
ActiveOf(u) == ActiveAt(u, now)

IsLatest(s, S) == s \in S /\ \A t \in S : expires[t] <= expires[s]

\* The query this one replaced: only rows that are still active.
DueWhileActive == {s \in Calls : /\ autoRenew[s]
                                 /\ status[s] = "active"
                                 /\ expires[s] <= now + Lookahead
                                 /\ expires[s] > now - Grace
                                 /\ attempt[s] < now - RetryAfter}

\* ListSubscriptionsDueForRenewal.
Due == {s \in Calls : /\ autoRenew[s]
                      /\ status[s] \in {"active", "expired"}
                      /\ expires[s] <= now + Lookahead
                      /\ expires[s] > now - Grace
                      /\ attempt[s] < now - RetryAfter}

Init ==
    /\ now = 0 /\ lastSweep = 0 /\ faults = 0
    /\ wallet = Funds
    /\ lock = [u \in Users |-> Nobody]
    /\ status = [s \in Calls |-> "none"]
    /\ expires = [s \in Calls |-> 0]
    /\ autoRenew = [s \in Calls |-> FALSE]
    /\ attempt = [s \in Calls |-> Never]
    /\ started = [s \in Calls |-> 0]
    /\ paid = [s \in Calls |-> 0]
    /\ pc = [p \in Procs |-> "idle"]
    /\ began = [p \in Procs |-> 0]
    /\ target = [p \in Procs |-> Nobody]
    /\ due = [j \in Jobs |-> {}]

\* Subscribe: BEGIN, and the row that is active now decides: extend or create.
FindActive(c) ==
    /\ pc[c] = "idle"
    /\ \E s \in ActiveOf(Caller[c]) :
          /\ IsLatest(s, ActiveOf(Caller[c]))
          /\ target' = [target EXCEPT ![c] = s]
    /\ began' = [began EXCEPT ![c] = now]
    /\ Goto(c, "extend")
    /\ UNCHANGED <<wallet, lock, rowVars, due, clockVars>>

FindNone(c) ==
    /\ pc[c] = "idle"
    /\ ActiveOf(Caller[c]) = {}
    /\ target' = [target EXCEPT ![c] = c]
    /\ began' = [began EXCEPT ![c] = now]
    /\ Goto(c, "create")
    /\ UNCHANGED <<wallet, lock, rowVars, due, clockVars>>

\* The balance read without LockWallet.
PayUnlocked(p, u, from, to) ==
    /\ pc[p] = from
    /\ wallet[u] >= Price
    /\ Goto(p, to)
    /\ UNCHANGED <<wallet, lock, rowVars, began, target, due, clockVars>>

\* debitLocked: the wallet is locked, its balance read and found sufficient.
Pay(p, u, from, to) ==
    /\ pc[p] = from
    /\ lock[u] = Nobody
    /\ wallet[u] >= Price
    /\ lock' = [lock EXCEPT ![u] = p]
    /\ Goto(p, to)
    /\ UNCHANGED <<wallet, rowVars, began, target, due, clockVars>>

\* ErrInsufficientFunds: the transaction is rolled back.
CannotPay(p, u, from, to) ==
    /\ pc[p] = from
    /\ lock[u] = Nobody
    /\ wallet[u] < Price
    /\ Goto(p, to)
    /\ UNCHANGED <<wallet, lock, rowVars, began, target, due, clockVars>>

\* Writes of a transaction that has paid for row s.
Debit(p, s) ==
    /\ wallet' = [wallet EXCEPT ![Caller[s]] = @ - Price]
    /\ paid' = [paid EXCEPT ![s] = @ + 1]
    /\ Unlock(p)

\* ExtendSubscription writes the row whatever its status; then the active row
\* is read again, and if there is none the transaction is rolled back.
StillActive(c) ==
    \/ status[target[c]] = "active"
    \/ ActiveAt(Caller[c], began[c]) # {}

CommitExtend(c) ==
    /\ pc[c] = "write extend"
    /\ StillActive(c)
    /\ Debit(c, target[c])
    /\ expires' = [expires EXCEPT ![target[c]] = @ + Period]
    /\ Goto(c, "ok")
    /\ UNCHANGED <<status, autoRenew, attempt, started, began, target, due, clockVars>>

RollBackExtend(c) ==
    /\ pc[c] = "write extend"
    /\ ~ StillActive(c)
    /\ Unlock(c)
    /\ Goto(c, "refused")
    /\ UNCHANGED <<wallet, rowVars, began, target, due, clockVars>>

CommitCreate(c, auto) ==
    /\ pc[c] = "write create"
    /\ Debit(c, c)
    /\ status' = [status EXCEPT ![c] = "active"]
    /\ expires' = [expires EXCEPT ![c] = began[c] + Period]
    /\ autoRenew' = [autoRenew EXCEPT ![c] = auto]
    /\ started' = [started EXCEPT ![c] = began[c]]
    /\ Goto(c, "ok")
    /\ UNCHANGED <<attempt, began, target, due, clockVars>>

InCall == {"extend", "create", "write extend", "write create"}

AbortCall(c) ==
    /\ pc[c] \in InCall
    /\ Unlock(c)
    /\ Goto(c, "refused")
    /\ UNCHANGED <<wallet, rowVars, began, target, due, clockVars>>

\* The handler of Cancel reads the active row, and that may be long past when
\* it cancels the row it read: any row that still is active may be the one.
Cancel(s) ==
    /\ status[s] = "active"
    /\ status' = [status EXCEPT ![s] = "canceled"]
    /\ autoRenew' = [autoRenew EXCEPT ![s] = FALSE]
    /\ UNCHANGED <<wallet, lock, expires, attempt, started, paid, procVars, clockVars>>

-----------------------------------------------------------------------------
\* ReconcileSubscriptions.
List(j) ==
    /\ pc[j] = "idle"
    /\ due' = [due EXCEPT ![j] = Due]
    /\ began' = [began EXCEPT ![j] = now]
    /\ Goto(j, "sweep")
    /\ UNCHANGED <<wallet, lock, rowVars, target, clockVars>>

\* renewOne of the next row (the order of expires_at is left open): the row is
\* read again for its owner and plan, not for its status or its time.
Renew(j) ==
    /\ pc[j] = "sweep"
    /\ \E s \in due[j] : target' = [target EXCEPT ![j] = s]
    /\ due' = [due EXCEPT ![j] = @ \ {target'[j]}]
    /\ Goto(j, "renew")
    /\ UNCHANGED <<wallet, lock, rowVars, began, clockVars>>

\* Without ReactivateSubscription.
CommitRenewAsleep(j) ==
    /\ pc[j] = "write renew"
    /\ Debit(j, target[j])
    /\ expires' = [expires EXCEPT ![target[j]] = @ + Period]
    /\ Goto(j, "mark renewed")
    /\ UNCHANGED <<status, autoRenew, attempt, started, began, target, due, clockVars>>

\* ExtendSubscription, ReactivateSubscription (of an expired row), COMMIT.
CommitRenew(j) ==
    /\ pc[j] = "write renew"
    /\ Debit(j, target[j])
    /\ expires' = [expires EXCEPT ![target[j]] = @ + Period]
    /\ status' = [status EXCEPT ![target[j]] = IF @ = "expired" THEN "active" ELSE @]
    /\ Goto(j, "mark renewed")
    /\ UNCHANGED <<autoRenew, attempt, started, began, target, due, clockVars>>

\* Any other error of renewOne: rolled back, counted as failed, and marked.
FailRenew(j) ==
    /\ pc[j] \in {"renew", "write renew"}
    /\ faults < MaxFaults
    /\ faults' = faults + 1
    /\ Unlock(j)
    /\ Goto(j, "mark failed")
    /\ UNCHANGED <<wallet, rowVars, began, target, due, now, lastSweep>>

\* MarkRenewalAttempt, whatever the outcome.
MarkAttempt(j) ==
    /\ pc[j] \in Marks
    /\ attempt' = [attempt EXCEPT ![target[j]] = now]
    /\ target' = [target EXCEPT ![j] = Nobody]
    /\ Goto(j, "sweep")
    /\ UNCHANGED <<wallet, lock, status, expires, autoRenew, started, paid, began, due, clockVars>>

\* ExpireDueSubscriptions ends the sweep.
Expire(j) ==
    /\ pc[j] = "sweep"
    /\ due[j] = {}
    /\ status' = [s \in Calls |-> IF status[s] = "active" /\ expires[s] <= now
                                  THEN "expired" ELSE status[s]]
    /\ lastSweep' = IF began[j] > lastSweep THEN began[j] ELSE lastSweep
    /\ began' = [began EXCEPT ![j] = 0]
    /\ Goto(j, "idle")
    /\ UNCHANGED <<wallet, lock, expires, autoRenew, attempt, started, paid, target, due, now, faults>>

\* The worker dies; asynq runs the job again.
CrashJob(j) ==
    /\ pc[j] # "idle"
    /\ Unlock(j)
    /\ Goto(j, "idle")
    /\ due' = [due EXCEPT ![j] = {}]
    /\ began' = [began EXCEPT ![j] = 0]
    /\ target' = [target EXCEPT ![j] = Nobody]
    /\ UNCHANGED <<wallet, rowVars, clockVars>>

\* Sweeps that finish never begin further apart than MaxDowntime, and no sweep
\* or call is longer at work than that: asynq cuts a job off after half an hour,
\* a request has a timeout.
Tick ==
    /\ now < Horizon
    /\ now < lastSweep + MaxDowntime
    /\ \A j \in Jobs : pc[j] # "idle" => now < began[j] + MaxDowntime
    /\ \A c \in Calls : pc[c] \in InCall => now < began[c] + MaxDowntime
    /\ now' = now + 1
    /\ UNCHANGED <<wallet, lock, rowVars, procVars, lastSweep, faults>>

Subscribe(c) ==
    \/ FindActive(c) \/ FindNone(c)
    \/ Pay(c, Caller[c], "extend", "write extend") \/ CannotPay(c, Caller[c], "extend", "refused")
    \/ Pay(c, Caller[c], "create", "write create") \/ CannotPay(c, Caller[c], "create", "refused")
    \/ CommitExtend(c) \/ RollBackExtend(c)
    \/ \E auto \in BOOLEAN : CommitCreate(c, auto)
    \/ AbortCall(c)

Sweep(j) ==
    \/ List(j) \/ Renew(j)
    \/ target[j] # Nobody /\ (\/ Pay(j, Caller[target[j]], "renew", "write renew")
                              \/ CannotPay(j, Caller[target[j]], "renew", "mark unpaid"))
    \/ CommitRenew(j) \/ FailRenew(j) \/ MarkAttempt(j) \/ Expire(j) \/ CrashJob(j)

Next ==
    \/ \E c \in Calls : Subscribe(c) \/ Cancel(c)
    \/ \E j \in Jobs : Sweep(j)
    \/ Tick

Spec == Init /\ [][Next]_vars

-----------------------------------------------------------------------------
\* Calls and sweeps meet at the wallet's lock: none overdraws it, and a row's
\* time is what was paid for it, no more and no less, wherever a transaction
\* stopped or a sweep was started again (renewOne).
TimeIsPaidFor ==
    /\ \A u \in Users : wallet[u] >= 0
    /\ \A s \in Calls : expires[s] = started[s] + Period * paid[s]

\* ReconcileSubscriptions renews before it expires and reaches back: a subscriber who asked
\* for renewal and can pay is never further behind than a missed sweep, a
\* failed attempt and its back-off, so never beyond the grace window.
NotLost ==
    \A s \in Calls :
        /\ status[s] \in {"active", "expired"} /\ autoRenew[s]
        /\ wallet[Caller[s]] >= Price
        => now < expires[s] + Grace

\* "Without this the user has paid and still has no access" (renewOne): a row
\* that is expired has no paid time left, unless the user had another row at
\* the time (a call may then extend a row that has just expired: StillActive).
HadAnother(s) ==
    \E t \in Calls \ {s} :
        Caller[t] = Caller[s] /\ status[t] # "none" /\ started[t] <= expires[s]

ExpiredMeansOver ==
    \A s \in Calls : status[s] = "expired" /\ ~ HadAnother(s) => expires[s] <= now
=============================================================================
