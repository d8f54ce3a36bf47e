------------------------- MODULE SubscriptionProofs -------------------------
(***************************************************************************)
(* Theorems of Subscription: for any users, calls and sweeps, any prices   *)
(* and periods, and any number of failures the grace window spans.         *)
(***************************************************************************)
EXTENDS Subscription, FiniteSetTheorems, TLAPS

USE CallerAssumption, ProcessAssumption

LEMMA Numbers ==
    /\ Price \in Nat /\ Period \in Nat /\ Lookahead \in Nat /\ Grace \in Nat /\ RetryAfter \in Nat
    /\ MaxDowntime \in Nat /\ Horizon \in Nat /\ MaxFaults \in Nat
    /\ Never \in Int /\ Never < -RetryAfter /\ Funds \in [Users -> Nat]
BY NumberAssumption

\* Where a process is and the row it works on belong together.
InJob == {"sweep", "renew", "write renew"} \cup Marks

CallAt(c) ==
    /\ pc[c] \in {"idle", "refused", "ok"} \cup InCall
    /\ pc[c] \in {"extend", "write extend"} =>
          target[c] \in Calls /\ status[target[c]] # "none" /\ Caller[target[c]] = Caller[c]
    /\ pc[c] \in {"create", "write create"} => target[c] = c

JobAt(j) ==
    /\ pc[j] \in {"idle"} \cup InJob
    /\ pc[j] \in {"renew", "write renew"} \cup Marks => target[j] \in Calls /\ status[target[j]] # "none"
    /\ pc[j] \in {"idle", "sweep"} => target[j] = Nobody
    /\ \A s \in due[j] : status[s] # "none"

TargetsExist == (\A c \in Calls : CallAt(c)) /\ (\A j \in Jobs : JobAt(j))

\* A call writes the row it names once, when it commits.
RowsAreNew ==
    /\ \A c \in Calls : pc[c] \in {"idle"} \cup InCall => status[c] = "none"
    /\ \A s \in Calls : status[s] = "none" => /\ expires[s] = 0 /\ started[s] = 0 /\ paid[s] = 0
                                              /\ attempt[s] = Never /\ ~ autoRenew[s]

\* From the reading of the balance to the COMMIT the wallet is locked, and only then.
Paying(p) == pc[p] \in {"write extend", "write create", "write renew"}
Payer(p) == Caller[target[p]]

PaysUnderLock ==
    /\ \A p \in Procs : Paying(p) => lock[Payer(p)] = p /\ wallet[Payer(p)] >= Price
    /\ \A u \in Users : lock[u] # Nobody => Paying(lock[u]) /\ Payer(lock[u]) = u

MoneyInv == TypeOK /\ TargetsExist /\ RowsAreNew /\ PaysUnderLock /\ TimeIsPaidFor

-----------------------------------------------------------------------------
\* Nothing runs for longer than MaxDowntime.
ClocksAreClose ==
    /\ lastSweep <= now /\ now <= lastSweep + MaxDowntime
    /\ \A j \in Jobs : pc[j] # "idle" => began[j] <= now /\ now <= began[j] + MaxDowntime
    /\ \A c \in Calls : pc[c] \in InCall => began[c] <= now /\ now <= began[c] + MaxDowntime
    /\ \A s \in Calls : started[s] <= now

\* What a call extends had time left when the call began.
ExtendsWhatWasActive ==
    \A c \in Calls : pc[c] \in {"extend", "write extend"} => began[c] < expires[target[c]]

ExpiryInv == MoneyInv /\ ClocksAreClose /\ ExtendsWhatWasActive /\ ExpiredMeansOver

-----------------------------------------------------------------------------
\* Rows whose owner wants them renewed and can pay.
Wanted(s) == status[s] \in {"active", "expired"} /\ autoRenew[s] /\ wallet[Caller[s]] >= Price

\* Sweeps that failed to renew a row and have not yet marked the attempt.
Unmarked(s) == {j \in Jobs : pc[j] = "mark failed" /\ target[j] = s}

\* What a failure may cost: the back-off, and the time to the end of the next sweep.
Delay == MaxDowntime + RetryAfter
Level(s) == faults - Cardinality(Unmarked(s))

\* The latest time at which a sweep that leaves row s as it is may have begun.
Latest(s) == expires[s] - Lookahead - 1 + Level(s) * Delay

ServedBy(j, s) ==
    /\ pc[j] # "idle" => s \in due[j] \/ target[j] = s \/ began[j] <= Latest(s)
    /\ pc[j] = "mark renewed" /\ target[j] = s => began[j] + Delay <= Latest(s)
    /\ pc[j] = "mark unpaid" => target[j] # s

Served(s) ==
    /\ lastSweep <= Latest(s)
    /\ attempt[s] # Never => attempt[s] + RetryAfter <= Latest(s)
    /\ \A j \in Jobs : ServedBy(j, s)

InTime(s) == Cardinality(Unmarked(s)) <= faults /\ (Wanted(s) => Served(s))

SweepsAreInTime == \A s \in Calls : InTime(s)

RenewalInv == ExpiryInv /\ SweepsAreInTime

-----------------------------------------------------------------------------
(* Types. *)
Labels == {"idle", "extend", "create", "write extend", "write create", "refused", "ok",
           "sweep", "renew", "write renew"} \cup Marks

ClocksTyped == now \in 0..Horizon /\ lastSweep \in 0..Horizon /\ faults \in 0..MaxFaults
MoneyTyped  == wallet \in [Users -> Int] /\ lock \in [Users -> Procs \cup {Nobody}]
TimesTyped  == expires \in [Calls -> Nat] /\ started \in [Calls -> 0..Horizon] /\ paid \in [Calls -> Nat]
FlagsTyped  == /\ status \in [Calls -> {"none", "active", "expired", "canceled"}]
               /\ autoRenew \in [Calls -> BOOLEAN]
               /\ attempt \in [Calls -> {Never} \cup 0..Horizon]
PlacesTyped == pc \in [Procs -> Labels]
WorkTyped   == /\ began \in [Procs -> 0..Horizon]
               /\ target \in [Procs -> Calls \cup {Nobody}]
               /\ due \in [Jobs -> SUBSET Calls]

LEMMA TypeParts ==
    TypeOK <=> ClocksTyped /\ MoneyTyped /\ TimesTyped /\ FlagsTyped /\ PlacesTyped /\ WorkTyped
BY DEF TypeOK, Labels, ClocksTyped, MoneyTyped, TimesTyped, FlagsTyped, PlacesTyped, WorkTyped

LEMMA TypePartsNext ==
    ClocksTyped' /\ MoneyTyped' /\ TimesTyped' /\ FlagsTyped' /\ PlacesTyped' /\ WorkTyped' => TypeOK'
BY DEF TypeOK, Labels, ClocksTyped, MoneyTyped, TimesTyped, FlagsTyped, PlacesTyped, WorkTyped

LEMMA LabelsAre ==
    /\ {"idle", "extend", "create", "write extend", "write create", "refused", "ok",
        "sweep", "renew", "write renew", "mark renewed", "mark unpaid", "mark failed"} \subseteq Labels
    /\ Calls \subseteq Procs /\ Jobs \subseteq Procs
BY DEF Labels, Marks, Procs

LEMMA PcTyped ==
    ASSUME PlacesTyped, NEW p \in Procs, NEW l \in Labels, Goto(p, l)
    PROVE  PlacesTyped'
BY DEF PlacesTyped, Goto

LEMMA UnlockTyped ==
    ASSUME MoneyTyped, NEW p, Unlock(p)
    PROVE  lock' \in [Users -> Procs \cup {Nobody}]
BY DEF MoneyTyped, Unlock

LEMMA DebitTyped ==
    ASSUME MoneyTyped, TimesTyped, NEW p, NEW s \in Calls, Debit(p, s)
    PROVE  MoneyTyped' /\ paid' \in [Calls -> Nat]
<1>1. Caller[s] \in Users /\ Price \in Nat
  BY Numbers
<1>2. lock' \in [Users -> Procs \cup {Nobody}]
  BY UnlockTyped DEF Debit
<1>3. wallet' \in [Users -> Int] /\ paid' \in [Calls -> Nat]
  BY <1>1 DEF Debit, MoneyTyped, TimesTyped
<1> QED
  BY <1>2, <1>3 DEF MoneyTyped

LEMMA CallTypes ==
    ASSUME TypeOK, TargetsExist, NEW c \in Calls, Subscribe(c)
    PROVE  TypeOK'
<1>0. /\ ClocksTyped /\ MoneyTyped /\ TimesTyped /\ FlagsTyped /\ PlacesTyped /\ WorkTyped
      /\ c \in Procs /\ Calls \subseteq Procs
  BY TypeParts, LabelsAre
<1>1. PlacesTyped'
  BY <1>0, PcTyped, LabelsAre DEF Subscribe, FindActive, FindNone, Pay, CannotPay, CommitExtend, RollBackExtend, CommitCreate, AbortCall
<1>2. ClocksTyped'
  BY <1>0 DEF ClocksTyped, Subscribe, FindActive, FindNone, Pay, CannotPay, CommitExtend, RollBackExtend, CommitCreate, AbortCall, clockVars
<1>3. WorkTyped'
  <2>1. CASE FindActive(c)
    <3>1. PICK s \in Calls : target' = [target EXCEPT ![c] = s]
      BY <2>1 DEF FindActive, ActiveOf, ActiveAt
    <3>2. now \in 0..Horizon
      BY <1>0 DEF ClocksTyped
    <3> QED
      BY <1>0, <2>1, <3>1, <3>2 DEF FindActive, WorkTyped
  <2>2. CASE FindNone(c)
    <3>1. now \in 0..Horizon
      BY <1>0 DEF ClocksTyped
    <3> QED
      BY <1>0, <2>2, <3>1 DEF FindNone, WorkTyped
  <2>3. CASE UNCHANGED <<began, target, due>>
    BY <1>0, <2>3 DEF WorkTyped
  <2> QED
    BY <2>1, <2>2, <2>3 DEF Subscribe, FindActive, FindNone, Pay, CannotPay, CommitExtend, RollBackExtend, CommitCreate, AbortCall
<1>4. CASE CommitExtend(c)
  <2>1. target[c] \in Calls
    BY <1>4 DEF TargetsExist, CallAt, CommitExtend
  <2>2. MoneyTyped' /\ paid' \in [Calls -> Nat]
    BY <1>0, <1>4, <2>1, DebitTyped DEF CommitExtend
  <2>3. TimesTyped'
    <3>1. expires[target[c]] + Period \in Nat
      BY <1>0, <2>1, Numbers DEF TimesTyped
    <3>2. expires' \in [Calls -> Nat] /\ started' = started
      BY <1>0, <1>4, <2>1, <3>1 DEF CommitExtend, TimesTyped
    <3> QED
      BY <1>0, <2>2, <3>2 DEF TimesTyped
  <2>4. FlagsTyped'
    BY <1>0, <1>4 DEF CommitExtend, FlagsTyped
  <2> QED
    BY <1>1, <1>2, <1>3, <2>2, <2>3, <2>4, TypePartsNext
<1>5. CASE \E auto \in BOOLEAN : CommitCreate(c, auto)
  <2>1. PICK auto \in BOOLEAN : CommitCreate(c, auto)
    BY <1>5
  <2>2. MoneyTyped' /\ paid' \in [Calls -> Nat]
    BY <1>0, <2>1, DebitTyped DEF CommitCreate
  <2>3. began[c] \in 0..Horizon /\ began[c] + Period \in Nat
    BY <1>0, Numbers DEF WorkTyped
  <2>4. TimesTyped'
    BY <1>0, <2>1, <2>2, <2>3 DEF CommitCreate, TimesTyped
  <2>5. FlagsTyped'
    BY <1>0, <2>1 DEF CommitCreate, FlagsTyped
  <2> QED
    BY <1>1, <1>2, <1>3, <2>2, <2>4, <2>5, TypePartsNext
<1>6. CASE ~ CommitExtend(c) /\ ~ \E auto \in BOOLEAN : CommitCreate(c, auto)
  <2>1. UNCHANGED <<wallet, expires, started, paid, status, autoRenew, attempt>>
    BY <1>6 DEF Subscribe, FindActive, FindNone, Pay, CannotPay, CommitExtend, RollBackExtend, CommitCreate, AbortCall, rowVars
  <2>2. MoneyTyped'
    <3>1. CASE Unlock(c)
      BY <1>0, <2>1, <3>1, UnlockTyped DEF MoneyTyped
    <3>2. CASE lock' = [lock EXCEPT ![Caller[c]] = c]
      BY <1>0, <2>1, <3>2 DEF MoneyTyped
    <3>3. CASE lock' = lock
      BY <1>0, <2>1, <3>3 DEF MoneyTyped
    <3> QED
      BY <1>6, <3>1, <3>2, <3>3 DEF Subscribe, FindActive, FindNone, Pay, CannotPay, CommitExtend, RollBackExtend, CommitCreate, AbortCall
  <2>3. TimesTyped' /\ FlagsTyped'
    BY <1>0, <2>1 DEF TimesTyped, FlagsTyped
  <2> QED
    BY <1>1, <1>2, <1>3, <2>2, <2>3, TypePartsNext
<1> QED
  BY <1>4, <1>5, <1>6

LEMMA SweepTypes ==
    ASSUME TypeOK, TargetsExist, NEW j \in Jobs, Sweep(j)
    PROVE  TypeOK'
<1>0. /\ ClocksTyped /\ MoneyTyped /\ TimesTyped /\ FlagsTyped /\ PlacesTyped /\ WorkTyped
      /\ j \in Procs
  BY TypeParts, LabelsAre
<1>1. PlacesTyped'
  BY <1>0, PcTyped, LabelsAre DEF Sweep, List, Renew, Pay, CannotPay, CommitRenew, FailRenew, MarkAttempt, Expire, CrashJob
<1>2. ClocksTyped'
  <2>1. CASE Expire(j)
    <3>1. began[j] \in 0..Horizon
      BY <1>0 DEF WorkTyped
    <3> QED
      BY <1>0, <2>1, <3>1 DEF Expire, ClocksTyped
  <2>2. CASE FailRenew(j)
    <3>1. faults \in 0..MaxFaults /\ faults < MaxFaults
      BY <1>0, <2>2 DEF FailRenew, ClocksTyped
    <3>2. faults + 1 \in 0..MaxFaults
      BY <3>1, Numbers
    <3> QED
      BY <1>0, <2>2, <3>2 DEF FailRenew, ClocksTyped
  <2>3. CASE ~ Expire(j) /\ ~ FailRenew(j)
    BY <1>0, <2>3 DEF ClocksTyped, Sweep, List, Renew, Pay, CannotPay, CommitRenew, FailRenew, MarkAttempt, Expire, CrashJob, clockVars
  <2> QED
    BY <2>1, <2>2, <2>3
<1>3. WorkTyped'
  <2>1. CASE List(j)
    <3>1. now \in 0..Horizon /\ Due \in SUBSET Calls
      BY <1>0 DEF ClocksTyped, Due
    <3> QED
      BY <1>0, <2>1, <3>1 DEF List, WorkTyped
  <2>2. CASE Renew(j)
    <3>1. PICK s \in Calls : s \in due[j] /\ target' = [target EXCEPT ![j] = s]
      BY <1>0, <2>2 DEF Renew, WorkTyped
    <3>2. due[j] \ {target'[j]} \in SUBSET Calls
      BY <1>0 DEF WorkTyped
    <3> QED
      BY <1>0, <2>2, <3>1, <3>2 DEF Renew, WorkTyped
  <2>3. CASE MarkAttempt(j)
    BY <1>0, <2>3 DEF MarkAttempt, WorkTyped
  <2>4. CASE Expire(j) \/ CrashJob(j)
    <3>1. 0 \in 0..Horizon
      BY Numbers
    <3> QED
      BY <1>0, <2>4, <3>1 DEF Expire, CrashJob, WorkTyped
  <2>5. CASE UNCHANGED <<began, target, due>>
    BY <1>0, <2>5 DEF WorkTyped
  <2> QED
    BY <2>1, <2>2, <2>3, <2>4, <2>5 DEF Sweep, List, Renew, Pay, CannotPay, CommitRenew, FailRenew, MarkAttempt, Expire, CrashJob
<1>4. CASE CommitRenew(j)
  <2>1. target[j] \in Calls
    BY <1>4 DEF TargetsExist, JobAt, CommitRenew
  <2>2. MoneyTyped' /\ paid' \in [Calls -> Nat]
    BY <1>0, <1>4, <2>1, DebitTyped DEF CommitRenew
  <2>3. TimesTyped'
    <3>1. expires[target[j]] + Period \in Nat
      BY <1>0, <2>1, Numbers DEF TimesTyped
    <3>2. expires' \in [Calls -> Nat] /\ started' = started
      BY <1>0, <1>4, <2>1, <3>1 DEF CommitRenew, TimesTyped
    <3> QED
      BY <1>0, <2>2, <3>2 DEF TimesTyped
  <2>4. FlagsTyped'
    BY <1>0, <1>4, <2>1 DEF CommitRenew, FlagsTyped
  <2> QED
    BY <1>1, <1>2, <1>3, <2>2, <2>3, <2>4, TypePartsNext
<1>5. CASE ~ CommitRenew(j)
  <2>1. UNCHANGED <<wallet, expires, started, paid, autoRenew>>
    BY <1>5 DEF Sweep, List, Renew, Pay, CannotPay, CommitRenew, FailRenew, MarkAttempt, Expire, CrashJob, rowVars
  <2>2. FlagsTyped'
    <3>1. CASE Expire(j)
      BY <1>0, <3>1 DEF Expire, FlagsTyped
    <3>2. CASE MarkAttempt(j)
      <4>1. target[j] \in Calls /\ now \in 0..Horizon
        BY <1>0, <3>2 DEF TargetsExist, JobAt, MarkAttempt, ClocksTyped
      <4> QED
        BY <1>0, <3>2, <4>1 DEF MarkAttempt, FlagsTyped
    <3>3. CASE ~ Expire(j) /\ ~ MarkAttempt(j)
      BY <1>0, <1>5, <3>3 DEF FlagsTyped, Sweep, List, Renew, Pay, CannotPay, CommitRenew, FailRenew, MarkAttempt, Expire, CrashJob, rowVars
    <3> QED
      BY <3>1, <3>2, <3>3
  <2>3. MoneyTyped'
    <3>1. CASE Unlock(j)
      BY <1>0, <2>1, <3>1, UnlockTyped DEF MoneyTyped
    <3>2. CASE lock' = [lock EXCEPT ![Caller[target[j]]] = j]
      BY <1>0, <2>1, <3>2 DEF MoneyTyped
    <3>3. CASE lock' = lock
      BY <1>0, <2>1, <3>3 DEF MoneyTyped
    <3> QED
      BY <1>5, <3>1, <3>2, <3>3 DEF Sweep, List, Renew, Pay, CannotPay, CommitRenew, FailRenew, MarkAttempt, Expire, CrashJob
  <2> QED
    <3>1. TimesTyped'
      BY <1>0, <2>1 DEF TimesTyped
    <3> QED
      BY <1>1, <1>2, <1>3, <2>2, <2>3, <3>1, TypePartsNext
<1> QED
  BY <1>4, <1>5

LEMMA TypeStep ==
    ASSUME TypeOK, TargetsExist, [Next]_vars
    PROVE  TypeOK'
<1>1. ASSUME NEW s \in Calls, Cancel(s) PROVE TypeOK'
  BY <1>1 DEF TypeOK, Cancel, procVars, clockVars
<1>2. CASE Tick
  <2>1. now + 1 \in 0..Horizon
    <3>1. now \in 0..Horizon /\ now < Horizon
      BY <1>2 DEF TypeOK, Tick
    <3> QED
      BY <3>1, Numbers
  <2> QED
    BY <1>2, <2>1 DEF TypeOK, Tick, rowVars, procVars
<1>3. CASE UNCHANGED vars
  BY <1>3 DEF TypeOK, vars, rowVars, procVars, clockVars
<1> QED
  BY <1>1, <1>2, <1>3, CallTypes, SweepTypes DEF Next

-----------------------------------------------------------------------------
(* What a step may move. *)
LEMMA Domains ==
    ASSUME TypeOK
    PROVE  /\ DOMAIN pc = Procs /\ DOMAIN target = Procs /\ DOMAIN began = Procs /\ DOMAIN due = Jobs
           /\ DOMAIN wallet = Users /\ DOMAIN lock = Users
           /\ DOMAIN status = Calls /\ DOMAIN expires = Calls /\ DOMAIN autoRenew = Calls
           /\ DOMAIN attempt = Calls /\ DOMAIN started = Calls /\ DOMAIN paid = Calls
BY DEF TypeOK

\* A step is of one process, or of none.
Others(p) ==
    /\ \A q \in Procs : q # p => pc'[q] = pc[q] /\ target'[q] = target[q] /\ began'[q] = began[q]
    /\ \A k \in Jobs : k # p => due'[k] = due[k]

LEMMA CallMoves ==
    ASSUME TypeOK, NEW c \in Calls, Subscribe(c)
    PROVE  Others(c)
BY Domains DEF Others, Procs, Goto, Subscribe, Debit, rowVars, procVars, clockVars, FindActive, FindNone, Pay, CannotPay, CommitExtend, RollBackExtend, CommitCreate, AbortCall

LEMMA SweepMoves ==
    ASSUME TypeOK, NEW j \in Jobs, Sweep(j)
    PROVE  Others(j)
BY Domains DEF Others, Procs, Goto, Sweep, Debit, rowVars, procVars, clockVars, List, Renew, Pay, CannotPay, CommitRenew, FailRenew, MarkAttempt, Expire, CrashJob

\* What has been written of a row stays.
RowsGrow ==
    \A s \in Calls : status[s] # "none" => status'[s] # "none" /\ started'[s] = started[s]

LEMMA RowsStay ==
    ASSUME TypeOK, RowsAreNew, [Next]_vars
    PROVE  RowsGrow
<1>1. ASSUME NEW c \in Calls, Subscribe(c) PROVE RowsGrow
  <2>1. CASE \E auto \in BOOLEAN : CommitCreate(c, auto)
    BY <2>1, Domains DEF RowsGrow, RowsAreNew, InCall, CommitCreate
  <2>2. CASE ~ \E auto \in BOOLEAN : CommitCreate(c, auto)
    BY <1>1, <2>2, Domains DEF RowsGrow, Subscribe, Debit, rowVars, procVars, clockVars, FindActive, FindNone, Pay, CannotPay, CommitExtend, RollBackExtend, CommitCreate, AbortCall
  <2> QED
    BY <2>1, <2>2
<1>2. ASSUME NEW s \in Calls, Cancel(s) PROVE RowsGrow
  BY <1>2, Domains DEF RowsGrow, Cancel
<1>3. ASSUME NEW j \in Jobs, Sweep(j) PROVE RowsGrow
  <2>1. CASE Expire(j)
    BY <2>1 DEF RowsGrow, Expire
  <2>2. CASE CommitRenew(j)
    BY <2>2, Domains DEF RowsGrow, CommitRenew
  <2>3. CASE UNCHANGED <<status, started>>
    BY <2>3 DEF RowsGrow
  <2> QED
    BY <1>3, <2>1, <2>2, <2>3 DEF Sweep, rowVars, List, Renew, Pay, CannotPay, FailRenew, MarkAttempt, CrashJob
<1>4. CASE Tick \/ UNCHANGED vars
  BY <1>4 DEF RowsGrow, Tick, vars, rowVars, procVars, clockVars
<1> QED
  BY <1>1, <1>2, <1>3, <1>4 DEF Next

\* A row a process has found, or makes, is a row its step may work on.
LEMMA CallTarget ==
    ASSUME TypeOK, TargetsExist, RowsAreNew, NEW c \in Calls, Subscribe(c), RowsGrow
    PROVE  CallAt(c)'
<1>0. c \in Procs /\ Calls \subseteq Procs /\ CallAt(c)
  BY LabelsAre DEF TargetsExist
<1>1. CASE FindActive(c)
  <2>1. PICK s \in ActiveOf(Caller[c]) : target' = [target EXCEPT ![c] = s]
    BY <1>1 DEF FindActive
  <2>2. s \in Calls /\ Caller[s] = Caller[c] /\ status'[s] # "none" /\ target'[c] = s /\ pc'[c] = "extend"
    BY <1>0, <1>1, <2>1, Domains DEF FindActive, Goto, ActiveOf, ActiveAt, rowVars
  <2> QED
    BY <2>2 DEF CallAt, InCall
<1>2. CASE FindNone(c)
  <2>1. target'[c] = c /\ pc'[c] = "create"
    BY <1>0, <1>2, Domains DEF FindNone, Goto
  <2> QED
    BY <2>1 DEF CallAt, InCall
<1>3. CASE ~ FindActive(c) /\ ~ FindNone(c)
  <2>1. target' = target
    BY <1>3 DEF Subscribe, FindActive, FindNone, Pay, CannotPay, CommitExtend, RollBackExtend, CommitCreate, AbortCall
  <2>2. \/ pc'[c] \in {"refused", "ok"}
        \/ pc[c] = "extend" /\ pc'[c] = "write extend"
        \/ pc[c] = "create" /\ pc'[c] = "write create"
    BY <1>0, <1>3, Domains DEF Goto, Subscribe, FindActive, FindNone, Pay, CannotPay, CommitExtend, RollBackExtend, CommitCreate, AbortCall
  <2> QED
    BY <1>0, <2>1, <2>2 DEF CallAt, InCall, RowsGrow
<1> QED
  BY <1>1, <1>2, <1>3

LEMMA SweepTarget ==
    ASSUME TypeOK, TargetsExist, RowsAreNew, NEW j \in Jobs, Sweep(j), RowsGrow
    PROVE  JobAt(j)'
<1>0. j \in Procs /\ JobAt(j) /\ due[j] \subseteq Calls
  BY LabelsAre DEF TargetsExist, TypeOK
<1>1. CASE List(j)
  <2>1. pc'[j] = "sweep" /\ target'[j] = Nobody /\ due'[j] = Due
    BY <1>0, <1>1, Domains DEF List, Goto, JobAt
  <2>2. \A s \in Due : s \in Calls /\ status[s] # "none"
    BY DEF Due
  <2> QED
    BY <2>1, <2>2 DEF JobAt, InJob, RowsGrow, Marks
<1>2. CASE Renew(j)
  <2>1. PICK s \in due[j] : target' = [target EXCEPT ![j] = s]
    BY <1>2 DEF Renew
  <2>2. s \in Calls /\ status'[s] # "none" /\ target'[j] = s /\ pc'[j] = "renew" /\ due'[j] \subseteq due[j]
    BY <1>0, <1>2, <2>1, Domains DEF Renew, Goto, JobAt, RowsGrow
  <2> QED
    BY <1>0, <2>2 DEF JobAt, InJob, RowsGrow
<1>3. CASE MarkAttempt(j) \/ CrashJob(j)
  <2>1. pc'[j] \in {"idle", "sweep"} /\ target'[j] = Nobody /\ due'[j] \subseteq due[j]
    BY <1>0, <1>3, Domains DEF MarkAttempt, CrashJob, Goto
  <2> QED
    BY <1>0, <2>1 DEF JobAt, InJob, RowsGrow, Marks
<1>4. CASE Expire(j)
  <2>1. pc'[j] = "idle" /\ target'[j] = Nobody /\ due'[j] = due[j]
    BY <1>0, <1>4, Domains DEF Expire, Goto, JobAt
  <2> QED
    BY <1>0, <2>1 DEF JobAt, InJob, RowsGrow, Marks
<1>5. CASE ~ List(j) /\ ~ Renew(j) /\ ~ MarkAttempt(j) /\ ~ CrashJob(j) /\ ~ Expire(j)
  <2>1. target' = target /\ due' = due
    BY <1>5 DEF Sweep, List, Renew, Pay, CannotPay, CommitRenew, FailRenew, MarkAttempt, Expire, CrashJob
  <2>2. pc[j] \in {"renew", "write renew"} /\ pc'[j] \in {"write renew"} \cup Marks
    BY <1>0, <1>5, Domains DEF Goto, Sweep, Marks, List, Renew, Pay, CannotPay, CommitRenew, FailRenew, MarkAttempt, Expire, CrashJob
  <2> QED
    BY <1>0, <2>1, <2>2 DEF JobAt, InJob, RowsGrow, Marks
<1> QED
  BY <1>1, <1>2, <1>3, <1>4, <1>5

LEMMA TargetsStep ==
    ASSUME TypeOK, TargetsExist, RowsAreNew, [Next]_vars
    PROVE  TargetsExist'
<1>0. RowsGrow
  BY RowsStay
<1>1. SUFFICES /\ \A c \in Calls : CallAt(c)'
               /\ \A j \in Jobs : JobAt(j)'
  BY DEF TargetsExist
<1>2. ASSUME NEW p \in Procs, Others(p) PROVE /\ \A c \in Calls : c # p => CallAt(c)'
                                              /\ \A j \in Jobs : j # p => JobAt(j)'
  <2>1. ASSUME NEW c \in Calls, c # p PROVE CallAt(c)'
    <3>1. pc'[c] = pc[c] /\ target'[c] = target[c] /\ CallAt(c)
      BY <1>2, <2>1, LabelsAre DEF Others, TargetsExist
    <3> QED
      BY <1>0, <3>1 DEF CallAt, RowsGrow
  <2>2. ASSUME NEW j \in Jobs, j # p PROVE JobAt(j)'
    <3>1. pc'[j] = pc[j] /\ target'[j] = target[j] /\ due'[j] = due[j] /\ JobAt(j) /\ due[j] \subseteq Calls
      BY <1>2, <2>2, LabelsAre DEF Others, TargetsExist, TypeOK
    <3> QED
      BY <1>0, <3>1 DEF JobAt, RowsGrow
  <2> QED
    BY <2>1, <2>2
<1>3. ASSUME NEW c \in Calls, Subscribe(c) PROVE TargetsExist'
  BY <1>0, <1>2, <1>3, CallMoves, CallTarget, LabelsAre DEF TargetsExist, Procs
<1>4. ASSUME NEW j \in Jobs, Sweep(j) PROVE TargetsExist'
  BY <1>0, <1>2, <1>4, SweepMoves, SweepTarget, LabelsAre DEF TargetsExist, Procs
<1>5. CASE UNCHANGED procVars
  <2>1. ASSUME NEW c \in Calls PROVE CallAt(c)'
    BY <1>0, <1>5 DEF TargetsExist, CallAt, RowsGrow, procVars
  <2>2. ASSUME NEW j \in Jobs PROVE JobAt(j)'
    <3>1. due[j] \subseteq Calls /\ JobAt(j)
      BY DEF TypeOK, TargetsExist
    <3> QED
      BY <1>0, <1>5, <3>1 DEF JobAt, RowsGrow, procVars
  <2> QED
    BY <2>1, <2>2 DEF TargetsExist
<1> QED
  BY <1>3, <1>4, <1>5 DEF Next, Cancel, Tick, vars, TargetsExist

\* A row that a step leaves unwritten keeps its values; only its call writes it first.
FreshRows ==
    /\ \A s \in Calls : status'[s] = "none" =>
          /\ status[s] = "none" /\ expires'[s] = expires[s] /\ started'[s] = started[s]
          /\ paid'[s] = paid[s] /\ attempt'[s] = attempt[s] /\ autoRenew'[s] = autoRenew[s]
    /\ \A s \in Calls : status[s] = "none" /\ status'[s] # "none" => pc'[s] = "ok"

LEMMA RowsAreMade ==
    ASSUME TypeOK, TargetsExist, RowsAreNew, [Next]_vars
    PROVE  FreshRows
<1>0. RowsGrow
  BY RowsStay
<1>1. ASSUME NEW c \in Calls, Subscribe(c) PROVE FreshRows
  <2>0. c \in Procs
    BY LabelsAre
  <2>1. CASE \E auto \in BOOLEAN : CommitCreate(c, auto)
    <3>1. pc'[c] = "ok" /\ status'[c] = "active" /\ attempt' = attempt
      BY <2>0, <2>1, Domains DEF CommitCreate, Goto
    <3>2. \A s \in Calls : s # c =>
              /\ status'[s] = status[s] /\ expires'[s] = expires[s] /\ started'[s] = started[s]
              /\ paid'[s] = paid[s] /\ autoRenew'[s] = autoRenew[s]
      BY <2>1, Domains DEF CommitCreate, Debit
    <3> QED
      BY <3>1, <3>2 DEF FreshRows
  <2>2. CASE CommitExtend(c)
    <3>1. target[c] \in Calls /\ status[target[c]] # "none"
      BY <2>2 DEF TargetsExist, CallAt, CommitExtend
    <3> QED
      BY <2>2, <3>1, Domains DEF FreshRows, CommitExtend, Debit
  <2>3. CASE UNCHANGED rowVars
    BY <2>3 DEF FreshRows, rowVars
  <2> QED
    BY <1>1, <2>1, <2>2, <2>3 DEF Subscribe, FindActive, FindNone, Pay, CannotPay, RollBackExtend, AbortCall
<1>2. ASSUME NEW s \in Calls, Cancel(s) PROVE FreshRows
  BY <1>2, Domains DEF FreshRows, Cancel
<1>3. ASSUME NEW j \in Jobs, Sweep(j) PROVE FreshRows
  <2>1. CASE CommitRenew(j)
    <3>1. target[j] \in Calls /\ status[target[j]] # "none"
      BY <2>1 DEF TargetsExist, JobAt, CommitRenew
    <3> QED
      BY <2>1, <3>1, Domains DEF FreshRows, CommitRenew, Debit
  <2>2. CASE MarkAttempt(j)
    <3>1. target[j] \in Calls /\ status[target[j]] # "none"
      BY <2>2 DEF TargetsExist, JobAt, MarkAttempt
    <3> QED
      BY <2>2, <3>1, Domains DEF FreshRows, MarkAttempt
  <2>3. CASE Expire(j)
    BY <2>3, Domains DEF FreshRows, Expire
  <2>4. CASE UNCHANGED rowVars
    BY <2>4 DEF FreshRows, rowVars
  <2> QED
    BY <1>3, <2>1, <2>2, <2>3, <2>4 DEF Sweep, List, Renew, Pay, CannotPay, FailRenew, CrashJob
<1>4. CASE Tick \/ UNCHANGED vars
  BY <1>4 DEF FreshRows, Tick, vars, rowVars
<1> QED
  BY <1>1, <1>2, <1>3, <1>4 DEF Next

LEMMA RowsStep ==
    ASSUME TypeOK, TargetsExist, RowsAreNew, [Next]_vars
    PROVE  RowsAreNew'
<1>0. RowsGrow /\ FreshRows
  BY RowsStay, RowsAreMade
<1>1. ASSUME NEW s \in Calls, status'[s] = "none"
      PROVE  expires'[s] = 0 /\ started'[s] = 0 /\ paid'[s] = 0 /\ attempt'[s] = Never /\ ~ autoRenew'[s]
  BY <1>0, <1>1 DEF FreshRows, RowsAreNew
<1>2. ASSUME NEW c \in Calls, pc'[c] \in {"idle"} \cup InCall PROVE status'[c] = "none"
  <2>1. pc[c] \in {"idle"} \cup InCall
    <3>1. CASE Subscribe(c)
      BY <3>1 DEF InCall, Subscribe, FindActive, FindNone, Pay, CannotPay, CommitExtend, RollBackExtend, CommitCreate, AbortCall
    <3>2. ASSUME NEW p \in Procs, p # c, Others(p) PROVE pc[c] \in {"idle"} \cup InCall
      BY <1>2, <3>2, LabelsAre DEF Others
    <3>3. CASE UNCHANGED procVars
      BY <1>2, <3>3 DEF procVars
    <3> QED
      BY <3>1, <3>2, <3>3, CallMoves, SweepMoves, LabelsAre DEF Next, Cancel, Tick, vars, Procs
  <2>2. status[c] = "none"
    BY <2>1 DEF RowsAreNew
  <2> QED
    BY <1>0, <1>2, <2>2 DEF FreshRows, InCall
<1> QED
  BY <1>1, <1>2 DEF RowsAreNew

\* What a step makes of a row's time.
Kept(s)    == expires'[s] = expires[s] /\ started'[s] = started[s] /\ paid'[s] = paid[s]
Bought(s)  == expires'[s] = expires[s] + Period /\ started'[s] = started[s] /\ paid'[s] = paid[s] + 1
Created(s) == status[s] = "none" /\ expires'[s] = started'[s] + Period /\ paid'[s] = paid[s] + 1

LEMMA TimesMove ==
    ASSUME TypeOK, TargetsExist, RowsAreNew, [Next]_vars, NEW s \in Calls
    PROVE  Kept(s) \/ Bought(s) \/ Created(s)
<1>1. ASSUME NEW c \in Calls, Subscribe(c) PROVE Kept(s) \/ Bought(s) \/ Created(s)
  <2>1. CASE \E auto \in BOOLEAN : CommitCreate(c, auto)
    <3>1. status[c] = "none"
      BY <2>1 DEF RowsAreNew, CommitCreate, InCall
    <3>2. CASE s = c
      <4>1. paid'[c] = paid[c] + 1 /\ expires'[c] = began[c] + Period /\ started'[c] = began[c]
        BY <2>1, Domains DEF CommitCreate, Debit
      <4> QED
        BY <3>1, <3>2, <4>1 DEF Created
    <3>3. CASE s # c
      BY <2>1, <3>3, Domains DEF Kept, CommitCreate, Debit
    <3> QED
      BY <3>2, <3>3
  <2>2. CASE CommitExtend(c)
    <3>1. CASE s = target[c]
      BY <2>2, <3>1, Domains DEF Bought, CommitExtend, Debit
    <3>2. CASE s # target[c]
      BY <2>2, <3>2, Domains DEF Kept, CommitExtend, Debit
    <3> QED
      BY <3>1, <3>2
  <2>3. CASE UNCHANGED rowVars
    BY <2>3 DEF Kept, rowVars
  <2> QED
    BY <1>1, <2>1, <2>2, <2>3 DEF Subscribe, FindActive, FindNone, Pay, CannotPay, RollBackExtend, AbortCall
<1>2. ASSUME NEW j \in Jobs, Sweep(j) PROVE Kept(s) \/ Bought(s)
  <2>1. CASE CommitRenew(j)
    <3>1. CASE s = target[j]
      BY <2>1, <3>1, Domains DEF Bought, CommitRenew, Debit
    <3>2. CASE s # target[j]
      BY <2>1, <3>2, Domains DEF Kept, CommitRenew, Debit
    <3> QED
      BY <3>1, <3>2
  <2>2. CASE UNCHANGED <<expires, started, paid>>
    BY <2>2 DEF Kept
  <2> QED
    BY <1>2, <2>1, <2>2 DEF Sweep, rowVars, List, Renew, Pay, CannotPay, FailRenew, MarkAttempt, Expire, CrashJob
<1>3. CASE UNCHANGED <<expires, started, paid>>
  BY <1>3 DEF Kept
<1> QED
  BY <1>1, <1>2, <1>3 DEF Next, Cancel, Tick, vars, rowVars

-----------------------------------------------------------------------------
(* The lock of the wallet. *)
\* A step of a process takes the lock, gives it back, or has nothing to do with it.
Takes(p) ==
    /\ ~ Paying(p) /\ Paying(p)' /\ target' = target /\ wallet' = wallet
    /\ Payer(p) \in Users /\ lock[Payer(p)] = Nobody /\ wallet[Payer(p)] >= Price
    /\ lock' = [lock EXCEPT ![Payer(p)] = p]
Leaves(p) ==
    /\ ~ Paying(p)' /\ Unlock(p)
    /\ \A u \in Users : wallet'[u] = wallet[u] \/ (lock[u] = p /\ wallet'[u] = wallet[u] - Price)
Passes(p) == ~ Paying(p) /\ ~ Paying(p)' /\ lock' = lock /\ wallet' = wallet

LEMMA CallLocks ==
    ASSUME TypeOK, TargetsExist, PaysUnderLock, NEW c \in Calls, Subscribe(c)
    PROVE  Takes(c) \/ Leaves(c) \/ Passes(c)
<1>0. c \in Procs /\ Caller[c] \in Users /\ CallAt(c)
  BY LabelsAre DEF TargetsExist
<1>1. CASE Pay(c, Caller[c], "extend", "write extend") \/ Pay(c, Caller[c], "create", "write create")
  <2>1. Payer(c) = Caller[c]
    BY <1>0, <1>1 DEF Payer, CallAt, Pay
  <2> QED
    BY <1>0, <1>1, <2>1, Domains DEF Takes, Paying, Pay, Goto
<1>2. CASE CommitExtend(c) \/ \E auto \in BOOLEAN : CommitCreate(c, auto)
  <2>1. Paying(c) /\ pc'[c] = "ok" /\ Debit(c, target[c]) /\ Payer(c) \in Users /\ lock[Payer(c)] = c
    <3>1. pc'[c] = "ok" /\ pc[c] \in {"write extend", "write create"}
      BY <1>0, <1>2, Domains DEF CommitExtend, CommitCreate, Goto
    <3>2. Debit(c, target[c])
      BY <1>0, <1>2 DEF CommitExtend, CommitCreate, CallAt
    <3>3. Payer(c) = Caller[c]
      BY <1>0, <3>1 DEF Payer, CallAt
    <3> QED
      BY <1>0, <3>1, <3>2, <3>3 DEF Paying, PaysUnderLock
  <2>2. Unlock(c) /\ wallet' = [wallet EXCEPT ![Payer(c)] = @ - Price]
    BY <2>1 DEF Debit, Payer
  <2> QED
    BY <2>1, <2>2, Domains DEF Leaves, Paying
<1>3. CASE RollBackExtend(c) \/ AbortCall(c)
  BY <1>0, <1>3, Domains DEF Leaves, Paying, RollBackExtend, AbortCall, Goto
<1>4. CASE \/ FindActive(c) \/ FindNone(c)
           \/ CannotPay(c, Caller[c], "extend", "refused") \/ CannotPay(c, Caller[c], "create", "refused")
  BY <1>0, <1>4, Domains DEF Passes, Paying, FindActive, FindNone, CannotPay, Goto
<1> QED
  BY <1>1, <1>2, <1>3, <1>4 DEF Subscribe

LEMMA SweepLocks ==
    ASSUME TypeOK, TargetsExist, PaysUnderLock, NEW j \in Jobs, Sweep(j)
    PROVE  Takes(j) \/ Leaves(j) \/ Passes(j)
<1>0. j \in Procs /\ JobAt(j)
  BY LabelsAre DEF TargetsExist
<1>1. CASE target[j] # Nobody /\ Pay(j, Caller[target[j]], "renew", "write renew")
  <2>1. target[j] \in Calls /\ Payer(j) = Caller[target[j]] /\ Payer(j) \in Users
    BY <1>0, <1>1 DEF Payer, JobAt, Pay
  <2> QED
    BY <1>0, <1>1, <2>1, Domains DEF Takes, Paying, Pay, Goto
<1>2. CASE CommitRenew(j)
  <2>1. Paying(j) /\ pc'[j] = "mark renewed" /\ target[j] \in Calls
    BY <1>0, <1>2, Domains DEF CommitRenew, Goto, Paying, JobAt
  <2>2. Payer(j) \in Users /\ lock[Payer(j)] = j
    BY <1>0, <2>1 DEF Payer, PaysUnderLock
  <2>3. Unlock(j) /\ wallet' = [wallet EXCEPT ![Payer(j)] = @ - Price]
    BY <1>2 DEF CommitRenew, Debit, Payer
  <2> QED
    BY <2>1, <2>2, <2>3, Domains DEF Leaves, Paying
<1>3. CASE FailRenew(j) \/ CrashJob(j)
  BY <1>0, <1>3, Domains DEF Leaves, Paying, FailRenew, CrashJob, Goto
<1>4. CASE \/ List(j) \/ Renew(j) \/ MarkAttempt(j) \/ Expire(j)
           \/ CannotPay(j, Caller[target[j]], "renew", "mark unpaid")
  BY <1>0, <1>4, Domains DEF Passes, Paying, Marks, List, Renew, MarkAttempt, Expire, CannotPay, Goto
<1> QED
  BY <1>1, <1>2, <1>3, <1>4 DEF Sweep

LEMMA LockStep ==
    ASSUME TypeOK, TargetsExist, PaysUnderLock, [Next]_vars
    PROVE  PaysUnderLock'
<1>0. \A q \in Procs : Paying(q) => Payer(q) \in Users
  <2>1. ASSUME NEW c \in Calls, Paying(c) PROVE target[c] \in Calls
    BY <2>1 DEF TargetsExist, CallAt, Paying, InCall
  <2>2. ASSUME NEW j \in Jobs, Paying(j) PROVE target[j] \in Calls
    BY <2>2 DEF TargetsExist, JobAt, Paying, InJob, Marks
  <2> QED
    BY <2>1, <2>2 DEF Payer, Procs
<1>1. ASSUME NEW p \in Procs, Others(p), Takes(p) \/ Leaves(p) \/ Passes(p) PROVE PaysUnderLock'
  <2>0. \A q \in Procs : q # p => (Paying(q)' <=> Paying(q)) /\ Payer(q)' = Payer(q)
    BY <1>1 DEF Others, Paying, Payer
  <2>1. \A u \in Users : lock[u] \in Procs \cup {Nobody} /\ Nobody # p
    BY LabelsAre DEF TypeOK, Procs
  <2>2. \A u \in Users : lock[u] # p /\ lock[u] # Nobody => lock'[u] = lock[u] /\ wallet'[u] = wallet[u]
    BY <1>1, <2>1, Domains DEF Takes, Leaves, Passes, Unlock
  <2>3. ASSUME NEW q \in Procs, Paying(q)' PROVE lock'[Payer(q)'] = q /\ wallet'[Payer(q)'] >= Price
    <3>1. CASE q # p
      <4>1. Paying(q) /\ Payer(q)' = Payer(q) /\ Payer(q) \in Users /\ q # Nobody
        BY <1>0, <2>0, <2>3, <3>1, LabelsAre DEF Procs
      <4>2. lock[Payer(q)] = q /\ wallet[Payer(q)] >= Price
        BY <4>1 DEF PaysUnderLock
      <4> QED
        BY <2>2, <3>1, <4>1, <4>2
    <3>2. CASE q = p /\ Takes(p)
      <4>1. Payer(p)' = Payer(p)
        BY <3>2 DEF Takes, Payer
      <4> QED
        BY <3>2, <4>1, Domains DEF Takes
    <3>3. CASE q = p /\ Passes(p)
      BY <2>3, <3>3 DEF Passes
    <3>4. CASE q = p /\ Leaves(p)
      BY <2>3, <3>4 DEF Leaves
    <3> QED
      BY <1>1, <3>1, <3>2, <3>3, <3>4
  <2>4. ASSUME NEW u \in Users, NEW q, q = lock'[u], q # Nobody PROVE Paying(q)' /\ Payer(q)' = u
    <3>1. CASE lock[u] = q /\ q # p
      BY <2>0, <2>1, <2>4, <3>1 DEF PaysUnderLock
    <3>2. CASE Takes(p)
      <4>1. lock'[u] = IF u = Payer(p) THEN p ELSE lock[u]
        BY <3>2, Domains DEF Takes
      <4>2. Payer(p)' = Payer(p) /\ ~ Paying(p)
        BY <3>2 DEF Takes, Payer
      <4>3. lock[u] # p
        BY <2>1, <4>2 DEF PaysUnderLock
      <4> QED
        BY <2>4, <3>1, <3>2, <4>1, <4>2, <4>3 DEF Takes
    <3>3. CASE Leaves(p)
      BY <2>4, <3>1, <3>3 DEF Leaves, Unlock
    <3>4. CASE Passes(p)
      <4>1. lock[u] # p
        BY <2>1, <3>4 DEF PaysUnderLock, Passes
      <4> QED
        BY <2>4, <3>1, <3>4, <4>1 DEF Passes
    <3> QED
      BY <1>1, <3>2, <3>3, <3>4
  <2> QED
    BY <2>3, <2>4 DEF PaysUnderLock, Paying, Payer
<1>2. CASE UNCHANGED <<wallet, lock, procVars>>
  BY <1>2 DEF PaysUnderLock, Paying, Payer, procVars
<1> QED
  BY <1>1, <1>2, CallLocks, SweepLocks, CallMoves, SweepMoves, LabelsAre DEF Next, Cancel, Tick, vars

LEMMA PaidStep ==
    ASSUME TypeOK, TargetsExist, RowsAreNew, PaysUnderLock, TimeIsPaidFor, [Next]_vars
    PROVE  TimeIsPaidFor'
<1>1. ASSUME NEW u \in Users PROVE wallet'[u] >= 0
  <2>0. wallet[u] \in Int /\ wallet[u] >= 0 /\ Price \in Nat
    BY Numbers DEF TypeOK, TimeIsPaidFor
  <2>1. ASSUME NEW p \in Procs, Takes(p) \/ Leaves(p) \/ Passes(p) PROVE wallet'[u] >= 0
    <3>1. lock[u] = p => wallet[u] >= Price
      BY <2>1, LabelsAre DEF PaysUnderLock, Procs
    <3> QED
      BY <2>0, <2>1, <3>1 DEF Takes, Leaves, Passes
  <2>2. CASE wallet' = wallet
    BY <2>0, <2>2
  <2> QED
    BY <2>1, <2>2, CallLocks, SweepLocks, LabelsAre DEF Next, Cancel, Tick, vars
<1>2. ASSUME NEW s \in Calls PROVE expires'[s] = started'[s] + Period * paid'[s]
  <2>0. /\ expires[s] = started[s] + Period * paid[s] /\ expires[s] \in Nat /\ started[s] \in Nat /\ paid[s] \in Nat
        /\ Period \in Nat
    <3>1. expires[s] \in Nat /\ started[s] \in 0..Horizon /\ paid[s] \in Nat /\ Horizon \in Nat /\ Period \in Nat
      BY TypeParts, Numbers DEF TimesTyped
    <3> QED
      BY <3>1 DEF TimeIsPaidFor
  <2>1. Period * (paid[s] + 1) = Period * paid[s] + Period
    BY <2>0
  <2>2. CASE Kept(s)
    BY <2>0, <2>2 DEF Kept
  <2>3. CASE Bought(s)
    BY <2>0, <2>1, <2>3 DEF Bought
  <2>4. CASE Created(s)
    <3>1. paid[s] = 0
      BY <2>4 DEF Created, RowsAreNew
    <3> QED
      BY <2>0, <2>1, <2>4, <3>1 DEF Created
  <2> QED
    BY <2>2, <2>3, <2>4, TimesMove
<1> QED
  BY <1>1, <1>2 DEF TimeIsPaidFor

LEMMA MoneyInit == Init => MoneyInv
<1> SUFFICES ASSUME Init PROVE MoneyInv
  OBVIOUS
<1> USE DEF Init
<1>1. TypeOK
  <2>1. ClocksTyped /\ TimesTyped /\ WorkTyped
    BY Numbers DEF ClocksTyped, TimesTyped, WorkTyped
  <2>2. Funds \in [Users -> Int] /\ Nobody \in Procs \cup {Nobody} /\ "idle" \in Labels
    <3>1. Funds \in [Users -> Nat] /\ "idle" \in Labels
      BY Numbers, LabelsAre
    <3> QED
      BY <3>1
  <2>3. MoneyTyped
    BY <2>2 DEF MoneyTyped
  <2>4. FlagsTyped
    BY DEF FlagsTyped
  <2>5. PlacesTyped
    BY <2>2 DEF PlacesTyped
  <2> QED
    BY <2>1, <2>3, <2>4, <2>5, TypeParts
<1>2. TargetsExist /\ RowsAreNew
  BY LabelsAre DEF TargetsExist, RowsAreNew, CallAt, JobAt, InCall, InJob, Marks
<1>3. PaysUnderLock
  BY DEF PaysUnderLock, Paying
<1>4. TimeIsPaidFor
  BY Numbers DEF TimeIsPaidFor
<1> QED
  BY <1>1, <1>2, <1>3, <1>4 DEF MoneyInv

LEMMA MoneyStep == MoneyInv /\ [Next]_vars => MoneyInv'
BY TypeStep, TargetsStep, RowsStep, LockStep, PaidStep DEF MoneyInv

LEMMA MoneyInvariant == Spec => []MoneyInv
BY MoneyInit, MoneyStep, PTL DEF Spec

\* Every value keeps its type, for any number of users, calls and sweeps.
THEOREM TypeCorrect == Spec => []TypeOK
<1>1. MoneyInv => TypeOK
  BY DEF MoneyInv
<1> QED
  BY <1>1, MoneyInvariant, PTL

\* The money is right: no wallet is overdrawn, and a row's time is what was paid
\* for it (debitLocked under LockWallet, ExtendSubscription and CreateSubscription
\* in the debit's transaction).
THEOREM PaidTime == Spec => []TimeIsPaidFor
<1>1. MoneyInv => TimeIsPaidFor
  BY DEF MoneyInv
<1> QED
  BY <1>1, MoneyInvariant, PTL

-----------------------------------------------------------------------------
(* Clocks. *)
LEMMA ClockNumbers ==
    ASSUME TypeOK
    PROVE  /\ now \in Int /\ lastSweep \in Int /\ faults \in Int
           /\ \A p \in Procs : began[p] \in Int /\ began[p] >= 0
           /\ \A s \in Calls : expires[s] \in Int /\ started[s] \in Int /\ attempt[s] \in Int
           /\ \A u \in Users : wallet[u] \in Int
<1>1. ClocksTyped /\ TimesTyped /\ WorkTyped /\ FlagsTyped /\ MoneyTyped /\ Horizon \in Nat /\ Never \in Int /\ MaxFaults \in Nat
  BY TypeParts, Numbers
<1>2. now \in Int /\ lastSweep \in Int /\ faults \in Int
  BY <1>1 DEF ClocksTyped
<1>3. \A p \in Procs : began[p] \in Int /\ began[p] >= 0
  BY <1>1 DEF WorkTyped
<1>4. \A s \in Calls : expires[s] \in Int /\ started[s] \in Int
  BY <1>1 DEF TimesTyped
<1>5. \A s \in Calls : attempt[s] \in Int
  BY <1>1 DEF FlagsTyped
<1> QED
  BY <1>1, <1>2, <1>3, <1>4, <1>5 DEF MoneyTyped

\* A process that goes on keeps the time at which it began; one that begins takes the clock's.
LEMMA CallClock ==
    ASSUME TypeOK, NEW c \in Calls, Subscribe(c)
    PROVE  /\ pc'[c] \in InCall => began'[c] = now \/ (pc[c] \in InCall /\ began'[c] = began[c])
           /\ UNCHANGED clockVars
<1>0. c \in Procs
  BY LabelsAre
<1>1. CASE FindActive(c) \/ FindNone(c)
  BY <1>0, <1>1, Domains DEF FindActive, FindNone
<1>2. CASE ~ FindActive(c) /\ ~ FindNone(c)
  BY <1>2 DEF Subscribe, Pay, CannotPay, CommitExtend, RollBackExtend, CommitCreate, AbortCall, InCall
<1> QED
  BY <1>1, <1>2 DEF Subscribe, FindActive, FindNone, Pay, CannotPay, CommitExtend, RollBackExtend, CommitCreate, AbortCall

LEMMA SweepClock ==
    ASSUME TypeOK, NEW j \in Jobs, Sweep(j)
    PROVE  /\ pc'[j] # "idle" => (pc[j] = "idle" /\ began'[j] = now) \/ (pc[j] # "idle" /\ began'[j] = began[j])
           /\ now' = now
           /\ lastSweep' = lastSweep \/ (pc[j] = "sweep" /\ began[j] > lastSweep /\ lastSweep' = began[j])
<1>0. j \in Procs
  BY LabelsAre
<1>1. CASE List(j)
  BY <1>0, <1>1, Domains DEF List, clockVars
<1>2. CASE Expire(j)
  <2>1. pc'[j] = "idle"
    BY <1>0, <1>2, Domains DEF Expire, Goto
  <2> QED
    BY <1>2, <2>1 DEF Expire
<1>3. CASE CrashJob(j)
  <2>1. pc'[j] = "idle"
    BY <1>0, <1>3, Domains DEF CrashJob, Goto
  <2> QED
    BY <1>3, <2>1 DEF CrashJob, clockVars
<1>4. CASE ~ List(j) /\ ~ Expire(j) /\ ~ CrashJob(j)
  BY <1>4 DEF Sweep, Renew, Pay, CannotPay, CommitRenew, FailRenew, MarkAttempt, clockVars, Marks
<1> QED
  BY <1>1, <1>2, <1>3, <1>4

\* A row starts when the call that creates it began.
LEMMA StartOfRows ==
    ASSUME TypeOK, [Next]_vars, NEW s \in Calls
    PROVE  started'[s] = started[s] \/ (pc[s] \in InCall /\ started'[s] = began[s])
<1>1. ASSUME NEW c \in Calls, Subscribe(c) PROVE started'[s] = started[s] \/ (pc[s] \in InCall /\ started'[s] = began[s])
  <2>1. CASE \E auto \in BOOLEAN : CommitCreate(c, auto)
    BY <2>1, Domains DEF CommitCreate, InCall
  <2>2. CASE started' = started
    BY <2>2
  <2> QED
    BY <1>1, <2>1, <2>2 DEF Subscribe, FindActive, FindNone, Pay, CannotPay, CommitExtend, RollBackExtend, AbortCall, rowVars
<1>2. ASSUME NEW j \in Jobs, Sweep(j) PROVE started' = started
  BY <1>2 DEF Sweep, List, Renew, Pay, CannotPay, CommitRenew, FailRenew, MarkAttempt, Expire, CrashJob, rowVars
<1> QED
  BY <1>1, <1>2 DEF Next, Cancel, Tick, vars, rowVars

LEMMA ClocksStep ==
    ASSUME TypeOK, ClocksAreClose, [Next]_vars
    PROVE  ClocksAreClose'
<1>0. MaxDowntime \in Nat
  BY Numbers
<1>1. ASSUME NEW s \in Calls PROVE started'[s] <= now
  <2>1. started[s] <= now /\ (pc[s] \in InCall => began[s] <= now)
    BY DEF ClocksAreClose
  <2> QED
    BY <2>1, StartOfRows
<1>2. ASSUME NEW c \in Calls, Subscribe(c) PROVE ClocksAreClose'
  <2>1. now' = now /\ lastSweep' = lastSweep
    BY <1>2, CallClock DEF clockVars
  <2>2. \A j \in Jobs : pc'[j] = pc[j] /\ began'[j] = began[j]
    BY <1>2, CallMoves, LabelsAre DEF Others
  <2>3. ASSUME NEW d \in Calls, pc'[d] \in InCall PROVE began'[d] <= now /\ now <= began'[d] + MaxDowntime
    <3>1. CASE d = c
      BY <1>0, <1>2, <2>3, <3>1, CallClock, ClockNumbers DEF ClocksAreClose
    <3>2. CASE d # c
      <4>1. pc'[d] = pc[d] /\ began'[d] = began[d]
        BY <1>2, <3>2, CallMoves, LabelsAre DEF Others
      <4> QED
        BY <2>3, <4>1 DEF ClocksAreClose
    <3> QED
      BY <3>1, <3>2
  <2> QED
    BY <1>1, <2>1, <2>2, <2>3 DEF ClocksAreClose
<1>3. ASSUME NEW j \in Jobs, Sweep(j) PROVE ClocksAreClose'
  <2>1. \A c \in Calls : pc'[c] = pc[c] /\ began'[c] = began[c]
    BY <1>3, SweepMoves, LabelsAre DEF Others
  <2>2. now' = now /\ lastSweep' <= now /\ now <= lastSweep' + MaxDowntime
    BY <1>0, <1>3, SweepClock, ClockNumbers, LabelsAre DEF ClocksAreClose
  <2>3. ASSUME NEW k \in Jobs, pc'[k] # "idle" PROVE began'[k] <= now /\ now <= began'[k] + MaxDowntime
    <3>1. CASE k = j
      BY <1>0, <1>3, <2>3, <3>1, SweepClock, ClockNumbers DEF ClocksAreClose
    <3>2. CASE k # j
      <4>1. pc'[k] = pc[k] /\ began'[k] = began[k]
        BY <1>3, <3>2, SweepMoves, LabelsAre DEF Others
      <4> QED
        BY <2>3, <4>1 DEF ClocksAreClose
    <3> QED
      BY <3>1, <3>2
  <2> QED
    BY <1>1, <2>1, <2>2, <2>3 DEF ClocksAreClose
<1>4. CASE Tick
  <2>1. /\ now' = now + 1 /\ lastSweep' = lastSweep /\ now < lastSweep + MaxDowntime
        /\ pc' = pc /\ began' = began
    BY <1>4 DEF Tick, procVars
  <2>2. now \in Int /\ lastSweep \in Int /\ \A p \in Procs : began[p] \in Int
    BY ClockNumbers
  <2>3. lastSweep' <= now' /\ now' <= lastSweep' + MaxDowntime
    BY <1>0, <2>1, <2>2 DEF ClocksAreClose
  <2>4. ASSUME NEW j \in Jobs, pc'[j] # "idle" PROVE began'[j] <= now' /\ now' <= began'[j] + MaxDowntime
    <3>1. began[j] \in Int /\ began[j] <= now /\ now < began[j] + MaxDowntime
      BY <1>4, <2>1, <2>2, <2>4, LabelsAre DEF ClocksAreClose, Tick
    <3> QED
      BY <1>0, <2>1, <2>2, <3>1
  <2>5. ASSUME NEW c \in Calls, pc'[c] \in InCall PROVE began'[c] <= now' /\ now' <= began'[c] + MaxDowntime
    <3>1. began[c] \in Int /\ began[c] <= now /\ now < began[c] + MaxDowntime
      BY <1>4, <2>1, <2>2, <2>5, LabelsAre DEF ClocksAreClose, Tick
    <3> QED
      BY <1>0, <2>1, <2>2, <3>1
  <2>6. ASSUME NEW s \in Calls PROVE started'[s] <= now'
    <3>1. started[s] \in Int /\ started'[s] = started[s] /\ started[s] <= now
      BY <1>4, ClockNumbers DEF Tick, rowVars, ClocksAreClose
    <3> QED
      BY <2>1, <2>2, <3>1
  <2> QED
    BY <2>3, <2>4, <2>5, <2>6 DEF ClocksAreClose
<1>5. CASE UNCHANGED <<procVars, clockVars>>
  BY <1>1, <1>5 DEF ClocksAreClose, procVars, clockVars
<1> QED
  BY <1>2, <1>3, <1>4, <1>5 DEF Next, Cancel, vars

-----------------------------------------------------------------------------
(* What is expired is over. *)
LEMMA ExtendsStep ==
    ASSUME MoneyInv, ExtendsWhatWasActive, [Next]_vars
    PROVE  ExtendsWhatWasActive'
<1>0. TypeOK /\ TargetsExist /\ RowsAreNew
  BY DEF MoneyInv
<1>1. ASSUME NEW c \in Calls, pc[c] \in {"extend", "write extend"}, target'[c] = target[c], began'[c] = began[c]
      PROVE  began'[c] < expires'[target'[c]]
  <2>1. target[c] \in Calls /\ status[target[c]] # "none" /\ began[c] < expires[target[c]]
    BY <1>0, <1>1 DEF TargetsExist, CallAt, ExtendsWhatWasActive
  <2>2. expires[target[c]] \in Int /\ began[c] \in Int /\ Period \in Nat
    BY <1>0, <2>1, ClockNumbers, Numbers, LabelsAre
  <2>3. expires'[target[c]] = expires[target[c]] \/ expires'[target[c]] = expires[target[c]] + Period
    BY <1>0, <2>1, TimesMove DEF Kept, Bought, Created
  <2>4. began[c] < expires'[target[c]]
    BY <2>1, <2>2, <2>3
  <2> QED
    BY <1>1, <2>4
<1>2. ASSUME NEW c \in Calls, Subscribe(c), pc'[c] \in {"extend", "write extend"} PROVE began'[c] < expires'[target'[c]]
  <2>0. c \in Procs
    BY LabelsAre
  <2>1. CASE FindActive(c)
    <3>1. PICK s \in ActiveOf(Caller[c]) : target' = [target EXCEPT ![c] = s]
      BY <2>1 DEF FindActive
    <3>2. s \in Calls /\ expires[s] > now
      BY <3>1 DEF ActiveOf, ActiveAt
    <3>3. target'[c] = s /\ began'[c] = now /\ expires' = expires
      BY <1>0, <2>0, <2>1, <3>1, Domains DEF FindActive, rowVars
    <3> QED
      BY <1>0, <3>2, <3>3, ClockNumbers
  <2>2. CASE Pay(c, Caller[c], "extend", "write extend")
    BY <1>1, <2>2 DEF Pay
  <2>3. CASE ~ FindActive(c) /\ ~ Pay(c, Caller[c], "extend", "write extend")
    BY <1>0, <1>2, <2>0, <2>3, Domains
       DEF Subscribe, FindNone, Pay, CannotPay, CommitExtend, RollBackExtend, CommitCreate, AbortCall, Goto
  <2> QED
    BY <2>1, <2>2, <2>3
<1>3. ASSUME NEW p \in Procs, Others(p), NEW c \in Calls, c # p, pc'[c] \in {"extend", "write extend"}
      PROVE  began'[c] < expires'[target'[c]]
  BY <1>1, <1>3, LabelsAre DEF Others
<1>4. CASE UNCHANGED procVars
  BY <1>1, <1>4 DEF ExtendsWhatWasActive, procVars
<1>5. ASSUME NEW c \in Calls, Subscribe(c) PROVE ExtendsWhatWasActive'
  BY <1>0, <1>2, <1>3, <1>5, CallMoves, LabelsAre DEF ExtendsWhatWasActive
<1>6. ASSUME NEW j \in Jobs, Sweep(j) PROVE ExtendsWhatWasActive'
  BY <1>0, <1>3, <1>6, SweepMoves, LabelsAre DEF ExtendsWhatWasActive, Procs
<1> QED
  BY <1>4, <1>5, <1>6 DEF Next, Cancel, Tick, vars

\* Only a call extends a row that stays expired, and then its user has another one.
LEMMA ExpiredRows ==
    ASSUME MoneyInv, ClocksAreClose, ExtendsWhatWasActive, [Next]_vars, WindowAssumption,
           NEW s \in Calls, status'[s] = "expired"
    PROVE  \/ status[s] = "expired" /\ expires'[s] = expires[s]
           \/ now' = now /\ expires'[s] = expires[s] /\ expires[s] <= now
           \/ HadAnother(s)'
<1>0. TypeOK /\ TargetsExist /\ RowsAreNew /\ RowsGrow
  BY RowsStay DEF MoneyInv
<1> DEFINE Goal == \/ status[s] = "expired" /\ expires'[s] = expires[s]
                   \/ now' = now /\ expires'[s] = expires[s] /\ expires[s] <= now
                   \/ HadAnother(s)'
<1>1. ASSUME NEW c \in Calls, CommitExtend(c) PROVE Goal
  <2>1. CASE s = target[c]
    <3>1. status' = status /\ status[s] = "expired" /\ Caller[s] = Caller[c]
      BY <1>0, <1>1, <2>1 DEF CommitExtend, TargetsExist, CallAt
    <3>2. PICK t \in Calls : Caller[t] = Caller[c] /\ status[t] = "active"
      BY <1>1, <2>1, <3>1 DEF CommitExtend, StillActive, ActiveAt
    <3>3. t # s /\ Caller[t] = Caller[s] /\ status'[t] # "none"
      BY <3>1, <3>2
    <3>4. started'[t] = started[t] /\ started[t] <= now
      BY <1>1 DEF CommitExtend, ClocksAreClose
    <3>5. now <= began[c] + MaxDowntime /\ began[c] < expires[s]
      BY <1>1, <2>1 DEF CommitExtend, ClocksAreClose, ExtendsWhatWasActive, InCall
    <3>6. expires'[s] = expires[s] + Period
      BY <1>0, <1>1, <2>1, Domains DEF CommitExtend
    <3>7. started'[t] <= expires'[s]
      <4>1. /\ started[t] \in Int /\ expires[s] \in Int /\ began[c] \in Int /\ now \in Int
            /\ MaxDowntime \in Nat /\ Period \in Nat /\ RetryAfter \in Nat /\ Period >= 2 * MaxDowntime + RetryAfter
        BY <1>0, ClockNumbers, Numbers, LabelsAre DEF WindowAssumption
      <4> HIDE DEF Goal
      <4> QED
        BY <3>4, <3>5, <3>6, <4>1
    <3> QED
      BY <3>3, <3>7 DEF HadAnother
  <2>2. CASE s # target[c]
    BY <1>0, <1>1, <2>2, Domains DEF CommitExtend
  <2> QED
    BY <2>1, <2>2
<1>2. ASSUME NEW j \in Jobs, CommitRenew(j) PROVE Goal
  <2>1. target[j] \in Calls
    BY <1>0, <1>2 DEF CommitRenew, TargetsExist, JobAt
  <2>2. s # target[j] /\ status'[s] = status[s] /\ expires'[s] = expires[s]
    BY <1>0, <1>2, <2>1, Domains DEF CommitRenew
  <2> QED
    BY <2>2
<1>3. ASSUME NEW j \in Jobs, Expire(j) PROVE Goal
  BY <1>3 DEF Expire
<1>4. ASSUME NEW c \in Calls, NEW auto \in BOOLEAN, CommitCreate(c, auto) PROVE Goal
  BY <1>0, <1>4, Domains DEF CommitCreate
<1>5. ASSUME NEW r \in Calls, Cancel(r) PROVE Goal
  BY <1>0, <1>5, Domains DEF Cancel
<1>6. ASSUME UNCHANGED <<status, expires>> PROVE Goal
  BY <1>6
<1> HIDE DEF Goal
<1>7. ASSUME NEW c \in Calls, Subscribe(c) PROVE Goal
  BY <1>1, <1>4, <1>6, <1>7 DEF Subscribe, FindActive, FindNone, Pay, CannotPay, RollBackExtend, AbortCall, rowVars
<1>8. ASSUME NEW j \in Jobs, Sweep(j) PROVE Goal
  BY <1>2, <1>3, <1>6, <1>8 DEF Sweep, List, Renew, Pay, CannotPay, FailRenew, MarkAttempt, CrashJob, rowVars
<1>9. Goal
  BY <1>5, <1>6, <1>7, <1>8 DEF Next, Tick, vars, rowVars
<1> QED
  BY <1>9 DEF Goal

LEMMA ExpiredStep ==
    ASSUME ExpiryInv, [Next]_vars, WindowAssumption
    PROVE  ExpiredMeansOver'
<1>0. MoneyInv /\ ClocksAreClose /\ ExtendsWhatWasActive /\ ExpiredMeansOver /\ TypeOK /\ RowsGrow
  BY RowsStay DEF ExpiryInv, MoneyInv
<1>1. ASSUME NEW s \in Calls, status'[s] = "expired", ~ HadAnother(s)' PROVE expires'[s] <= now'
  <2>1. expires[s] \in Int /\ now \in Int
    BY <1>0, ClockNumbers
  <2>2. CASE status[s] = "expired" /\ expires'[s] = expires[s]
    <3>1. ~ HadAnother(s)
      BY <1>0, <1>1, <2>2 DEF HadAnother, RowsGrow
    <3>2. expires[s] <= now
      BY <1>0, <2>2, <3>1 DEF ExpiredMeansOver
    <3>3. now' = now \/ now' = now + 1
      BY <1>0, CallClock, SweepClock DEF Next, Cancel, Tick, vars, clockVars
    <3> QED
      BY <2>1, <2>2, <3>2, <3>3
  <2> QED
    BY <1>0, <1>1, <2>1, <2>2, ExpiredRows
<1> QED
  BY <1>1 DEF ExpiredMeansOver

LEMMA ExpiryInit == Init => ExpiryInv
<1> SUFFICES ASSUME Init PROVE ExpiryInv
  OBVIOUS
<1>1. MoneyInv
  BY MoneyInit
<1>2. ClocksAreClose
  <2>1. MaxDowntime \in Nat /\ now = 0 /\ lastSweep = 0 /\ \A p \in Procs : pc[p] = "idle"
    BY Numbers DEF Init
  <2>2. \A s \in Calls : started[s] = 0
    BY DEF Init
  <2>3. lastSweep <= now /\ now <= lastSweep + MaxDowntime /\ \A s \in Calls : started[s] <= now
    BY <2>1, <2>2
  <2>4. (\A j \in Jobs : pc[j] = "idle") /\ (\A c \in Calls : pc[c] \notin InCall)
    BY <2>1, LabelsAre DEF InCall
  <2> QED
    BY <2>3, <2>4 DEF ClocksAreClose
<1>3. ExtendsWhatWasActive /\ ExpiredMeansOver
  BY LabelsAre DEF Init, ExtendsWhatWasActive, ExpiredMeansOver
<1> QED
  BY <1>1, <1>2, <1>3 DEF ExpiryInv

LEMMA ExpiryStep == WindowAssumption /\ ExpiryInv /\ [Next]_vars => ExpiryInv'
<1> SUFFICES ASSUME WindowAssumption, ExpiryInv, [Next]_vars PROVE ExpiryInv'
  OBVIOUS
<1>1. MoneyInv /\ ClocksAreClose /\ ExtendsWhatWasActive /\ TypeOK
  BY DEF ExpiryInv, MoneyInv
<1>2. MoneyInv'
  BY <1>1, MoneyStep
<1> QED
  BY <1>1, <1>2, ClocksStep, ExtendsStep, ExpiredStep DEF ExpiryInv

LEMMA ExpiryInvariant == Spec => []ExpiryInv
BY WindowAssumption, ExpiryInit, ExpiryStep, PTL DEF Spec

\* A row is marked expired only when its paid time is over, whatever a renewal,
\* an extension and a sweep do at once (renewOne: "Without this the user has
\* paid and still has no access").
THEOREM ExpiredIsOver == Spec => []ExpiredMeansOver
<1>1. ExpiryInv => ExpiredMeansOver
  BY DEF ExpiryInv
<1> QED
  BY <1>1, ExpiryInvariant, PTL

-----------------------------------------------------------------------------
(* Failures not yet marked, and how far behind a sweep may be. *)
LEMMA Counted ==
    ASSUME NEW s
    PROVE  IsFiniteSet(Unmarked(s)) /\ Cardinality(Unmarked(s)) \in Nat
<1>1. Unmarked(s) \subseteq Jobs
  BY DEF Unmarked
<1>2. IsFiniteSet(Unmarked(s))
  BY <1>1, FS_Subset
<1> QED
  BY <1>2, FS_CardinalityType

\* A failure that is marked, or forgotten by a crash, counts from then on.
LEMMA LevelMoves ==
    ASSUME TypeOK, [Next]_vars, NEW s \in Calls, Cardinality(Unmarked(s)) <= faults
    PROVE  /\ Level(s)' = Level(s) \/ Level(s)' = Level(s) + 1
           /\ Cardinality(Unmarked(s)') <= faults'
<1> DEFINE Goal == /\ Level(s)' = Level(s) \/ Level(s)' = Level(s) + 1
                   /\ Cardinality(Unmarked(s)') <= faults'
<1>0. faults \in Int /\ Cardinality(Unmarked(s)) \in Nat /\ IsFiniteSet(Unmarked(s))
  BY ClockNumbers, Counted
<1>1. ASSUME Unmarked(s)' = Unmarked(s), faults' = faults \/ faults' = faults + 1 PROVE Goal
  BY <1>0, <1>1 DEF Level
<1>2. ASSUME NEW j \in Jobs, FailRenew(j) PROVE Goal
  <2>1. pc'[j] = "mark failed" /\ pc[j] # "mark failed" /\ target' = target /\ faults' = faults + 1
    BY <1>2, Domains, LabelsAre DEF FailRenew, Goto
  <2>2. \A k \in Jobs : k # j => pc'[k] = pc[k]
    BY <1>2, SweepMoves, LabelsAre DEF Others, Sweep
  <2>3. CASE target[j] = s
    <3>1. Unmarked(s)' = Unmarked(s) \cup {j} /\ j \notin Unmarked(s)
      <4>1. j \notin Unmarked(s) /\ \A k \in Jobs : k # j => (k \in Unmarked(s)' <=> k \in Unmarked(s))
        BY <2>1, <2>2 DEF Unmarked
      <4>2. j \in Unmarked(s)' /\ Unmarked(s) \subseteq Jobs /\ Unmarked(s)' \subseteq Jobs
        BY <2>1, <2>3 DEF Unmarked
      <4> QED
        BY <4>1, <4>2
    <3>2. Cardinality(Unmarked(s)') = Cardinality(Unmarked(s)) + 1
      BY <1>0, <3>1, FS_AddElement
    <3>3. Level(s)' = faults' - Cardinality(Unmarked(s)') /\ Level(s) = faults - Cardinality(Unmarked(s))
      BY DEF Level
    <3>4. ASSUME NEW n \in Nat, n = Cardinality(Unmarked(s)) PROVE Goal
      <4>1. Level(s)' = (faults + 1) - (n + 1) /\ Level(s) = faults - n /\ Cardinality(Unmarked(s)') = n + 1
        BY <2>1, <3>2, <3>3, <3>4
      <4>2. (faults + 1) - (n + 1) = faults - n /\ n + 1 <= faults + 1
        BY <1>0, <3>4
      <4> QED
        BY <2>1, <4>1, <4>2
    <3> QED
      BY <1>0, <3>4
  <2>4. CASE target[j] # s
    <3>1. Unmarked(s)' = Unmarked(s)
      BY <2>1, <2>2, <2>4 DEF Unmarked
    <3> QED
      BY <1>1, <2>1, <3>1
  <2> QED
    BY <2>3, <2>4
<1>3. ASSUME NEW j \in Jobs, Sweep(j), ~ FailRenew(j) PROVE Goal
  <2>1. faults' = faults
    BY <1>3 DEF Sweep, clockVars, List, Renew, Pay, CannotPay, CommitRenew, MarkAttempt, Expire, CrashJob
  <2>2. \A k \in Jobs : k # j => pc'[k] = pc[k] /\ target'[k] = target[k]
    BY <1>3, SweepMoves, LabelsAre DEF Others
  <2>3. pc'[j] # "mark failed"
    BY <1>3, Domains, LabelsAre
       DEF Sweep, Goto, List, Renew, Pay, CannotPay, CommitRenew, MarkAttempt, Expire, CrashJob
  <2>4. Unmarked(s)' = Unmarked(s) \ {j}
    BY <2>2, <2>3 DEF Unmarked
  <2>5. Cardinality(Unmarked(s)') \in {Cardinality(Unmarked(s)), Cardinality(Unmarked(s)) - 1}
    BY <1>0, <2>4, FS_RemoveElement
  <2> QED
    BY <1>0, <2>1, <2>5 DEF Level
<1>4. ASSUME NEW c \in Calls, Subscribe(c) PROVE Goal
  <2>1. \A k \in Jobs : pc'[k] = pc[k] /\ target'[k] = target[k]
    BY <1>4, CallMoves, LabelsAre DEF Others
  <2>2. Unmarked(s)' = Unmarked(s)
    BY <2>1 DEF Unmarked
  <2> QED
    BY <1>1, <1>4, <2>2, CallClock DEF clockVars
<1>5. ASSUME UNCHANGED <<procVars, faults>> PROVE Goal
  <2>1. Unmarked(s)' = Unmarked(s)
    BY <1>5 DEF Unmarked, procVars
  <2> QED
    BY <1>1, <1>5, <2>1
<1> HIDE DEF Goal
<1>6. Goal
  BY <1>2, <1>3, <1>4, <1>5 DEF Next, Sweep, Cancel, Tick, vars, clockVars
<1> QED
  BY <1>6 DEF Goal

LEMMA OneLess == \A f \in Int, n \in Nat : f - (n - 1) = (f - n) + 1
OBVIOUS

LEMMA MarkingRaises ==
    ASSUME TypeOK, NEW s \in Calls, NEW j \in Jobs, MarkAttempt(j), pc[j] = "mark failed", target[j] = s
    PROVE  Level(s)' = Level(s) + 1
<1>1. pc'[j] = "sweep" /\ faults' = faults
  BY Domains, LabelsAre DEF MarkAttempt, Goto, clockVars
<1>2. \A k \in Jobs : k # j => pc'[k] = pc[k] /\ target'[k] = target[k]
  BY SweepMoves, LabelsAre DEF Others, Sweep
<1>3. Unmarked(s)' = Unmarked(s) \ {j} /\ j \in Unmarked(s)
  BY <1>1, <1>2 DEF Unmarked
<1>4. Cardinality(Unmarked(s)') = Cardinality(Unmarked(s)) - 1
  <2>1. IsFiniteSet(Unmarked(s))
    BY Counted
  <2> QED
    BY <1>3, <2>1, FS_RemoveElement
<1>5. Level(s)' = faults' - Cardinality(Unmarked(s)') /\ Level(s) = faults - Cardinality(Unmarked(s))
  BY DEF Level
<1>6. ASSUME NEW n \in Nat, n = Cardinality(Unmarked(s)) PROVE Level(s)' = Level(s) + 1
  <2>1. Level(s)' = faults - (n - 1) /\ Level(s) = faults - n /\ faults \in Int
    BY <1>1, <1>4, <1>5, <1>6, ClockNumbers
  <2>2. faults - (n - 1) = (faults - n) + 1
    BY <2>1, OneLess
  <2> QED
    BY <2>1, <2>2
<1> QED
  BY <1>6, Counted

\* What a failure adds to the latest time, and a payment.
LEMMA Delays ==
    ASSUME TypeOK, NEW s \in Calls
    PROVE  /\ Delay \in Nat /\ Level(s) \in Int /\ Latest(s) \in Int
           /\ (Level(s) + 1) * Delay = Level(s) * Delay + Delay
           /\ Level(s) >= 0 => Level(s) * Delay >= 0
<1>1. Delay \in Nat
  BY Numbers DEF Delay
<1>2. Level(s) \in Int
  BY ClockNumbers, Counted DEF Level
<1>3. ASSUME NEW n \in Int PROVE n * Delay \in Int /\ (n + 1) * Delay = n * Delay + Delay /\ (n >= 0 => n * Delay >= 0)
  BY <1>1
<1>4. expires[s] \in Int /\ Lookahead \in Int
  BY ClockNumbers, Numbers
<1>5. Latest(s) = expires[s] - Lookahead - 1 + Level(s) * Delay
  BY DEF Latest
<1> QED
  BY <1>1, <1>2, <1>3, <1>4, <1>5

LEMMA LatestMoves ==
    ASSUME TypeOK, [Next]_vars, NEW s \in Calls, Cardinality(Unmarked(s)) <= faults,
           Kept(s) \/ Bought(s)
    PROVE  /\ Latest(s) <= Latest(s)' /\ Latest(s)' \in Int
           /\ Bought(s) => Latest(s) + Period <= Latest(s)'
           /\ Level(s)' = Level(s) + 1 => Latest(s) + Delay <= Latest(s)'
<1>1. Level(s)' = Level(s) \/ Level(s)' = Level(s) + 1
  BY LevelMoves
<1>2. /\ Delay \in Nat /\ Level(s) \in Int /\ expires[s] \in Int /\ Lookahead \in Int /\ Period \in Nat
      /\ (Level(s) + 1) * Delay = Level(s) * Delay + Delay /\ Level(s) * Delay \in Int
  BY Delays, ClockNumbers, Numbers
<1>3. expires'[s] = expires[s] \/ expires'[s] = expires[s] + Period
  BY DEF Kept, Bought
<1>4. Latest(s) = expires[s] - Lookahead - 1 + Level(s) * Delay
  BY DEF Latest
<1>5. Latest(s)' = expires'[s] - Lookahead - 1 + Level(s)' * Delay
  BY DEF Latest, Delay
<1>6. Level(s)' * Delay = Level(s) * Delay \/ Level(s)' * Delay = Level(s) * Delay + Delay
  BY <1>1, <1>2
<1>7. Latest(s) <= Latest(s)' /\ (expires'[s] = expires[s] + Period => Latest(s) + Period <= Latest(s)')
  BY <1>2, <1>3, <1>4, <1>5, <1>6
<1>8. Latest(s)' \in Int
  <2>1. Level(s)' * Delay \in Int /\ expires'[s] \in Int
    BY <1>2, <1>3, <1>6
  <2> QED
    BY <1>2, <1>5, <2>1
<1>9. ASSUME Level(s)' = Level(s) + 1 PROVE Latest(s) + Delay <= Latest(s)'
  <2>1. Level(s)' * Delay = Level(s) * Delay + Delay
    BY <1>2, <1>9
  <2> QED
    BY <1>2, <1>3, <1>4, <1>5, <2>1
<1> QED
  BY <1>7, <1>8, <1>9 DEF Bought

\* Nobody is wanted but who was, or who has just subscribed.
LEMMA WantedMoves ==
    ASSUME MoneyInv, [Next]_vars, NEW s \in Calls, Wanted(s)'
    PROVE  Wanted(s) \/ \E auto \in BOOLEAN : CommitCreate(s, auto)
<1>0. TypeOK /\ TargetsExist /\ RowsAreNew /\ PaysUnderLock /\ Caller[s] \in Users /\ Price \in Nat /\ wallet[Caller[s]] \in Int
  BY ClockNumbers, Numbers DEF MoneyInv
<1>1. wallet[Caller[s]] >= wallet'[Caller[s]]
  <2>1. ASSUME NEW p \in Procs, Takes(p) \/ Leaves(p) \/ Passes(p) PROVE wallet[Caller[s]] >= wallet'[Caller[s]]
    BY <1>0, <2>1 DEF Takes, Leaves, Passes
  <2>2. CASE wallet' = wallet
    BY <1>0, <2>2
  <2> QED
    BY <1>0, <2>1, <2>2, CallLocks, SweepLocks, LabelsAre DEF Next, Cancel, Tick, vars
<1>2. wallet[Caller[s]] >= Price
  <2>1. wallet'[Caller[s]] >= Price
    BY DEF Wanted
  <2>2. wallet'[Caller[s]] \in Int
    BY <1>0, TypeStep, ClockNumbers DEF TypeOK
  <2> QED
    BY <1>0, <1>1, <2>1, <2>2
<1>3. CASE \E c \in Calls, auto \in BOOLEAN : CommitCreate(c, auto)
  <2>1. PICK c \in Calls, auto \in BOOLEAN : CommitCreate(c, auto)
    BY <1>3
  <2>2. CASE s = c
    BY <2>1, <2>2
  <2>3. CASE s # c
    <3>1. status'[s] = status[s] /\ autoRenew'[s] = autoRenew[s]
      BY <1>0, <2>1, <2>3, Domains DEF CommitCreate
    <3> QED
      BY <1>2, <3>1 DEF Wanted
  <2> QED
    BY <2>2, <2>3
<1>4. CASE ~ \E c \in Calls, auto \in BOOLEAN : CommitCreate(c, auto)
  <2>1. status'[s] \in {"active", "expired"} /\ autoRenew'[s]
    BY DEF Wanted
  <2>2. status[s] \in {"active", "expired"} /\ autoRenew[s]
    <3>1. ASSUME NEW c \in Calls, Cancel(c) PROVE status[s] \in {"active", "expired"} /\ autoRenew[s]
      BY <1>0, <2>1, <3>1, Domains DEF Cancel
    <3>2. ASSUME NEW j \in Jobs, CommitRenew(j) \/ Expire(j) PROVE status[s] \in {"active", "expired"} /\ autoRenew[s]
      <4>1. CASE CommitRenew(j)
        BY <1>0, <2>1, <4>1, Domains DEF CommitRenew
      <4>2. CASE Expire(j)
        BY <1>0, <2>1, <4>2, Domains DEF Expire
      <4> QED
        BY <3>2, <4>1, <4>2
    <3>3. CASE UNCHANGED <<status, autoRenew>>
      BY <2>1, <3>3
    <3> QED
      BY <1>4, <3>1, <3>2, <3>3
         DEF Next, Subscribe, FindActive, FindNone, Pay, CannotPay, CommitExtend, RollBackExtend, AbortCall,
             Sweep, List, Renew, FailRenew, MarkAttempt, CrashJob, Tick, vars, rowVars
  <2> QED
    BY <1>2, <2>2 DEF Wanted
<1> QED
  BY <1>3, <1>4

\* A row is served from the moment it is created,
LEMMA CreatedIsServed ==
    ASSUME ExpiryInv, WindowAssumption, NEW c \in Calls, NEW auto \in BOOLEAN, CommitCreate(c, auto),
           [Next]_vars, Cardinality(Unmarked(c)) <= faults
    PROVE  Served(c)'
<1>0. MoneyInv /\ ClocksAreClose /\ TypeOK /\ TargetsExist /\ RowsAreNew /\ c \in Procs
  BY LabelsAre DEF ExpiryInv, MoneyInv
<1>1. status[c] = "none" /\ attempt'[c] = Never
  BY <1>0 DEF RowsAreNew, CommitCreate, InCall
<1>2. expires'[c] = began[c] + Period
  BY <1>0, Domains DEF CommitCreate
<1>3. began[c] <= now /\ now <= began[c] + MaxDowntime
  BY <1>0 DEF CommitCreate, ClocksAreClose, InCall
<1>4. Level(c)' >= 0
  <2>1. Cardinality(Unmarked(c)') <= faults'
    BY <1>0, LevelMoves
  <2>2. Level(c)' = faults' - Cardinality(Unmarked(c)')
    BY DEF Level
  <2>3. faults' \in Int /\ Cardinality(Unmarked(c)') \in Nat
    <3>1. faults' = faults
      BY DEF CommitCreate, clockVars
    <3>2. Unmarked(c)' = Unmarked(c)
      <4>1. \A j \in Jobs : pc'[j] = pc[j] /\ target'[j] = target[j]
        BY <1>0, CallMoves, LabelsAre DEF Others, Subscribe
      <4> QED
        BY <4>1 DEF Unmarked
    <3> QED
      BY <1>0, <3>1, <3>2, ClockNumbers, Counted
  <2> QED
    BY <2>1, <2>2, <2>3
<1>5. now <= Latest(c)'
  <2>1. /\ Delay \in Nat /\ now \in Int /\ began[c] \in Int /\ Lookahead \in Int /\ MaxDowntime \in Int /\ Period \in Int
        /\ Period > MaxDowntime + Lookahead
    BY <1>0, ClockNumbers, Delays, Numbers DEF WindowAssumption
  <2>2. Level(c)' \in Int
    BY <1>0, LevelMoves, Delays
  <2>3. \A n \in Int : n >= 0 => n * Delay \in Int /\ n * Delay >= 0
    BY <2>1
  <2>4. Level(c)' * Delay \in Int /\ Level(c)' * Delay >= 0
    BY <1>4, <2>2, <2>3
  <2>5. Latest(c)' = expires'[c] - Lookahead - 1 + Level(c)' * Delay
    BY DEF Latest, Delay
  <2> QED
    BY <1>2, <1>3, <2>1, <2>4, <2>5
<1>6. Latest(c)' \in Int
  <2>1. expires'[c] \in Int /\ Level(c)' * Delay \in Int /\ Lookahead \in Int
    <3>1. Level(c)' \in Int /\ Delay \in Nat
      BY <1>0, LevelMoves, Delays
    <3>2. began[c] + Period \in Int
      BY <1>0, ClockNumbers, Numbers
    <3> QED
      BY <1>2, <3>1, <3>2, Numbers
  <2>2. Latest(c)' = expires'[c] - Lookahead - 1 + Level(c)' * Delay
    BY DEF Latest, Delay
  <2> QED
    BY <2>1, <2>2
<1>7. lastSweep' <= Latest(c)'
  <2>1. lastSweep' = lastSweep /\ lastSweep <= now /\ lastSweep \in Int /\ now \in Int
    BY <1>0, ClockNumbers DEF CommitCreate, clockVars, ClocksAreClose
  <2> QED
    BY <1>5, <1>6, <2>1
<1>8. ASSUME NEW j \in Jobs PROVE ServedBy(j, c)'
  <2>1. pc'[j] = pc[j] /\ began'[j] = began[j] /\ target'[j] = target[j]
    BY <1>0, CallMoves, LabelsAre DEF Others, Subscribe
  <2>2. pc[j] \in Marks => target[j] # c
    BY <1>0, <1>1 DEF TargetsExist, JobAt
  <2>3. pc[j] # "idle" => began[j] <= now /\ began[j] \in Int /\ now \in Int
    BY <1>0, ClockNumbers, LabelsAre DEF ClocksAreClose
  <2>4. pc'[j] # "idle" => began'[j] <= Latest(c)'
    BY <1>5, <1>6, <2>1, <2>3
  <2> QED
    BY <2>1, <2>2, <2>4 DEF ServedBy, Marks
<1> QED
  BY <1>1, <1>7, <1>8 DEF Served

\* what a process leaves alone stays served as the latest time grows,
LEMMA ServedStays ==
    ASSUME TypeOK, NEW s \in Calls, Served(s), Latest(s) <= Latest(s)', Latest(s)' \in Int,
           NEW j \in Jobs, pc'[j] = pc[j], target'[j] = target[j], began'[j] = began[j], due'[j] = due[j]
    PROVE  ServedBy(j, s)'
<1>1. ServedBy(j, s) /\ began[j] \in Int /\ Delay \in Nat /\ Latest(s) \in Int
  BY ClockNumbers, Delays, LabelsAre DEF Served
<1>2. began[j] <= Latest(s) => began'[j] <= Latest(s)'
  BY <1>1
<1>3. began[j] + Delay <= Latest(s) => began'[j] + Delay <= Latest(s)'
  BY <1>1
<1>4. Delay' = Delay
  BY DEF Delay
<1> QED
  BY <1>1, <1>2, <1>3, <1>4 DEF ServedBy

\* and so does the rest of it.
LEMMA RestStays ==
    ASSUME TypeOK, NEW s \in Calls, Served(s), Latest(s) <= Latest(s)', Latest(s)' \in Int,
           attempt'[s] = attempt[s], lastSweep' = lastSweep
    PROVE  /\ lastSweep' <= Latest(s)'
           /\ attempt'[s] # Never => attempt'[s] + RetryAfter <= Latest(s)'
<1>1. /\ lastSweep \in Int /\ attempt[s] \in Int /\ Latest(s) \in Int /\ RetryAfter \in Int
  BY ClockNumbers, Delays, Numbers
<1> QED
  BY <1>1 DEF Served

\* No call, and nothing but a sweep, takes a row out of time.
LEMMA CallsServe ==
    ASSUME TypeOK, NEW s \in Calls, Served(s), Latest(s) <= Latest(s)', Latest(s)' \in Int,
           (\E c \in Calls : Subscribe(c) \/ Cancel(c)) \/ Tick \/ UNCHANGED vars
    PROVE  Served(s)'
<1>1. attempt' = attempt /\ lastSweep' = lastSweep
  BY DEF Subscribe, FindActive, FindNone, Pay, CannotPay, CommitExtend, RollBackExtend, CommitCreate, AbortCall,
         Cancel, Tick, vars, rowVars, clockVars
<1>2. ASSUME NEW j \in Jobs
      PROVE  pc'[j] = pc[j] /\ target'[j] = target[j] /\ began'[j] = began[j] /\ due'[j] = due[j]
  <2>1. ASSUME NEW c \in Calls, Subscribe(c)
        PROVE  pc'[j] = pc[j] /\ target'[j] = target[j] /\ began'[j] = began[j] /\ due'[j] = due[j]
    BY <2>1, CallMoves, LabelsAre DEF Others
  <2>2. CASE UNCHANGED procVars
    BY <2>2 DEF procVars
  <2> QED
    BY <2>1, <2>2 DEF Cancel, Tick, vars
<1>3. \A j \in Jobs : ServedBy(j, s)'
  BY <1>2, ServedStays
<1> QED
  BY <1>1, <1>3, RestStays DEF Served

\* What is in time is in the grace window.
LEMMA InGrace ==
    ASSUME ExpiryInv, NEW s \in Calls, InTime(s), Wanted(s), WindowAssumption
    PROVE  now < expires[s] + Grace
<1>0. TypeOK /\ ClocksAreClose /\ Served(s)
  BY DEF ExpiryInv, MoneyInv, InTime
<1>1. /\ now \in Int /\ lastSweep \in Int /\ expires[s] \in Int /\ faults \in Int /\ Cardinality(Unmarked(s)) \in Nat
      /\ Lookahead \in Nat /\ Grace \in Nat /\ MaxDowntime \in Nat /\ MaxFaults \in Nat /\ Delay \in Nat /\ Level(s) \in Int
  BY <1>0, ClockNumbers, Counted, Delays, Numbers
<1>2. Level(s) <= MaxFaults
  <2>1. faults <= MaxFaults
    BY <1>0, <1>1, TypeParts DEF ClocksTyped
  <2> QED
    BY <1>1, <2>1 DEF Level
<1>3. Level(s) * Delay <= MaxFaults * Delay /\ Level(s) * Delay \in Int /\ MaxFaults * Delay \in Int
  BY <1>1, <1>2
<1>4. Grace + Lookahead >= MaxDowntime + MaxFaults * Delay
  BY DEF WindowAssumption, Delay
<1>5. lastSweep <= expires[s] - Lookahead - 1 + Level(s) * Delay /\ now <= lastSweep + MaxDowntime
  BY <1>0 DEF Served, Latest, ClocksAreClose
<1> QED
  BY <1>1, <1>3, <1>4, <1>5

\* A sweep that does not list a row, may begin as late as that.
LEMMA NotListed ==
    ASSUME ExpiryInv, NEW s \in Calls, InTime(s), Wanted(s), WindowAssumption, s \notin Due
    PROVE  now <= Latest(s)
<1>0. MoneyInv /\ TypeOK /\ ClocksAreClose /\ Served(s)
  BY DEF ExpiryInv, MoneyInv, InTime
<1>1. /\ now \in Int /\ lastSweep \in Int /\ expires[s] \in Int /\ attempt[s] \in Int /\ faults \in Int
      /\ Lookahead \in Nat /\ Grace \in Nat /\ RetryAfter \in Nat /\ Never \in Int /\ Never < -RetryAfter
      /\ Delay \in Nat /\ Level(s) \in Int /\ Level(s) >= 0 /\ Level(s) * Delay \in Int /\ Level(s) * Delay >= 0
  <2>1. Level(s) >= 0
    BY <1>0, ClockNumbers, Counted DEF InTime, Level
  <2>2. Level(s) \in Int /\ Delay \in Nat
    BY <1>0, Delays
  <2> QED
    BY <1>0, <2>1, <2>2, ClockNumbers, Delays, Numbers
<1>2. Latest(s) = expires[s] - Lookahead - 1 + Level(s) * Delay /\ Latest(s) \in Int
  BY <1>0, Delays DEF Latest
<1>3. CASE expires[s] > now + Lookahead
  BY <1>1, <1>2, <1>3
<1>4. CASE attempt[s] >= now - RetryAfter
  <2>1. 0 <= now
    BY <1>0, TypeParts, Numbers DEF ClocksTyped
  <2>2. attempt[s] # Never
    BY <1>1, <1>4, <2>1
  <2>3. attempt[s] + RetryAfter <= Latest(s)
    BY <1>0, <2>2 DEF Served
  <2> QED
    BY <1>1, <1>2, <1>4, <2>3
<1>5. expires[s] > now - Grace
  BY <1>0, InGrace, <1>1
<1>6. expires[s] > now + Lookahead \/ attempt[s] >= now - RetryAfter
  <2>1. status[s] \in {"active", "expired"} /\ autoRenew[s]
    BY DEF Wanted
  <2> QED
    BY <1>1, <1>5, <2>1 DEF Due
<1> QED
  BY <1>3, <1>4, <1>6

\* A sweep serves what it works on, or has begun early enough to leave it.
LEMMA SweepsServe ==
    ASSUME ExpiryInv, WindowAssumption, [Next]_vars, NEW s \in Calls, InTime(s), Wanted(s), Wanted(s)',
           NEW j \in Jobs, Sweep(j)
    PROVE  Served(s)'
<1>0. /\ MoneyInv /\ TypeOK /\ TargetsExist /\ RowsAreNew /\ ClocksAreClose /\ JobAt(j) /\ j \in Procs
      /\ Served(s) /\ ServedBy(j, s) /\ Cardinality(Unmarked(s)) <= faults
  BY LabelsAre DEF ExpiryInv, MoneyInv, InTime, TargetsExist, Served
<1>1. Kept(s) \/ Bought(s)
  <2>1. status[s] # "none"
    BY DEF Wanted
  <2> QED
    BY <1>0, <2>1, TimesMove DEF Created
<1>2. /\ Latest(s) <= Latest(s)' /\ Latest(s)' \in Int /\ Latest(s) \in Int
      /\ now \in Int /\ lastSweep \in Int /\ began[j] \in Int /\ attempt[s] \in Int
      /\ Delay = MaxDowntime + RetryAfter /\ MaxDowntime \in Nat /\ RetryAfter \in Nat /\ Period \in Nat
  BY <1>0, <1>1, LatestMoves, Delays, ClockNumbers, Numbers DEF Delay
<1>3. now <= lastSweep + MaxDowntime /\ lastSweep <= Latest(s) /\ (pc[j] # "idle" => now <= began[j] + MaxDowntime /\ began[j] <= now)
  BY <1>0 DEF ClocksAreClose, Served
<1>4. \A k \in Jobs : k # j => ServedBy(k, s)'
  <2>1. ASSUME NEW k \in Jobs, k # j PROVE ServedBy(k, s)'
    <3>1. pc'[k] = pc[k] /\ target'[k] = target[k] /\ began'[k] = began[k] /\ due'[k] = due[k]
      BY <1>0, <2>1, SweepMoves, LabelsAre DEF Others
    <3> QED
      BY <1>0, <1>2, <3>1, ServedStays
  <2> QED
    BY <2>1
<1>5. /\ attempt'[s] = attempt[s] /\ lastSweep' = lastSweep =>
           lastSweep' <= Latest(s)' /\ (attempt'[s] # Never => attempt'[s] + RetryAfter <= Latest(s)')
  BY <1>0, <1>2, RestStays
<1>6. CASE List(j)
  <2>1. pc'[j] = "sweep" /\ due'[j] = Due /\ began'[j] = now /\ attempt' = attempt /\ lastSweep' = lastSweep
    BY <1>0, <1>6, Domains DEF List, Goto, rowVars, clockVars
  <2>2. s \notin Due => now <= Latest(s)
    BY NotListed
  <2>3. s \in due'[j] \/ began'[j] <= Latest(s)'
    BY <1>2, <2>1, <2>2
  <2>4. ServedBy(j, s)'
    BY <2>1, <2>3 DEF ServedBy
  <2> QED
    BY <1>4, <1>5, <2>1, <2>4 DEF Served
<1>7. CASE Renew(j)
  <2>1. PICK t \in due[j] : target' = [target EXCEPT ![j] = t]
    BY <1>7 DEF Renew
  <2>2. /\ pc[j] = "sweep" /\ target[j] = Nobody /\ pc'[j] = "renew" /\ target'[j] = t /\ due'[j] = due[j] \ {t}
        /\ began'[j] = began[j] /\ attempt' = attempt /\ lastSweep' = lastSweep
    BY <1>0, <1>7, <2>1, Domains DEF Renew, Goto, rowVars, clockVars, JobAt
  <2>3. s \in due[j] \/ began[j] <= Latest(s)
    BY <1>0, <2>2, LabelsAre DEF ServedBy, Procs
  <2>4. s \in due'[j] \/ target'[j] = s \/ began'[j] <= Latest(s)'
    BY <1>2, <2>2, <2>3
  <2>5. ServedBy(j, s)'
    BY <2>2, <2>4 DEF ServedBy
  <2> QED
    BY <1>4, <1>5, <2>2, <2>5 DEF Served
<1>8. ASSUME pc[j] # "idle", target'[j] = target[j], due'[j] = due[j], began'[j] = began[j], attempt' = attempt,
             lastSweep' = lastSweep, pc'[j] \in {"write renew", "mark failed", "mark unpaid", "mark renewed"},
             pc'[j] = "mark unpaid" => target[j] # s,
             pc'[j] = "mark renewed" /\ target[j] = s => began[j] + Delay <= Latest(s)'
      PROVE  Served(s)'
  <2>1. s \in due'[j] \/ target'[j] = s \/ began'[j] <= Latest(s)'
    <3>1. s \in due[j] \/ target[j] = s \/ began[j] <= Latest(s)
      BY <1>0, <1>8 DEF ServedBy
    <3>2. began[j] <= Latest(s) => began[j] <= Latest(s)'
      BY <1>2
    <3> QED
      BY <1>8, <3>1, <3>2
  <2>2. ServedBy(j, s)'
    BY <1>8, <2>1 DEF ServedBy, Delay
  <2> QED
    BY <1>4, <1>5, <1>8, <2>2 DEF Served
<1>9. CASE \/ target[j] # Nobody /\ Pay(j, Caller[target[j]], "renew", "write renew")
           \/ FailRenew(j)
  <2>1. /\ pc[j] # "idle" /\ target' = target /\ due' = due /\ began' = began /\ attempt' = attempt
        /\ lastSweep' = lastSweep /\ pc'[j] \in {"write renew", "mark failed"}
    BY <1>0, <1>9, Domains DEF Pay, FailRenew, Goto, rowVars, clockVars
  <2> QED
    BY <1>8, <2>1
<1>10. CASE target[j] # Nobody /\ CannotPay(j, Caller[target[j]], "renew", "mark unpaid")
  <2>1. /\ pc[j] # "idle" /\ target' = target /\ due' = due /\ began' = began /\ attempt' = attempt
        /\ lastSweep' = lastSweep /\ pc'[j] = "mark unpaid"
    BY <1>0, <1>10, Domains DEF CannotPay, Goto, rowVars, clockVars
  <2>2. target[j] # s
    <3>1. wallet[Caller[target[j]]] < Price
      BY <1>10 DEF CannotPay
    <3>2. wallet[Caller[s]] >= Price /\ wallet[Caller[s]] \in Int /\ Price \in Int
      BY <1>0, ClockNumbers, Numbers DEF Wanted
    <3> QED
      BY <3>1, <3>2
  <2> QED
    BY <1>8, <2>1, <2>2
<1>11. CASE CommitRenew(j)
  <2>1. /\ pc[j] # "idle" /\ target' = target /\ due' = due /\ began' = began /\ attempt' = attempt
        /\ lastSweep' = lastSweep /\ pc'[j] = "mark renewed"
    BY <1>0, <1>11, Domains DEF CommitRenew, Goto, rowVars, clockVars
  <2>2. ASSUME target[j] = s PROVE began[j] + Delay <= Latest(s)'
    <3>1. Bought(s)
      <4>1. expires'[s] = expires[s] + Period /\ expires[s] \in Int /\ Period \in Nat \ {0}
        BY <1>0, <1>11, <2>2, Domains, ClockNumbers, NumberAssumption DEF CommitRenew
      <4> QED
        BY <1>1, <4>1 DEF Kept
    <3>2. Latest(s) + Period <= Latest(s)'
      BY <1>0, <3>1, LatestMoves
    <3>3. Period >= 2 * MaxDowntime + RetryAfter
      BY DEF WindowAssumption
    <3>4. began[j] <= Latest(s) + MaxDowntime
      <4>1. began[j] <= now /\ now <= lastSweep + MaxDowntime /\ lastSweep <= Latest(s)
        BY <1>3, <2>1
      <4> QED
        BY <1>2, <4>1
    <3> QED
      BY <1>2, <3>2, <3>3, <3>4
  <2> QED
    BY <1>8, <2>1, <2>2
<1>12. CASE MarkAttempt(j)
  <2>1. /\ pc[j] \in Marks /\ pc'[j] = "sweep" /\ target'[j] = Nobody /\ due' = due /\ began' = began
        /\ lastSweep' = lastSweep /\ attempt' = [attempt EXCEPT ![target[j]] = now]
    BY <1>0, <1>12, Domains DEF MarkAttempt, Goto, clockVars
  <2>2. CASE target[j] # s
    <3>1. attempt'[s] = attempt[s]
      BY <1>0, <2>1, <2>2, Domains
    <3>2. s \in due'[j] \/ began'[j] <= Latest(s)'
      <4>1. s \in due[j] \/ began[j] <= Latest(s)
        BY <1>0, <2>1, <2>2 DEF ServedBy, Marks
      <4> QED
        BY <1>2, <2>1, <4>1
    <3>3. ServedBy(j, s)'
      BY <2>1, <3>2 DEF ServedBy
    <3> QED
      BY <1>4, <1>5, <2>1, <3>1, <3>3 DEF Served
  <2>3. CASE target[j] = s
    <3>1. attempt'[s] = now
      BY <1>0, <2>1, <2>3, Domains
    <3>2. began[j] + Delay <= Latest(s)' \/ Latest(s) + Delay <= Latest(s)'
      <4>1. CASE pc[j] = "mark renewed"
        <5>1. began[j] + Delay <= Latest(s)
          BY <1>0, <2>3, <4>1 DEF ServedBy
        <5> QED
          BY <1>2, <5>1
      <4>2. CASE pc[j] = "mark failed"
        BY <1>0, <1>1, <1>12, <2>3, <4>2, MarkingRaises, LatestMoves
      <4>3. CASE pc[j] = "mark unpaid"
        BY <1>0, <2>3, <4>3 DEF ServedBy
      <4> QED
        BY <2>1, <4>1, <4>2, <4>3 DEF Marks
    <3>3. pc[j] # "idle"
      BY <2>1 DEF Marks
    <3>4. now + RetryAfter <= Latest(s)' /\ began[j] <= Latest(s)' /\ lastSweep <= Latest(s)'
      BY <1>2, <1>3, <3>2, <3>3
    <3>5. ServedBy(j, s)'
      BY <2>1, <3>4 DEF ServedBy
    <3> QED
      BY <1>4, <2>1, <3>1, <3>4, <3>5 DEF Served
  <2> QED
    BY <2>2, <2>3
<1>13. CASE Expire(j)
  <2>1. /\ pc[j] = "sweep" /\ due[j] = {} /\ pc'[j] = "idle" /\ attempt' = attempt
        /\ (lastSweep' = began[j] \/ lastSweep' = lastSweep)
    BY <1>0, <1>13, Domains DEF Expire, Goto
  <2>2. began[j] <= Latest(s)
    BY <1>0, <2>1, LabelsAre DEF ServedBy, JobAt, Procs
  <2>3. lastSweep' <= Latest(s)'
    BY <1>2, <1>3, <2>1, <2>2
  <2>4. attempt[s] # Never => attempt[s] + RetryAfter <= Latest(s)'
    BY <1>0, <1>2 DEF Served
  <2>5. ServedBy(j, s)'
    BY <2>1 DEF ServedBy
  <2> QED
    BY <1>4, <2>1, <2>3, <2>4, <2>5 DEF Served
<1>14. CASE CrashJob(j)
  <2>1. pc'[j] = "idle" /\ attempt' = attempt /\ lastSweep' = lastSweep
    BY <1>0, <1>14, Domains DEF CrashJob, Goto, rowVars, clockVars
  <2>2. ServedBy(j, s)'
    BY <2>1 DEF ServedBy
  <2> QED
    BY <1>4, <1>5, <2>1, <2>2 DEF Served
<1> QED
  BY <1>6, <1>7, <1>9, <1>10, <1>11, <1>12, <1>13, <1>14 DEF Sweep

LEMMA RenewalStep == WindowAssumption /\ RenewalInv /\ [Next]_vars => RenewalInv'
<1> SUFFICES ASSUME WindowAssumption, RenewalInv, [Next]_vars PROVE RenewalInv'
  OBVIOUS
<1>0. ExpiryInv /\ SweepsAreInTime /\ MoneyInv /\ TypeOK /\ TargetsExist /\ RowsAreNew
  BY DEF RenewalInv, ExpiryInv, MoneyInv
<1>1. ExpiryInv'
  BY <1>0, ExpiryStep
<1>2. ASSUME NEW s \in Calls PROVE InTime(s)'
  <2>0. InTime(s) /\ Cardinality(Unmarked(s)) <= faults
    BY <1>0 DEF SweepsAreInTime, InTime
  <2>1. Cardinality(Unmarked(s)') <= faults'
    BY <1>0, <2>0, LevelMoves
  <2>2. ASSUME Wanted(s)' PROVE Served(s)'
    <3>1. ASSUME NEW auto \in BOOLEAN, CommitCreate(s, auto) PROVE Served(s)'
      BY <1>0, <2>0, <3>1, CreatedIsServed
    <3>2. ASSUME Wanted(s) PROVE Served(s)'
      <4>1. Kept(s) \/ Bought(s)
        <5>1. status[s] # "none"
          BY <3>2 DEF Wanted
        <5> QED
          BY <1>0, <5>1, TimesMove DEF Created
      <4>2. Latest(s) <= Latest(s)' /\ Latest(s)' \in Int
        BY <1>0, <2>0, <4>1, LatestMoves
      <4>3. Served(s)
        BY <2>0, <3>2 DEF InTime
      <4>4. ASSUME NEW j \in Jobs, Sweep(j) PROVE Served(s)'
        BY <1>0, <2>0, <2>2, <3>2, <4>4, SweepsServe
      <4> QED
        BY <1>0, <4>2, <4>3, <4>4, CallsServe DEF Next
    <3> QED
      BY <1>0, <2>2, <3>1, <3>2, WantedMoves
  <2> QED
    BY <2>1, <2>2 DEF InTime
<1> QED
  BY <1>1, <1>2 DEF RenewalInv, SweepsAreInTime

LEMMA RenewalInit == Init => RenewalInv
<1> SUFFICES ASSUME Init PROVE RenewalInv
  OBVIOUS
<1>1. ExpiryInv
  BY ExpiryInit
<1>2. ASSUME NEW s \in Calls PROVE InTime(s)
  <2>1. Unmarked(s) = {}
    BY LabelsAre DEF Init, Unmarked
  <2>2. Cardinality(Unmarked(s)) <= faults
    BY <2>1, FS_EmptySet DEF Init
  <2>3. ~ Wanted(s)
    BY DEF Init, Wanted
  <2> QED
    BY <2>2, <2>3 DEF InTime
<1> QED
  BY <1>1, <1>2 DEF RenewalInv, SweepsAreInTime

LEMMA RenewalInvariant == Spec => []RenewalInv
BY WindowAssumption, RenewalInit, RenewalStep, PTL DEF Spec

\* No subscriber who asked for renewal and can pay falls out of the grace window,
\* whatever sweeps fail, overlap, die or are late within their bounds
\* (ReconcileSubscriptions, ListSubscriptionsDueForRenewal, MarkRenewalAttempt).
THEOREM NobodyIsLost == Spec => []NotLost
<1>1. RenewalInv => NotLost
  <2> SUFFICES ASSUME RenewalInv, NEW s \in Calls, status[s] \in {"active", "expired"}, autoRenew[s],
                      wallet[Caller[s]] >= Price
               PROVE  now < expires[s] + Grace
    BY DEF NotLost
  <2> QED
    BY InGrace, WindowAssumption DEF RenewalInv, SweepsAreInTime, Wanted
<1> QED
  BY <1>1, RenewalInvariant, PTL
=============================================================================
