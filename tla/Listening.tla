----------------------------- MODULE Listening -----------------------------
(***************************************************************************)
(* SyncPosition of internal/library: what a player reports of its          *)
(* listening, and the four tables it reaches, one statement after another  *)
(* and in no transaction: the position, the listening event, the hours of  *)
(* the subscription and the popularity of the book.                        *)
(*                                                                         *)
(* One account, one edition.  A player of Children sends the child's       *)
(* profile with every report, so it has a position and a screen time of    *)
(* its own; subscription hours belong to the account.  A report is made at *)
(* one time and may arrive at a later one, its player having been offline. *)
(***************************************************************************)
EXTENDS Integers, FiniteSets, FiniteSetsExt

CONSTANTS
    Players, Children,
    Drifts,         \* how far ahead of the server the clock of a player may be
    NoClock,        \* in Drifts: a report may come without deviceUpdatedAt
    Skew,           \* five minutes: what SyncPosition believes
    Seconds,        \* what a report may claim
    MaxReport,      \* maxSyncSeconds
    Slots,          \* of the day
    MaxNow, MaxReports, MaxFaults

ASSUME ListeningAssumption ==
    /\ Children \subseteq Players
    /\ Drifts \subseteq Nat \cup {NoClock} /\ NoClock \notin Nat
    /\ Seconds \subseteq Int
    /\ {Skew, MaxReport, MaxNow, MaxReports, MaxFaults} \subseteq Nat
    /\ Slots \in Nat \ {0}

ASSUME PlayersAssumption == IsFiniteSet(Players)

VARIABLES
    now,            \* the server's clock
    subscribed,     \* the account has an active subscription
    hours,          \* commerce.subscriptions.hours_consumed
    popularity,     \* catalog: seconds listened to the book
    position,       \* device_updated_at of the position row, -1 for no row
    events,         \* seconds in library.listening_events, by profile and day
    sync,           \* of each player
    reports, faults,
    told,           \* history: the seconds the reports made count for
    newest          \* history: when the latest report of a right clock was made,
                    \* among those that got as far as the position

dbVars == <<subscribed, hours, popularity, position, events>>
listeningVars == <<now, dbVars, sync, reports, faults, told, newest>>

Profiles == {"parent", "child"}
ProfileOf(p) == IF p \in Children THEN "child" ELSE "parent"

Days == 0 .. MaxNow \div Slots
Today == now \div Slots

\* Where SyncPosition stands: "made" is a report its player still holds.
Steps == {"upsert", "event", "usage", "popularity", "answer"}

Report == [at : Steps \cup {"idle", "made"}, made : Nat, drift : Drifts \cup {NoClock},
           seconds : Int, stamp : Nat]

NoReport == [at |-> "idle", made |-> 0, drift |-> NoClock, seconds |-> 0, stamp |-> 0]

ListeningTypeOK ==
    /\ now \in 0 .. MaxNow
    /\ subscribed \in BOOLEAN
    /\ hours \in Nat /\ popularity \in Nat
    /\ position \in [Profiles -> Nat \cup {-1}]
    /\ events \in [Profiles -> [Days -> Nat]]
    /\ sync \in [Players -> Report]
    /\ reports \in 0 .. MaxReports /\ faults \in 0 .. MaxFaults
    /\ told \in Nat
    /\ newest \in [Profiles -> Nat \cup {-1}]

ListeningInit ==
    /\ now = 0
    /\ subscribed \in BOOLEAN
    /\ hours = 0 /\ popularity = 0
    /\ position = [f \in Profiles |-> -1]
    /\ events = [f \in Profiles |-> [d \in Days |-> 0]]
    /\ sync = [p \in Players |-> NoReport]
    /\ reports = 0 /\ faults = 0 /\ told = 0
    /\ newest = [f \in Profiles |-> -1]

SecondsListenedToday(profile) == events[profile][Today]
Heard(profile) == MapThenSumSet(LAMBDA d : events[profile][d], Days)

Larger(a, b) == IF a > b THEN a ELSE b
Smaller(a, b) == IF a < b THEN a ELSE b

\* What a report counts for: neither more than an hour nor less than nothing.
Counted(r) == Larger(Smaller(r.seconds, MaxReport), 0)

(***************************************************************************)
(* The player.                                                             *)
(***************************************************************************)
MakeReport(p) ==
    /\ sync[p].at = "idle" /\ reports < MaxReports
    /\ \E drift \in Drifts, seconds \in Seconds :
          LET r == [at |-> "made", made |-> now, drift |-> drift, seconds |-> seconds, stamp |-> 0]
          IN  sync' = [sync EXCEPT ![p] = r] /\ told' = told + Counted(r)
    /\ reports' = reports + 1
    /\ UNCHANGED <<now, dbVars, faults, newest>>

Tick ==
    /\ now < MaxNow
    /\ now' = now + 1
    /\ UNCHANGED <<dbVars, sync, reports, faults, told, newest>>

(***************************************************************************)
(* SyncPosition.                                                           *)
(***************************************************************************)
Goto(p, step) == sync' = [sync EXCEPT ![p].at = step]

\* A time too far ahead of the server's would pin the position: it is not believed.
Clamp(t) == IF t > now + Skew THEN now ELSE t

DeviceUpdatedAt(r) == IF r.drift = NoClock THEN now ELSE Clamp(r.made + r.drift)

SyncPosition(p) ==
    /\ sync[p].at = "made"
    /\ sync' = [sync EXCEPT ![p] = [@ EXCEPT !.at = "upsert", !.stamp = DeviceUpdatedAt(sync[p])]]
    /\ UNCHANGED <<now, dbVars, reports, faults, told, newest>>

\* ON CONFLICT DO UPDATE ... WHERE device_updated_at <= EXCLUDED.device_updated_at.
\* Without the WHERE.
UpsertedAlways(row, stamp) == stamp

Upserted(row, stamp) == IF row <= stamp THEN stamp ELSE row

\* A write that lost is answered, and its listening is not recorded.
UpsertAndLeave(p) ==
    LET r == sync[p]
        f == ProfileOf(p)
    IN  /\ r.at = "upsert"
        /\ position' = [position EXCEPT ![f] = Upserted(@, r.stamp)]
        /\ newest' = IF r.drift = 0 THEN [newest EXCEPT ![f] = Larger(@, r.made)] ELSE newest
        /\ Goto(p, IF Counted(r) > 0 /\ position[f] <= r.stamp THEN "event" ELSE "answer")
        /\ UNCHANGED <<now, subscribed, hours, popularity, events, reports, faults, told>>

UpsertPosition(p) ==
    LET r == sync[p]
        f == ProfileOf(p)
    IN  /\ r.at = "upsert"
        /\ position' = [position EXCEPT ![f] = Upserted(@, r.stamp)]
        /\ newest' = IF r.drift = 0 THEN [newest EXCEPT ![f] = Larger(@, r.made)] ELSE newest
        /\ Goto(p, IF Counted(r) > 0 THEN "event" ELSE "answer")
        /\ UNCHANGED <<now, subscribed, hours, popularity, events, reports, faults, told>>

CreateListeningEvent(p) ==
    /\ sync[p].at = "event"
    /\ events' = [events EXCEPT ![ProfileOf(p)][Today] = @ + Counted(sync[p])]
    /\ Goto(p, "usage")
    /\ UNCHANGED <<now, subscribed, hours, popularity, position, reports, faults, told, newest>>

\* Without an active subscription there is nothing to record.
RecordSubscriptionUsage(p) ==
    /\ sync[p].at = "usage"
    /\ hours' = IF subscribed THEN hours + Counted(sync[p]) ELSE hours
    /\ Goto(p, "popularity")
    /\ UNCHANGED <<now, subscribed, popularity, position, events, reports, faults, told, newest>>

RecordListen(p) ==
    /\ sync[p].at = "popularity"
    /\ popularity' = popularity + Counted(sync[p])
    /\ Goto(p, "answer")
    /\ UNCHANGED <<now, subscribed, hours, position, events, reports, faults, told, newest>>

\* The position, or after a write that lost the row it lost to.
Answer(p) ==
    /\ sync[p].at = "answer"
    /\ sync' = [sync EXCEPT ![p] = NoReport]
    /\ UNCHANGED <<now, dbVars, reports, faults, told, newest>>

\* A statement fails, or its answer is lost: SyncPosition returns the error at
\* every one of its steps, the handler answers 500, and the player reports again
\* or lets the report go.
Fail(p) ==
    /\ sync[p].at \in Steps /\ faults < MaxFaults
    /\ faults' = faults + 1
    /\ \/ sync' = [sync EXCEPT ![p].at = "made"]
       \/ sync' = [sync EXCEPT ![p] = NoReport]
    /\ UNCHANGED <<now, dbVars, reports, told, newest>>

\* The subscription runs out (module Subscription has its life).
Lapse ==
    /\ subscribed
    /\ subscribed' = FALSE
    /\ UNCHANGED <<now, hours, popularity, position, events, sync, reports, faults, told, newest>>

Sync(p) ==
    \/ MakeReport(p) \/ SyncPosition(p) \/ UpsertPosition(p) \/ CreateListeningEvent(p)
    \/ RecordSubscriptionUsage(p) \/ RecordListen(p) \/ Answer(p) \/ Fail(p)

ListeningNext == Tick \/ Lapse \/ \E p \in Players : Sync(p)

ListeningSpec == ListeningInit /\ [][ListeningNext]_listeningVars

(***************************************************************************)
(* Properties.                                                             *)
(***************************************************************************)
\* Last write wins by the clock of the device: a report that arrives late takes
\* no position back behind one made after it, and a wrong clock pins it for no
\* longer than SyncPosition believes (library/service.go, SyncPosition).
PositionIsCurrent ==
    \A f \in Profiles : newest[f] <= position[f] /\ position[f] <= now + Skew

TotalHeard == Heard("parent") + Heard("child")

\* The books on the same seconds.  Hours and popularity never run ahead of the
\* events, nor the events ahead of the reports, except that a fault has one report
\* counted once more: the player retries the whole thing, its event included.  And
\* without a fault every report is in the three of them once it is answered, one
\* whose position lost too ("the phone that was offline really did play those
\* seconds", library/service.go, SyncPosition).
HoursFollowListening ==
    LET Answered == faults = 0 /\ \A p \in Players : sync[p].at = "idle"
    IN  /\ hours <= TotalHeard /\ popularity <= TotalHeard
        /\ TotalHeard <= told + faults * MaxReport
        /\ Answered => TotalHeard = told /\ popularity = told
        /\ Answered /\ subscribed => hours = told
=============================================================================
