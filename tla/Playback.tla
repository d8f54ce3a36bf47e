------------------------------ MODULE Playback ------------------------------
(***************************************************************************)
(* May this listener play this edition, and which bytes: internal/media    *)
(* over its three neighbours.  ResolveAccess asks kids (CheckPlayback, one *)
(* table after another), then commerce (IsEntitledToEdition), each of them *)
(* reading what others write meanwhile: the parent's controls, the refund  *)
(* of a purchase, and, through module Listening, the screen time and the   *)
(* subscription hours the players report.  The answer is a signed URL that *)
(* outlives every one of those facts until it expires.                     *)
(*                                                                         *)
(* One account with one child profile, one book of one edition.            *)
(***************************************************************************)
EXTENDS Listening, MediaRange

CONSTANTS
    Editions,       \* what the catalogue may say of the edition
    ControlSets,    \* the controls the parent may store
    DefaultLimit, DefaultFrom, DefaultTo,
    ChildAges,
    KidsFriendly,   \* the book is
    MonthlyHourCap,
    TTL,            \* of a stream token
    Kbps, Whole,    \* bitrate of the asset and its last byte
    Ranges,         \* Range headers a player sends
    NoRow,          \* no controls, no token
    MaxEdits        \* changes by the parent, support and commerce

INSTANCE KidsPolicy

ASSUME PlaybackAssumption ==
    /\ Editions \subseteq [free : BOOLEAN, preview : Int]
    /\ ControlSets \subseteq Controls /\ NoRow \notin ControlSets
    /\ {DefaultFrom, DefaultTo} \subseteq Slot
    /\ ChildAges \subseteq Ages /\ KidsFriendly \in BOOLEAN
    /\ Ranges \subseteq RangeHeader
    /\ {DefaultLimit, MonthlyHourCap, TTL, Kbps, Whole, MaxEdits} \subseteq Nat

VARIABLES
    edition,        \* catalog: is it free, and the seconds of its preview
    owned,          \* a live entitlement to the edition
    profile,        \* kids.child_profiles, and what CreateProfile has left to do
    controls,       \* kids.parental_controls, or NoRow
    decision,       \* kids.content_approvals on the book
    play,           \* the playback request of each player
    token,          \* the URL it holds
    edits,
    seen            \* history: when each ground was last given

householdVars == <<profile, controls, decision>>
requestVars == <<play, token>>
vars == <<listeningVars, edition, owned, householdVars, requestVars, edits, seen>>

Profile == [state : {"none", "active", "inactive"}, age : ChildAges \cup {0}, incomplete : BOOLEAN]

Play == [at : {"idle", "profile", "controls", "decision", "listening", "owned", "subscription", "sign"},
         since : Nat, active : BOOLEAN, age : ChildAges \cup {0}, controls : Controls \cup {NoRow},
         decision : Decisions, max : Nat]

\* MaxSeconds = 0 in a token is no limit.
StreamToken == [expires : Nat, max : Nat]

Grounds == {"access", "active", "notBlocked", "approved", "limit"}
Never == -(TTL + 2)

TypeOK ==
    /\ ListeningTypeOK
    /\ edition \in Editions /\ owned \in BOOLEAN
    /\ profile \in Profile
    /\ controls \in Controls \cup {NoRow}
    /\ decision \in Decisions
    /\ play \in [Players -> Play]
    /\ token \in [Players -> StreamToken \cup {NoRow}]
    /\ edits \in 0 .. MaxEdits
    /\ seen \in [Grounds -> {Never} \cup 0 .. MaxNow]

NoPlay == [at |-> "idle", since |-> 0, active |-> FALSE, age |-> 0, controls |-> NoRow,
           decision |-> "none", max |-> 0]

HasCapacity == subscribed /\ hours < MonthlyHourCap

\* The row, or the defaults when CreateProfile never wrote it.
EffectiveControls(row, age) == IF row = NoRow THEN DefaultControls(age) ELSE row

Given(g) ==
    LET c == EffectiveControls(controls, profile.age)
    IN  CASE g = "access"     -> edition.free \/ owned \/ HasCapacity
          [] g = "active"     -> profile.state = "active"
          [] g = "notBlocked" -> decision # "block"
          [] g = "approved"   -> Approved(c, decision, KidsFriendly)
          [] g = "limit"      -> UnderLimit(c, SecondsListenedToday("child"))

Init ==
    /\ ListeningInit
    /\ edition \in Editions
    /\ owned \in BOOLEAN
    /\ profile = [state |-> "none", age |-> 0, incomplete |-> FALSE]
    /\ controls = NoRow
    /\ decision = "none"
    /\ play = [p \in Players |-> NoPlay]
    /\ token = [p \in Players |-> NoRow]
    /\ edits = 0
    /\ seen = [g \in Grounds |-> IF Given(g) THEN 0 ELSE Never]

(***************************************************************************)
(* Others, meanwhile: the parent, the refund desk, a purchase.             *)
(***************************************************************************)
Edit ==
    /\ edits < MaxEdits
    /\ edits' = edits + 1
    /\ UNCHANGED <<listeningVars, edition, requestVars>>

\* Two statements and no transaction: a profile may stay without controls.
CreateProfile ==
    /\ profile.state = "none"
    /\ \E age \in ChildAges : profile' = [state |-> "active", age |-> age, incomplete |-> TRUE]
    /\ UNCHANGED <<listeningVars, edition, owned, controls, decision, requestVars, edits>>

CreateControls ==
    /\ profile.incomplete
    /\ controls' = DefaultControls(profile.age)
    /\ profile' = [profile EXCEPT !.incomplete = FALSE]
    /\ UNCHANGED <<listeningVars, edition, owned, decision, requestVars, edits>>

UpdateProfile ==
    /\ Edit /\ profile.state # "none"
    /\ \E age \in ChildAges : profile' = [profile EXCEPT !.age = age]
    /\ UNCHANGED <<owned, controls, decision>>

DeleteProfile ==
    /\ Edit /\ profile.state = "active"
    /\ profile' = [profile EXCEPT !.state = "inactive"]
    /\ UNCHANGED <<owned, controls, decision>>

UpdateControls ==
    /\ Edit /\ profile.state # "none"
    /\ \E c \in ControlSets \ {controls} : controls' = c
    /\ UNCHANGED <<owned, profile, decision>>

\* SetApproval, and ClearApproval back to "none".
SetApproval ==
    /\ Edit /\ profile.state # "none"
    /\ \E d \in Decisions \ {decision} : decision' = d
    /\ UNCHANGED <<owned, profile, controls>>

\* A purchase, a gift or a seat; a refund or its end.
Entitle ==
    /\ Edit
    /\ owned' = ~owned
    /\ UNCHANGED householdVars

(***************************************************************************)
(* PlaybackURL.                                                            *)
(***************************************************************************)
Step(p, r) ==
    /\ play' = [play EXCEPT ![p] = r]
    /\ UNCHANGED <<listeningVars, edition, owned, householdVars, token, edits>>

Deny(p) == Step(p, NoPlay)
Grant(p, max) == Step(p, [NoPlay EXCEPT !.at = "sign", !.since = play[p].since, !.max = max])

\* After the household's rules: a free edition needs no other ground.
AskCommerce(p, since) ==
    Step(p, [NoPlay EXCEPT !.at = IF edition.free THEN "sign" ELSE "owned", !.since = since])

RequestPlayback(p) ==
    /\ play[p].at = "idle"
    /\ IF p \in Children
       THEN Step(p, [NoPlay EXCEPT !.at = "profile", !.since = now])
       ELSE AskCommerce(p, now)

\* CheckPlayback: an unknown profile is a denial.
ReadProfile(p) ==
    /\ play[p].at = "profile"
    /\ IF profile.state = "none"
       THEN Deny(p)
       ELSE Step(p, [play[p] EXCEPT !.at = "controls", !.age = profile.age,
                                    !.active = profile.state = "active"])

\* A profile without controls is an unrestricted account.
ReadControlsOrNone(p) ==
    /\ play[p].at = "controls"
    /\ Step(p, [play[p] EXCEPT !.at = "decision",
                   !.controls = IF controls # NoRow THEN controls
                                ELSE [limit |-> 0, from |-> 0, to |-> 0, maxAge |-> 0,
                                      mode |-> "kids_catalog"]])

ReadControls(p) ==
    /\ play[p].at = "controls"
    /\ Step(p, [play[p] EXCEPT !.at = "decision",
                               !.controls = EffectiveControls(controls, play[p].age)])

\* The book's row is read before it; it does not change here.
ReadDecision(p) ==
    /\ play[p].at = "decision"
    /\ Step(p, [play[p] EXCEPT !.at = "listening", !.decision = decision])

\* The screen time is the last row read, and the clock is read with it.
CheckPlayback(p) ==
    LET r == play[p]
    IN  /\ r.at = "listening"
        /\ IF EvaluatePlayback(r.controls, r.active, r.age, KidsFriendly, r.decision,
                               SecondsListenedToday("child"), now % Slots)
           THEN AskCommerce(p, r.since)
           ELSE Deny(p)

\* IsEntitledToEdition: an entitlement row, else a subscription with hours left.
ReadEntitlement(p) ==
    /\ play[p].at = "owned"
    /\ IF owned THEN Grant(p, 0) ELSE Step(p, [play[p] EXCEPT !.at = "subscription"])

\* The preview is the fallback, and no preview is a denial.
ReadSubscription(p) ==
    /\ play[p].at = "subscription"
    /\ IF HasCapacity THEN Grant(p, 0)
       ELSE IF edition.preview <= 0 THEN Deny(p) ELSE Grant(p, edition.preview)

Sign(p) ==
    /\ play[p].at = "sign"
    /\ token' = [token EXCEPT ![p] = [expires |-> now + TTL, max |-> play[p].max]]
    /\ play' = [play EXCEPT ![p] = NoPlay]
    /\ UNCHANGED <<listeningVars, edition, owned, householdVars, edits>>

\* A read fails, or the request runs into its timeout.
GiveUp(p) == play[p].at # "idle" /\ Deny(p)

(***************************************************************************)
(* OpenAsset: the token is all it looks at.                                *)
(***************************************************************************)
\* The signature alone.
VerifySignature(t) == t # NoRow

Verify(t) == t # NoRow /\ now <= t.expires

\* The range asked of the store, whose answer ends with the file.
OpenAsset(t, r) ==
    LET e == IF t.max > 0 THEN ClampRange(r, PreviewByteLimit(t.max, Kbps))
             ELSE Served(r.first, r.last)
    IN  [e EXCEPT !.last = IF @ = -1 \/ @ > Whole THEN Whole ELSE @]

(***************************************************************************)
(* The composition.                                                        *)
(***************************************************************************)
Household == CreateProfile \/ CreateControls \/ UpdateProfile \/ DeleteProfile
             \/ UpdateControls \/ SetApproval \/ Entitle

Request(p) ==
    \/ RequestPlayback(p) \/ ReadProfile(p) \/ ReadControls(p) \/ ReadDecision(p)
    \/ CheckPlayback(p) \/ ReadEntitlement(p) \/ ReadSubscription(p) \/ Sign(p)
    \/ GiveUp(p)

\* The router gives a request thirty seconds: a unit of time passes it by once.
Time ==
    /\ \A p \in Players : play[p].at = "idle" \/ play[p].since = now
    /\ Tick

Around ==
    /\ Time \/ Lapse \/ \E p \in Players : Sync(p)
    /\ UNCHANGED <<edition, owned, householdVars, requestVars, edits>>

Watch == seen' = [g \in Grounds |-> IF Given(g)' THEN now' ELSE seen[g]]

Next == (Around \/ Household \/ \E p \in Players : Request(p)) /\ Watch

Spec == Init /\ [][Next]_vars

(***************************************************************************)
(* Properties.                                                             *)
(***************************************************************************)
\* A URL opens the whole edition no longer than the ground it was signed on, its TTL
\* and the request that was under way: a refund, a lapsed subscription or spent hours,
\* whatever overtakes what.  It ends what can be opened; an answer once opened is
\* copied to its end (media/service.go, PlaybackURL and OpenAsset, against
\* media/handler.go, streamAsset; commerce/service_access.go, IsEntitledToEdition).
UrlEndsWithAccess ==
    \A p \in Players :
       Verify(token[p]) /\ token[p].max = 0 => now - seen["access"] <= TTL + 1

\* So does what a child can open, the preview and a free edition too: a blocked
\* title, a profile taken away, a spent day hold against a URL no longer than
\* that, also for a profile whose controls were never written (kids/service.go,
\* CheckPlayback).  The age and the allowed hours are left out: the child's age
\* and the row, or the row and the clock, are read at two times.
ChildUrlEndsWithTheRules ==
    \A p \in Children, g \in Grounds \ {"access"} :
       Verify(token[p]) => now - seen[g] <= TTL + 1

\* Who never had a ground for the whole edition is never served a byte past the
\* preview, whatever ranges a player asks for (media/rangeclamp.go, and the
\* MaxSeconds of a token, where 0 means no limit and not no preview).
PreviewIsAPrefix ==
    seen["access"] = Never =>
       \A p \in Players, r \in Ranges :
          Verify(token[p]) /\ OpenAsset(token[p], r).ok
          => OpenAsset(token[p], r).last < PreviewByteLimit(edition.preview, Kbps)
=============================================================================
