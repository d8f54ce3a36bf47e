------------------------------ MODULE Sessions ------------------------------
(***************************************************************************)
(* What internal/identity does once a login code is accepted: devices and  *)
(* their cap, the chain of refresh tokens of a session, its revocation,    *)
(* suspension, and the cache in front of the user's row.                   *)
(*                                                                         *)
(* The tables are those of one user.  No service function opens a          *)
(* transaction here, so a call is a list of statements, and a call that    *)
(* dies is one that takes no further step.  A token that has expired is    *)
(* refused with no effect and is left out.  A family is named after the    *)
(* token of the login that started it.                                     *)
(***************************************************************************)
EXTENDS Naturals, Sequences, SequencesExt

CONSTANTS
    Calls,          \* one call of the service each
    Requests,       \* clients behind Authenticator.Middleware
    Tokens, Devices,
    Nothing,        \* no token, device or call
    MaxActiveDevices

ASSUME CapAssumption == MaxActiveDevices \in Nat
ASSUME SessionAssumption == Tokens # {} /\ Devices # {}

VARIABLES
    status,         \* identity.users.status
    active,         \* devices with revoked_at NULL, by last_active_at
    row,            \* identity.refresh_tokens
    known,          \* tokens a client has been given
    call,
    cache,          \* Redis has the user, read while active
    request,
    overtaken,      \* history: calls a revocation that covers them ran past, and
                    \* the calls that renewed a session they issued
    ended           \* history: families revoked for a replay

tableVars  == <<status, active, row>>
accessVars == <<cache, request>>
vars == <<tableVars, known, call, accessVars, overtaken, ended>>

\* NULL is FALSE for the two timestamps.
RefreshToken ==
    [family: Tokens, device: Devices \cup {Nothing}, used: BOOLEAN, revoked: BOOLEAN,
     next: Tokens \cup {Nothing}, by: Calls \cup {Nothing}]

ASSUME NothingAssumption == Nothing \notin Tokens \cup Devices \cup Calls /\ Nothing \notin RefreshToken

Points == {"idle", "replayed", "read", "inactive", "upsert", "count", "trim", "picked", "trimTokens",
           "issue", "mark", "deviceTokens", "suspend", "done", "failed"}

Call == [at: Points,
         token: Tokens \cup {Nothing}, device: Devices \cup {Nothing},
         new: Tokens \cup {Nothing}, victim: Devices \cup {Nothing}, count: Nat]

TypeOK ==
    /\ status \in {"active", "suspended"}
    /\ active \in Seq(Devices) /\ IsInjective(active)
    /\ row \in [Tokens -> RefreshToken \cup {Nothing}]
    /\ known \subseteq {t \in Tokens : row[t] # Nothing}
    /\ call \in [Calls -> Call]
    /\ cache \in BOOLEAN
    /\ request \in [Requests -> {"idle", "miss", "fill", "admitted", "refused"}]
    /\ overtaken \subseteq Calls
    /\ ended \subseteq Tokens

-----------------------------------------------------------------------------
Rows == {t \in Tokens : row[t] # Nothing}
Live == {t \in Rows : ~ row[t].revoked}

\* The WHERE clauses of the three bulk revocations.
OfFamily(f) == {t \in Rows : row[t].family = f}
OfDevice(d) == {t \in Rows : row[t].device = d}

\* UPDATE ... SET revoked_at = now(): an earlier revocation stays one.
Revoke(S) == row' = [t \in Tokens |-> IF t \in S THEN [row[t] EXCEPT !.revoked = TRUE] ELSE row[t]]

\* Calls that have made their checks and will insert a token.
Underway(c) == call[c].at \in {"read", "upsert", "count", "trim", "picked", "trimTokens", "issue"}

FamilyOf(c) == IF call[c].token = Nothing THEN Nothing ELSE row[call[c].token].family

\* A call that has ended keeps no locals.
Locals(at) == [at |-> at, token |-> Nothing, device |-> Nothing, new |-> Nothing,
               victim |-> Nothing, count |-> 0]

Move(c, locals) == call' = [call EXCEPT ![c] = locals]

Goto(c, at) ==
    Move(c, IF at \in {"done", "failed"} THEN Locals(at) ELSE [call[c] EXCEPT !.at = at])

\* Ids are interchangeable: any fresh one will do.
Fresh(S) == CHOOSE x \in S : TRUE

\* One session, of a login before the calls, on one device.
Init ==
    LET t == Fresh(Tokens)
        d == Fresh(Devices)
    IN  /\ status = "active"
        /\ active = <<d>>
        /\ row = [x \in Tokens |-> IF x = t
                     THEN [family |-> t, device |-> d, used |-> FALSE, revoked |-> FALSE,
                           next |-> Nothing, by |-> Nothing]
                     ELSE Nothing]
        /\ known = {t}
        /\ call = [c \in Calls |-> Locals("idle")]
        /\ cache = FALSE
        /\ request = [r \in Requests |-> "idle"]
        /\ overtaken = {}
        /\ ended = {}

-----------------------------------------------------------------------------
\* VerifyOTP from IsActive on, with or without device information.
Login(c, d) ==
    /\ call[c].at = "idle"
    /\ IF status # "active"
       THEN Goto(c, "failed")
       ELSE Move(c, [call[c] EXCEPT !.device = d, !.at = IF d = Nothing THEN "issue" ELSE "upsert"])
    /\ UNCHANGED <<tableVars, known, accessVars, overtaken, ended>>

\* registerDevice: a device that was revoked comes back.
UpsertDevice(c) ==
    /\ call[c].at = "upsert"
    /\ active' = Append(RemoveFirst(active, call[c].device), call[c].device)
    /\ Goto(c, IF MaxActiveDevices = 0 THEN "issue" ELSE "count")
    /\ UNCHANGED <<status, row, known, accessVars, overtaken, ended>>

\* The count taken before the new device is written.
CountOtherDevices(c) ==
    /\ call[c].at = "count"
    /\ Move(c, [call[c] EXCEPT !.at = "trim", !.count = Len(RemoveFirst(active, call[c].device))])
    /\ UNCHANGED <<tableVars, known, accessVars, overtaken, ended>>

CountActiveDevices(c) ==
    /\ call[c].at = "count"
    /\ Move(c, [call[c] EXCEPT !.at = "trim", !.count = Len(active)])
    /\ UNCHANGED <<tableVars, known, accessVars, overtaken, ended>>

\* The loop of registerDevice.  The UPDATE picks its row in a subquery of its
\* snapshot; when it had to wait for that row it still updates it, revoked or
\* back in use by then.  Without a row the login fails.
PickOldestActiveDevice(c) ==
    /\ call[c].at = "trim"
    /\ call[c].count > MaxActiveDevices
    /\ IF active = <<>>
       THEN Goto(c, "failed")
       ELSE Move(c, [call[c] EXCEPT !.at = "picked", !.victim = Head(active)])
    /\ UNCHANGED <<tableVars, known, accessVars, overtaken, ended>>

RevokeOldestActiveDevice(c) ==
    /\ call[c].at = "picked"
    /\ active' = RemoveFirst(active, call[c].victim)
    /\ Goto(c, "trimTokens")
    /\ UNCHANGED <<status, row, known, accessVars, overtaken, ended>>

RevokeRefreshTokensForDevice(c) ==
    /\ call[c].at \in {"trimTokens", "deviceTokens"}
    /\ Revoke(OfDevice(call[c].victim))
    /\ overtaken' = overtaken \cup {x \in Calls : Underway(x) /\ call[x].device = call[c].victim}
    /\ IF call[c].at = "deviceTokens"
       THEN Goto(c, "done")
       ELSE Move(c, [call[c] EXCEPT !.at = "trim", !.victim = Nothing, !.count = call[c].count - 1])
    /\ UNCHANGED <<status, active, known, accessVars, ended>>

EndTrim(c) ==
    /\ call[c].at = "trim"
    /\ call[c].count <= MaxActiveDevices
    /\ Goto(c, "issue")
    /\ UNCHANGED <<tableVars, known, accessVars, overtaken, ended>>

\* issueTokenPair: a login's token starts a family, a refresh's joins one.
IssueTokenPair(c) ==
    /\ call[c].at = "issue"
    /\ Tokens # Rows
    /\ LET t == Fresh(Tokens \ Rows) IN
          /\ row' = [row EXCEPT ![t] =
                        [family |-> IF call[c].token = Nothing THEN t ELSE FamilyOf(c),
                         device |-> call[c].device, used |-> FALSE, revoked |-> FALSE,
                         next |-> Nothing, by |-> c]]
          /\ IF call[c].token = Nothing
             THEN Goto(c, "done") /\ known' = known \cup {t}
             ELSE Move(c, [call[c] EXCEPT !.at = "mark", !.new = t]) /\ UNCHANGED known
    /\ UNCHANGED <<status, active, accessVars, overtaken, ended>>

-----------------------------------------------------------------------------
\* RefreshToken reads the row; a token that was used or revoked is a replay.
Refresh(c, t) ==
    /\ call[c].at = "idle"
    /\ Move(c, [call[c] EXCEPT
           !.token = t, !.device = row[t].device,
           !.at = IF row[t].used \/ row[t].revoked THEN "replayed" ELSE "read"])
    /\ overtaken' = IF row[t].by \in overtaken THEN overtaken \cup {c} ELSE overtaken
    /\ UNCHANGED <<tableVars, known, accessVars, ended>>

\* Only the replayed token is revoked.
RevokeReplayedToken(c) ==
    /\ call[c].at = "replayed"
    /\ Revoke({call[c].token})
    /\ overtaken' = overtaken \cup {x \in Calls : Underway(x) /\ FamilyOf(x) = FamilyOf(c)}
    /\ ended' = ended \cup {FamilyOf(c)}
    /\ Goto(c, "done")
    /\ UNCHANGED <<status, active, known, accessVars>>

RevokeRefreshTokenFamily(c) ==
    /\ call[c].at = "replayed"
    /\ Revoke(OfFamily(FamilyOf(c)))
    /\ overtaken' = overtaken \cup {x \in Calls : Underway(x) /\ FamilyOf(x) = FamilyOf(c)}
    /\ ended' = ended \cup {FamilyOf(c)}
    /\ Goto(c, "done")
    /\ UNCHANGED <<status, active, known, accessVars>>

GetUser(c) ==
    /\ call[c].at = "read"
    /\ Goto(c, IF status = "active" THEN "issue" ELSE "inactive")
    /\ UNCHANGED <<tableVars, known, accessVars, overtaken, ended>>

MarkRefreshTokenUsed(c) ==
    /\ call[c].at = "mark"
    /\ row' = [row EXCEPT ![call[c].token].used = TRUE, ![call[c].token].revoked = TRUE,
                          ![call[c].token].next = call[c].new]
    /\ known' = known \cup {call[c].new}
    /\ Goto(c, "done")
    /\ UNCHANGED <<status, active, accessVars, overtaken, ended>>

Logout(c, t) ==
    /\ call[c].at = "idle"
    /\ Revoke({t})
    /\ Goto(c, "done")
    /\ UNCHANGED <<status, active, known, accessVars, overtaken, ended>>

\* LogoutAll, and the last step of SetStatus and of the refresh of a suspended user.
RevokeAllRefreshTokensForUser(c) ==
    /\ call[c].at \in {"idle", "suspend", "inactive"}
    /\ Revoke(Rows)
    /\ overtaken' = overtaken \cup {x \in Calls : Underway(x)}
    /\ Goto(c, "done")
    /\ UNCHANGED <<status, active, known, accessVars, ended>>

\* "Sign out that phone" without its tokens.
RevokeDeviceOnly(c, d) ==
    /\ call[c].at = "idle"
    /\ active' = RemoveFirst(active, d)
    /\ Goto(c, "done")
    /\ UNCHANGED <<status, row, known, accessVars, overtaken, ended>>

RevokeDevice(c, d) ==
    /\ call[c].at = "idle"
    /\ active' = RemoveFirst(active, d)
    /\ Move(c, [call[c] EXCEPT !.at = "deviceTokens", !.victim = d])
    /\ UNCHANGED <<status, row, known, accessVars, overtaken, ended>>

\* A suspension that leaves the sessions.
SetStatusOnly(c, s) ==
    /\ call[c].at = "idle"
    /\ status' = s
    /\ Goto(c, "done")
    /\ UNCHANGED <<active, row, known, accessVars, overtaken, ended>>

SetStatus(c, s) ==
    /\ call[c].at = "idle"
    /\ status' = s
    /\ Goto(c, IF s = "active" THEN "done" ELSE "suspend")
    /\ UNCHANGED <<active, row, known, accessVars, overtaken, ended>>

-----------------------------------------------------------------------------
\* A hit that writes the user back for another TTL.
LookupAndExtend(r) ==
    /\ request[r] = "idle"
    /\ request' = [request EXCEPT ![r] = IF cache THEN "fill" ELSE "miss"]
    /\ UNCHANGED <<tableVars, known, call, cache, overtaken, ended>>

\* Authenticator.resolve: only users found active are ever written.
Lookup(r) ==
    /\ request[r] = "idle"
    /\ request' = [request EXCEPT ![r] = IF cache THEN "admitted" ELSE "miss"]
    /\ UNCHANGED <<tableVars, known, call, cache, overtaken, ended>>

EnsureActive(r) ==
    /\ request[r] = "miss"
    /\ request' = [request EXCEPT ![r] = IF status = "active" THEN "fill" ELSE "refused"]
    /\ UNCHANGED <<tableVars, known, call, cache, overtaken, ended>>

\* The write may fail.
Fill(r) ==
    /\ request[r] = "fill"
    /\ cache' \in {cache, TRUE}
    /\ request' = [request EXCEPT ![r] = "admitted"]
    /\ UNCHANGED <<tableVars, known, call, overtaken, ended>>

Respond(r) ==
    /\ request[r] \in {"admitted", "refused"}
    /\ request' = [request EXCEPT ![r] = "idle"]
    /\ UNCHANGED <<tableVars, known, call, cache, overtaken, ended>>

\* activeUserCacheTTL is over.
Expire ==
    /\ cache
    /\ cache' = FALSE
    /\ UNCHANGED <<tableVars, known, call, request, overtaken, ended>>

Statement(c) ==
    \/ UpsertDevice(c) \/ CountActiveDevices(c) \/ PickOldestActiveDevice(c)
    \/ RevokeOldestActiveDevice(c) \/ EndTrim(c)
    \/ RevokeRefreshTokensForDevice(c) \/ RevokeRefreshTokenFamily(c)
    \/ RevokeAllRefreshTokensForUser(c)
    \/ GetUser(c) \/ IssueTokenPair(c) \/ MarkRefreshTokenUsed(c)

Resolve(r) == EnsureActive(r) \/ Fill(r) \/ Respond(r)

Next ==
    \/ \E c \in Calls :
          \/ \E d \in Devices \cup {Nothing} : Login(c, d)
          \/ \E t \in known : Refresh(c, t) \/ Logout(c, t)
          \/ \E d \in Devices : RevokeDevice(c, d)
          \/ \E s \in {"active", "suspended"} : SetStatus(c, s)
          \/ Statement(c)
    \/ \E r \in Requests : Lookup(r) \/ Resolve(r)
    \/ Expire

Spec == Init /\ [][Next]_vars

\* Redis drops the key after its TTL, and a request that was received is served.
Fairness == WF_vars(Expire) /\ \A r \in Requests : WF_vars(Resolve(r))

FairSpec == Spec /\ Fairness

-----------------------------------------------------------------------------
\* "kill the whole family -- both the attacker's chain and the victim's": a chain
\* that was replayed goes on only from a refresh that had read its token before
\* the family was revoked (RefreshToken).
ReplayEndsChain ==
    \A t \in Live : row[t].family \in ended => row[t].by \in overtaken

\* "A suspension that leaves live sessions running is not a suspension": a
\* session of a suspended user was started or renewed by a call that the
\* revocation ran past (SetStatus, RefreshToken, VerifyOTP).
SuspendedHasNoSession ==
    status = "suspended" /\ (\A c \in Calls : call[c].at # "suspend") =>
        \A t \in Live : row[t].by \in overtaken

\* "the refresh token of a revoked device must die too": unless the second
\* statement is still to come, or ran past the call that issued the token.
RevokedDeviceHasNoSession ==
    \A t \in Live : row[t].device \in Devices \ ToSet(active) =>
        \/ row[t].by \in overtaken
        \/ \E c \in Calls : call[c].at \in {"trimTokens", "deviceTokens"} /\ call[c].victim = row[t].device

\* MaxActiveDevices holds whenever no login is between its upsert and the end of
\* its loop, however the loops of several logins mix (registerDevice).
CapHolds ==
    MaxActiveDevices > 0 /\ (\A c \in Calls : call[c].at \notin {"count", "trim", "picked", "trimTokens"}) =>
        Len(active) <= MaxActiveDevices

\* "a user suspended for abuse": once the status stays suspended, the cache stops
\* letting requests in (resolve; nothing calls InvalidateUserCache).
SuspensionTakesHold ==
    <>[](status = "suspended") => <>[](\A r \in Requests : request[r] # "admitted")
=============================================================================
