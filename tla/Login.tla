------------------------------- MODULE Login -------------------------------
(***************************************************************************)
(* Login codes of internal/identity behind internal/platform/ratelimit:    *)
(* RequestOTP counts the call under the phone number and under the client  *)
(* address in Redis, then writes a code and the job that sends it in one   *)
(* transaction; VerifyOTP reads the newest code still open and, statement  *)
(* by statement, counts a wrong guess or uses the code up and finds or     *)
(* creates the user.                                                       *)
(*                                                                         *)
(* One phone number and one address.  Codes are numbered by created_at and *)
(* are all different.  What follows IsActive is in Sessions.               *)
(***************************************************************************)
EXTENDS Naturals, Sequences, FiniteSets

CONSTANTS
    Requests,       \* calls of RequestOTP
    Attempts,       \* calls of VerifyOTP
    Limit,          \* OTPPerPhonePerWindow and OTPPerIPPerWindow
    MaxAttempts     \* OTPMaxAttempts

\* The limits in the order RequestOTP takes them.
LimitKeys == {"phone", "ip"}

ASSUME FiniteAssumption == IsFiniteSet(Requests) /\ IsFiniteSet(Attempts)
ASSUME LimitAssumption == Limit \in [LimitKeys -> Nat \ {0}] /\ MaxAttempts \in Nat \ {0}

VARIABLES
    counter,        \* the fixed window of each key
    unlimited,      \* history: windows whose EXPIRE failed or was never sent
    codes,          \* identity.otp_codes of the number
    user,           \* identity.users of the number
    request, attempt

limiterVars == <<counter, unlimited>>
vars == <<limiterVars, codes, user, request, attempt>>

\* Peak is history: how many attempts were underway with the code at once.
Code == [attempts: Nat, consumed: BOOLEAN, expired: BOOLEAN, peak: Nat]

TypeOK ==
    /\ counter \in [LimitKeys -> [n: 0..Cardinality(Requests), ttl: BOOLEAN]]
    /\ \A k \in LimitKeys : counter[k].ttl => counter[k].n > 0
    /\ unlimited \subseteq LimitKeys
    /\ codes \in Seq(Code)
    /\ user \in {"none", "active", "suspended"}
    /\ request \in [Requests -> [at: {"idle", "incr", "expire", "user", "write", "sent",
                                      "limited", "refused", "error"},
                                 key: LimitKeys]]
    /\ attempt \in [Attempts -> [at: {"idle", "wrong", "right", "consumed", "blind", "create",
                                      "found", "in", "invalid", "exhausted", "suspended",
                                      "failed", "lost", "cutoff"},
                                 code: 0..Len(codes)]]

-----------------------------------------------------------------------------
Init ==
    /\ counter = [k \in LimitKeys |-> [n |-> 0, ttl |-> FALSE]]
    /\ unlimited = {}
    /\ codes = <<>>
    /\ user \in {"none", "active"}
    /\ request = [r \in Requests |-> [at |-> "idle", key |-> "phone"]]
    /\ attempt = [a \in Attempts |-> [at |-> "idle", code |-> 0]]

\* The answer of Allow, and where RequestOTP goes with it.
Checked(r, count) ==
    LET k == request[r].key IN
    request' = [request EXCEPT ![r] =
        IF count > Limit[k] THEN [at |-> "limited", key |-> k]
        ELSE IF k = "phone" THEN [at |-> "incr", key |-> "ip"]
        ELSE [at |-> "user", key |-> k]]

Request(r) ==
    /\ request[r].at = "idle"
    /\ request' = [request EXCEPT ![r].at = "incr"]
    /\ UNCHANGED <<limiterVars, codes, user, attempt>>

\* Taking the answer of INCR for the value before it.
IncrFromZero(r) ==
    LET k == request[r].key
        n == counter[k].n + 1
    IN  /\ request[r].at = "incr"
        /\ counter' = [counter EXCEPT ![k].n = n]
        /\ IF n = 0 THEN request' = [request EXCEPT ![r].at = "expire"] ELSE Checked(r, n)
        /\ UNCHANGED <<unlimited, codes, user, attempt>>

\* Allow: INCR, and EXPIRE if this is the first of its window.
Incr(r) ==
    LET k == request[r].key
        n == counter[k].n + 1
    IN  /\ request[r].at = "incr"
        /\ counter' = [counter EXCEPT ![k].n = n]
        /\ IF n = 1 THEN request' = [request EXCEPT ![r].at = "expire"] ELSE Checked(r, n)
        /\ UNCHANGED <<unlimited, codes, user, attempt>>

\* The count it has read is 1, whatever the counter is by now.
SetExpire(r) ==
    /\ request[r].at = "expire"
    /\ counter' = [counter EXCEPT ![request[r].key].ttl = TRUE]
    /\ Checked(r, 1)
    /\ UNCHANGED <<unlimited, codes, user, attempt>>

\* EXPIRE fails, or the process dies before it.
LoseExpire(r) ==
    /\ request[r].at = "expire"
    /\ unlimited' = unlimited \cup {request[r].key}
    /\ request' = [request EXCEPT ![r].at = "error"]
    /\ UNCHANGED <<counter, codes, user, attempt>>

WindowEnds(k) ==
    /\ counter[k].ttl
    /\ counter' = [counter EXCEPT ![k] = [n |-> 0, ttl |-> FALSE]]
    /\ UNCHANGED <<unlimited, codes, user, request, attempt>>

\* A lookup that fails does not refuse.
RefuseSuspended(r) ==
    /\ request[r].at = "user"
    /\ \E at \in {"refused", "write"} :
          /\ at = "refused" => user = "suspended"
          /\ request' = [request EXCEPT ![r].at = at]
    /\ UNCHANGED <<limiterVars, codes, user, attempt>>

\* CreateOTPCode and EnqueueTask in one transaction.
CreateOTPCode(r) ==
    /\ request[r].at = "write"
    /\ codes' = Append(codes, [attempts |-> 0, consumed |-> FALSE, expired |-> FALSE, peak |-> 0])
    /\ request' = [request EXCEPT ![r].at = "sent"]
    /\ UNCHANGED <<limiterVars, user, attempt>>

\* OTPCodeTTL is over.
ExpireCode(i) ==
    /\ ~ codes[i].expired
    /\ codes' = [codes EXCEPT ![i].expired = TRUE]
    /\ UNCHANGED <<limiterVars, user, request, attempt>>

-----------------------------------------------------------------------------
Underway(i) ==
    {a \in Attempts : /\ attempt[a].code = i
                      /\ attempt[a].at \in {"wrong", "right", "consumed", "blind", "create", "found"}}

Open == {i \in DOMAIN codes : ~ codes[i].consumed /\ ~ codes[i].expired}

Newest == {i \in Open : \A j \in Open : j <= i}

\* The row VerifyOTP has read and what the typed code, 0 for one never sent, makes of it.
Begin(a, i, at) ==
    /\ attempt' = [attempt EXCEPT ![a] = [at |-> at, code |-> i]]
    /\ LET n == Cardinality(Underway(i)) + 1 IN
          codes' = [codes EXCEPT ![i].peak = IF @ < n THEN n ELSE @]

\* One guess more than max_attempts.
VerifyOneMore(a, typed) ==
    /\ attempt[a].at = "idle"
    /\ IF Open = {}
       THEN attempt' = [attempt EXCEPT ![a].at = "invalid"] /\ UNCHANGED codes
       ELSE \E i \in Newest :
            IF codes[i].attempts > MaxAttempts
            THEN attempt' = [attempt EXCEPT ![a].at = "exhausted"] /\ UNCHANGED codes
            ELSE Begin(a, i, IF typed = i THEN "right" ELSE "wrong")
    /\ UNCHANGED <<limiterVars, user, request>>

\* The code is used up before it is compared.
VerifyAfterConsume(a, typed) ==
    /\ attempt[a].at = "idle"
    /\ IF Open = {}
       THEN attempt' = [attempt EXCEPT ![a].at = "invalid"] /\ UNCHANGED codes
       ELSE \E i \in Newest :
            IF codes[i].attempts >= MaxAttempts
            THEN attempt' = [attempt EXCEPT ![a].at = "exhausted"] /\ UNCHANGED codes
            ELSE /\ attempt' = [attempt EXCEPT ![a] =
                                  [at |-> IF typed = i THEN "consumed" ELSE "wrong", code |-> i]]
                 /\ codes' = [codes EXCEPT ![i].consumed = TRUE, ![i].peak = Cardinality(Attempts)]
    /\ UNCHANGED <<limiterVars, user, request>>

\* GetLatestActiveOTP, the attempt limit and the comparison.
Verify(a, typed) ==
    /\ attempt[a].at = "idle"
    /\ IF Open = {}
       THEN attempt' = [attempt EXCEPT ![a].at = "invalid"] /\ UNCHANGED codes
       ELSE \E i \in Newest :
            IF codes[i].attempts >= MaxAttempts
            THEN attempt' = [attempt EXCEPT ![a].at = "exhausted"] /\ UNCHANGED codes
            ELSE Begin(a, i, IF typed = i THEN "right" ELSE "wrong")
    /\ UNCHANGED <<limiterVars, user, request>>

IncrementOTPAttempt(a) ==
    /\ attempt[a].at = "wrong"
    /\ codes' = [codes EXCEPT ![attempt[a].code].attempts = @ + 1]
    /\ attempt' = [attempt EXCEPT ![a].at = "invalid"]
    /\ UNCHANGED <<limiterVars, user, request>>

\* A code that stays open.
ConsumeNothing(a) ==
    /\ attempt[a].at = "right"
    /\ attempt' = [attempt EXCEPT ![a].at = "consumed"]
    /\ UNCHANGED <<limiterVars, codes, user, request>>

\* Whether or not the code is still open by now.
ConsumeOTPCode(a) ==
    /\ attempt[a].at = "right"
    /\ codes' = [codes EXCEPT ![attempt[a].code].consumed = TRUE]
    /\ attempt' = [attempt EXCEPT ![a].at = "consumed"]
    /\ UNCHANGED <<limiterVars, user, request>>

\* Every error of the lookup is taken for "no such user".
GetUserByPhoneNumber(a) ==
    /\ attempt[a].at = "consumed"
    /\ \E found \in BOOLEAN :
          attempt' = [attempt EXCEPT ![a].at = CASE ~ found -> "blind"
                                                [] found /\ user = "none" -> "create"
                                                [] found /\ user = "active" -> "found"
                                                [] found /\ user = "suspended" -> "suspended"]
    /\ UNCHANGED <<limiterVars, codes, user, request>>

\* phone_number is UNIQUE: the second of two creates fails, and so does one for a
\* user whom the lookup did not find because of an error.
CreateUser(a) ==
    /\ attempt[a].at \in {"blind", "create"}
    /\ user' = IF user = "none" THEN "active" ELSE user
    /\ attempt' = [attempt EXCEPT ![a].at = CASE user = "none" -> "found"
                                              [] user # "none" /\ @ = "create" -> "failed"
                                              [] user # "none" /\ @ = "blind" -> "cutoff"]
    /\ UNCHANGED <<limiterVars, codes, request>>

\* The device and the pair of tokens; their statements are in Sessions.
IssueTokenPair(a) ==
    /\ attempt[a].at = "found"
    /\ attempt' = [attempt EXCEPT ![a].at = "in"]
    /\ UNCHANGED <<limiterVars, codes, user, request>>

\* An error, a cancelled context or a crash.  There is no transaction: what was
\* written stays.  "lost" had compared its guess and written nothing.
CutOff(a) ==
    /\ attempt[a].at \in {"wrong", "right", "consumed", "blind", "create", "found"}
    /\ attempt' = [attempt EXCEPT ![a].at = IF @ \in {"wrong", "right"} THEN "lost" ELSE "cutoff"]
    /\ UNCHANGED <<limiterVars, codes, user, request>>

\* SetStatus of an administrator.
Suspend ==
    /\ user = "active"
    /\ user' = "suspended"
    /\ UNCHANGED <<limiterVars, codes, request, attempt>>

RequestStep(r) == Incr(r) \/ SetExpire(r) \/ LoseExpire(r) \/ RefuseSuspended(r) \/ CreateOTPCode(r)

Next ==
    \/ \E r \in Requests : Request(r) \/ RequestStep(r)
    \/ \E k \in LimitKeys : WindowEnds(k)
    \/ \E i \in DOMAIN codes : ExpireCode(i)
    \/ \E a \in Attempts :
          \/ \E typed \in 0..Len(codes) : Verify(a, typed)
          \/ IncrementOTPAttempt(a) \/ ConsumeOTPCode(a) \/ GetUserByPhoneNumber(a) \/ CreateUser(a)
          \/ IssueTokenPair(a) \/ CutOff(a)
    \/ Suspend

Spec == Init /\ [][Next]_vars

\* A call that was received goes on, and Redis drops a key after its TTL.
Fairness ==
    /\ \A r \in Requests : WF_vars(RequestStep(r))
    /\ \A k \in LimitKeys : WF_vars(WindowEnds(k))

FairSpec == Spec /\ Fairness

-----------------------------------------------------------------------------
LoggedIn(i) == {a \in Attempts : attempt[a].at = "in" /\ attempt[a].code = i}

\* Attempts that did not have the code right, the uncounted ones among them.
Guesses(i) == {a \in Attempts : attempt[a].code = i /\ attempt[a].at \in {"wrong", "invalid", "lost"}}
Lost(i)    == {a \in Attempts : attempt[a].code = i /\ attempt[a].at = "lost"}

\* OTP_MAX_ATTEMPTS guesses at a code, those that had read the count before the
\* last of them was counted, and those cut off before they were (VerifyOTP).
GuessesBounded ==
    \A i \in DOMAIN codes :
        Cardinality(Guesses(i)) < MaxAttempts + codes[i].peak + Cardinality(Lost(i))

\* A code is good for one login, and for those that had read it before the first
\* one used it up (GetLatestActiveOTP, ConsumeOTPCode).
CodeLogsInOnce == \A i \in DOMAIN codes : Cardinality(LoggedIn(i)) <= codes[i].peak

\* Attempts that found the user, or created him.
Creators == {a \in Attempts : attempt[a].at \in {"found", "in", "cutoff"}}

\* Only a fault uses a code up for nothing: once nobody is underway with it, a
\* consumed code has logged in, or met a suspended user, or its attempt was cut off
\* after the consumption, or was beaten to the creation of the user by another that
\* is logged in, about to be, or was itself cut off (VerifyOTP has no transaction).
ConsumedForALogin ==
    \A i \in DOMAIN codes : codes[i].consumed /\ Underway(i) = {} =>
        \E a \in Attempts : /\ attempt[a].code = i
                             /\ \/ attempt[a].at \in {"in", "suspended", "cutoff"}
                                \/ attempt[a].at = "failed" /\ Creators # {}

\* A number or address over its limit is let in again after the window, unless
\* the EXPIRE of the window was lost (Allow).
LimitIsAWindow ==
    \A k \in LimitKeys : counter[k].n > Limit[k] ~> counter[k].n <= Limit[k] \/ k \in unlimited
=============================================================================
