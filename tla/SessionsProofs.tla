--------------------------- MODULE SessionsProofs ---------------------------
(***************************************************************************)
(* Theorems of Sessions: for any calls, tokens, devices and cap.           *)
(***************************************************************************)
EXTENDS Sessions, SequenceTheorems, TLAPS

USE NothingAssumption, CapAssumption

\* What is left of the devices when one is revoked.
LEMMA Removal ==
    ASSUME NEW s \in Seq(Devices), IsInjective(s), NEW d
    PROVE  /\ RemoveFirst(s, d) \in Seq(Devices) /\ IsInjective(RemoveFirst(s, d))
           /\ ToSet(RemoveFirst(s, d)) = ToSet(s) \ {d}
           /\ Len(RemoveFirst(s, d)) = IF d \in ToSet(s) THEN Len(s) - 1 ELSE Len(s)
<1>1. CASE \E i \in 1..Len(s) : s[i] = d
  <2>1. PICK i \in 1..Len(s) : s[i] = d
    BY <1>1
  <2>2. \A j \in 1..Len(s) : s[j] = d => j = i
    BY <2>1 DEF IsInjective
  <2>3. SelectInSeq(s, LAMBDA v : v = d) = i
    BY <2>1, <2>2 DEF SelectInSeq, Min
  <2>4. RemoveFirst(s, d) = RemoveAt(s, i)
    BY <1>1, <2>3 DEF RemoveFirst
  <2>5. /\ RemoveAt(s, i) \in Seq(Devices) /\ Len(RemoveAt(s, i)) = Len(s) - 1
        /\ \A j \in 1..Len(s) - 1 : RemoveAt(s, i)[j] = IF j < i THEN s[j] ELSE s[j + 1]
    <3> DEFINE a == SubSeq(s, 1, i - 1)
               b == SubSeq(s, i + 1, Len(s))
    <3>1. a \in Seq(Devices) /\ Len(a) = i - 1 /\ \A j \in 1..i - 1 : a[j] = s[j]
      BY <2>1
    <3>2. b \in Seq(Devices) /\ Len(b) = Len(s) - i /\ \A j \in 1..Len(s) - i : b[j] = s[j + i]
      BY <2>1
    <3> HIDE DEF a, b
    <3>3. /\ a \o b \in Seq(Devices) /\ Len(a \o b) = Len(s) - 1
          /\ \A j \in 1..Len(s) - 1 : (a \o b)[j] = IF j < i THEN a[j] ELSE b[j - (i - 1)]
      <4> a \in Seq(Devices) /\ b \in Seq(Devices)
        BY <3>1, <3>2
      <4>1. /\ a \o b \in Seq(Devices) /\ Len(a \o b) = Len(a) + Len(b)
            /\ \A j \in 1..Len(a) + Len(b) : (a \o b)[j] = IF j <= Len(a) THEN a[j] ELSE b[j - Len(a)]
        BY ONLY a \in Seq(Devices), b \in Seq(Devices), ConcatProperties
      <4>2. Len(a) = i - 1 /\ Len(a) + Len(b) = Len(s) - 1 /\ i \in Nat /\ Len(s) \in Nat
        BY <2>1, <3>1, <3>2
      <4>3. \A j \in 1..Len(s) - 1 : (a \o b)[j] = IF j <= i - 1 THEN a[j] ELSE b[j - (i - 1)]
        BY <4>1, <4>2
      <4>4. \A j \in 1..Len(s) - 1 : j <= i - 1 <=> j < i
        BY <4>2
      <4> QED
        BY <4>1, <4>2, <4>3, <4>4
    <3>4. ASSUME NEW j \in 1..Len(s) - 1 PROVE (a \o b)[j] = IF j < i THEN s[j] ELSE s[j + 1]
      <4>1. CASE j < i
        BY <2>1, <3>1, <3>3, <4>1
      <4>2. CASE ~ j < i
        <5>1. j - (i - 1) \in 1..Len(s) - i /\ (j - (i - 1)) + i = j + 1
          BY <2>1, <4>2
        <5> QED
          BY <3>2, <3>3, <4>2, <5>1
      <4> QED
        BY <4>1, <4>2
    <3> QED
      BY <3>3, <3>4 DEF RemoveAt, a, b
  <2> DEFINE t == RemoveAt(s, i)
  <2> HIDE DEF t
  <2>6. /\ t \in Seq(Devices) /\ Len(t) = Len(s) - 1 /\ Len(s) \in Nat
        /\ \A j \in 1..Len(s) - 1 : t[j] = IF j < i THEN s[j] ELSE s[j + 1]
    BY <2>5 DEF t
  <2>7. IsInjective(t)
    <3> SUFFICES ASSUME NEW j \in 1..Len(t), NEW k \in 1..Len(t), t[j] = t[k] PROVE j = k
      BY <2>6 DEF IsInjective
    <3> DEFINE at(x) == IF x < i THEN x ELSE x + 1
    <3>1. at(j) \in 1..Len(s) /\ at(k) \in 1..Len(s) /\ s[at(j)] = s[at(k)]
      BY <2>1, <2>6
    <3>2. at(j) = at(k)
      BY <3>1 DEF IsInjective
    <3> QED
      BY <2>1, <2>6, <3>2
  <2>8. ToSet(t) \subseteq ToSet(s) \ {d}
    BY <2>1, <2>2, <2>6 DEF ToSet
  <2>9. ASSUME NEW x \in ToSet(s) \ {d} PROVE x \in ToSet(t)
    <3>1. PICK j \in 1..Len(s) : s[j] = x
      BY <2>9 DEF ToSet
    <3>2. CASE j < i
      BY <2>1, <2>6, <3>1, <3>2 DEF ToSet
    <3>3. CASE j > i
      <4>1. j - 1 \in 1..Len(s) - 1 /\ ~ (j - 1 < i) /\ (j - 1) + 1 = j
        BY <2>1, <2>6, <3>1, <3>3
      <4>2. t[j - 1] = x
        BY <2>6, <3>1, <4>1
      <4> QED
        BY <2>6, <4>1, <4>2 DEF ToSet
    <3> QED
      BY <2>1, <2>6, <2>9, <3>1, <3>2, <3>3
  <2>10. d \in ToSet(s)
    BY <2>1 DEF ToSet
  <2> QED
    BY <2>4, <2>6, <2>7, <2>8, <2>9, <2>10 DEF t
<1>2. CASE ~ \E i \in 1..Len(s) : s[i] = d
  <2>1. RemoveFirst(s, d) = s /\ d \notin ToSet(s)
    BY <1>2 DEF RemoveFirst, ToSet
  <2> QED
    BY <2>1
<1> QED
  BY <1>1, <1>2

\* A device that is used joins them at the end.
LEMMA Joining ==
    ASSUME NEW s \in Seq(Devices), IsInjective(s), NEW d \in Devices, d \notin ToSet(s)
    PROVE  /\ Append(s, d) \in Seq(Devices) /\ IsInjective(Append(s, d))
           /\ ToSet(Append(s, d)) = ToSet(s) \cup {d}
<1> DEFINE t == Append(s, d)
<1>1. /\ t \in Seq(Devices) /\ Len(t) = Len(s) + 1 /\ Len(s) \in Nat
      /\ \A i \in 1..Len(s) : t[i] = s[i]
      /\ t[Len(s) + 1] = d
  BY AppendProperties
<1> HIDE DEF t
<1>2. \A i \in 1..Len(s) : s[i] # d
  BY DEF ToSet
<1>3. IsInjective(t)
  BY <1>1, <1>2 DEF IsInjective
<1>4. ToSet(t) \subseteq ToSet(s) \cup {d}
  BY <1>1 DEF ToSet
<1>5. d \in ToSet(t) /\ \A x \in ToSet(s) : x \in ToSet(t)
  BY <1>1 DEF ToSet
<1> QED
  BY <1>1, <1>3, <1>4, <1>5 DEF t

-----------------------------------------------------------------------------
\* The locals a call has at each point.
CallsAreBacked ==
    \A c \in Calls :
        /\ call[c].at = "idle" => call[c] = Locals("idle")
        /\ call[c].token # Nothing => row[call[c].token] # Nothing
        /\ call[c].at \in {"replayed", "read", "mark"} => call[c].token # Nothing
        /\ call[c].at \in {"upsert", "count", "trim", "picked", "trimTokens"} =>
              call[c].token = Nothing /\ call[c].device # Nothing
        /\ call[c].at \in {"picked", "trimTokens", "deviceTokens"} => call[c].victim # Nothing
        /\ call[c].at \in {"picked", "trimTokens"} => call[c].count > MaxActiveDevices
        /\ call[c].at = "mark" => call[c].new # Nothing /\ row[call[c].new] # Nothing

\* A family is that of a token, and so is a family that has been ended.
FamiliesAreRows ==
    /\ \A t \in Rows : row[t].family \in Rows
    /\ ended \subseteq Rows

\* A refresh of an ended family that is still to issue its token was overtaken.
ChainCalls ==
    \A c \in Calls : Underway(c) /\ FamilyOf(c) \in ended => c \in overtaken

Checked(c) == Underway(c) /\ call[c].at # "read"

\* And so was a call that found the user active before the suspension.
SuspendedCalls ==
    status = "suspended" /\ (\A c \in Calls : call[c].at # "suspend") =>
        \A c \in Calls : Checked(c) => c \in overtaken

RevocationPending(d) ==
    \E c \in Calls : call[c].at \in {"trimTokens", "deviceTokens"} /\ call[c].victim = d

\* And one that is to issue a token to a device that has been revoked since.
DeviceCalls ==
    \A c \in Calls :
        Underway(c) /\ call[c].at # "upsert" /\ call[c].device \in Devices \ ToSet(active) =>
            c \in overtaken \/ RevocationPending(call[c].device)

\* The login that counted last trims to the cap, also when another call takes
\* the device it has picked.
Trims(c) ==
    \/ call[c].at = "trim" /\ Len(active) <= call[c].count
    \/ /\ call[c].at = "picked" /\ Len(active) <= call[c].count
       /\ call[c].victim \notin ToSet(active) => Len(active) + 1 <= call[c].count
    \/ call[c].at = "trimTokens" /\ Len(active) + 1 <= call[c].count

CapIsTracked ==
    MaxActiveDevices > 0 =>
        \/ Len(active) <= MaxActiveDevices
        \/ \E c \in Calls : call[c].at = "count" \/ Trims(c)

IInv ==
    /\ TypeOK /\ CallsAreBacked /\ FamiliesAreRows
    /\ ReplayEndsChain /\ ChainCalls
    /\ SuspendedHasNoSession /\ SuspendedCalls
    /\ RevokedDeviceHasNoSession /\ DeviceCalls
    /\ CapIsTracked

LEMMA InitInv == Init => IInv
<1> SUFFICES ASSUME Init PROVE IInv
  OBVIOUS
<1> DEFINE t == Fresh(Tokens)
           d == Fresh(Devices)
<1>1. t \in Tokens /\ d \in Devices
  BY SessionAssumption DEF Fresh
<1>2. /\ status = "active" /\ active = <<d>>
      /\ row = [x \in Tokens |-> IF x = t
                   THEN [family |-> t, device |-> d, used |-> FALSE, revoked |-> FALSE, next |-> Nothing, by |-> Nothing]
                   ELSE Nothing]
      /\ known = {t} /\ call = [c \in Calls |-> Locals("idle")] /\ cache = FALSE
      /\ request = [r \in Requests |-> "idle"] /\ overtaken = {} /\ ended = {}
  BY DEF Init
<1> HIDE DEF t, d
<1>3. active \in Seq(Devices) /\ IsInjective(active) /\ Len(active) = 1 /\ ToSet(active) = {d}
  BY <1>1, <1>2 DEF IsInjective, ToSet
<1>4. row[t] \in RefreshToken /\ row[t] # Nothing /\ row[t].family = t /\ row[t].device = d
  <2>1. [family |-> t, device |-> d, used |-> FALSE, revoked |-> FALSE, next |-> Nothing, by |-> Nothing] \in RefreshToken
    BY <1>1 DEF RefreshToken
  <2> QED
    BY <1>1, <1>2, <2>1, NothingAssumption
<1>5. \A x \in Tokens : x # t => row[x] = Nothing
  BY <1>2
<1>6. Rows = {t}
  BY <1>1, <1>4, <1>5 DEF Rows
<1>7. TypeOK
  <2>1. row \in [Tokens -> RefreshToken \cup {Nothing}]
    BY <1>2, <1>4, <1>5
  <2>2. call \in [Calls -> Call]
    BY <1>2 DEF Call, Locals, Points
  <2>3. known \subseteq {x \in Tokens : row[x] # Nothing}
    BY <1>1, <1>2, <1>4
  <2> QED
    BY <1>2, <1>3, <2>1, <2>2, <2>3 DEF TypeOK
<1>8. \A c \in Calls : call[c] = Locals("idle") /\ call[c].at = "idle" /\ call[c].token = Nothing
  BY <1>2 DEF Locals
<1>9. CallsAreBacked /\ ChainCalls /\ SuspendedCalls /\ DeviceCalls
  BY <1>8 DEF CallsAreBacked, ChainCalls, SuspendedCalls, DeviceCalls, Underway, Checked
<1>10. FamiliesAreRows /\ ReplayEndsChain /\ SuspendedHasNoSession
  BY <1>2, <1>4, <1>6 DEF FamiliesAreRows, ReplayEndsChain, SuspendedHasNoSession
<1>11. RevokedDeviceHasNoSession
  BY <1>3, <1>4, <1>6 DEF RevokedDeviceHasNoSession, Live
<1>12. CapIsTracked
  BY <1>3 DEF CapIsTracked
<1> QED
  BY <1>7, <1>9, <1>10, <1>11, <1>12 DEF IInv

-----------------------------------------------------------------------------
\* What the bulk revocations leave of the table.
LEMMA RevokeFacts ==
    ASSUME TypeOK, NEW S \in SUBSET Rows, Revoke(S)
    PROVE  /\ row' \in [Tokens -> RefreshToken \cup {Nothing}] /\ Rows' = Rows /\ Live' = Live \ S
           /\ \A t \in Tokens : row'[t] # Nothing <=> row[t] # Nothing
           /\ \A t \in Rows : /\ row'[t].family = row[t].family /\ row'[t].device = row[t].device
                             /\ row'[t].by = row[t].by
<1>1. \A t \in Rows : t \in Tokens /\ row[t] \in RefreshToken
  BY DEF TypeOK, Rows
<1>2. \A t \in Tokens : row'[t] = IF t \in S THEN [row[t] EXCEPT !.revoked = TRUE] ELSE row[t]
  BY DEF Revoke
<1>3. \A t \in S : /\ row'[t] \in RefreshToken /\ row'[t].revoked
                  /\ row'[t].family = row[t].family /\ row'[t].device = row[t].device /\ row'[t].by = row[t].by
  <2> SUFFICES ASSUME NEW t \in S
               PROVE  /\ row'[t] \in RefreshToken /\ row'[t].revoked
                      /\ row'[t].family = row[t].family /\ row'[t].device = row[t].device /\ row'[t].by = row[t].by
    OBVIOUS
  <2>1. t \in Tokens /\ row[t] \in RefreshToken /\ row'[t] = [row[t] EXCEPT !.revoked = TRUE]
    BY <1>1, <1>2
  <2> QED
    BY <2>1 DEF RefreshToken
<1> HIDE DEF RefreshToken
<1>4. row' \in [Tokens -> RefreshToken \cup {Nothing}]
  BY <1>2, <1>3 DEF TypeOK, Revoke
<1>5. \A t \in Tokens : row'[t] # Nothing <=> row[t] # Nothing
  BY <1>2, <1>3, NothingAssumption DEF Rows
<1> QED
  BY <1>1, <1>2, <1>3, <1>4, <1>5 DEF Rows, Live

\* The facts of a step of the table: it revokes, issues a token or marks one used.
Issued(c, t) ==
    /\ t \in Tokens \ Rows
    /\ row' = [row EXCEPT ![t] =
                  [family |-> IF call[c].token = Nothing THEN t ELSE FamilyOf(c),
                   device |-> call[c].device, used |-> FALSE, revoked |-> FALSE,
                   next |-> Nothing, by |-> c]]

LEMMA IssueFacts ==
    ASSUME TypeOK, CallsAreBacked, NEW c \in Calls, NEW t, Issued(c, t)
    PROVE  /\ row' \in [Tokens -> RefreshToken \cup {Nothing}]
           /\ t \notin Rows /\ Rows' = Rows \cup {t} /\ Live' = Live \cup {t}
           /\ \A x \in Rows : row'[x] = row[x]
           /\ row'[t] # Nothing /\ row'[t].device = call[c].device /\ row'[t].by = c
           /\ row'[t].family = IF call[c].token = Nothing THEN t ELSE FamilyOf(c)
<1>1. call[c].token # Nothing => FamilyOf(c) \in Tokens
  <2>1. ASSUME call[c].token # Nothing PROVE row[call[c].token] \in RefreshToken /\ FamilyOf(c) = row[call[c].token].family
    BY <2>1 DEF TypeOK, CallsAreBacked, Call, FamilyOf
  <2> QED
    BY <2>1 DEF RefreshToken
<1> DEFINE new == [family |-> IF call[c].token = Nothing THEN t ELSE FamilyOf(c),
                   device |-> call[c].device, used |-> FALSE, revoked |-> FALSE,
                   next |-> Nothing, by |-> c]
<1>2. t \in Tokens \ Rows /\ row' = [row EXCEPT ![t] = new]
  BY DEF Issued
<1>3. new \in RefreshToken
  <2>1. call[c].device \in Devices \cup {Nothing}
    BY DEF TypeOK, Call
  <2> QED
    BY <1>1, <1>2, <2>1 DEF RefreshToken
<1>4. /\ new.device = call[c].device /\ new.by = c /\ ~ new.revoked
      /\ new.family = IF call[c].token = Nothing THEN t ELSE FamilyOf(c)
  OBVIOUS
<1> HIDE DEF new, RefreshToken
<1>5. row \in [Tokens -> RefreshToken \cup {Nothing}] /\ new # Nothing
  BY <1>3, NothingAssumption DEF TypeOK
<1> QED
  BY <1>2, <1>3, <1>4, <1>5 DEF Rows, Live

LEMMA MarkFacts ==
    ASSUME TypeOK, CallsAreBacked, NEW c \in Calls, MarkRefreshTokenUsed(c)
    PROVE  /\ row' \in [Tokens -> RefreshToken \cup {Nothing}] /\ Rows' = Rows /\ Live' \subseteq Live
           /\ \A t \in Tokens : row'[t] # Nothing <=> row[t] # Nothing
           /\ \A t \in Rows : /\ row'[t].family = row[t].family /\ row'[t].device = row[t].device
                             /\ row'[t].by = row[t].by
<1> DEFINE u == call[c].token
           new == [row[u] EXCEPT !.used = TRUE, !.revoked = TRUE, !.next = call[c].new]
<1>1. u \in Tokens /\ row[u] # Nothing /\ row[u] \in RefreshToken /\ call[c].new \in Tokens
  BY DEF TypeOK, CallsAreBacked, MarkRefreshTokenUsed, Call
<1>2. row' = [row EXCEPT ![u] = new]
  BY <1>1 DEF MarkRefreshTokenUsed
<1>3. /\ new \in RefreshToken /\ new.revoked /\ new.family = row[u].family /\ new.device = row[u].device
      /\ new.by = row[u].by
  BY <1>1 DEF RefreshToken
<1> HIDE DEF u, new, RefreshToken
<1>4. row \in [Tokens -> RefreshToken \cup {Nothing}] /\ new # Nothing
  BY <1>3, NothingAssumption DEF TypeOK
<1> QED
  BY <1>1, <1>2, <1>3, <1>4 DEF Rows, Live

\* Nobody's row, family, device or issuer changes, and no token comes to life.
Kept ==
    /\ row' \in [Tokens -> RefreshToken \cup {Nothing}] /\ Rows' = Rows /\ Live' \subseteq Live
    /\ \A t \in Tokens : row'[t] # Nothing <=> row[t] # Nothing
    /\ \A t \in Rows : /\ row'[t].family = row[t].family /\ row'[t].device = row[t].device
                      /\ row'[t].by = row[t].by

LEMMA KeptFacts ==
    ASSUME TypeOK, CallsAreBacked
    PROVE  /\ UNCHANGED row => Kept
           /\ \A S \in SUBSET Rows : Revoke(S) => Kept /\ Live' = Live \ S
           /\ \A c \in Calls : MarkRefreshTokenUsed(c) => Kept
<1>1. UNCHANGED row => Kept
  BY DEF Kept, TypeOK, Rows, Live
<1>2. ASSUME NEW S \in SUBSET Rows, Revoke(S) PROVE Kept /\ Live' = Live \ S
  BY <1>2, RevokeFacts DEF Kept
<1>3. ASSUME NEW c \in Calls, MarkRefreshTokenUsed(c) PROVE Kept
  BY <1>3, MarkFacts DEF Kept
<1> QED
  BY <1>1, <1>2, <1>3

LEMMA LocalsTypes ==
    /\ \A at \in Points : Locals(at) \in Call
    /\ \A r \in Call, at \in Points :
          /\ [r EXCEPT !.at = at] \in Call
          /\ \A d \in Devices \cup {Nothing} : /\ [r EXCEPT !.device = d, !.at = at] \in Call
                                            /\ [r EXCEPT !.at = at, !.victim = d] \in Call
                                            /\ \A t \in Tokens : [r EXCEPT !.token = t, !.device = d, !.at = at] \in Call
          /\ \A n \in Nat : [r EXCEPT !.at = at, !.count = n] \in Call
          /\ r.count # 0 => [r EXCEPT !.at = at, !.victim = Nothing, !.count = r.count - 1] \in Call
          /\ \A t \in Tokens : [r EXCEPT !.at = at, !.new = t] \in Call
<1> HIDE DEF Points
<1>1. \A at \in Points : Locals(at) \in Call
  BY DEF Locals, Call
<1>2. ASSUME NEW r \in Call, NEW at \in Points
      PROVE  /\ [r EXCEPT !.at = at] \in Call
             /\ \A d \in Devices \cup {Nothing} : [r EXCEPT !.device = d, !.at = at] \in Call
             /\ \A d \in Devices \cup {Nothing} : [r EXCEPT !.at = at, !.victim = d] \in Call
             /\ \A n \in Nat : [r EXCEPT !.at = at, !.count = n] \in Call
             /\ \A t \in Tokens : [r EXCEPT !.at = at, !.new = t] \in Call
  BY DEF Call
<1>3. ASSUME NEW r \in Call, NEW at \in Points, NEW d \in Devices \cup {Nothing}, NEW t \in Tokens
      PROVE  [r EXCEPT !.token = t, !.device = d, !.at = at] \in Call
  BY DEF Call
<1>4. ASSUME NEW r \in Call, NEW at \in Points, r.count # 0
      PROVE  [r EXCEPT !.at = at, !.victim = Nothing, !.count = r.count - 1] \in Call
  <2>0. r.count \in Nat
    BY DEF Call
  <2>1. r.count - 1 \in Nat
    BY <1>4, <2>0
  <2> HIDE DEF Points
  <2> DEFINE n == r.count - 1
  <2>2. n \in Nat
    BY <2>1
  <2> HIDE DEF n
  <2>3. [r EXCEPT !.at = at, !.victim = Nothing, !.count = n] \in Call
    BY <2>2 DEF Call
  <2> QED
    BY <2>3 DEF n
<1> QED
  BY <1>1, <1>2, <1>3, <1>4

Has(y, at, token, device, new, victim, count) ==
    /\ y.at = at /\ y.token = token /\ y.device = device
    /\ y.new = new /\ y.victim = victim /\ y.count = count

\* The locals after each update the calls make.
LEMMA Fields ==
    ASSUME NEW r \in Call, NEW at, NEW t, NEW d, NEW n
    PROVE  /\ Has([r EXCEPT !.at = at], at, r.token, r.device, r.new, r.victim, r.count)
           /\ Has([r EXCEPT !.device = d, !.at = at], at, r.token, d, r.new, r.victim, r.count)
           /\ Has([r EXCEPT !.token = t, !.device = d, !.at = at], at, t, d, r.new, r.victim, r.count)
           /\ Has([r EXCEPT !.at = at, !.victim = d], at, r.token, r.device, r.new, d, r.count)
           /\ Has([r EXCEPT !.at = at, !.count = n], at, r.token, r.device, r.new, r.victim, n)
           /\ Has([r EXCEPT !.at = at, !.victim = d, !.count = n], at, r.token, r.device, r.new, d, n)
           /\ Has([r EXCEPT !.at = at, !.new = t], at, r.token, r.device, t, r.victim, r.count)
  BY DEF Call, Has

\* Calls keep their type.
LEMMA CallTypes ==
    ASSUME TypeOK, CallsAreBacked, Next
    PROVE  call' \in [Calls -> Call]
<1>0. call \in [Calls -> Call] /\ active \in Seq(Devices) /\ Len(active) \in Nat
  BY DEF TypeOK
<1> SUFFICES ASSUME NEW c \in Calls, call' # call,
                    \/ \E d \in Devices \cup {Nothing} : Login(c, d)
                    \/ \E t \in known : Refresh(c, t) \/ Logout(c, t)
                    \/ \E d \in Devices : RevokeDevice(c, d)
                    \/ \E s \in {"active", "suspended"} : SetStatus(c, s)
                    \/ Statement(c)
             PROVE  \E new \in Call : Move(c, new)
  BY <1>0 DEF Move, Next, Lookup, Resolve, EnsureActive, Fill, Respond, Expire
<1>p. call[c] \in Call /\ Points = Points
      /\ \A at \in Points : Goto(c, at) => \E new \in Call : Move(c, new)
  BY <1>0, LocalsTypes DEF Goto
<1>q. \A at \in {"replayed", "read", "inactive", "upsert", "count", "trim", "picked", "trimTokens",
                  "issue", "mark", "deviceTokens", "suspend", "done", "failed"} : at \in Points
  BY DEF Points
<1> HIDE DEF Call, Points, Goto
<1>1. ASSUME NEW d \in Devices \cup {Nothing}, Login(c, d) PROVE \E new \in Call : Move(c, new)
  BY <1>1, <1>p, <1>q, LocalsTypes DEF Login
<1>2. ASSUME NEW t \in known, Refresh(c, t) PROVE \E new \in Call : Move(c, new)
  <2>1. t \in Tokens /\ row[t].device \in Devices \cup {Nothing}
    BY DEF TypeOK, RefreshToken
  <2> QED
    BY <1>2, <1>p, <1>q, <2>1, LocalsTypes DEF Refresh
<1>3. ASSUME NEW t \in known, Logout(c, t) PROVE \E new \in Call : Move(c, new)
  BY <1>3, <1>p, <1>q DEF Logout
<1>4. ASSUME NEW d \in Devices, RevokeDevice(c, d) PROVE \E new \in Call : Move(c, new)
  BY <1>4, <1>p, <1>q, LocalsTypes DEF RevokeDevice
<1>5. ASSUME NEW x \in {"active", "suspended"}, SetStatus(c, x) PROVE \E new \in Call : Move(c, new)
  BY <1>5, <1>p, <1>q DEF SetStatus
<1>6. CASE Statement(c)
  <2>1. CASE UpsertDevice(c) \/ RevokeOldestActiveDevice(c) \/ EndTrim(c) \/ RevokeRefreshTokenFamily(c)
             \/ RevokeAllRefreshTokensForUser(c) \/ GetUser(c) \/ MarkRefreshTokenUsed(c)
    BY <2>1, <1>p, <1>q DEF UpsertDevice, RevokeOldestActiveDevice, EndTrim, RevokeRefreshTokenFamily,
       RevokeAllRefreshTokensForUser, GetUser, MarkRefreshTokenUsed
  <2>2. CASE CountActiveDevices(c)
    BY <2>2, <1>0, <1>p, <1>q, LocalsTypes DEF CountActiveDevices
  <2>3. CASE PickOldestActiveDevice(c)
    <3>1. active # <<>> => Head(active) \in Devices
      BY <1>0
    <3> QED
      BY <2>3, <1>p, <1>q, <3>1, LocalsTypes DEF PickOldestActiveDevice
  <2>4. CASE RevokeRefreshTokensForDevice(c)
    <3>1. call[c].at = "trimTokens" => call[c].count # 0
      BY CapAssumption DEF CallsAreBacked
    <3>2. CASE call[c].at = "deviceTokens"
      BY <2>4, <3>2, <1>p, <1>q DEF RevokeRefreshTokensForDevice
    <3>3. CASE call[c].at # "deviceTokens"
      <4>1. /\ call[c].at = "trimTokens"
            /\ Move(c, [call[c] EXCEPT !.at = "trim", !.victim = Nothing, !.count = call[c].count - 1])
        BY <2>4, <3>3 DEF RevokeRefreshTokensForDevice
      <4>2. [call[c] EXCEPT !.at = "trim", !.victim = Nothing, !.count = call[c].count - 1] \in Call
        BY <1>p, <1>q, <3>1, <4>1, LocalsTypes
      <4> QED
        BY <4>1, <4>2
    <3> QED
      BY <3>2, <3>3
  <2>5. CASE IssueTokenPair(c)
    <3>1. PICK t \in Tokens : \/ Move(c, [call[c] EXCEPT !.at = "mark", !.new = t])
                              \/ Goto(c, "done")
      BY <2>5 DEF IssueTokenPair, Fresh, Rows
    <3> QED
      BY <1>p, <1>q, <3>1, LocalsTypes
  <2> QED
    BY <1>6, <2>1, <2>2, <2>3, <2>4, <2>5 DEF Statement
<1> QED
  BY <1>1, <1>2, <1>3, <1>4, <1>5, <1>6

\* The list of devices stays one without repetitions.
LEMMA ActiveTypes ==
    ASSUME TypeOK, CallsAreBacked, Next
    PROVE  active' \in Seq(Devices) /\ IsInjective(active')
<1>0. active \in Seq(Devices) /\ IsInjective(active)
  BY DEF TypeOK
<1>1. ASSUME NEW c \in Calls, UpsertDevice(c) PROVE active' \in Seq(Devices) /\ IsInjective(active')
  <2> DEFINE d == call[c].device
  <2>1. d \in Devices
    BY <1>1 DEF TypeOK, CallsAreBacked, Call, UpsertDevice
  <2>2. active' = Append(RemoveFirst(active, d), d)
    BY <1>1 DEF UpsertDevice
  <2> HIDE DEF d
  <2>3. d \notin ToSet(RemoveFirst(active, d))
    BY <1>0, Removal
  <2> QED
    BY <1>0, <2>1, <2>2, <2>3, Removal, Joining
<1>2. ASSUME NEW d, active' = RemoveFirst(active, d) PROVE active' \in Seq(Devices) /\ IsInjective(active')
  BY <1>0, <1>2, Removal
<1>3. \A c \in Calls : /\ RevokeOldestActiveDevice(c) => \E d : active' = RemoveFirst(active, d)
                       /\ \A d \in Devices : RevokeDevice(c, d) => active' = RemoveFirst(active, d)
  BY DEF RevokeOldestActiveDevice, RevokeDevice
<1>4. CASE \E c \in Calls : UpsertDevice(c)
  BY <1>1, <1>4
<1>5. CASE \E c \in Calls : RevokeOldestActiveDevice(c) \/ \E d \in Devices : RevokeDevice(c, d)
  BY <1>2, <1>3, <1>5
<1>6. CASE /\ ~ \E c \in Calls : UpsertDevice(c)
           /\ ~ \E c \in Calls : RevokeOldestActiveDevice(c) \/ \E d \in Devices : RevokeDevice(c, d)
  <2>1. UNCHANGED active
    BY <1>6 DEF Next, Statement, Resolve, Login, Refresh, Logout, SetStatus, CountActiveDevices,
       PickOldestActiveDevice, EndTrim, RevokeRefreshTokensForDevice, RevokeRefreshTokenFamily,
       RevokeAllRefreshTokensForUser, GetUser, IssueTokenPair, MarkRefreshTokenUsed, Lookup, EnsureActive,
       Fill, Respond, Expire, tableVars, accessVars
  <2> QED
    BY <1>0, <2>1
<1> QED
  BY <1>4, <1>5, <1>6

\* The token a call issues is fresh.
LEMMA IssueIsIssued ==
    ASSUME NEW c \in Calls, IssueTokenPair(c)
    PROVE  /\ Issued(c, Fresh(Tokens \ Rows)) /\ known' \subseteq known \cup {Fresh(Tokens \ Rows)}
           /\ IF call[c].token = Nothing THEN Goto(c, "done")
              ELSE Move(c, [call[c] EXCEPT !.at = "mark", !.new = Fresh(Tokens \ Rows)])
<1>1. Tokens \ Rows # {}
  BY DEF IssueTokenPair, Rows
<1>2. Fresh(Tokens \ Rows) \in Tokens \ Rows
  BY <1>1 DEF Fresh
<1> QED
  BY <1>2 DEF IssueTokenPair, Issued

\* A step revokes, marks a token used or leaves the table, or it issues a token.
LEMMA TableStep ==
    ASSUME TypeOK, CallsAreBacked, Next
    PROVE  Kept \/ \E c \in Calls : IssueTokenPair(c)
<1>1. ASSUME NEW c \in Calls, NEW d \in Devices, RevokeDevice(c, d) PROVE Kept
  BY <1>1, KeptFacts DEF RevokeDevice
<1>2. ASSUME NEW c \in Calls, RevokeRefreshTokensForDevice(c) \/ RevokeRefreshTokenFamily(c) \/ RevokeAllRefreshTokensForUser(c)
      PROVE  Kept
  <2>1. PICK S \in SUBSET Rows : Revoke(S)
    BY <1>2 DEF RevokeRefreshTokensForDevice, RevokeRefreshTokenFamily, RevokeAllRefreshTokensForUser, OfDevice, OfFamily
  <2> QED
    BY <2>1, KeptFacts
<1>3. ASSUME NEW c \in Calls, NEW t \in known, Logout(c, t) PROVE Kept
  <2>1. {t} \in SUBSET Rows /\ Revoke({t})
    BY <1>3 DEF Logout, TypeOK, Rows
  <2> QED
    BY <2>1, KeptFacts
<1>4. ASSUME NEW c \in Calls, MarkRefreshTokenUsed(c) PROVE Kept
  BY <1>4, KeptFacts
<1>5. ASSUME UNCHANGED row PROVE Kept
  BY <1>5, KeptFacts
<1> QED
  BY <1>1, <1>2, <1>3, <1>4, <1>5 DEF Next, Statement, Resolve, Login, Refresh, SetStatus, UpsertDevice,
     CountActiveDevices, PickOldestActiveDevice, RevokeOldestActiveDevice, EndTrim, GetUser, Lookup, EnsureActive,
     Fill, Respond, Expire, tableVars

LEMMA TypeStep ==
    ASSUME TypeOK, CallsAreBacked, Next
    PROVE  TypeOK'
<1>1. call' \in [Calls -> Call] /\ active' \in Seq(Devices) /\ IsInjective(active')
  BY CallTypes, ActiveTypes
<1>2. row' \in [Tokens -> RefreshToken \cup {Nothing}] /\ Rows \subseteq Rows'
  <2>1. ASSUME NEW c \in Calls, IssueTokenPair(c)
        PROVE  row' \in [Tokens -> RefreshToken \cup {Nothing}] /\ Rows \subseteq Rows'
    BY <2>1, IssueIsIssued, IssueFacts
  <2> QED
    BY <2>1, TableStep DEF Kept
<1>3. known' \subseteq Rows'
  <2>0. known \subseteq Rows
    BY DEF TypeOK, Rows
  <2>1. ASSUME NEW c \in Calls, IssueTokenPair(c) PROVE known' \subseteq Rows'
    <3>1. PICK t : Issued(c, t) /\ known' \subseteq known \cup {t}
      BY <2>1, IssueIsIssued
    <3> QED
      BY <2>0, <3>1, IssueFacts
  <2>2. ASSUME NEW c \in Calls, MarkRefreshTokenUsed(c) PROVE known' \subseteq Rows'
    <3>1. known' = known \cup {call[c].new} /\ call[c].new \in Rows
      BY <2>2 DEF MarkRefreshTokenUsed, CallsAreBacked, TypeOK, Call, Rows
    <3> QED
      BY <1>2, <2>0, <3>1
  <2>3. ASSUME UNCHANGED known PROVE known' \subseteq Rows'
    BY <1>2, <2>0, <2>3
  <2>4. ASSUME NEW c \in Calls,
               \/ \E d \in Devices \cup {Nothing} : Login(c, d)
               \/ \E t \in known : Refresh(c, t) \/ Logout(c, t)
               \/ \E d \in Devices : RevokeDevice(c, d)
               \/ \E s \in {"active", "suspended"} : SetStatus(c, s)
        PROVE  UNCHANGED known
    BY <2>4 DEF Login, Refresh, Logout, SetStatus, RevokeDevice, tableVars
  <2>5. ASSUME NEW c \in Calls, Statement(c), ~ IssueTokenPair(c), ~ MarkRefreshTokenUsed(c)
        PROVE  UNCHANGED known
    BY <2>5 DEF Statement, UpsertDevice, CountActiveDevices, PickOldestActiveDevice, RevokeOldestActiveDevice,
       EndTrim, RevokeRefreshTokensForDevice, RevokeRefreshTokenFamily, RevokeAllRefreshTokensForUser, GetUser,
       tableVars
  <2>6. ASSUME (\E r \in Requests : Lookup(r) \/ Resolve(r)) \/ Expire PROVE UNCHANGED known
    BY <2>6 DEF Lookup, Resolve, EnsureActive, Fill, Respond, Expire, tableVars
  <2> QED
    BY <2>1, <2>2, <2>3, <2>4, <2>5, <2>6 DEF Next
<1>4. status' \in {"active", "suspended"} /\ overtaken' \subseteq Calls
  <2>0. status \in {"active", "suspended"} /\ overtaken \subseteq Calls
    BY DEF TypeOK
  <2>1. ASSUME NEW c \in Calls,
               \/ \E d \in Devices \cup {Nothing} : Login(c, d)
               \/ \E t \in known : Refresh(c, t) \/ Logout(c, t)
               \/ \E d \in Devices : RevokeDevice(c, d)
               \/ \E s \in {"active", "suspended"} : SetStatus(c, s)
        PROVE  status' \in {"active", "suspended"} /\ overtaken' \subseteq Calls
    BY <2>0, <2>1 DEF Login, Refresh, Logout, SetStatus, RevokeDevice, tableVars
  <2>2. ASSUME NEW c \in Calls, Statement(c) PROVE status' \in {"active", "suspended"} /\ overtaken' \subseteq Calls
    BY <2>0, <2>2 DEF Statement, UpsertDevice, CountActiveDevices, PickOldestActiveDevice, RevokeOldestActiveDevice,
       EndTrim, RevokeRefreshTokensForDevice, RevokeRefreshTokenFamily, RevokeAllRefreshTokensForUser, GetUser,
       IssueTokenPair, MarkRefreshTokenUsed, tableVars
  <2>3. ASSUME (\E r \in Requests : Lookup(r) \/ Resolve(r)) \/ Expire
        PROVE  status' \in {"active", "suspended"} /\ overtaken' \subseteq Calls
    BY <2>0, <2>3 DEF Lookup, Resolve, EnsureActive, Fill, Respond, Expire, tableVars
  <2> QED
    BY <2>1, <2>2, <2>3 DEF Next
<1>5. ended' \subseteq Tokens
  <2>1. ASSUME NEW c \in Calls, RevokeRefreshTokenFamily(c) PROVE ended' \subseteq Tokens
    <3>1. FamilyOf(c) \in Tokens /\ ended' = ended \cup {FamilyOf(c)}
      BY <2>1 DEF RevokeRefreshTokenFamily, CallsAreBacked, TypeOK, Call, FamilyOf, RefreshToken
    <3> QED
      BY <3>1 DEF TypeOK
  <2>2. ASSUME UNCHANGED ended PROVE ended' \subseteq Tokens
    BY <2>2 DEF TypeOK
  <2> QED
    BY <2>1, <2>2 DEF Next, Statement, Resolve, Login, Refresh, Logout, SetStatus, RevokeDevice, UpsertDevice,
       CountActiveDevices, PickOldestActiveDevice, RevokeOldestActiveDevice, EndTrim, RevokeRefreshTokensForDevice,
       RevokeAllRefreshTokensForUser, GetUser, IssueTokenPair, MarkRefreshTokenUsed, Lookup, EnsureActive, Fill, Respond, Expire
<1>6. cache' \in BOOLEAN /\ request' \in [Requests -> {"idle", "miss", "fill", "admitted", "refused"}]
  <2>1. ASSUME NEW r \in Requests, Lookup(r) \/ Resolve(r) PROVE cache' \in BOOLEAN /\ request' \in [Requests -> {"idle", "miss", "fill", "admitted", "refused"}]
    BY <2>1 DEF TypeOK, Lookup, Resolve, EnsureActive, Fill, Respond
  <2>2. ASSUME UNCHANGED request, cache' \in {cache, FALSE} PROVE cache' \in BOOLEAN /\ request' \in [Requests -> {"idle", "miss", "fill", "admitted", "refused"}]
    BY <2>2 DEF TypeOK
  <2> QED
    BY <2>1, <2>2 DEF Next, Statement, Login, Refresh, Logout, SetStatus, RevokeDevice, UpsertDevice,
       CountActiveDevices, PickOldestActiveDevice, RevokeOldestActiveDevice, EndTrim, RevokeRefreshTokensForDevice,
       RevokeRefreshTokenFamily, RevokeAllRefreshTokensForUser, GetUser, IssueTokenPair, MarkRefreshTokenUsed, Expire, accessVars
<1> QED
  BY <1>1, <1>2, <1>3, <1>4, <1>5, <1>6 DEF TypeOK, Rows

\* The locals are what the next statements rely on.
LEMMA BackedStep ==
    ASSUME TypeOK, CallsAreBacked, FamiliesAreRows, Next
    PROVE  CallsAreBacked' /\ FamiliesAreRows'
<1>0. TypeOK' /\ call \in [Calls -> Call] /\ \A t \in Tokens : row[t] # Nothing => row'[t] # Nothing
  <2>1. TypeOK' /\ call \in [Calls -> Call]
    BY TypeStep DEF TypeOK
  <2>2. ASSUME NEW c \in Calls, IssueTokenPair(c) PROVE \A t \in Tokens : row[t] # Nothing => row'[t] # Nothing
    BY <2>2, IssueIsIssued, IssueFacts DEF Rows
  <2> QED
    BY <2>1, <2>2, TableStep DEF Kept
<1>1. CallsAreBacked'
  <2> DEFINE Backed(x) ==
        /\ x.at = "idle" => x = Locals("idle")
        /\ x.token # Nothing => row'[x.token] # Nothing
        /\ x.at \in {"replayed", "read", "mark"} => x.token # Nothing
        /\ x.at \in {"upsert", "count", "trim", "picked", "trimTokens"} => x.token = Nothing /\ x.device # Nothing
        /\ x.at \in {"picked", "trimTokens", "deviceTokens"} => x.victim # Nothing
        /\ x.at \in {"picked", "trimTokens"} => x.count > MaxActiveDevices
        /\ x.at = "mark" => x.new # Nothing /\ row'[x.new] # Nothing
  <2>1. \A c \in Calls : Backed(call[c])
    BY <1>0 DEF CallsAreBacked, TypeOK, Call
  <2> HIDE DEF Backed
  <2>2. SUFFICES ASSUME NEW c \in Calls, call'[c] # call[c] PROVE Backed(call'[c])
    BY <2>1 DEF CallsAreBacked, Backed
  <2>3. \/ \E d \in Devices \cup {Nothing} : Login(c, d)
        \/ \E t \in known : Refresh(c, t) \/ Logout(c, t)
        \/ \E d \in Devices : RevokeDevice(c, d)
        \/ \E s \in {"active", "suspended"} : SetStatus(c, s)
        \/ Statement(c)
    <3>1. ASSUME NEW b \in Calls, NEW new, Move(b, new) PROVE b = c
      BY <1>0, <2>2, <3>1 DEF Move
    <3>2. ASSUME NEW b \in Calls,
                 \/ \E d \in Devices \cup {Nothing} : Login(b, d)
                 \/ \E t \in known : Refresh(b, t) \/ Logout(b, t)
                 \/ \E d \in Devices : RevokeDevice(b, d)
                 \/ \E s \in {"active", "suspended"} : SetStatus(b, s)
                 \/ Statement(b)
          PROVE  b = c
      BY <3>1, <3>2 DEF Statement, Login, Refresh, Logout, SetStatus, RevokeDevice, UpsertDevice,
         CountActiveDevices, PickOldestActiveDevice, RevokeOldestActiveDevice, EndTrim, RevokeRefreshTokensForDevice,
         RevokeRefreshTokenFamily, RevokeAllRefreshTokensForUser, GetUser, IssueTokenPair, MarkRefreshTokenUsed, Goto
    <3>3. ~ (Expire \/ \E r \in Requests : Lookup(r) \/ Resolve(r))
      BY <2>2 DEF Lookup, Resolve, EnsureActive, Fill, Respond, Expire
    <3> QED
      BY <3>2, <3>3 DEF Next
  <2>4. PICK x \in Call : x = call[c] /\ Backed(x)
    BY <1>0, <2>1
  <2>5. ASSUME NEW new, Move(c, new), Backed(new) PROVE Backed(call'[c])
    BY <1>0, <2>5 DEF Move
  <2>6. \A at \in {"done", "failed"} : Backed(Locals(at))
    BY DEF Backed, Locals
  <2>7. ASSUME NEW at \in {"done", "failed"}, Goto(c, at) PROVE Backed(call'[c])
    BY <2>5, <2>6, <2>7 DEF Goto
  <2>8. x.token \in Tokens \cup {Nothing} /\ x.device \in Devices \cup {Nothing} /\ (x.at = "idle" => x = Locals("idle"))
    BY <2>4 DEF Backed, Call
  <2>9. ASSUME NEW at \in {"issue", "inactive", "suspend", "count", "trimTokens"}, Goto(c, at),
               at = "suspend" => x.at = "idle", at = "count" => x.at = "upsert", at = "trimTokens" => x.at = "picked"
        PROVE  Backed(call'[c])
    <3> DEFINE y == [x EXCEPT !.at = at]
    <3>1. Move(c, y)
      BY <2>4, <2>9 DEF Goto
    <3>2. Has(y, at, x.token, x.device, x.new, x.victim, x.count)
      BY <2>4, Fields
    <3> HIDE DEF y
    <3>3. Backed(y)
      BY <2>4, <2>9, <3>2 DEF Backed, Has
    <3> QED
      BY <2>5, <3>1, <3>3
  <2>10. ASSUME NEW d \in Devices \cup {Nothing}, Login(c, d) PROVE Backed(call'[c])
    <3> DEFINE y == [x EXCEPT !.device = d, !.at = IF d = Nothing THEN "issue" ELSE "upsert"]
    <3>1. x = Locals("idle") /\ (Goto(c, "failed") \/ Move(c, y))
      BY <2>4, <2>8, <2>10 DEF Login
    <3>2. Has(y, IF d = Nothing THEN "issue" ELSE "upsert", x.token, d, x.new, x.victim, x.count)
      BY <2>4, Fields
    <3>3. x.token = Nothing
      BY <3>1 DEF Locals
    <3> HIDE DEF y
    <3>4. Backed(y)
      BY <3>2, <3>3 DEF Backed, Has
    <3> QED
      BY <2>5, <2>7, <3>1, <3>4
  <2>11. ASSUME NEW t \in known, Refresh(c, t) PROVE Backed(call'[c])
    <3> DEFINE at == IF row[t].used \/ row[t].revoked THEN "replayed" ELSE "read"
               y == [x EXCEPT !.token = t, !.device = row[t].device, !.at = at]
    <3>1. Move(c, y)
      BY <2>4, <2>11 DEF Refresh
    <3>2. t \in Tokens /\ row'[t] # Nothing /\ t # Nothing
      BY <1>0, NothingAssumption DEF TypeOK
    <3>3. Has(y, at, t, row[t].device, x.new, x.victim, x.count) /\ at \in {"replayed", "read"}
      BY <2>4, Fields
    <3> HIDE DEF y, at
    <3>4. Backed(y)
      BY <3>2, <3>3 DEF Backed, Has
    <3> QED
      BY <2>5, <3>1, <3>4
  <2>12. ASSUME NEW d \in Devices, RevokeDevice(c, d) PROVE Backed(call'[c])
    <3> DEFINE y == [x EXCEPT !.at = "deviceTokens", !.victim = d]
    <3>1. Move(c, y)
      BY <2>4, <2>12 DEF RevokeDevice
    <3>2. Has(y, "deviceTokens", x.token, x.device, x.new, d, x.count) /\ d # Nothing
      BY <2>4, Fields, NothingAssumption
    <3> HIDE DEF y
    <3>3. Backed(y)
      BY <2>4, <3>2 DEF Backed, Has
    <3> QED
      BY <2>5, <3>1, <3>3
  <2>13. ASSUME CountActiveDevices(c) PROVE Backed(call'[c])
    <3> DEFINE y == [x EXCEPT !.at = "trim", !.count = Len(active)]
    <3>1. Move(c, y) /\ x.at = "count"
      BY <2>4, <2>13 DEF CountActiveDevices
    <3>2. Has(y, "trim", x.token, x.device, x.new, x.victim, Len(active))
      BY <2>4, Fields
    <3> HIDE DEF y
    <3>3. Backed(y)
      BY <2>4, <3>1, <3>2 DEF Backed, Has
    <3> QED
      BY <2>5, <3>1, <3>3
  <2>14. ASSUME PickOldestActiveDevice(c) PROVE Backed(call'[c])
    <3> DEFINE d == Head(active)
               y == [x EXCEPT !.at = "picked", !.victim = d]
    <3>1. CASE active = <<>>
      BY <2>7, <2>14, <3>1 DEF PickOldestActiveDevice
    <3>2. CASE active # <<>>
      <4>1. Move(c, y) /\ x.at = "trim" /\ x.count > MaxActiveDevices
        BY <2>4, <2>14, <3>2 DEF PickOldestActiveDevice
      <4>2. Has(y, "picked", x.token, x.device, x.new, d, x.count)
        BY <2>4, Fields
      <4>3. d # Nothing
        BY <3>2, NothingAssumption DEF TypeOK
      <4> HIDE DEF y, d
      <4>4. Backed(y)
        BY <2>4, <4>1, <4>2, <4>3 DEF Backed, Has
      <4> QED
        BY <2>5, <4>1, <4>4
    <3> QED
      BY <3>1, <3>2
  <2>15. ASSUME RevokeRefreshTokensForDevice(c) PROVE Backed(call'[c])
    <3> DEFINE y == [x EXCEPT !.at = "trim", !.victim = Nothing, !.count = x.count - 1]
    <3>1. CASE call[c].at = "deviceTokens"
      BY <2>7, <2>15, <3>1 DEF RevokeRefreshTokensForDevice
    <3>2. CASE call[c].at # "deviceTokens"
      <4>1. Move(c, y) /\ x.at = "trimTokens"
        BY <2>4, <2>15, <3>2 DEF RevokeRefreshTokensForDevice
      <4>2. Has(y, "trim", x.token, x.device, x.new, Nothing, x.count - 1)
        BY <2>4, Fields
      <4> HIDE DEF y
      <4>3. Backed(y)
        BY <2>4, <4>1, <4>2 DEF Backed, Has
      <4> QED
        BY <2>5, <4>1, <4>3
    <3> QED
      BY <3>1, <3>2
  <2>16. ASSUME IssueTokenPair(c) PROVE Backed(call'[c])
    <3>1. PICK t : /\ Issued(c, t)
                   /\ IF call[c].token = Nothing THEN Goto(c, "done")
                      ELSE Move(c, [call[c] EXCEPT !.at = "mark", !.new = t])
      BY <2>16, IssueIsIssued
    <3> DEFINE y == [x EXCEPT !.at = "mark", !.new = t]
    <3>2. CASE x.token = Nothing
      BY <2>4, <2>7, <3>1, <3>2
    <3>3. CASE x.token # Nothing
      <4>1. Move(c, y)
        BY <2>4, <3>1, <3>3
      <4>2. Has(y, "mark", x.token, x.device, t, x.victim, x.count)
        BY <2>4, Fields
      <4>3. row'[t] # Nothing /\ t # Nothing
        BY <3>1, IssueFacts, NothingAssumption DEF Issued
      <4> HIDE DEF y
      <4>4. Backed(y)
        BY <2>4, <3>3, <4>2, <4>3 DEF Backed, Has
      <4> QED
        BY <2>5, <4>1, <4>4
    <3> QED
      BY <3>2, <3>3
  <2>17. CASE UpsertDevice(c) \/ RevokeOldestActiveDevice(c) \/ EndTrim(c) \/ GetUser(c)
    BY <2>4, <2>9, <2>17 DEF UpsertDevice, RevokeOldestActiveDevice, EndTrim, GetUser
  <2>18. CASE \E s \in {"active", "suspended"} : SetStatus(c, s)
    BY <2>4, <2>7, <2>9, <2>18 DEF SetStatus
  <2>19. CASE RevokeRefreshTokenFamily(c) \/ RevokeAllRefreshTokensForUser(c) \/ MarkRefreshTokenUsed(c)
              \/ \E t \in known : Logout(c, t)
    BY <2>7, <2>19 DEF RevokeRefreshTokenFamily, RevokeAllRefreshTokensForUser, MarkRefreshTokenUsed, Logout
  <2> QED
    BY <2>3, <2>10, <2>11, <2>12, <2>13, <2>14, <2>15, <2>16, <2>17, <2>18, <2>19 DEF Statement
<1>2. FamiliesAreRows'
  <2>1. ASSUME NEW c \in Calls, IssueTokenPair(c) PROVE FamiliesAreRows'
    <3>1. PICK t : Issued(c, t)
      BY <2>1, IssueIsIssued
    <3>2. call[c].token # Nothing => FamilyOf(c) \in Rows
      BY DEF CallsAreBacked, FamiliesAreRows, TypeOK, Call, Rows, FamilyOf
    <3>3. UNCHANGED ended
      BY <2>1 DEF IssueTokenPair
    <3> QED
      BY <3>1, <3>2, <3>3, IssueFacts DEF FamiliesAreRows
  <2>2. ASSUME Kept, ended' \subseteq ended \cup Rows PROVE FamiliesAreRows'
    BY <2>2 DEF FamiliesAreRows, Kept
  <2>3. ASSUME NEW c \in Calls, RevokeRefreshTokenFamily(c) PROVE ended' \subseteq ended \cup Rows
    BY <2>3 DEF RevokeRefreshTokenFamily, CallsAreBacked, FamiliesAreRows, TypeOK, Call, Rows, FamilyOf
  <2>4. CASE ~ \E c \in Calls : RevokeRefreshTokenFamily(c)
    <3>1. UNCHANGED ended
      BY <2>4 DEF Next, Statement, Resolve, Login, Refresh, Logout, SetStatus, RevokeDevice, UpsertDevice,
       CountActiveDevices, PickOldestActiveDevice, RevokeOldestActiveDevice, EndTrim, RevokeRefreshTokensForDevice,
       RevokeAllRefreshTokensForUser, GetUser, IssueTokenPair, MarkRefreshTokenUsed, Lookup, EnsureActive, Fill, Respond, Expire
    <3> QED
      BY <2>1, <2>2, <3>1, TableStep
  <2> QED
    BY <2>1, <2>2, <2>3, <2>4, TableStep
<1> QED
  BY <1>1, <1>2

-----------------------------------------------------------------------------
Acts(c) ==
    \/ \E d \in Devices \cup {Nothing} : Login(c, d)
    \/ \E t \in known : Refresh(c, t) \/ Logout(c, t)
    \/ \E d \in Devices : RevokeDevice(c, d)
    \/ \E s \in {"active", "suspended"} : SetStatus(c, s)
    \/ Statement(c)

StepOf(c) == Acts(c) /\ \A x \in Calls \ {c} : call'[x] = call[x]

\* A step is that of one call, or it is seen in the cache and the requests only.
LEMMA OneMoves ==
    ASSUME TypeOK, Next
    PROVE  \/ \E c \in Calls : StepOf(c)
           \/ UNCHANGED <<tableVars, known, call, overtaken, ended>>
<1>0. call \in [Calls -> Call]
  BY DEF TypeOK
<1>1. ASSUME NEW c \in Calls, NEW new, Move(c, new) PROVE \A x \in Calls \ {c} : call'[x] = call[x]
  BY <1>0, <1>1 DEF Move
<1>2. ASSUME NEW c \in Calls, Acts(c) PROVE \E new : Move(c, new)
  BY <1>2 DEF Acts, Statement, Login, Refresh, Logout, SetStatus, RevokeDevice, UpsertDevice,
     CountActiveDevices, PickOldestActiveDevice, RevokeOldestActiveDevice, EndTrim, RevokeRefreshTokensForDevice,
     RevokeRefreshTokenFamily, RevokeAllRefreshTokensForUser, GetUser, IssueTokenPair, MarkRefreshTokenUsed, Goto
<1>3. CASE \E c \in Calls : Acts(c)
  BY <1>1, <1>2, <1>3 DEF StepOf
<1>4. CASE Expire \/ \E r \in Requests : Lookup(r) \/ Resolve(r)
  BY <1>4 DEF Lookup, Resolve, EnsureActive, Fill, Respond, Expire
<1> QED
  BY <1>3, <1>4 DEF Next, Acts

Continues(c) ==
    /\ Underway(c) /\ call'[c].token = call[c].token /\ call'[c].device = call[c].device
    /\ call[c].at = "read" => call'[c].at # "read" /\ status = "active" /\ UNCHANGED status
    /\ call[c].at = "upsert" => UpsertDevice(c)

Starts(c) ==
    /\ call'[c].token = Nothing /\ status = "active" /\ UNCHANGED status
    /\ call'[c].device = Nothing \/ call'[c].at = "upsert"

Renews(c) ==
    \E t \in Live :
        /\ call'[c].token = t /\ call'[c].device = row[t].device /\ call'[c].at = "read"
        /\ UNCHANGED row
        /\ row[t].by \in overtaken => c \in overtaken'

\* How a call comes to be on its way to a token.
LEMMA Effects ==
    ASSUME TypeOK, CallsAreBacked, NEW c \in Calls, Acts(c), Underway(c)'
    PROVE  Continues(c) \/ Starts(c) \/ Renews(c)
<1>0. call \in [Calls -> Call] /\ call[c] \in Call /\ (call[c].at = "idle" => call[c] = Locals("idle"))
  BY DEF TypeOK, CallsAreBacked
<1> DEFINE x == call[c]
<1>1. \A new : Move(c, new) => call'[c] = new
  BY <1>0 DEF Move
<1>2. \A at \in {"done", "failed"} : ~ Goto(c, at)
  BY <1>1 DEF Goto, Underway, Locals
<1>3. ASSUME NEW at, at \notin {"done", "failed"}, Goto(c, at)
      PROVE  call'[c].at = at /\ call'[c].token = x.token /\ call'[c].device = x.device
  <2>1. call'[c] = [x EXCEPT !.at = at]
    BY <1>1, <1>3 DEF Goto
  <2> QED
    BY <1>0, <2>1, Fields DEF Has
<1> HIDE DEF x
<1>4. ASSUME NEW d \in Devices \cup {Nothing}, Login(c, d) PROVE Starts(c)
  <2> DEFINE at == IF d = Nothing THEN "issue" ELSE "upsert"
             y == [x EXCEPT !.device = d, !.at = at]
  <2>1. x = Locals("idle") /\ status = "active" /\ UNCHANGED status /\ call'[c] = y
    BY <1>0, <1>1, <1>2, <1>4 DEF Login, x, tableVars
  <2>2. y.token = x.token /\ y.device = d /\ y.at = at
    BY <1>0, Fields DEF Has, x
  <2>3. x.token = Nothing
    BY <2>1 DEF Locals
  <2> HIDE DEF y
  <2> QED
    BY <2>1, <2>2, <2>3 DEF Starts
<1>5. ASSUME NEW t \in known, Refresh(c, t) PROVE Renews(c)
  <2> DEFINE at == IF row[t].used \/ row[t].revoked THEN "replayed" ELSE "read"
             y == [x EXCEPT !.token = t, !.device = row[t].device, !.at = at]
  <2>1. call'[c] = y /\ UNCHANGED row /\ (row[t].by \in overtaken => c \in overtaken')
    BY <1>1, <1>5 DEF Refresh, x, tableVars
  <2>2. y.token = t /\ y.device = row[t].device /\ y.at = at
    BY <1>0, Fields DEF Has, x
  <2> HIDE DEF y
  <2>3. at = "read" /\ ~ row[t].revoked
    BY <2>1, <2>2 DEF Underway
  <2>4. t \in Live
    BY <2>3 DEF Live, Rows, TypeOK
  <2> QED
    BY <2>1, <2>2, <2>3, <2>4 DEF Renews
<1>6. ASSUME NEW d \in Devices, RevokeDevice(c, d) PROVE FALSE
  <2>1. call'[c] = [x EXCEPT !.at = "deviceTokens", !.victim = d]
    BY <1>1, <1>6 DEF RevokeDevice, x
  <2>2. call'[c].at = "deviceTokens"
    BY <1>0, <2>1, Fields DEF Has, x
  <2> QED
    BY <2>2 DEF Underway
<1>7. ASSUME NEW s \in {"active", "suspended"}, SetStatus(c, s) PROVE FALSE
  BY <1>2, <1>3, <1>7 DEF SetStatus, Underway
<1>8. CASE RevokeRefreshTokenFamily(c) \/ RevokeAllRefreshTokensForUser(c) \/ MarkRefreshTokenUsed(c)
           \/ \E t \in known : Logout(c, t)
  BY <1>2, <1>8 DEF RevokeRefreshTokenFamily, RevokeAllRefreshTokensForUser, MarkRefreshTokenUsed, Logout
<1>9. CASE UpsertDevice(c) \/ RevokeOldestActiveDevice(c) \/ EndTrim(c)
  BY <1>3, <1>9 DEF UpsertDevice, RevokeOldestActiveDevice, EndTrim, Continues, Underway, x
<1>10. CASE GetUser(c)
  <2>1. CASE status = "active"
    BY <1>3, <1>10, <2>1 DEF GetUser, Continues, Underway, x, tableVars
  <2>2. CASE status # "active"
    BY <1>3, <1>10, <2>2 DEF GetUser, Underway
  <2> QED
    BY <2>1, <2>2
<1>11. CASE CountActiveDevices(c)
  <2>1. call'[c] = [x EXCEPT !.at = "trim", !.count = Len(active)] /\ call[c].at = "count"
    BY <1>1, <1>11 DEF CountActiveDevices, x
  <2>2. call'[c].at = "trim" /\ call'[c].token = x.token /\ call'[c].device = x.device
    BY <1>0, <2>1, Fields DEF Has, x
  <2> QED
    BY <2>1, <2>2 DEF Continues, Underway, x
<1>12. CASE PickOldestActiveDevice(c)
  <2>1. call'[c] = [x EXCEPT !.at = "picked", !.victim = Head(active)] /\ call[c].at = "trim"
    BY <1>1, <1>2, <1>12 DEF PickOldestActiveDevice, x
  <2>2. call'[c].at = "picked" /\ call'[c].token = x.token /\ call'[c].device = x.device
    BY <1>0, <2>1, Fields DEF Has, x
  <2> QED
    BY <2>1, <2>2 DEF Continues, Underway, x
<1>13. CASE RevokeRefreshTokensForDevice(c)
  <2>1. /\ call'[c] = [x EXCEPT !.at = "trim", !.victim = Nothing, !.count = x.count - 1]
        /\ call[c].at = "trimTokens"
    BY <1>1, <1>2, <1>13 DEF RevokeRefreshTokensForDevice, x
  <2>2. call'[c].at = "trim" /\ call'[c].token = x.token /\ call'[c].device = x.device
    BY <1>0, <2>1, Fields DEF Has, x
  <2> QED
    BY <2>1, <2>2 DEF Continues, Underway, x
<1>14. CASE IssueTokenPair(c)
  <2>1. PICK t : Move(c, [call[c] EXCEPT !.at = "mark", !.new = t])
    BY <1>2, <1>14, IssueIsIssued
  <2>2. call'[c] = [x EXCEPT !.at = "mark", !.new = t]
    BY <1>1, <2>1 DEF x
  <2>3. call'[c].at = "mark"
    BY <1>0, <2>2, Fields DEF Has, x
  <2> QED
    BY <2>3 DEF Underway
<1> QED
  BY <1>4, <1>5, <1>6, <1>7, <1>8, <1>9, <1>10, <1>11, <1>12, <1>13, <1>14 DEF Acts, Statement

\* What every action leaves alone.
LEMMA Frame ==
    ASSUME TypeOK, Next
    PROVE  /\ overtaken \subseteq overtaken'
           /\ UNCHANGED ended \/ \E c \in Calls : RevokeRefreshTokenFamily(c)
           /\ UNCHANGED status \/ \E c \in Calls, s \in {"active", "suspended"} : SetStatus(c, s)
<1>1. overtaken \subseteq overtaken'
  BY DEF Next, Statement, Resolve, Login, Refresh, Logout, SetStatus, RevokeDevice, UpsertDevice,
     CountActiveDevices, PickOldestActiveDevice, RevokeOldestActiveDevice, EndTrim, RevokeRefreshTokensForDevice,
     RevokeRefreshTokenFamily, RevokeAllRefreshTokensForUser, GetUser, IssueTokenPair, MarkRefreshTokenUsed, Lookup,
     EnsureActive, Fill, Respond, Expire
<1>2. UNCHANGED ended \/ \E c \in Calls : RevokeRefreshTokenFamily(c)
  BY DEF Next, Statement, Resolve, Login, Refresh, Logout, SetStatus, RevokeDevice, UpsertDevice,
     CountActiveDevices, PickOldestActiveDevice, RevokeOldestActiveDevice, EndTrim, RevokeRefreshTokensForDevice,
     RevokeAllRefreshTokensForUser, GetUser, IssueTokenPair, MarkRefreshTokenUsed, Lookup, EnsureActive, Fill, Respond, Expire
<1>3. UNCHANGED status \/ \E c \in Calls, s \in {"active", "suspended"} : SetStatus(c, s)
  BY DEF Next, Statement, Resolve, Login, Refresh, Logout, RevokeDevice, UpsertDevice,
     CountActiveDevices, PickOldestActiveDevice, RevokeOldestActiveDevice, EndTrim, RevokeRefreshTokensForDevice,
     RevokeRefreshTokenFamily, RevokeAllRefreshTokensForUser, GetUser, IssueTokenPair, MarkRefreshTokenUsed, Lookup,
     EnsureActive, Fill, Respond, Expire, tableVars
<1> QED
  BY <1>1, <1>2, <1>3

\* A family that was ended goes on from overtaken calls only.
LEMMA ChainStep ==
    ASSUME IInv, Next
    PROVE  ReplayEndsChain' /\ ChainCalls'
<1>0. /\ TypeOK /\ CallsAreBacked /\ FamiliesAreRows /\ ReplayEndsChain /\ ChainCalls
      /\ overtaken \subseteq overtaken' /\ \A c \in Calls : call[c].token \in Rows \cup {Nothing}
      /\ Nothing \notin ended
  BY Frame, NothingAssumption DEF IInv, CallsAreBacked, TypeOK, Call, Rows
<1>1. \A t \in Rows : row'[t].family = row[t].family /\ row'[t].by = row[t].by
  <2>1. ASSUME NEW c \in Calls, IssueTokenPair(c) PROVE \A t \in Rows : row'[t] = row[t]
    BY <1>0, <2>1, IssueIsIssued, IssueFacts
  <2> QED
    BY <1>0, <2>1, TableStep DEF Kept
<1>2. ASSUME NEW x \in Calls, Underway(x)'
      PROVE  \/ Underway(x) /\ FamilyOf(x)' = FamilyOf(x)
             \/ FamilyOf(x)' \in ended => x \in overtaken'
  <2>1. CASE call'[x] = call[x]
    BY <1>0, <1>1, <1>2, <2>1 DEF Underway, FamilyOf
  <2>2. CASE call'[x] # call[x]
    <3>1. Acts(x)
      BY <1>0, <2>2, OneMoves DEF StepOf
    <3>2. CASE Continues(x)
      BY <1>0, <1>1, <3>2 DEF Continues, FamilyOf
    <3>3. CASE Starts(x)
      BY <1>0, <3>3 DEF Starts, FamilyOf
    <3>4. CASE Renews(x)
      <4>1. PICK t \in Live : call'[x].token = t /\ (row[t].by \in overtaken => x \in overtaken')
        BY <3>4 DEF Renews
      <4>2. t # Nothing /\ t \in Rows
        BY NothingAssumption DEF Live, Rows
      <4>3. FamilyOf(x)' = row[t].family
        BY <1>1, <4>1, <4>2 DEF FamilyOf
      <4> QED
        BY <1>0, <4>1, <4>3 DEF ReplayEndsChain
    <3> QED
      BY <1>0, <1>2, <3>1, <3>2, <3>3, <3>4, Effects
  <2> QED
    BY <2>1, <2>2
<1>3. ASSUME NEW c \in Calls, RevokeRefreshTokenFamily(c) PROVE ReplayEndsChain' /\ ChainCalls'
  <2> DEFINE f == FamilyOf(c)
  <2>1. /\ Revoke(OfFamily(f)) /\ ended' = ended \cup {f}
        /\ \A x \in Calls : Underway(x) /\ FamilyOf(x) = f => x \in overtaken'
    BY <1>3 DEF RevokeRefreshTokenFamily
  <2>2. Live' = Live \ OfFamily(f)
    BY <1>0, <2>1, KeptFacts DEF OfFamily
  <2> HIDE DEF f
  <2>3. ReplayEndsChain'
    BY <1>0, <1>1, <2>1, <2>2 DEF ReplayEndsChain, OfFamily, Live
  <2>4. ASSUME NEW x \in Calls, Underway(x)', FamilyOf(x)' = f PROVE x \in overtaken'
    <3>1. call'[x] = call[x] => Underway(x) /\ FamilyOf(x)' = FamilyOf(x)
      BY <1>0, <1>1, <2>4 DEF Underway, FamilyOf
    <3>2. \A y \in Calls : call'[y] # call[y] => ~ Underway(y)'
      <4>1. Move(c, Locals("done"))
        BY <1>3 DEF RevokeRefreshTokenFamily, Goto
      <4>2. \A y \in Calls : call'[y] # call[y] => call'[y] = Locals("done")
        BY <1>0, <4>1 DEF Move, TypeOK
      <4> QED
        BY <4>2 DEF Underway, Locals
    <3> QED
      BY <2>1, <2>4, <3>1, <3>2
  <2> QED
    BY <1>0, <1>2, <2>1, <2>3, <2>4 DEF ChainCalls
<1>4. ASSUME UNCHANGED ended, NEW c \in Calls, IssueTokenPair(c) PROVE ReplayEndsChain'
  <2>1. PICK t : Issued(c, t)
    BY <1>4, IssueIsIssued
  <2>2. /\ Live' = Live \cup {t} /\ t \notin Rows /\ row'[t].by = c
        /\ row'[t].family = IF call[c].token = Nothing THEN t ELSE FamilyOf(c)
    BY <1>0, <2>1, IssueFacts
  <2>3. Underway(c)
    BY <1>4 DEF IssueTokenPair, Underway
  <2>4. row'[t].family \in ended => c \in overtaken'
    BY <1>0, <2>2, <2>3 DEF ChainCalls, FamiliesAreRows
  <2> QED
    BY <1>0, <1>1, <1>4, <2>2, <2>4 DEF ReplayEndsChain, Live
<1>5. ASSUME UNCHANGED ended, Kept PROVE ReplayEndsChain'
  BY <1>0, <1>1, <1>5 DEF ReplayEndsChain, Kept, Live
<1>6. ASSUME UNCHANGED ended PROVE ChainCalls'
  BY <1>0, <1>2, <1>6 DEF ChainCalls
<1> QED
  BY <1>0, <1>3, <1>4, <1>5, <1>6, Frame, TableStep

Suspending == \E c \in Calls : call[c].at = "suspend"

\* A suspension ends every session, but for the calls it ran past.
LEMMA SuspensionStep ==
    ASSUME IInv, Next
    PROVE  SuspendedHasNoSession' /\ SuspendedCalls'
<1>0. /\ TypeOK /\ CallsAreBacked /\ overtaken \subseteq overtaken' /\ call \in [Calls -> Call]
      /\ \A c \in Calls : \A new : Move(c, new) => call'[c] = new
  BY Frame DEF IInv, TypeOK, Move
<1>1. SUFFICES ASSUME status' = "suspended", ~ Suspending'
               PROVE  /\ \A t \in Live' : row'[t].by \in overtaken'
                      /\ \A x \in Calls : Checked(x)' => x \in overtaken'
  BY DEF SuspendedHasNoSession, SuspendedCalls, Suspending
<1>2. CASE Suspending
  <2>1. PICK c \in Calls : call[c].at = "suspend"
    BY <1>2 DEF Suspending
  <2>2. StepOf(c)
    BY <1>0, <1>1, <2>1, OneMoves DEF StepOf, Suspending
  <2>3. RevokeAllRefreshTokensForUser(c)
    BY <2>1, <2>2 DEF StepOf, Acts, Statement, Login, Refresh, Logout, SetStatus, RevokeDevice, UpsertDevice,
       CountActiveDevices, PickOldestActiveDevice, RevokeOldestActiveDevice, EndTrim, RevokeRefreshTokensForDevice,
       RevokeRefreshTokenFamily, GetUser, IssueTokenPair, MarkRefreshTokenUsed
  <2>4. Live' = {}
    BY <1>0, <2>3, KeptFacts DEF RevokeAllRefreshTokensForUser, Live
  <2>5. \A x \in Calls : Underway(x) => x \in overtaken'
    BY <2>3 DEF RevokeAllRefreshTokensForUser
  <2>6. ~ Checked(c)'
    BY <1>0, <2>3 DEF RevokeAllRefreshTokensForUser, Goto, Locals, Checked, Underway
  <2>7. \A x \in Calls \ {c} : Checked(x)' => Underway(x)
    BY <2>2 DEF StepOf, Checked, Underway
  <2> QED
    BY <2>4, <2>5, <2>6, <2>7
<1>3. CASE ~ Suspending
  <2>1. status = "suspended" /\ UNCHANGED status
    <3>1. ASSUME NEW c \in Calls, NEW s \in {"active", "suspended"}, SetStatus(c, s) PROVE FALSE
      <4>1. Goto(c, "suspend")
        BY <1>1, <3>1 DEF SetStatus
      <4>2. call[c] \in Call /\ call'[c] = [call[c] EXCEPT !.at = "suspend"]
        BY <1>0, <4>1 DEF Goto
      <4>3. call'[c].at = "suspend"
        BY <4>2, Fields DEF Has
      <4> QED
        BY <1>1, <4>3 DEF Suspending
    <3> QED
      BY <1>1, <3>1, <1>0, Frame
  <2>2. /\ \A t \in Live : row[t].by \in overtaken
        /\ \A x \in Calls : Checked(x) => x \in overtaken
    BY <1>3, <2>1 DEF IInv, SuspendedHasNoSession, SuspendedCalls, Suspending
  <2>3. \A t \in Live' : row'[t].by \in overtaken'
    <3>1. CASE Kept
      BY <1>0, <2>2, <3>1 DEF Kept, Live
    <3>2. ASSUME NEW c \in Calls, IssueTokenPair(c) PROVE \A t \in Live' : row'[t].by \in overtaken'
      <4>1. PICK t : Issued(c, t)
        BY <3>2, IssueIsIssued
      <4>2. c \in overtaken
        BY <2>2, <3>2 DEF Checked, Underway, IssueTokenPair
      <4> QED
        BY <1>0, <2>2, <4>1, <4>2, IssueFacts DEF Live
    <3> QED
      BY <1>0, <3>1, <3>2, TableStep
  <2>4. ASSUME NEW x \in Calls, Checked(x)' PROVE x \in overtaken'
    <3>1. CASE call'[x] = call[x]
      BY <1>0, <2>2, <2>4, <3>1 DEF Checked, Underway
    <3>2. CASE call'[x] # call[x]
      <4>1. Acts(x) /\ Underway(x)'
        BY <1>0, <2>4, <3>2, OneMoves DEF StepOf, Checked
      <4>2. Continues(x)
        BY <1>0, <2>1, <2>4, <4>1, Effects DEF Starts, Renews, Checked
      <4> QED
        BY <1>0, <2>1, <2>2, <4>2 DEF Continues, Checked
    <3> QED
      BY <3>1, <3>2
  <2> QED
    BY <2>3, <2>4
<1> QED
  BY <1>2, <1>3

\* The device of a login is in use again.
LEMMA Upserted ==
    ASSUME TypeOK, CallsAreBacked, NEW c \in Calls, UpsertDevice(c)
    PROVE  call[c].device \in Devices /\ ToSet(active') = ToSet(active) \cup {call[c].device}
<1>0. active \in Seq(Devices) /\ IsInjective(active)
  BY DEF TypeOK
<1> DEFINE d == call[c].device
<1>1. d \in Devices
  BY DEF TypeOK, CallsAreBacked, Call, UpsertDevice
<1>2. active' = Append(RemoveFirst(active, d), d)
  BY DEF UpsertDevice
<1> HIDE DEF d
<1>3. /\ RemoveFirst(active, d) \in Seq(Devices) /\ IsInjective(RemoveFirst(active, d))
      /\ ToSet(RemoveFirst(active, d)) = ToSet(active) \ {d}
  BY <1>0, Removal
<1>4. ToSet(active') = ToSet(RemoveFirst(active, d)) \cup {d}
  BY <1>1, <1>2, <1>3, Joining
<1> QED
  BY <1>1, <1>3, <1>4 DEF d

Loses(d) ==
    /\ ToSet(active') = ToSet(active) \ {d}
    /\ Len(active') = IF d \in ToSet(active) THEN Len(active) - 1 ELSE Len(active)

Revokes(c, d) == RevokeDevice(c, d) \/ (RevokeOldestActiveDevice(c) /\ call[c].victim = d)

\* What a step does to the devices in use.
LEMMA DevicesStep ==
    ASSUME TypeOK, CallsAreBacked, Next
    PROVE  \/ \E c \in Calls : UpsertDevice(c)
           \/ \E c \in Calls : \E d : Revokes(c, d) /\ Loses(d)
           \/ UNCHANGED active
<1>0. active \in Seq(Devices) /\ IsInjective(active)
  BY DEF TypeOK
<1>1. ASSUME NEW d, active' = RemoveFirst(active, d) PROVE Loses(d)
  BY <1>0, <1>1, Removal DEF Loses
<1>2. ASSUME NEW c \in Calls, NEW d \in Devices, RevokeDevice(c, d) PROVE Revokes(c, d) /\ Loses(d)
  BY <1>1, <1>2 DEF RevokeDevice, Revokes
<1>3. ASSUME NEW c \in Calls, RevokeOldestActiveDevice(c)
      PROVE  Revokes(c, call[c].victim) /\ Loses(call[c].victim)
  <2>1. Revokes(c, call[c].victim)
    BY <1>3 DEF Revokes
  <2>2. active' = RemoveFirst(active, call[c].victim)
    BY <1>3 DEF RevokeOldestActiveDevice
  <2>3. Loses(call[c].victim)
    BY <1>1, <2>2
  <2> QED
    BY <2>1, <2>3
<1>4. \/ \E c \in Calls : UpsertDevice(c)
      \/ \E c \in Calls : RevokeOldestActiveDevice(c)
      \/ \E c \in Calls : \E d \in Devices : RevokeDevice(c, d)
      \/ UNCHANGED active
  BY DEF Next, Statement, Resolve, Login, Refresh, Logout, SetStatus, CountActiveDevices,
     PickOldestActiveDevice, EndTrim, RevokeRefreshTokensForDevice, RevokeRefreshTokenFamily,
     RevokeAllRefreshTokensForUser, GetUser, IssueTokenPair, MarkRefreshTokenUsed, Lookup, EnsureActive,
     Fill, Respond, Expire, tableVars, accessVars
<1> QED
  BY <1>2, <1>3, <1>4

\* A device that has been revoked has no session, but for the calls the
\* revocation ran past.
LEMMA DeviceStep ==
    ASSUME IInv, Next
    PROVE  RevokedDeviceHasNoSession' /\ DeviceCalls'
<1>0. /\ TypeOK /\ CallsAreBacked /\ RevokedDeviceHasNoSession /\ DeviceCalls /\ overtaken \subseteq overtaken'
      /\ call \in [Calls -> Call] /\ \A c \in Calls : \A new : Move(c, new) => call'[c] = new
  BY Frame DEF IInv, TypeOK, Move
<1> DEFINE Gone(d) == d \in Devices \ ToSet(active)
           Ended(d) == d \in Devices \ ToSet(active')
           Pending(d) == \E c \in Calls : /\ call'[c].at \in {"trimTokens", "deviceTokens"}
                                        /\ call'[c].victim = d
           Due(d) == \E c \in Calls : RevokeRefreshTokensForDevice(c) /\ call[c].victim = d
\* A revocation that was to come still is, unless it is this step.
<1>1. ASSUME NEW d, RevocationPending(d), ~ Due(d) PROVE Pending(d)
  <2>1. PICK c \in Calls : call[c].at \in {"trimTokens", "deviceTokens"} /\ call[c].victim = d
    BY <1>1 DEF RevocationPending
  <2>2. ~ Acts(c)
    BY <1>1, <2>1 DEF Acts, Statement, Login, Refresh, Logout, SetStatus, RevokeDevice, UpsertDevice,
       CountActiveDevices, PickOldestActiveDevice, RevokeOldestActiveDevice, EndTrim,
       RevokeRefreshTokenFamily, RevokeAllRefreshTokensForUser, GetUser, IssueTokenPair, MarkRefreshTokenUsed
  <2>3. call'[c] = call[c]
    BY <1>0, <2>2, OneMoves DEF StepOf
  <2> QED
    BY <2>1, <2>3 DEF RevocationPending
\* A device that is revoked by this step is to lose its tokens.
<1>2. ASSUME NEW d, Ended(d), ~ Gone(d) PROVE Pending(d)
  <2>1. PICK c \in Calls : Revokes(c, d)
    <3>1. CASE \E c \in Calls : UpsertDevice(c)
      BY <1>0, <1>2, <3>1, Upserted
    <3>2. CASE UNCHANGED active
      BY <1>2, <3>2
    <3>3. ASSUME NEW c \in Calls, NEW e, Revokes(c, e), Loses(e) PROVE Revokes(c, d)
      <4>1. e = d
        BY <1>2, <3>3 DEF Loses
      <4> QED
        BY <3>3, <4>1
    <3> QED
      BY <1>0, <3>1, <3>2, <3>3, DevicesStep
  <2>2. CASE RevokeDevice(c, d)
    <3>1. call[c] \in Call /\ call'[c] = [call[c] EXCEPT !.at = "deviceTokens", !.victim = d]
      BY <1>0, <2>2 DEF RevokeDevice
    <3>2. call'[c].at = "deviceTokens" /\ call'[c].victim = d
      BY <3>1, Fields DEF Has
    <3> QED
      BY <3>2 DEF RevocationPending
  <2>3. CASE RevokeOldestActiveDevice(c) /\ call[c].victim = d
    <3>1. call[c] \in Call /\ call'[c] = [call[c] EXCEPT !.at = "trimTokens"]
      BY <1>0, <2>3 DEF RevokeOldestActiveDevice, Goto
    <3>2. call'[c].at = "trimTokens" /\ call'[c].victim = d
      BY <2>3, <3>1, Fields DEF Has
    <3> QED
      BY <3>2 DEF RevocationPending
  <2> QED
    BY <2>1, <2>2, <2>3 DEF Revokes
<1> HIDE DEF Due
\* The revocation of a device's tokens reaches every token and every call.
<1>3. ASSUME NEW d, Due(d)
      PROVE  /\ \A t \in Live' : row'[t].device # d
             /\ \A x \in Calls : Underway(x) /\ call[x].device = d => x \in overtaken'
             /\ Kept
  <2>1. PICK c \in Calls : RevokeRefreshTokensForDevice(c) /\ call[c].victim = d
    BY <1>3 DEF Due
  <2>2. /\ Revoke(OfDevice(d))
        /\ \A x \in Calls : Underway(x) /\ call[x].device = d => x \in overtaken'
    BY <2>1 DEF RevokeRefreshTokensForDevice
  <2>3. Kept /\ Live' = Live \ OfDevice(d)
    BY <1>0, <2>2, KeptFacts DEF OfDevice
  <2> QED
    BY <2>2, <2>3 DEF Kept, OfDevice, Live
<1>4. RevokedDeviceHasNoSession'
  <2> SUFFICES ASSUME NEW t \in Live', Ended(row'[t].device)
               PROVE  row'[t].by \in overtaken' \/ Pending(row'[t].device)
    BY DEF RevokedDeviceHasNoSession, RevocationPending
  <2> DEFINE d == row'[t].device
  <2>1. CASE ~ Gone(d)
    BY <1>2, <2>1
  <2>2. CASE Gone(d) /\ t \in Live /\ row'[t].by = row[t].by /\ d = row[t].device
    <3>1. ~ Due(d)
      BY <1>3
    <3>2. row[t].by \in overtaken \/ RevocationPending(d)
      BY <1>0, <2>2 DEF RevokedDeviceHasNoSession, RevocationPending
    <3> QED
      BY <1>0, <1>1, <2>2, <3>1, <3>2
  <2>3. ASSUME NEW c \in Calls, IssueTokenPair(c), Issued(c, t), Gone(d)
        PROVE  row'[t].by \in overtaken' \/ Pending(d)
    <3>1. row'[t].by = c /\ d = call[c].device
      BY <1>0, <2>3, IssueFacts
    <3>2. c \in overtaken \/ RevocationPending(d)
      BY <1>0, <2>3, <3>1 DEF DeviceCalls, Underway, IssueTokenPair
    <3>3. ~ Due(d)
      BY <1>3
    <3> QED
      BY <1>0, <1>1, <3>1, <3>2, <3>3
  <2>4. \/ t \in Live /\ row'[t].by = row[t].by /\ d = row[t].device
        \/ \E c \in Calls : IssueTokenPair(c) /\ Issued(c, t)
    <3>1. CASE Kept
      BY <3>1 DEF Kept, Live
    <3>2. ASSUME NEW c \in Calls, IssueTokenPair(c)
          PROVE  (t \in Live /\ row'[t] = row[t]) \/ Issued(c, t)
      <4>1. PICK n : Issued(c, n)
        BY <3>2, IssueIsIssued
      <4> QED
        BY <1>0, <4>1, IssueFacts DEF Live
    <3> QED
      BY <1>0, <3>1, <3>2, TableStep
  <2> QED
    BY <2>1, <2>2, <2>3, <2>4
<1>5. DeviceCalls'
  <2> SUFFICES ASSUME NEW x \in Calls, Underway(x)', call'[x].at # "upsert", Ended(call'[x].device)
               PROVE  x \in overtaken' \/ Pending(call'[x].device)
    BY DEF DeviceCalls, RevocationPending, Underway
  <2> DEFINE d == call'[x].device
  <2>1. CASE ~ Gone(d)
    BY <1>2, <2>1
  <2>2. ASSUME Gone(d), Underway(x), call[x].at # "upsert", call[x].device = d
        PROVE  x \in overtaken' \/ Pending(d)
    <3>1. x \in overtaken \/ RevocationPending(d)
      BY <1>0, <2>2 DEF DeviceCalls
    <3> QED
      BY <1>0, <1>1, <1>3, <2>2, <3>1
  <2>3. CASE Gone(d) /\ call'[x] = call[x]
    BY <2>2, <2>3 DEF Underway
  <2>4. CASE Gone(d) /\ call'[x] # call[x]
    <3>1. Acts(x)
      BY <1>0, <2>4, OneMoves DEF StepOf
    <3>2. CASE Continues(x) /\ call[x].at # "upsert"
      BY <2>2, <2>4, <3>2 DEF Continues
    <3>3. CASE Continues(x) /\ call[x].at = "upsert"
      BY <1>0, <3>3, Upserted DEF Continues
    <3>4. CASE Starts(x)
      BY <3>4, NothingAssumption DEF Starts
    <3>5. CASE Renews(x)
      <4>1. PICK t \in Live : /\ row[t].device = d /\ UNCHANGED row
                              /\ row[t].by \in overtaken => x \in overtaken'
        BY <3>5 DEF Renews
      <4>2. row[t].by \in overtaken \/ RevocationPending(d)
        BY <1>0, <2>4, <4>1 DEF RevokedDeviceHasNoSession, RevocationPending
      <4>3. t \in Live' /\ row'[t].device = d
        BY <3>5, <4>1 DEF Renews, Live, Rows
      <4>4. ~ Due(d)
        BY <1>3, <4>3
      <4> QED
        BY <1>1, <4>1, <4>2, <4>4
    <3> QED
      BY <1>0, <3>1, <3>2, <3>3, <3>4, <3>5, Effects
  <2> QED
    BY <2>1, <2>3, <2>4
<1> QED
  BY <1>4, <1>5

\* The loop of a login that counted too many devices is still to trim them.
LEMMA CapStep ==
    ASSUME IInv, Next
    PROVE  CapIsTracked'
<1>0. /\ TypeOK /\ CallsAreBacked /\ CapIsTracked /\ call \in [Calls -> Call]
      /\ Len(active) \in Nat /\ Len(active') \in Nat
      /\ \A c \in Calls : \A new : Move(c, new) => call'[c] = new
  BY ActiveTypes DEF IInv, TypeOK, Move
<1> DEFINE Tracked(c) == call[c].at = "count" \/ Trims(c)
           TrackedNext(c) ==
               \/ call'[c].at = "count"
               \/ call'[c].at = "trim" /\ Len(active') <= call'[c].count
               \/ /\ call'[c].at = "picked" /\ Len(active') <= call'[c].count
                  /\ call'[c].victim \notin ToSet(active') => Len(active') + 1 <= call'[c].count
               \/ call'[c].at = "trimTokens" /\ Len(active') + 1 <= call'[c].count
<1>1. SUFFICES ASSUME MaxActiveDevices > 0, ~ (Len(active') <= MaxActiveDevices)
               PROVE  \E c \in Calls : TrackedNext(c)
  BY DEF CapIsTracked, Trims
<1>2. ASSUME NEW c \in Calls, UpsertDevice(c) PROVE TrackedNext(c)
  <2>1. call[c] \in Call /\ call'[c] = [call[c] EXCEPT !.at = "count"]
    BY <1>0, <1>1, <1>2 DEF UpsertDevice, Goto
  <2> QED
    BY <2>1, Fields DEF Has
<1>3. CASE ~ \E c \in Calls : UpsertDevice(c)
  <2>1. Len(active') <= Len(active)
    <3>1. ASSUME NEW d, Loses(d) PROVE Len(active') <= Len(active)
      BY <1>0, <3>1 DEF Loses
    <3> QED
      BY <1>0, <1>3, <3>1, DevicesStep
  <2>2. PICK c \in Calls : Tracked(c)
    BY <1>0, <1>1, <2>1, CapAssumption DEF CapIsTracked
  <2>3. call[c] \in Call /\ call[c].count \in Nat
    BY <1>0 DEF Call
  <2>4. CASE call'[c] = call[c]
    <3>1. ASSUME call[c].at = "picked", Len(active) <= call[c].count,
                 call[c].victim \notin ToSet(active) => Len(active) + 1 <= call[c].count,
                 call[c].victim \notin ToSet(active')
          PROVE  Len(active') + 1 <= call[c].count
      <4> DEFINE v == call[c].victim
      <4>1. CASE v \notin ToSet(active)
        BY <1>0, <2>1, <2>3, <3>1, <4>1
      <4>2. CASE v \in ToSet(active)
        <5>1. CASE UNCHANGED active
          BY <3>1, <4>2, <5>1
        <5>2. ASSUME NEW d, Loses(d) PROVE Len(active') + 1 <= call[c].count
          <6>1. d = v
            BY <3>1, <4>2, <5>2 DEF Loses
          <6>2. Len(active') = Len(active) - 1
            BY <4>2, <5>2, <6>1 DEF Loses
          <6> QED
            BY <1>0, <2>3, <3>1, <6>2
        <5> QED
          BY <1>0, <1>3, <5>1, <5>2, DevicesStep
      <4> QED
        BY <4>1, <4>2
    <3> QED
      BY <1>0, <2>1, <2>2, <2>3, <2>4, <3>1 DEF Trims
  <2>5. CASE call'[c] # call[c]
    <3>1. Acts(c)
      BY <1>0, <2>5, OneMoves DEF StepOf
    <3>2. \/ CountActiveDevices(c) \/ PickOldestActiveDevice(c) \/ RevokeOldestActiveDevice(c)
          \/ EndTrim(c) \/ (RevokeRefreshTokensForDevice(c) /\ call[c].at = "trimTokens")
      <4>1. call[c].at \in {"count", "trim", "picked", "trimTokens"}
        BY <2>2 DEF Trims
      <4> QED
        BY <1>3, <3>1, <4>1 DEF Acts, Statement, Login, Refresh, Logout, SetStatus, RevokeDevice,
           RevokeRefreshTokensForDevice,
           RevokeRefreshTokenFamily, RevokeAllRefreshTokensForUser, GetUser, IssueTokenPair, MarkRefreshTokenUsed
    <3>3. CASE CountActiveDevices(c)
      <4>1. call'[c] = [call[c] EXCEPT !.at = "trim", !.count = Len(active)]
        BY <1>0, <3>3 DEF CountActiveDevices
      <4>2. call'[c].at = "trim" /\ call'[c].count = Len(active)
        BY <2>3, <4>1, Fields DEF Has
      <4> QED
        BY <2>1, <4>2
    <3>4. CASE PickOldestActiveDevice(c)
      <4>1. active # <<>> /\ UNCHANGED active /\ call[c].at = "trim"
        BY <1>0, <1>1, <2>1, <3>4, CapAssumption DEF PickOldestActiveDevice, tableVars
      <4>2. call'[c] = [call[c] EXCEPT !.at = "picked", !.victim = Head(active)]
        BY <1>0, <3>4, <4>1 DEF PickOldestActiveDevice
      <4>3. call'[c].at = "picked" /\ call'[c].victim = Head(active) /\ call'[c].count = call[c].count
        BY <2>3, <4>2, Fields DEF Has
      <4>4. Head(active) \in ToSet(active)
        BY <1>0, <4>1 DEF TypeOK, ToSet
      <4>5. Len(active) <= call[c].count
        BY <2>2, <4>1 DEF Trims
      <4> QED
        BY <4>1, <4>3, <4>4, <4>5
    <3>5. CASE RevokeOldestActiveDevice(c)
      <4> DEFINE v == call[c].victim
      <4>1. call[c].at = "picked" /\ call'[c] = [call[c] EXCEPT !.at = "trimTokens"]
        BY <1>0, <3>5 DEF RevokeOldestActiveDevice, Goto
      <4>2. call'[c].at = "trimTokens" /\ call'[c].count = call[c].count
        BY <2>3, <4>1, Fields DEF Has
      <4>3. active \in Seq(Devices) /\ IsInjective(active) /\ active' = RemoveFirst(active, v)
        BY <1>0, <3>5 DEF RevokeOldestActiveDevice, TypeOK
      <4>4. Len(active') = IF v \in ToSet(active) THEN Len(active) - 1 ELSE Len(active)
        BY <4>3, Removal
      <4>5. /\ Len(active) <= call[c].count
            /\ v \notin ToSet(active) => Len(active) + 1 <= call[c].count
        BY <2>2, <4>1 DEF Trims
      <4>6. Len(active') + 1 <= call[c].count
        BY <1>0, <2>3, <4>4, <4>5
      <4> QED
        BY <4>2, <4>6
    <3>6. CASE EndTrim(c)
      <4>1. call[c].at = "trim" /\ call[c].count <= MaxActiveDevices
        BY <3>6 DEF EndTrim
      <4>2. Len(active) <= call[c].count
        BY <2>2, <4>1 DEF Trims
      <4> QED
        BY <1>0, <1>1, <2>1, <2>3, <4>1, <4>2, CapAssumption
    <3>7. CASE RevokeRefreshTokensForDevice(c) /\ call[c].at = "trimTokens"
      <4>1. call'[c] = [call[c] EXCEPT !.at = "trim", !.victim = Nothing, !.count = call[c].count - 1]
        BY <1>0, <3>7 DEF RevokeRefreshTokensForDevice
      <4>2. call'[c].at = "trim" /\ call'[c].count = call[c].count - 1
        BY <2>3, <4>1, Fields DEF Has
      <4>3. Len(active) + 1 <= call[c].count
        BY <2>2, <3>7 DEF Trims
      <4> QED
        BY <1>0, <2>1, <2>3, <4>2, <4>3
    <3> QED
      BY <3>2, <3>3, <3>4, <3>5, <3>6, <3>7
  <2> QED
    BY <2>4, <2>5
<1> QED
  BY <1>2, <1>3

LEMMA Invisible ==
    ASSUME IInv, UNCHANGED vars
    PROVE  IInv'
<1>1. UNCHANGED <<status, active, row, known, call, cache, request, overtaken, ended>>
  BY DEF vars, tableVars, accessVars
<1>2. TypeOK' /\ CallsAreBacked' /\ FamiliesAreRows'
  BY <1>1 DEF IInv, TypeOK, CallsAreBacked, FamiliesAreRows, Rows
<1>3. ReplayEndsChain' /\ ChainCalls'
  BY <1>1 DEF IInv, ReplayEndsChain, ChainCalls, Live, Rows, Underway, FamilyOf
<1>4. SuspendedHasNoSession' /\ SuspendedCalls'
  BY <1>1 DEF IInv, SuspendedHasNoSession, SuspendedCalls, Live, Rows, Checked, Underway
<1>5. RevokedDeviceHasNoSession' /\ DeviceCalls'
  BY <1>1 DEF IInv, RevokedDeviceHasNoSession, DeviceCalls, RevocationPending, Live, Rows, Underway
<1>6. CapIsTracked'
  BY <1>1 DEF IInv, CapIsTracked, Trims
<1> QED
  BY <1>2, <1>3, <1>4, <1>5, <1>6 DEF IInv

LEMMA StepInv == IInv /\ [Next]_vars => IInv'
<1>1. ASSUME IInv, Next PROVE IInv'
  <2>1. TypeOK /\ CallsAreBacked /\ FamiliesAreRows
    BY <1>1 DEF IInv
  <2>2. TypeOK' /\ CallsAreBacked' /\ FamiliesAreRows'
    BY <1>1, <2>1, TypeStep, BackedStep
  <2> QED
    BY <1>1, <2>2, ChainStep, SuspensionStep, DeviceStep, CapStep DEF IInv
<1> QED
  BY <1>1, Invisible

-----------------------------------------------------------------------------
\* The invariant: what the calls on their way to a token know, next to what the
\* revocations have done to the table.
THEOREM Inductive == Spec => []IInv
  BY InitInv, StepInv, PTL DEF Spec

\* The tables, the locals of the calls and the cache keep their types.
THEOREM TypeCorrect == Spec => []TypeOK
  BY Inductive, PTL DEF IInv

\* RefreshToken: after a replay, only a refresh that had already read its token
\* goes on with the chain.
THEOREM ReplaySafe == Spec => []ReplayEndsChain
  BY Inductive, PTL DEF IInv

\* SetStatus: what a suspension leaves alive comes from a call it ran past.
THEOREM SuspensionSafe == Spec => []SuspendedHasNoSession
  BY Inductive, PTL DEF IInv

\* RevokeDevice and registerDevice: so does what the revocation of a device leaves.
THEOREM DeviceSafe == Spec => []RevokedDeviceHasNoSession
  BY Inductive, PTL DEF IInv

\* registerDevice: the loops of several logins together trim to the cap.
THEOREM CapSafe == Spec => []CapHolds
<1>1. IInv => CapHolds
  BY DEF IInv, CapIsTracked, CapHolds, Trims
<1> QED
  BY <1>1, Inductive, PTL
=============================================================================
