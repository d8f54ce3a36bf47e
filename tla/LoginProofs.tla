---------------------------- MODULE LoginProofs ----------------------------
(***************************************************************************)
(* Theorems of Login: for any finite number of requests and attempts, any  *)
(* limits and any number of guesses.                                       *)
(***************************************************************************)
EXTENDS Login, FiniteSetTheorems, SequenceTheorems, TLAPS

USE LimitAssumption, FiniteAssumption

\* Requests whose INCR of a key is done.
Counted(k) ==
    {r \in Requests : IF k = "phone" THEN request[r].at # "idle" /\ (request[r].at = "incr" => request[r].key = "ip")
                                     ELSE request[r].key = "ip" /\ request[r].at # "incr"}

\* No key counts more calls than were made, and the one call that starts a window
\* is the only one to set its EXPIRE.
CountersAreEarned ==
    /\ \A k \in LimitKeys : counter[k].n <= Cardinality(Counted(k))
    /\ \A r \in Requests : request[r].at = "idle" => request[r].key = "phone"
    /\ \A r \in Requests : request[r].at = "expire" =>
          counter[request[r].key].n > 0 /\ ~ counter[request[r].key].ttl
    /\ \A r, q \in Requests :
          request[r].at = "expire" /\ request[q].at = "expire" /\ request[r].key = request[q].key => r = q

\* An attempt that used its code up and may still log in, and any that used it up.
Using == {"consumed", "blind", "create", "found", "in"}
Spent == Using \cup {"suspended", "failed", "cutoff"}

\* Attempts that have found the code wrong, those of them that were counted, and
\* those that have found it right.
Wrong(i)   == {a \in Attempts : attempt[a].code = i /\ attempt[a].at = "wrong"}
Invalid(i) == {a \in Attempts : attempt[a].code = i /\ attempt[a].at = "invalid"}
Taken(i)   == {a \in Attempts : attempt[a].code = i /\ attempt[a].at \in {"right"} \cup Using}

\* A guess that is still to be counted was made before max_attempts was reached,
\* and a login that is still to come before the code was used up.
AttemptsAreEarned ==
    /\ \A a \in Attempts : attempt[a].at \in {"wrong", "right"} => attempt[a].code # 0
    /\ \A a \in Attempts : attempt[a].at = "idle" => attempt[a].code = 0
    /\ \A i \in DOMAIN codes :
          /\ Cardinality(Underway(i)) <= codes[i].peak
          /\ codes[i].attempts + Cardinality(Wrong(i)) + 1 <= MaxAttempts + codes[i].peak
          /\ Cardinality(Taken(i)) <= codes[i].peak
          /\ Cardinality(Invalid(i)) <= codes[i].attempts
    /\ \A a \in Attempts : attempt[a].at \in Using /\ attempt[a].code # 0 =>
          codes[attempt[a].code].consumed

\* Who used a code up, and who created the user that an attempt no longer can.
ConsumersAreKnown ==
    /\ \A i \in DOMAIN codes : codes[i].consumed =>
          \E a \in Attempts : attempt[a].code = i /\ attempt[a].at \in Spent
    /\ \A a \in Attempts : attempt[a].at = "failed" \/ (attempt[a].at = "create" /\ user # "none") =>
          Creators # {}

IInv == TypeOK /\ CountersAreEarned /\ AttemptsAreEarned /\ ConsumersAreKnown

USE DEF Using, Spent, Creators

\* A set counts no more than a set it is part of.
LEMMA FewerInPart ==
    ASSUME NEW S \in SUBSET Attempts, NEW T \in SUBSET S
    PROVE  Cardinality(T) \in Nat /\ Cardinality(S) \in Nat /\ Cardinality(T) <= Cardinality(S)
<1>1. IsFiniteSet(S)
  BY FS_Subset
<1> QED
  BY <1>1, FS_Subset, FS_CardinalityType

LEMMA InitInv == Init => IInv
<1> SUFFICES ASSUME Init PROVE IInv
  OBVIOUS
<1>1. Cardinality(Requests) \in Nat
  BY FS_CardinalityType
<1>2. \A k \in LimitKeys : Cardinality(Counted(k)) = 0
  <2>1. \A k \in LimitKeys : Counted(k) = {}
    BY DEF Init, Counted
  <2> QED
    BY <2>1, FS_EmptySet
<1>3. codes \in Seq(Code) /\ Len(codes) = 0 /\ DOMAIN codes = {}
  BY DEF Init
<1>4. TypeOK
  BY <1>1, <1>3 DEF Init, TypeOK, LimitKeys
<1> QED
  BY <1>2, <1>3, <1>4 DEF Init, IInv, CountersAreEarned, AttemptsAreEarned, ConsumersAreKnown

\* The parts of TypeOK, which most steps leave alone.
RequestType == [at: {"idle", "incr", "expire", "user", "write", "sent", "limited", "refused", "error"},
                key: LimitKeys]

CountersTyped ==
    /\ counter \in [LimitKeys -> [n: 0..Cardinality(Requests), ttl: BOOLEAN]]
    /\ \A k \in LimitKeys : counter[k].ttl => counter[k].n > 0
RequestsTyped == request \in [Requests -> RequestType]
AttemptsTyped ==
    attempt \in [Attempts -> [at: {"idle", "wrong", "right", "consumed", "blind", "create",
                                   "found", "in", "invalid", "exhausted", "suspended",
                                   "failed", "lost", "cutoff"},
                              code: 0..Len(codes)]]
RestTyped == unlimited \subseteq LimitKeys /\ codes \in Seq(Code) /\ user \in {"none", "active", "suspended"}

LEMMA TypeParts ==
    /\ TypeOK <=> CountersTyped /\ RequestsTyped /\ AttemptsTyped /\ RestTyped
    /\ TypeOK' <=> CountersTyped' /\ RequestsTyped' /\ AttemptsTyped' /\ RestTyped'
<1> USE DEF CountersTyped, RequestsTyped, RequestType, AttemptsTyped, RestTyped
<1>1. TypeOK <=> CountersTyped /\ RequestsTyped /\ AttemptsTyped /\ RestTyped
  BY Zenon DEF TypeOK
<1>2. TypeOK' <=> CountersTyped' /\ RequestsTyped' /\ AttemptsTyped' /\ RestTyped'
  BY Zenon DEF TypeOK
<1> QED
  BY <1>1, <1>2

\* A request goes on to another step, maybe under another key.
LEMMA PutRequest ==
    ASSUME RequestsTyped, NEW r \in Requests, NEW v \in RequestType,
           request' = [request EXCEPT ![r] = v]
    PROVE  RequestsTyped' /\ request'[r] = v /\ \A q \in Requests \ {r} : request'[q] = request[q]
<1> HIDE DEF RequestType
<1> QED
  BY DEF RequestsTyped

LEMMA MoveRequest ==
    ASSUME RequestsTyped, NEW r \in Requests, NEW at,
           [at |-> at, key |-> request[r].key] \in RequestType,
           request' = [request EXCEPT ![r].at = at]
    PROVE  request' = [request EXCEPT ![r] = [at |-> at, key |-> request[r].key]]
<1>1. request[r] \in RequestType
  BY DEF RequestsTyped
<1>2. [request[r] EXCEPT !.at = at] = [at |-> at, key |-> request[r].key]
  BY <1>1 DEF RequestType
<1> QED
  BY <1>2

\* One field of a counter changes, and one counter of them all.
LEMMA CounterFields ==
    ASSUME NEW S, NEW v \in [n: S, ttl: BOOLEAN], NEW x \in S, NEW b \in BOOLEAN
    PROVE  /\ [v EXCEPT !.n = x] = [n |-> x, ttl |-> v.ttl] /\ [n |-> x, ttl |-> v.ttl] \in [n: S, ttl: BOOLEAN]
           /\ [v EXCEPT !.ttl = b] = [n |-> v.n, ttl |-> b] /\ [n |-> v.n, ttl |-> b] \in [n: S, ttl: BOOLEAN]
OBVIOUS

LEMMA PutCounter ==
    ASSUME counter \in [LimitKeys -> [n: 0..Cardinality(Requests), ttl: BOOLEAN]],
           NEW k \in LimitKeys, NEW v \in [n: 0..Cardinality(Requests), ttl: BOOLEAN],
           counter' = [counter EXCEPT ![k] = v]
    PROVE  /\ counter' \in [LimitKeys -> [n: 0..Cardinality(Requests), ttl: BOOLEAN]]
           /\ counter'[k] = v /\ \A x \in LimitKeys \ {k} : counter'[x] = counter[x]
OBVIOUS

\* What a request does to the counters leaves every code and attempt alone.
LEMMA RequestStepInv ==
    ASSUME IInv, NEW r \in Requests, Request(r) \/ RequestStep(r)
    PROVE  TypeOK' /\ CountersAreEarned'
<1>0. TypeOK /\ CountersAreEarned
  BY DEF IInv
<1>n. Cardinality(Requests) \in Nat
  BY FS_CardinalityType
<1>t. CountersTyped /\ RequestsTyped /\ AttemptsTyped /\ RestTyped
  BY <1>0, TypeParts
<1>1. \A k \in LimitKeys : /\ Cardinality(Counted(k)) \in Nat /\ Cardinality(Counted(k)') \in Nat
                           /\ IsFiniteSet(Counted(k))
                           /\ Cardinality(Counted(k)') <= Cardinality(Requests)
  <2>1. \A k \in LimitKeys : Counted(k) \in SUBSET Requests /\ Counted(k)' \in SUBSET Requests
    BY DEF Counted
  <2> QED
    BY <2>1, FS_Subset, FS_CardinalityType
<1>q. \A q \in Requests : request[q] \in RequestType /\ request[q].key \in LimitKeys
  BY <1>t DEF RequestsTyped, RequestType
<1>2. PICK k \in LimitKeys : k = request[r].key
  BY <1>q
<1>c. \A x \in LimitKeys : /\ counter[x] \in [n: 0..Cardinality(Requests), ttl: BOOLEAN]
                           /\ counter[x].n \in Nat /\ counter[x].n <= Cardinality(Requests)
                           /\ counter[x].ttl \in BOOLEAN
                           /\ counter[x].ttl => counter[x].n > 0
  BY <1>t, <1>n DEF CountersTyped
<1>e. /\ \A x \in LimitKeys : counter[x].n <= Cardinality(Counted(x))
      /\ \A q \in Requests : request[q].at = "idle" => request[q].key = "phone"
      /\ \A q \in Requests : request[q].at = "expire" =>
            counter[request[q].key].n > 0 /\ ~ counter[request[q].key].ttl
      /\ \A p, q \in Requests :
            request[p].at = "expire" /\ request[q].at = "expire" /\ request[p].key = request[q].key => p = q
  BY <1>0 DEF CountersAreEarned
<1>3. CASE Request(r)
  <2>1. request[r].at = "idle" /\ request' = [request EXCEPT ![r].at = "incr"] /\ UNCHANGED <<counter, unlimited, codes, user, attempt>>
    BY <1>3 DEF Request, limiterVars
  <2>2. k = "phone"
    BY <1>e, <1>2, <2>1
  <2>3. [at |-> "incr", key |-> k] \in RequestType
    BY DEF RequestType
  <2>4. /\ RequestsTyped' /\ request'[r] = [at |-> "incr", key |-> k]
        /\ \A q \in Requests \ {r} : request'[q] = request[q]
    <3>1. request' = [request EXCEPT ![r] = [at |-> "incr", key |-> k]]
      BY <1>t, <1>2, <2>1, <2>3, MoveRequest
    <3> QED
      BY <1>t, <2>3, <3>1, PutRequest
  <2>5. \A x \in LimitKeys : Counted(x)' = Counted(x)
    BY <1>2, <2>1, <2>2, <2>4 DEF Counted, LimitKeys
  <2>6. TypeOK'
    BY <1>t, <2>1, <2>4, TypeParts DEF CountersTyped, AttemptsTyped, RestTyped
  <2> QED
    BY <1>e, <2>1, <2>4, <2>5, <2>6 DEF CountersAreEarned
<1>4. CASE Incr(r)
  <2> DEFINE n == counter[k].n + 1
  <2>1. /\ request[r].at = "incr" /\ counter' = [counter EXCEPT ![k].n = n]
        /\ UNCHANGED <<unlimited, codes, user, attempt>>
    BY <1>2, <1>4 DEF Incr
  <2>2. PICK at \in {"expire", "limited", "incr", "user"}, key \in LimitKeys :
          /\ request' = [request EXCEPT ![r] = [at |-> at, key |-> key]]
          /\ at = "expire" => n = 1
          /\ at = "incr" => k = "phone" /\ key = "ip"
          /\ at # "incr" => key = k
    <3>1. CASE n = 1
      <4>1. request' = [request EXCEPT ![r].at = "expire"]
        BY <1>2, <1>4, <3>1 DEF Incr
      <4>2. [at |-> "expire", key |-> k] \in RequestType
        BY DEF RequestType
      <4>3. request' = [request EXCEPT ![r] = [at |-> "expire", key |-> k]]
        BY <1>t, <1>2, <4>1, <4>2, MoveRequest
      <4> QED
        BY <3>1, <4>3
    <3>2. CASE n # 1
      <4>1. Checked(r, n)
        BY <1>2, <1>4, <3>2 DEF Incr
      <4> QED
        BY <1>2, <4>1 DEF Checked, LimitKeys
    <3> QED
      BY <3>1, <3>2
  <2>3. [at |-> at, key |-> key] \in RequestType
    BY DEF RequestType
  <2>4. /\ RequestsTyped' /\ request'[r] = [at |-> at, key |-> key]
        /\ \A q \in Requests \ {r} : request'[q] = request[q]
    BY <1>t, <2>2, <2>3, PutRequest
  <2>5. Counted(k)' = Counted(k) \cup {r} /\ r \notin Counted(k)
    <3>1. r \notin Counted(k)
      BY <1>2, <2>1 DEF Counted, LimitKeys
    <3>2. r \in Counted(k)'
      BY <2>2, <2>4 DEF Counted, LimitKeys
    <3>3. \A q \in Requests \ {r} : q \in Counted(k)' <=> q \in Counted(k)
      BY <2>4 DEF Counted
    <3>4. Counted(k) \subseteq Requests /\ Counted(k)' \subseteq Requests
      BY DEF Counted
    <3> QED
      BY <3>1, <3>2, <3>3, <3>4
  <2>6. \A x \in LimitKeys \ {k} : Counted(x)' = Counted(x)
    <3> SUFFICES ASSUME NEW x \in LimitKeys \ {k} PROVE Counted(x)' = Counted(x)
      OBVIOUS
    <3>1. r \in Counted(x)' <=> r \in Counted(x)
      BY <1>2, <2>1, <2>2, <2>4 DEF Counted, LimitKeys
    <3>2. \A q \in Requests \ {r} : q \in Counted(x)' <=> q \in Counted(x)
      BY <2>4 DEF Counted
    <3>3. Counted(x) \subseteq Requests /\ Counted(x)' \subseteq Requests
      BY DEF Counted
    <3> QED
      BY <3>1, <3>2, <3>3
  <2>7. Cardinality(Counted(k)') = Cardinality(Counted(k)) + 1
    BY <1>1, <2>5, FS_AddElement
  <2>8. n \in 0..Cardinality(Requests) /\ n > 0 /\ n <= Cardinality(Counted(k)')
    BY <1>1, <1>c, <1>e, <1>n, <2>7
  <2>9. /\ counter' \in [LimitKeys -> [n: 0..Cardinality(Requests), ttl: BOOLEAN]]
        /\ counter'[k] = [n |-> n, ttl |-> counter[k].ttl]
        /\ \A x \in LimitKeys \ {k} : counter'[x] = counter[x]
    <3> DEFINE v == [n |-> n, ttl |-> counter[k].ttl]
    <3>0. counter[k] \in [n: 0..Cardinality(Requests), ttl: BOOLEAN]
      BY <1>c
    <3>1. [counter[k] EXCEPT !.n = n] = v /\ v \in [n: 0..Cardinality(Requests), ttl: BOOLEAN]
      BY <2>8, <3>0, CounterFields
    <3>2. counter' = [counter EXCEPT ![k] = v]
      BY <2>1, <3>1
    <3> HIDE DEF v
    <3>3. counter \in [LimitKeys -> [n: 0..Cardinality(Requests), ttl: BOOLEAN]]
      BY <1>t DEF CountersTyped
    <3>4. /\ counter' \in [LimitKeys -> [n: 0..Cardinality(Requests), ttl: BOOLEAN]]
          /\ counter'[k] = v /\ \A x \in LimitKeys \ {k} : counter'[x] = counter[x]
      BY <3>1, <3>2, <3>3, PutCounter
    <3> QED
      BY <3>4 DEF v
  <2> HIDE DEF n
  <2>10. counter'[k].n = n /\ counter'[k].ttl = counter[k].ttl
    BY <2>9
  <2>11. \A x \in LimitKeys : counter'[x].n <= Cardinality(Counted(x)')
    BY <1>e, <2>6, <2>8, <2>9, <2>10
  <2>12. CountersTyped'
    BY <1>c, <2>8, <2>9, <2>10 DEF CountersTyped
  <2>13. TypeOK'
    BY <1>t, <2>1, <2>4, <2>12, TypeParts DEF AttemptsTyped, RestTyped
  <2>14. at = "expire" => counter[k].n = 0 /\ ~ counter[k].ttl
    BY <1>c, <2>2 DEF n
  <2>15. \A q \in Requests \ {r} : request'[q].at = "expire" /\ request'[q].key = k => at # "expire"
    BY <1>c, <1>e, <2>4, <2>14
  <2>16. \A q \in Requests : request'[q].at = "idle" => request'[q].key = "phone"
    BY <1>e, <2>4
  <2>17. \A q \in Requests : request'[q].at = "expire" =>
               counter'[request'[q].key].n > 0 /\ ~ counter'[request'[q].key].ttl
    <3> SUFFICES ASSUME NEW q \in Requests, request'[q].at = "expire"
                 PROVE  counter'[request'[q].key].n > 0 /\ ~ counter'[request'[q].key].ttl
      OBVIOUS
    <3>1. CASE q = r
      BY <2>2, <2>4, <2>8, <2>10, <2>14, <3>1
    <3>2. CASE q # r /\ request[q].key = k
      BY <1>e, <2>4, <2>8, <2>10, <3>2
    <3>3. CASE q # r /\ request[q].key # k
      BY <1>e, <1>q, <2>4, <2>9, <3>3
    <3> QED
      BY <3>1, <3>2, <3>3
  <2>18. \A p, q \in Requests :
            request'[p].at = "expire" /\ request'[q].at = "expire" /\ request'[p].key = request'[q].key => p = q
    BY <1>e, <2>2, <2>4, <2>15
  <2> QED
    BY <2>11, <2>13, <2>16, <2>17, <2>18 DEF CountersAreEarned
<1>5. CASE SetExpire(r)
  <2>1. /\ request[r].at = "expire" /\ counter' = [counter EXCEPT ![k].ttl = TRUE] /\ Checked(r, 1)
        /\ UNCHANGED <<unlimited, codes, user, attempt>>
    BY <1>2, <1>5 DEF SetExpire
  <2>2. PICK at \in {"limited", "incr", "user"}, key \in LimitKeys :
          /\ request' = [request EXCEPT ![r] = [at |-> at, key |-> key]]
          /\ at = "incr" => k = "phone" /\ key = "ip"
          /\ at # "incr" => key = k
    BY <1>2, <2>1 DEF Checked, LimitKeys
  <2>3. [at |-> at, key |-> key] \in RequestType
    BY DEF RequestType
  <2>4. /\ RequestsTyped' /\ request'[r] = [at |-> at, key |-> key]
        /\ \A q \in Requests \ {r} : request'[q] = request[q]
    BY <1>t, <2>2, <2>3, PutRequest
  <2>5. \A x \in LimitKeys : Counted(x)' = Counted(x)
    <3> SUFFICES ASSUME NEW x \in LimitKeys PROVE Counted(x)' = Counted(x)
      OBVIOUS
    <3>1. r \in Counted(x)' <=> r \in Counted(x)
      BY <1>2, <2>1, <2>2, <2>4 DEF Counted, LimitKeys
    <3>2. \A q \in Requests \ {r} : q \in Counted(x)' <=> q \in Counted(x)
      BY <2>4 DEF Counted
    <3>3. Counted(x) \subseteq Requests /\ Counted(x)' \subseteq Requests
      BY DEF Counted
    <3> QED
      BY <3>1, <3>2, <3>3
  <2>6. counter[k].n > 0
    BY <1>2, <1>e, <2>1
  <2>7. /\ counter' \in [LimitKeys -> [n: 0..Cardinality(Requests), ttl: BOOLEAN]]
        /\ counter'[k] = [n |-> counter[k].n, ttl |-> TRUE]
        /\ \A x \in LimitKeys \ {k} : counter'[x] = counter[x]
    <3> DEFINE v == [n |-> counter[k].n, ttl |-> TRUE]
    <3>0. counter[k] \in [n: 0..Cardinality(Requests), ttl: BOOLEAN] /\ counter[k].n \in 0..Cardinality(Requests)
      BY <1>c
    <3>1. [counter[k] EXCEPT !.ttl = TRUE] = v /\ v \in [n: 0..Cardinality(Requests), ttl: BOOLEAN]
      BY ONLY <3>0, CounterFields
    <3>2. counter' = [counter EXCEPT ![k] = v]
      BY <2>1, <3>1
    <3> HIDE DEF v
    <3>3. counter \in [LimitKeys -> [n: 0..Cardinality(Requests), ttl: BOOLEAN]]
      BY <1>t DEF CountersTyped
    <3>4. /\ counter' \in [LimitKeys -> [n: 0..Cardinality(Requests), ttl: BOOLEAN]]
          /\ counter'[k] = v /\ \A x \in LimitKeys \ {k} : counter'[x] = counter[x]
      BY <3>1, <3>2, <3>3, PutCounter
    <3> QED
      BY <3>4 DEF v
  <2>8. counter'[k].n = counter[k].n
    BY <2>7
  <2>9. CountersTyped'
    BY <1>c, <2>6, <2>7, <2>8 DEF CountersTyped
  <2>10. TypeOK'
    BY <1>t, <2>1, <2>4, <2>9, TypeParts DEF AttemptsTyped, RestTyped
  <2>11. \A x \in LimitKeys : counter'[x].n <= Cardinality(Counted(x)')
    BY <1>e, <2>5, <2>7, <2>8
  <2>12. \A q \in Requests : request'[q].at = "expire" => q # r /\ request'[q] = request[q] /\ request[q].key # k
    BY <1>e, <1>2, <2>1, <2>2, <2>4
  <2>13. \A q \in Requests : request'[q].at = "expire" =>
               counter'[request'[q].key].n > 0 /\ ~ counter'[request'[q].key].ttl
    BY <1>e, <1>q, <2>7, <2>12
  <2>14. \A q \in Requests : request'[q].at = "idle" => request'[q].key = "phone"
    BY <1>e, <2>2, <2>4
  <2> QED
    BY <1>e, <2>10, <2>11, <2>12, <2>13, <2>14 DEF CountersAreEarned
<1>6. CASE LoseExpire(r) \/ RefuseSuspended(r) \/ CreateOTPCode(r)
  <2>1. PICK at \in {"error", "refused", "write", "sent"} : request' = [request EXCEPT ![r].at = at]
    BY <1>6 DEF LoseExpire, RefuseSuspended, CreateOTPCode
  <2>2. /\ request[r].at \in {"expire", "user", "write"}
        /\ UNCHANGED <<counter, user, attempt>>
        /\ unlimited' \subseteq unlimited \cup {k}
        /\ codes' = codes \/ codes' = Append(codes, [attempts |-> 0, consumed |-> FALSE, expired |-> FALSE, peak |-> 0])
    BY <1>2, <1>6 DEF LoseExpire, RefuseSuspended, CreateOTPCode, limiterVars
  <2>3. [at |-> at, key |-> k] \in RequestType
    BY DEF RequestType
  <2>4. /\ RequestsTyped' /\ request'[r] = [at |-> at, key |-> k]
        /\ \A q \in Requests \ {r} : request'[q] = request[q]
    <3>1. request' = [request EXCEPT ![r] = [at |-> at, key |-> k]]
      BY <1>t, <1>2, <2>1, <2>3, MoveRequest
    <3> QED
      BY <1>t, <2>3, <3>1, PutRequest
  <2>5. \A x \in LimitKeys : Counted(x)' = Counted(x)
    <3> SUFFICES ASSUME NEW x \in LimitKeys PROVE Counted(x)' = Counted(x)
      OBVIOUS
    <3>1. r \in Counted(x)' <=> r \in Counted(x)
      BY <1>2, <2>2, <2>4 DEF Counted
    <3>2. \A q \in Requests \ {r} : q \in Counted(x)' <=> q \in Counted(x)
      BY <2>4 DEF Counted
    <3>3. Counted(x) \subseteq Requests /\ Counted(x)' \subseteq Requests
      BY DEF Counted
    <3> QED
      BY <3>1, <3>2, <3>3
  <2>6. codes' \in Seq(Code) /\ Len(codes') >= Len(codes) /\ Len(codes) \in Nat /\ Len(codes') \in Nat
    <3> DEFINE c == [attempts |-> 0, consumed |-> FALSE, expired |-> FALSE, peak |-> 0]
    <3>1. c \in Code
      BY DEF Code
    <3>4. codes' = codes \/ codes' = Append(codes, c)
      BY <2>2
    <3> HIDE DEF c, Code
    <3>2. codes \in Seq(Code)
      BY <1>t DEF RestTyped
    <3>3. codes' \in Seq(Code) /\ Len(codes') \in {Len(codes), Len(codes) + 1} /\ Len(codes) \in Nat
      BY <3>1, <3>2, <3>4, AppendProperties
    <3> QED
      BY <3>3
  <2>7. AttemptsTyped'
    <3>1. 0..Len(codes) \subseteq 0..Len(codes')
      BY <2>6
    <3>2. attempt' = attempt
      BY <2>2
    <3>3. \A a \in Attempts : attempt[a].code \in 0..Len(codes')
      BY <1>t, <3>1 DEF AttemptsTyped
    <3> QED
      BY <1>t, <3>2, <3>3 DEF AttemptsTyped
  <2>8. RestTyped' /\ CountersTyped'
    BY <1>t, <2>2, <2>6 DEF RestTyped, CountersTyped
  <2>9. TypeOK'
    BY <2>4, <2>7, <2>8, TypeParts
  <2> QED
    BY <1>e, <2>1, <2>2, <2>4, <2>5, <2>9 DEF CountersAreEarned
<1> QED
  BY <1>3, <1>4, <1>5, <1>6 DEF RequestStep

\* The domain of codes is an interval, its elements are codes.
LEMMA SeqOfCodes ==
    ASSUME NEW s \in Seq(Code)
    PROVE  \A j \in DOMAIN s : /\ j \in Nat /\ j # 0 /\ s[j] \in Code
                              /\ s[j].attempts \in Nat /\ s[j].peak \in Nat
<1>1. \A j \in DOMAIN s : j \in 1..Len(s) /\ s[j] \in Code /\ Len(s) \in Nat
  <2> HIDE DEF Code
  <2> QED
    OBVIOUS
<1> QED
  BY <1>1 DEF Code

LEMMA CodeTypes ==
    ASSUME TypeOK
    PROVE  \A j \in DOMAIN codes : /\ j \in Nat /\ j # 0 /\ codes[j] \in Code
                                  /\ codes[j].attempts \in Nat /\ codes[j].peak \in Nat
<1> HIDE DEF Code
<1> QED
  BY SeqOfCodes DEF TypeOK

\* Changing one code leaves a sequence of as many codes.
LEMMA CodesUpdate ==
    ASSUME TypeOK, NEW i \in DOMAIN codes, NEW c \in Code, codes' = [codes EXCEPT ![i] = c]
    PROVE  /\ codes' \in Seq(Code) /\ Len(codes') = Len(codes) /\ DOMAIN codes' = DOMAIN codes
           /\ codes'[i] = c /\ \A j \in DOMAIN codes \ {i} : codes'[j] = codes[j]
<1>1. codes \in Seq(Code)
  BY DEF TypeOK
<1> HIDE DEF Code
<1> QED
  BY <1>1, ExceptSeq

\* The sets of attempts with one code have a size.
LEMMA Sizes ==
    \A i \in Nat : /\ Cardinality(Underway(i)) \in Nat /\ Cardinality(Wrong(i)) \in Nat
                    /\ Cardinality(Taken(i)) \in Nat
                    /\ Cardinality(Underway(i)') \in Nat /\ Cardinality(Wrong(i)') \in Nat
                    /\ Cardinality(Taken(i)') \in Nat
                    /\ Cardinality(Invalid(i)) \in Nat /\ Cardinality(Invalid(i)') \in Nat
<1> SUFFICES ASSUME NEW i \in Nat
             PROVE  /\ Cardinality(Underway(i)) \in Nat /\ Cardinality(Wrong(i)) \in Nat
                    /\ Cardinality(Taken(i)) \in Nat
                    /\ Cardinality(Underway(i)') \in Nat /\ Cardinality(Wrong(i)') \in Nat
                    /\ Cardinality(Taken(i)') \in Nat
                    /\ Cardinality(Invalid(i)) \in Nat /\ Cardinality(Invalid(i)') \in Nat
  OBVIOUS
<1>1. /\ Underway(i) \in SUBSET Attempts /\ Wrong(i) \in SUBSET Attempts /\ Taken(i) \in SUBSET Attempts
      /\ Underway(i)' \in SUBSET Attempts /\ Wrong(i)' \in SUBSET Attempts /\ Taken(i)' \in SUBSET Attempts
      /\ Invalid(i) \in SUBSET Attempts /\ Invalid(i)' \in SUBSET Attempts
  BY DEF Underway, Wrong, Taken, Invalid
<1> QED
  BY <1>1, FS_Subset, FS_CardinalityType

\* Sets of attempts that only lose members count no more than before.
LEMMA Fewer ==
    ASSUME NEW i \in Nat
    PROVE  /\ Underway(i)' \subseteq Underway(i) => Cardinality(Underway(i)') <= Cardinality(Underway(i))
           /\ Wrong(i)' \subseteq Wrong(i) => Cardinality(Wrong(i)') <= Cardinality(Wrong(i))
           /\ Taken(i)' \subseteq Taken(i) => Cardinality(Taken(i)') <= Cardinality(Taken(i))
<1>1. /\ Underway(i) \in SUBSET Attempts /\ Wrong(i) \in SUBSET Attempts /\ Taken(i) \in SUBSET Attempts
  BY DEF Underway, Wrong, Taken
<1> QED
  BY <1>1, FewerInPart

\* VerifyOTP counts its attempt into the code it has read.
LEMMA BeginStepInv ==
    ASSUME IInv, NEW a \in Attempts, NEW i \in Open, NEW at \in {"wrong", "right"},
           attempt[a].at = "idle", codes[i].attempts < MaxAttempts,
           Begin(a, i, at), UNCHANGED <<limiterVars, user, request>>
    PROVE  IInv'
<1>0. TypeOK /\ CountersAreEarned /\ AttemptsAreEarned /\ ConsumersAreKnown
  BY DEF IInv
<1>1. i \in DOMAIN codes /\ i \in Nat /\ i # 0 /\ ~ codes[i].consumed /\ codes[i] \in Code
  BY <1>0, CodeTypes DEF Open
<1> DEFINE n == Cardinality(Underway(i)) + 1
           c == [codes[i] EXCEPT !.peak = IF @ < n THEN n ELSE @]
<1>2. n \in Nat /\ n > 0
  <2>1. Cardinality(Underway(i)) \in Nat
    BY <1>1, Sizes
  <2> QED
    BY <2>1
<1>3. c \in Code /\ c.peak >= n /\ c.peak >= codes[i].peak
      /\ c.attempts = codes[i].attempts /\ c.consumed = codes[i].consumed
  BY <1>1, <1>2 DEF Code
<1>4. codes' = [codes EXCEPT ![i] = c]
  BY <1>1 DEF Begin
<1> HIDE DEF c, n
<1>5. /\ codes' \in Seq(Code) /\ Len(codes') = Len(codes) /\ DOMAIN codes' = DOMAIN codes
      /\ codes'[i] = c /\ \A j \in DOMAIN codes \ {i} : codes'[j] = codes[j]
  BY <1>0, <1>1, <1>3, <1>4, CodesUpdate
<1>6. attempt' = [attempt EXCEPT ![a] = [at |-> at, code |-> i]]
  BY DEF Begin
<1>7. TypeOK'
  BY <1>0, <1>1, <1>5, <1>6 DEF TypeOK, limiterVars
<1>8. CountersAreEarned'
  BY <1>0 DEF CountersAreEarned, Counted, limiterVars
<1>9. \A j \in DOMAIN codes \ {i} : /\ Underway(j)' \subseteq Underway(j)
                                     /\ Wrong(j)' \subseteq Wrong(j) /\ Taken(j)' \subseteq Taken(j)
  BY <1>0, <1>6 DEF TypeOK, Underway, Wrong, Taken
<1>10. Underway(i)' = Underway(i) \cup {a} /\ a \notin Underway(i)
  BY <1>0, <1>6 DEF TypeOK, Underway
<1>11. Cardinality(Underway(i)') = n
  <2>1. IsFiniteSet(Underway(i))
    BY FS_Subset DEF Underway
  <2> QED
    BY <1>10, <2>1, FS_AddElement DEF n
<1>12. \A b \in Attempts : attempt[b].at \in Using => attempt[b].code # i
  BY <1>0, <1>1 DEF AttemptsAreEarned, TypeOK
<1>13. Wrong(i)' \subseteq Underway(i)' /\ Taken(i)' \subseteq Underway(i)'
  BY <1>0, <1>6, <1>12 DEF TypeOK, Wrong, Taken, Underway
<1>14. Cardinality(Wrong(i)') <= n /\ Cardinality(Taken(i)') <= n
  <2>1. Underway(i)' \in SUBSET Attempts
    BY DEF Underway
  <2> QED
    BY <1>11, <1>13, <2>1, FewerInPart
<1>15. AttemptsAreEarned'
  <2>1. \A j \in DOMAIN codes : j \in Nat /\ codes[j].attempts \in Nat /\ codes[j].peak \in Nat
    BY <1>0, CodeTypes
  <2>2. ASSUME NEW j \in DOMAIN codes
        PROVE  /\ Cardinality(Underway(j)') <= codes'[j].peak
               /\ codes'[j].attempts + Cardinality(Wrong(j)') + 1 <= MaxAttempts + codes'[j].peak
               /\ Cardinality(Taken(j)') <= codes'[j].peak
    <3>1. CASE j = i
      <4>1. c.peak \in Nat /\ c.attempts \in Nat /\ c.attempts + 1 <= MaxAttempts
        BY <1>1, <1>3 DEF Code
      <4>2. /\ Cardinality(Wrong(i)') \in Nat /\ Cardinality(Taken(i)') \in Nat
        BY <1>1, Sizes
      <4> QED
        BY <1>2, <1>3, <1>5, <1>11, <1>14, <3>1, <4>1, <4>2
    <3>2. CASE j # i
      <4>1. /\ Cardinality(Underway(j)') <= Cardinality(Underway(j))
            /\ Cardinality(Wrong(j)') <= Cardinality(Wrong(j))
            /\ Cardinality(Taken(j)') <= Cardinality(Taken(j))
        BY <1>9, <2>1, <3>2, Fewer
      <4>2. /\ Cardinality(Underway(j)) <= codes[j].peak
            /\ codes[j].attempts + Cardinality(Wrong(j)) + 1 <= MaxAttempts + codes[j].peak
            /\ Cardinality(Taken(j)) <= codes[j].peak
        BY <1>0 DEF AttemptsAreEarned
      <4>3. /\ Cardinality(Underway(j)) \in Nat /\ Cardinality(Wrong(j)) \in Nat
            /\ Cardinality(Taken(j)) \in Nat /\ Cardinality(Underway(j)') \in Nat
            /\ Cardinality(Wrong(j)') \in Nat /\ Cardinality(Taken(j)') \in Nat
        BY <2>1, Sizes
      <4>4. codes'[j] = codes[j]
        BY <1>5, <3>2
      <4> QED
        BY <2>1, <4>1, <4>2, <4>3, <4>4
    <3> QED
      BY <3>1, <3>2
  <2>3. \A b \in Attempts : /\ attempt'[b].at \in {"wrong", "right"} => attempt'[b].code # 0
                            /\ attempt'[b].at = "idle" => attempt'[b].code = 0
    BY <1>0, <1>1, <1>6 DEF TypeOK, AttemptsAreEarned
  <2>5. \A j \in DOMAIN codes : Cardinality(Invalid(j)') <= codes'[j].attempts
    <3>1. \A j \in DOMAIN codes : Invalid(j)' = Invalid(j)
      BY <1>0, <1>6 DEF TypeOK, Invalid
    <3>2. \A j \in DOMAIN codes : codes'[j].attempts = codes[j].attempts
      BY <1>3, <1>5
    <3> QED
      BY <1>0, <3>1, <3>2 DEF AttemptsAreEarned
  <2>4. \A b \in Attempts : attempt'[b].at \in Using /\ attempt'[b].code # 0 =>
           codes'[attempt'[b].code].consumed
    <3> SUFFICES ASSUME NEW b \in Attempts, attempt'[b].at \in Using, attempt'[b].code # 0
                 PROVE  codes'[attempt'[b].code].consumed
      OBVIOUS
    <3>1. attempt'[b] = attempt[b] /\ attempt[b].code \in DOMAIN codes
      BY <1>0, <1>6 DEF TypeOK
    <3> QED
      BY <1>0, <1>3, <1>5, <3>1 DEF AttemptsAreEarned
  <2> QED
    BY <1>5, <2>2, <2>3, <2>4, <2>5 DEF AttemptsAreEarned
<1>16. ConsumersAreKnown'
  <2>1. \A j \in DOMAIN codes : codes'[j].consumed = codes[j].consumed
    BY <1>3, <1>5
  <2>2. \A b \in Attempts : attempt[b].at # "idle" => attempt'[b] = attempt[b]
    BY <1>0, <1>6 DEF TypeOK
  <2>3. \A b \in Attempts : attempt'[b].at \in {"failed", "create"} => attempt'[b] = attempt[b]
    BY <1>0, <1>6 DEF TypeOK
  <2> QED
    BY <1>0, <1>5, <2>1, <2>2, <2>3 DEF ConsumersAreKnown
<1> QED
  BY <1>7, <1>8, <1>15, <1>16 DEF IInv

\* An attempt that moves on, and changes at most its own code, adds nobody to
\* those who are still to be counted.
LEMMA AttemptMoves ==
    ASSUME IInv, NEW a \in Attempts, NEW at,
           attempt' = [attempt EXCEPT ![a].at = at], UNCHANGED <<limiterVars, request>>,
           codes' \in Seq(Code), Len(codes') = Len(codes), DOMAIN codes' = DOMAIN codes,
           \A j \in DOMAIN codes : codes'[j].peak = codes[j].peak /\ (codes[j].consumed => codes'[j].consumed),
           \A j \in DOMAIN codes : codes'[j].attempts + Cardinality(Wrong(j)') <=
                                       codes[j].attempts + Cardinality(Wrong(j)),
           \A j \in DOMAIN codes : Cardinality(Invalid(j)') <= codes'[j].attempts,
           at \in Spent \cup {"invalid", "exhausted", "lost"},
           at \in Using => attempt[a].at \in ({"right"} \cup Using) \ {"in"},
           at \in Using /\ attempt[a].code # 0 => codes'[attempt[a].code].consumed,
           user' \in {"none", "active", "suspended"}
    PROVE  TypeOK' /\ CountersAreEarned' /\ AttemptsAreEarned'
<1>0. TypeOK /\ CountersAreEarned /\ AttemptsAreEarned
  BY DEF IInv
<1>1. TypeOK'
  BY <1>0 DEF TypeOK, limiterVars
<1>2. CountersAreEarned'
  BY <1>0 DEF CountersAreEarned, Counted, limiterVars
<1>3. \A j \in Nat : Underway(j)' \subseteq Underway(j) /\ Taken(j)' \subseteq Taken(j)
  BY <1>0 DEF TypeOK, Underway, Taken
<1>4. ASSUME NEW j \in DOMAIN codes
      PROVE  /\ Cardinality(Underway(j)') <= codes'[j].peak
             /\ codes'[j].attempts + Cardinality(Wrong(j)') + 1 <= MaxAttempts + codes'[j].peak
             /\ Cardinality(Taken(j)') <= codes'[j].peak
  <2>1. j \in Nat /\ codes[j].attempts \in Nat /\ codes[j].peak \in Nat
    BY <1>0, CodeTypes
  <2>2. codes'[j].attempts \in Nat
    BY SeqOfCodes
  <2>3. /\ Cardinality(Underway(j)') <= Cardinality(Underway(j))
        /\ Cardinality(Taken(j)') <= Cardinality(Taken(j))
    BY <1>3, <2>1, Fewer
  <2>4. /\ Cardinality(Underway(j)) <= codes[j].peak
        /\ codes[j].attempts + Cardinality(Wrong(j)) + 1 <= MaxAttempts + codes[j].peak
        /\ Cardinality(Taken(j)) <= codes[j].peak
    BY <1>0 DEF AttemptsAreEarned
  <2>5. /\ Cardinality(Underway(j)) \in Nat /\ Cardinality(Wrong(j)) \in Nat
        /\ Cardinality(Taken(j)) \in Nat /\ Cardinality(Underway(j)') \in Nat
        /\ Cardinality(Wrong(j)') \in Nat /\ Cardinality(Taken(j)') \in Nat
    BY <2>1, Sizes
  <2>6. codes'[j].attempts + Cardinality(Wrong(j)') <= codes[j].attempts + Cardinality(Wrong(j))
    OBVIOUS
  <2>7. codes'[j].peak = codes[j].peak
    OBVIOUS
  <2> HIDE DEF Underway, Wrong, Taken
  <2>8. codes'[j].attempts + Cardinality(Wrong(j)') + 1 <= MaxAttempts + codes'[j].peak
    <3> DEFINE before == codes[j].attempts + Cardinality(Wrong(j))
               after == codes'[j].attempts + Cardinality(Wrong(j)')
               most == MaxAttempts + codes[j].peak
    <3>m. MaxAttempts \in Nat
      OBVIOUS
    <3>1. before \in Nat /\ after \in Nat /\ most \in Nat
      BY ONLY <2>1, <2>2, <2>5, <3>m
    <3>2. after <= before /\ before + 1 <= most
      BY <2>4, <2>6
    <3>3. most = MaxAttempts + codes'[j].peak
      BY <2>7
    <3> HIDE DEF before, after, most
    <3>4. after + 1 <= most
      BY <3>1, <3>2
    <3> QED
      BY <3>3, <3>4 DEF after
  <2> QED
    BY <2>1, <2>3, <2>4, <2>5, <2>7, <2>8
<1>5. \A b \in Attempts : /\ attempt'[b].at \in {"wrong", "right"} => attempt'[b].code # 0
                          /\ attempt'[b].at = "idle" => attempt'[b].code = 0
  BY <1>0 DEF TypeOK, AttemptsAreEarned
<1>6. \A b \in Attempts : attempt'[b].at \in Using /\ attempt'[b].code # 0 =>
         codes'[attempt'[b].code].consumed
  <2> SUFFICES ASSUME NEW b \in Attempts, attempt'[b].at \in Using, attempt'[b].code # 0
               PROVE  codes'[attempt'[b].code].consumed
    OBVIOUS
  <2>1. attempt'[b].code = attempt[b].code /\ attempt[b].code \in DOMAIN codes
    BY <1>0 DEF TypeOK
  <2> QED
    BY <1>0, <2>1 DEF TypeOK, AttemptsAreEarned
<1> QED
  BY <1>1, <1>2, <1>4, <1>5, <1>6 DEF AttemptsAreEarned

\* A step that leaves alone what was counted and what is still to be counted.
LEMMA WrongKept ==
    ASSUME TypeOK, \A j \in Nat : Wrong(j)' = Wrong(j),
           \A j \in DOMAIN codes : codes'[j].attempts = codes[j].attempts
    PROVE  \A j \in DOMAIN codes : codes'[j].attempts + Cardinality(Wrong(j)') <=
                                    codes[j].attempts + Cardinality(Wrong(j))
<1> SUFFICES ASSUME NEW j \in DOMAIN codes
             PROVE  codes'[j].attempts + Cardinality(Wrong(j)') <= codes[j].attempts + Cardinality(Wrong(j))
  OBVIOUS
<1>1. j \in Nat /\ codes[j].attempts \in Nat
  BY CodeTypes
<1>2. Wrong(j)' = Wrong(j) /\ codes'[j].attempts = codes[j].attempts /\ Cardinality(Wrong(j)) \in Nat
  BY <1>1, Sizes
<1> QED
  BY <1>1, <1>2

\* Such a step, of an attempt that was not counted before.
LEMMA NothingCounted ==
    ASSUME IInv, NEW a \in Attempts, NEW at, attempt' = [attempt EXCEPT ![a].at = at],
           at # "invalid" \/ attempt[a].code = 0, attempt[a].at # "invalid",
           \A j \in DOMAIN codes : codes'[j].attempts = codes[j].attempts
    PROVE  \A j \in DOMAIN codes : Cardinality(Invalid(j)') <= codes'[j].attempts
<1>0. TypeOK /\ AttemptsAreEarned
  BY DEF IInv
<1>1. \A j \in DOMAIN codes : j # 0
  BY <1>0, CodeTypes
<1>2. \A j \in DOMAIN codes : Invalid(j)' = Invalid(j)
  BY <1>0, <1>1 DEF TypeOK, Invalid
<1> QED
  BY <1>0, <1>2 DEF AttemptsAreEarned

\* A wrong guess that is counted is no longer one still to be counted.
LEMMA IncrementStepInv ==
    ASSUME IInv, NEW a \in Attempts, IncrementOTPAttempt(a)
    PROVE  IInv'
<1>0. TypeOK /\ CountersAreEarned /\ AttemptsAreEarned /\ ConsumersAreKnown
  BY DEF IInv
<1>1. PICK i \in DOMAIN codes : i = attempt[a].code
  BY <1>0 DEF IncrementOTPAttempt, TypeOK, AttemptsAreEarned
<1> DEFINE c == [codes[i] EXCEPT !.attempts = @ + 1]
<1>2. codes' = [codes EXCEPT ![i] = c]
  BY <1>1 DEF IncrementOTPAttempt
<1>3. /\ i \in Nat /\ c \in Code /\ c.attempts = codes[i].attempts + 1 /\ c.peak = codes[i].peak
      /\ c.consumed = codes[i].consumed
  BY <1>0, CodeTypes DEF Code
<1> HIDE DEF c
<1>4. /\ codes' \in Seq(Code) /\ Len(codes') = Len(codes) /\ DOMAIN codes' = DOMAIN codes
      /\ codes'[i] = c /\ \A j \in DOMAIN codes \ {i} : codes'[j] = codes[j]
  BY <1>0, <1>2, <1>3, CodesUpdate
<1>5. /\ attempt[a].at = "wrong" /\ attempt' = [attempt EXCEPT ![a].at = "invalid"]
      /\ UNCHANGED <<limiterVars, user, request>>
  BY DEF IncrementOTPAttempt
<1>6. \A j \in DOMAIN codes : codes'[j].attempts + Cardinality(Wrong(j)') <=
                              codes[j].attempts + Cardinality(Wrong(j))
  <2> SUFFICES ASSUME NEW j \in DOMAIN codes
               PROVE  codes'[j].attempts + Cardinality(Wrong(j)') <= codes[j].attempts + Cardinality(Wrong(j))
    OBVIOUS
  <2>1. j \in Nat /\ codes[j].attempts \in Nat
    BY <1>0, CodeTypes
  <2>2. Cardinality(Wrong(j)) \in Nat /\ Cardinality(Wrong(j)') \in Nat
    BY <2>1, Sizes
  <2>3. CASE j = i
    <3>1. Wrong(i)' = Wrong(i) \ {a} /\ a \in Wrong(i)
      BY <1>0, <1>1, <1>5 DEF TypeOK, Wrong
    <3>2. IsFiniteSet(Wrong(i))
      BY FS_Subset DEF Wrong
    <3>3. Cardinality(Wrong(i)') = Cardinality(Wrong(i)) - 1
      BY <3>1, <3>2, FS_RemoveElement
    <3> QED
      BY <1>3, <1>4, <2>1, <2>2, <2>3, <3>3
  <2>4. CASE j # i
    <3>1. Wrong(j)' \subseteq Wrong(j)
      BY <1>0, <1>5 DEF TypeOK, Wrong
    <3>2. Cardinality(Wrong(j)') <= Cardinality(Wrong(j))
      BY <2>1, <3>1, Fewer
    <3>3. codes'[j] = codes[j]
      BY <1>4, <2>4
    <3> QED
      BY <2>1, <2>2, <3>2, <3>3
  <2> QED
    BY <2>3, <2>4
<1>7. \A j \in DOMAIN codes : codes'[j].peak = codes[j].peak /\ codes'[j].consumed = codes[j].consumed
  BY <1>3, <1>4
<1>10. \A j \in DOMAIN codes : Cardinality(Invalid(j)') <= codes'[j].attempts
  <2> SUFFICES ASSUME NEW j \in DOMAIN codes PROVE Cardinality(Invalid(j)') <= codes'[j].attempts
    OBVIOUS
  <2>1. /\ j \in Nat /\ codes[j].attempts \in Nat /\ Cardinality(Invalid(j)) \in Nat
        /\ Cardinality(Invalid(j)) <= codes[j].attempts
    BY <1>0, CodeTypes, Sizes DEF AttemptsAreEarned
  <2>2. CASE j = i
    <3>1. Invalid(i)' = Invalid(i) \cup {a} /\ a \notin Invalid(i)
      BY <1>0, <1>1, <1>5 DEF TypeOK, Invalid
    <3>2. IsFiniteSet(Invalid(i))
      BY FS_Subset DEF Invalid
    <3>3. Cardinality(Invalid(i)') = Cardinality(Invalid(i)) + 1
      BY <3>1, <3>2, FS_AddElement
    <3> QED
      BY <1>3, <1>4, <2>1, <2>2, <3>3
  <2>3. CASE j # i
    <3>1. Invalid(j)' = Invalid(j)
      BY <1>0, <1>1, <1>5, <2>3 DEF TypeOK, Invalid
    <3> QED
      BY <1>4, <2>1, <2>3, <3>1
  <2> QED
    BY <2>2, <2>3
<1>8. TypeOK' /\ CountersAreEarned' /\ AttemptsAreEarned'
  <2>1. user' \in {"none", "active", "suspended"}
    BY <1>0, <1>5 DEF TypeOK
  <2> QED
    BY <1>4, <1>5, <1>6, <1>7, <1>10, <2>1, AttemptMoves
<1>9. ConsumersAreKnown'
  <2>1. \A b \in Attempts : /\ attempt[b].at # "wrong" => attempt'[b] = attempt[b]
                            /\ attempt'[b].at \in {"failed", "create"} => attempt'[b] = attempt[b]
    BY <1>0, <1>5 DEF TypeOK
  <2>2. \A j \in DOMAIN codes' : codes'[j].consumed =>
           \E b \in Attempts : attempt'[b].code = j /\ attempt'[b].at \in Spent
    <3> SUFFICES ASSUME NEW j \in DOMAIN codes, codes[j].consumed
                 PROVE  \E b \in Attempts : attempt'[b].code = j /\ attempt'[b].at \in Spent
      BY <1>4, <1>7
    <3>1. PICK b \in Attempts : attempt[b].code = j /\ attempt[b].at \in Spent
      BY <1>0 DEF ConsumersAreKnown
    <3> QED
      BY <2>1, <3>1
  <2>3. Creators \subseteq Creators'
    BY <2>1
  <2> QED
    BY <1>0, <1>5, <2>1, <2>2, <2>3 DEF ConsumersAreKnown
<1> QED
  BY <1>8, <1>9 DEF IInv

\* The code is used up by an attempt that is on its way to a login.
LEMMA ConsumeStepInv ==
    ASSUME IInv, NEW a \in Attempts, ConsumeOTPCode(a)
    PROVE  IInv'
<1>0. TypeOK /\ CountersAreEarned /\ AttemptsAreEarned /\ ConsumersAreKnown
  BY DEF IInv
<1>1. PICK i \in DOMAIN codes : i = attempt[a].code
  BY <1>0 DEF ConsumeOTPCode, TypeOK, AttemptsAreEarned
<1> DEFINE c == [codes[i] EXCEPT !.consumed = TRUE]
<1>2. codes' = [codes EXCEPT ![i] = c]
  BY <1>1 DEF ConsumeOTPCode
<1>3. /\ i \in Nat /\ c \in Code /\ c.attempts = codes[i].attempts /\ c.peak = codes[i].peak /\ c.consumed
  BY <1>0, CodeTypes DEF Code
<1> HIDE DEF c
<1>4. /\ codes' \in Seq(Code) /\ Len(codes') = Len(codes) /\ DOMAIN codes' = DOMAIN codes
      /\ codes'[i] = c /\ \A j \in DOMAIN codes \ {i} : codes'[j] = codes[j]
  BY <1>0, <1>2, <1>3, CodesUpdate
<1>5. /\ attempt[a].at = "right" /\ attempt' = [attempt EXCEPT ![a].at = "consumed"]
      /\ UNCHANGED <<limiterVars, user, request>>
  BY DEF ConsumeOTPCode
<1>6. \A j \in DOMAIN codes : codes'[j].peak = codes[j].peak /\ codes'[j].attempts = codes[j].attempts
                              /\ (codes[j].consumed => codes'[j].consumed)
  BY <1>3, <1>4
<1>7. \A j \in DOMAIN codes : codes'[j].attempts + Cardinality(Wrong(j)') <=
                              codes[j].attempts + Cardinality(Wrong(j))
  <2>1. \A j \in Nat : Wrong(j)' = Wrong(j)
    BY <1>0, <1>5 DEF TypeOK, Wrong
  <2> QED
    BY <1>0, <1>6, <2>1, WrongKept
<1>8. TypeOK' /\ CountersAreEarned' /\ AttemptsAreEarned'
  <2>1. user' \in {"none", "active", "suspended"}
    BY <1>0, <1>5 DEF TypeOK
  <2>2. \A j \in DOMAIN codes : Cardinality(Invalid(j)') <= codes'[j].attempts
    BY <1>5, <1>6, NothingCounted
  <2>3. codes'[attempt[a].code].consumed
    BY <1>1, <1>3, <1>4
  <2>4. UNCHANGED <<limiterVars, request>>
    BY <1>5
  <2>5. \A j \in DOMAIN codes : codes'[j].peak = codes[j].peak /\ (codes[j].consumed => codes'[j].consumed)
    BY <1>6
  <2> HIDE DEF Code
  <2> QED
    BY <1>4, <1>5, <1>7, <2>1, <2>2, <2>3, <2>4, <2>5, AttemptMoves, ZenonT(30)
<1>9. ConsumersAreKnown'
  <2>1. /\ attempt'[a].code = i /\ attempt'[a].at = "consumed"
        /\ \A b \in Attempts : /\ attempt[b].at # "right" => attempt'[b] = attempt[b]
                               /\ attempt'[b].at \in {"failed", "create"} => attempt'[b] = attempt[b]
    BY <1>0, <1>1, <1>5 DEF TypeOK
  <2>2. \A j \in DOMAIN codes' : codes'[j].consumed =>
           \E b \in Attempts : attempt'[b].code = j /\ attempt'[b].at \in Spent
    <3> SUFFICES ASSUME NEW j \in DOMAIN codes, codes'[j].consumed, j # i
                 PROVE  \E b \in Attempts : attempt'[b].code = j /\ attempt'[b].at \in Spent
      BY <1>4, <2>1
    <3>1. PICK b \in Attempts : attempt[b].code = j /\ attempt[b].at \in Spent
      BY <1>0, <1>4 DEF ConsumersAreKnown
    <3> QED
      BY <2>1, <3>1
  <2>3. Creators \subseteq Creators'
    BY <2>1
  <2> QED
    BY <1>0, <1>5, <2>1, <2>2, <2>3 DEF ConsumersAreKnown
<1> QED
  BY <1>8, <1>9 DEF IInv

\* An attempt that is cut off before its first statement.
LEMMA LostStepInv ==
    ASSUME IInv, NEW a \in Attempts, attempt[a].at \in {"wrong", "right"}, CutOff(a)
    PROVE  IInv'
<1>0. TypeOK /\ CountersAreEarned /\ AttemptsAreEarned /\ ConsumersAreKnown
  BY DEF IInv
<1>1. attempt' = [attempt EXCEPT ![a].at = "lost"] /\ UNCHANGED <<limiterVars, codes, user, request>>
  BY DEF CutOff
<1>2. \A j \in DOMAIN codes : codes'[j].attempts + Cardinality(Wrong(j)') <=
                              codes[j].attempts + Cardinality(Wrong(j))
  <2> SUFFICES ASSUME NEW j \in DOMAIN codes
               PROVE  codes'[j].attempts + Cardinality(Wrong(j)') <= codes[j].attempts + Cardinality(Wrong(j))
    OBVIOUS
  <2>1. j \in Nat /\ codes[j].attempts \in Nat /\ codes'[j].attempts = codes[j].attempts
    BY <1>0, <1>1, CodeTypes
  <2>2. Wrong(j)' \subseteq Wrong(j)
    BY <1>0, <1>1 DEF TypeOK, Wrong
  <2>3. Cardinality(Wrong(j)') <= Cardinality(Wrong(j))
    BY <2>1, <2>2, Fewer
  <2>4. Cardinality(Wrong(j)) \in Nat /\ Cardinality(Wrong(j)') \in Nat
    BY <2>1, Sizes
  <2> QED
    BY <2>1, <2>3, <2>4
<1>3. TypeOK' /\ CountersAreEarned' /\ AttemptsAreEarned'
  <2>1. user' \in {"none", "active", "suspended"} /\ codes' \in Seq(Code)
    BY <1>0, <1>1 DEF TypeOK
  <2>2. \A j \in DOMAIN codes : Cardinality(Invalid(j)') <= codes'[j].attempts
    BY <1>1, NothingCounted
  <2>3. UNCHANGED <<limiterVars, request>> /\ Len(codes') = Len(codes) /\ DOMAIN codes' = DOMAIN codes
    BY <1>1
  <2>4. \A j \in DOMAIN codes : codes'[j].peak = codes[j].peak /\ (codes[j].consumed => codes'[j].consumed)
    BY <1>1
  <2> HIDE DEF Code
  <2> QED
    BY <1>1, <1>2, <2>1, <2>2, <2>3, <2>4, AttemptMoves, ZenonT(30)
<1>4. ConsumersAreKnown'
  <2>1. \A b \in Attempts : /\ attempt[b].at \notin {"wrong", "right"} => attempt'[b] = attempt[b]
                            /\ attempt'[b].at \in {"failed", "create"} => attempt'[b] = attempt[b]
    BY <1>0, <1>1 DEF TypeOK
  <2> QED
    BY <1>0, <1>1, <2>1 DEF ConsumersAreKnown
<1> QED
  BY <1>3, <1>4 DEF IInv

\* An attempt that has used its code up: it ends, finds its user or creates one.
LEMMA UserStepInv ==
    ASSUME IInv, NEW a \in Attempts, attempt[a].at \notin {"wrong", "right"},
           GetUserByPhoneNumber(a) \/ CreateUser(a) \/ IssueTokenPair(a) \/ CutOff(a)
    PROVE  IInv'
<1>0. TypeOK /\ CountersAreEarned /\ AttemptsAreEarned /\ ConsumersAreKnown
  BY DEF IInv
<1>1. PICK at \in Spent :
         /\ attempt' = [attempt EXCEPT ![a].at = at]
         /\ attempt[a].at \in {"consumed", "blind", "create", "found"}
         /\ at = "create" => user' = "none"
         /\ at = "failed" => attempt[a].at = "create" /\ user # "none" /\ user' = user
         /\ user' \in {user, "active"} /\ (user' # user => at = "found")
         /\ attempt[a].at = "found" => at \in {"in", "cutoff"}
         /\ UNCHANGED <<limiterVars, codes, request>>
  <2>0. user \in {"none", "active", "suspended"}
    BY <1>0 DEF TypeOK
  <2>1. CASE GetUserByPhoneNumber(a)
    <3>1. PICK found \in BOOLEAN :
            attempt' = [attempt EXCEPT ![a].at = CASE ~ found -> "blind"
                                                   [] found /\ user = "none" -> "create"
                                                   [] found /\ user = "active" -> "found"
                                                   [] found /\ user = "suspended" -> "suspended"]
      BY <2>1 DEF GetUserByPhoneNumber
    <3>2. attempt[a].at = "consumed" /\ UNCHANGED <<limiterVars, codes, user, request>>
      BY <2>1 DEF GetUserByPhoneNumber
    <3>3. CASE ~ found
      <4>1. attempt' = [attempt EXCEPT ![a].at = "blind"]
        BY <3>1, <3>3
      <4> QED
        BY <3>2, <4>1
    <3>4. CASE found /\ user = "none"
      <4>1. attempt' = [attempt EXCEPT ![a].at = "create"]
        BY <3>1, <3>4
      <4> QED
        BY <3>2, <3>4, <4>1
    <3>5. CASE found /\ user = "active"
      <4>1. attempt' = [attempt EXCEPT ![a].at = "found"]
        BY <3>1, <3>5
      <4> QED
        BY <3>2, <4>1
    <3>6. CASE found /\ user = "suspended"
      <4>1. attempt' = [attempt EXCEPT ![a].at = "suspended"]
        BY <3>1, <3>6
      <4> QED
        BY <3>2, <4>1
    <3> QED
      BY <2>0, <3>3, <3>4, <3>5, <3>6
  <2>2. CASE CreateUser(a)
    <3>1. /\ attempt[a].at \in {"blind", "create"} /\ UNCHANGED <<limiterVars, codes, request>>
          /\ user' = IF user = "none" THEN "active" ELSE user
      BY <2>2 DEF CreateUser
    <3>2. attempt' = [attempt EXCEPT ![a].at = CASE user = "none" -> "found"
                                                 [] user # "none" /\ @ = "create" -> "failed"
                                                 [] user # "none" /\ @ = "blind" -> "cutoff"]
      BY <2>2 DEF CreateUser
    <3>3. CASE user = "none"
      <4>1. attempt' = [attempt EXCEPT ![a].at = "found"]
        BY <3>2, <3>3
      <4> QED
        BY <3>1, <3>3, <4>1
    <3>4. CASE user # "none" /\ attempt[a].at = "create"
      <4>1. attempt' = [attempt EXCEPT ![a].at = "failed"]
        BY <3>2, <3>4
      <4> QED
        BY <3>1, <3>4, <4>1
    <3>5. CASE user # "none" /\ attempt[a].at = "blind"
      <4>1. attempt' = [attempt EXCEPT ![a].at = "cutoff"]
        BY <3>2, <3>5
      <4> QED
        BY <3>1, <3>5, <4>1
    <3> QED
      BY <3>1, <3>3, <3>4, <3>5
  <2>3. CASE IssueTokenPair(a) \/ CutOff(a)
    BY <1>0, <2>3 DEF IssueTokenPair, CutOff, TypeOK
  <2> QED
    BY <2>1, <2>2, <2>3
<1>2. \A j \in DOMAIN codes : codes'[j].attempts + Cardinality(Wrong(j)') <=
                              codes[j].attempts + Cardinality(Wrong(j))
  <2>1. \A j \in Nat : Wrong(j)' = Wrong(j)
    BY <1>0, <1>1 DEF TypeOK, Wrong
  <2> QED
    BY <1>0, <1>1, <2>1, WrongKept
<1>3. TypeOK' /\ CountersAreEarned' /\ AttemptsAreEarned'
  <2>1. user' \in {"none", "active", "suspended"} /\ codes' \in Seq(Code)
    BY <1>0, <1>1 DEF TypeOK
  <2>2. attempt[a].code # 0 => codes[attempt[a].code].consumed
    BY <1>0, <1>1 DEF TypeOK, AttemptsAreEarned
  <2> QED
    BY <1>1, <1>2, <2>1, <2>2, NothingCounted, AttemptMoves
<1>4. ConsumersAreKnown'
  <2>1. /\ attempt'[a].code = attempt[a].code /\ attempt'[a].at = at
        /\ \A b \in Attempts \ {a} : attempt'[b] = attempt[b]
    BY <1>0, <1>1 DEF TypeOK
  <2>2. \A j \in DOMAIN codes' : codes'[j].consumed =>
           \E b \in Attempts : attempt'[b].code = j /\ attempt'[b].at \in Spent
    BY <1>0, <1>1, <2>1 DEF ConsumersAreKnown
  <2>3. Creators \subseteq Creators'
    BY <1>1, <2>1
  <2>4. ASSUME NEW b \in Attempts, attempt'[b].at = "failed" \/ (attempt'[b].at = "create" /\ user' # "none")
        PROVE  Creators' # {}
    <3>1. CASE at = "found"
      BY <2>1, <3>1
    <3>2. CASE at # "found"
      <4>1. attempt[b].at = "failed" \/ (attempt[b].at = "create" /\ user # "none")
        BY <1>1, <2>1, <2>4, <3>2
      <4> QED
        BY <1>0, <2>3, <4>1 DEF ConsumersAreKnown
    <3> QED
      BY <3>1, <3>2
  <2> QED
    BY <2>2, <2>4 DEF ConsumersAreKnown
<1> QED
  BY <1>3, <1>4 DEF IInv

\* VerifyOTP refuses, or begins with the newest open code.
LEMMA VerifyStepInv ==
    ASSUME IInv, NEW a \in Attempts, NEW typed, Verify(a, typed)
    PROVE  IInv'
<1>0. TypeOK /\ CountersAreEarned /\ AttemptsAreEarned /\ ConsumersAreKnown
  BY DEF IInv
<1>1. attempt[a].at = "idle" /\ UNCHANGED <<limiterVars, user, request>>
  BY DEF Verify
<1>2. ASSUME NEW at \in {"invalid", "exhausted"}, attempt' = [attempt EXCEPT ![a].at = at], UNCHANGED codes
      PROVE  IInv'
  <2>1. \A j \in Nat : Wrong(j)' = Wrong(j)
    BY <1>0, <1>1, <1>2 DEF TypeOK, Wrong
  <2>2. \A j \in DOMAIN codes : codes'[j].attempts + Cardinality(Wrong(j)') <=
                                codes[j].attempts + Cardinality(Wrong(j))
    BY <1>0, <1>2, <2>1, WrongKept
  <2>6. \A j \in DOMAIN codes : Cardinality(Invalid(j)') <= codes'[j].attempts
    BY <1>0, <1>1, <1>2, NothingCounted DEF AttemptsAreEarned
  <2>3. TypeOK' /\ CountersAreEarned' /\ AttemptsAreEarned'
    <3>1. user' \in {"none", "active", "suspended"} /\ codes' \in Seq(Code)
      BY <1>0, <1>1, <1>2 DEF TypeOK
    <3> QED
      BY <1>1, <1>2, <2>2, <2>6, <3>1, AttemptMoves
  <2>4. \A b \in Attempts : /\ attempt[b].at # "idle" => attempt'[b] = attempt[b]
                            /\ attempt'[b].at \in {"failed", "create"} => attempt'[b] = attempt[b]
    BY <1>0, <1>1, <1>2 DEF TypeOK
  <2>5. ConsumersAreKnown'
    BY <1>0, <1>1, <1>2, <2>4 DEF ConsumersAreKnown
  <2> QED
    BY <2>3, <2>5 DEF IInv
<1>3. ASSUME NEW i \in Newest, codes[i].attempts < MaxAttempts,
             Begin(a, i, IF typed = i THEN "right" ELSE "wrong")
      PROVE  IInv'
  BY <1>1, <1>3, BeginStepInv DEF Newest
<1>4. \A i \in Newest : codes[i].attempts \in Nat
  BY <1>0, CodeTypes DEF Newest, Open
<1> QED
  BY <1>2, <1>3, <1>4 DEF Verify

\* Steps that leave every attempt alone: requests, windows, time and administrators.
LEMMA OtherStepInv ==
    ASSUME IInv, UNCHANGED attempt, TypeOK', CountersAreEarned',
           user' = user \/ (user = "active" /\ user' = "suspended"),
           \A j \in DOMAIN codes' :
              \/ /\ j \in DOMAIN codes
                 /\ codes'[j].peak = codes[j].peak /\ codes'[j].attempts = codes[j].attempts
                 /\ codes'[j].consumed = codes[j].consumed
              \/ j = Len(codes) + 1 /\ codes'[j].attempts = 0 /\ codes'[j].peak = 0 /\ ~ codes'[j].consumed,
           DOMAIN codes \subseteq DOMAIN codes'
    PROVE  IInv'
<1>0. TypeOK /\ AttemptsAreEarned /\ ConsumersAreKnown
  BY DEF IInv
<1>1. \A j \in Nat : /\ Underway(j)' = Underway(j) /\ Wrong(j)' = Wrong(j)
                     /\ Taken(j)' = Taken(j) /\ Invalid(j)' = Invalid(j)
  BY DEF Underway, Wrong, Taken, Invalid
<1>2. Len(codes) \in Nat
  BY <1>0 DEF TypeOK
<1>3. ASSUME NEW j \in DOMAIN codes'
      PROVE  /\ Cardinality(Underway(j)') <= codes'[j].peak
             /\ codes'[j].attempts + Cardinality(Wrong(j)') + 1 <= MaxAttempts + codes'[j].peak
             /\ Cardinality(Taken(j)') <= codes'[j].peak
             /\ Cardinality(Invalid(j)') <= codes'[j].attempts
  <2>1. CASE j \in DOMAIN codes
    <3>1. j # Len(codes) + 1
      BY <1>0, <1>2, <2>1 DEF TypeOK
    <3>2. j \in Nat
      BY <1>0, <2>1, CodeTypes
    <3>3. codes'[j].peak = codes[j].peak /\ codes'[j].attempts = codes[j].attempts
      BY <1>3, <3>1
    <3> QED
      BY <1>0, <1>1, <2>1, <3>2, <3>3 DEF AttemptsAreEarned
  <2>2. CASE j \notin DOMAIN codes
    <3>1. j = Len(codes) + 1 /\ codes'[j].attempts = 0 /\ codes'[j].peak = 0 /\ j \in Nat
      BY <1>2, <1>3, <2>2
    <3>2. \A b \in Attempts : attempt[b].code # j
      BY <1>0, <1>2, <3>1 DEF TypeOK
    <3>3. Underway(j) = {} /\ Wrong(j) = {} /\ Taken(j) = {} /\ Invalid(j) = {}
      BY <3>2 DEF Underway, Wrong, Taken, Invalid
    <3>4. /\ Cardinality(Underway(j)') = 0 /\ Cardinality(Wrong(j)') = 0
          /\ Cardinality(Taken(j)') = 0 /\ Cardinality(Invalid(j)') = 0
      BY <1>1, <3>1, <3>3, FS_EmptySet
    <3> QED
      BY <3>1, <3>4
  <2> QED
    BY <2>1, <2>2
<1>4. \A b \in Attempts : attempt[b].at \in Using /\ attempt[b].code # 0 =>
         codes'[attempt[b].code].consumed
  <2> SUFFICES ASSUME NEW b \in Attempts, attempt[b].at \in Using, attempt[b].code # 0
               PROVE  codes'[attempt[b].code].consumed
    OBVIOUS
  <2>1. attempt[b].code \in DOMAIN codes /\ attempt[b].code # Len(codes) + 1
    BY <1>0, <1>2 DEF TypeOK
  <2> QED
    BY <1>0, <2>1 DEF AttemptsAreEarned
<1>5. AttemptsAreEarned'
  BY <1>0, <1>3, <1>4 DEF AttemptsAreEarned
<1>6. ConsumersAreKnown'
  <2>1. \A b \in Attempts : attempt[b].at \in {"failed", "create"} /\ user' # "none" => user # "none" \/ attempt[b].at = "failed"
    BY <1>0 DEF TypeOK
  <2>2. \A j \in DOMAIN codes' : codes'[j].consumed => j \in DOMAIN codes /\ codes[j].consumed
    OBVIOUS
  <2> QED
    BY <1>0, <2>1, <2>2 DEF ConsumersAreKnown
<1> QED
  BY <1>5, <1>6 DEF IInv

\* Every step keeps the invariant.
LEMMA StepInv == IInv /\ [Next]_vars => IInv'
<1> SUFFICES ASSUME IInv, [Next]_vars PROVE IInv'
  OBVIOUS
<1>0. TypeOK /\ CountersAreEarned /\ AttemptsAreEarned /\ ConsumersAreKnown
  BY DEF IInv
<1>1. ASSUME NEW r \in Requests, Request(r) \/ RequestStep(r) PROVE IInv'
  <2>1. CASE CreateOTPCode(r)
    <3> DEFINE c == [attempts |-> 0, consumed |-> FALSE, expired |-> FALSE, peak |-> 0]
    <3>1. codes' = Append(codes, c) /\ UNCHANGED <<attempt, user>> /\ codes \in Seq(Code) /\ c \in Code
      BY <1>0, <2>1 DEF CreateOTPCode, TypeOK, Code
    <3>2. c.attempts = 0 /\ c.peak = 0 /\ ~ c.consumed
      OBVIOUS
    <3> HIDE DEF c, Code
    <3>3. /\ Len(codes') = Len(codes) + 1 /\ Len(codes) \in Nat /\ codes' \in Seq(Code)
          /\ DOMAIN codes' = 1..Len(codes) + 1 /\ DOMAIN codes = 1..Len(codes)
          /\ \A j \in 1..Len(codes) : codes'[j] = codes[j]
          /\ codes'[Len(codes) + 1] = c
      BY <3>1, AppendProperties
    <3>4. TypeOK' /\ CountersAreEarned'
      BY <1>1, RequestStepInv
    <3>5. \A j \in DOMAIN codes' : j \in DOMAIN codes \/ j = Len(codes) + 1
      BY <3>3
    <3> QED
      BY <3>1, <3>2, <3>3, <3>4, <3>5, OtherStepInv
  <2>2. CASE ~ CreateOTPCode(r)
    <3>1. UNCHANGED <<codes, attempt, user>>
      BY <1>1, <2>2 DEF Request, RequestStep, Incr, SetExpire, LoseExpire, RefuseSuspended, limiterVars
    <3> QED
      BY <1>1, <3>1, RequestStepInv, OtherStepInv
  <2> QED
    BY <2>1, <2>2
<1>2. ASSUME NEW k \in LimitKeys, WindowEnds(k) PROVE IInv'
  <2>1. /\ counter[k].ttl /\ counter' = [counter EXCEPT ![k] = [n |-> 0, ttl |-> FALSE]]
        /\ UNCHANGED <<unlimited, codes, user, request, attempt>>
    BY <1>2 DEF WindowEnds
  <2>2. \A x \in LimitKeys : Counted(x)' = Counted(x) /\ Cardinality(Counted(x)) \in Nat
    <3>1. \A x \in LimitKeys : Counted(x) \in SUBSET Requests
      BY DEF Counted
    <3> QED
      BY <2>1, <3>1, FS_Subset, FS_CardinalityType DEF Counted
  <2>3. Cardinality(Requests) \in Nat
    BY FS_CardinalityType
  <2>4. TypeOK'
    BY <1>0, <2>1, <2>3 DEF TypeOK
  <2>5. \A x \in LimitKeys : counter'[x].n <= Cardinality(Counted(x)')
    BY <1>0, <2>1, <2>2 DEF TypeOK, CountersAreEarned
  <2>6. CountersAreEarned'
    BY <1>0, <2>1, <2>5 DEF TypeOK, CountersAreEarned
  <2> QED
    BY <2>1, <2>4, <2>6, OtherStepInv
<1>3. ASSUME NEW i \in DOMAIN codes, ExpireCode(i) PROVE IInv'
  <2> DEFINE c == [codes[i] EXCEPT !.expired = TRUE]
  <2>1. codes' = [codes EXCEPT ![i] = c] /\ UNCHANGED <<limiterVars, user, request, attempt>>
    BY <1>3 DEF ExpireCode
  <2>2. c \in Code /\ c.attempts = codes[i].attempts /\ c.peak = codes[i].peak /\ c.consumed = codes[i].consumed
    BY <1>0, CodeTypes DEF Code
  <2> HIDE DEF c
  <2>3. /\ codes' \in Seq(Code) /\ Len(codes') = Len(codes) /\ DOMAIN codes' = DOMAIN codes
        /\ codes'[i] = c /\ \A j \in DOMAIN codes \ {i} : codes'[j] = codes[j]
    BY <1>0, <2>1, <2>2, CodesUpdate
  <2>4. TypeOK'
    BY <1>0, <2>1, <2>3 DEF TypeOK, limiterVars
  <2>5. CountersAreEarned'
    BY <1>0, <2>1 DEF CountersAreEarned, Counted, limiterVars
  <2> QED
    BY <2>1, <2>2, <2>3, <2>4, <2>5, OtherStepInv
<1>4. ASSUME NEW a \in Attempts, NEW typed \in 0..Len(codes), Verify(a, typed) PROVE IInv'
  BY <1>4, VerifyStepInv
<1>5. ASSUME NEW a \in Attempts,
             \/ IncrementOTPAttempt(a) \/ ConsumeOTPCode(a) \/ GetUserByPhoneNumber(a)
             \/ CreateUser(a) \/ IssueTokenPair(a) \/ CutOff(a)
      PROVE  IInv'
  <2>1. GetUserByPhoneNumber(a) \/ CreateUser(a) \/ IssueTokenPair(a) => attempt[a].at \notin {"wrong", "right"}
    BY DEF GetUserByPhoneNumber, CreateUser, IssueTokenPair
  <2> QED
    BY <1>5, <2>1, IncrementStepInv, ConsumeStepInv, LostStepInv, UserStepInv
<1>6. CASE Suspend \/ UNCHANGED vars
  <2>1. /\ UNCHANGED <<limiterVars, codes, request, attempt>>
        /\ user' = user \/ (user = "active" /\ user' = "suspended")
    BY <1>6 DEF Suspend, vars
  <2>2. TypeOK'
    BY <1>0, <2>1 DEF TypeOK, limiterVars
  <2>3. CountersAreEarned'
    BY <1>0, <2>1 DEF CountersAreEarned, Counted, limiterVars
  <2> QED
    BY <2>1, <2>2, <2>3, OtherStepInv
<1> QED
  BY <1>1, <1>2, <1>3, <1>4, <1>5, <1>6 DEF Next

\* The invariant holds in every reachable state.
THEOREM Inductive == Spec => []IInv
<1>1. Init => IInv
  BY InitInv
<1> QED
  BY <1>1, StepInv, PTL DEF Spec

\* Every variable keeps its type: a counter never exceeds the calls that were
\* made, and a key with an expiry has been counted.
THEOREM TypeCorrect == Spec => []TypeOK
BY Inductive, PTL DEF IInv

\* However many attempts run at once, and whichever of them are cut off, a code takes
\* fewer guesses than OTP_MAX_ATTEMPTS, those underway with it at the same time and
\* those that were never counted.
THEOREM GuessesSafe == Spec => []GuessesBounded
<1>1. IInv => GuessesBounded
  <2> SUFFICES ASSUME IInv, NEW i \in DOMAIN codes
               PROVE  Cardinality(Guesses(i)) < MaxAttempts + codes[i].peak + Cardinality(Lost(i))
    BY DEF GuessesBounded
  <2>1. i \in Nat /\ codes[i].attempts \in Nat /\ codes[i].peak \in Nat
    BY CodeTypes DEF IInv
  <2>2. /\ IsFiniteSet(Wrong(i)) /\ IsFiniteSet(Invalid(i)) /\ IsFiniteSet(Lost(i))
        /\ IsFiniteSet(Wrong(i) \cup Invalid(i))
    <3>1. /\ Wrong(i) \in SUBSET Attempts /\ Invalid(i) \in SUBSET Attempts
          /\ Lost(i) \in SUBSET Attempts
      BY DEF Wrong, Invalid, Lost
    <3> QED
      BY <3>1, FS_Subset, FS_Union
  <2>3. Guesses(i) = (Wrong(i) \cup Invalid(i)) \cup Lost(i)
    BY DEF Guesses, Wrong, Invalid, Lost
  <2>4. Cardinality(Guesses(i)) <= Cardinality(Wrong(i)) + Cardinality(Invalid(i)) + Cardinality(Lost(i))
    <3>1. Cardinality(Guesses(i)) = Cardinality(Wrong(i) \cup Invalid(i)) + Cardinality(Lost(i))
                                    - Cardinality((Wrong(i) \cup Invalid(i)) \cap Lost(i))
      BY <2>2, <2>3, FS_Union
    <3>2. Cardinality(Wrong(i) \cup Invalid(i)) = Cardinality(Wrong(i)) + Cardinality(Invalid(i))
                                                 - Cardinality(Wrong(i) \cap Invalid(i))
      BY <2>2, FS_Union
    <3>3. /\ IsFiniteSet((Wrong(i) \cup Invalid(i)) \cap Lost(i))
          /\ IsFiniteSet(Wrong(i) \cap Invalid(i))
      BY <2>2, FS_Intersection
    <3> QED
      BY <2>2, <3>1, <3>2, <3>3, FS_CardinalityType
  <2>5. /\ codes[i].attempts + Cardinality(Wrong(i)) + 1 <= MaxAttempts + codes[i].peak
        /\ Cardinality(Invalid(i)) <= codes[i].attempts
    BY DEF IInv, AttemptsAreEarned
  <2>6. /\ Cardinality(Wrong(i)) \in Nat /\ Cardinality(Invalid(i)) \in Nat
        /\ Cardinality(Lost(i)) \in Nat /\ Cardinality(Guesses(i)) \in Nat
    BY <2>2, <2>3, FS_Union, FS_CardinalityType
  <2> QED
    BY <2>1, <2>4, <2>5, <2>6
<1> QED
  BY <1>1, Inductive, PTL

\* A code logs in no more attempts than were underway with it at once.
THEOREM LoginsSafe == Spec => []CodeLogsInOnce
<1>1. IInv => CodeLogsInOnce
  <2> SUFFICES ASSUME IInv, NEW i \in DOMAIN codes PROVE Cardinality(LoggedIn(i)) <= codes[i].peak
    BY DEF CodeLogsInOnce
  <2>1. i \in Nat /\ codes[i].peak \in Nat
    BY CodeTypes DEF IInv
  <2>2. LoggedIn(i) \in SUBSET Taken(i) /\ Taken(i) \in SUBSET Attempts
    BY DEF LoggedIn, Taken
  <2>3. /\ Cardinality(LoggedIn(i)) \in Nat /\ Cardinality(Taken(i)) \in Nat
        /\ Cardinality(LoggedIn(i)) <= Cardinality(Taken(i))
    BY <2>2, FewerInPart
  <2>4. Cardinality(Taken(i)) <= codes[i].peak
    BY DEF IInv, AttemptsAreEarned
  <2> QED
    BY <2>1, <2>3, <2>4
<1> QED
  BY <1>1, Inductive, PTL

\* Only a fault uses a code up for nothing: what became of every consumed code, with
\* lookups and creations that fail and attempts cut off after any statement.
THEOREM ConsumptionSafe == Spec => []ConsumedForALogin
<1>1. IInv => ConsumedForALogin
  BY DEF IInv, ConsumersAreKnown, ConsumedForALogin, Underway
<1> QED
  BY <1>1, Inductive, PTL
=============================================================================
