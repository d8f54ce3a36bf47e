---------------------------- MODULE OutboxProofs ----------------------------
(***************************************************************************)
(* Theorems of Outbox, for any number of callers, keys, relays and batches *)
(* that are rolled back; that the outbox implements JobDelivery; and of    *)
(* Ingest, which stands on JobDelivery, for any number of retries and      *)
(* faults.  Outbox and Ingest share no variable.                           *)
(***************************************************************************)
EXTENDS Outbox, Ingest, TLAPS

USE NumberAssumption, NobodyAssumption

\* A row is what its caller's transaction committed, and a row that is claimed is
\* pending.
RowsAreCommitted ==
    \A w \in Callers : /\ caller[w] = "kept" <=> status[w] # "none"
                       /\ holder[w] # Nobody => status[w] = "pending"
                       /\ mark[w] # "none" => holder[w] # Nobody

\* A claimed row is still in the batch of its relay, the one just enqueued, or
\* marked: nothing is left when a batch commits.
BatchIsAccounted ==
    /\ \A r \in Relays : \A w \in batch[r] : holder[w] = r /\ mark[w] = "none" /\ sent[r] # w
    /\ \A r \in Relays : sent[r] # Nobody =>
          holder[sent[r]] = r /\ mark[sent[r]] = "none" /\ enqueued[sent[r]] > 0
    /\ \A r \in Relays, w \in Callers :
          holder[w] = r /\ mark[w] = "none" => w \in batch[r] \/ sent[r] = w

\* The counts behind a mark.
MarksAreEarned ==
    \A w \in Callers :
        /\ status[w] \in {"none", "pending"} => attempts[w] < MaxDispatchAttempts /\ attempts[w] <= refused[w]
        /\ mark[w] = "dispatched" => enqueued[w] > 0
        /\ mark[w] = "retry" => attempts[w] + 1 < MaxDispatchAttempts
        /\ mark[w] \in {"retry", "failed"} => attempts[w] + 1 <= refused[w]
        /\ mark[w] = "failed" => MaxDispatchAttempts <= refused[w]

\* What Redis took without anyone remembering it was of a batch rolled back, or
\* its answer was lost.
ForgottenByFaults ==
    \A w \in Callers :
        /\ enqueued[w] <= aborts + unheard[w] + 1
        /\ status[w] \in {"none", "pending"} /\ mark[w] # "dispatched" /\ (\A r \in Relays : sent[r] # w)
             => enqueued[w] <= aborts + unheard[w]

IInv ==
    /\ TypeOK
    /\ RowsAreCommitted /\ BatchIsAccounted /\ MarksAreEarned
    /\ DroppedHasTwin /\ ForgottenByFaults

LEMMA InitInv == Init => IInv
BY DEF Init, IInv, TypeOK, RowsAreCommitted, BatchIsAccounted, MarksAreEarned, DroppedHasTwin,
       ForgottenByFaults

LEMMA StepInv == IInv /\ [Next]_vars => IInv'
<1> SUFFICES ASSUME IInv, [Next]_vars PROVE IInv'
  OBVIOUS
<1>0. TypeOK /\ RowsAreCommitted /\ BatchIsAccounted /\ MarksAreEarned /\ DroppedHasTwin /\ ForgottenByFaults
  BY DEF IInv
<1> USE DEF rowVars, relayVars, historyVars
<1>1. ASSUME NEW w \in Callers, Insert(w) \/ Drop(w) \/ CommitMerged(w) \/ RollBackCaller(w) PROVE IInv'
  <2>1. UNCHANGED <<rowVars, relayVars, historyVars>>
    BY <1>1 DEF Insert, Drop, CommitMerged, RollBackCaller
  <2>2. PICK c \in {"inserted", "dropped", "merged", "undone"} : caller' = [caller EXCEPT ![w] = c]
    BY <1>1 DEF Insert, Drop, CommitMerged, RollBackCaller
  <2>3. caller[w] # "kept"
    BY <1>1 DEF Insert, Drop, CommitMerged, RollBackCaller
  <2>4. TypeOK'
    BY <1>0, <2>1, <2>2 DEF TypeOK
  <2>5. RowsAreCommitted'
    BY <1>0, <2>1, <2>2, <2>3 DEF TypeOK, RowsAreCommitted
  <2>6. BatchIsAccounted' /\ MarksAreEarned' /\ ForgottenByFaults'
    BY <1>0, <2>1 DEF BatchIsAccounted, MarksAreEarned, ForgottenByFaults
  <2>7. DroppedHasTwin'
    <3>1. c \in {"dropped", "merged"} => \E x \in SameKey(w) : caller[x] = "kept"
      <4>1. CASE Insert(w) \/ RollBackCaller(w)
        BY <1>0, <2>2, <4>1 DEF Insert, RollBackCaller, TypeOK
      <4>2. CASE Drop(w)
        BY <1>0, <4>2 DEF Drop, Twins, SameKey, RowsAreCommitted
      <4>3. CASE CommitMerged(w)
        BY <1>0, <4>3 DEF CommitMerged, DroppedHasTwin
      <4> QED
        BY <1>1, <4>1, <4>2, <4>3
    <3> QED
      BY <1>0, <2>2, <2>3, <3>1 DEF TypeOK, DroppedHasTwin, SameKey
  <2> QED
    BY <2>4, <2>5, <2>6, <2>7 DEF IInv
<1>2. ASSUME NEW w \in Callers, CommitCaller(w) PROVE IInv'
  <2>1. /\ caller[w] = "inserted" /\ caller' = [caller EXCEPT ![w] = "kept"]
        /\ status' = [status EXCEPT ![w] = "pending"]
        /\ ready' \in {ready, ready \cup {w}}
        /\ UNCHANGED <<attempts, relayVars, historyVars>>
    BY <1>2 DEF CommitCaller
  <2>2. TypeOK'
    BY <1>0, <2>1 DEF TypeOK
  <2>3. RowsAreCommitted' /\ BatchIsAccounted' /\ ForgottenByFaults'
    BY <1>0, <2>1 DEF TypeOK, RowsAreCommitted, BatchIsAccounted, ForgottenByFaults
  <2>4. MarksAreEarned'
    BY <1>0, <2>1 DEF TypeOK, RowsAreCommitted, MarksAreEarned
  <2>5. DroppedHasTwin'
    BY <1>0, <2>1 DEF TypeOK, DroppedHasTwin, SameKey
  <2> QED
    BY <2>2, <2>3, <2>4, <2>5 DEF IInv
<1>3. ASSUME NEW w \in Callers, Wait(w) PROVE IInv'
  <2>1. ready' = ready \cup {w} /\ UNCHANGED <<caller, status, attempts, relayVars, historyVars>>
    BY <1>3 DEF Wait
  <2> QED
    BY <1>0, <2>1 DEF IInv, TypeOK, RowsAreCommitted, BatchIsAccounted, MarksAreEarned, DroppedHasTwin,
       SameKey, ForgottenByFaults
<1>4. ASSUME NEW r \in Relays, Claim(r) PROVE IInv'
  <2>1. PICK B \in SUBSET Callers :
           /\ \A w \in B : status[w] = "pending" /\ holder[w] = Nobody
           /\ holder' = [w \in Callers |-> IF w \in B THEN r ELSE holder[w]]
           /\ batch' = [batch EXCEPT ![r] = B]
    BY <1>4 DEF Claim
  <2>2. Held(r) = {} /\ UNCHANGED <<caller, rowVars, mark, sent, historyVars>>
    BY <1>4 DEF Claim
  <2>3. TypeOK'
    BY <1>0, <2>1, <2>2 DEF TypeOK
  <2>4. RowsAreCommitted' /\ MarksAreEarned' /\ DroppedHasTwin' /\ ForgottenByFaults'
    BY <1>0, <2>1, <2>2 DEF TypeOK, RowsAreCommitted, MarksAreEarned, DroppedHasTwin, SameKey,
       ForgottenByFaults
  <2>5. BatchIsAccounted'
    <3>1. \A w \in B : mark[w] = "none" /\ \A q \in Relays : sent[q] # w
      BY <1>0, <2>1 DEF TypeOK, RowsAreCommitted, BatchIsAccounted
    <3>2. \A w \in Callers : holder[w] # r
      BY <2>2 DEF Held
    <3> QED
      BY <1>0, <2>1, <2>2, <3>1, <3>2 DEF TypeOK, BatchIsAccounted
  <2> QED
    BY <2>3, <2>4, <2>5 DEF IInv
<1>5. ASSUME NEW r \in Relays, Enqueue(r) PROVE IInv'
  <2>1. PICK w \in batch[r] :
           /\ batch' = [batch EXCEPT ![r] = @ \ {w}]
           /\ sent' = [sent EXCEPT ![r] = w]
           /\ enqueued' = [enqueued EXCEPT ![w] = @ + 1]
    BY <1>5 DEF Enqueue
  <2>2. sent[r] = Nobody /\ UNCHANGED <<caller, rowVars, holder, mark, refused, unheard, aborts>>
    BY <1>5 DEF Enqueue
  <2>3. w \in Callers /\ holder[w] = r /\ mark[w] = "none" /\ status[w] = "pending"
    BY <1>0, <2>1 DEF TypeOK, RowsAreCommitted, BatchIsAccounted
  <2>4. \A q \in Relays : sent[q] # w
    BY <1>0, <2>2, <2>3 DEF BatchIsAccounted, TypeOK
  <2>5. TypeOK'
    BY <1>0, <2>1, <2>2, <2>3 DEF TypeOK
  <2>6. RowsAreCommitted' /\ MarksAreEarned' /\ DroppedHasTwin'
    BY <1>0, <2>1, <2>2, <2>3 DEF TypeOK, RowsAreCommitted, MarksAreEarned, DroppedHasTwin, SameKey
  <2>7. BatchIsAccounted'
    <3>1. \A q \in Relays : \A x \in batch'[q] : holder'[x] = q /\ mark'[x] = "none" /\ sent'[q] # x
      BY <1>0, <2>1, <2>2, <2>3 DEF TypeOK, BatchIsAccounted
    <3>2. \A q \in Relays : sent'[q] # Nobody =>
             holder'[sent'[q]] = q /\ mark'[sent'[q]] = "none" /\ enqueued'[sent'[q]] > 0
      BY <1>0, <2>1, <2>2, <2>3, <2>4 DEF TypeOK, BatchIsAccounted
    <3>3. \A q \in Relays, x \in Callers :
             holder'[x] = q /\ mark'[x] = "none" => x \in batch'[q] \/ sent'[q] = x
      BY <1>0, <2>1, <2>2, <2>3 DEF TypeOK, BatchIsAccounted
    <3> QED
      BY <3>1, <3>2, <3>3 DEF BatchIsAccounted
  <2>8. ForgottenByFaults'
    BY <1>0, <2>1, <2>2, <2>3, <2>4 DEF TypeOK, ForgottenByFaults
  <2> QED
    BY <2>5, <2>6, <2>7, <2>8 DEF IInv
<1>6. ASSUME NEW r \in Relays, MarkDispatched(r) PROVE IInv'
  <2> DEFINE w == sent[r]
  <2>1. /\ w # Nobody /\ mark' = [mark EXCEPT ![w] = "dispatched"]
        /\ sent' = [sent EXCEPT ![r] = Nobody]
        /\ UNCHANGED <<caller, rowVars, holder, batch, historyVars>>
    BY <1>6 DEF MarkDispatched
  <2>2. /\ w \in Callers /\ holder[w] = r /\ mark[w] = "none" /\ enqueued[w] > 0
        /\ \A q \in Relays : w \notin batch[q]
    BY <1>0, <2>1 DEF TypeOK, BatchIsAccounted
  <2> HIDE DEF w
  <2>3. \A q \in Relays : sent[q] = w => q = r
    BY <1>0, <2>1, <2>2 DEF BatchIsAccounted
  <2>4. TypeOK'
    BY <1>0, <2>1, <2>2 DEF TypeOK
  <2>5. RowsAreCommitted' /\ MarksAreEarned' /\ DroppedHasTwin'
    BY <1>0, <2>1, <2>2, NobodyAssumption DEF TypeOK, RowsAreCommitted, MarksAreEarned, DroppedHasTwin, SameKey
  <2>6. BatchIsAccounted'
    BY <1>0, <2>1, <2>2, <2>3 DEF TypeOK, BatchIsAccounted
  <2>7. ForgottenByFaults'
    <3>1. sent[r] = w
      BY DEF w
    <3>2. ASSUME NEW x \in Callers, mark'[x] # "dispatched", \A q \in Relays : sent'[q] # x
          PROVE  mark[x] # "dispatched" /\ \A q \in Relays : sent[q] # x
      BY <1>0, <2>1, <2>2, <3>1, <3>2 DEF TypeOK
    <3> QED
      BY <1>0, <2>1, <3>2 DEF ForgottenByFaults
  <2> QED
    BY <2>4, <2>5, <2>6, <2>7 DEF IInv
<1>7. ASSUME NEW r \in Relays, Refuse(r) PROVE IInv'
  <2>1. PICK w \in batch[r] :
           /\ batch' = [batch EXCEPT ![r] = @ \ {w}]
           /\ refused' = [refused EXCEPT ![w] = @ + 1]
           /\ mark' = [mark EXCEPT ![w] =
                           IF attempts[w] + 1 >= MaxDispatchAttempts THEN "failed" ELSE "retry"]
    BY <1>7 DEF Refuse, MarkAttemptFailed
  <2>2. UNCHANGED <<caller, rowVars, holder, sent, enqueued, unheard, aborts>>
    BY <1>7 DEF Refuse
  <2>3. /\ w \in Callers /\ holder[w] = r /\ mark[w] = "none" /\ status[w] = "pending"
        /\ \A q \in Relays : sent[q] # w
    BY <1>0, <2>1 DEF TypeOK, RowsAreCommitted, BatchIsAccounted
  <2>4. attempts[w] < MaxDispatchAttempts /\ attempts[w] <= refused[w] /\ attempts[w] \in Nat /\ refused[w] \in Nat
    BY <1>0, <2>3 DEF TypeOK, MarksAreEarned
  <2>5. TypeOK'
    BY <1>0, <2>1, <2>2, <2>3 DEF TypeOK
  <2>6. RowsAreCommitted' /\ DroppedHasTwin'
    BY <1>0, <2>1, <2>2, <2>3, NobodyAssumption DEF TypeOK, RowsAreCommitted, DroppedHasTwin, SameKey
  <2>7. MarksAreEarned'
    BY <1>0, <2>1, <2>2, <2>4 DEF TypeOK, MarksAreEarned
  <2>8. BatchIsAccounted'
    BY <1>0, <2>1, <2>2, <2>3 DEF TypeOK, BatchIsAccounted
  <2>9. ForgottenByFaults'
    BY <1>0, <2>1, <2>2, <2>3 DEF TypeOK, ForgottenByFaults
  <2> QED
    BY <2>5, <2>6, <2>7, <2>8, <2>9 DEF IInv
<1>8. ASSUME NEW r \in Relays, CommitBatch(r) PROVE IInv'
  <2>1. /\ batch[r] = {} /\ sent[r] = Nobody
        /\ status' = [w \in Callers |-> IF holder[w] = r /\ mark[w] # "retry" THEN mark[w] ELSE status[w]]
        /\ attempts' = [w \in Callers |-> IF holder[w] = r THEN attempts[w] + 1 ELSE attempts[w]]
        /\ ready' \subseteq ready
        /\ mark' = [w \in Callers |-> IF holder[w] = r THEN "none" ELSE mark[w]]
        /\ holder' = [w \in Callers |-> IF holder[w] = r THEN Nobody ELSE holder[w]]
        /\ UNCHANGED <<caller, batch, sent, historyVars>>
    BY <1>8 DEF CommitBatch, Held
  <2>2. \A w \in Callers : holder[w] = r => mark[w] \in {"retry", "failed", "dispatched"} /\ status[w] = "pending"
    BY <1>0, <2>1, NobodyAssumption DEF TypeOK, BatchIsAccounted, RowsAreCommitted
  <2>3. TypeOK'
    <3>1. attempts' \in [Callers -> 0..MaxDispatchAttempts]
      BY <1>0, <2>1, <2>2, NumberAssumption DEF TypeOK, MarksAreEarned
    <3> QED
      BY <1>0, <2>1, <2>2, <3>1 DEF TypeOK
  <2>4. RowsAreCommitted' /\ DroppedHasTwin'
    BY <1>0, <2>1, <2>2 DEF TypeOK, RowsAreCommitted, DroppedHasTwin, SameKey
  <2>5. BatchIsAccounted'
    <3>1. \A q \in Relays : \A w \in batch[q] : q # r
      BY <2>1
    <3>2. \A q \in Relays : sent[q] # Nobody => q # r
      BY <2>1
    <3> QED
      BY <1>0, <2>1, <3>1, <3>2, NobodyAssumption DEF TypeOK, BatchIsAccounted
  <2>6. MarksAreEarned'
    BY <1>0, <2>1, <2>2, NumberAssumption DEF TypeOK, MarksAreEarned
  <2>7. ForgottenByFaults'
    <3>1. ASSUME NEW w \in Callers, holder[w] = r PROVE \A q \in Relays : sent[q] # w
      BY <1>0, <2>1, <3>1, NobodyAssumption DEF BatchIsAccounted
    <3>2. ASSUME NEW w \in Callers, status'[w] \in {"none", "pending"}, \A q \in Relays : sent'[q] # w, mark'[w] # "dispatched"
          PROVE  enqueued[w] <= aborts + unheard[w]
      BY <1>0, <2>1, <2>2, <3>1, <3>2 DEF TypeOK, ForgottenByFaults
    <3> QED
      BY <1>0, <2>1, <3>2 DEF ForgottenByFaults
  <2> QED
    BY <2>3, <2>4, <2>5, <2>6, <2>7 DEF IInv
<1>9. ASSUME NEW r \in Relays, AbortBatch(r) PROVE IInv'
  <2>1. /\ aborts < MaxAborts /\ aborts' = aborts + 1
        /\ mark' = [w \in Callers |-> IF holder[w] = r THEN "none" ELSE mark[w]]
        /\ holder' = [w \in Callers |-> IF holder[w] = r THEN Nobody ELSE holder[w]]
        /\ batch' = [batch EXCEPT ![r] = {}]
        /\ sent' = [sent EXCEPT ![r] = Nobody]
        /\ UNCHANGED <<caller, rowVars, enqueued, refused, unheard>>
    BY <1>9 DEF AbortBatch, Held
  <2>2. TypeOK'
    BY <1>0, <2>1, NumberAssumption DEF TypeOK
  <2>3. RowsAreCommitted' /\ MarksAreEarned' /\ DroppedHasTwin'
    BY <1>0, <2>1 DEF TypeOK, RowsAreCommitted, MarksAreEarned, DroppedHasTwin, SameKey
  <2>4. BatchIsAccounted'
    BY <1>0, <2>1, NobodyAssumption DEF TypeOK, BatchIsAccounted
  <2>5. ForgottenByFaults'
    BY <1>0, <2>1, NumberAssumption DEF TypeOK, ForgottenByFaults
  <2> QED
    BY <2>2, <2>3, <2>4, <2>5 DEF IInv
<1>10. ASSUME NEW r \in Relays, LoseAnswer(r) PROVE IInv'
  <2> DEFINE w == sent[r]
  <2>1. /\ w # Nobody /\ sent' = [sent EXCEPT ![r] = Nobody]
        /\ refused' = [refused EXCEPT ![w] = @ + 1]
        /\ unheard' = [unheard EXCEPT ![w] = @ + 1]
        /\ mark' = [mark EXCEPT ![w] =
                        IF attempts[w] + 1 >= MaxDispatchAttempts THEN "failed" ELSE "retry"]
        /\ UNCHANGED <<caller, rowVars, holder, batch, enqueued, aborts>>
    BY <1>10 DEF LoseAnswer, MarkAttemptFailed
  <2>2. /\ w \in Callers /\ holder[w] = r /\ mark[w] = "none" /\ status[w] = "pending"
        /\ \A q \in Relays : w \notin batch[q]
    BY <1>0, <2>1, NobodyAssumption DEF TypeOK, BatchIsAccounted, RowsAreCommitted
  <2>3. sent[r] = w
    OBVIOUS
  <2> HIDE DEF w
  <2>4. \A q \in Relays : sent[q] = w => q = r
    BY <1>0, <2>1, <2>2 DEF BatchIsAccounted
  <2>5. attempts[w] < MaxDispatchAttempts /\ attempts[w] <= refused[w] /\ attempts[w] \in Nat /\ refused[w] \in Nat
    BY <1>0, <2>2 DEF TypeOK, MarksAreEarned
  <2>6. TypeOK'
    BY <1>0, <2>1, <2>2 DEF TypeOK
  <2>7. RowsAreCommitted' /\ DroppedHasTwin'
    BY <1>0, <2>1, <2>2, NobodyAssumption DEF TypeOK, RowsAreCommitted, DroppedHasTwin, SameKey
  <2>8. MarksAreEarned'
    BY <1>0, <2>1, <2>5 DEF TypeOK, MarksAreEarned
  <2>9. BatchIsAccounted'
    BY <1>0, <2>1, <2>2, <2>4 DEF TypeOK, BatchIsAccounted
  <2>10. ForgottenByFaults'
    <3>1. \A x \in Callers \ {w} : (\A q \in Relays : sent'[q] # x) => \A q \in Relays : sent[q] # x
      BY <1>0, <2>1, <2>3 DEF TypeOK
    <3>2. \A x \in Callers \ {w} : UNCHANGED <<mark[x], unheard[x]>>
      BY <1>0, <2>1 DEF TypeOK
    <3>3. unheard'[w] = unheard[w] + 1 /\ enqueued[w] <= aborts + unheard[w] + 1
      BY <1>0, <2>1, <2>2 DEF TypeOK, ForgottenByFaults
    <3>4. aborts \in Nat /\ \A x \in Callers : enqueued[x] \in Nat /\ unheard[x] \in Nat
      BY <1>0 DEF TypeOK
    <3> QED
      BY <1>0, <2>1, <2>2, <3>1, <3>2, <3>3, <3>4 DEF ForgottenByFaults
  <2> QED
    BY <2>6, <2>7, <2>8, <2>9, <2>10 DEF IInv
<1>11. CASE Purge
  <2>1. PICK S \in SUBSET {w \in Callers : status[w] = "dispatched"} :
           status' = [w \in Callers |-> IF w \in S THEN "purged" ELSE status[w]]
    BY <1>11 DEF Purge
  <2>2. UNCHANGED <<caller, attempts, ready, relayVars, historyVars>>
    BY <1>11 DEF Purge
  <2> QED
    BY <1>0, <2>1, <2>2 DEF IInv, TypeOK, RowsAreCommitted, BatchIsAccounted, MarksAreEarned,
       DroppedHasTwin, SameKey, ForgottenByFaults
<1>12. CASE UNCHANGED vars
  BY <1>0, <1>12 DEF vars, IInv, TypeOK, RowsAreCommitted, BatchIsAccounted, MarksAreEarned,
     DroppedHasTwin, SameKey, ForgottenByFaults
<1> QED
  BY <1>1, <1>2, <1>3, <1>4, <1>5, <1>6, <1>7, <1>8, <1>9, <1>11, <1>12, <1>10 DEF Next, Dispatch

\* The invariant holds in every reachable state.
THEOREM Inductive == Spec => []IInv
<1>1. Init => IInv
  BY InitInv
<1> QED
  BY <1>1, StepInv, PTL DEF Spec

\* Every variable of the outbox keeps its type; no row is tried more often than
\* MaxDispatchAttempts.
THEOREM TypeCorrect == Spec => []TypeOK
BY Inductive, PTL DEF IInv

\* A job that Write dropped as a duplicate has a committed twin.
THEOREM TwinSafe == Spec => []DroppedHasTwin
BY Inductive, PTL DEF IInv

\* The relays claim disjoint rows: a job reaches Redis once more than batches were
\* rolled back and answers about it were lost, at most.
THEOREM DuplicatesSafe == Spec => []DuplicatesNeedAFault
<1>1. IInv => DuplicatesNeedAFault
  BY DEF IInv, TypeOK, ForgottenByFaults, DuplicatesNeedAFault
<1> QED
  BY <1>1, Inductive, PTL

(***************************************************************************)
(* The outbox implements JobDelivery.                                      *)
(***************************************************************************)
\* A step that changes neither what a row owes nor what Redis answered is
\* invisible there.
LEMMA Invisible ==
    ASSUME \A w \in Callers : Owed(w)' = Owed(w), UNCHANGED <<enqueued, refused>>
    PROVE  UNCHANGED Delivery!jobVars
BY DEF Delivery!jobVars

\* COMMIT of a batch hands over or parks the rows that need no retry.
LEMMA CommitIsLeave ==
    ASSUME IInv, NEW r \in Relays, CommitBatch(r)
    PROVE  Delivery!Leave({w \in Held(r) : mark[w] # "retry"})
<1> DEFINE S == {w \in Held(r) : mark[w] # "retry"}
           left == [w \in S |-> IF mark[w] = "dispatched" THEN "closed" ELSE "parked"]
<1>1. /\ batch[r] = {} /\ sent[r] = Nobody
      /\ status' = [w \in Callers |-> IF w \in S THEN mark[w] ELSE status[w]]
      /\ UNCHANGED <<enqueued, refused>>
  BY DEF CommitBatch, historyVars
<1>2. \A w \in S : w \in Callers /\ holder[w] = r /\ status[w] = "pending" /\ mark[w] \in {"failed", "dispatched"}
  BY <1>1, NobodyAssumption DEF IInv, TypeOK, Held, RowsAreCommitted, BatchIsAccounted
<1>3. \A w \in S : Owed(w) = "promised" /\ Owed(w)' = left[w]
  BY <1>1, <1>2 DEF Owed
<1>4. \A w \in Callers \ S : Owed(w)' = Owed(w)
  BY <1>1 DEF Owed
<1>5. \A w \in S : IF left[w] = "closed" THEN enqueued[w] > 0 ELSE refused[w] >= MaxDispatchAttempts
  BY <1>2, NumberAssumption DEF IInv, TypeOK, MarksAreEarned
<1>6. left \in [S -> {"closed", "parked"}]
  OBVIOUS
<1>7. [w \in Callers |-> Owed(w)]' = [w \in Callers |-> IF w \in S THEN left[w] ELSE [x \in Callers |-> Owed(x)][w]]
  BY <1>3, <1>4
<1>8. \A w \in S : [x \in Callers |-> Owed(x)][w] = "promised"
  BY <1>2, <1>3
<1> HIDE DEF left, S
<1> QED
  <2>1. Delivery!Leave(S)
    BY <1>1, <1>5, <1>6, <1>7, <1>8 DEF Delivery!Leave
  <2> QED
    BY <2>1 DEF S

\* Every step of the outbox is a step of JobDelivery or invisible there.
LEMMA StepImplements == IInv /\ [Next]_vars => [Delivery!Next]_(Delivery!jobVars)
<1> SUFFICES ASSUME IInv, [Next]_vars PROVE [Delivery!Next]_(Delivery!jobVars)
  OBVIOUS
<1> USE DEF rowVars, relayVars, historyVars
<1>0. TypeOK /\ RowsAreCommitted /\ BatchIsAccounted
  BY DEF IInv
<1>1. ASSUME NEW w \in Callers, Insert(w) \/ Drop(w) \/ CommitMerged(w) \/ RollBackCaller(w) \/ Wait(w)
      PROVE  [Delivery!Next]_(Delivery!jobVars)
  <2>1. UNCHANGED <<status, enqueued, refused>>
    BY <1>1 DEF Insert, Drop, CommitMerged, RollBackCaller, Wait
  <2>2. \A x \in Callers : Owed(x)' = Owed(x)
    BY <2>1 DEF Owed
  <2> QED
    BY <2>1, <2>2, Invisible
<1>2. ASSUME NEW w \in Callers, CommitCaller(w) PROVE [Delivery!Next]_(Delivery!jobVars)
  <2>1. status[w] = "none" /\ status' = [status EXCEPT ![w] = "pending"] /\ UNCHANGED <<enqueued, refused>>
    BY <1>0, <1>2 DEF CommitCaller, TypeOK, RowsAreCommitted
  <2>2. Owed(w) = "none" /\ Owed(w)' = "promised"
    BY <1>0, <2>1 DEF Owed, TypeOK
  <2>3. \A x \in Callers \ {w} : Owed(x)' = Owed(x)
    BY <1>0, <2>1 DEF Owed, TypeOK
  <2>4. [x \in Callers |-> Owed(x)]' = [[x \in Callers |-> Owed(x)] EXCEPT ![w] = "promised"]
    BY <2>2, <2>3
  <2>5. Delivery!Promise(w)
    BY <2>1, <2>2, <2>4 DEF Delivery!Promise
  <2> QED
    BY <2>5 DEF Delivery!Next
<1>3. ASSUME NEW r \in Relays, Claim(r) \/ MarkDispatched(r) \/ AbortBatch(r)
      PROVE  [Delivery!Next]_(Delivery!jobVars)
  <2>1. UNCHANGED <<status, enqueued, refused>>
    BY <1>3 DEF Claim, MarkDispatched, AbortBatch
  <2>2. \A x \in Callers : Owed(x)' = Owed(x)
    BY <2>1 DEF Owed
  <2> QED
    BY <2>1, <2>2, Invisible
<1>4. ASSUME NEW r \in Relays, Enqueue(r) PROVE [Delivery!Next]_(Delivery!jobVars)
  <2>1. PICK w \in batch[r] : enqueued' = [enqueued EXCEPT ![w] = @ + 1]
    BY <1>4 DEF Enqueue
  <2>2. UNCHANGED <<status, refused>>
    BY <1>4 DEF Enqueue
  <2>3. w \in Callers /\ Owed(w) = "promised" /\ \A x \in Callers : Owed(x)' = Owed(x)
    BY <1>0, <2>1, <2>2, NobodyAssumption DEF Owed, TypeOK, RowsAreCommitted, BatchIsAccounted
  <2>4. Delivery!Deliver(w)
    BY <2>1, <2>2, <2>3 DEF Delivery!Deliver
  <2> QED
    BY <2>3, <2>4 DEF Delivery!Next
<1>5. ASSUME NEW r \in Relays, Refuse(r) PROVE [Delivery!Next]_(Delivery!jobVars)
  <2>1. PICK w \in batch[r] : refused' = [refused EXCEPT ![w] = @ + 1]
    BY <1>5 DEF Refuse, MarkAttemptFailed
  <2>2. UNCHANGED <<status, enqueued>>
    BY <1>5 DEF Refuse
  <2>3. w \in Callers /\ Owed(w) = "promised" /\ \A x \in Callers : Owed(x)' = Owed(x)
    BY <1>0, <2>1, <2>2, NobodyAssumption DEF Owed, TypeOK, RowsAreCommitted, BatchIsAccounted
  <2>4. Delivery!Refuse(w)
    BY <2>1, <2>2, <2>3 DEF Delivery!Refuse
  <2> QED
    BY <2>3, <2>4 DEF Delivery!Next
<1>6. ASSUME NEW r \in Relays, LoseAnswer(r) PROVE [Delivery!Next]_(Delivery!jobVars)
  <2> DEFINE w == sent[r]
  <2>1. w # Nobody /\ refused' = [refused EXCEPT ![w] = @ + 1] /\ UNCHANGED <<status, enqueued>>
    BY <1>6 DEF LoseAnswer, MarkAttemptFailed
  <2>2. w \in Callers /\ Owed(w) = "promised" /\ \A x \in Callers : Owed(x)' = Owed(x)
    BY <1>0, <2>1, NobodyAssumption DEF Owed, TypeOK, RowsAreCommitted, BatchIsAccounted
  <2> HIDE DEF w
  <2>3. Delivery!Refuse(w)
    BY <2>1, <2>2 DEF Delivery!Refuse
  <2> QED
    BY <2>2, <2>3 DEF Delivery!Next
<1>7. ASSUME NEW r \in Relays, CommitBatch(r) PROVE [Delivery!Next]_(Delivery!jobVars)
  <2>1. {w \in Held(r) : mark[w] # "retry"} \in SUBSET Callers
    BY DEF Held
  <2> QED
    BY <1>7, <2>1, CommitIsLeave DEF Delivery!Next
<1>8. CASE Purge
  <2>1. PICK S \in SUBSET {w \in Callers : status[w] = "dispatched"} :
           status' = [w \in Callers |-> IF w \in S THEN "purged" ELSE status[w]]
    BY <1>8 DEF Purge
  <2>2. UNCHANGED <<enqueued, refused>>
    BY <1>8 DEF Purge
  <2>3. \A x \in Callers : Owed(x)' = Owed(x)
    BY <2>1 DEF Owed
  <2> QED
    BY <2>2, <2>3, Invisible
<1>9. CASE UNCHANGED vars
  <2>1. \A x \in Callers : Owed(x)' = Owed(x)
    BY <1>9 DEF vars, Owed
  <2> QED
    BY <1>9, <2>1, Invisible DEF vars
<1> QED
  BY <1>1, <1>2, <1>3, <1>4, <1>5, <1>7, <1>8, <1>9, <1>6 DEF Next, Dispatch

\* Every behaviour of the outbox is one of JobDelivery: a job is delivered only
\* if its caller committed, and is given up only after MaxDispatchAttempts errors.
THEOREM Implementation == Spec => ImplementsDelivery
<1>1. Init => Delivery!Init
  BY DEF Init, Delivery!Init, Owed
<1> QED
  BY <1>1, StepImplements, Inductive, PTL DEF Spec, ImplementsDelivery, Delivery!Spec

-----------------------------------------------------------------------------
(* Submissions and their dispatch *)

\* Everything after the transaction of Submit stands on its row, and the row on
\* the file; an attempt that was accepted was heard.
StandsOnTheRow ==
    /\ submit = "idle" => dispatch = "none"
    /\ submit \in {"uploaded", "committed"} => stored
    /\ dispatch # "none" <=> submit = "committed"
    /\ \A j \in Jobs : job[j] # "none" => dispatch # "none"
    /\ \A t \in Tasks : task[t].at # "absent" => dispatch # "none"
    /\ \A c \in Retries : retry[c] # "idle" => dispatch # "none"
    /\ \A t \in Tasks : task[t].at = "accepted" => ai

DispatchInv == SubmissionTypeOK /\ StandsOnTheRow /\ HandoffIsComplete

\* Nothing is stored, written or running at first.
LEMMA DispatchInit == SubmissionInit => DispatchInv
<1> USE FirstAssumption, RetryAssumption
<1> SUFFICES ASSUME SubmissionInit PROVE DispatchInv
  OBVIOUS
<1>1. [at |-> "absent", retried |-> 0] \in Task
  BY DEF Task
<1>2. task \in [Tasks -> Task] /\ \A t \in Tasks : task[t].at = "absent"
  BY <1>1 DEF SubmissionInit
<1>3. /\ job = [j \in Jobs |-> "none"] /\ delivered = [j \in Jobs |-> 0]
      /\ declined = [j \in Jobs |-> 0]
  BY DEF SubmissionInit, Queue!Init
<1>4. SubmissionTypeOK
  <2>1. 0 \in 0 .. MaxDuplicates + 1 /\ 0 \in 0 .. MaxRefusals /\ 0 \in 0 .. MaxFaults
    OBVIOUS
  <2>2. /\ job \in [Jobs -> {"none", "promised", "closed", "parked"}]
        /\ delivered \in [Jobs -> 0 .. MaxDuplicates + 1]
        /\ declined \in [Jobs -> 0 .. MaxRefusals]
    BY <1>3, <2>1
  <2> QED
    BY <1>2, <2>1, <2>2 DEF SubmissionInit, SubmissionTypeOK
<1>5. StandsOnTheRow /\ HandoffIsComplete
  BY <1>2, <1>3 DEF SubmissionInit, StandsOnTheRow, HandoffIsComplete
<1> QED
  BY <1>4, <1>5 DEF DispatchInv

\* What RetryTask makes of a task that is there: it waits again, or is archived.
LEMMA RetryTaskStep ==
    ASSUME task \in [Tasks -> Task],
           NEW t \in Tasks, task[t].at # "absent",
           NEW end \in {"archived", "unrecorded"}, RetryTask(t, end)
    PROVE  /\ task' \in [Tasks -> Task]
           /\ task'[t].at \in {"waiting", "archived", "unrecorded"}
           /\ \A u \in Tasks \ {t} : task'[u] = task[u]
<1> USE RetryAssumption
<1>1. task[t] \in Task /\ task[t].retried \in 0 .. MaxRetry
  BY DEF Task
<1>2. CASE task[t].retried < MaxRetry
  <2>1. task' = [task EXCEPT ![t] = [at |-> "waiting", retried |-> task[t].retried + 1]]
    BY <1>2 DEF RetryTask
  <2>2. [at |-> "waiting", retried |-> task[t].retried + 1] \in Task
    BY <1>1, <1>2 DEF Task
  <2> QED
    BY <2>1, <2>2
<1>3. CASE ~ task[t].retried < MaxRetry
  <2>1. task' = [task EXCEPT ![t] = [task[t] EXCEPT !.at = end]]
    BY <1>3 DEF RetryTask
  <2>2. /\ [task[t] EXCEPT !.at = end] \in Task
        /\ [task[t] EXCEPT !.at = end].at = end
    BY <1>1 DEF Task
  <2> QED
    BY <2>1, <2>2
<1> QED
  BY <1>2, <1>3

\* A task that moves on moves alone.
LEMMA GotoStep ==
    ASSUME task \in [Tasks -> Task],
           NEW t \in Tasks, NEW at, Goto(t, at),
           at \in {"waiting", "read", "unaddressed", "accepted", "rejected", "done", "archived", "unrecorded"}
    PROVE  /\ task' \in [Tasks -> Task]
           /\ task'[t].at = at
           /\ \A u \in Tasks \ {t} : task'[u] = task[u]
<1>1. task' = [task EXCEPT ![t].at = at]
  BY DEF Goto
<1>2. [task[t] EXCEPT !.at = at] \in Task /\ [task[t] EXCEPT !.at = at].at = at
  BY DEF Task
<1> QED
  BY <1>1, <1>2

\* Every statement of Submit and Redispatch, every hand-over and every attempt.
LEMMA DispatchStep == DispatchInv /\ [SubmissionNext]_ingestVars => DispatchInv'
<1> USE FirstAssumption, RetryAssumption
<1> SUFFICES ASSUME DispatchInv, [SubmissionNext]_ingestVars PROVE DispatchInv'
  OBVIOUS
<1>0. SubmissionTypeOK /\ StandsOnTheRow /\ HandoffIsComplete
  BY DEF DispatchInv
<1> USE DEF submitVars, queueVars
<1>1. CASE Upload
  BY <1>0, <1>1 DEF Upload, DispatchInv, SubmissionTypeOK, StandsOnTheRow,
                    HandoffIsComplete
<1>2. CASE CommitSubmission
  <2>1. job' = [job EXCEPT ![First] = "promised"] /\ UNCHANGED <<delivered, declined>>
    BY <1>2 DEF CommitSubmission, Queue!Promise
  <2>2. First \in Jobs
    BY DEF Jobs
  <2> QED
    BY <1>0, <1>2, <2>1, <2>2 DEF CommitSubmission, DispatchInv, SubmissionTypeOK,
                                  StandsOnTheRow, HandoffIsComplete
<1>3. CASE UndoSubmission
  BY <1>0, <1>3 DEF UndoSubmission, DispatchInv, SubmissionTypeOK, StandsOnTheRow,
                    HandoffIsComplete
<1>4. ASSUME NEW c \in Retries, MarkDispatchPending(c) PROVE DispatchInv'
  BY <1>0, <1>4 DEF MarkDispatchPending, DispatchInv, SubmissionTypeOK, StandsOnTheRow,
                    HandoffIsComplete
<1>5. ASSUME NEW c \in Retries, EnqueueTask(c) PROVE DispatchInv'
  <2>1. /\ job' = [job EXCEPT ![c] = "promised"] \/ job' = job
        /\ UNCHANGED <<delivered, declined, submit, stored, dispatch, task, configured, ai, faults>>
        /\ retry[c] = "marked" /\ c \in Jobs
    BY <1>5 DEF EnqueueTask, Queue!Promise, Jobs
  <2>2. PICK x \in {"queued", "merged", "late"} : retry' = [retry EXCEPT ![c] = x]
    BY <1>5 DEF EnqueueTask
  <2> QED
    BY <1>0, <2>1, <2>2 DEF DispatchInv, SubmissionTypeOK, StandsOnTheRow, HandoffIsComplete
<1>6. ASSUME NEW c \in Retries, DieMarked(c) PROVE DispatchInv'
  BY <1>0, <1>6 DEF DieMarked, Fault, DispatchInv, SubmissionTypeOK,
                    StandsOnTheRow, HandoffIsComplete
<1>7. ASSUME NEW j \in Jobs, Relay(j) PROVE DispatchInv'
  <2>1. CASE Deliver(j)
    <3>1. /\ job[j] = "promised" /\ delivered' = [delivered EXCEPT ![j] = @ + 1]
          /\ UNCHANGED <<job, declined, submit, stored, dispatch, retry, configured, ai, faults>>
      BY <2>1 DEF Deliver, Queue!Deliver
    <3> DEFINE t == <<j, delivered[j] + 1>>
    <3>2. delivered[j] \in 0 .. MaxDuplicates
      BY <1>0, <2>1 DEF Deliver, SubmissionTypeOK
    <3>3. t \in Tasks /\ task' = [task EXCEPT ![t].at = "waiting"]
      BY <2>1, <3>2 DEF Deliver, Tasks
    <3> HIDE DEF t
    <3>4. /\ task' \in [Tasks -> Task] /\ task'[t].at = "waiting"
          /\ \A u \in Tasks \ {t} : task'[u] = task[u]
      BY <1>0, <3>3, GotoStep DEF Goto, SubmissionTypeOK
    <3>5. delivered' \in [Jobs -> 0 .. MaxDuplicates + 1]
      BY <1>0, <3>1, <3>2 DEF SubmissionTypeOK
    <3> QED
      BY <1>0, <3>1, <3>3, <3>4, <3>5 DEF DispatchInv, SubmissionTypeOK, StandsOnTheRow,
                                          HandoffIsComplete
  <2>2. CASE RefuseJob(j)
    BY <1>0, <2>2 DEF RefuseJob, Queue!Refuse, DispatchInv, SubmissionTypeOK,
                      StandsOnTheRow, HandoffIsComplete
  <2>3. CASE Leave(j)
    <3>1. /\ job[j] = "promised" /\ job' \in [Jobs -> {"none", "promised", "closed", "parked"}]
          /\ \A i \in Jobs \ {j} : job'[i] = job[i]
          /\ UNCHANGED <<delivered, declined, submit, stored, dispatch, task, retry, configured, ai, faults>>
      BY <1>0, <2>3 DEF Leave, Queue!Leave, SubmissionTypeOK
    <3> QED
      BY <1>0, <3>1 DEF DispatchInv, SubmissionTypeOK, StandsOnTheRow, HandoffIsComplete
  <2> QED
    BY <1>7, <2>1, <2>2, <2>3 DEF Relay
<1>8. ASSUME NEW t \in Tasks, Work(t) \/ StopUnrecorded(t) \/ DieWorking(t) PROVE DispatchInv'
  <2>1. CASE Start(t) \/ StopUnaddressed(t) \/ StopUnrecorded(t)
    <3>1. PICK at \in {"read", "unaddressed", "archived", "unrecorded"} :
             Goto(t, at) /\ task[t].at # "absent"
      BY <2>1 DEF Start, StopUnaddressed, StopUnrecorded
    <3>2. /\ task' \in [Tasks -> Task] /\ task'[t].at = at
          /\ \A u \in Tasks \ {t} : task'[u] = task[u]
      BY <1>0, <3>1, GotoStep DEF SubmissionTypeOK
    <3>3. dispatch' = dispatch \/ dispatch' = "failed"
      BY <2>1 DEF Start, StopUnaddressed, StopUnrecorded
    <3>4. /\ UNCHANGED <<submitVars, queueVars, retry, configured, ai>>
          /\ faults' \in 0 .. MaxFaults
      BY <1>0, <2>1 DEF Start, StopUnaddressed, StopUnrecorded, Fault, SubmissionTypeOK
    <3> QED
      BY <1>0, <3>1, <3>2, <3>3, <3>4 DEF DispatchInv, SubmissionTypeOK, StandsOnTheRow, HandoffIsComplete
  <2>2. CASE StartProcessing(t)
    <3>1. PICK heard \in BOOLEAN, answered \in BOOLEAN :
             ai' = (ai \/ heard) /\ Goto(t, IF heard /\ answered THEN "accepted" ELSE "rejected")
      BY <2>2 DEF StartProcessing
    <3>2. /\ task' \in [Tasks -> Task]
          /\ \A u \in Tasks \ {t} : task'[u] = task[u]
          /\ task'[t].at \in {"accepted", "rejected"}
          /\ task'[t].at = "accepted" => heard
      BY <1>0, <3>1, GotoStep DEF SubmissionTypeOK
    <3>3. (ai => ai') /\ ai' \in BOOLEAN /\ (heard => ai')
      BY <1>0, <3>1 DEF SubmissionTypeOK
    <3> QED
      BY <1>0, <2>2, <3>2, <3>3 DEF StartProcessing, DispatchInv, SubmissionTypeOK,
                                    StandsOnTheRow, HandoffIsComplete
  <2>3. CASE MarkSubmissionDispatched(t)
    <3>1. /\ task'[t].at = "done" /\ task' \in [Tasks -> Task]
          /\ \A u \in Tasks \ {t} : task'[u] = task[u]
      BY <1>0, <2>3, GotoStep DEF MarkSubmissionDispatched, SubmissionTypeOK
    <3> QED
      BY <1>0, <2>3, <3>1 DEF MarkSubmissionDispatched, DispatchInv, SubmissionTypeOK,
                              StandsOnTheRow, HandoffIsComplete
  <2>4. CASE MarkDispatchFailed(t)
    <3>1. /\ task[t].at = "rejected" /\ task' \in [Tasks -> Task]
          /\ task'[t].at \in {"waiting", "archived", "unrecorded"}
          /\ \A u \in Tasks \ {t} : task'[u] = task[u]
      BY <1>0, <2>4, RetryTaskStep DEF MarkDispatchFailed, SubmissionTypeOK
    <3> QED
      BY <1>0, <2>4, <3>1 DEF MarkDispatchFailed, DispatchInv, SubmissionTypeOK,
                              StandsOnTheRow, HandoffIsComplete
  <2>5. CASE DieWorking(t)
    <3>1. /\ task[t].at # "absent" /\ task' \in [Tasks -> Task]
          /\ task'[t].at \in {"waiting", "archived", "unrecorded"}
          /\ \A u \in Tasks \ {t} : task'[u] = task[u]
      BY <1>0, <2>5, RetryTaskStep DEF DieWorking, SubmissionTypeOK
    <3> QED
      BY <1>0, <2>5, <3>1 DEF DieWorking, Fault, DispatchInv, SubmissionTypeOK,
                              StandsOnTheRow, HandoffIsComplete
  <2> QED
    BY <1>8, <2>1, <2>2, <2>3, <2>4, <2>5 DEF Work
<1>9. CASE Configure
  BY <1>0, <1>9 DEF Configure, DispatchInv, SubmissionTypeOK, StandsOnTheRow,
                    HandoffIsComplete
<1>10. CASE UNCHANGED ingestVars
  BY <1>0, <1>10 DEF ingestVars, DispatchInv, SubmissionTypeOK, StandsOnTheRow,
                     HandoffIsComplete
<1> QED
  BY <1>1, <1>2, <1>3, <1>4, <1>5, <1>6, <1>7, <1>8, <1>9, <1>10 DEF SubmissionNext

\* The row carries the jobs, the tasks and the answer of the AI service.
LEMMA DispatchInvariant == SubmissionSpec => []DispatchInv
<1>1. SubmissionInit => DispatchInv
  BY DispatchInit
<1>2. DispatchInv /\ [SubmissionNext]_ingestVars => DispatchInv'
  BY DispatchStep
<1> QED
  BY <1>1, <1>2, PTL DEF SubmissionSpec

\* The rows, the queue and the workers have their type.
THEOREM DispatchTyped == SubmissionSpec => []SubmissionTypeOK
<1>1. DispatchInv => SubmissionTypeOK
  BY DEF DispatchInv
<1> QED
  BY <1>1, DispatchInvariant, PTL

\* The AI service hears only of what is stored and committed, and "dispatched" is
\* said only of what it heard of, however attempts and retries overlap (Dispatch).
THEOREM HandoffSafe == SubmissionSpec => []HandoffIsComplete
<1>1. DispatchInv => HandoffIsComplete
  BY DEF DispatchInv
<1> QED
  BY <1>1, DispatchInvariant, PTL
=============================================================================
