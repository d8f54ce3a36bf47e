------------------------------- MODULE Outbox -------------------------------
(***************************************************************************)
(* The transactional outbox (internal/platform/outbox): callers write a    *)
(* job in the transaction of their domain row, and the relay of every      *)
(* worker moves the pending rows into asynq, a batch per transaction.      *)
(*                                                                         *)
(* A caller writes at most one row, named after it.  A row's available_at  *)
(* is abstracted to whether it has been reached ("ready").  PostgreSQL:    *)
(* an INSERT ... ON CONFLICT DO NOTHING waits for the transaction that has *)
(* inserted or is updating the row it collides with; FOR UPDATE alone does *)
(* not make it wait.                                                       *)
(***************************************************************************)
EXTENDS Naturals, FiniteSets

CONSTANTS
    Callers, Relays,
    Key,            \* the dedupe_key of each caller's job
    NoKey,          \* no de-duplication
    Nobody,         \* no relay, no row
    BatchSize, MaxDispatchAttempts,     \* RelayConfig
    MaxAborts       \* bound on batches that are rolled back

ASSUME NumberAssumption == BatchSize \in Nat \ {0} /\ MaxDispatchAttempts \in Nat \ {0} /\ MaxAborts \in Nat
ASSUME NobodyAssumption == Nobody \notin Callers \cup Relays

VARIABLES
    caller,         \* how far each caller's transaction is
    status,         \* of each row
    attempts,
    ready,          \* rows whose available_at has come
    holder,         \* the relay that has claimed the row FOR UPDATE
    mark,           \* the update its transaction has made to the row
    batch,          \* rows a relay has claimed and not yet tried
    sent,           \* the row a relay has enqueued and not yet marked
    enqueued,       \* history: how often Redis took the job
    refused,        \* history: how often the relay got an error for it
    unheard,        \* history: how often that was after Redis had taken it
    aborts          \* history: batches that were rolled back

rowVars     == <<status, attempts, ready>>
relayVars   == <<holder, mark, batch, sent>>
historyVars == <<enqueued, refused, unheard, aborts>>
vars == <<caller, rowVars, relayVars, historyVars>>

TypeOK ==
    /\ caller \in [Callers -> {"idle", "inserted", "dropped", "kept", "merged", "undone"}]
    /\ status \in [Callers -> {"none", "pending", "dispatched", "failed", "purged"}]
    /\ attempts \in [Callers -> 0..MaxDispatchAttempts]
    /\ ready \subseteq Callers
    /\ holder \in [Callers -> Relays \cup {Nobody}]
    /\ mark \in [Callers -> {"none", "retry", "failed", "dispatched"}]
    /\ batch \in [Relays -> SUBSET Callers]
    /\ sent \in [Relays -> Callers \cup {Nobody}]
    /\ enqueued \in [Callers -> Nat] /\ refused \in [Callers -> Nat] /\ unheard \in [Callers -> Nat]
    /\ aborts \in 0..MaxAborts

-----------------------------------------------------------------------------
Held(r) == {w \in Callers : holder[w] = r}

\* Rows the partial unique index compares with w's.
SameKey(w) == {x \in Callers \ {w} : Key[x] = Key[w] /\ Key[w] # NoKey}

InDoubt(x) == caller[x] = "inserted" \/ mark[x] # "none"

Twins(w) == {x \in SameKey(w) : status[x] = "pending"}

Init ==
    /\ caller = [w \in Callers |-> "idle"]
    /\ status = [w \in Callers |-> "none"]
    /\ attempts = [w \in Callers |-> 0]
    /\ ready = {}
    /\ holder = [w \in Callers |-> Nobody]
    /\ mark = [w \in Callers |-> "none"]
    /\ batch = [r \in Relays |-> {}]
    /\ sent = [r \in Relays |-> Nobody]
    /\ enqueued = [w \in Callers |-> 0]
    /\ refused = [w \in Callers |-> 0]
    /\ unheard = [w \in Callers |-> 0]
    /\ aborts = 0

\* The dual write the outbox replaced: the job is enqueued before the commit.
InsertAndEnqueue(w) ==
    /\ caller[w] = "idle"
    /\ \A x \in SameKey(w) : ~ InDoubt(x)
    /\ Twins(w) = {}
    /\ caller' = [caller EXCEPT ![w] = "inserted"]
    /\ enqueued' = [enqueued EXCEPT ![w] = @ + 1]
    /\ UNCHANGED <<rowVars, relayVars, refused, unheard, aborts>>

\* Write.
Insert(w) ==
    /\ caller[w] = "idle"
    /\ \A x \in SameKey(w) : ~ InDoubt(x)
    /\ Twins(w) = {}
    /\ caller' = [caller EXCEPT ![w] = "inserted"]
    /\ UNCHANGED <<rowVars, relayVars, historyVars>>

\* A check for a twin that also sees rows that are not committed.
DropAtOnce(w) ==
    /\ caller[w] = "idle"
    /\ \E x \in SameKey(w) : caller[x] = "inserted" \/ status[x] = "pending"
    /\ caller' = [caller EXCEPT ![w] = "dropped"]
    /\ UNCHANGED <<rowVars, relayVars, historyVars>>

Drop(w) ==
    /\ caller[w] = "idle"
    /\ \A x \in SameKey(w) : ~ InDoubt(x)
    /\ Twins(w) # {}
    /\ caller' = [caller EXCEPT ![w] = "dropped"]
    /\ UNCHANGED <<rowVars, relayVars, historyVars>>

\* The caller's transaction ends.  The row may be meant for later.
CommitCaller(w) ==
    /\ caller[w] = "inserted"
    /\ caller' = [caller EXCEPT ![w] = "kept"]
    /\ status' = [status EXCEPT ![w] = "pending"]
    /\ ready' \in {ready, ready \cup {w}}
    /\ UNCHANGED <<attempts, relayVars, historyVars>>

CommitMerged(w) ==
    /\ caller[w] = "dropped"
    /\ caller' = [caller EXCEPT ![w] = "merged"]
    /\ UNCHANGED <<rowVars, relayVars, historyVars>>

RollBackCaller(w) ==
    /\ caller[w] \in {"inserted", "dropped"}
    /\ caller' = [caller EXCEPT ![w] = "undone"]
    /\ UNCHANGED <<rowVars, relayVars, historyVars>>

\* Time passes.
Wait(w) ==
    /\ status[w] = "pending"
    /\ w \notin ready
    /\ ready' = ready \cup {w}
    /\ UNCHANGED <<caller, status, attempts, relayVars, historyVars>>

-----------------------------------------------------------------------------
\* Claim without FOR UPDATE SKIP LOCKED.
ClaimShared(r) ==
    LET due == {w \in Callers : status[w] = "pending" /\ w \in ready} IN
    /\ Held(r) = {}
    /\ \E B \in SUBSET due \ {{}} :
          /\ Cardinality(B) <= BatchSize
          /\ Cardinality(B) < BatchSize => B = due
          /\ holder' = [w \in Callers |-> IF w \in B THEN r ELSE holder[w]]
          /\ batch' = [batch EXCEPT ![r] = B]
    /\ UNCHANGED <<caller, rowVars, mark, sent, historyVars>>

\* DispatchBatch: BEGIN and Claim of up to BatchSize rows that are due and not
\* locked (which come first, by available_at and created_at, is left open).
Claim(r) ==
    LET due == {w \in Callers : status[w] = "pending" /\ w \in ready /\ holder[w] = Nobody} IN
    /\ Held(r) = {}
    /\ \E B \in SUBSET due \ {{}} :
          /\ Cardinality(B) <= BatchSize
          /\ Cardinality(B) < BatchSize => B = due
          /\ holder' = [w \in Callers |-> IF w \in B THEN r ELSE holder[w]]
          /\ batch' = [batch EXCEPT ![r] = B]
    /\ UNCHANGED <<caller, rowVars, mark, sent, historyVars>>

\* Redis takes the task; whether the relay hears of it is the next step.
Enqueue(r) ==
    /\ sent[r] = Nobody
    /\ \E w \in batch[r] :
          /\ batch' = [batch EXCEPT ![r] = @ \ {w}]
          /\ sent' = [sent EXCEPT ![r] = w]
          /\ enqueued' = [enqueued EXCEPT ![w] = @ + 1]
    /\ UNCHANGED <<caller, rowVars, holder, mark, refused, unheard, aborts>>

MarkDispatched(r) ==
    /\ sent[r] # Nobody
    /\ mark' = [mark EXCEPT ![sent[r]] = "dispatched"]
    /\ sent' = [sent EXCEPT ![r] = Nobody]
    /\ UNCHANGED <<caller, rowVars, holder, batch, historyVars>>

MarkAttemptFailed(w) ==
    /\ refused' = [refused EXCEPT ![w] = @ + 1]
    /\ mark' = [mark EXCEPT ![w] =
                    IF attempts[w] + 1 >= MaxDispatchAttempts THEN "failed" ELSE "retry"]

\* Enqueue returns an error and Redis has not taken the task.
Refuse(r) ==
    /\ sent[r] = Nobody
    /\ \E w \in batch[r] :
          /\ batch' = [batch EXCEPT ![r] = @ \ {w}]
          /\ MarkAttemptFailed(w)
    /\ UNCHANGED <<caller, rowVars, holder, sent, enqueued, unheard, aborts>>

\* Enqueue returns an error, a time-out say, and Redis has taken the task: the
\* relay treats both errors alike.
LoseAnswer(r) ==
    /\ sent[r] # Nobody
    /\ MarkAttemptFailed(sent[r])
    /\ unheard' = [unheard EXCEPT ![sent[r]] = @ + 1]
    /\ sent' = [sent EXCEPT ![r] = Nobody]
    /\ UNCHANGED <<caller, rowVars, holder, batch, enqueued, aborts>>

\* Every row of the batch is marked: COMMIT.  A retry pushes available_at back.
CommitBatch(r) ==
    /\ Held(r) # {} /\ batch[r] = {} /\ sent[r] = Nobody
    /\ status' = [w \in Callers |-> IF w \in Held(r) /\ mark[w] # "retry" THEN mark[w] ELSE status[w]]
    /\ attempts' = [w \in Callers |-> IF w \in Held(r) THEN attempts[w] + 1 ELSE attempts[w]]
    /\ ready' = {w \in ready : ~ (w \in Held(r) /\ mark[w] = "retry")}
    /\ mark' = [w \in Callers |-> IF w \in Held(r) THEN "none" ELSE mark[w]]
    /\ holder' = [w \in Callers |-> IF w \in Held(r) THEN Nobody ELSE holder[w]]
    /\ UNCHANGED <<caller, batch, sent, historyVars>>

\* A claim that outlives its transaction, as a "claimed" status would.
AbortKeepsClaim(r) ==
    /\ Held(r) # {}
    /\ aborts < MaxAborts
    /\ aborts' = aborts + 1
    /\ mark' = [w \in Callers |-> IF w \in Held(r) THEN "none" ELSE mark[w]]
    /\ batch' = [batch EXCEPT ![r] = {}]
    /\ sent' = [sent EXCEPT ![r] = Nobody]
    /\ UNCHANGED <<caller, rowVars, holder, enqueued, refused, unheard>>

\* An error of a mark or of the commit, or the worker dies: what was enqueued
\* stays in Redis.
AbortBatch(r) ==
    /\ Held(r) # {}
    /\ aborts < MaxAborts
    /\ aborts' = aborts + 1
    /\ mark' = [w \in Callers |-> IF w \in Held(r) THEN "none" ELSE mark[w]]
    /\ holder' = [w \in Callers |-> IF w \in Held(r) THEN Nobody ELSE holder[w]]
    /\ batch' = [batch EXCEPT ![r] = {}]
    /\ sent' = [sent EXCEPT ![r] = Nobody]
    /\ UNCHANGED <<caller, rowVars, enqueued, refused, unheard>>

\* Purge of the dispatched rows the retention is over for.
Purge ==
    /\ \E S \in SUBSET {w \in Callers : status[w] = "dispatched"} \ {{}} :
          status' = [w \in Callers |-> IF w \in S THEN "purged" ELSE status[w]]
    /\ UNCHANGED <<caller, attempts, ready, relayVars, historyVars>>

Dispatch(r) ==
    Claim(r) \/ Enqueue(r) \/ MarkDispatched(r) \/ Refuse(r) \/ LoseAnswer(r) \/ CommitBatch(r)

Next ==
    \/ \E w \in Callers :
          Insert(w) \/ Drop(w) \/ CommitCaller(w) \/ CommitMerged(w) \/ RollBackCaller(w) \/ Wait(w)
    \/ \E r \in Relays : Dispatch(r) \/ AbortBatch(r)
    \/ Purge

Spec == Init /\ [][Next]_vars

\* Run polls for ever, a worker that died is started again (its batches were
\* rolled back), and time passes.  Nothing says that Redis ever accepts.
Fairness ==
    /\ \A r \in Relays : WF_vars(Dispatch(r))
    /\ \A w \in Callers : WF_vars(Wait(w))

FairSpec == Spec /\ Fairness

-----------------------------------------------------------------------------
\* What the outbox still owes a caller's job.
Owed(w) ==
    CASE status[w] = "none" -> "none"
      [] status[w] = "pending" -> "promised"
      [] status[w] \in {"dispatched", "purged"} -> "closed"
      [] status[w] = "failed" -> "parked"

Delivery == INSTANCE JobDelivery WITH
    Jobs <- Callers, MaxRefusals <- MaxDispatchAttempts,
    job <- [w \in Callers |-> Owed(w)], delivered <- enqueued

\* "Either both land or neither does", "a duplicated job is survivable, a lost one
\* is not": Redis has a job only if its domain row was committed, and a row leaves
\* only after Redis took the job or the relay got an error for it
\* MaxDispatchAttempts times (Write, DispatchBatch, MarkDispatched, MarkAttemptFailed).
ImplementsDelivery == Delivery!Spec

\* "job تکراری قابل تحمل است، job گم‌شده نه": a job that Write dropped as a
\* duplicate has a committed twin, even if the transaction that wrote the twin
\* was still open at the time.
DroppedHasTwin ==
    \A w \in Callers : caller[w] \in {"dropped", "merged"} =>
        \E x \in SameKey(w) : caller[x] = "kept"

\* "each grabs a disjoint set" (Claim): a job reaches Redis again only if a batch
\* was rolled back, or the answer to an Enqueue of this very job was lost; two
\* relays at work never are a reason.
DuplicatesNeedAFault == \A w \in Callers : enqueued[w] <= 1 + aborts + unheard[w]

\* "no job is ever missed": whatever Redis answers and whichever batches are
\* rolled back, a committed job reaches the queue or is parked to be seen.
EveryJobLeaves ==
    \A w \in Callers : status[w] = "pending" ~> status[w] \in {"dispatched", "failed", "purged"}
=============================================================================
