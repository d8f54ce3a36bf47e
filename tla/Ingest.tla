------------------------------- MODULE Ingest -------------------------------
(***************************************************************************)
(* A submission of internal/ingest on its way to the AI service: Submit    *)
(* stores the file, then writes the rows and the dispatch job in one       *)
(* transaction; the outbox hands the job to asynq (JobDelivery, which      *)
(* Outbox implements); workers run Dispatch, and asynq runs what failed    *)
(* again; Redispatch is the retry button of the panel.                     *)
(*                                                                         *)
(* One submission: what others do touches other rows.  The catalogue rows  *)
(* of the transaction stand or fall with the submission's row.             *)
(***************************************************************************)
EXTENDS Naturals

CONSTANTS
    First,          \* the job of Submit
    Retries,        \* calls of Redispatch, and the job each would write
    MaxRetry,       \* of the job: asynq attempts beyond the first
    MaxRefusals,    \* MaxDispatchAttempts of the relay
    MaxDuplicates,  \* bound on the further deliveries of one job
    MaxFaults       \* bound on deaths and failed status updates

Jobs == {First} \cup Retries

ASSUME FirstAssumption == First \notin Retries
ASSUME RetryAssumption ==
    /\ MaxRetry \in Nat /\ MaxFaults \in Nat
    /\ MaxRefusals \in Nat \ {0} /\ MaxDuplicates \in Nat

VARIABLES
    submit,         \* how far Submit is
    stored,         \* the object store has the PDF
    dispatch,       \* dispatch_status, "none" without a row
    job, delivered, declined,   \* the outbox
    task,           \* each delivery in asynq, and the attempt that runs it
    retry,          \* how far each Redispatch is
    configured,     \* the worker knows the AI service's address
    ai,             \* the AI service was told of the book
    faults

Queue == INSTANCE JobDelivery WITH refused <- declined

submitVars == <<submit, stored>>
queueVars  == <<job, delivered, declined>>
ingestVars == <<submitVars, dispatch, queueVars, task, retry, configured, ai, faults>>

Tasks == Jobs \X (1..MaxDuplicates + 1)

\* "unrecorded" is archived too: the attempt that ended it wrote no status.
Task == [at: {"absent", "waiting", "read", "unaddressed", "accepted", "rejected",
              "done", "archived", "unrecorded"},
         retried: 0..MaxRetry]

SubmissionTypeOK ==
    /\ submit \in {"idle", "uploaded", "committed", "undone"}
    /\ stored \in BOOLEAN /\ configured \in BOOLEAN /\ ai \in BOOLEAN
    /\ dispatch \in {"none", "pending", "dispatched", "failed"}
    /\ job \in [Jobs -> {"none", "promised", "closed", "parked"}]
    /\ delivered \in [Jobs -> 0..MaxDuplicates + 1]
    /\ declined \in [Jobs -> 0..MaxRefusals]
    /\ task \in [Tasks -> Task]
    /\ retry \in [Retries -> {"idle", "marked", "queued", "merged", "late", "dead"}]
    /\ faults \in 0..MaxFaults

SubmissionInit ==
    /\ submit = "idle"
    /\ stored = FALSE
    /\ dispatch = "none"
    /\ Queue!Init
    /\ task = [t \in Tasks |-> [at |-> "absent", retried |-> 0]]
    /\ retry = [c \in Retries |-> "idle"]
    /\ configured \in BOOLEAN
    /\ ai = FALSE
    /\ faults = 0

Fault == faults < MaxFaults /\ faults' = faults + 1

-----------------------------------------------------------------------------
\* Submit: PutObject comes before the transaction.
Upload ==
    /\ submit = "idle"
    /\ submit' = "uploaded"
    /\ stored' = TRUE
    /\ UNCHANGED <<dispatch, queueVars, task, retry, configured, ai, faults>>

CommitSubmission ==
    /\ submit = "uploaded"
    /\ submit' = "committed"
    /\ dispatch' = "pending"
    /\ Queue!Promise(First)
    /\ UNCHANGED <<stored, task, retry, configured, ai, faults>>

\* What was stored stays: "a few megabytes of garbage in a bucket".
UndoSubmission ==
    /\ submit = "uploaded"
    /\ submit' = "undone"
    /\ UNCHANGED <<stored, dispatch, queueVars, task, retry, configured, ai, faults>>

\* Redispatch: the row, in a statement of its own.
MarkDispatchPending(c) ==
    /\ retry[c] = "idle" /\ dispatch # "none"
    /\ retry' = [retry EXCEPT ![c] = "marked"]
    /\ dispatch' = "pending"
    /\ UNCHANGED <<submitVars, queueVars, task, configured, ai, faults>>

\* Then the job; the dedupe key is the submission's id.  A twin that is pending
\* may have been handed over already.
EnqueueTask(c) ==
    LET twins == {j \in Jobs : job[j] = "promised"} IN
    /\ retry[c] = "marked"
    /\ IF twins = {}
       THEN Queue!Promise(c) /\ retry' = [retry EXCEPT ![c] = "queued"]
       ELSE /\ retry' = [retry EXCEPT ![c] = IF \E j \in twins : delivered[j] = 0 THEN "merged" ELSE "late"]
            /\ UNCHANGED queueVars
    /\ UNCHANGED <<submitVars, dispatch, task, configured, ai, faults>>

\* The API server dies, or the insert fails, between the two statements.
DieMarked(c) ==
    /\ retry[c] = "marked"
    /\ Fault
    /\ retry' = [retry EXCEPT ![c] = "dead"]
    /\ UNCHANGED <<submitVars, dispatch, queueVars, task, configured, ai>>

-----------------------------------------------------------------------------
Deliver(j) ==
    /\ delivered[j] <= MaxDuplicates
    /\ delivered[j] > 0 => \A i \in Jobs \ {j} : delivered[i] <= 1
    /\ Queue!Deliver(j)
    /\ task' = [task EXCEPT ![<<j, delivered[j] + 1>>].at = "waiting"]
    /\ UNCHANGED <<submitVars, dispatch, retry, configured, ai, faults>>

\* Also of a job that was delivered: the answer was lost.
RefuseJob(j) ==
    /\ declined[j] < MaxRefusals
    /\ Queue!Refuse(j)
    /\ UNCHANGED <<submitVars, dispatch, task, retry, configured, ai, faults>>

Leave(j) ==
    /\ Queue!Leave({j})
    /\ UNCHANGED <<submitVars, dispatch, task, retry, configured, ai, faults>>

Goto(t, at) == task' = [task EXCEPT ![t].at = at]

\* asynq runs a task again until its retries are used up.
RetryTask(t, end) ==
    task' = [task EXCEPT ![t] = IF @.retried < MaxRetry
                                THEN [at |-> "waiting", retried |-> @.retried + 1]
                                ELSE [@ EXCEPT !.at = end]]

\* Dispatch reads the submission and looks for the address.
Start(t) ==
    /\ task[t].at = "waiting"
    /\ Goto(t, IF configured THEN "read" ELSE "unaddressed")
    /\ UNCHANGED <<submitVars, dispatch, queueVars, retry, configured, ai, faults>>

\* Without an address it is over: SkipRetry.
StopUnaddressed(t) ==
    /\ task[t].at = "unaddressed"
    /\ dispatch' = "failed"
    /\ Goto(t, "archived")
    /\ UNCHANGED <<submitVars, queueVars, retry, configured, ai, faults>>

\* Also when the status update fails: its error is dropped.
StopUnrecorded(t) ==
    /\ task[t].at = "unaddressed"
    /\ Fault
    /\ Goto(t, "unrecorded")
    /\ UNCHANGED <<submitVars, dispatch, queueVars, retry, configured, ai>>

\* Any answer taken for a success.
StartProcessingUnchecked(t) ==
    /\ task[t].at = "read"
    /\ \E heard \in BOOLEAN : ai' = (ai \/ heard)
    /\ Goto(t, "accepted")
    /\ UNCHANGED <<submitVars, dispatch, queueVars, retry, configured, faults>>

\* 2xx or 409 is a success; what fails or times out may have been heard.
StartProcessing(t) ==
    /\ task[t].at = "read"
    /\ \E heard, answered \in BOOLEAN :
          /\ ai' = (ai \/ heard)
          /\ Goto(t, IF heard /\ answered THEN "accepted" ELSE "rejected")
    /\ UNCHANGED <<submitVars, dispatch, queueVars, retry, configured, faults>>

MarkSubmissionDispatched(t) ==
    /\ task[t].at = "accepted"
    /\ dispatch' = "dispatched"
    /\ Goto(t, "done")
    /\ UNCHANGED <<submitVars, queueVars, retry, configured, ai, faults>>

\* An error that is returned without being recorded.
RetryUnmarked(t) ==
    /\ task[t].at = "rejected"
    /\ RetryTask(t, "archived")
    /\ UNCHANGED <<submitVars, dispatch, queueVars, retry, configured, ai, faults>>

\* Whatever the status says by now.
MarkDispatchFailed(t) ==
    /\ task[t].at = "rejected"
    /\ dispatch' = "failed"
    /\ RetryTask(t, "archived")
    /\ UNCHANGED <<submitVars, queueVars, retry, configured, ai, faults>>

\* The worker dies, the submission cannot be read, or the status update fails (the
\* error of MarkDispatchFailed is dropped, that of MarkDispatched is returned).
DieWorking(t) ==
    /\ task[t].at \in {"waiting", "read", "unaddressed", "accepted", "rejected"}
    /\ Fault
    /\ RetryTask(t, "unrecorded")
    /\ UNCHANGED <<submitVars, dispatch, queueVars, retry, configured, ai>>

\* The operator sets the address and starts the workers again.
Configure ==
    /\ ~ configured
    /\ configured' = TRUE
    /\ UNCHANGED <<submitVars, dispatch, queueVars, task, retry, ai, faults>>

Relay(j) == Deliver(j) \/ RefuseJob(j) \/ Leave(j)
Work(t) ==
    \/ Start(t) \/ StopUnaddressed(t)
    \/ StartProcessing(t) \/ MarkSubmissionDispatched(t) \/ MarkDispatchFailed(t)

SubmissionNext ==
    \/ Upload \/ CommitSubmission \/ UndoSubmission
    \/ \E c \in Retries : MarkDispatchPending(c) \/ EnqueueTask(c) \/ DieMarked(c)
    \/ \E j \in Jobs : Relay(j)
    \/ \E t \in Tasks : Work(t) \/ StopUnrecorded(t) \/ DieWorking(t)
    \/ Configure

SubmissionSpec == SubmissionInit /\ [][SubmissionNext]_ingestVars

\* The relay and the workers poll for ever, and a call that was received goes on.
SubmissionFairness ==
    /\ \A c \in Retries : WF_ingestVars(EnqueueTask(c))
    /\ \A j \in Jobs : WF_ingestVars(Relay(j))
    /\ \A t \in Tasks : WF_ingestVars(Work(t))

FairSubmission == SubmissionSpec /\ SubmissionFairness

-----------------------------------------------------------------------------
\* The AI service is told only of a book whose row is committed and whose file is
\* stored, and a submission says "dispatched" only if it was told, whatever
\* attempts and retries overlap (Submit, Dispatch).
HandoffIsComplete ==
    /\ ai => stored /\ dispatch # "none"
    /\ dispatch = "dispatched" => ai

\* "it cannot be lost between the file is recorded and the AI service was told": a
\* pending submission is dispatched or failed in the end, unless its job was
\* parked, a task of it was archived with no status written (every attempt died or
\* failed to write it, or the one that found no address did), or a Redispatch died
\* after its first statement or had its job dropped for one already handed over.
SubmissionSettles ==
    dispatch = "pending" ~> \/ dispatch \in {"dispatched", "failed"}
                          \/ \E j \in Jobs : job[j] = "parked"
                          \/ \E t \in Tasks : task[t].at = "unrecorded"
                          \/ \E c \in Retries : retry[c] \in {"dead", "late"}
=============================================================================
