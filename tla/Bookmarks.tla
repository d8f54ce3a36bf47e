----------------------------- MODULE Bookmarks -----------------------------
(***************************************************************************)
(* The bookmarks of one listener in one edition and their smart summaries  *)
(* (internal/library): AddBookmark writes the row and a summary job in one *)
(* transaction, the outbox hands the job to asynq (JobDelivery), workers   *)
(* run SummarizeBookmarkHandler, and asynq runs what failed again.  The    *)
(* listener may bookmark a spot again, or delete it, at any time.          *)
(*                                                                         *)
(* A call of AddBookmark is a tap.  It names the job it would write and,   *)
(* when it inserts one, the row.                                           *)
(***************************************************************************)
EXTENDS Naturals, FiniteSets

CONSTANTS
    Taps,           \* calls of AddBookmark
    Spots,          \* positions in the edition
    Nothing,        \* no row
    MaxRetry,       \* of the job: asynq attempts beyond the first
    MaxRefusals,    \* MaxDispatchAttempts of the relay
    MaxDuplicates,  \* bound on the further deliveries of a job; one job alone has any
    MaxDeaths       \* bound on the deaths of workers

ASSUME TapsAssumption == Nothing \notin Taps /\ IsFiniteSet(Taps)
ASSUME RetryAssumption ==
    /\ MaxRetry \in Nat /\ MaxDeaths \in Nat
    /\ MaxRefusals \in Nat \ {0} /\ MaxDuplicates \in Nat

VARIABLES
    row,            \* the row at each spot: its id and its summary_status
    tap,            \* what each tap answered: the spot and the row's id
    job, delivered, refused,    \* the outbox
    task,           \* each delivery in asynq, and the attempt that runs it
    wasReady,       \* history: rows whose summary was once written
    orphaned,       \* history: rows whose worker died after it wrote a summary
    deaths

Queue == INSTANCE JobDelivery WITH Jobs <- Taps

queueVars == <<job, delivered, refused>>
history   == <<wasReady, orphaned>>
bookmarksVars == <<row, tap, queueVars, task, history, deaths>>

Tasks == Taps \X (1..MaxDuplicates + 1)

Row == [id : Taps \cup {Nothing}, status : {"none", "pending", "ready", "failed"}]

Task == [at : {"absent", "waiting", "written", "over", "unrecorded"},
         retried : 0..MaxRetry]

Empty == [id |-> Nothing, status |-> "none"]

BookmarksTypeOK ==
    /\ row \in [Spots -> Row]
    /\ tap \in [Taps -> [spot : Spots, id : Taps \cup {Nothing}]]
    /\ job \in [Taps -> {"none", "promised", "closed", "parked"}]
    /\ delivered \in [Taps -> 0..MaxDuplicates + 1]
    /\ refused \in [Taps -> 0..MaxRefusals]
    /\ task \in [Tasks -> Task]
    /\ wasReady \subseteq Taps /\ orphaned \subseteq Taps
    /\ deaths \in 0..MaxDeaths

BookmarksInit ==
    /\ row = [s \in Spots |-> Empty]
    /\ tap \in [Taps -> [spot : Spots, id : {Nothing}]]
    /\ Queue!Init
    /\ task = [k \in Tasks |-> [at |-> "absent", retried |-> 0]]
    /\ wasReady = {} /\ orphaned = {}
    /\ deaths = 0

-----------------------------------------------------------------------------
(* The listener *)

\* The unique index on the spot: a row that is there keeps its id and summary.
Upserted(t) ==
    LET r == row[tap[t].spot]
    IN  IF r.id = Nothing THEN [id |-> t, status |-> "pending"] ELSE r

\* Jobs of a row that the outbox still owes; the dedupe key is the row's id.
Twins(id) == {j \in Taps : job[j] = "promised" /\ tap[j].id = id}

AddBookmark(t) ==
    LET r == Upserted(t) IN
    /\ tap[t].id = Nothing
    /\ row' = [row EXCEPT ![tap[t].spot] = r]
    /\ tap' = [tap EXCEPT ![t].id = r.id]
    /\ IF Twins(r.id) = {} THEN Queue!Promise(t) ELSE UNCHANGED queueVars
    /\ UNCHANGED <<task, history, deaths>>

\* The job already written stays.
DeleteBookmark(s) ==
    /\ row[s].id # Nothing
    /\ row' = [row EXCEPT ![s] = Empty]
    /\ UNCHANGED <<tap, queueVars, task, history, deaths>>

-----------------------------------------------------------------------------
(* Outbox and asynq *)

Deliver(j) ==
    /\ delivered[j] <= MaxDuplicates
    /\ delivered[j] > 0 => \A i \in Taps \ {j} : delivered[i] <= 1
    /\ Queue!Deliver(j)
    /\ task' = [task EXCEPT ![<<j, delivered[j] + 1>>].at = "waiting"]
    /\ UNCHANGED <<row, tap, history, deaths>>

\* A task whose answer was lost is a delivery and then an error.
Refuse(j) ==
    /\ refused[j] < MaxRefusals
    /\ Queue!Refuse(j)
    /\ UNCHANGED <<row, tap, task, history, deaths>>

Leave(j) ==
    /\ Queue!Leave({j})
    /\ UNCHANGED <<row, tap, task, history, deaths>>

Goto(k, at) == task' = [task EXCEPT ![k].at = at]

\* Nobody asks how often a task was retried that is completed, or archived.
Over(end) == [at |-> end, retried |-> 0]

\* asynq runs a task again until its retries are used up, then archives it; "unrecorded"
\* if its last attempt ended before it wrote an outcome.
RetryTask(k, end) ==
    task' = [task EXCEPT ![k] = IF @.retried < MaxRetry
                                THEN [at |-> "waiting", retried |-> @.retried + 1]
                                ELSE Over(end)]

\* Mutant: the row is found by its position.
TargetAtSpot(k) == {s \in Spots : s = tap[k[1]].spot /\ row[s].id # Nothing}

\* Spots whose row has the id the job carries: one, or none once it is deleted.
Target(k) == {s \in Spots : row[s].id = tap[k[1]].id}

\* SetBookmarkSummary: an UPDATE that finds no row is an error.
SetSummary(k, status) ==
    /\ row' = [s \in Spots |-> IF s \in Target(k) THEN [row[s] EXCEPT !.status = status] ELSE row[s]]
    /\ wasReady' = IF status = "ready" /\ Target(k) # {} THEN wasReady \cup {tap[k[1]].id} ELSE wasReady

\* A text around the spot and an answer of the gateway make a summary; without a
\* text, or a gateway (ErrNotImplemented), there is none.
Summarize(k) ==
    /\ task[k].at = "waiting"
    /\ \E status \in {"ready", "none"} : SetSummary(k, status)
    /\ IF Target(k) # {} THEN Goto(k, "written") ELSE RetryTask(k, "over")
    /\ UNCHANGED <<tap, queueVars, orphaned, deaths>>

\* Mutant: the failure is returned and not recorded.
FailUnrecorded(k) ==
    /\ task[k].at = "waiting"
    /\ RetryTask(k, "over")
    /\ UNCHANGED <<row, tap, queueVars, history, deaths>>

\* TranscriptWindow or CompleteText fails.
FailSummary(k) ==
    /\ task[k].at = "waiting"
    /\ SetSummary(k, "failed")
    /\ RetryTask(k, "over")
    /\ UNCHANGED <<tap, queueVars, orphaned, deaths>>

Acknowledge(k) ==
    /\ task[k].at = "written"
    /\ task' = [task EXCEPT ![k] = Over("over")]
    /\ UNCHANGED <<row, tap, queueVars, history, deaths>>

\* The worker dies before or after its UPDATE, or the UPDATE fails, that of fail() too.
DieWorking(k) ==
    /\ task[k].at \in {"waiting", "written"}
    /\ deaths < MaxDeaths
    /\ deaths' = deaths + 1
    /\ RetryTask(k, IF task[k].at = "waiting" THEN "unrecorded" ELSE "over")
    /\ orphaned' = IF task[k].at = "written" THEN orphaned \cup {tap[k[1]].id} ELSE orphaned
    /\ UNCHANGED <<row, tap, queueVars, wasReady>>

-----------------------------------------------------------------------------
Relay(j) == Deliver(j) \/ Refuse(j) \/ Leave(j)

Work(k) == Summarize(k) \/ FailSummary(k) \/ Acknowledge(k)

BookmarksNext ==
    \/ \E t \in Taps : AddBookmark(t)
    \/ \E s \in Spots : DeleteBookmark(s)
    \/ \E j \in Taps : Relay(j)
    \/ \E k \in Tasks : Work(k) \/ DieWorking(k)

BookmarksSpec == BookmarksInit /\ [][BookmarksNext]_bookmarksVars

\* The relay and the workers poll for ever.
BookmarksFairness ==
    /\ \A j \in Taps : WF_bookmarksVars(Relay(j))
    /\ \A k \in Tasks : WF_bookmarksVars(Work(k))

FairBookmarks == BookmarksSpec /\ BookmarksFairness

-----------------------------------------------------------------------------
\* Every job of the row has left the outbox, and none ran to an outcome: it was
\* parked, or each attempt at it died or could not write.
Abandoned(id) ==
    \A j \in Taps : tap[j].id = id =>
        /\ job[j] # "promised"
        /\ \A n \in 1..MaxDuplicates + 1 : task[<<j, n>>].at \in {"absent", "unrecorded"}

\* A "spinner that never resolves" only by the worst of luck: a row that waits for its
\* summary gets one, or an outcome without one, or is deleted, or is abandoned
\* (AddBookmark, ProcessTask).
SummarySettles ==
    \A s \in Spots, t \in Taps :
        row[s] = [id |-> t, status |-> "pending"] ~>
            row[s] # [id |-> t, status |-> "pending"] \/ Abandoned(t)

\* A summary that was there is lost only to a job that ran once more: the spot was
\* bookmarked again, the job was handed over twice, or its worker died before it
\* could acknowledge (SetBookmarkSummary, ProcessTask).
SummaryIsKept ==
    \A s \in Spots : LET id == row[s].id IN
        id \in wasReady /\ row[s].status # "ready" =>
            \/ Cardinality({t \in Taps : tap[t].id = id}) > 1
            \/ delivered[id] > 1
            \/ id \in orphaned
=============================================================================
