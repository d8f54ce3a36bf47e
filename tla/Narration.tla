----------------------------- MODULE Narration -----------------------------
(***************************************************************************)
(* Narrations of internal/ingest: the AI service writes audio files in its *)
(* own time and calls nobody back, so a periodic sweep and an editor's     *)
(* button run SyncAudio, which reads the submission and the files, builds  *)
(* one continuous file and then publishes it with its chapters in one      *)
(* transaction.                                                            *)
(*                                                                         *)
(* Every book asked for narration and was accepted (Ingest).  The AI       *)
(* service may narrate a part again under its old key.  The chapters of an *)
(* edition are the parts, with their version, they were computed from;     *)
(* the signature tells these apart too.                                    *)
(***************************************************************************)
EXTENDS Naturals, Sequences, FiniteSets

CONSTANTS
    Books,          \* numbered by created_at
    Parts,          \* numbered by chapter
    MaxVersion,     \* bound on narrations of one part
    Sweeps, Editors,
    Batch,          \* AudioSweepBatch
    Broken,         \* books whose files cannot be built: no duration, mixed codecs
    MaxFaults       \* bound on builds that fail or die for another reason

ASSUME BooksAssumption == Books \subseteq Nat /\ IsFiniteSet(Books) /\ Broken \subseteq Books
ASSUME NumberAssumption == Batch \in Nat \ {0} /\ MaxVersion \in Nat \ {0} /\ MaxFaults \in Nat

VARIABLES
    audio,          \* public.audio_assets of the AI service: an Asset for each part
    submission,     \* audio_status and audio_signature: a Submission for each book
    edition,        \* catalog edition, its chapters and its asset's key
    joined,         \* the files that the object under each book's edition key holds
    sync,           \* calls of SyncAudio: a Sync for each of Syncs
    faults,
    disturbed       \* history: books re-narrated, or whose builds overlapped or were cut off

vars == <<audio, submission, edition, joined, sync, faults, disturbed>>

Syncs == Sweeps \cup Editors
Files == Parts \X (1..MaxVersion)

Asset == [version: 0..MaxVersion, ready: BOOLEAN]

Submission == [status: {"pending", "synced", "failed"}, signature: SUBSET Files]

\* No edition, the joined file, or a part's file where it lies.
Edition == [key: {"none", "joined", "part"}, chapters: SUBSET Files]

Sync == [at: {"idle", "next", "read", "build", "put", "commit", "fail"},
         todo: Seq(Books), seen: Submission, parts: SUBSET Files, file: SUBSET Files]

TypeOK ==
    /\ audio \in [Books -> [Parts -> Asset]]
    /\ submission \in [Books -> Submission]
    /\ edition \in [Books -> Edition]
    /\ joined \in [Books -> SUBSET Files]
    /\ sync \in [Syncs -> Sync]
    /\ \A s \in Syncs : sync[s].at = "idle" <=> sync[s].todo = <<>>
    /\ faults \in 0..MaxFaults
    /\ disturbed \subseteq Books

-----------------------------------------------------------------------------
Unread == [status |-> "pending", signature |-> {}]

Fresh(at, todo) == [at |-> at, todo |-> todo, seen |-> Unread, parts |-> {}, file |-> {}]

Idle == Fresh("idle", <<>>)

Init ==
    /\ audio = [b \in Books |-> [p \in Parts |-> [version |-> 0, ready |-> FALSE]]]
    /\ submission = [b \in Books |-> Unread]
    /\ edition = [b \in Books |-> [key |-> "none", chapters |-> {}]]
    /\ joined = [b \in Books |-> {}]
    /\ sync = [s \in Syncs |-> Idle]
    /\ faults = 0
    /\ disturbed = {}

\* readyParts.
ReadyParts(b) == {f \in Files : audio[b][f[1]] = [version |-> f[2], ready |-> TRUE]}

\* What reading the keys of these parts gives by now.
Content(b, parts) == {f \in Files : audio[b][f[1]].version = f[2] /\ \E g \in parts : g[1] = f[1]}

\* The AI service starts a file, and finishes it.
StartPart(b, p) ==
    /\ audio[b][p].version = 0
    /\ audio' = [audio EXCEPT ![b][p].version = 1]
    /\ UNCHANGED <<submission, edition, joined, sync, faults, disturbed>>

FinishPart(b, p) ==
    /\ audio[b][p].version > 0 /\ ~ audio[b][p].ready
    /\ audio' = [audio EXCEPT ![b][p].ready = TRUE]
    /\ UNCHANGED <<submission, edition, joined, sync, faults, disturbed>>

\* A part is narrated again.
Renarrate(b, p) ==
    /\ audio[b][p].ready /\ audio[b][p].version < MaxVersion
    /\ audio' = [audio EXCEPT ![b][p].version = @ + 1]
    /\ disturbed' = disturbed \cup {b}
    /\ UNCHANGED <<submission, edition, joined, sync, faults>>

-----------------------------------------------------------------------------
\* Only books that were never tried.
CandidatesNew ==
    {b \in Books : submission[b].status = "pending" /\ \E p \in Parts : audio[b][p].version > 0}

\* ListAudioSyncCandidates.
Candidates ==
    {b \in Books : submission[b].status \in {"pending", "failed"} /\ \E p \in Parts : audio[b][p].version > 0}

\* Lists of the n oldest of S, or of all of them, the oldest first.
Oldest(S, n) ==
    {list \in UNION {[1..k -> S] : k \in 1..n} :
        /\ \A i, j \in DOMAIN list : i < j => list[i] < list[j]
        /\ \A b \in S : (\E i \in DOMAIN list : list[i] = b) \/ (n \in DOMAIN list /\ list[n] < b)}

Sweep(s) ==
    /\ sync[s].at = "idle"
    /\ \E list \in Oldest(Candidates, Batch) :
          sync' = [sync EXCEPT ![s].at = "next", ![s].todo = list]
    /\ UNCHANGED <<audio, submission, edition, joined, faults, disturbed>>

SyncNow(s, b) ==
    /\ sync[s].at = "idle"
    /\ sync' = [sync EXCEPT ![s].at = "next", ![s].todo = <<b>>]
    /\ UNCHANGED <<audio, submission, edition, joined, faults, disturbed>>

Book(s) == Head(sync[s].todo)

\* The next book of the sweep, or the end of it.
Proceed(s) ==
    sync' = [sync EXCEPT ![s] =
        IF Len(@.todo) > 1 THEN Fresh("next", Tail(@.todo)) ELSE Idle]

GetSubmission(s) ==
    /\ sync[s].at = "next"
    /\ sync' = [sync EXCEPT ![s].at = "read", ![s].seen = submission[Book(s)]]
    /\ UNCHANGED <<audio, submission, edition, joined, faults, disturbed>>


\* Nothing is ready (ErrNoAudioYet), nothing has changed, or there is work.
ListParts(s) ==
    LET ready == ReadyParts(Book(s)) IN
    /\ sync[s].at = "read"
    /\ IF ready = {} \/ (sync[s].seen.status = "synced" /\ sync[s].seen.signature = ready)
       THEN Proceed(s)
       ELSE sync' = [sync EXCEPT ![s].at = "build", ![s].parts = ready]
    /\ UNCHANGED <<audio, submission, edition, joined, faults, disturbed>>

\* materialise: a single part is used where it lies, several are downloaded.
Materialise(s) ==
    /\ sync[s].at = "build"
    /\ sync' = IF Book(s) \in Broken THEN [sync EXCEPT ![s].at = "fail"]
               ELSE IF Cardinality(sync[s].parts) = 1 THEN [sync EXCEPT ![s].at = "commit"]
               ELSE [sync EXCEPT ![s].at = "put", ![s].file = Content(Book(s), sync[s].parts)]
    /\ UNCHANGED <<audio, submission, edition, joined, faults, disturbed>>

\* Calls that may yet publish what they have built or are building.
Building(b) == {s \in Syncs : sync[s].at \in {"put", "commit"} /\ Book(s) = b}

\* The upload left for later.
PutNothing(s) ==
    /\ sync[s].at = "put"
    /\ disturbed' = IF Building(Book(s)) = {s} THEN disturbed ELSE disturbed \cup {Book(s)}
    /\ sync' = [sync EXCEPT ![s].at = "commit"]
    /\ UNCHANGED <<audio, submission, edition, joined, faults>>

\* The joined file of a book has one key, and is written in place.
PutJoined(s) ==
    /\ sync[s].at = "put"
    /\ joined' = [joined EXCEPT ![Book(s)] = sync[s].file]
    /\ disturbed' = IF Building(Book(s)) = {s} THEN disturbed ELSE disturbed \cup {Book(s)}
    /\ sync' = [sync EXCEPT ![s].at = "commit"]
    /\ UNCHANGED <<audio, submission, edition, faults>>

\* The transaction: edition, chapters, asset and signature.
Publish(s) ==
    LET b == Book(s) IN
    /\ sync[s].at = "commit"
    /\ edition' = [edition EXCEPT ![b] =
           [key |-> IF Cardinality(sync[s].parts) = 1 THEN "part" ELSE "joined",
            chapters |-> sync[s].parts]]
    /\ submission' = [submission EXCEPT ![b] = [status |-> "synced", signature |-> sync[s].parts]]
    /\ Proceed(s)
    /\ UNCHANGED <<audio, joined, faults, disturbed>>

\* A build that fails, or a transaction that does.
Fail(s) ==
    /\ sync[s].at \in {"build", "put", "commit"}
    /\ faults < MaxFaults
    /\ faults' = faults + 1
    /\ sync' = [sync EXCEPT ![s].at = "fail"]
    /\ disturbed' = IF sync[s].at = "commit" THEN disturbed \cup {Book(s)} ELSE disturbed
    /\ UNCHANGED <<audio, submission, edition, joined>>

\* Whatever the status says by now.
MarkAudioFailed(s) ==
    /\ sync[s].at = "fail"
    /\ submission' = [submission EXCEPT ![Book(s)].status = "failed"]
    /\ Proceed(s)
    /\ UNCHANGED <<audio, edition, joined, faults, disturbed>>

\* The worker or the API server dies.
Die(s) ==
    /\ sync[s].at # "idle"
    /\ faults < MaxFaults
    /\ faults' = faults + 1
    /\ sync' = [sync EXCEPT ![s] = Idle]
    /\ disturbed' = IF sync[s].at = "commit" THEN disturbed \cup {Book(s)} ELSE disturbed
    /\ UNCHANGED <<audio, submission, edition, joined>>

SyncAudio(s) ==
    GetSubmission(s) \/ ListParts(s) \/ Materialise(s) \/ PutJoined(s) \/ Publish(s) \/ MarkAudioFailed(s)

Next ==
    \/ \E b \in Books, p \in Parts : StartPart(b, p) \/ FinishPart(b, p) \/ Renarrate(b, p)
    \/ \E s \in Sweeps : Sweep(s)
    \/ \E s \in Editors, b \in Books : SyncNow(s, b)
    \/ \E s \in Syncs : SyncAudio(s) \/ Fail(s) \/ Die(s)

Spec == Init /\ [][Next]_vars

\* The scheduler starts a sweep every two minutes, and what was started goes on.
\* Neither the AI service nor an editor has to do anything.
Fairness ==
    /\ \A s \in Sweeps : WF_vars(Sweep(s))
    /\ \A s \in Syncs : WF_vars(SyncAudio(s))

FairSpec == Spec /\ Fairness

-----------------------------------------------------------------------------
\* A book is published only with a file behind it, the one its chapters were
\* computed from, unless a part was narrated again, two builds of the book
\* overlapped, or one was cut off between its upload and its transaction; or the
\* transaction of the upload is still to come (SyncAudio).
FileMatchesChapters ==
    \A b \in Books \ disturbed :
        edition[b].key = "joined" /\ (\A s \in Building(b) : sync[s].at # "commit") =>
            joined[b] = edition[b].chapters

\* What may be ready of a book: of each part one narration, or none.
Narrations == {R \in SUBSET Files : \A f, g \in R : f[1] = g[1] => f = g}


\* "SyncAudioSweep syncs every submission that is waiting for narration": a book
\* with a finished part ends up synced and stays so, through failures, deaths and
\* the editor's own syncs, as long as a batch takes every book.
NarrationArrives ==
    <>[](\A b \in Books \ Broken : ReadyParts(b) # {} => submission[b].status = "synced")
=============================================================================
