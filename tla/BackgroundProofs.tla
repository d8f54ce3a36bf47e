-------------------------- MODULE BackgroundProofs --------------------------
(***************************************************************************)
(* Theorems of Narration and of Bookmarks, for any number of books, parts, *)
(* sweeps, taps and faults.  The two share nothing but this module: their  *)
(* variables are different ones, and a theorem speaks of one specification *)
(* only.                                                                   *)
(***************************************************************************)
EXTENDS Narration, Bookmarks, FiniteSetTheorems, TLAPS

-----------------------------------------------------------------------------
(* Narrations *)

USE NumberAssumption

\* What a build works on is what the AI service has, unless a part was narrated
\* again; and once it is uploaded, it is what the object holds.
BuildsAreCurrent ==
    \A s \in Syncs : sync[s].at \in {"build", "put", "commit"} /\ Book(s) \notin disturbed =>
        /\ \A f \in sync[s].parts : audio[Book(s)][f[1]].version = f[2]
        /\ sync[s].at = "put" => sync[s].file = sync[s].parts
        /\ sync[s].at = "commit" /\ Cardinality(sync[s].parts) # 1 =>
              joined[Book(s)] = sync[s].parts

NarrationInv == TypeOK /\ BuildsAreCurrent /\ FileMatchesChapters

\* At first nothing is narrated, read or joined.
LEMMA NarrationInit == Init => NarrationInv
<1> SUFFICES ASSUME Init PROVE NarrationInv
  OBVIOUS
<1>1. Unread \in Submission /\ Unread.signature = {}
  BY DEF Unread, Submission
<1>2. Idle \in Sync /\ Idle.at = "idle" /\ Idle.todo = <<>>
  BY <1>1 DEF Fresh, Idle, Sync
<1>3. /\ [version |-> 0, ready |-> FALSE] \in Asset
      /\ [key |-> "none", chapters |-> {}] \in Edition
  BY DEF Asset, Edition
<1>4. TypeOK
  BY <1>1, <1>2, <1>3 DEF Init, TypeOK
<1>6. BuildsAreCurrent
  <2>1. \A s \in Syncs : sync[s].at = "idle"
    BY <1>2 DEF Init
  <2> QED
    BY <2>1 DEF BuildsAreCurrent
<1>7. FileMatchesChapters
  <2> SUFFICES ASSUME NEW b \in Books PROVE edition[b].key # "joined"
    BY DEF FileMatchesChapters
  <2>1. edition[b] = [key |-> "none", chapters |-> {}]
    BY DEF Init
  <2> QED
    BY <2>1
<1> QED
  BY <1>4, <1>6, <1>7 DEF NarrationInv

\* A call at work has a book.
LEMMA HasBook ==
    ASSUME TypeOK, NEW s \in Syncs, sync[s].at # "idle"
    PROVE  sync[s].todo \in Seq(Books) /\ sync[s].todo # <<>> /\ Book(s) \in Books
<1>1. sync[s] \in Sync /\ sync[s].todo # <<>>
  BY DEF TypeOK
<1>2. sync[s].todo \in Seq(Books)
  BY <1>1 DEF Sync
<1> QED
  BY <1>1, <1>2 DEF Book

\* A call that has nothing read.
LEMMA FreshIsSync ==
    ASSUME NEW at \in {"idle", "next"}, NEW todo \in Seq(Books)
    PROVE  /\ Fresh(at, todo) \in Sync
           /\ Fresh(at, todo).at = at /\ Fresh(at, todo).todo = todo
<1>1. Unread \in Submission
  BY DEF Unread, Submission
<1> QED
  BY <1>1 DEF Fresh, Sync

\* The next book of a call, or the end of it, begins with nothing read.
LEMMA ProceedStep ==
    ASSUME TypeOK, NEW s \in Syncs, sync[s].at # "idle", Proceed(s)
    PROVE  /\ sync' \in [Syncs -> Sync]
           /\ \A t \in Syncs : sync'[t].at = "idle" <=> sync'[t].todo = <<>>
           /\ sync'[s].at \in {"idle", "next"}
           /\ \A t \in Syncs \ {s} : sync'[t] = sync[t]
<1>1. /\ sync \in [Syncs -> Sync]
      /\ sync[s] \in Sync
      /\ sync[s].todo \in Seq(Books)
      /\ sync[s].todo # <<>>
  BY HasBook DEF TypeOK
<1>3. Idle \in Sync /\ Idle.at = "idle" /\ Idle.todo = <<>>
  <2>1. <<>> \in Seq(Books)
    OBVIOUS
  <2> QED
    BY <2>1, FreshIsSync DEF Idle
<1>4. CASE Len(sync[s].todo) > 1
  <2> DEFINE rest == Tail(sync[s].todo)
  <2>1. sync' = [sync EXCEPT ![s] = Fresh("next", rest)]
    BY <1>4 DEF Proceed
  <2>2. rest \in Seq(Books) /\ Len(rest) = Len(sync[s].todo) - 1 /\ Len(sync[s].todo) \in Nat
    BY <1>1
  <2> HIDE DEF rest
  <2>3. rest # <<>>
    BY <1>4, <2>2, Len(<<>>) = 0
  <2>4. /\ Fresh("next", rest) \in Sync
        /\ Fresh("next", rest).at = "next"
        /\ Fresh("next", rest).todo # <<>>
    BY <2>2, <2>3, FreshIsSync
  <2> QED
    BY <1>1, <2>1, <2>4 DEF TypeOK
<1>5. CASE ~ (Len(sync[s].todo) > 1)
  <2>1. sync' = [sync EXCEPT ![s] = Idle]
    BY <1>5 DEF Proceed
  <2> QED
    BY <1>1, <1>3, <2>1 DEF TypeOK
<1> QED
  BY <1>4, <1>5

\* A call that changes nothing but itself, and is not about to publish before or
\* after, disturbs no build and no file.
LEMMA OtherBuildsGoOn ==
    ASSUME TypeOK, BuildsAreCurrent, FileMatchesChapters,
           NEW s \in Syncs, sync[s].at # "commit",
           sync'[s].at \notin {"build", "put", "commit"},
           \A t \in Syncs \ {s} : sync'[t] = sync[t],
           UNCHANGED <<audio, edition, joined, disturbed>>
    PROVE  BuildsAreCurrent' /\ FileMatchesChapters'
<1>1. BuildsAreCurrent'
  BY DEF BuildsAreCurrent, Book
<1>2. FileMatchesChapters'
  <2> SUFFICES ASSUME NEW b \in Books \ disturbed, edition[b].key = "joined",
                      \A t \in Building(b)' : sync'[t].at # "commit"
               PROVE  joined[b] = edition[b].chapters
    BY DEF FileMatchesChapters
  <2>1. ASSUME NEW t \in Building(b) PROVE sync[t].at # "commit"
    BY <2>1 DEF Building, Book
  <2> QED
    BY <2>1 DEF FileMatchesChapters
<1> QED
  BY <1>1, <1>2

\* The AI service goes on: what it redoes counts as disturbed.
LEMMA AudioStep ==
    ASSUME NarrationInv, NEW b \in Books, NEW p \in Parts,
           StartPart(b, p) \/ FinishPart(b, p) \/ Renarrate(b, p)
    PROVE  NarrationInv'
<1>0. TypeOK /\ BuildsAreCurrent /\ FileMatchesChapters
  BY DEF NarrationInv
<1>1. /\ UNCHANGED <<submission, edition, joined, sync, faults>>
      /\ disturbed \subseteq disturbed'
      /\ disturbed' \subseteq Books
  BY <1>0 DEF StartPart, FinishPart, Renarrate, TypeOK
<1>2. PICK new \in Asset :
         /\ audio' = [audio EXCEPT ![b][p] = new]
         /\ new.version # audio[b][p].version => audio[b][p].version = 0 \/ b \in disturbed'
  <2>0. audio[b][p] \in Asset
    BY <1>0 DEF TypeOK
  <2>1. CASE StartPart(b, p)
    <3>1. [audio[b][p] EXCEPT !.version = 1] \in Asset
      BY <2>0 DEF Asset
    <3> QED
      BY <2>1, <3>1 DEF StartPart
  <2>2. CASE FinishPart(b, p)
    <3>1. /\ [audio[b][p] EXCEPT !.ready = TRUE] \in Asset
          /\ [audio[b][p] EXCEPT !.ready = TRUE].version = audio[b][p].version
      BY <2>0 DEF Asset
    <3> QED
      BY <2>2, <3>1 DEF FinishPart
  <2>3. CASE Renarrate(b, p)
    <3>1. [audio[b][p] EXCEPT !.version = @ + 1] \in Asset
      BY <2>0, <2>3 DEF Asset, Renarrate
    <3> QED
      BY <2>3, <3>1 DEF Renarrate
  <2> QED
    BY <2>1, <2>2, <2>3
<1>3. TypeOK'
  <2>1. audio' \in [Books -> [Parts -> Asset]]
    BY <1>0, <1>2 DEF TypeOK
  <2> QED
    BY <1>0, <1>1, <2>1 DEF TypeOK
<1>5. BuildsAreCurrent'
  <2> SUFFICES ASSUME NEW s \in Syncs, sync[s].at \in {"build", "put", "commit"},
                      Book(s) \notin disturbed'
               PROVE  /\ \A f \in sync[s].parts : audio'[Book(s)][f[1]].version = f[2]
                      /\ sync[s].at = "put" => sync[s].file = sync[s].parts
                      /\ sync[s].at = "commit" /\ Cardinality(sync[s].parts) # 1 =>
                            joined[Book(s)] = sync[s].parts
    BY <1>1 DEF BuildsAreCurrent, Book
  <2>1. /\ \A f \in sync[s].parts : audio[Book(s)][f[1]].version = f[2]
        /\ sync[s].at = "put" => sync[s].file = sync[s].parts
        /\ sync[s].at = "commit" /\ Cardinality(sync[s].parts) # 1 => joined[Book(s)] = sync[s].parts
    BY <1>0, <1>1 DEF BuildsAreCurrent
  <2>2. Book(s) \in Books /\ sync[s].parts \subseteq Files
    BY <1>0, HasBook DEF TypeOK, Sync
  <2>3. ASSUME NEW f \in sync[s].parts PROVE audio'[Book(s)][f[1]].version = f[2]
    <3>1. f \in Parts \X (1..MaxVersion) /\ f[1] \in Parts /\ f[2] # 0
      BY <2>2 DEF Files
    <3>2. CASE Book(s) = b /\ f[1] = p
      <4>1. audio[b][p].version = f[2]
        BY <2>1, <3>2
      <4>2. audio'[b][p] = new
        BY <1>0, <1>2 DEF TypeOK
      <4> QED
        BY <1>2, <3>1, <3>2, <4>1, <4>2
    <3>3. CASE ~ (Book(s) = b /\ f[1] = p)
      <4>1. audio'[Book(s)][f[1]] = audio[Book(s)][f[1]]
        BY <1>0, <1>2, <2>2, <3>1, <3>3 DEF TypeOK
      <4> QED
        BY <2>1, <4>1
    <3> QED
      BY <3>2, <3>3
  <2> QED
    BY <2>1, <2>3
<1>6. FileMatchesChapters'
  BY <1>0, <1>1 DEF FileMatchesChapters, Building, Book
<1> QED
  BY <1>3, <1>5, <1>6 DEF NarrationInv

\* Whatever a call does to itself keeps its type.
LEMMA SyncTyped ==
    ASSUME TypeOK, NEW s \in Syncs, NEW new \in Sync, new.at = "idle" <=> new.todo = <<>>,
           sync' = [sync EXCEPT ![s] = new]
    PROVE  /\ sync' \in [Syncs -> Sync]
           /\ \A t \in Syncs : sync'[t].at = "idle" <=> sync'[t].todo = <<>>
           /\ sync'[s] = new
           /\ \A t \in Syncs \ {s} : sync'[t] = sync[t]
BY DEF TypeOK

\* Beginnings of a call, and its reads.
LEMMA BeginStep ==
    ASSUME NarrationInv, NEW s \in Syncs,
           Sweep(s) \/ (\E b \in Books : SyncNow(s, b)) \/ GetSubmission(s)
    PROVE  NarrationInv'
<1>0. TypeOK /\ BuildsAreCurrent /\ FileMatchesChapters
  BY DEF NarrationInv
<1>1. UNCHANGED <<audio, submission, edition, joined, faults, disturbed>>
  BY DEF Sweep, SyncNow, GetSubmission
<1>2. sync[s] \in Sync /\ sync[s].at \in {"idle", "next"}
  BY <1>0 DEF Sweep, SyncNow, GetSubmission, TypeOK
<1>3. PICK new \in Sync :
         /\ sync' = [sync EXCEPT ![s] = new]
         /\ new.at \in {"next", "read"} /\ new.todo # <<>>
  <2>1. ASSUME NEW todo \in Seq(Books), todo # <<>>,
               sync' = [sync EXCEPT ![s].at = "next", ![s].todo = todo]
        PROVE  \E new \in Sync : /\ sync' = [sync EXCEPT ![s] = new]
                                 /\ new.at \in {"next", "read"} /\ new.todo # <<>>
    <3> DEFINE new == [sync[s] EXCEPT !.at = "next", !.todo = todo]
    <3>1. new \in Sync /\ new.at = "next" /\ new.todo = todo
      BY <1>2, <2>1 DEF Sync
    <3>2. sync' = [sync EXCEPT ![s] = new]
      BY <1>0, <2>1 DEF TypeOK
    <3> QED
      BY <2>1, <3>1, <3>2
  <2>2. CASE Sweep(s)
    <3>1. PICK list \in Oldest(Candidates, Batch) :
             sync' = [sync EXCEPT ![s].at = "next", ![s].todo = list]
      BY <2>2 DEF Sweep
    <3>2. PICK k \in 1..Batch : list \in [1..k -> Candidates]
      BY <3>1 DEF Oldest
    <3>3. k \in Nat \ {0} /\ Candidates \subseteq Books
      BY <3>2 DEF Candidates
    <3>4. list \in [1..k -> Books]
      BY <3>2, <3>3
    <3>5. list \in Seq(Books) /\ Len(list) = k
      BY <3>3, <3>4
    <3>6. list # <<>>
      BY <3>3, <3>5, Len(<<>>) = 0
    <3> QED
      BY <2>1, <3>1, <3>5, <3>6
  <2>3. CASE \E b \in Books : SyncNow(s, b)
    <3>1. PICK b \in Books : sync' = [sync EXCEPT ![s].at = "next", ![s].todo = <<b>>]
      BY <2>3 DEF SyncNow
    <3>2. <<b>> \in Seq(Books) /\ <<b>> # <<>>
      OBVIOUS
    <3> QED
      BY <2>1, <3>1, <3>2
  <2>4. CASE GetSubmission(s)
    <3> DEFINE new == [sync[s] EXCEPT !.at = "read", !.seen = submission[Book(s)]]
    <3>1. sync[s].at = "next" /\ sync' = [sync EXCEPT ![s].at = "read", ![s].seen = submission[Book(s)]]
      BY <2>4 DEF GetSubmission
    <3>2. submission[Book(s)] \in Submission /\ sync[s].todo # <<>>
      BY <1>0, <3>1, HasBook DEF TypeOK
    <3>3. new \in Sync /\ new.at = "read" /\ new.todo = sync[s].todo
      BY <1>2, <3>2 DEF Sync
    <3>4. sync' = [sync EXCEPT ![s] = new]
      BY <1>0, <3>1 DEF TypeOK
    <3> QED
      BY <3>2, <3>3, <3>4
  <2> QED
    BY <2>2, <2>3, <2>4
<1>4. /\ sync' \in [Syncs -> Sync]
      /\ \A t \in Syncs : sync'[t].at = "idle" <=> sync'[t].todo = <<>>
      /\ sync'[s] = new
      /\ \A t \in Syncs \ {s} : sync'[t] = sync[t]
  BY <1>0, <1>3, SyncTyped
<1>5. TypeOK'
  BY <1>0, <1>1, <1>4 DEF TypeOK
<1>7. BuildsAreCurrent' /\ FileMatchesChapters'
  BY <1>0, <1>1, <1>2, <1>3, <1>4, OtherBuildsGoOn
<1> QED
  BY <1>5, <1>7 DEF NarrationInv

\* readyParts, and what they are at the time of the reading.
LEMMA ReadyPartsAre ==
    ASSUME NEW b
    PROVE  /\ ReadyParts(b) \subseteq Files
           /\ \A f \in ReadyParts(b) : audio[b][f[1]].version = f[2]
BY DEF ReadyParts

\* Listing the parts of a book: what is read is what the AI service has now.
LEMMA ListStep ==
    ASSUME NarrationInv, NEW s \in Syncs, ListParts(s)
    PROVE  NarrationInv'
<1>0. TypeOK /\ BuildsAreCurrent /\ FileMatchesChapters
  BY DEF NarrationInv
<1>1. UNCHANGED <<audio, submission, edition, joined, faults, disturbed>> /\ sync[s].at = "read"
  BY DEF ListParts
<1>3. CASE Proceed(s)
  <2>1. /\ sync' \in [Syncs -> Sync]
        /\ \A t \in Syncs : sync'[t].at = "idle" <=> sync'[t].todo = <<>>
        /\ sync'[s].at \in {"idle", "next"}
        /\ \A t \in Syncs \ {s} : sync'[t] = sync[t]
    BY <1>0, <1>1, <1>3, ProceedStep
  <2>2. TypeOK'
    BY <1>0, <1>1, <2>1 DEF TypeOK
  <2>3. BuildsAreCurrent' /\ FileMatchesChapters'
    BY <1>0, <1>1, <2>1, OtherBuildsGoOn
  <2> QED
    BY <2>2, <2>3 DEF NarrationInv
<1>4. CASE sync' = [sync EXCEPT ![s].at = "build", ![s].parts = ReadyParts(Book(s))]
  <2> DEFINE ready == ReadyParts(Book(s))
             new == [sync[s] EXCEPT !.at = "build", !.parts = ready]
  <2>1. sync[s] \in Sync /\ sync[s].todo # <<>>
    BY <1>0, <1>1, HasBook DEF TypeOK
  <2>2. ready \subseteq Files /\ \A f \in ready : audio[Book(s)][f[1]].version = f[2]
    BY ReadyPartsAre
  <2>3. new \in Sync /\ new.at = "build" /\ new.todo = sync[s].todo /\ new.parts = ready
    BY <2>1, <2>2 DEF Sync
  <2>4. sync' = [sync EXCEPT ![s] = new]
    BY <1>0, <1>4 DEF TypeOK
  <2> HIDE DEF new, ready
  <2>5. /\ sync' \in [Syncs -> Sync]
        /\ \A t \in Syncs : sync'[t].at = "idle" <=> sync'[t].todo = <<>>
        /\ sync'[s] = new
        /\ \A t \in Syncs \ {s} : sync'[t] = sync[t]
    BY <1>0, <2>1, <2>3, <2>4, SyncTyped
  <2>6. TypeOK'
    BY <1>0, <1>1, <2>5 DEF TypeOK
  <2>7. BuildsAreCurrent'
    BY <1>0, <1>1, <2>2, <2>3, <2>5 DEF BuildsAreCurrent, Book
  <2>8. FileMatchesChapters'
    <3> SUFFICES ASSUME NEW b \in Books \ disturbed, edition[b].key = "joined",
                        \A t \in Building(b)' : sync'[t].at # "commit"
                 PROVE  joined[b] = edition[b].chapters
      BY <1>1 DEF FileMatchesChapters
    <3>1. ASSUME NEW t \in Building(b) PROVE sync[t].at # "commit"
      BY <1>1, <2>3, <2>5, <3>1 DEF Building, Book
    <3> QED
      BY <1>0, <3>1 DEF FileMatchesChapters
  <2> QED
    BY <2>6, <2>7, <2>8 DEF NarrationInv
<1> QED
  BY <1>3, <1>4 DEF ListParts

\* A part that nobody narrated again reads as it was when it was listed.
LEMMA ContentIsWhatWasListed ==
    ASSUME NEW b, NEW parts \in SUBSET Files, \A f \in parts : audio[b][f[1]].version = f[2]
    PROVE  Content(b, parts) = parts
<1>1. ASSUME NEW f \in Content(b, parts) PROVE f \in parts
  <2>1. f \in Parts \X (1..MaxVersion) /\ audio[b][f[1]].version = f[2]
    BY DEF Content, Files
  <2>2. PICK g \in parts : g[1] = f[1]
    BY DEF Content
  <2>3. g \in Parts \X (1..MaxVersion) /\ g[2] = f[2]
    BY <2>1, <2>2 DEF Files
  <2>4. f = g
    BY <2>1, <2>2, <2>3
  <2> QED
    BY <2>4
<1>2. parts \subseteq Content(b, parts)
  BY DEF Content
<1> QED
  BY <1>1, <1>2

\* Joining the parts: the file is made of the parts that were listed.
LEMMA MaterialiseStep ==
    ASSUME NarrationInv, NEW s \in Syncs, Materialise(s)
    PROVE  NarrationInv'
<1>0. TypeOK /\ BuildsAreCurrent /\ FileMatchesChapters
  BY DEF NarrationInv
<1>1. UNCHANGED <<audio, submission, edition, joined, faults, disturbed>> /\ sync[s].at = "build"
  BY DEF Materialise
<1>3. /\ sync[s] \in Sync
      /\ sync[s].todo # <<>>
      /\ Book(s) \in Books
      /\ sync[s].parts \subseteq Files
  BY <1>0, <1>1, HasBook DEF TypeOK, Sync
<1>4. PICK new \in Sync :
         /\ sync' = [sync EXCEPT ![s] = new]
         /\ new.todo = sync[s].todo /\ new.parts = sync[s].parts
         /\ \/ new.at = "fail"
            \/ new.at = "commit" /\ Cardinality(sync[s].parts) = 1
            \/ new.at = "put" /\ new.file = Content(Book(s), sync[s].parts)
  <2>1. CASE Book(s) \in Broken
    <3>1. [sync[s] EXCEPT !.at = "fail"] \in Sync
      BY <1>3 DEF Sync
    <3>2. sync' = [sync EXCEPT ![s] = [sync[s] EXCEPT !.at = "fail"]]
      BY <1>0, <2>1 DEF Materialise, TypeOK
    <3> QED
      BY <1>3, <3>1, <3>2 DEF Sync
  <2>2. CASE Book(s) \notin Broken /\ Cardinality(sync[s].parts) = 1
    <3>1. [sync[s] EXCEPT !.at = "commit"] \in Sync
      BY <1>3 DEF Sync
    <3>2. sync' = [sync EXCEPT ![s] = [sync[s] EXCEPT !.at = "commit"]]
      BY <1>0, <2>2 DEF Materialise, TypeOK
    <3> QED
      BY <1>3, <2>2, <3>1, <3>2 DEF Sync
  <2>3. CASE Book(s) \notin Broken /\ Cardinality(sync[s].parts) # 1
    <3> DEFINE file == Content(Book(s), sync[s].parts)
               new == [sync[s] EXCEPT !.at = "put", !.file = file]
    <3>0. file \subseteq Files
      BY DEF Content
    <3>1. /\ new \in Sync
          /\ new.at = "put"
          /\ new.file = file
          /\ new.todo = sync[s].todo
          /\ new.parts = sync[s].parts
      BY <1>3, <3>0 DEF Sync
    <3>2. sync' = [sync EXCEPT ![s] = new]
      BY <1>0, <2>3 DEF Materialise, TypeOK
    <3> QED
      BY <3>1, <3>2
  <2> QED
    BY <2>1, <2>2, <2>3
<1>5. /\ sync' \in [Syncs -> Sync]
      /\ \A t \in Syncs : sync'[t].at = "idle" <=> sync'[t].todo = <<>>
      /\ sync'[s] = new
      /\ \A t \in Syncs \ {s} : sync'[t] = sync[t]
  BY <1>0, <1>3, <1>4, SyncTyped
<1>6. TypeOK'
  BY <1>0, <1>1, <1>5 DEF TypeOK
<1>7. BuildsAreCurrent'
  <2>1. Book(s) \notin disturbed => \A f \in sync[s].parts : audio[Book(s)][f[1]].version = f[2]
    BY <1>0, <1>1 DEF BuildsAreCurrent
  <2>2. Book(s) \notin disturbed => Content(Book(s), sync[s].parts) = sync[s].parts
    BY <1>3, <2>1, ContentIsWhatWasListed
  <2> SUFFICES ASSUME NEW t \in Syncs, sync'[t].at \in {"build", "put", "commit"},
                      Book(t)' \notin disturbed
               PROVE  /\ \A f \in sync'[t].parts : audio[Book(t)'][f[1]].version = f[2]
                      /\ sync'[t].at = "put" => sync'[t].file = sync'[t].parts
                      /\ sync'[t].at = "commit" /\ Cardinality(sync'[t].parts) # 1 =>
                            joined[Book(t)'] = sync'[t].parts
    BY <1>1 DEF BuildsAreCurrent
  <2>3. Book(t)' = Book(t)
    BY <1>4, <1>5 DEF Book
  <2>4. CASE t = s
    BY <1>4, <1>5, <2>1, <2>2, <2>3, <2>4
  <2>5. CASE t # s
    BY <1>0, <1>5, <2>3, <2>5 DEF BuildsAreCurrent
  <2> QED
    BY <2>4, <2>5
<1>8. FileMatchesChapters'
  <2> SUFFICES ASSUME NEW b \in Books \ disturbed, edition[b].key = "joined",
                      \A t \in Building(b)' : sync'[t].at # "commit"
               PROVE  joined[b] = edition[b].chapters
    BY <1>1 DEF FileMatchesChapters
  <2>1. ASSUME NEW t \in Building(b) PROVE sync[t].at # "commit"
    BY <1>1, <1>5, <2>1 DEF Building, Book
  <2> QED
    BY <1>0, <2>1 DEF FileMatchesChapters
<1> QED
  BY <1>6, <1>7, <1>8 DEF NarrationInv

\* The upload: a book whose builds overlap counts as disturbed.
LEMMA PutStep ==
    ASSUME NarrationInv, NEW s \in Syncs, PutJoined(s)
    PROVE  NarrationInv'
<1>0. TypeOK /\ BuildsAreCurrent /\ FileMatchesChapters
  BY DEF NarrationInv
<1>1. /\ UNCHANGED <<audio, submission, edition, faults>> /\ sync[s].at = "put"
      /\ joined' = [joined EXCEPT ![Book(s)] = sync[s].file]
      /\ disturbed' = IF Building(Book(s)) = {s} THEN disturbed ELSE disturbed \cup {Book(s)}
  BY DEF PutJoined
<1>3. /\ sync[s] \in Sync
      /\ sync[s].todo # <<>>
      /\ Book(s) \in Books
      /\ sync[s].file \subseteq Files
  BY <1>0, <1>1, HasBook DEF TypeOK, Sync
<1> DEFINE new == [sync[s] EXCEPT !.at = "commit"]
<1>4. new \in Sync /\ new.at = "commit" /\ new.todo = sync[s].todo /\ new.parts = sync[s].parts
  BY <1>3 DEF Sync
<1>5. sync' = [sync EXCEPT ![s] = new]
  BY <1>0 DEF PutJoined, TypeOK
<1> HIDE DEF new
<1>6. /\ sync' \in [Syncs -> Sync]
      /\ \A t \in Syncs : sync'[t].at = "idle" <=> sync'[t].todo = <<>>
      /\ sync'[s] = new
      /\ \A t \in Syncs \ {s} : sync'[t] = sync[t]
  BY <1>0, <1>3, <1>4, <1>5, SyncTyped
<1>7. /\ joined' \in [Books -> SUBSET Files]
      /\ disturbed' \subseteq Books
      /\ disturbed \subseteq disturbed'
  BY <1>0, <1>1, <1>3 DEF TypeOK
<1>8. TypeOK'
  BY <1>0, <1>1, <1>6, <1>7 DEF TypeOK
<1>9. ASSUME NEW t \in Syncs \ {s}, sync[t].at = "commit", Book(t) = Book(s)
      PROVE  Book(s) \in disturbed'
  <2>1. t \in Building(Book(s)) /\ t # s
    BY <1>9 DEF Building
  <2> QED
    BY <1>1, <2>1
<1>10. BuildsAreCurrent'
  <2> SUFFICES ASSUME NEW t \in Syncs, sync'[t].at \in {"build", "put", "commit"},
                      Book(t)' \notin disturbed'
               PROVE  /\ \A f \in sync'[t].parts : audio[Book(t)'][f[1]].version = f[2]
                      /\ sync'[t].at = "put" => sync'[t].file = sync'[t].parts
                      /\ sync'[t].at = "commit" /\ Cardinality(sync'[t].parts) # 1 =>
                            joined'[Book(t)'] = sync'[t].parts
    BY <1>1 DEF BuildsAreCurrent
  <2>1. Book(t)' = Book(t) /\ sync'[t].parts = sync[t].parts /\ Book(t) \notin disturbed
    BY <1>4, <1>6, <1>7 DEF Book
  <2>2. CASE t = s
    <3>1. joined'[Book(s)] = sync[s].file
      BY <1>0, <1>1, <1>3 DEF TypeOK
    <3>2. sync[s].file = sync[s].parts /\ \A f \in sync[s].parts : audio[Book(s)][f[1]].version = f[2]
      BY <1>0, <1>1, <2>1, <2>2 DEF BuildsAreCurrent
    <3> QED
      BY <1>4, <1>6, <2>1, <2>2, <3>1, <3>2
  <2>3. CASE t # s
    <3>1. sync'[t] = sync[t]
      BY <1>6, <2>3
    <3>2. sync[t].at = "commit" => Book(t) # Book(s)
      BY <1>9, <2>1, <2>3
    <3>3. sync[t].at = "commit" => joined'[Book(t)] = joined[Book(t)]
      BY <1>0, <1>1, <3>2, HasBook DEF TypeOK
    <3> QED
      BY <1>0, <2>1, <3>1, <3>3 DEF BuildsAreCurrent
  <2> QED
    BY <2>2, <2>3
<1>11. FileMatchesChapters'
  <2> SUFFICES ASSUME NEW b \in Books \ disturbed', edition[b].key = "joined",
                      \A t \in Building(b)' : sync'[t].at # "commit"
               PROVE  joined'[b] = edition[b].chapters
    BY <1>1 DEF FileMatchesChapters
  <2>1. b # Book(s)
    BY <1>4, <1>6 DEF Building, Book
  <2>2. ASSUME NEW t \in Building(b) PROVE sync[t].at # "commit"
    BY <1>6, <2>1, <2>2 DEF Building, Book
  <2>3. joined[b] = edition[b].chapters
    BY <1>0, <1>7, <2>2 DEF FileMatchesChapters
  <2> QED
    BY <1>0, <1>1, <2>1, <2>3 DEF TypeOK
<1> QED
  BY <1>8, <1>10, <1>11 DEF NarrationInv

\* The transaction: signature and chapters are written together, and the object
\* holds the file, unless the book was disturbed.
LEMMA PublishStep ==
    ASSUME NarrationInv, NEW s \in Syncs, Publish(s)
    PROVE  NarrationInv'
<1>0. TypeOK /\ BuildsAreCurrent /\ FileMatchesChapters
  BY DEF NarrationInv
<1> DEFINE b == Book(s)
           published == [key |-> IF Cardinality(sync[s].parts) = 1 THEN "part" ELSE "joined",
                         chapters |-> sync[s].parts]
           synced == [status |-> "synced", signature |-> sync[s].parts]
<1>1. /\ UNCHANGED <<audio, joined, faults, disturbed>> /\ sync[s].at = "commit" /\ Proceed(s)
      /\ edition' = [edition EXCEPT ![b] = published]
      /\ submission' = [submission EXCEPT ![b] = synced]
  BY DEF Publish
<1>2. sync[s] \in Sync /\ b \in Books /\ sync[s].parts \subseteq Files
  BY <1>0, <1>1, HasBook DEF TypeOK, Sync
<1>3. /\ published \in Edition
      /\ published.chapters = sync[s].parts
      /\ synced \in Submission
      /\ synced.signature = sync[s].parts
  BY <1>2 DEF Edition, Submission
<1>4. published.key = "joined" => Cardinality(sync[s].parts) # 1
  OBVIOUS
<1>5. /\ sync' \in [Syncs -> Sync]
      /\ \A t \in Syncs : sync'[t].at = "idle" <=> sync'[t].todo = <<>>
      /\ sync'[s].at \in {"idle", "next"}
      /\ \A t \in Syncs \ {s} : sync'[t] = sync[t]
  BY <1>0, <1>1, ProceedStep
<1> HIDE DEF b, published, synced
<1>6. /\ edition' \in [Books -> Edition] /\ edition'[b] = published
      /\ submission' \in [Books -> Submission] /\ submission'[b] = synced
      /\ \A c \in Books \ {b} : edition'[c] = edition[c] /\ submission'[c] = submission[c]
  BY <1>0, <1>1, <1>2, <1>3 DEF TypeOK
<1>7. TypeOK'
  BY <1>0, <1>1, <1>5, <1>6 DEF TypeOK
<1>9. BuildsAreCurrent'
  BY <1>0, <1>1, <1>5 DEF BuildsAreCurrent, Book
<1>10. FileMatchesChapters'
  <2> SUFFICES ASSUME NEW c \in Books \ disturbed, edition'[c].key = "joined",
                      \A t \in Building(c)' : sync'[t].at # "commit"
               PROVE  joined[c] = edition'[c].chapters
    BY <1>1 DEF FileMatchesChapters
  <2>1. CASE c = b
    <3>1. joined[b] = sync[s].parts
      BY <1>0, <1>1, <1>4, <1>6, <2>1 DEF BuildsAreCurrent, b
    <3> QED
      BY <1>3, <1>6, <2>1, <3>1
  <2>2. CASE c # b
    <3>1. ASSUME NEW t \in Building(c) PROVE sync[t].at # "commit"
      BY <1>5, <2>2, <3>1 DEF Building, Book, b
    <3> QED
      BY <1>0, <1>6, <2>2, <3>1 DEF FileMatchesChapters
  <2> QED
    BY <2>1, <2>2
<1> QED
  BY <1>7, <1>9, <1>10 DEF NarrationInv

\* MarkAudioFailed changes the status and keeps the signature.
LEMMA MarkFailedStep ==
    ASSUME NarrationInv, NEW s \in Syncs, MarkAudioFailed(s)
    PROVE  NarrationInv'
<1>0. TypeOK /\ BuildsAreCurrent /\ FileMatchesChapters
  BY DEF NarrationInv
<1>1. UNCHANGED <<audio, edition, joined, faults, disturbed>> /\ sync[s].at = "fail" /\ Proceed(s)
  BY DEF MarkAudioFailed
<1>2. /\ sync' \in [Syncs -> Sync]
      /\ \A t \in Syncs : sync'[t].at = "idle" <=> sync'[t].todo = <<>>
      /\ sync'[s].at \in {"idle", "next"}
      /\ \A t \in Syncs \ {s} : sync'[t] = sync[t]
  BY <1>0, <1>1, ProceedStep
<1>3. /\ submission' \in [Books -> Submission]
      /\ \A b \in Books : submission'[b].signature = submission[b].signature
  <2>1. submission' = [submission EXCEPT ![Book(s)] = [submission[Book(s)] EXCEPT !.status = "failed"]]
    BY DEF MarkAudioFailed
  <2>2. submission[Book(s)] \in Submission
    BY <1>0, <1>1, HasBook DEF TypeOK
  <2>3. /\ [submission[Book(s)] EXCEPT !.status = "failed"] \in Submission
        /\ [submission[Book(s)] EXCEPT !.status = "failed"].signature = submission[Book(s)].signature
    BY <2>2 DEF Submission
  <2> QED
    BY <1>0, <2>1, <2>3 DEF TypeOK
<1>4. TypeOK'
  BY <1>0, <1>1, <1>2, <1>3 DEF TypeOK
<1>6. BuildsAreCurrent' /\ FileMatchesChapters'
  BY <1>0, <1>1, <1>2, OtherBuildsGoOn
<1> QED
  BY <1>4, <1>6 DEF NarrationInv

\* A build that fails or dies: between its upload and its transaction it leaves a
\* disturbed book.
LEMMA CutOffStep ==
    ASSUME NarrationInv, NEW s \in Syncs, Fail(s) \/ Die(s)
    PROVE  NarrationInv'
<1>0. TypeOK /\ BuildsAreCurrent /\ FileMatchesChapters
  BY DEF NarrationInv
<1>1. /\ UNCHANGED <<audio, submission, edition, joined>> /\ sync[s].at # "idle"
      /\ faults < MaxFaults /\ faults' = faults + 1
      /\ disturbed' = IF sync[s].at = "commit" THEN disturbed \cup {Book(s)} ELSE disturbed
  BY DEF Fail, Die
<1>2. sync[s] \in Sync /\ sync[s].todo # <<>> /\ Book(s) \in Books
  BY <1>0, <1>1, HasBook DEF TypeOK
<1>3. PICK new \in Sync :
         /\ sync' = [sync EXCEPT ![s] = new]
         /\ new.at \in {"fail", "idle"} /\ (new.at = "idle" <=> new.todo = <<>>)
  <2>1. CASE Fail(s)
    <3>1. /\ [sync[s] EXCEPT !.at = "fail"] \in Sync
          /\ [sync[s] EXCEPT !.at = "fail"].at = "fail" /\ [sync[s] EXCEPT !.at = "fail"].todo = sync[s].todo
      BY <1>2 DEF Sync
    <3>2. sync' = [sync EXCEPT ![s] = [sync[s] EXCEPT !.at = "fail"]]
      BY <2>1 DEF Fail
    <3> QED
      BY <1>2, <3>1, <3>2
  <2>2. CASE Die(s)
    <3>1. <<>> \in Seq(Books)
      OBVIOUS
    <3>2. Idle \in Sync /\ Idle.at = "idle" /\ Idle.todo = <<>>
      BY <3>1, FreshIsSync DEF Idle
    <3> QED
      BY <2>2, <3>2 DEF Die
  <2> QED
    BY <2>1, <2>2
<1>4. /\ sync' \in [Syncs -> Sync]
      /\ \A t \in Syncs : sync'[t].at = "idle" <=> sync'[t].todo = <<>>
      /\ sync'[s] = new
      /\ \A t \in Syncs \ {s} : sync'[t] = sync[t]
  BY <1>0, <1>3, SyncTyped
<1>5. TypeOK'
  <2>1. faults' \in 0..MaxFaults /\ disturbed' \subseteq Books
    BY <1>0, <1>1, <1>2 DEF TypeOK
  <2> QED
    BY <1>0, <1>1, <1>4, <2>1 DEF TypeOK
<1>7. CASE sync[s].at # "commit"
  <2>1. BuildsAreCurrent' /\ FileMatchesChapters'
    BY <1>0, <1>1, <1>3, <1>4, <1>7, OtherBuildsGoOn
  <2> QED
    BY <1>5, <2>1 DEF NarrationInv
<1>8. CASE sync[s].at = "commit"
  <2>1. disturbed' = disturbed \cup {Book(s)}
    BY <1>1, <1>8
  <2>2. BuildsAreCurrent'
    BY <1>0, <1>1, <1>3, <1>4, <2>1 DEF BuildsAreCurrent, Book
  <2>3. FileMatchesChapters'
    <3> SUFFICES ASSUME NEW b \in Books \ disturbed', edition[b].key = "joined",
                        \A t \in Building(b)' : sync'[t].at # "commit"
                 PROVE  joined[b] = edition[b].chapters
      BY <1>1 DEF FileMatchesChapters
    <3>1. ASSUME NEW t \in Building(b) PROVE sync[t].at # "commit"
      BY <1>4, <2>1, <3>1 DEF Building, Book
    <3> QED
      BY <1>0, <2>1, <3>1 DEF FileMatchesChapters
  <2> QED
    BY <1>5, <2>2, <2>3 DEF NarrationInv
<1> QED
  BY <1>7, <1>8

\* Every step keeps the invariant.
LEMMA NarrationStep == NarrationInv /\ [Next]_vars => NarrationInv'
<1> SUFFICES ASSUME NarrationInv, [Next]_vars PROVE NarrationInv'
  OBVIOUS
<1>1. CASE UNCHANGED vars
  BY <1>1 DEF vars, NarrationInv, TypeOK, BuildsAreCurrent,
              FileMatchesChapters, Building, Book
<1>2. ASSUME NEW b \in Books, NEW p \in Parts,
             StartPart(b, p) \/ FinishPart(b, p) \/ Renarrate(b, p)
      PROVE  NarrationInv'
  BY <1>2, AudioStep
<1>3. ASSUME NEW s \in Sweeps, Sweep(s) PROVE NarrationInv'
  BY <1>3, BeginStep DEF Syncs
<1>4. ASSUME NEW s \in Editors, NEW b \in Books, SyncNow(s, b) PROVE NarrationInv'
  BY <1>4, BeginStep DEF Syncs
<1>5. ASSUME NEW s \in Syncs, SyncAudio(s) PROVE NarrationInv'
  BY <1>5, BeginStep, ListStep, MaterialiseStep, PutStep, PublishStep, MarkFailedStep DEF SyncAudio
<1>6. ASSUME NEW s \in Syncs, Fail(s) \/ Die(s) PROVE NarrationInv'
  BY <1>6, CutOffStep
<1> QED
  BY <1>1, <1>2, <1>3, <1>4, <1>5, <1>6 DEF Next

\* The invariant holds throughout.
LEMMA NarrationInvariant == Spec => []NarrationInv
<1>1. Init => NarrationInv
  BY NarrationInit
<1>2. NarrationInv /\ [Next]_vars => NarrationInv'
  BY NarrationStep
<1> QED
  BY <1>1, <1>2, PTL DEF Spec

\* What the sweep and the editor keep of a book has its type.
THEOREM NarrationTyped == Spec => []TypeOK
<1>1. NarrationInv => TypeOK
  BY DEF NarrationInv
<1> QED
  BY <1>1, NarrationInvariant, PTL

\* The file behind an edition is that of its chapters, unless a part was narrated
\* again, builds overlapped, or one was cut off (PutJoined, Publish).
THEOREM FileSafe == Spec => []FileMatchesChapters
<1>1. NarrationInv => FileMatchesChapters
  BY DEF NarrationInv
<1> QED
  BY <1>1, NarrationInvariant, PTL

-----------------------------------------------------------------------------
(* Bookmarks *)

\* Rows and jobs are named after taps that were answered, tasks stand on jobs.
StandsOnTaps ==
    /\ \A s \in Spots : row[s].id # Nothing => tap[row[s].id].id = row[s].id
    /\ \A t \in wasReady : tap[t].id = t
    /\ \A j \in Taps : job[j] # "none" => tap[j].id # Nothing
    /\ \A k \in Tasks : task[k].at # "absent" => tap[k[1]].id # Nothing /\ k[2] <= delivered[k[1]]

\* A summary that was written once is there, and its job is done with, unless the
\* job ran or runs once more.
SummaryStands ==
    \A t \in wasReady :
        \/ \E u \in Taps \ {t} : tap[u].id = t
        \/ delivered[t] > 1
        \/ t \in orphaned
        \/ /\ task[<<t, 1>>].at \in {"written", "over"}
           /\ \A s \in Spots : row[s].id = t => row[s].status = "ready"

SummaryInv == BookmarksTypeOK /\ StandsOnTaps /\ SummaryStands

\* At first there is neither a row nor a task.
LEMMA SummaryInit == BookmarksInit => SummaryInv
<1> SUFFICES ASSUME BookmarksInit PROVE SummaryInv
  OBVIOUS
<1>1. /\ [at |-> "absent", retried |-> 0] \in Task
      /\ Empty \in Row
      /\ Empty.id = Nothing
  BY RetryAssumption DEF Task, Empty, Row
<1>2. /\ task \in [Tasks -> Task] /\ (\A k \in Tasks : task[k].at = "absent")
      /\ row \in [Spots -> Row] /\ (\A s \in Spots : row[s].id = Nothing)
      /\ tap \in [Taps -> [spot : Spots, id : Taps \cup {Nothing}]]
      /\ wasReady = {} /\ orphaned = {} /\ deaths = 0
  BY <1>1 DEF BookmarksInit
<1>3. /\ job = [j \in Taps |-> "none"] /\ delivered = [j \in Taps |-> 0]
      /\ refused = [j \in Taps |-> 0]
  BY DEF BookmarksInit, Queue!Init
<1>4. 0 \in 0 .. MaxDuplicates + 1 /\ 0 \in 0 .. MaxRefusals /\ 0 \in 0 .. MaxDeaths
  BY RetryAssumption
<1>5. BookmarksTypeOK
  BY <1>2, <1>3, <1>4 DEF BookmarksTypeOK
<1>6. StandsOnTaps /\ SummaryStands
  BY <1>2, <1>3 DEF StandsOnTaps, SummaryStands
<1> QED
  BY <1>5, <1>6 DEF SummaryInv

\* A failed attempt waits for the next one, or the task is over.
LEMMA RetryStep ==
    ASSUME task \in [Tasks -> Task], NEW k \in Tasks, NEW end \in {"over", "unrecorded"},
           RetryTask(k, end)
    PROVE  /\ task' \in [Tasks -> Task]
           /\ task'[k].at \in {"waiting", end}
           /\ \A u \in Tasks \ {k} : task'[u] = task[u]
<1>1. task[k] \in Task /\ task[k].retried \in 0 .. MaxRetry /\ MaxRetry \in Nat
  BY RetryAssumption DEF Task
<1>2. CASE task[k].retried < MaxRetry
  <2>1. task' = [task EXCEPT ![k] = [at |-> "waiting", retried |-> task[k].retried + 1]]
    BY <1>2 DEF RetryTask
  <2>2. [at |-> "waiting", retried |-> task[k].retried + 1] \in Task
    BY <1>1, <1>2 DEF Task
  <2> QED
    BY <2>1, <2>2
<1>3. CASE ~ task[k].retried < MaxRetry
  <2>1. task' = [task EXCEPT ![k] = Over(end)]
    BY <1>3 DEF RetryTask
  <2>2. Over(end) \in Task /\ Over(end).at = end
    BY <1>1 DEF Task, Over
  <2> QED
    BY <2>1, <2>2
<1> QED
  BY <1>2, <1>3

\* A task that moves on moves alone.
LEMMA MoveStep ==
    ASSUME task \in [Tasks -> Task], NEW k \in Tasks, NEW at, Goto(k, at),
           at \in {"waiting", "written", "over"}
    PROVE  /\ task' \in [Tasks -> Task]
           /\ task'[k].at = at
           /\ \A u \in Tasks \ {k} : task'[u] = task[u]
<1>1. task' = [task EXCEPT ![k].at = at]
  BY DEF Goto
<1>2. [task[k] EXCEPT !.at = at] \in Task /\ [task[k] EXCEPT !.at = at].at = at
  BY DEF Task
<1> QED
  BY <1>1, <1>2

\* What keeps a summary standing: its row and its job stay as they are.
LEMMA StillStands ==
    ASSUME SummaryStands, wasReady' = wasReady, orphaned \subseteq orphaned',
           \A u \in wasReady, v \in Taps : tap[v].id = u => tap'[v].id = u,
           \A u \in wasReady : delivered[u] > 1 => delivered'[u] > 1,
           \A u \in wasReady : task[<<u, 1>>].at \in {"written", "over"} =>
               task'[<<u, 1>>].at \in {"written", "over"} \/ u \in orphaned',
           \A u \in wasReady, x \in Spots : row'[x].id = u => row'[x] = row[x]
    PROVE  SummaryStands'
<1> SUFFICES ASSUME NEW u \in wasReady'
             PROVE  \/ \E v \in Taps \ {u} : tap'[v].id = u
                    \/ delivered'[u] > 1
                    \/ u \in orphaned'
                    \/ /\ task'[<<u, 1>>].at \in {"written", "over"}
                       /\ \A x \in Spots : row'[x].id = u => row'[x].status = "ready"
  BY DEF SummaryStands
<1>1. u \in wasReady
  OBVIOUS
<1>2. CASE \/ \E v \in Taps \ {u} : tap[v].id = u
           \/ delivered[u] > 1
           \/ u \in orphaned
  BY <1>1, <1>2
<1>3. CASE /\ task[<<u, 1>>].at \in {"written", "over"}
           /\ \A x \in Spots : row[x].id = u => row[x].status = "ready"
  BY <1>1, <1>3
<1> QED
  BY <1>1, <1>2, <1>3 DEF SummaryStands

\* A tap inserts the row or finds it, and writes a job or not.
LEMMA TapStep ==
    ASSUME SummaryInv, NEW t \in Taps, AddBookmark(t)
    PROVE  SummaryInv'
<1>0. BookmarksTypeOK /\ StandsOnTaps /\ SummaryStands
  BY DEF SummaryInv
<1> DEFINE s == tap[t].spot
           r == Upserted(t)
<1>1. /\ tap[t].id = Nothing /\ row' = [row EXCEPT ![s] = r]
      /\ tap' = [tap EXCEPT ![t] = [tap[t] EXCEPT !.id = r.id]]
      /\ UNCHANGED <<task, wasReady, orphaned, deaths, delivered, refused>>
      /\ job' = job \/ job' = [job EXCEPT ![t] = "promised"]
  BY DEF AddBookmark, Queue!Promise, queueVars, history
<1>2. s \in Spots /\ row[s] \in Row /\ tap[t] \in [spot : Spots, id : Taps \cup {Nothing}]
  BY <1>0 DEF BookmarksTypeOK
<1>3. r \in Row /\ r.id \in Taps /\ (r = row[s] \/ r.id = t)
  <2>1. CASE row[s].id = Nothing
    BY <1>2, <2>1 DEF Upserted, Row
  <2>2. CASE row[s].id # Nothing
    BY <1>2, <2>2 DEF Upserted, Row
  <2> QED
    BY <2>1, <2>2
<1> HIDE DEF r
<1>4. /\ [tap[t] EXCEPT !.id = r.id] \in [spot : Spots, id : Taps \cup {Nothing}]
      /\ [tap[t] EXCEPT !.id = r.id].id = r.id
  BY <1>2, <1>3
<1> HIDE DEF s
<1>5. /\ tap' \in [Taps -> [spot : Spots, id : Taps \cup {Nothing}]]
      /\ tap'[t].id = r.id /\ r.id # Nothing
      /\ \A u \in Taps \ {t} : tap'[u] = tap[u]
      /\ row' \in [Spots -> Row] /\ row'[s] = r /\ \A x \in Spots \ {s} : row'[x] = row[x]
  BY <1>0, <1>1, <1>2, <1>3, <1>4, TapsAssumption DEF BookmarksTypeOK
<1>6. BookmarksTypeOK'
  BY <1>0, <1>1, <1>5 DEF BookmarksTypeOK
<1>7. t \notin wasReady /\ \A x \in Spots : row[x].id # t
  BY <1>0, <1>1, TapsAssumption DEF StandsOnTaps, BookmarksTypeOK
<1>8. StandsOnTaps'
  <2>1. \A x \in Spots : row'[x].id # Nothing => tap'[row'[x].id].id = row'[x].id
    <3> SUFFICES ASSUME NEW x \in Spots, row'[x].id # Nothing PROVE tap'[row'[x].id].id = row'[x].id
      OBVIOUS
    <3>1. CASE row'[x] = row[x]
      <4>1. row[x].id \in Taps /\ row[x].id # t /\ tap[row[x].id].id = row[x].id
        BY <1>0, <1>7, <3>1 DEF StandsOnTaps, BookmarksTypeOK, Row
      <4> QED
        BY <1>5, <3>1, <4>1
    <3>2. CASE row'[x] # row[x]
      <4>1. x = s /\ r.id = t
        BY <1>3, <1>5, <3>2
      <4> QED
        BY <1>5, <4>1
    <3> QED
      BY <3>1, <3>2
  <2>2. \A u \in wasReady' : tap'[u].id = u
    BY <1>0, <1>1, <1>5, <1>7 DEF StandsOnTaps, BookmarksTypeOK
  <2>3. \A j \in Taps : job'[j] # "none" => tap'[j].id # Nothing
    BY <1>0, <1>1, <1>5 DEF StandsOnTaps, BookmarksTypeOK
  <2>4. \A k \in Tasks : task'[k].at # "absent" => tap'[k[1]].id # Nothing /\ k[2] <= delivered'[k[1]]
    BY <1>0, <1>1, <1>5 DEF StandsOnTaps, Tasks
  <2> QED
    BY <2>1, <2>2, <2>3, <2>4 DEF StandsOnTaps
<1>9. SummaryStands'
  <2>1. ASSUME NEW u \in wasReady, NEW v \in Taps, tap[v].id = u PROVE tap'[v].id = u
    BY <1>0, <1>1, <1>5, <2>1, TapsAssumption DEF BookmarksTypeOK
  <2>2. ASSUME NEW u \in wasReady, NEW x \in Spots, row'[x].id = u PROVE row'[x] = row[x]
    BY <1>3, <1>5, <1>7, <2>2
  <2> QED
    BY <1>0, <1>1, <2>1, <2>2, StillStands
<1> QED
  BY <1>6, <1>8, <1>9 DEF SummaryInv

\* Deleting a bookmark leaves its row empty, and no tap in it.
LEMMA DeleteStep ==
    ASSUME SummaryInv, NEW s \in Spots, DeleteBookmark(s)
    PROVE  SummaryInv'
<1>0. BookmarksTypeOK /\ StandsOnTaps /\ SummaryStands
  BY DEF SummaryInv
<1>1. /\ row' = [row EXCEPT ![s] = Empty]
      /\ UNCHANGED <<tap, job, delivered, refused, task, wasReady, orphaned, deaths>>
  BY DEF DeleteBookmark, queueVars, history
<1>2. Empty \in Row /\ Empty.id = Nothing
  BY DEF Empty, Row
<1>3. /\ row' \in [Spots -> Row] /\ row'[s].id = Nothing
      /\ \A x \in Spots \ {s} : row'[x] = row[x]
  BY <1>0, <1>1, <1>2 DEF BookmarksTypeOK
<1>4. BookmarksTypeOK'
  BY <1>0, <1>1, <1>3 DEF BookmarksTypeOK
<1>5. StandsOnTaps'
  BY <1>0, <1>1, <1>3 DEF StandsOnTaps
<1>6. SummaryStands'
  <2>1. ASSUME NEW u \in wasReady, NEW x \in Spots, row'[x].id = u PROVE row'[x] = row[x]
    BY <1>0, <1>3, <2>1, TapsAssumption DEF BookmarksTypeOK
  <2> QED
    BY <1>0, <1>1, <2>1, StillStands
<1> QED
  BY <1>4, <1>5, <1>6 DEF SummaryInv

\* Relaying a job, whether it is delivered, refused or left, moves its task only.
LEMMA QueueStep ==
    ASSUME SummaryInv, NEW j \in Taps, Relay(j)
    PROVE  SummaryInv'
<1>0. BookmarksTypeOK /\ StandsOnTaps /\ SummaryStands
  BY DEF SummaryInv
<1>1. UNCHANGED <<row, tap, wasReady, orphaned, deaths>>
  BY DEF Relay, Deliver, Refuse, Leave, history
<1>2. CASE Deliver(j)
  <2> DEFINE k == <<j, delivered[j] + 1>>
  <2>1. /\ job[j] = "promised" /\ delivered' = [delivered EXCEPT ![j] = delivered[j] + 1]
        /\ UNCHANGED <<job, refused>> /\ delivered[j] \in 0..MaxDuplicates
    BY <1>0, <1>2 DEF Deliver, Queue!Deliver, BookmarksTypeOK
  <2>2. /\ delivered' \in [Taps -> 0..MaxDuplicates + 1]
        /\ \A t \in Taps : delivered'[t] >= delivered[t]
    BY <1>0, <2>1, RetryAssumption DEF BookmarksTypeOK
  <2>3. k \in Tasks /\ k[1] = j /\ k[2] = delivered[j] + 1
    BY <2>1, RetryAssumption DEF Tasks
  <2>4. task[k].at \notin {"written", "over"}
    BY <1>0, <2>1, <2>3 DEF StandsOnTaps
  <2>5. Goto(k, "waiting")
    BY <1>2 DEF Deliver, Goto
  <2> HIDE DEF k
  <2>6. /\ task' \in [Tasks -> Task] /\ task'[k].at = "waiting"
        /\ \A u \in Tasks \ {k} : task'[u] = task[u]
    BY <1>0, <2>3, <2>5, MoveStep DEF BookmarksTypeOK
  <2>7. BookmarksTypeOK'
    BY <1>0, <1>1, <2>1, <2>2, <2>6 DEF BookmarksTypeOK
  <2>8. StandsOnTaps'
    <3>1. ASSUME NEW u \in Tasks, task'[u].at # "absent"
          PROVE  tap[u[1]].id # Nothing /\ u[2] <= delivered'[u[1]]
      <4>1. CASE u = k
        BY <1>0, <2>1, <2>3, <4>1 DEF StandsOnTaps, BookmarksTypeOK
      <4>2. CASE u # k
        <5>1. tap[u[1]].id # Nothing /\ u[2] <= delivered[u[1]] /\ u[1] \in Taps /\ u[2] \in Nat
          BY <1>0, <2>6, <3>1, <4>2 DEF StandsOnTaps, Tasks
        <5>2. delivered[u[1]] \in Nat /\ delivered'[u[1]] \in Nat /\ delivered'[u[1]] >= delivered[u[1]]
          BY <1>0, <2>2, <5>1 DEF BookmarksTypeOK
        <5> QED
          BY <5>1, <5>2
      <4> QED
        BY <4>1, <4>2
    <3> QED
      BY <1>0, <1>1, <2>1, <3>1 DEF StandsOnTaps
  <2>9. SummaryStands'
    <3>1. ASSUME NEW u \in wasReady, delivered[u] > 1 PROVE delivered'[u] > 1
      BY <1>0, <2>2, <3>1 DEF BookmarksTypeOK
    <3>2. ASSUME NEW u \in wasReady, task[<<u, 1>>].at \in {"written", "over"}
          PROVE  task'[<<u, 1>>].at \in {"written", "over"}
      <4>1. <<u, 1>> \in Tasks
        BY <1>0, RetryAssumption DEF BookmarksTypeOK, Tasks
      <4> QED
        BY <2>4, <2>6, <3>2, <4>1
    <3> QED
      BY <1>0, <1>1, <3>1, <3>2, StillStands
  <2> QED
    BY <2>7, <2>8, <2>9 DEF SummaryInv
<1>3. CASE Refuse(j)
  <2>1. /\ refused' = [refused EXCEPT ![j] = refused[j] + 1] /\ refused[j] < MaxRefusals
        /\ UNCHANGED <<task, job, delivered>>
    BY <1>3 DEF Refuse, Queue!Refuse
  <2>2. refused' \in [Taps -> 0..MaxRefusals]
    BY <1>0, <2>1, RetryAssumption DEF BookmarksTypeOK
  <2>3. BookmarksTypeOK'
    BY <1>0, <1>1, <2>1, <2>2 DEF BookmarksTypeOK
  <2>4. StandsOnTaps'
    BY <1>0, <1>1, <2>1 DEF StandsOnTaps
  <2>5. SummaryStands'
    BY <1>0, <1>1, <2>1, StillStands
  <2> QED
    BY <2>3, <2>4, <2>5 DEF SummaryInv
<1>4. CASE Leave(j)
  <2>1. /\ job[j] = "promised" /\ job' \in [Taps -> {"none", "promised", "closed", "parked"}]
        /\ \A i \in Taps \ {j} : job'[i] = job[i]
        /\ UNCHANGED <<task, delivered, refused>>
    BY <1>0, <1>4 DEF Leave, Queue!Leave, BookmarksTypeOK
  <2>2. BookmarksTypeOK'
    BY <1>0, <1>1, <2>1 DEF BookmarksTypeOK
  <2>3. StandsOnTaps'
    BY <1>0, <1>1, <2>1 DEF StandsOnTaps
  <2>4. SummaryStands'
    BY <1>0, <1>1, <2>1, StillStands
  <2> QED
    BY <2>2, <2>3, <2>4 DEF SummaryInv
<1> QED
  BY <1>2, <1>3, <1>4 DEF Relay

\* The UPDATE of an attempt: of the one that can run, or the job ran once more.
LEMMA UpdateStep ==
    ASSUME SummaryInv, NEW k \in Tasks,
           task[k].at = "waiting",
           NEW outcome \in {"ready", "none", "failed"}, SetSummary(k, outcome),
           task' \in [Tasks -> Task], task'[k].at # "absent",
           \A u \in Tasks \ {k} : task'[u] = task[u],
           outcome = "ready" /\ Target(k) # {} => task'[k].at = "written",
           UNCHANGED <<tap, job, delivered, refused, orphaned, deaths>>
    PROVE  SummaryInv'
<1>0. BookmarksTypeOK /\ StandsOnTaps /\ SummaryStands
  BY DEF SummaryInv
<1> DEFINE t == tap[k[1]].id
<1>1. k[1] \in Taps /\ k[2] \in 1..MaxDuplicates + 1 /\ k = <<k[1], k[2]>>
  BY DEF Tasks
<1>2. t \in Taps /\ k[2] <= delivered[k[1]]
  BY <1>0, <1>1 DEF StandsOnTaps, BookmarksTypeOK
<1>3. /\ row' = [s \in Spots |-> IF s \in Target(k) THEN [row[s] EXCEPT !.status = outcome] ELSE row[s]]
      /\ wasReady' = IF outcome = "ready" /\ Target(k) # {} THEN wasReady \cup {t} ELSE wasReady
  BY DEF SetSummary
<1>4. \A s \in Spots : s \in Target(k) <=> row[s].id = t
  BY DEF Target
<1> HIDE DEF t
<1>5. ASSUME NEW s \in Spots
      PROVE  /\ row'[s] \in Row /\ row'[s].id = row[s].id
             /\ row[s].id # t => row'[s] = row[s]
             /\ row[s].id = t => row'[s].status = outcome
  <2>1. row[s] \in Row
    BY <1>0 DEF BookmarksTypeOK
  <2>2. /\ [row[s] EXCEPT !.status = outcome] \in Row
        /\ [row[s] EXCEPT !.status = outcome].id = row[s].id
        /\ [row[s] EXCEPT !.status = outcome].status = outcome
    BY <2>1 DEF Row
  <2> QED
    BY <1>3, <1>4, <2>1, <2>2
<1>6. Target(k) # {} => tap[t].id = t
  <2> SUFFICES ASSUME NEW s \in Target(k) PROVE tap[t].id = t
    OBVIOUS
  <2>1. s \in Spots /\ row[s].id = t
    BY <1>4 DEF Target
  <2> QED
    BY <1>0, <1>2, <2>1, TapsAssumption DEF StandsOnTaps
<1>7. BookmarksTypeOK'
  <2>1. row' \in [Spots -> Row] /\ wasReady' \subseteq Taps
    BY <1>0, <1>2, <1>3, <1>5 DEF BookmarksTypeOK
  <2> QED
    BY <1>0, <2>1 DEF BookmarksTypeOK
<1>8. StandsOnTaps'
  <2>1. \A s \in Spots : row'[s].id # Nothing => tap'[row'[s].id].id = row'[s].id
    BY <1>0, <1>5 DEF StandsOnTaps
  <2>2. \A u \in wasReady' : tap'[u].id = u
    BY <1>0, <1>3, <1>6 DEF StandsOnTaps
  <2>3. \A u \in Tasks : task'[u].at # "absent" => tap'[u[1]].id # Nothing /\ u[2] <= delivered'[u[1]]
    BY <1>0 DEF StandsOnTaps
  <2> QED
    BY <1>0, <2>1, <2>2, <2>3 DEF StandsOnTaps
<1>9. SummaryStands'
  <2> SUFFICES ASSUME NEW u \in wasReady', \A v \in Taps \ {u} : tap[v].id # u,
                      ~ delivered[u] > 1, u \notin orphaned
               PROVE  /\ task'[<<u, 1>>].at \in {"written", "over"}
                      /\ \A s \in Spots : row'[s].id = u => row'[s].status = "ready"
    BY DEF SummaryStands
  <2>1. u \in wasReady => /\ task[<<u, 1>>].at \in {"written", "over"}
                          /\ \A s \in Spots : row[s].id = u => row[s].status = "ready"
    BY <1>0 DEF SummaryStands
  <2>2. CASE u = t
    <3>1. k[1] = u
      BY <1>1, <2>2 DEF t
    <3>2. delivered[u] \in Nat
      BY <1>0, <1>2, <2>2 DEF BookmarksTypeOK
    <3>3. k = <<u, 1>>
      BY <1>1, <1>2, <3>1, <3>2
    <3>4. outcome = "ready" /\ Target(k) # {}
      BY <1>3, <2>1, <3>3
    <3> QED
      BY <1>5, <2>2, <3>3, <3>4
  <2>3. CASE u # t
    <3>1. u \in wasReady
      BY <1>3, <2>3
    <3>2. <<u, 1>> # k
      BY <2>1, <3>1
    <3>3. <<u, 1>> \in Tasks
      <4>1. u \in Taps /\ 1 \in 1..MaxDuplicates + 1
        BY <1>0, <3>1, RetryAssumption DEF BookmarksTypeOK
      <4> QED
        BY <4>1 DEF Tasks
    <3> QED
      BY <1>5, <2>1, <2>3, <3>1, <3>2, <3>3
  <2> QED
    BY <2>2, <2>3
<1> QED
  BY <1>7, <1>8, <1>9 DEF SummaryInv

\* An attempt at a summary, whether it ends or dies.
LEMMA WorkStep ==
    ASSUME SummaryInv, NEW k \in Tasks,
           Work(k) \/ DieWorking(k)
    PROVE  SummaryInv'
<1>0. BookmarksTypeOK /\ StandsOnTaps /\ SummaryStands
  BY DEF SummaryInv
<1> USE DEF queueVars, history
<1>1. CASE Summarize(k)
  <2>1. PICK outcome \in {"ready", "none"} : SetSummary(k, outcome)
    BY <1>1 DEF Summarize
  <2>2. /\ task' \in [Tasks -> Task] /\ task'[k].at # "absent"
        /\ \A u \in Tasks \ {k} : task'[u] = task[u]
        /\ Target(k) # {} => task'[k].at = "written"
    <3>1. CASE Target(k) # {}
      BY <1>0, <1>1, <3>1, MoveStep DEF Summarize, BookmarksTypeOK
    <3>2. CASE Target(k) = {}
      BY <1>0, <1>1, <3>2, RetryStep DEF Summarize, BookmarksTypeOK
    <3> QED
      BY <3>1, <3>2
  <2> QED
    BY <1>1, <2>1, <2>2, UpdateStep DEF Summarize
<1>2. CASE FailSummary(k)
  <2>1. /\ task' \in [Tasks -> Task] /\ task'[k].at # "absent"
        /\ \A u \in Tasks \ {k} : task'[u] = task[u]
    BY <1>0, <1>2, RetryStep DEF FailSummary, BookmarksTypeOK
  <2> QED
    BY <1>2, <2>1, UpdateStep DEF FailSummary
<1>3. CASE Acknowledge(k)
  <2>1. /\ task' \in [Tasks -> Task] /\ task'[k].at = "over" /\ task[k].at = "written"
        /\ \A u \in Tasks \ {k} : task'[u] = task[u]
        /\ UNCHANGED <<row, tap, job, delivered, refused, wasReady, orphaned, deaths>>
    <3>1. Over("over") \in Task /\ Over("over").at = "over"
      BY RetryAssumption DEF Over, Task
    <3>2. task' = [task EXCEPT ![k] = Over("over")] /\ task[k].at = "written"
      BY <1>3 DEF Acknowledge
    <3>3. UNCHANGED <<row, tap, job, delivered, refused, wasReady, orphaned, deaths>>
      BY <1>3 DEF Acknowledge, queueVars, history
    <3> QED
      BY <1>0, <3>1, <3>2, <3>3 DEF BookmarksTypeOK
  <2>2. BookmarksTypeOK'
    BY <1>0, <2>1 DEF BookmarksTypeOK
  <2>3. StandsOnTaps'
    BY <1>0, <2>1 DEF StandsOnTaps
  <2>4. SummaryStands'
    <3>1. ASSUME NEW u \in wasReady, task[<<u, 1>>].at \in {"written", "over"}
          PROVE  task'[<<u, 1>>].at \in {"written", "over"}
      <4>1. <<u, 1>> \in Tasks
        BY <1>0, RetryAssumption DEF BookmarksTypeOK, Tasks
      <4> QED
        BY <2>1, <3>1, <4>1
    <3> QED
      BY <1>0, <2>1, <3>1, StillStands
  <2> QED
    BY <2>2, <2>3, <2>4 DEF SummaryInv
<1>4. CASE DieWorking(k)
  <2>1. /\ task' \in [Tasks -> Task] /\ task'[k].at \in {"waiting", "over", "unrecorded"}
        /\ task[k].at \in {"waiting", "written"}
        /\ \A u \in Tasks \ {k} : task'[u] = task[u]
        /\ UNCHANGED <<row, tap, job, delivered, refused, wasReady>>
        /\ deaths < MaxDeaths /\ deaths' = deaths + 1
        /\ orphaned' = IF task[k].at = "written" THEN orphaned \cup {tap[k[1]].id} ELSE orphaned
    BY <1>0, <1>4, RetryStep DEF DieWorking, BookmarksTypeOK
  <2>2. k[1] \in Taps /\ tap[k[1]].id \in Taps
    BY <1>0, <2>1 DEF StandsOnTaps, BookmarksTypeOK, Tasks
  <2>3. BookmarksTypeOK'
    <3>1. deaths' \in 0..MaxDeaths /\ orphaned' \subseteq Taps
      BY <1>0, <2>1, <2>2, RetryAssumption DEF BookmarksTypeOK
    <3> QED
      BY <1>0, <2>1, <3>1 DEF BookmarksTypeOK
  <2>4. StandsOnTaps'
    BY <1>0, <2>1 DEF StandsOnTaps
  <2>5. SummaryStands'
    <3>1. ASSUME NEW u \in wasReady, task[<<u, 1>>].at \in {"written", "over"}
          PROVE  task'[<<u, 1>>].at \in {"written", "over"} \/ u \in orphaned'
      <4>1. <<u, 1>> \in Tasks /\ <<u, 1>>[1] = u /\ tap[u].id = u
        BY <1>0, RetryAssumption DEF BookmarksTypeOK, StandsOnTaps, Tasks
      <4>2. CASE k = <<u, 1>>
        BY <2>1, <3>1, <4>1, <4>2
      <4>3. CASE k # <<u, 1>>
        BY <2>1, <3>1, <4>1, <4>3
      <4> QED
        BY <4>2, <4>3
    <3> QED
      BY <1>0, <2>1, <3>1, StillStands
  <2> QED
    BY <2>3, <2>4, <2>5 DEF SummaryInv
<1> QED
  BY <1>1, <1>2, <1>3, <1>4 DEF Work

\* Every step keeps the invariant.
LEMMA SummaryStep == SummaryInv /\ [BookmarksNext]_bookmarksVars => SummaryInv'
<1> SUFFICES ASSUME SummaryInv, [BookmarksNext]_bookmarksVars PROVE SummaryInv'
  OBVIOUS
<1>1. ASSUME NEW t \in Taps, AddBookmark(t) PROVE SummaryInv'
  BY <1>1, TapStep
<1>2. ASSUME NEW s \in Spots, DeleteBookmark(s) PROVE SummaryInv'
  BY <1>2, DeleteStep
<1>3. ASSUME NEW j \in Taps, Relay(j) PROVE SummaryInv'
  BY <1>3, QueueStep
<1>4. ASSUME NEW k \in Tasks, Work(k) \/ DieWorking(k) PROVE SummaryInv'
  BY <1>4, WorkStep
<1>5. CASE UNCHANGED bookmarksVars
  BY <1>5 DEF bookmarksVars, queueVars, history, SummaryInv, BookmarksTypeOK, StandsOnTaps,
              SummaryStands
<1> QED
  BY <1>1, <1>2, <1>3, <1>4, <1>5 DEF BookmarksNext

\* The invariant holds throughout.
LEMMA SummaryInvariant == BookmarksSpec => []SummaryInv
<1>1. BookmarksInit => SummaryInv
  BY SummaryInit
<1>2. SummaryInv /\ [BookmarksNext]_bookmarksVars => SummaryInv'
  BY SummaryStep
<1> QED
  BY <1>1, <1>2, PTL DEF BookmarksSpec

\* Two taps of a row are more than one.
LEMMA TwoTaps ==
    ASSUME NEW S \in SUBSET Taps, NEW t \in S, NEW u \in S, t # u
    PROVE  Cardinality(S) > 1
<1>1. IsFiniteSet(S)
  BY FS_Subset, TapsAssumption
<1>2. IsFiniteSet(S \ {t}) /\ Cardinality(S \ {t}) = Cardinality(S) - 1
  BY <1>1, FS_RemoveElement
<1>3. S \ {t} # {}
  OBVIOUS
<1>4. Cardinality(S \ {t}) \in Nat /\ Cardinality(S \ {t}) # 0 /\ Cardinality(S) \in Nat
  BY <1>1, <1>2, <1>3, FS_CardinalityType, FS_EmptySet
<1> QED
  BY <1>2, <1>4

\* The bookmarks, the queue and the workers have their type.
THEOREM BookmarksTyped == BookmarksSpec => []BookmarksTypeOK
<1>1. SummaryInv => BookmarksTypeOK
  BY DEF SummaryInv
<1> QED
  BY <1>1, SummaryInvariant, PTL

\* A summary is lost only to a job that ran once more: a second tap on its spot, a
\* second hand-over, or a death before the acknowledgement (SetBookmarkSummary).
THEOREM SummarySafe == BookmarksSpec => []SummaryIsKept
<1>1. SummaryInv => SummaryIsKept
  <2> SUFFICES ASSUME SummaryInv, NEW s \in Spots, row[s].id \in wasReady, row[s].status # "ready",
                      ~ delivered[row[s].id] > 1, row[s].id \notin orphaned
               PROVE  Cardinality({t \in Taps : tap[t].id = row[s].id}) > 1
    BY DEF SummaryIsKept
  <2> DEFINE id == row[s].id
  <2>1. PICK u \in Taps \ {id} : tap[u].id = id
    BY DEF SummaryInv, SummaryStands
  <2>2. id \in Taps /\ tap[id].id = id
    BY DEF SummaryInv, StandsOnTaps, BookmarksTypeOK
  <2> HIDE DEF id
  <2>3. Cardinality({t \in Taps : tap[t].id = id}) > 1
    BY <2>1, <2>2, TwoTaps
  <2> QED
    BY <2>3 DEF id
<1> QED
  BY <1>1, SummaryInvariant, PTL
=============================================================================
