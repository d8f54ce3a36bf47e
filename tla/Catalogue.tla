----------------------------- MODULE Catalogue -----------------------------
(***************************************************************************)
(* The books of internal/catalog: how the ingest panel puts them there     *)
(* (CreateBookInTx) and how a listener finds them (Service.Search).  A     *)
(* title is stored as it was typed and folded by the database alone; the   *)
(* query is folded by the service and then by the database.                *)
(*                                                                         *)
(* CreateBookInTx runs in the transaction of its caller.  Two of them that *)
(* want one slug, or one author, wait for each other in the database, so   *)
(* a committed call is one step.                                           *)
(***************************************************************************)
EXTENDS PersianText, FiniteSets

CONSTANTS
    Titles,         \* the titles editors type
    Names,          \* the names of authors; the empty text stands for none
    RandomSuffixes, \* what randomSuffix may return
    MaxBooks        \* bound on the books

VARIABLES
    books,          \* rows of catalog.books, by slug
    authors         \* rows of catalog.authors: the name under a slug

vars == <<books, authors>>

NoAuthor == <<>>

Book == [slug : Seq(Nat) \X (RandomSuffixes \cup {0}), title : Titles, author : Seq(Nat), licensed : BOOLEAN]

TypeOK ==
    /\ books \subseteq Book
    /\ \A s \in DOMAIN authors : s \in Seq(Nat) /\ authors[s] \in Names

Init == books = {} /\ authors = <<>>

-----------------------------------------------------------------------------
Dash == 45

\* Letters and digits stay, blanks and ZWNJ become dashes, the rest goes.
Slugify(text) ==
    LET kept   == SelectSeq(Bare(text), LAMBDA c : c \notin {LRM, RLM})
        dashed == [i \in DOMAIN kept |-> IF kept[i] = ZWNJ THEN Space ELSE kept[i]]
        words  == Squeezed(dashed)
    IN  [i \in DOMAIN words |-> IF words[i] = Space THEN Dash ELSE words[i]]

\* "book", for a title without a letter.
Untitled == <<98, 111, 111, 107>>

Taken == {b.slug : b \in books}

\* The title's own slug, or it and a suffix: six attempts, of which the first that
\* is free is taken (CreateBookIfSlugFree), and none may be.
Slugs(title) ==
    LET base == IF Slugify(title) = <<>> THEN Untitled ELSE Slugify(title)
    IN  IF <<base, 0>> \notin Taken
        THEN {<<base, 0>>}
        ELSE {<<base, x>> : x \in {y \in RandomSuffixes : <<base, y>> \notin Taken}}

\* An author is known by the slug of the name, and the last spelling stays.
UpsertAuthorByName(name) ==
    authors' = IF name = <<>>
               THEN authors
               ELSE [s \in DOMAIN authors \cup {Slugify(name)} |->
                        IF s = Slugify(name) THEN name ELSE authors[s]]

\* The grant that HasActiveRights asks for comes with the book.
CreateBookInTx(title, name) ==
    /\ Cardinality(books) < MaxBooks
    /\ UpsertAuthorByName(name)
    /\ \E slug \in Slugs(title) :
          books' = books \cup {[slug     |-> slug,
                                title    |-> title,
                                author   |-> IF name = <<>> THEN NoAuthor ELSE Slugify(name),
                                licensed |-> TRUE]}

Next == \E t \in Titles, n \in Names : CreateBookInTx(t, n)

Spec == Init /\ [][Next]_vars

-----------------------------------------------------------------------------
MinSearchQueryLength == 2

\* The arms of the WHERE clause of SearchBooks, for a book and a query.
Matches(book, query) ==
    LET q     == NormalizeFa(query)
        title == NormalizeFa(book.title)
    IN  \/ MatchesWords(title, q)
        \/ IsSimilar(title, q)
        \/ HasPart(title, q)
        \/ book.author # NoAuthor /\ IsSimilar(NormalizeFa(authors[book.author]), q)

\* The books a listener is shown; a query that is too short is refused.
Search(raw) ==
    LET query == NormalizePersian(raw)
    IN  IF Len(query) < MinSearchQueryLength THEN {} ELSE {b \in books : Matches(b, query)}

\* "The fold lives in SQL (catalog.normalize_fa) so the *index* and the *query*
\* agree": a book is found by its title as the editor typed it (Service.Search,
\* normalize_fa).
TitleFindsItsBook ==
    \A b \in books : Len(NormalizePersian(b.title)) >= MinSearchQueryLength => b \in Search(b.title)
=============================================================================
