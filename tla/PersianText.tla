---------------------------- MODULE PersianText ----------------------------
(***************************************************************************)
(* The two folds that make Persian spellings alike, and what the database  *)
(* compares after them.  A text is a sequence of code points.              *)
(*                                                                         *)
(* The query goes through NormalizePersian of internal/catalog, then, like *)
(* every stored text, through catalog.normalize_fa of the migrations.      *)
(***************************************************************************)
EXTENDS Integers, SequencesExt

Space == 32
ZWNJ  == \H200C
LRM   == \H200E
RLM   == \H200F
Yeh   == \H06CC
Kaf   == \H06A9

\* Code points that follow one another.
Block(first, n) == [i \in 1..n |-> first + i - 1]

ArabicDigits  == Block(\H0660, 10)
PersianDigits == Block(\H06F0, 10)
AsciiDigits   == Block(48, 10)

\* The harakat, removed by both folds.
Bare(text) == SelectSeq(text, LAMBDA c : c \notin \H064B..\H0652)

-----------------------------------------------------------------------------
(* NormalizePersian *)

Replacement(c) ==
    CASE c \in {\H064A, \H0649}      -> <<Yeh>>
      [] c = \H0643                  -> <<Kaf>>
      [] c = ZWNJ                    -> <<Space>>
      [] c \in {RLM, LRM}            -> <<>>
      [] c \in ToSet(ArabicDigits)   -> <<c - \H0660 + 48>>
      [] c \in ToSet(PersianDigits)  -> <<c - \H06F0 + 48>>
      [] OTHER                       -> <<c>>

\* strings.Fields, joined again: one space between words, none around them.
Squeezed(text) ==
    LET kept == SelectSeq([i \in DOMAIN text |-> i],
                    LAMBDA i : \/ text[i] # Space
                               \/ /\ i < Len(text) /\ text[i + 1] # Space
                                  /\ \E j \in 1..i : text[j] # Space)
    IN  [k \in DOMAIN kept |-> text[kept[k]]]

NormalizePersian(text) ==
    Squeezed(Bare(FlattenSeq([i \in DOMAIN text |-> Replacement(text[i])])))

-----------------------------------------------------------------------------
(* catalog.normalize_fa *)

\* The two strings of the call of translate, piece by piece.
From == <<\H064A, \H0649, \H0643, \HFB8E, \HFB8F, \HFB90, \HFB91>>
        \o ArabicDigits \o PersianDigits \o <<ZWNJ, LRM, RLM>>

To == <<Yeh, Yeh, Yeh, Kaf, Kaf, Kaf>>
      \o AsciiDigits \o AsciiDigits \o <<Space, Space, Space>>

\* translate: a character of From becomes the one of To in the same place; one
\* that has none there is removed.
Translated(c) ==
    LET at == SelectInSeq(From, LAMBDA d : d = c)
    IN  CASE at = 0       -> <<c>>
          [] at > Len(To) -> <<>>
          [] OTHER        -> <<To[at]>>

NormalizeFa(text) == Bare(FlattenSeq([i \in DOMAIN text |-> Translated(text[i])]))

-----------------------------------------------------------------------------
(* Full text, trigrams, ILIKE *)

\* The words of a text: longest runs without a space.
Words(text) ==
    {SubSeq(text, i, j) : <<i, j>> \in
        {p \in (1..Len(text)) \X (1..Len(text)) :
            /\ p[1] <= p[2]
            /\ \A k \in p[1]..p[2] : text[k] # Space
            /\ p[1] > 1 => text[p[1] - 1] = Space
            /\ p[2] < Len(text) => text[p[2] + 1] = Space}}

\* plainto_tsquery asks for all the words of the query; none match no text.
MatchesWords(text, query) == Words(query) # {} /\ Words(query) \subseteq Words(text)

\* pg_trgm pads each word with two spaces in front and one behind.
Trigrams(text) ==
    UNION {LET padded == <<Space, Space>> \o w \o <<Space>>
           IN  {SubSeq(padded, i, i + 2) : i \in 1..Len(padded) - 2} : w \in Words(text)}

\* The operator %: a similarity of three tenths, the default of pg_trgm.
IsSimilar(text, query) ==
    LET shared == Trigrams(text) \cap Trigrams(query)
        all    == Trigrams(text) \cup Trigrams(query)
    IN  all # {} /\ 10 * Cardinality(shared) >= 3 * Cardinality(all)

HasPart(text, part) == \E i \in 0..Len(text) - Len(part) : SubSeq(text, i + 1, i + Len(part)) = part
=============================================================================
