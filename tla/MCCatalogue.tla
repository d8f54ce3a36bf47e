---------------------------- MODULE MCCatalogue ----------------------------
(* Titles and authors for the run of Catalogue. *)
EXTENDS Catalogue

Alef == \H0627
Beh  == \H0628
Teh  == \H062A
Heh  == \H0647
Qaf  == \H0642
Sad  == \H0635

Tales  == <<Qaf, Sad, Heh, ZWNJ, Heh, Alef, Yeh>>
Book84 == <<\H06F1, \H06F9, \H06F8, \H06F4>>

\* A word typed on a Persian keyboard and on an Arabic one, two words joined by a
\* ZWNJ, a number.
MCTitles == {<<Kaf, Teh, Alef, Beh>>, <<\H0643, Teh, Alef, Beh>>, Tales, Book84}

\* None, and one whose name is close to no title.
MCNames == {<<>>, <<Beh, Qaf, Alef>>}
=============================================================================
