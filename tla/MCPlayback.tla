----------------------------- MODULE MCPlayback -----------------------------
(***************************************************************************)
(* A paid edition with a preview, one without, and a free one; a parent    *)
(* who lifts the limit of the defaults and lists what may be heard, at     *)
(* night; and the ranges players send.                                     *)
(***************************************************************************)
EXTENDS Playback

Catalogue == {[free |-> FALSE, preview |-> 60], [free |-> FALSE, preview |-> 0],
              [free |-> TRUE, preview |-> 0]}

Settings == {[limit |-> 0, from |-> 1, to |-> 0, maxAge |-> 9, mode |-> "allowlist_only"]}

Headers == {NoRange, Suffix, Bad, Span(0, -1), Span(425000, 500000), Span(425536, -1)}
=============================================================================
