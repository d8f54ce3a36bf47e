----------------------------- MODULE MediaRange -----------------------------
(***************************************************************************)
(* The arithmetic of internal/media: how many bytes a preview is, and how  *)
(* a Range header is cut down to it.  Parsing is left out: a header is     *)
(* taken for what it says, and all that cannot be served of a preview --   *)
(* several ranges, another unit, numbers that are none -- is "bad".        *)
(***************************************************************************)
EXTENDS Integers

\* last = -1 is "bytes=first-".  A suffix range names no first byte.
NoRange == [kind |-> "none", first |-> 0, last |-> -1]
Suffix == [kind |-> "suffix", first |-> 0, last |-> -1]
Bad == [kind |-> "bad", first |-> 0, last |-> -1]
Span(first, last) == [kind |-> "span", first |-> first, last |-> last]

RangeHeader == [kind : {"none", "span", "suffix", "bad"}, first : Nat, last : Nat \cup {-1}]

\* Seconds at a constant bitrate, and 64 KiB for the container.
PreviewByteLimit(maxSeconds, kbps) ==
    IF maxSeconds <= 0 THEN 0
    ELSE (maxSeconds * (IF kbps <= 0 THEN 48 ELSE kbps) * 1000) \div 8 + 65536

\* The bytes to ask of the store, or the error.
Refused == [ok |-> FALSE, first |-> 0, last |-> -1]
Served(first, last) == [ok |-> TRUE, first |-> first, last |-> last]

\* An open end is left to the store.
ClampClosedRange(r, limit) ==
    IF limit <= 0 THEN Refused
    ELSE IF r.kind = "none" THEN Served(0, limit - 1)
    ELSE IF r.kind # "span" \/ r.first >= limit THEN Refused
    ELSE IF r.last = -1 THEN Served(r.first, -1)
    ELSE IF r.last < r.first THEN Refused
    ELSE Served(r.first, IF r.last < limit THEN r.last ELSE limit - 1)

ClampRange(r, limit) ==
    IF limit <= 0 THEN Refused
    ELSE IF r.kind = "none" THEN Served(0, limit - 1)
    ELSE IF r.kind # "span" \/ r.first >= limit THEN Refused
    ELSE IF r.last = -1 THEN Served(r.first, limit - 1)
    ELSE IF r.last < r.first THEN Refused
    ELSE Served(r.first, IF r.last < limit THEN r.last ELSE limit - 1)
=============================================================================
