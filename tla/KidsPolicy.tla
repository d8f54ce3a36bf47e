----------------------------- MODULE KidsPolicy -----------------------------
(***************************************************************************)
(* The household rules of internal/kids: what a child profile may play.    *)
(* policy.go keeps them in functions without state; so does this module.   *)
(* Time of day is counted in slots, Slots of them a day (the code has 1440 *)
(* minutes), and listening in the units of the daily limit.                *)
(***************************************************************************)
EXTENDS Integers

CONSTANTS
    Slots,          \* slots of the local day
    DefaultLimit,   \* DefaultControls: 60 minutes
    DefaultFrom,    \* DefaultControls: 06:00
    DefaultTo       \* DefaultControls: 21:00

Slot == 0 .. Slots - 1
Ages == 0 .. 18
Modes == {"allowlist_only", "kids_catalog"}
Decisions == {"none", "allow", "block"}

\* A row of kids.parental_controls, as UpdateControls lets a parent store it.
Controls == [limit : Nat, from : Slot, to : Slot, maxAge : Ages, mode : Modes]

DefaultControls(age) ==
    [limit |-> DefaultLimit, from |-> DefaultFrom, to |-> DefaultTo,
     maxAge |-> IF age > 3 THEN age ELSE 3, mode |-> "kids_catalog"]

\* The window may cross midnight; one of no width is no restriction.
WithinAllowedHours(c, slot) ==
    IF c.from = c.to THEN TRUE
    ELSE IF c.from < c.to THEN c.from <= slot /\ slot < c.to
         ELSE c.from <= slot \/ slot < c.to

RemainingSecondsToday(c, heard) ==
    IF c.limit = 0 THEN -1
    ELSE IF c.limit > heard THEN c.limit - heard ELSE 0

\* What the parent decided on this title, or else the mode and the catalogue.
Approved(c, decision, friendly) ==
    decision = "allow" \/ (c.mode = "kids_catalog" /\ friendly)

UnderAge(c, age) == c.maxAge = 0 \/ age <= c.maxAge

UnderLimit(c, heard) == c.limit = 0 \/ heard < c.limit

EvaluatePlayback(c, active, age, friendly, decision, heard, slot) ==
    /\ active
    /\ decision # "block"
    /\ Approved(c, decision, friendly)
    /\ UnderAge(c, age)
    /\ UnderLimit(c, heard)
    /\ WithinAllowedHours(c, slot)
=============================================================================
