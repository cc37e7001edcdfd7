---------------------------- MODULE DurableStore ----------------------------
(***************************************************************************)
(* What docs/PROTOCOL.md promises of persistence: a working copy in RAM, a *)
(* stored copy that changes only to the whole working copy of that moment, *)
(* and an acknowledgement ("OK saved") that is given only while the stored *)
(* copy equals the working copy.  A board that comes up holds the stored   *)
(* copy, or the seed when nothing is stored.                               *)
(***************************************************************************)
CONSTANTS
    Contents,   \* the values the store can hold
    Seed,       \* the contents of a store that nothing was ever saved to
    Nothing     \* no stored copy

VARIABLES
    ram,        \* the working copy (meaningless while the board is down)
    disk,       \* the stored copy
    up,         \* the board runs
    acked       \* the last answer on the console was "OK saved"

vars == <<ram, disk, up, acked>>

Init ==
    /\ ram \in Contents
    /\ disk = Nothing
    /\ up = FALSE
    /\ acked = FALSE

\* A command changes, or only looks at, the working copy.
Update ==
    /\ up
    /\ ram' \in Contents
    /\ acked' = FALSE
    /\ UNCHANGED <<disk, up>>

\* The stored copy becomes the working copy, all of it at once.
Commit ==
    /\ up
    /\ disk' = ram
    /\ UNCHANGED <<ram, up, acked>>

\* The host is told that the working copy is stored, which is then true.
Acknowledge ==
    /\ up
    /\ disk = ram
    /\ acked' = TRUE
    /\ UNCHANGED <<ram, disk, up>>

\* Power loss or reset, at any moment.
GoDown ==
    /\ up' = FALSE
    /\ acked' = FALSE
    /\ UNCHANGED <<ram, disk>>

ComeUp ==
    /\ ~up
    /\ ram' = IF disk = Nothing THEN Seed ELSE disk
    /\ up' = TRUE
    /\ UNCHANGED <<disk, acked>>

\* The installer erases the settings area of a board it has stopped.
Erase ==
    /\ ~up
    /\ disk' = Nothing
    /\ UNCHANGED <<ram, up, acked>>

Next == Update \/ Commit \/ Acknowledge \/ GoDown \/ ComeUp \/ Erase

Spec == Init /\ [][Next]_vars
=============================================================================
