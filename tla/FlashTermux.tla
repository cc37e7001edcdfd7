---------------------------- MODULE FlashTermux -----------------------------
(***************************************************************************)
(* Flashing a board from Termux: scripts/flash-termux.sh with the reset    *)
(* tools usb_bl_reset and usb_app_reset, the bridge, and the erasure of    *)
(* the settings.  The tools set the lines DTR and RTS by USB control       *)
(* transfers whose results they do not look at; the script ends at the     *)
(* first command that reports an error (set -e).                           *)
(*                                                                         *)
(* External: how the board's USB unit takes the lines.  DTR without RTS    *)
(* arms its loader, both low disarms it, RTS without DTR resets the chip,  *)
(* into the loader if that is armed.  esptool writes the images in order,  *)
(* an interrupted one is torn, and it needs loader and bridge.             *)
(***************************************************************************)
EXTENDS Integers, Sequences

CONSTANTS
    Images,     \* number of images (four)
    MaxFaults   \* bound of the model

FlashAssumption == Images \in Nat \ {0} /\ MaxFaults \in Nat

VARIABLES
    pc,         \* where the script stands
    lines,      \* what a reset tool has still to set: sequence of <<dtr, rts>>
    armed,      \* the loader is armed
    mode,       \* what the chip runs: "app" or "loader"
    flash,      \* images in flash: "old", "torn", "new"
    settings,   \* "kept" or "erased"
    initialize, \* the option --initialize-settings
    bridge,     \* cdc-pty runs and its path is known
    unset,      \* ghost: a transfer of the current tool has failed
    faults

vars == <<pc, lines, armed, mode, flash, settings, initialize, bridge, unset, faults>>
board == <<armed, mode, flash, settings>>

All(state) == [i \in 1..Images |-> state]
Flashed == flash = All("new")

\* Mutant: DTR is released before the pulse of RTS reaches the chip.
ResetLoaderSwapped == <<<<0, 0>>, <<1, 0>>, <<0, 0>>, <<0, 1>>, <<0, 0>>>>

ResetLoader == <<<<0, 0>>, <<1, 0>>, <<0, 1>>, <<0, 1>>, <<0, 0>>>>

ResetApp == <<<<0, 0>>, <<0, 1>>, <<0, 0>>>>

TypeOK ==
    /\ pc \in {"idle", "bl_reset", "bridge", "write", "verify", "erase",
               "app_reset", "completed", "failed"}
    /\ lines # <<>> => pc \in {"bl_reset", "app_reset"}
    /\ armed \in BOOLEAN
    /\ mode \in {"app", "loader"}
    /\ flash \in [1..Images -> {"old", "torn", "new"}]
    /\ settings \in {"kept", "erased"}
    /\ {initialize, bridge, unset} \subseteq BOOLEAN
    /\ faults \in 0..MaxFaults

Init ==
    /\ pc = "idle"
    /\ lines = <<>>
    /\ armed \in BOOLEAN
    /\ mode \in {"app", "loader"}
    /\ flash = All("old")
    /\ settings = "kept"
    /\ initialize = FALSE
    /\ bridge = FALSE
    /\ unset = FALSE
    /\ faults = 0

Fault == faults < MaxFaults /\ faults' = faults + 1

-----------------------------------------------------------------------------
\* The reset tools.

\* Start of the script, after its confirmation.
Start ==
    /\ pc \in {"idle", "completed", "failed"}
    /\ pc' = "bl_reset"
    /\ lines' = ResetLoader
    /\ initialize' \in BOOLEAN
    /\ unset' = FALSE
    /\ UNCHANGED <<board, bridge, faults>>

SetLine ==
    LET dtr == Head(lines)[1]  rts == Head(lines)[2] IN
    /\ lines # <<>>
    /\ lines' = Tail(lines)
    /\ armed' = (dtr = 1 \/ (armed /\ rts = 1))
    /\ mode' = IF dtr = 0 /\ rts = 1 THEN (IF armed THEN "loader" ELSE "app") ELSE mode
    /\ UNCHANGED <<pc, flash, settings, initialize, bridge, unset, faults>>

SetLineFails ==
    /\ lines # <<>>
    /\ Fault
    /\ lines' = Tail(lines)
    /\ unset' = TRUE
    /\ UNCHANGED <<pc, board, initialize, bridge>>

\* Mutant: the tool ends with a line still to be set.
ToolEndsEarly ==
    /\ Len(lines) <= 1
    /\ \/ pc = "bl_reset" /\ pc' = "bridge"
       \/ pc = "app_reset" /\ pc' = "completed"
    /\ UNCHANGED <<lines, board, initialize, bridge, unset, faults>>

\* The tool prints "ok" and returns 0 whatever became of its transfers.
ToolEnds ==
    /\ lines = <<>>
    /\ \/ pc = "bl_reset" /\ pc' = "bridge"
       \/ pc = "app_reset" /\ pc' = "completed"
    /\ UNCHANGED <<lines, board, initialize, bridge, unset, faults>>

-----------------------------------------------------------------------------
\* The script.

StartBridge ==
    /\ pc = "bridge"
    /\ bridge' = TRUE
    /\ pc' = "write"
    /\ UNCHANGED <<lines, board, initialize, unset, faults>>

\* esptool can reach the loader.
Connected == bridge /\ mode = "loader"

WriteImage ==
    /\ pc = "write" /\ Connected
    /\ \E i \in 1..Images :
          /\ flash[i] # "new" /\ \A j \in 1..(i - 1) : flash[j] = "new"
          /\ flash' = [flash EXCEPT ![i] = "new"]
    /\ UNCHANGED <<pc, lines, armed, mode, settings, initialize, bridge, unset, faults>>

\* Mutant: the end of a write is taken for its success.
WrittenUnchecked ==
    /\ pc = "write" /\ Connected
    /\ pc' = "app_reset" /\ lines' = ResetApp /\ bridge' = FALSE /\ unset' = FALSE
    /\ UNCHANGED <<board, initialize, faults>>

Written ==
    /\ pc = "write" /\ Connected /\ Flashed
    /\ pc' = "verify"
    /\ UNCHANGED <<lines, board, initialize, bridge, unset, faults>>

Finish ==
    /\ lines' = ResetApp
    /\ bridge' = FALSE
    /\ unset' = FALSE

\* verify_flash reads the images back.
Verified ==
    /\ pc = "verify" /\ Connected /\ Flashed
    /\ IF initialize
         THEN pc' = "erase" /\ UNCHANGED <<lines, bridge, unset>>
         ELSE pc' = "app_reset" /\ Finish
    /\ UNCHANGED <<board, initialize, faults>>

\* Mutant: the settings are initialised before the images are written.
EraseEarly ==
    /\ pc \in {"write", "erase"} /\ Connected
    /\ settings' = "erased"
    /\ IF pc = "erase" THEN pc' = "app_reset" /\ Finish
                       ELSE UNCHANGED <<pc, lines, bridge, unset>>
    /\ UNCHANGED <<armed, mode, flash, initialize, faults>>

Erase ==
    /\ pc = "erase" /\ Connected
    /\ settings' = "erased"
    /\ pc' = "app_reset"
    /\ Finish
    /\ UNCHANGED <<armed, mode, flash, initialize, faults>>

\* A command of the script fails, and with it the script: the bridge is
\* killed and the chip left as it is.  The image being written is torn.
Aborts ==
    /\ pc' = "failed"
    /\ bridge' = FALSE
    /\ flash' \in {flash} \cup
         (IF pc = "write" /\ Connected
            THEN {[flash EXCEPT ![i] = "torn"] : i \in 1..Images} ELSE {})
    /\ UNCHANGED <<lines, initialize, unset>>

Fails ==
    /\ pc \in {"bridge", "write", "verify", "erase"}
    /\ Fault
    /\ Aborts
    /\ UNCHANGED <<armed, mode, settings>>

\* esptool finds no loader, or the bridge has ended (PtyBridge).
Unreachable ==
    /\ pc \in {"write", "verify", "erase"} /\ ~Connected
    /\ Aborts
    /\ UNCHANGED <<armed, mode, settings, faults>>

BridgeEnds ==
    /\ bridge
    /\ Fault
    /\ bridge' = FALSE
    /\ UNCHANGED <<pc, lines, board, initialize, unset>>

\* The cable is pulled or power lost: the chip starts its application.
PowerCycle ==
    /\ Fault
    /\ armed' = FALSE
    /\ mode' = "app"
    /\ flash' \in {flash} \cup
         (IF pc = "write" /\ Connected
            THEN {[flash EXCEPT ![i] = "torn"] : i \in 1..Images} ELSE {})
    /\ bridge' = FALSE
    /\ UNCHANGED <<pc, lines, settings, initialize, unset>>

Step ==
    \/ SetLine \/ ToolEnds \/ StartBridge \/ WriteImage \/ Written
    \/ Verified \/ Erase \/ Unreachable

Next == Start \/ Step \/ SetLineFails \/ Fails \/ BridgeEnds \/ PowerCycle

Spec == Init /\ [][Next]_vars

\* The script runs, and who sees it fail starts it again.
FairSpec == Spec /\ WF_vars(Step) /\ WF_vars(pc # "completed" /\ Start)

-----------------------------------------------------------------------------
\* Properties.

(***************************************************************************)
(* A script that completes has put every image on the board, whatever was  *)
(* interrupted in this or an earlier attempt; and if every transfer of     *)
(* usb_app_reset was made since the last power cycle, the application      *)
(* runs, whatever state the lines were left in.                            *)
(***************************************************************************)
CompletedMeansFlashed ==
    pc = "completed" => Flashed /\ (~unset => mode = "app")

(***************************************************************************)
(* docs/FLASHING.md: settings are cleared "only ... after image            *)
(* verification": never with an image missing or torn.                     *)
(***************************************************************************)
ErasedOnlyAfterVerify == [][settings' # settings => Flashed]_vars

(***************************************************************************)
(* A board with torn images, or one left in the loader, is no lost board:  *)
(* once nothing fails any more, repeating the script completes it.         *)
(***************************************************************************)
CanBeRepeated == <>(pc = "completed" /\ Flashed)

(***************************************************************************)
(* docs/FLASHING.md: "`usb_app_reset` explicitly releases DTR and pulses   *)
(* RTS to start the app."  When it has reported success the app runs.      *)
(***************************************************************************)
AppResetStartsApp == pc = "completed" => mode = "app"
=============================================================================
