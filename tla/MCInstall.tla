------------------------------ MODULE MCInstall ------------------------------
(***************************************************************************)
(* Small instances of the programs with which a phone is made to flash the *)
(* board: flash-termux.sh with its reset tools, and the bridge cdc-pty,    *)
(* whose two threads carry the flasher's bytes.  One of the two, named by  *)
(* program, runs; the other's variables keep their first value.            *)
(***************************************************************************)
EXTENDS Integers, Sequences, FiniteSets, Functions

CONSTANTS
    Images, MaxFaults,                      \* of FlashTermux
    MaxPrinted, MaxTyped, Chunk, PtyCap     \* of PtyBridge

VARIABLES
    program,    \* the one that runs
    pc, lines, armed, mode, flash, settings, initialize, bridge, unset, faults,
    stop, threadU, threadM, tty, seen, keys, got, fromBoard, typed, timedOut, raw

Flash == INSTANCE FlashTermux
Pty == INSTANCE PtyBridge WITH
    u <- threadU, m <- threadM, printed <- fromBoard, lost <- timedOut

ASSUME InstallAssumption == Flash!FlashAssumption /\ Pty!BridgeAssumption

flashVars == <<pc, lines, armed, mode, flash, settings, initialize, bridge, unset, faults>>
ptyVars == <<stop, threadU, threadM, tty, seen, keys, got, fromBoard, typed, timedOut, raw>>

InstallInit ==
    /\ program \in {"pty", "flash"}
    /\ Pty!Init
    /\ Flash!Init
    /\ program = "pty" => mode = "app" /\ ~armed

InstallNext ==
    \/ program = "pty" /\ Pty!Next /\ UNCHANGED <<program, flashVars>>
    \/ program = "flash" /\ Flash!Next /\ UNCHANGED <<program, ptyVars>>

\* FairSpec of PtyBridge and of FlashTermux.
Fairness ==
    /\ WF_ptyVars(program = "pty" /\ Pty!UStep)
    /\ WF_ptyVars(program = "pty" /\ Pty!MStep)
    /\ WF_flashVars(program = "flash" /\ Flash!Step)
    /\ WF_flashVars(program = "flash" /\ pc # "completed" /\ Flash!Start)

InstallSpec == InstallInit /\ [][InstallNext]_<<program, ptyVars, flashVars>> /\ Fairness

-----------------------------------------------------------------------------
\* Properties: those of FlashTermux, and those of PtyBridge.

(***************************************************************************)
(* The types; the board takes what was typed, in order and without         *)
(* repetition; the terminal gets what the board printed, in order, but for *)
(* lost transfers; and the device and the pty are closed when no thread    *)
(* uses them any more.                                                     *)
(***************************************************************************)
BridgeExact == Flash!TypeOK /\ Pty!BridgeExact

\* An installation that says completed has written every image.
CompletedMeansFlashed == Flash!CompletedMeansFlashed

\* Settings are erased of a board that holds every image, only.
ErasedOnlyAfterVerify == Flash!ErasedOnlyAfterVerify

\* A bridge that is told to stop ends, or hangs in a call that nothing wakes.
StopsOrBlocks == program = "pty" => Pty!StopsOrBlocks

\* An installation that failed can be repeated until it succeeds.
FlashCanBeRepeated == program = "flash" => Flash!CanBeRepeated
=============================================================================
