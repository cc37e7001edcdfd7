---------------------------- MODULE ConsoleClients ----------------------------
(***************************************************************************)
(* The command-line clients on the console, as a part of MCConsole: the    *)
(* instance of SerialSession, and what is promised of it.                  *)
(***************************************************************************)
CONSTANTS
    Commands, LongCommands, Slices, PerTransfer, MaxReply, LineMax, MaxSessions,
    MaySplit, Prompt

VARIABLES tool, script, slices, xfer, captured, tx, rx, line, printed, sessions, g

Session == INSTANCE SerialSession

ASSUME ConsoleAssumption == Session!SessionAssumption

sessionVars ==
    <<tool, script, slices, xfer, captured, tx, rx, line, printed, sessions, g>>

(***************************************************************************)
(* The types; a client's output is what the board printed in its window,   *)
(* in order; and the board executes the command lines that were typed,     *)
(* whole.                                                                  *)
(***************************************************************************)
SessionExact == Session!TypeOK /\ Session!CaptureExact /\ Session!CommandsWhole
=============================================================================
