------------------------------ MODULE MCConsole ------------------------------
(***************************************************************************)
(* Small instances of the host programs that talk to the board through its *)
(* USB console: ssos_model, which writes model rows and reads them back,   *)
(* and ssos_cmd, ssos_host and ssos_dump, which capture what the board     *)
(* prints.  One of the two, named by part, runs; the other's variables     *)
(* keep their first value.                                                 *)
(***************************************************************************)
EXTENDS HostModel, ConsoleClients

VARIABLE part

ConsoleInit ==
    /\ part \in {"session", "model"}
    /\ Session!Init
    /\ Init
    /\ part = "session" => out = <<>> /\ \A i \in 3..PktMax : bank[i] = Empty

ConsoleNext ==
    \/ part = "session" /\ Session!Next /\ UNCHANGED <<part, vars>>
    \/ part = "model" /\ Next /\ UNCHANGED <<part, sessionVars>>

ConsoleSpec == ConsoleInit /\ [][ConsoleNext]_<<part, vars, sessionVars>>

\* Packets of other programs: four lie where the program stores a row, an
\* example, the example it has to move, and the receipt of a right prediction.
MCCrowdAt ==
    [n \in 3..PktMax |->
        CASE n = 6 -> WeightPkt(2).d
          [] n = 7 -> ExamplePkt(1).d
          [] n = 8 -> ExamplePkt(6).d
          [] n = 9 -> ReceiptPkt(2, QuerySet[2].label).d
          [] OTHER -> Sized(n, 1000)]

-----------------------------------------------------------------------------
\* Properties: SessionExact of ConsoleClients, and those of HostModel.

\* A run of ssos_model with fails=0 has stored what it meant to store.
RowsStored == TypeOK /\ PassedMeansStored
=============================================================================
