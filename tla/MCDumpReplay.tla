---------------------------- MODULE MCDumpReplay ----------------------------
(***************************************************************************)
(* A small instance of DumpReplay: the seed records k and u, three more    *)
(* ids that visit the seed coordinates and each other's, and one record    *)
(* (a at c3) whose line is too long to come back whole.                    *)
(***************************************************************************)
EXTENDS DumpReplay

CONSTANTS k, u, a, e, x, xc, c0, c1, c2, c3, s, s1

MCIds == {k, u, a, e, x, xc}
MCBodies == {s, s1}
MCCoords == {c0, c1, c2, c3}
MCClipId == [i \in MCIds |-> IF i = x THEN xc ELSE i]
MCClipBody == [b \in MCBodies |-> b]
MCQ10 == [b \in MCBodies |-> BadRow]

P(id, d, body) == [id |-> id, d |-> d, body |-> body]

MCKernelPkt == P(k, c0, s)
MCUsbPkt == P(u, c1, s)

MCLineBody ==
    [p \in Packet |-> IF p = P(a, c3, s1) THEN s ELSE p.body]

MCInputs ==
    {P(k, c1, s), P(k, c2, s), P(u, c0, s), P(u, c2, s), P(a, c0, s), P(a, c3, s1),
     P(e, c1, s), P(e, c2, s), P(x, c3, s)}

\* Every id short, every line short, room for all: only coordinates collide.
MovedInputs == {P(a, c2, s), P(e, c2, s), P(e, c3, s)}
=============================================================================
