---------------------------- MODULE MCSsosKernel ----------------------------
(***************************************************************************)
(* Small instances of SsosKernel for TLC.  The ids are short names for:    *)
(* k, u the two controller records; w and y two model rows (they stand for  *)
(* the eight); a an ordinary id; x an id longer than 39 characters, and xc *)
(* its first 39.  Bodies v1 and v2 are valid rows with different weights,  *)
(* t is text that does not decode, and v1t is v1 followed by text that the *)
(* 63-character cut removes.                                               *)
(***************************************************************************)
EXTENDS SsosKernel

CONSTANTS k, u, w, a, x, xc, y, c0, c1, c2, c3, v1, v2, v1t, t, w1, w2

MCIds == {k, u, w, y, a, x, xc}
MCCoords == {c0, c1, c2, c3}
MCBodies == {v1, v2, v1t, t}
MCWeights == {w1, w2}

MCClipId == [i \in MCIds |-> IF i = x THEN xc ELSE i]
MCClipBody == [b \in MCBodies |-> IF b = v1t THEN v1 ELSE b]
MCQ10 == [b \in MCBodies |-> IF b = v1 THEN w1 ELSE IF b = v2 THEN w2 ELSE BadRow]

P(id, d, body) == [id |-> id, d |-> d, body |-> body]

MCKernelPkt == P(k, c0, t)
MCUsbPkt == P(u, c1, t)

\* A model row with two contents and two coordinates, another row at a seed's
\* coordinate, and an over-long id at a seed's and at the first row's.
ModelInputs ==
    {P(w, c2, v1t), P(w, c0, t), P(y, c0, v2), P(x, c1, t), P(x, c2, t)}

\* Over-long ids at two coordinates, their cut form, and a seed that moves.
LongIdInputs ==
    {P(x, c1, t), P(x, c2, t), P(xc, c2, t), P(w, c2, v1), P(u, c1, t),
     P(u, c2, t)}

\* Few contents: the interleavings of saves and resets are the subject.
SaveInputs == {P(a, c2, t), P(a, c1, t)}
=============================================================================
