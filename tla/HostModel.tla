----------------------------- MODULE HostModel ------------------------------
(***************************************************************************)
(* The legacy program host/ssos_model.c with the packet bank of the board  *)
(* it talks to: it stores four weight rows and twelve examples, reads the  *)
(* rows back, infers with what came back, stores receipts, and compares a  *)
(* DUMP with what it knows.                                                *)
(*                                                                         *)
(* A command is answered by a reply of two pieces: the head with the words *)
(* the program looks for, and the end of its text.  A window delivers a    *)
(* part of what the board has printed and may lose a piece of it; the rest *)
(* comes in a later window.  Nothing but words ties a reply to a command,  *)
(* and a command that could not be sent is not sent again.                 *)
(*                                                                         *)
(* The texts, stems and coordinates are the program's own.  Training and   *)
(* softmax are left out: a prediction is the label or Other.               *)
(***************************************************************************)
EXTENDS Integers, Sequences, FiniteSets

CONSTANTS
    PktMax,     \* PKT_MAX, 32 in the firmware
    Lag,        \* model parameter: pieces a window may leave behind
    MaxLost,    \* bound of the model: commands not sent, pieces lost
    Doubtful,   \* bound of the model: queries that may be misclassified
    Crowd,      \* numbers of packets of other programs in the bank
    CrowdAt,    \* the coordinates at which they lie, any whatever
    Empty       \* a slot whose `used` flag is 0

ASSUME HostModelAssumption ==
    /\ PktMax \in Nat /\ PktMax >= 2
    /\ {Lag, MaxLost} \subseteq Nat
    /\ Crowd \subseteq 0..(PktMax - 2)
    /\ CrowdAt \in [3..PktMax -> [1..9 -> Int]]
    /\ Doubtful \subseteq 1..4

Axes == 1..9
Classes == 0..3
Other(c) == (c + 1) % 4

Stems ==
    <<{"boot", "efi", "rom", "startup", "loader"},
      {"kernel", "firmware", "image", "slot"},
      {"readme", "spec", "architecture", "charter", "document"},
      {"report", "text", "notes", "contract"},
      {"sensor", "payload", "bytes", "blob", "body"},
      {"opaque", "swap", "model"},
      {"journal", "note", "memo", "reminder", "card"},
      {"write", "send", "read"},
      {"short", "nine", "all"}>>

\* A text is the set of its words, which a hyphen separates as well.
TrainSet ==
    <<[words |-> {"efi", "kernel", "boot", "loader"}, label |-> 0],
      [words |-> {"boot", "image", "firmware", "slot"}, label |-> 0],
      [words |-> {"startup", "boot", "rom"}, label |-> 0],
      [words |-> {"readme", "architecture", "spec"}, label |-> 1],
      [words |-> {"document", "notes", "report"}, label |-> 1],
      [words |-> {"charter", "contract", "text"}, label |-> 1],
      [words |-> {"sensor", "payload", "bytes"}, label |-> 2],
      [words |-> {"swap", "test", "body", "blob"}, label |-> 2],
      [words |-> {"opaque", "model", "payload"}, label |-> 2],
      [words |-> {"journal", "note", "memo"}, label |-> 3],
      [words |-> {"all", "nine", "note", "card"}, label |-> 3],
      [words |-> {"short", "note", "reminder"}, label |-> 3]>>

QuerySet ==
    <<[words |-> {"boot", "the", "kernel", "image"}, label |-> 0],
      [words |-> {"read", "the", "spec", "document"}, label |-> 1],
      [words |-> {"send", "payload", "bytes"}, label |-> 2],
      [words |-> {"write", "a", "journal", "note"}, label |-> 3]>>

Examples == 1..Len(TrainSet)
Queries == 1..Len(QuerySet)

-----------------------------------------------------------------------------
\* Coordinates.

\* embed and has_stem: stems of each axis in the text, then a unit vector;
\* a text without a stem lies on the first axis.
Count(words, a) == Cardinality(Stems[a] \cap words)

SumOfSquares(words) ==
    LET sum[a \in 0..9] == IF a = 0 THEN 0 ELSE sum[a - 1] + Count(words, a) * Count(words, a)
    IN  sum[9]

\* lroundf(x * 10) for x = n / sqrt(s).
Tenfold(n, s) ==
    CHOOSE r \in 0..10 :
        /\ r = 0 \/ (2 * r - 1) * (2 * r - 1) * s <= 400 * n * n
        /\ 400 * n * n < (2 * r + 1) * (2 * r + 1) * s

Coord(words) ==
    LET s == SumOfSquares(words)
    IN  IF s = 0 THEN [a \in Axes |-> IF a = 1 THEN 10 ELSE 0]
        ELSE [a \in Axes |-> Tenfold(Count(words, a), s)]

\* Mutant: an example goes where its text says, whoever is there.
PlaceUnshifted(i, earlier) == Coord(TrainSet[i].words)

\* The ninth coordinate is raised at each earlier example found in the place.
Place(i, earlier) ==
    LET at[j \in 0..(i - 1)] ==
            IF j = 0 THEN Coord(TrainSet[i].words)
            ELSE IF at[j - 1] = earlier[j] THEN [at[j - 1] EXCEPT ![9] = @ + 1]
            ELSE at[j - 1]
    IN  at[i - 1]

Placed ==
    LET placed[n \in 0..Len(TrainSet)] ==
            IF n = 0 THEN <<>> ELSE Append(placed[n - 1], Place(n, placed[n - 1]))
    IN  placed[Len(TrainSet)]

QueryAt == [q \in Queries |-> Coord(QuerySet[q].words)]

Distance(d, e) ==
    LET sum[a \in 0..9] == IF a = 0 THEN 0 ELSE sum[a - 1] + (d[a] - e[a]) * (d[a] - e[a])
    IN  sum[9]

\* The first of the nearest among the examples es.
Nearest(d, es) ==
    CHOOSE e \in es : \A f \in es :
        \/ Distance(d, Placed[e]) < Distance(d, Placed[f])
        \/ Distance(d, Placed[e]) = Distance(d, Placed[f]) /\ e <= f

-----------------------------------------------------------------------------
\* Packets and the bank.

Id(kind, n) == <<kind, n>>
Sized(n, m) == <<n, m, 0, 0, 0, 0, 0, 0, 0>>
P(id, d, body) == [id |-> id, d |-> d, body |-> body]

WeightPkt(c) == P(Id("w", c), Sized(80, c), <<"row", c>>)
ExamplePkt(i) == P(Id("ex", i), Placed[i], <<"label", TrainSet[i].label>>)
ReceiptPkt(i, pred) == P(Id("rx", i), <<90, i, pred, 0, 0, 0, 0, 0, 0>>, <<"label", pred>>)

\* Slots 3 and 4 hold ids to be deleted, slot 5 a row of an earlier run.  The
\* others are of other programs, which chose the coordinates as they liked.
CrowdPkt(n) ==
    IF n = 5 THEN P(Id("w", 0), Sized(80, 0), <<"row", 1>>)
    ELSE P(IF n \in {3, 4} THEN Id("old", n - 3) ELSE Id("crowd", n),
           CrowdAt[n], <<"other", 0>>)

AllIds ==
    ({"w", "old", "ctrl"} \X (0..3)) \cup ({"ex", "rx"} \X Examples) \cup ({"crowd"} \X (0..PktMax))
AllBodies == ({"row", "label"} \X Classes) \cup {<<"other", 0>>}

Bank == INSTANCE PacketBank WITH
    Ids <- AllIds, Coords <- [Axes -> Int], Bodies <- AllBodies,
    ClipId <- [i \in AllIds |-> i], ClipBody <- [b \in AllBodies |-> b],
    ModelIds <- {}, RowIds <- {}, Weights <- {0}, BadRow <- 1,
    Q10 <- [b \in AllBodies |-> 1], Empty <- Empty, NoModel <- <<0>>,
    KernelPkt <- P(Id("ctrl", 0), Sized(0, 0), <<"other", 0>>),
    UsbPkt <- P(Id("ctrl", 1), Sized(1, 0), <<"other", 0>>)

ASSUME EmptyAssumption == Empty \notin Bank!Packet

VARIABLES
    step,       \* the command being sent, in the order of Script
    waiting,    \* it has been sent, and its window is open
    bank,
    out,        \* pieces the board has printed and the host not received
    chip,       \* rows read back: what chipW[c], chipb[c] hold
    preds,      \* predictions made
    failed,     \* fail > 0
    lost        \* commands not sent and pieces lost

vars == <<step, waiting, bank, out, chip, preds, failed, lost>>

Script ==
    <<[do |-> "ID", n |-> 0], [do |-> "DEL", n |-> 0], [do |-> "DEL", n |-> 1]>>
    \o [c \in 1..4 |-> [do |-> "PKT_W", n |-> c - 1]]
    \o [i \in Examples |-> [do |-> "PKT_EX", n |-> i]]
    \o [c \in 1..4 |-> [do |-> "GET", n |-> c - 1]]
    \o [i \in Queries |-> [do |-> "PKT_RX", n |-> i]]
    \o <<[do |-> "DUMP", n |-> 0]>>

Done == Len(Script) + 1
Now == Script[step]

\* The two pieces of a printed record or message; body is "none" without one.
Reply(kind, id, body) ==
    <<[kind |-> kind, id |-> id, body |-> body, head |-> TRUE],
      [kind |-> kind, id |-> id, body |-> body, head |-> FALSE]>>
Message(kind) == Reply(kind, Id("none", 0), <<"none", 0>>)

Unread == [c \in Classes |-> <<"zero", 0>>]

TypeOK ==
    /\ step \in 1..Done
    /\ waiting \in BOOLEAN
    /\ \A i \in 1..PktMax : bank[i] # Empty => bank[i].id \in AllIds /\ bank[i].body \in AllBodies
    /\ Len(out) <= Lag + 2 * (PktMax + 1)
    /\ chip \in [Classes -> {<<"zero", 0>>} \cup ({"row", "cut"} \X Classes)]
    /\ Len(preds) <= Len(QuerySet)
    /\ failed \in BOOLEAN
    /\ lost \in 0..MaxLost

\* A seeded bank with packets of other programs and runs, and the end of what
\* an earlier program that was interrupted did not read.
Init ==
    /\ step = 1
    /\ waiting = FALSE
    /\ \E n \in Crowd :
          bank = [i \in 1..PktMax |-> IF i <= 2 THEN Bank!SeedBank[i]
                                      ELSE IF i <= n + 2 THEN CrowdPkt(i) ELSE Empty]
    /\ out \in {<<>>, Reply("recv", Id("w", 3), <<"row", 3>>),
                Reply("got", Id("w", 1), <<"row", 1>>)}
    /\ chip = Unread
    /\ preds = <<>>
    /\ failed = FALSE
    /\ lost = 0

-----------------------------------------------------------------------------
\* The board: handlePkt, handleGet, handleDel, cmdId and cmdDump.

Lookup(id) == Bank!FindById(bank, id)

BoardPkt(p) ==
    IF Bank!StoreSlot(bank, p) = Bank!NoSlot
      THEN out' = out \o Message("err") /\ UNCHANGED bank
      ELSE bank' = Bank!StorePacket(bank, p) /\ out' = out \o Reply("recv", p.id, p.body)

BoardDel(id) ==
    IF Lookup(id) = Bank!NoSlot
      THEN out' = out \o Message("err") /\ UNCHANGED bank
      ELSE bank' = [bank EXCEPT ![Lookup(id)] = Empty] /\ out' = out \o Message("deleted")

BoardGet(id) ==
    /\ out' = out \o (IF Lookup(id) = Bank!NoSlot THEN Message("err")
                      ELSE Reply("got", id, bank[Lookup(id)].body))
    /\ UNCHANGED bank

BoardDump ==
    LET line[i \in 0..PktMax] ==
            IF i = 0 THEN <<>> ELSE line[i - 1] \o
                (IF bank[i] = Empty THEN <<>> ELSE Reply("dump", bank[i].id, bank[i].body))
    IN  out' = out \o line[PktMax] /\ UNCHANGED bank

\* Execution of the command the host sends at this step.
Execute ==
    \/ Now.do = "ID" /\ out' = out \o Message("id") /\ UNCHANGED bank
    \/ Now.do = "DEL" /\ BoardDel(Id("old", Now.n))
    \/ Now.do = "PKT_W" /\ BoardPkt(WeightPkt(Now.n))
    \/ Now.do = "PKT_EX" /\ BoardPkt(ExamplePkt(Now.n))
    \/ Now.do = "GET" /\ BoardGet(Id("w", Now.n))
    \/ Now.do = "PKT_RX" /\ BoardPkt(ReceiptPkt(Now.n, preds'[Now.n]))
    \/ Now.do = "DUMP" /\ BoardDump

-----------------------------------------------------------------------------
\* The program.

\* A query is classified just before its receipt is sent; a wrong class is a
\* failure, and the run goes on.
Infer ==
    IF Now.do # "PKT_RX" THEN UNCHANGED <<preds, failed>>
    ELSE LET label == QuerySet[Now.n].label IN
         \E p \in {label} \cup (IF Now.n \in Doubtful THEN {Other(label)} ELSE {}) :
            /\ preds' = Append(preds, p)
            /\ failed' = (failed \/ p # label)

Send ==
    /\ step < Done /\ ~waiting
    /\ Infer
    /\ Execute
    /\ waiting' = TRUE
    /\ UNCHANGED <<step, chip, lost>>

\* The bulk transfer fails; the program does not look at send's result.
SendFails ==
    /\ step < Done /\ ~waiting
    /\ lost < MaxLost
    /\ Infer
    /\ waiting' = TRUE
    /\ lost' = lost + 1
    /\ UNCHANGED <<step, bank, out, chip>>

\* What a window that takes the first k pieces and loses piece x received.
Received(k, x) ==
    SubSeq(out, 1, IF x = 0 THEN k ELSE x - 1) \o (IF x = 0 THEN <<>> ELSE SubSeq(out, x + 1, k))

Heads(got, kind) == {i \in 1..Len(got) : got[i].head /\ got[i].kind = kind}

\* Mutant: what does not parse as a number is a number too.
BodyAnyText(got) ==
    LET B == {i \in 1..Len(got) : got[i].head /\ got[i].kind \in {"recv", "got"}}
    IN  {got[i].body : i \in {j \in B : \A k \in B : j <= k}}

\* parse_body_ints takes the first body= in the window; without the end of
\* that reply its last number is cut, or missing.
Body(got) ==
    LET B == {i \in 1..Len(got) : got[i].head /\ got[i].kind \in {"recv", "got"}}
        i == CHOOSE i \in B : \A j \in B : i <= j
    IN  IF B = {} \/ got[i].body[1] # "row" THEN {}
        ELSE IF i < Len(got) /\ got[i + 1] = [got[i] EXCEPT !.head = FALSE]
               THEN {got[i].body}
               ELSE {<<"cut", got[i].body[2]>>, <<"none", 0>>}

\* Mutant: a reply that does not parse leaves the row without an error.
ReadBackUnchecked(got) ==
    IF Heads(got, "got") = {} \/ Body(got) = {} THEN UNCHANGED <<chip, failed>>
    ELSE \E v \in Body(got) :
            /\ chip' = IF v[1] = "none" THEN chip ELSE [chip EXCEPT ![Now.n] = v]
            /\ UNCHANGED failed

ReadBack(got) ==
    IF Heads(got, "got") = {} \/ Body(got) = {} THEN failed' = TRUE /\ UNCHANGED chip
    ELSE \E v \in Body(got) :
            /\ chip' = IF v[1] = "none" THEN chip ELSE [chip EXCEPT ![Now.n] = v]
            /\ failed' = (failed \/ v[1] = "none")

\* Mutant: any answer is taken for a receipt.
StoredAnyAnswer(got) == got # <<>>

\* "OK recv", and for a row "model:w:", somewhere in the window.
Stored(got) ==
    /\ Heads(got, "recv") # {}
    /\ Now.do = "PKT_W" =>
          \E i \in 1..Len(got) : got[i].head /\ got[i].id[1] = "w"

Printed(got) == {got[i].id : i \in {j \in 1..Len(got) : got[j].head}}

ExpectedIds == ({"w"} \X Classes) \cup ({"ex"} \X Examples) \cup ({"rx"} \X Queries)

\* The ids of the run, and the label of the example nearest to each query.
DumpMatches(ids) ==
    LET found == {i \in Examples : Id("ex", i) \in ids} IN
    /\ ExpectedIds \subseteq ids
    /\ \A q \in Queries : found # {} =>
          TrainSet[Nearest(QueryAt[q], found)].label = QuerySet[q].label

\* A window: what arrives is judged and forgotten.
Listen ==
    /\ waiting
    /\ \E k \in 0..Len(out) : \E x \in 0..k :
          /\ Len(out) - k <= Lag
          /\ x # 0 => lost < MaxLost
          /\ out' = SubSeq(out, k + 1, Len(out))
          /\ lost' = IF x = 0 THEN lost ELSE lost + 1
          /\ LET got == Received(k, x) IN
             \/ /\ Now.do = "ID"
                /\ failed' = (Heads(got, "id") = {})
                /\ step' = IF failed' THEN Done ELSE step + 1
                /\ UNCHANGED chip
             \/ /\ Now.do = "DEL"
                /\ step' = step + 1
                /\ UNCHANGED <<failed, chip>>
             \/ /\ Now.do \in {"PKT_W", "PKT_EX", "PKT_RX"}
                /\ failed' = (failed \/ ~Stored(got))
                /\ step' = step + 1
                /\ UNCHANGED chip
             \/ /\ Now.do = "GET"
                /\ ReadBack(got)
                /\ step' = step + 1
             \/ /\ Now.do = "DUMP"
                /\ failed' = (failed \/ ~DumpMatches(Printed(got)))
                /\ step' = Done
                /\ UNCHANGED chip
    /\ waiting' = FALSE
    /\ UNCHANGED <<bank, preds>>

Next == Send \/ SendFails \/ Listen

Spec == Init /\ [][Next]_vars

-----------------------------------------------------------------------------
\* Properties.

Passed == step = Done /\ ~failed

(***************************************************************************)
(* Replies are matched with commands by words alone, may be late by        *)
(* several windows, and commands and pieces of replies may be lost.  Still *)
(* a run with fails=0 holds in each row what the board sent for that very  *)
(* row, up to its last number (one missing answer anywhere shows), and     *)
(* every record it meant to store is in the bank, at its coordinates and   *)
(* with this run's contents.                                               *)
(***************************************************************************)
PassedMeansStored ==
    Passed =>
        /\ \A c \in Classes : chip[c] \in {<<"row", c>>, <<"cut", c>>}
        /\ \A c \in Classes : \E i \in 1..PktMax : bank[i] = WeightPkt(c)
        /\ \A e \in Examples : \E i \in 1..PktMax : bank[i] = ExamplePkt(e)
        /\ \A q \in Queries : \E i \in 1..PktMax : bank[i] = ReceiptPkt(q, preds[q])

(***************************************************************************)
(* storePacket replaces by coordinates too.  No record of the program, of  *)
(* this run or an earlier one, and no seed record makes room for another,  *)
(* although two example texts have the same stems: a record is replaced by *)
(* one of another id only where another program's packet lies at the very  *)
(* coordinates the program computes, and never lost otherwise, but for the *)
(* ids the program deletes.                                                *)
(***************************************************************************)
OwnRecordsStay ==
    [][\A i \in 1..PktMax :
          bank[i] # Empty /\ bank[i].id[1] # "old" =>
             /\ bank'[i] # Empty
             /\ \/ bank'[i].id = bank[i].id
                \/ bank[i].id[1] = "crowd" /\ bank'[i].d = bank[i].d]_vars
=============================================================================
