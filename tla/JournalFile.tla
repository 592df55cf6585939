----------------------------- MODULE JournalFile -----------------------------
(***************************************************************************)
(* The journal of the curator signer: journal.js, an append-only file of   *)
(* lines, renamed once it is long, and what a reader of both files finds.  *)
(*                                                                         *)
(* A file is a sequence of pieces, one for each append that wrote          *)
(* anything.  A line is read when it starts where a line starts, is all    *)
(* there, and nothing was written behind it on the same line.  The length  *)
(* that makes a file rotate is counted in pieces.  A definition whose name *)
(* ends in _Mutant is the next one with a bug the code could have.         *)
(***************************************************************************)
EXTENDS Naturals, Sequences

CONSTANTS
  RotateAt,   \* ROTATE_BYTES, in pieces
  Failures    \* how an append may go wrong, beside a crash

Acknowledged == {"whole", "short", "unended"}
ASSUME JournalAssumption ==
  /\ RotateAt \in Nat \ {0}
  /\ Failures \subseteq {"unwritten", "unsynced", "short", "unended"}

(***************************************************************************)
(* How an append ends.  "unwritten": open or write throws.  "unsynced":    *)
(* the line is there and fsync throws.  "short": the disk fills, writeSync *)
(* returns a count nobody reads and a fragment stays, or all but the       *)
(* newline ("unended").  "cut": the process dies inside the write.         *)
(***************************************************************************)
Outcomes == {"whole"} \union Failures

VARIABLE
  journal     \* the two files, how many pieces were ever written, and those
              \* whose append returned

Pieces(Records) == [id : Nat, record : Records, whole : BOOLEAN, ended : BOOLEAN]

Piece(id, record, outcome) ==
  [id |-> id, record |-> record,
   whole |-> outcome \in {"whole", "unsynced", "unended"},
   ended |-> outcome \in {"whole", "unsynced"}]

Full(j) == Len(j.file) >= RotateAt
Rotated_Mutant(j) == IF Full(j) THEN [j EXCEPT !.file = <<>>] ELSE j
Rotated(j) == IF Full(j) THEN [j EXCEPT !.file = <<>>, !.rotated = j.file] ELSE j

JournalInit == journal = [file |-> <<>>, rotated |-> <<>>, written |-> 0, acked |-> {}]

\* The journals an append may leave.  One that writes nothing may have rotated.
Appends(j, record, outcome) ==
  IF outcome = "unwritten" THEN {j, Rotated(j)}
  ELSE LET id == j.written + 1
       IN  {[file    |-> Append(Rotated(j).file, Piece(id, record, outcome)),
             rotated |-> Rotated(j).rotated,
             written |-> id,
             acked   |-> IF outcome \in Acknowledged THEN j.acked \union {id} ELSE j.acked]}

(***************************************************************************)
(* Reading.  Journal.records reads the rotated file first; the last record *)
(* of some kinds is what a replay leaves in a field they set.              *)
(***************************************************************************)
Readable(f, n) ==
  /\ f[n].whole
  /\ n = 1 \/ f[n - 1].ended
  /\ f[n].ended \/ n = Len(f)

Lines(f) == {f[n] : n \in {n \in DOMAIN f : Readable(f, n)}}
OfKind(f, kinds) == {p \in Lines(f) : p.record.kind \in kinds}
Newest(S) == CHOOSE p \in S : \A q \in S : q.id <= p.id

LastRecord(j, kinds, none) ==
  IF OfKind(j.file, kinds) # {} THEN Newest(OfKind(j.file, kinds)).record
  ELSE IF OfKind(j.rotated, kinds) # {} THEN Newest(OfKind(j.rotated, kinds)).record
  ELSE none

(***************************************************************************)
(* Properties.                                                             *)
(***************************************************************************)
Unended(i) == \E f \in {journal.file, journal.rotated} :
                \E n \in DOMAIN f : f[n].id = i /\ ~f[n].ended

\* Of the last RotateAt pieces, an acknowledged record is read back, whatever
\* failed and rotated in between, unless its own line or the one before it
\* was left unended: a torn line costs its neighbour and nothing else.
KeepsWindow ==
  \A i \in journal.acked :
    i + RotateAt > journal.written =>
      \/ \E p \in Lines(journal.rotated) \union Lines(journal.file) : p.id = i
      \/ Unended(i) \/ Unended(i - 1)
=============================================================================
