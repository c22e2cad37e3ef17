------------------------------ MODULE PlainFile ------------------------------
(***************************************************************************)
(* What redb expects of a storage backend: a file of cells with a length,  *)
(* written in place, and cut or extended with ftruncate's meaning (cells   *)
(* past the end read as zero when the file grows again).                   *)
(***************************************************************************)
EXTENDS Naturals

CONSTANTS MaxLen, Vals

VARIABLES
    len,     \* the length in cells
    cells    \* what each cell reads as

Init == len = 0 /\ cells = [c \in 0..MaxLen - 1 |-> 0]

Write(off, n, v) ==
    /\ off + n <= MaxLen
    /\ len' = IF off + n > len THEN off + n ELSE len
    /\ cells' = [c \in 0..MaxLen - 1 |-> IF off <= c /\ c < off + n THEN v ELSE cells[c]]

SetLen(l) ==
    /\ len' = l
    /\ cells' = [c \in 0..MaxLen - 1 |-> IF c < l THEN cells[c] ELSE 0]

Next ==
    \/ \E off \in 0..MaxLen - 1, n \in 1..MaxLen, v \in Vals : Write(off, n, v)
    \/ \E l \in 0..MaxLen : SetLen(l)

Spec == Init /\ [][Next]_<<len, cells>>
=============================================================================
