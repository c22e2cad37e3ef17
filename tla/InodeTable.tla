----------------------------- MODULE InodeTable -----------------------------
(***************************************************************************)
(* The inode table of the FUSE driver (y2q-fuse/src/inode.rs): two maps    *)
(* that must stay each other's inverse while paths are assigned, renamed   *)
(* and removed, and the metadata cached per inode.  A table is a record    *)
(* value, so that the driver's model can thread it through its handlers;   *)
(* TableSpec runs the operations on their own.                             *)
(***************************************************************************)
EXTENDS Naturals

CONSTANTS Paths, Root, Metas, MaxIno, NoPath, NoMeta

ASSUME TableAssumption ==
    Root \in Paths /\ NoPath \notin Paths /\ NoMeta \notin Metas /\ MaxIno \in Nat \ {0}

Inos == 1..MaxIno
RootIno == 1

\* byPath[p] = 0 and byIno[i] = NoPath: not in the map.
Table == [next : 2..(MaxIno + 1), byIno : [Inos -> Paths \cup {NoPath}], byPath : [Paths -> 0..MaxIno],
          meta : [Inos -> Metas \cup {NoMeta}], fresh : [Inos -> BOOLEAN]]

NewTable ==
    [next |-> 2,
     byIno |-> [i \in Inos |-> IF i = RootIno THEN Root ELSE NoPath],
     byPath |-> [p \in Paths |-> IF p = Root THEN RootIno ELSE 0],
     meta |-> [i \in Inos |-> NoMeta],
     fresh |-> [i \in Inos |-> FALSE]]

\* (next <= MaxIno bounds the number of inodes ever assigned.)
HasRoom(t) == t.next <= MaxIno

GetOrAssign(t, p) ==
    IF t.byPath[p] # 0 THEN t
    ELSE [t EXCEPT !.next = t.next + 1, !.byIno = [t.byIno EXCEPT ![t.next] = p],
                  !.byPath = [t.byPath EXCEPT ![p] = t.next]]

\* update_meta, set_size, invalidate_meta: nothing happens to an inode that is gone.
SetMeta(t, i, m, isFresh) ==
    IF t.byIno[i] = NoPath THEN t ELSE [t EXCEPT !.meta = [t.meta EXCEPT ![i] = m], !.fresh = [t.fresh EXCEPT ![i] = isFresh]]

Drop(t, i) == [t EXCEPT !.byIno = [t.byIno EXCEPT ![i] = NoPath], !.meta = [t.meta EXCEPT ![i] = NoMeta],
                        !.fresh = [t.fresh EXCEPT ![i] = FALSE]]

\* (mutant) The inode that had the target path keeps its entry.
RepathKeepsOld(t, from, to) ==
    IF t.byPath[from] = 0 THEN t
    ELSE [t EXCEPT !.byIno[t.byPath[from]] = to, !.byPath[from] = 0, !.byPath[to] = t.byPath[from]]

\* The inode moves to the new path with its metadata; an inode that had that path is dropped.
Repath(t, from, to) ==
    LET i == t.byPath[from]
        old == IF to = from THEN 0 ELSE t.byPath[to]
        moved == [t EXCEPT !.byIno = [t.byIno EXCEPT ![i] = to],
                           !.byPath = [t.byPath EXCEPT ![from] = 0, ![to] = i]]
    IN  IF i = 0 THEN t ELSE IF old = 0 THEN moved ELSE Drop(moved, old)

Remove(t, i) ==
    IF t.byIno[i] = NoPath THEN t ELSE Drop([t EXCEPT !.byPath = [t.byPath EXCEPT ![t.byIno[i]] = 0]], i)

-----------------------------------------------------------------------------
VARIABLE table

TableInit == table = NewTable

TableNext ==
    \/ \E p \in Paths : HasRoom(table) /\ table' = GetOrAssign(table, p)
    \/ \E i \in Inos, m \in Metas \cup {NoMeta}, isFresh \in BOOLEAN : table' = SetMeta(table, i, m, isFresh)
    \/ \E from \in Paths, to \in Paths : table' = Repath(table, from, to)
    \/ \E i \in Inos : table' = Remove(table, i)

TableSpec == TableInit /\ [][TableNext]_table

\* The two maps are each other's inverse, so an inode the kernel holds names at
\* most one path and a path one inode; numbers not yet assigned are in neither.
Mutual(t) ==
    /\ \A p \in Paths : t.byPath[p] # 0 => t.byIno[t.byPath[p]] = p
    /\ \A i \in Inos : t.byIno[i] # NoPath => t.byPath[t.byIno[i]] = i
    /\ \A i \in Inos : i >= t.next => t.byIno[i] = NoPath

\* (InodeTable) The table's maps agree after every operation.
TableInverse == Mutual(table)
=============================================================================
