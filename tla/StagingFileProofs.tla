------------------------- MODULE StagingFileProofs -------------------------
(***************************************************************************)
(* Proofs about StagingFile for every number of PUTs, GETs, blocks, inodes *)
(* and crashes, when no administrator force-releases locks and at most one *)
(* set_labels of the object runs at a time: the object file is always one  *)
(* writer's complete file, a GET reads one such file, and a PUT publishes  *)
(* the file it wrote.                                                      *)
(***************************************************************************)
EXTENDS StagingFile, TLAPS

Undisturbed == Admins = {} /\ \A l, m \in Labelers : l = m

Filled(i, w, n) == \A b \in 1..n : data[i][b] = w

\* A PUT past try_acquire owns the registry entry.
OwnerInv ==
    /\ lock = None <=> owner = None
    /\ \A p \in Putters : pc[p] \in {"open", "write", "rename", "drop", "unlock"} => owner = p

\* No inode is at two of the names.
NamesInv == \A n, m \in Names : (name[n] # None /\ name[n] = name[m]) => n = m

\* A writer has the inode at its staging name open and has filled it so far.
WriterInv ==
    /\ \A p \in Putters : pc[p] \in {"write", "rename"} =>
          fd[p] # None /\ name["tmp"] = fd[p] /\ Filled(fd[p], p, pos[p])
    /\ \A p \in Putters : pc[p] = "rename" => pos[p] = Blocks
    /\ \A l \in Labelers : pc[l] \in {"lwrite", "lrename"} =>
          fd[l] # None /\ name["labels"] = fd[l] /\ Filled(fd[l], l, pos[l])
    /\ \A l \in Labelers : pc[l] = "lrename" => pos[l] = Blocks

\* A reader's inode is complete and no writer's staging file.
ReaderInv ==
    \A r \in Readers : pc[r] = "get" =>
        /\ fd[r] \in Inodes /\ fd[r] # name["tmp"] /\ fd[r] # name["labels"]
        /\ \E w \in Putters \cup Labelers :
              /\ Filled(fd[r], w, Blocks)
              /\ seen[r] \subseteq {w}
              /\ pos[r] > 0 => seen[r] # {}

\* The object file is one writer's complete file.
FileWhole == name["obj"] # None => Whole(name["obj"])

IInv == TypeOK /\ OwnerInv /\ NamesInv /\ WriterInv /\ ReaderInv /\ FileWhole

LEMMA InitInv == Init => IInv
<1> SUFFICES ASSUME Init PROVE IInv
  OBVIOUS
<1>1. Hole \in [1..Blocks -> Putters \cup Labelers \cup {None}]
  BY DEF Hole
<1>2. TypeOK
  BY <1>1, SizeAssumption, NoneAssumption DEF Init, TypeOK, Procs, Names
<1>3. OwnerInv /\ NamesInv /\ WriterInv /\ ReaderInv /\ FileWhole
  BY ZenonT(10), SMTT(30) DEF Init, OwnerInv, NamesInv, WriterInv, ReaderInv, FileWhole, Procs, Names
<1> QED
  BY <1>2, <1>3 DEF IInv

LEMMA TypeStep == TypeOK /\ OwnerInv /\ ReaderInv /\ [Next]_vars => TypeOK'
<1> SUFFICES ASSUME TypeOK, OwnerInv, ReaderInv, [Next]_vars PROVE TypeOK'
  OBVIOUS
<1> USE SizeAssumption, NoneAssumption
    DEF TypeOK, Procs, Names, files, registry, admin, Goto, Return
<1>1. ASSUME NEW p \in Procs, NEW n \in Names, OpenTruncated(p, n)
      PROVE  /\ name' \in [Names -> Inodes \cup {None}]
             /\ data' \in [Inodes -> [1..Blocks -> Putters \cup Labelers \cup {None}]]
             /\ mtime' \in [Inodes -> 0..MaxClock]
             /\ fd' \in [Procs -> Inodes \cup {None}]
             /\ pos' \in [Procs -> 0..Blocks]
  BY <1>1 DEF OpenTruncated, Hole, Free
<1>2. ASSUME NEW p \in Putters \cup Labelers, WriteBlock(p)
      PROVE  /\ data' \in [Inodes -> [1..Blocks -> Putters \cup Labelers \cup {None}]]
             /\ mtime' \in [Inodes -> 0..MaxClock]
             /\ pos' \in [Procs -> 0..Blocks]
  <2> DEFINE blk == [data[fd[p]] EXCEPT ![pos[p] + 1] = p]
  <2>1. data' = [data EXCEPT ![fd[p]] = blk]
    BY <1>2 DEF WriteBlock
  <2>2. fd[p] \in Inodes => blk \in [1..Blocks -> Putters \cup Labelers \cup {None}]
    BY <1>2 DEF WriteBlock
  <2> HIDE DEF blk
  <2>3. data' \in [Inodes -> [1..Blocks -> Putters \cup Labelers \cup {None}]]
    BY ZenonT(30), <2>1, <2>2
  <2> QED
    BY SMTT(30), <1>2, <2>3 DEF WriteBlock
<1>3. ASSUME NEW p \in Putters, Put(p) PROVE TypeOK'
  <2>1. CASE PutLock(p)
    BY <2>1 DEF PutLock
  <2>2. CASE PutCreate(p)
    BY ZenonT(30), <1>1, <2>2 DEF PutCreate
  <2>3. CASE PutWrite(p)
    BY ZenonT(30), <1>2, <2>3 DEF PutWrite
  <2>4. CASE PutRename(p)
    BY <2>4 DEF PutRename, RenameToObj
  <2>5. CASE PutAbort(p)
    BY <2>5 DEF PutAbort
  <2>8. CASE PutAbandon(p)
    BY <2>8 DEF PutAbandon
  <2>6. CASE PutDrop(p)
    BY <2>6 DEF PutDrop
  <2>7. CASE PutUnlock(p)
    BY <2>7 DEF PutUnlock
  <2> QED
    BY ZenonT(30), <1>3, <2>1, <2>2, <2>3, <2>4, <2>5, <2>6, <2>7, <2>8 DEF Put
<1>4. ASSUME NEW p \in Labelers, SetLabels(p) PROVE TypeOK'
  <2>1. CASE LabelsRead(p)
    BY <2>1 DEF LabelsRead
  <2>2. CASE LabelsCreate(p)
    BY ZenonT(30), <1>1, <2>2 DEF LabelsCreate
  <2>3. CASE LabelsWrite(p)
    BY ZenonT(30), <1>2, <2>3 DEF LabelsWrite
  <2>4. CASE LabelsRename(p)
    BY <2>4 DEF LabelsRename, RenameToObj
  <2> QED
    BY ZenonT(30), <1>4, <2>1, <2>2, <2>3, <2>4 DEF SetLabels
<1>5. ASSUME NEW p \in Readers, Get(p) PROVE TypeOK'
  <2>1. CASE GetOpen(p)
    BY SMTT(30), <2>1 DEF GetOpen
  <2>2. CASE GetRead(p)
    <3>1. data[fd[p]][pos[p] + 1] \in Putters \cup Labelers \cup {None}
      BY SMTT(30), <2>2 DEF GetRead, ReaderInv
    <3> QED
      BY <2>2, <3>1 DEF GetRead
  <2>3. CASE GetDone(p)
    BY <2>3 DEF GetDone
  <2> QED
    BY ZenonT(30), <1>5, <2>1, <2>2, <2>3 DEF Get
<1>6. ASSUME NEW a \in Admins, Clear(a) PROVE TypeOK'
  <2>1. CASE ClearLocks(a)
    BY SMTT(30), <2>1 DEF ClearLocks, OwnerInv
  <2>2. CASE SweepStat(a)
    <3>1. PICK n \in left[a] :
            IF name[n] # None /\ mtime[name[n]] < cutoff[a]
              THEN Goto(a, n) /\ UNCHANGED left
              ELSE left' = [left EXCEPT ![a] = @ \ {n}] /\ UNCHANGED pc
      BY <2>2 DEF SweepStat
    <3>2. n \in {"tmp", "labels"}
      OBVIOUS
    <3>3. CASE name[n] # None /\ mtime[name[n]] < cutoff[a]
      <4>1. pc' = [pc EXCEPT ![a] = n] /\ UNCHANGED left
        BY <3>1, <3>3
      <4>2. pc' \in [Procs -> {"idle", "open", "write", "rename", "drop", "unlock", "lcreate",
                               "lwrite", "lrename", "get", "sweep", "tmp", "labels"}]
        BY <3>2, <4>1
      <4> QED
        BY <2>2, <4>1, <4>2 DEF SweepStat
    <3>4. CASE ~(name[n] # None /\ mtime[name[n]] < cutoff[a])
      <4>1. left' = [left EXCEPT ![a] = @ \ {n}] /\ UNCHANGED pc
        BY <3>1, <3>4
      <4>2. left' \in [Procs -> SUBSET {"tmp", "labels"}]
        BY <4>1
      <4> QED
        BY <2>2, <4>1, <4>2 DEF SweepStat
    <3> QED
      BY ZenonT(30), <3>3, <3>4
  <2>3. CASE SweepUnlink(a)
    BY <2>3 DEF SweepUnlink
  <2>4. CASE SweepDone(a)
    BY <2>4 DEF SweepDone
  <2> QED
    BY ZenonT(30), <1>6, <2>1, <2>2, <2>3, <2>4 DEF Clear
<1>7. CASE Crash
  BY <1>7 DEF Crash
<1>8. CASE Tick
  BY <1>8 DEF Tick
<1>9. CASE UNCHANGED vars
  BY <1>9 DEF vars
<1> QED
  BY ZenonT(30), <1>3, <1>4, <1>5, <1>6, <1>7, <1>8, <1>9 DEF Next

-----------------------------------------------------------------------------
(* The inductive invariant, action by action: what a step does to the      *)
(* processes other than the one that takes it, then what each conjunct     *)
(* needs of the step.                                                      *)

\* Only p's program counter, descriptor, position and bytes seen may change.
Alone(p) ==
    \A q \in Procs \ {p} : /\ pc'[q] = pc[q] /\ fd'[q] = fd[q]
                           /\ pos'[q] = pos[q] /\ seen'[q] = seen[q]

Holding == {"open", "write", "rename", "drop", "unlock"}

\* A step that leaves the readers alone, and the inodes they have open, keeps
\* ReaderInv.
LEMMA ReaderFrame ==
  ASSUME ReaderInv, NEW p \in Procs \ Readers, Alone(p),
         \A r \in Readers : pc[r] = "get" =>
             /\ data'[fd[r]] = data[fd[r]]
             /\ fd[r] # name'["tmp"] /\ fd[r] # name'["labels"]
  PROVE  ReaderInv'
<1>1. \A r \in Readers : /\ pc'[r] = pc[r] /\ fd'[r] = fd[r]
                         /\ pos'[r] = pos[r] /\ seen'[r] = seen[r]
  BY DEF Alone, Procs
<1> QED
  BY <1>1 DEF ReaderInv, Filled

\* A step that leaves the name and the inode of the object alone.
LEMMA ObjectFrame ==
  ASSUME FileWhole, name'["obj"] = name["obj"],
         name["obj"] # None => data'[name["obj"]] = data[name["obj"]]
  PROVE  FileWhole'
  BY Zenon DEF FileWhole, Whole

\* A step that leaves the registry alone and takes no lock.
LEMMA OwnerFrame ==
  ASSUME OwnerInv, NEW p \in Procs, Alone(p), UNCHANGED <<lock, owner>>,
         p \in Putters /\ pc'[p] \in Holding => pc[p] \in Holding
  PROVE  OwnerInv'
<1>1. ASSUME NEW q \in Putters, pc'[q] \in Holding PROVE owner' = q
  <2>1. pc[q] \in Holding
    BY <1>1, Zenon DEF Alone, Procs
  <2> QED
    BY <2>1, Zenon DEF OwnerInv, Holding
<1> QED
  BY <1>1, Zenon DEF OwnerInv, Holding

\* The PUT past try_acquire is the only one.
LEMMA OnlyOwner ==
  ASSUME OwnerInv, NEW p \in Putters, pc[p] \in Holding
  PROVE  \A q \in Putters \ {p} : pc[q] \notin Holding
  BY Zenon DEF OwnerInv, Holding

\* What the writers other than p need of a step of p, and p's own part.
LEMMA WriterFrame ==
  ASSUME WriterInv, NEW p \in Procs, Alone(p),
         \A q \in Putters \ {p} : pc[q] \in {"write", "rename"} =>
             name'["tmp"] = name["tmp"] /\ data'[fd[q]] = data[fd[q]],
         \A q \in Labelers \ {p} : pc[q] \in {"lwrite", "lrename"} =>
             name'["labels"] = name["labels"] /\ data'[fd[q]] = data[fd[q]],
         p \in Putters /\ pc'[p] \in {"write", "rename"} =>
             /\ fd'[p] # None /\ name'["tmp"] = fd'[p]
             /\ \A b \in 1..pos'[p] : data'[fd'[p]][b] = p
             /\ pc'[p] = "rename" => pos'[p] = Blocks,
         p \in Labelers /\ pc'[p] \in {"lwrite", "lrename"} =>
             /\ fd'[p] # None /\ name'["labels"] = fd'[p]
             /\ \A b \in 1..pos'[p] : data'[fd'[p]][b] = p
             /\ pc'[p] = "lrename" => pos'[p] = Blocks
  PROVE  WriterInv'
<1>1. ASSUME NEW q \in Putters, pc'[q] \in {"write", "rename"}
      PROVE  /\ fd'[q] # None /\ name'["tmp"] = fd'[q]
             /\ \A b \in 1..pos'[q] : data'[fd'[q]][b] = q
             /\ pc'[q] = "rename" => pos'[q] = Blocks
  <2>1. CASE q = p
    BY <1>1, <2>1, Zenon
  <2>2. CASE q # p
    <3>1. /\ pc'[q] = pc[q] /\ fd'[q] = fd[q] /\ pos'[q] = pos[q]
      BY <2>2, Zenon DEF Alone, Procs
    <3>2. name'["tmp"] = name["tmp"] /\ data'[fd[q]] = data[fd[q]]
      BY <1>1, <2>2, <3>1, Zenon
    <3>3. /\ fd[q] # None /\ name["tmp"] = fd[q]
          /\ \A b \in 1..pos[q] : data[fd[q]][b] = q
          /\ pc[q] = "rename" => pos[q] = Blocks
      BY <1>1, <3>1, Zenon DEF WriterInv, Filled
    <3> QED
      BY ONLY <3>1, <3>2, <3>3, Zenon
  <2> QED
    BY <2>1, <2>2
<1>2. ASSUME NEW q \in Labelers, pc'[q] \in {"lwrite", "lrename"}
      PROVE  /\ fd'[q] # None /\ name'["labels"] = fd'[q]
             /\ \A b \in 1..pos'[q] : data'[fd'[q]][b] = q
             /\ pc'[q] = "lrename" => pos'[q] = Blocks
  <2>1. CASE q = p
    BY <1>2, <2>1, Zenon
  <2>2. CASE q # p
    <3>1. /\ pc'[q] = pc[q] /\ fd'[q] = fd[q] /\ pos'[q] = pos[q]
      BY <2>2, Zenon DEF Alone, Procs
    <3>2. name'["labels"] = name["labels"] /\ data'[fd[q]] = data[fd[q]]
      BY <1>2, <2>2, <3>1, Zenon
    <3>3. /\ fd[q] # None /\ name["labels"] = fd[q]
          /\ \A b \in 1..pos[q] : data[fd[q]][b] = q
          /\ pc[q] = "lrename" => pos[q] = Blocks
      BY <1>2, <3>1, Zenon DEF WriterInv, Filled
    <3> QED
      BY ONLY <3>1, <3>2, <3>3, Zenon
  <2> QED
    BY <2>1, <2>2
<1> QED
  BY <1>1, <1>2, Zenon DEF WriterInv, Filled

\* A step of p that leaves the files alone and does not make p a writer or, if
\* it is one, moves nothing of p's but the program counter.
LEMMA QuietStep ==
  ASSUME NEW p \in Procs \ Readers, NamesInv, WriterInv, ReaderInv, FileWhole, Alone(p),
         UNCHANGED <<name, data>>,
         p \in Putters => pc'[p] \notin {"write", "rename"},
         p \in Labelers => pc'[p] \notin {"lwrite", "lrename"}
  PROVE  NamesInv' /\ WriterInv' /\ ReaderInv' /\ FileWhole'
<1>1. NamesInv'
  BY Zenon DEF NamesInv
<1>2. WriterInv'
  BY WriterFrame, Zenon
<1>3. \A r \in Readers : pc[r] = "get" => fd[r] # name["tmp"] /\ fd[r] # name["labels"]
  BY Zenon DEF ReaderInv
<1>4. ReaderInv'
  BY <1>3, ReaderFrame, Zenon
<1>5. FileWhole'
  BY ObjectFrame, Zenon
<1> QED
  BY <1>1, <1>2, <1>4, <1>5

\* The conjuncts of the invariant beside the types.
Sound == OwnerInv /\ NamesInv /\ WriterInv /\ ReaderInv /\ FileWhole

\* Who p is not.
LEMMA Kinds ==
  /\ \A p \in Putters : p \in Procs \ Readers /\ p \notin Labelers
  /\ \A p \in Labelers : p \in Procs \ Readers /\ p \notin Putters
  /\ \A p \in Readers : p \in Procs /\ p \notin Putters /\ p \notin Labelers
  BY DisjointAssumption DEF Procs

LEMMA PutLockSound ==
  ASSUME TypeOK, Sound, NEW p \in Putters, PutLock(p) PROVE Sound'
<1>1. Alone(p) /\ pc'[p] = "open" /\ UNCHANGED <<name, data>>
  BY Kinds DEF PutLock, Goto, Alone, TypeOK, files
<1>2. lock' # None /\ owner' = p /\ p # None /\ lock = None
  BY NoneAssumption, SizeAssumption, Kinds DEF PutLock, TypeOK
<1>3. \A q \in Putters \ {p} : pc'[q] \notin Holding
  <2>1. \A q \in Putters : pc[q] \notin Holding
    BY <1>2, NoneAssumption DEF Sound, OwnerInv, Holding, Procs
  <2> QED
    BY <1>1, <2>1, Kinds, Zenon DEF Alone
<1>4. OwnerInv'
  BY <1>2, <1>3, Zenon DEF OwnerInv, Holding
<1>5. NamesInv' /\ WriterInv' /\ ReaderInv' /\ FileWhole'
  BY <1>1, Kinds, QuietStep DEF Sound
<1> QED
  BY <1>4, <1>5 DEF Sound

\* The steps of a PUT that leaves its file behind: only the program counter and,
\* when it returns, the descriptor move.
LEMMA PutLeavesSound ==
  ASSUME TypeOK, Sound, NEW p \in Putters, PutAbort(p) \/ PutAbandon(p) PROVE Sound'
<1>1. /\ Alone(p) /\ pc[p] \in Holding /\ pc'[p] \in {"unlock", "drop"}
      /\ UNCHANGED <<name, data, lock, owner>>
  BY Kinds DEF PutAbort, PutAbandon, Goto, Alone, TypeOK, files, registry, Holding
<1>2. OwnerInv'
  BY <1>1, Kinds, OwnerFrame DEF Sound
<1>3. NamesInv' /\ WriterInv' /\ ReaderInv' /\ FileWhole'
  BY <1>1, Kinds, QuietStep DEF Sound
<1> QED
  BY <1>2, <1>3 DEF Sound

LEMMA PutUnlockSound ==
  ASSUME TypeOK, Sound, NEW p \in Putters, PutUnlock(p) PROVE Sound'
<1>1. /\ Alone(p) /\ pc[p] \in Holding /\ pc'[p] = "idle"
      /\ lock' = None /\ owner' = None /\ UNCHANGED <<name, data>>
  BY Kinds DEF PutUnlock, Return, Goto, Alone, TypeOK, files, Holding
<1>2. \A q \in Putters : pc'[q] \notin Holding
  <2>1. \A q \in Putters \ {p} : pc[q] \notin Holding
    BY <1>1, OnlyOwner DEF Sound
  <2> QED
    BY <1>1, <2>1, Kinds DEF Alone, Holding
<1>3. OwnerInv'
  BY <1>1, <1>2, Zenon DEF OwnerInv, Holding
<1>4. NamesInv' /\ WriterInv' /\ ReaderInv' /\ FileWhole'
  BY <1>1, Kinds, QuietStep DEF Sound
<1> QED
  BY <1>3, <1>4 DEF Sound

LEMMA PutDropSound ==
  ASSUME TypeOK, Sound, NEW p \in Putters, PutDrop(p) PROVE Sound'
<1>1. /\ Alone(p) /\ pc[p] \in Holding /\ pc'[p] = "unlock"
      /\ UNCHANGED <<data, lock, owner>>
  BY Kinds DEF PutDrop, Goto, Alone, TypeOK, registry, Holding
<1>2. name'["tmp"] = None /\ name'["obj"] = name["obj"] /\ name'["labels"] = name["labels"]
  BY DEF PutDrop, TypeOK, Names
<1>3. OwnerInv'
  BY <1>1, Kinds, OwnerFrame DEF Sound
<1>4. NamesInv'
  BY <1>2 DEF Sound, NamesInv, Names
<1>5. \A q \in Putters \ {p} : pc[q] \notin {"write", "rename"}
  BY <1>1, OnlyOwner DEF Sound, Holding
<1>6. WriterInv'
  BY <1>1, <1>2, <1>5, Kinds, WriterFrame DEF Sound
<1>7. \A r \in Readers : pc[r] = "get" =>
          fd[r] # None /\ fd[r] # name["labels"]
  BY NoneAssumption DEF Sound, ReaderInv
<1>8. ReaderInv'
  BY <1>1, <1>2, <1>7, Kinds, ReaderFrame DEF Sound
<1>9. FileWhole'
  BY <1>1, <1>2, ObjectFrame DEF Sound
<1> QED
  BY <1>3, <1>4, <1>6, <1>8, <1>9 DEF Sound

\* The inode a truncating open empties is at no other name and no reader's.
LEMMA Created ==
  ASSUME TypeOK, NamesInv, ReaderInv, NEW p \in Procs, NEW n \in {"tmp", "labels"},
         OpenTruncated(p, n)
  PROVE  \E i \in Inodes :
            /\ name' = [name EXCEPT ![n] = i] /\ data' = [data EXCEPT ![i] = Hole]
            /\ fd' = [fd EXCEPT ![p] = i] /\ pos' = [pos EXCEPT ![p] = 0]
            /\ \A m \in Names \ {n} : name[m] # i
            /\ \A r \in Readers : pc[r] = "get" => fd[r] # i
<1>1. PICK i \in (IF name[n] # None THEN {name[n]} ELSE Free) :
            /\ name' = [name EXCEPT ![n] = i] /\ data' = [data EXCEPT ![i] = Hole]
            /\ fd' = [fd EXCEPT ![p] = i] /\ pos' = [pos EXCEPT ![p] = 0]
  BY DEF OpenTruncated
<1>2. CASE name[n] # None
  <2>1. i = name[n] /\ i \in Inodes
    BY <1>2 DEF TypeOK, Names
  <2>2. \A m \in Names \ {n} : name[m] # i
    BY <1>2, <2>1 DEF NamesInv, Names
  <2>3. \A r \in Readers : pc[r] = "get" => fd[r] # i
    BY <2>1 DEF ReaderInv
  <2> QED
    BY <1>1, <2>1, <2>2, <2>3
<1>3. CASE name[n] = None
  <2>1. i \in Inodes /\ (\A m \in Names : name[m] # i) /\ (\A q \in Procs : fd[q] # i)
    BY <1>3 DEF Free
  <2> QED
    BY <1>1, <2>1, Kinds
<1> QED
  BY <1>2, <1>3

LEMMA CreateSound ==
  ASSUME TypeOK, Sound, NEW p \in Procs \ Readers, NEW n \in {"tmp", "labels"}, NEW i \in Inodes,
         UNCHANGED <<lock, owner>>,
         \A q \in Procs \ {p} : pc'[q] = pc[q] /\ seen'[q] = seen[q],
         name' = [name EXCEPT ![n] = i], data' = [data EXCEPT ![i] = Hole],
         fd' = [fd EXCEPT ![p] = i], pos' = [pos EXCEPT ![p] = 0],
         \A m \in Names \ {n} : name[m] # i,
         \A r \in Readers : pc[r] = "get" => fd[r] # i,
         p \in Putters => n = "tmp" /\ pc[p] = "open" /\ pc'[p] = "write",
         p \in Labelers => n = "labels" /\ pc'[p] = "lwrite" /\ Labelers = {p},
         p \in Putters \cup Labelers
  PROVE  Sound'
<1>1. /\ name'[n] = i /\ \A m \in Names \ {n} : name'[m] = name[m]
  BY DEF TypeOK, Names
<1>2. \A j \in Inodes \ {i} : data'[j] = data[j]
  BY DEF TypeOK
<1>3. Alone(p) /\ fd'[p] = i /\ pos'[p] = 0
  BY DEF TypeOK, Alone
<1>4. OwnerInv'
  BY <1>3, OwnerFrame DEF Sound, Holding
<1>5. NamesInv'
  BY <1>1 DEF Sound, NamesInv
<1>6. i # None
  BY NoneAssumption
<1>7. \A q \in Putters \ {p} : pc[q] \in {"write", "rename"} =>
          name'["tmp"] = name["tmp"] /\ data'[fd[q]] = data[fd[q]]
  <2> SUFFICES ASSUME NEW q \in Putters \ {p}, pc[q] \in {"write", "rename"}
               PROVE  name'["tmp"] = name["tmp"] /\ data'[fd[q]] = data[fd[q]]
    OBVIOUS
  <2>1. p \notin Putters
    BY OnlyOwner DEF Sound, Holding
  <2>2. n = "labels"
    BY <2>1
  <2>3. name'["tmp"] = name["tmp"] /\ name["tmp"] # i
    BY <1>1, <2>2 DEF Names
  <2>4. fd[q] = name["tmp"] /\ fd[q] # None
    BY Zenon DEF Sound, WriterInv
  <2>5. fd[q] \in Inodes \ {i}
    BY <2>3, <2>4, Kinds DEF TypeOK
  <2> QED
    BY <1>2, <2>3, <2>5
<1>8. \A q \in Labelers \ {p} : pc[q] \in {"lwrite", "lrename"} =>
          name'["labels"] = name["labels"] /\ data'[fd[q]] = data[fd[q]]
  <2> SUFFICES ASSUME NEW q \in Labelers \ {p}, pc[q] \in {"lwrite", "lrename"}
               PROVE  name'["labels"] = name["labels"] /\ data'[fd[q]] = data[fd[q]]
    OBVIOUS
  <2>2. n = "tmp"
    OBVIOUS
  <2>3. name'["labels"] = name["labels"] /\ name["labels"] # i
    BY <1>1, <2>2 DEF Names
  <2>4. fd[q] = name["labels"] /\ fd[q] # None
    BY Zenon DEF Sound, WriterInv
  <2>5. fd[q] \in Inodes \ {i}
    BY <2>3, <2>4, Kinds DEF TypeOK
  <2> QED
    BY <1>2, <2>3, <2>5
<1>9. WriterInv'
  <2>1. p \in Putters => /\ fd'[p] # None /\ name'["tmp"] = fd'[p]
                         /\ \A b \in 1..pos'[p] : data'[fd'[p]][b] = p
                         /\ pc'[p] # "rename"
    BY <1>1, <1>3, <1>6
  <2>2. p \in Labelers => /\ fd'[p] # None /\ name'["labels"] = fd'[p]
                          /\ \A b \in 1..pos'[p] : data'[fd'[p]][b] = p
                          /\ pc'[p] # "lrename"
    BY <1>1, <1>3, <1>6
  <2> QED
    BY <1>3, <1>7, <1>8, <2>1, <2>2, WriterFrame, Zenon DEF Sound
<1>10. \A r \in Readers : pc[r] = "get" =>
          /\ data'[fd[r]] = data[fd[r]] /\ fd[r] # name'["tmp"] /\ fd[r] # name'["labels"]
  <2> SUFFICES ASSUME NEW r \in Readers, pc[r] = "get"
               PROVE  /\ data'[fd[r]] = data[fd[r]]
                      /\ fd[r] # name'["tmp"] /\ fd[r] # name'["labels"]
    OBVIOUS
  <2>1. fd[r] \in Inodes \ {i} /\ fd[r] # name["tmp"] /\ fd[r] # name["labels"]
    BY Zenon DEF Sound, ReaderInv
  <2> QED
    BY <1>1, <1>2, <2>1 DEF Names
<1>11. ReaderInv'
  BY <1>3, <1>10, ReaderFrame DEF Sound
<1>12. FileWhole'
  <2>1. name["obj"] # i /\ name'["obj"] = name["obj"]
    BY <1>1 DEF Names
  <2>2. name["obj"] # None => name["obj"] \in Inodes \ {i}
    BY <2>1 DEF TypeOK, Names
  <2> QED
    BY <1>2, <2>1, <2>2, ObjectFrame DEF Sound
<1> QED
  BY <1>4, <1>5, <1>9, <1>11, <1>12 DEF Sound

LEMMA WriteSound ==
  ASSUME TypeOK, Sound, NEW p \in Procs \ Readers, NEW n \in {"tmp", "labels"},
         pos[p] < Blocks, data' = [data EXCEPT ![fd[p]][pos[p] + 1] = p],
         pos' = [pos EXCEPT ![p] = @ + 1], UNCHANGED <<name, lock, owner, fd, seen>>,
         \A q \in Procs \ {p} : pc'[q] = pc[q],
         p \in Putters => /\ n = "tmp" /\ pc[p] = "write" /\ pc'[p] \in {"write", "rename"}
                          /\ pc'[p] = "rename" => pos'[p] = Blocks,
         p \in Labelers => /\ n = "labels" /\ pc[p] = "lwrite" /\ pc'[p] \in {"lwrite", "lrename"}
                           /\ pc'[p] = "lrename" => pos'[p] = Blocks
                           /\ Labelers = {p},
         p \in Putters \cup Labelers
  PROVE  Sound'
<1> DEFINE i == fd[p]
<1>1. Alone(p) /\ pos'[p] = pos[p] + 1 /\ pos[p] \in Nat
  BY SizeAssumption DEF TypeOK, Alone
<1>2. i = name[n] /\ i # None /\ \A b \in 1..pos[p] : data[i][b] = p
  <2>1. CASE p \in Putters
    BY <2>1, Zenon DEF Sound, WriterInv, Filled
  <2>2. CASE p \in Labelers
    BY <2>2, Zenon DEF Sound, WriterInv, Filled
  <2> QED
    BY <2>1, <2>2
<1>3. i \in Inodes
  BY <1>2 DEF TypeOK
<1>4. \A j \in Inodes \ {i} : data'[j] = data[j]
  BY DEF TypeOK
<1>5. \A b \in 1..pos'[p] : data'[i][b] = p
  <2>1. data'[i] = [data[i] EXCEPT ![pos[p] + 1] = p]
    BY <1>3 DEF TypeOK
  <2>2. DOMAIN data[i] = 1..Blocks
    BY <1>3 DEF TypeOK
  <2> HIDE DEF i
  <2> QED
    BY <1>1, <1>2, <2>1, <2>2, SizeAssumption
<1> HIDE DEF i
<1>6. \A m \in Names \ {n} : name[m] # i
  BY <1>2 DEF Sound, NamesInv, Names
<1>7. OwnerInv'
  BY <1>1, OwnerFrame DEF Sound, Holding
<1>8. NamesInv'
  BY Zenon DEF Sound, NamesInv
<1>9. ASSUME NEW q \in Putters \ {p}, pc[q] \in {"write", "rename"}
      PROVE  data'[fd[q]] = data[fd[q]]
  <2>1. n = "labels"
    BY <1>9, OnlyOwner DEF Sound, Holding
  <2>2. fd[q] = name["tmp"] /\ fd[q] # None
    BY <1>9, Zenon DEF Sound, WriterInv
  <2>3. fd[q] \in Inodes \ {i}
    BY <1>6, <2>1, <2>2, Kinds DEF TypeOK, Names
  <2> QED
    BY <1>4, <2>3
<1>10. ASSUME NEW q \in Labelers \ {p}, pc[q] \in {"lwrite", "lrename"}
       PROVE  data'[fd[q]] = data[fd[q]]
  <2>1. n = "tmp"
    OBVIOUS
  <2>2. fd[q] = name["labels"] /\ fd[q] # None
    BY <1>10, Zenon DEF Sound, WriterInv
  <2>3. fd[q] \in Inodes \ {i}
    BY <1>6, <2>1, <2>2, Kinds DEF TypeOK, Names
  <2> QED
    BY <1>4, <2>3
<1>11. ReaderInv'
  <2>1. ASSUME NEW r \in Readers, pc[r] = "get"
        PROVE  /\ data'[fd[r]] = data[fd[r]]
               /\ fd[r] # name'["tmp"] /\ fd[r] # name'["labels"]
    <3>1. fd[r] \in Inodes /\ fd[r] # name["tmp"] /\ fd[r] # name["labels"]
      BY <2>1, Zenon DEF Sound, ReaderInv
    <3> QED
      BY <1>2, <1>4, <3>1
  <2> QED
    BY <1>1, <2>1, ReaderFrame, Zenon DEF Sound
<1>12. FileWhole'
  <2>1. name["obj"] # None => name["obj"] \in Inodes \ {i}
    BY <1>6 DEF TypeOK, Names
  <2> QED
    BY <1>4, <2>1, ObjectFrame DEF Sound
<1>13. WriterInv'
  <2>1. /\ fd'[p] # None /\ name'[n] = fd'[p]
        /\ \A b \in 1..pos'[p] : data'[fd'[p]][b] = p
    BY <1>2, <1>5 DEF i
  <2> QED
    BY <1>1, <1>9, <1>10, <2>1, WriterFrame, Zenon DEF Sound
<1> QED
  BY <1>7, <1>8, <1>11, <1>12, <1>13 DEF Sound

LEMMA RenameSound ==
  ASSUME TypeOK, Sound, NEW p \in Procs \ Readers, NEW n \in {"tmp", "labels"}, Alone(p),
         IF name[n] = None THEN UNCHANGED name ELSE RenameToObj(n),
         UNCHANGED <<data, lock, owner>>,
         p \in Putters => n = "tmp" /\ pc[p] = "rename" /\ pc'[p] = "drop",
         p \in Labelers => /\ n = "labels" /\ pc[p] = "lrename" /\ pc'[p] = "idle"
                           /\ Labelers = {p},
         p \in Putters \cup Labelers
  PROVE  Sound'
<1> DEFINE i == fd[p]
<1>1. i = name[n] /\ i # None /\ \A b \in 1..Blocks : data[i][b] = p
  <2>1. CASE p \in Putters
    BY <2>1, Zenon DEF Sound, WriterInv, Filled
  <2>2. CASE p \in Labelers
    BY <2>2, Zenon DEF Sound, WriterInv, Filled
  <2> QED
    BY <2>1, <2>2
<1> HIDE DEF i
<1>2. /\ name'["obj"] = i /\ name'[n] = None
      /\ \A m \in Names \ {"obj", n} : name'[m] = name[m]
  <2>1. name' = [name EXCEPT !["obj"] = name[n], ![n] = None]
    BY <1>1 DEF RenameToObj
  <2>2. DOMAIN name = {"obj", "tmp", "labels"}
    BY DEF TypeOK, Names
  <2>3. CASE n = "tmp"
    BY ONLY <1>1, <2>1, <2>2, <2>3 DEF Names
  <2>4. CASE n = "labels"
    BY ONLY <1>1, <2>1, <2>2, <2>4 DEF Names
  <2> QED
    BY <2>3, <2>4
<1>3. \A m \in Names \ {n} : name[m] # i
  BY <1>1 DEF Sound, NamesInv, Names
<1>4. OwnerInv'
  BY OwnerFrame DEF Sound, Holding
<1>5. NamesInv'
  BY <1>1, <1>2, <1>3 DEF Sound, NamesInv, Names
<1>6. \A q \in Putters \ {p} : pc[q] \in {"write", "rename"} => name'["tmp"] = name["tmp"]
  <2> SUFFICES ASSUME NEW q \in Putters \ {p}, pc[q] \in {"write", "rename"}
               PROVE  name'["tmp"] = name["tmp"]
    OBVIOUS
  <2>1. n = "labels"
    BY OnlyOwner DEF Sound, Holding
  <2> QED
    BY <1>2, <2>1 DEF Names
<1>7. \A q \in Labelers \ {p} : name'["labels"] = name["labels"]
  BY <1>2 DEF Names
<1>8. WriterInv'
  BY <1>6, <1>7, Kinds, WriterFrame DEF Sound
<1>9. ASSUME NEW r \in Readers, pc[r] = "get"
      PROVE  fd[r] # name'["tmp"] /\ fd[r] # name'["labels"]
  <2>1. fd[r] \in Inodes /\ fd[r] # name["tmp"] /\ fd[r] # name["labels"]
    BY <1>9, Zenon DEF Sound, ReaderInv
  <2> QED
    BY <1>2, <2>1, NoneAssumption DEF Names
<1>10. ReaderInv'
  BY <1>9, ReaderFrame DEF Sound
<1>11. FileWhole'
  BY <1>1, <1>2, Zenon DEF FileWhole, Whole
<1> QED
  BY <1>4, <1>5, <1>8, <1>10, <1>11 DEF Sound

\* A reader's step touches no file: what is left is its own descriptor.
LEMMA ReadSound ==
  ASSUME TypeOK, Sound, NEW p \in Readers, Alone(p), UNCHANGED <<name, data, lock, owner>>,
         pc'[p] = "get" =>
           /\ fd'[p] \in Inodes /\ fd'[p] # name["tmp"] /\ fd'[p] # name["labels"]
           /\ \E w \in Putters \cup Labelers :
                 /\ \A b \in 1..Blocks : data[fd'[p]][b] = w
                 /\ seen'[p] \subseteq {w}
                 /\ pos'[p] > 0 => seen'[p] # {}
  PROVE  Sound'
<1>1. OwnerInv'
  BY Kinds, OwnerFrame DEF Sound
<1>2. NamesInv'
  BY Zenon DEF Sound, NamesInv
<1>3. WriterInv'
  BY Kinds, WriterFrame DEF Sound
<1>4. FileWhole'
  BY ObjectFrame DEF Sound
<1>5. ASSUME NEW r \in Readers, pc'[r] = "get"
      PROVE  /\ fd'[r] \in Inodes /\ fd'[r] # name'["tmp"] /\ fd'[r] # name'["labels"]
             /\ \E w \in Putters \cup Labelers :
                   /\ \A b \in 1..Blocks : data'[fd'[r]][b] = w
                   /\ seen'[r] \subseteq {w}
                   /\ pos'[r] > 0 => seen'[r] # {}
  <2>1. CASE r = p
    BY <1>5, <2>1, Zenon
  <2>2. CASE r # p
    <3>1. pc'[r] = pc[r] /\ fd'[r] = fd[r] /\ pos'[r] = pos[r] /\ seen'[r] = seen[r]
      BY <2>2, Kinds, Zenon DEF Alone
    <3>2. /\ fd[r] \in Inodes /\ fd[r] # name["tmp"] /\ fd[r] # name["labels"]
          /\ \E w \in Putters \cup Labelers :
                /\ \A b \in 1..Blocks : data[fd[r]][b] = w
                /\ seen[r] \subseteq {w}
                /\ pos[r] > 0 => seen[r] # {}
      BY <1>5, <3>1, Zenon DEF Sound, ReaderInv, Filled
    <3>3. UNCHANGED <<name, data>>
      OBVIOUS
    <3> QED
      BY ONLY <3>1, <3>2, <3>3
  <2> QED
    BY <2>1, <2>2
<1>6. ReaderInv'
  BY <1>5, Zenon DEF ReaderInv, Filled
<1> QED
  BY <1>1, <1>2, <1>3, <1>4, <1>6 DEF Sound

LEMMA GetSound ==
  ASSUME TypeOK, Sound, NEW p \in Readers, Get(p) PROVE Sound'
<1>0. p \in Procs
  BY Kinds
<1>1. CASE GetOpen(p)
  <2>1. /\ Alone(p) /\ UNCHANGED <<name, data, lock, owner>>
        /\ fd'[p] = name["obj"] /\ seen'[p] = {} /\ pos'[p] = 0
    BY <1>0, <1>1 DEF GetOpen, Goto, Alone, TypeOK, files, registry
  <2>2. name["obj"] # None
    BY <1>1 DEF GetOpen
  <2>3. name["obj"] \in Inodes /\ name["obj"] # name["tmp"] /\ name["obj"] # name["labels"]
    BY <2>2 DEF TypeOK, Sound, NamesInv, Names
  <2>4. \E w \in Putters \cup Labelers : \A b \in 1..Blocks : data[name["obj"]][b] = w
    BY <2>2, Zenon DEF Sound, FileWhole, Whole
  <2> QED
    BY <2>1, <2>3, <2>4, ReadSound
<1>2. CASE GetRead(p)
  <2>1. PICK w \in Putters \cup Labelers :
          /\ \A b \in 1..Blocks : data[fd[p]][b] = w
          /\ seen[p] \subseteq {w}
    BY <1>2, Zenon DEF GetRead, Sound, ReaderInv, Filled
  <2>2. pos[p] + 1 \in 1..Blocks
    BY <1>0, <1>2, SizeAssumption DEF GetRead, TypeOK
  <2>3. data[fd[p]][pos[p] + 1] = w
    BY ONLY <2>1, <2>2
  <2>4. /\ Alone(p) /\ UNCHANGED <<name, data, lock, owner>> /\ fd'[p] = fd[p]
        /\ seen'[p] = seen[p] \cup {w}
    BY <1>0, <1>2, <2>3 DEF GetRead, Alone, TypeOK, files, registry
  <2>5. fd[p] \in Inodes /\ fd[p] # name["tmp"] /\ fd[p] # name["labels"]
    BY <1>2, Zenon DEF GetRead, Sound, ReaderInv
  <2>6. seen'[p] \subseteq {w} /\ seen'[p] # {}
    BY ONLY <2>1, <2>4
  <2> QED
    BY <2>1, <2>4, <2>5, <2>6, ReadSound
<1>3. CASE GetDone(p)
  <2>1. Alone(p) /\ UNCHANGED <<name, data, lock, owner>> /\ pc'[p] = "idle"
    BY <1>0, <1>3 DEF GetDone, Return, Goto, Alone, TypeOK, files, registry
  <2> QED
    BY <2>1, ReadSound
<1> QED
  BY <1>1, <1>2, <1>3 DEF Get

LEMMA PutSound ==
  ASSUME TypeOK, Sound, NEW p \in Putters, Put(p) PROVE Sound'
<1>0. p \in Procs \ Readers /\ p \notin Labelers
  BY Kinds
<1>1. CASE PutCreate(p)
  <2>1. PICK i \in Inodes :
            /\ name' = [name EXCEPT !["tmp"] = i] /\ data' = [data EXCEPT ![i] = Hole]
            /\ fd' = [fd EXCEPT ![p] = i] /\ pos' = [pos EXCEPT ![p] = 0]
            /\ \A m \in Names \ {"tmp"} : name[m] # i
            /\ \A r \in Readers : pc[r] = "get" => fd[r] # i
    BY <1>0, <1>1, Created, Zenon DEF PutCreate, Sound
  <2>2. /\ pc[p] = "open" /\ pc'[p] = "write" /\ UNCHANGED <<lock, owner, seen>>
        /\ \A q \in Procs \ {p} : pc'[q] = pc[q]
    BY <1>0, <1>1 DEF PutCreate, Goto, TypeOK, registry
  <2> QED
    BY <1>0, <2>1, <2>2, CreateSound
<1>2. CASE PutWrite(p)
  <2>1. /\ pos[p] < Blocks /\ data' = [data EXCEPT ![fd[p]][pos[p] + 1] = p]
        /\ pos' = [pos EXCEPT ![p] = @ + 1] /\ UNCHANGED <<name, lock, owner, fd, seen>>
    BY <1>2, Zenon DEF PutWrite, WriteBlock, registry
  <2>2. /\ pc[p] = "write" /\ pc'[p] = (IF pos'[p] = Blocks THEN "rename" ELSE "write")
        /\ \A q \in Procs \ {p} : pc'[q] = pc[q]
    BY <1>0, <1>2 DEF PutWrite, Goto, TypeOK
  <2> QED
    BY <1>0, <2>1, <2>2, WriteSound
<1>3. CASE PutRename(p)
  <2>1. /\ Alone(p) /\ pc[p] = "rename" /\ pc'[p] = "drop" /\ UNCHANGED <<data, lock, owner>>
    BY <1>0, <1>3 DEF PutRename, Goto, Alone, TypeOK, registry
  <2>2. IF name["tmp"] = None THEN UNCHANGED name ELSE RenameToObj("tmp")
    BY <1>3 DEF PutRename
  <2> QED
    BY <1>0, <2>1, <2>2, RenameSound
<1> QED
  BY <1>1, <1>2, <1>3, PutLockSound, PutLeavesSound, PutUnlockSound, PutDropSound DEF Put

LEMMA SetLabelsSound ==
  ASSUME Undisturbed, TypeOK, Sound, NEW p \in Labelers, SetLabels(p) PROVE Sound'
<1>0. p \in Procs \ Readers /\ p \notin Putters /\ Labelers = {p}
  BY Kinds DEF Undisturbed
<1>1. CASE LabelsRead(p)
  <2>1. Alone(p) /\ pc'[p] = "lcreate" /\ UNCHANGED <<name, data, lock, owner>>
    BY <1>0, <1>1 DEF LabelsRead, Goto, Alone, TypeOK, files, registry
  <2>2. OwnerInv'
    BY <1>0, <2>1, OwnerFrame DEF Sound
  <2>3. NamesInv' /\ WriterInv' /\ ReaderInv' /\ FileWhole'
    BY <1>0, <2>1, QuietStep DEF Sound
  <2> QED
    BY <2>2, <2>3 DEF Sound
<1>2. CASE LabelsCreate(p)
  <2>1. PICK i \in Inodes :
            /\ name' = [name EXCEPT !["labels"] = i] /\ data' = [data EXCEPT ![i] = Hole]
            /\ fd' = [fd EXCEPT ![p] = i] /\ pos' = [pos EXCEPT ![p] = 0]
            /\ \A m \in Names \ {"labels"} : name[m] # i
            /\ \A r \in Readers : pc[r] = "get" => fd[r] # i
    BY <1>0, <1>2, Created, Zenon DEF LabelsCreate, Sound
  <2>2. /\ pc'[p] = "lwrite" /\ UNCHANGED <<lock, owner, seen>>
        /\ \A q \in Procs \ {p} : pc'[q] = pc[q]
    BY <1>0, <1>2 DEF LabelsCreate, Goto, TypeOK, registry
  <2> QED
    BY <1>0, <2>1, <2>2, CreateSound
<1>3. CASE LabelsWrite(p)
  <2>1. /\ pos[p] < Blocks /\ data' = [data EXCEPT ![fd[p]][pos[p] + 1] = p]
        /\ pos' = [pos EXCEPT ![p] = @ + 1] /\ UNCHANGED <<name, lock, owner, fd, seen>>
    BY <1>3, Zenon DEF LabelsWrite, WriteBlock, registry
  <2>2. /\ pc[p] = "lwrite" /\ pc'[p] = (IF pos'[p] = Blocks THEN "lrename" ELSE "lwrite")
        /\ \A q \in Procs \ {p} : pc'[q] = pc[q]
    BY <1>0, <1>3 DEF LabelsWrite, Goto, TypeOK
  <2> QED
    BY <1>0, <2>1, <2>2, WriteSound
<1>4. CASE LabelsRename(p)
  <2>1. /\ Alone(p) /\ pc[p] = "lrename" /\ pc'[p] = "idle" /\ UNCHANGED <<data, lock, owner>>
    BY <1>0, <1>4 DEF LabelsRename, Return, Goto, Alone, TypeOK, registry
  <2>2. IF name["labels"] = None THEN UNCHANGED name ELSE RenameToObj("labels")
    BY <1>4 DEF LabelsRename
  <2> QED
    BY <1>0, <2>1, <2>2, RenameSound
<1> QED
  BY <1>1, <1>2, <1>3, <1>4 DEF SetLabels

LEMMA StepInv == Undisturbed /\ IInv /\ [Next]_vars => IInv'
<1> SUFFICES ASSUME Undisturbed, IInv, [Next]_vars PROVE IInv'
  OBVIOUS
<1>0. TypeOK /\ Sound
  BY DEF IInv, Sound
<1>1. TypeOK'
  BY TypeStep DEF IInv
<1>2. CASE Crash
  <2>1. /\ \A q \in Procs : pc'[q] = "idle"
        /\ UNCHANGED <<name, data>> /\ lock' = None /\ owner' = None
    BY <1>2, Zenon DEF Crash, files
  <2>2. OwnerInv' /\ NamesInv'
    BY <1>0, <2>1 DEF OwnerInv, NamesInv, Sound, Procs
  <2>3. WriterInv' /\ ReaderInv'
    BY <2>1, Zenon DEF WriterInv, ReaderInv, Procs
  <2>4. FileWhole'
    BY <1>0, <2>1, ObjectFrame DEF Sound
  <2> QED
    BY <2>2, <2>3, <2>4, <1>1 DEF IInv
<1>3. CASE Tick \/ UNCHANGED vars
  <2>1. UNCHANGED <<name, data, lock, owner, pc, fd, pos, seen>>
    BY <1>3 DEF Tick, vars, files, registry
  <2>2. OwnerInv' /\ NamesInv'
    BY <1>0, <2>1, Zenon DEF OwnerInv, NamesInv, Sound
  <2>3. WriterInv'
    BY <1>0, <2>1, Zenon DEF WriterInv, Filled, Sound
  <2>4. ReaderInv'
    BY <1>0, <2>1, Zenon DEF ReaderInv, Filled, Sound
  <2>5. FileWhole'
    BY <1>0, <2>1, ObjectFrame DEF Sound
  <2> QED
    BY <1>1, <2>2, <2>3, <2>4, <2>5 DEF IInv
<1>4. CASE \E p \in Putters : Put(p)
  BY <1>0, <1>1, <1>4, PutSound DEF IInv, Sound
<1>5. CASE \E p \in Labelers : SetLabels(p)
  BY <1>0, <1>1, <1>5, SetLabelsSound DEF IInv, Sound
<1>6. CASE \E p \in Readers : Get(p)
  BY <1>0, <1>1, <1>6, GetSound DEF IInv, Sound
<1> QED
  BY <1>2, <1>3, <1>4, <1>5, <1>6 DEF Next, Undisturbed

\* With no forced release and one set_labels at a time, the object file is at
\* every moment one writer's complete file: the staging and the rename of commit
\* and set_labels_impl are atomic for readers, across daemon crashes.
THEOREM ObjectIsWhole == Undisturbed => (Spec => []ObjectWhole)
<1> SUFFICES ASSUME Undisturbed PROVE Spec => []ObjectWhole
  OBVIOUS
<1>1. IInv /\ [Next]_vars => IInv'
  BY StepInv
<1>2. IInv => ObjectWhole
  BY DEF IInv, FileWhole, ObjectWhole
<1> QED
  BY <1>1, <1>2, InitInv, PTL DEF Spec

\* Under the same conditions a GET that has read its open file has read one
\* writer's complete file, whatever was renamed over it meanwhile.
THEOREM GetReadsWholeFile == Undisturbed => (Spec => []GetReadsWhole)
<1> SUFFICES ASSUME Undisturbed PROVE Spec => []GetReadsWhole
  OBVIOUS
<1>1. IInv /\ [Next]_vars => IInv'
  BY StepInv
<1>2. IInv => GetReadsWhole
  BY SizeAssumption DEF IInv, ReaderInv, GetReadsWhole
<1> QED
  BY <1>1, <1>2, InitInv, PTL DEF Spec

\* Under the same conditions a PUT that is about to rename finds its own file at
\* the staging name, so its rename cannot fail or publish another's bytes.
THEOREM PutPublishesOwnFile == Undisturbed => (Spec => []PublishesOwnFile)
<1> SUFFICES ASSUME Undisturbed PROVE Spec => []PublishesOwnFile
  OBVIOUS
<1>1. IInv /\ [Next]_vars => IInv'
  BY StepInv
<1>2. IInv => PublishesOwnFile
  BY DEF IInv, WriterInv, PublishesOwnFile
<1> QED
  BY <1>1, <1>2, InitInv, PTL DEF Spec
=============================================================================
