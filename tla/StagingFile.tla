---------------------------- MODULE StagingFile ----------------------------
(***************************************************************************)
(* How one object file comes to be at its path: the write lock of the      *)
(* in-memory LockRegistry (crates/y2q-core/src/storage/locks.rs), the      *)
(* staging files <id>.tmp of a PUT and <id>.labels.tmp of a set_labels,    *)
(* the renames, the guard's Drop, the administrator's DELETE /locks with   *)
(* its sweep of orphan staging files (filesystem.rs), and a daemon crash.  *)
(*                                                                         *)
(* Names and files are kept apart, as the file system keeps them: a name   *)
(* points to an inode, an open file keeps its inode after an unlink or a   *)
(* rename of the name, and re-creating a staging file that is still there  *)
(* truncates the inode others may be writing to.  A file is Blocks blocks, *)
(* each holding the writer whose bytes it has.                             *)
(***************************************************************************)
EXTENDS Naturals, FiniteSets

CONSTANTS
    Putters,    \* streaming PUTs of the object
    Labelers,   \* set_labels requests of the object
    Readers,    \* GETs of the object
    Admins,     \* DELETE /api/v1/locks requests
    Inodes,     \* inodes the file system hands out
    Blocks,     \* number of blocks of a complete object file
    MaxClock,   \* bound on the time steps that are told apart
    MaxFaults,  \* bound on daemon crashes and failed writes of a placeholder header
    None        \* "no inode", "no lock", "no writer"

Procs == Putters \cup Labelers \cup Readers \cup Admins

ASSUME SizeAssumption == Blocks \in Nat \ {0} /\ MaxClock \in Nat \ {0} /\ MaxFaults \in Nat
ASSUME NoneAssumption == None \notin Inodes \cup Procs \cup Nat
ASSUME DisjointAssumption ==
    /\ Putters \cap (Labelers \cup Readers \cup Admins) = {}
    /\ Labelers \cap (Readers \cup Admins) = {} /\ Readers \cap Admins = {}

VARIABLES
    name,     \* name["obj" | "tmp" | "labels"]: the inode at that path, or None
    data,     \* data[i][b]: the writer of block b of inode i, or None for a hole
    mtime,    \* mtime[i]: when inode i was last written
    lock,     \* the registry entry of the object: its time stamp, or None
    owner,    \* history: the PUT that inserted the present entry
    evicted,  \* history: PUTs whose entry was force-released since the start
    clock,
    pc,       \* pc[p]: where request p is
    fd,       \* fd[p]: the inode p has open
    pos,      \* pos[p]: blocks p has written or read
    seen,     \* seen[p]: the writers whose bytes reader p has got
    cutoff,   \* cutoff[a]: the older_than of administrator a
    left,     \* left[a]: the staging names a's sweep has not visited
    faults

vars == <<name, data, mtime, lock, owner, evicted, clock, pc, fd, pos, seen, cutoff, left, faults>>
files == <<name, data, mtime>>
registry == <<lock, owner, evicted>>
admin == <<cutoff, left>>

Names == {"obj", "tmp", "labels"}
Hole == [b \in 1..Blocks |-> None]

Init ==
    /\ name = [n \in Names |-> None]
    /\ data = [i \in Inodes |-> Hole]
    /\ mtime = [i \in Inodes |-> 0]
    /\ lock = None /\ owner = None /\ evicted = {}
    /\ clock = 1
    /\ pc = [p \in Procs |-> "idle"]
    /\ fd = [p \in Procs |-> None]
    /\ pos = [p \in Procs |-> 0]
    /\ seen = [p \in Procs |-> {}]
    /\ cutoff = [p \in Procs |-> 0]
    /\ left = [p \in Procs |-> {}]
    /\ faults = 0

-----------------------------------------------------------------------------
Goto(p, to) == pc' = [pc EXCEPT ![p] = to]

Free == Inodes \ ({name[n] : n \in Names} \cup {fd[p] : p \in Procs})

\* open(O_CREAT | O_TRUNC): the inode at the name, or a new one, emptied.
OpenTruncated(p, n) ==
    \E i \in (IF name[n] # None THEN {name[n]} ELSE Free) :
        /\ name' = [name EXCEPT ![n] = i]
        /\ data' = [data EXCEPT ![i] = Hole]
        /\ mtime' = [mtime EXCEPT ![i] = clock]
        /\ fd' = [fd EXCEPT ![p] = i]
        /\ pos' = [pos EXCEPT ![p] = 0]

\* The next block of p's file goes to the inode p has open.
WriteBlock(p) ==
    /\ pos[p] < Blocks
    /\ data' = [data EXCEPT ![fd[p]][pos[p] + 1] = p]
    /\ mtime' = [mtime EXCEPT ![fd[p]] = clock]
    /\ pos' = [pos EXCEPT ![p] = @ + 1]

\* rename(n, obj) publishes whatever inode is at the name.
RenameToObj(n) == name' = [name EXCEPT !["obj"] = name[n], ![n] = None]

\* p returns; what it had open is closed.
Return(p) == Goto(p, "idle") /\ fd' = [fd EXCEPT ![p] = None] /\ pos' = [pos EXCEPT ![p] = 0]

-----------------------------------------------------------------------------
(* A streaming PUT: try_acquire, the tmp file, commit, Drop.               *)

\* try_acquire: a vacant entry is stamped with the time.
PutLock(p) ==
    /\ pc[p] = "idle"
    /\ lock = None
    /\ lock' = clock /\ owner' = p
    /\ Goto(p, "open")
    /\ UNCHANGED <<files, evicted, clock, fd, pos, seen, admin, faults>>

PutCreate(p) ==
    /\ pc[p] = "open"
    /\ OpenTruncated(p, "tmp")
    /\ Goto(p, "write")
    /\ UNCHANGED <<registry, clock, seen, admin, faults>>

\* The encrypted chunks, the metadata and the trailer, then the real header.
PutWrite(p) ==
    /\ pc[p] = "write"
    /\ WriteBlock(p)
    /\ Goto(p, IF pos'[p] = Blocks THEN "rename" ELSE "write")
    /\ UNCHANGED <<name, registry, clock, fd, seen, admin, faults>>

\* A tmp name that is gone makes the rename, and the PUT, fail.
PutRename(p) ==
    /\ pc[p] = "rename"
    /\ IF name["tmp"] = None THEN UNCHANGED name ELSE RenameToObj("tmp")
    /\ Goto(p, "drop")
    /\ UNCHANGED <<data, mtime, registry, clock, fd, pos, seen, admin, faults>>

\* The body or a write fails.  Before the tmp file is open there is no
\* StreamingPutGuard yet, only the LockGuard.
PutAbort(p) ==
    /\ pc[p] \in {"open", "write"}
    /\ Goto(p, IF pc[p] = "open" THEN "unlock" ELSE "drop")
    /\ UNCHANGED <<files, registry, clock, fd, pos, seen, admin, faults>>

\* The write of the placeholder header fails: the tmp file is there, but no
\* StreamingPutGuard that would remove it.
PutAbandon(p) ==
    /\ pc[p] = "write" /\ pos[p] = 0
    /\ faults < MaxFaults
    /\ faults' = faults + 1
    /\ Goto(p, "unlock")
    /\ UNCHANGED <<files, registry, clock, fd, pos, seen, admin>>

\* StreamingPutGuard::drop removes the tmp name, whoever's it is by now.
PutDrop(p) ==
    /\ pc[p] = "drop"
    /\ name' = [name EXCEPT !["tmp"] = None]
    /\ Goto(p, "unlock")
    /\ UNCHANGED <<data, mtime, registry, clock, fd, pos, seen, admin, faults>>

\* LockGuard::drop removes the entry of the key, whoever's it is by now.
PutUnlock(p) ==
    /\ pc[p] = "unlock"
    /\ lock' = None /\ owner' = None
    /\ Return(p)
    /\ UNCHANGED <<files, evicted, clock, seen, admin, faults>>

-----------------------------------------------------------------------------
(* set_labels: check_not_locked, read, write labels.tmp, rename.           *)

Whole(i) == \E p \in Putters \cup Labelers : \A b \in 1..Blocks : data[i][b] = p

\* The lock is checked and the whole file read; a file that does not decode is
\* an error.
LabelsRead(p) ==
    /\ pc[p] = "idle"
    /\ lock = None
    /\ name["obj"] # None /\ Whole(name["obj"])
    /\ Goto(p, "lcreate")
    /\ UNCHANGED <<files, registry, clock, fd, pos, seen, admin, faults>>

\* tokio::fs::write creates or truncates <id>.labels.tmp.
LabelsCreate(p) ==
    /\ pc[p] = "lcreate"
    /\ OpenTruncated(p, "labels")
    /\ Goto(p, "lwrite")
    /\ UNCHANGED <<registry, clock, seen, admin, faults>>

LabelsWrite(p) ==
    /\ pc[p] = "lwrite"
    /\ WriteBlock(p)
    /\ Goto(p, IF pos'[p] = Blocks THEN "lrename" ELSE "lwrite")
    /\ UNCHANGED <<name, registry, clock, fd, seen, admin, faults>>

LabelsRename(p) ==
    /\ pc[p] = "lrename"
    /\ IF name["labels"] = None THEN UNCHANGED name ELSE RenameToObj("labels")
    /\ Return(p)
    /\ UNCHANGED <<data, mtime, registry, clock, seen, admin, faults>>

-----------------------------------------------------------------------------
(* GET: the file is opened once and read through that descriptor.          *)

GetOpen(p) ==
    /\ pc[p] = "idle"
    /\ lock = None
    /\ name["obj"] # None
    /\ fd' = [fd EXCEPT ![p] = name["obj"]]
    /\ pos' = [pos EXCEPT ![p] = 0]
    /\ seen' = [seen EXCEPT ![p] = {}]
    /\ Goto(p, "get")
    /\ UNCHANGED <<files, registry, clock, admin, faults>>

\* (mutant) The path is opened again for every block.
GetReadByPath(p) ==
    /\ pc[p] = "get"
    /\ pos[p] < Blocks /\ name["obj"] # None
    /\ seen' = [seen EXCEPT ![p] = @ \cup {data[name["obj"]][pos[p] + 1]}]
    /\ pos' = [pos EXCEPT ![p] = @ + 1]
    /\ UNCHANGED <<files, registry, clock, pc, fd, admin, faults>>

GetRead(p) ==
    /\ pc[p] = "get"
    /\ pos[p] < Blocks
    /\ seen' = [seen EXCEPT ![p] = @ \cup {data[fd[p]][pos[p] + 1]}]
    /\ pos' = [pos EXCEPT ![p] = @ + 1]
    /\ UNCHANGED <<files, registry, clock, pc, fd, admin, faults>>

GetDone(p) ==
    /\ pc[p] = "get"
    /\ pos[p] = Blocks
    /\ Return(p)
    /\ UNCHANGED <<files, registry, clock, seen, admin, faults>>

-----------------------------------------------------------------------------
(* DELETE /api/v1/locks: clear_stale, then clear_orphan_tmp_files.         *)

\* older_than names a time up to now; only older entries are evicted.
ClearLocks(a) ==
    /\ pc[a] = "idle"
    /\ \E c \in 1..clock :
        /\ cutoff' = [cutoff EXCEPT ![a] = c]
        /\ IF lock # None /\ lock < c
             THEN lock' = None /\ owner' = None /\ evicted' = evicted \cup {owner}
             ELSE UNCHANGED registry
    /\ left' = [left EXCEPT ![a] = {"tmp", "labels"}]
    /\ Goto(a, "sweep")
    /\ UNCHANGED <<files, clock, fd, pos, seen, faults>>

\* A staging name is visited and its mtime read.
SweepStat(a) ==
    /\ pc[a] = "sweep"
    /\ \E n \in left[a] :
        IF name[n] # None /\ mtime[name[n]] < cutoff[a]
          THEN Goto(a, n) /\ UNCHANGED left
          ELSE left' = [left EXCEPT ![a] = @ \ {n}] /\ UNCHANGED pc
    /\ UNCHANGED <<files, registry, clock, fd, pos, seen, cutoff, faults>>

\* The name whose mtime was stale is removed.
SweepUnlink(a) ==
    /\ pc[a] \in {"tmp", "labels"}
    /\ name' = [name EXCEPT ![pc[a]] = None]
    /\ left' = [left EXCEPT ![a] = @ \ {pc[a]}]
    /\ Goto(a, "sweep")
    /\ UNCHANGED <<data, mtime, registry, clock, fd, pos, seen, cutoff, faults>>

SweepDone(a) ==
    /\ pc[a] = "sweep" /\ left[a] = {}
    /\ Goto(a, "idle")
    /\ UNCHANGED <<files, registry, clock, fd, pos, seen, admin, faults>>

-----------------------------------------------------------------------------
\* The daemon dies: requests and the registry vanish, the names stay.
Crash ==
    /\ faults < MaxFaults
    /\ faults' = faults + 1
    /\ lock' = None /\ owner' = None /\ evicted' = {}
    /\ pc' = [p \in Procs |-> "idle"]
    /\ fd' = [p \in Procs |-> None]
    /\ pos' = [p \in Procs |-> 0]
    /\ left' = [p \in Procs |-> {}]
    /\ UNCHANGED <<files, clock, seen, cutoff>>

Tick ==
    /\ clock < MaxClock
    /\ clock' = clock + 1
    /\ UNCHANGED <<files, registry, pc, fd, pos, seen, admin, faults>>

Put(p) ==
    \/ PutLock(p) \/ PutCreate(p) \/ PutWrite(p) \/ PutRename(p) \/ PutAbort(p)
    \/ PutAbandon(p) \/ PutDrop(p) \/ PutUnlock(p)
SetLabels(p) == LabelsRead(p) \/ LabelsCreate(p) \/ LabelsWrite(p) \/ LabelsRename(p)
Get(p) == GetOpen(p) \/ GetRead(p) \/ GetDone(p)
Clear(a) == ClearLocks(a) \/ SweepStat(a) \/ SweepUnlink(a) \/ SweepDone(a)

Next ==
    \/ \E p \in Putters : Put(p)
    \/ \E p \in Labelers : SetLabels(p)
    \/ \E p \in Readers : Get(p)
    \/ \E a \in Admins : Clear(a)
    \/ Crash
    \/ Tick

Spec == Init /\ [][Next]_vars

-----------------------------------------------------------------------------
TypeOK ==
    /\ name \in [Names -> Inodes \cup {None}]
    /\ data \in [Inodes -> [1..Blocks -> Putters \cup Labelers \cup {None}]]
    /\ mtime \in [Inodes -> 0..MaxClock]
    /\ lock \in 1..MaxClock \cup {None} /\ owner \in Putters \cup {None}
    /\ evicted \subseteq Putters
    /\ clock \in 1..MaxClock
    /\ pc \in [Procs -> {"idle", "open", "write", "rename", "drop", "unlock", "lcreate",
                         "lwrite", "lrename", "get", "sweep", "tmp", "labels"}]
    /\ fd \in [Procs -> Inodes \cup {None}]
    /\ pos \in [Procs -> 0..Blocks]
    /\ seen \in [Procs -> SUBSET (Putters \cup Labelers \cup {None})]
    /\ cutoff \in [Procs -> 0..MaxClock]
    /\ left \in [Procs -> SUBSET {"tmp", "labels"}]
    /\ faults \in 0..MaxFaults

\* As long as no lock was force-released, the object file is a complete file of
\* one writer: "the write is atomic" (set_labels_impl, commit).
ObjectWhole == (evicted = {} /\ name["obj"] # None) => Whole(name["obj"])

\* Under the same condition a GET that has read the file it opened has read one
\* writer's complete file, whatever replaced the file, and whichever inodes were
\* reused, meanwhile.
GetReadsWhole ==
    \A p \in Readers : (evicted = {} /\ pc[p] = "get" /\ pos[p] = Blocks) =>
        \E w \in Putters \cup Labelers : seen[p] = {w}

\* As long as no lock was force-released, a PUT that is about to rename finds
\* its own file at the staging name ("a sane cutoff never races an active PUT",
\* clear_orphan_tmp_files).
PublishesOwnFile ==
    evicted = {} => \A p \in Putters : pc[p] = "rename" => name["tmp"] = fd[p]

=============================================================================
