---------------------------- MODULE ObjectStore ----------------------------
(***************************************************************************)
(* The object operations of the filesystem backend of y2q-core             *)
(* (crates/y2q-core/src/storage/filesystem.rs) and the metadata index that *)
(* is kept beside the object files (index.rs): streaming and buffered PUT, *)
(* DELETE, set_labels, the GET handler and the index rebuild, interleaved  *)
(* at every await between two effects on shared state.                     *)
(*                                                                         *)
(* An object file is written under a temporary name and renamed, and read  *)
(* through one open descriptor, so its content is one value here; the      *)
(* staging of that value is the subject of StagingFile.  The value is the  *)
(* record's metadata: body names the encrypted payload, created and        *)
(* modified are the time stamps; a rewrite of the labels is recognised by  *)
(* its modified stamp.                                                     *)
(***************************************************************************)
EXTENDS Naturals, FiniteSets

CONSTANTS
    Keys,        \* object keys of a bucket
    Streamers,   \* requests served through begin_streaming_put / commit
    Putters,     \* callers of the buffered Storage::put
    Deleters,    \* requests served through Storage::delete
    Labelers,    \* requests served through Storage::set_labels
    Readers,     \* requests served by the GET handler
    MaxClock,    \* bound on the wall-clock ticks that are observed
    MaxRebuilds, \* bound on the rebuilds that are started
    None         \* "no record", "no holder", "no time"

Procs == Streamers \cup Putters \cup Deleters \cup Labelers \cup Readers

ASSUME NoneAssumption == None \notin Nat /\ None \notin Procs /\ None \notin Keys
ASSUME KindAssumption == Streamers \cap Putters = {}
ASSUME BoundAssumption == MaxClock \in Nat /\ MaxRebuilds \in Nat

VARIABLES
    disk,     \* disk[k]: the record at k's .obj path, or None
    index,    \* index[k]: the row of k in the OBJECTS table, or None
    lock,     \* lock[k]: the holder of k's entry in the LockRegistry, or None
    clock,    \* wall clock (now_nanos)
    pc,       \* pc[p]: where request p is
    req,      \* req[p]: the local variables of request p
    reb,      \* the rebuild task: state and local variables
    touched,  \* history: keys changed on disk or in the index by a request
              \* since the current rebuild was started
    missed    \* history: keys whose last index transaction failed

vars == <<disk, index, lock, clock, pc, req, reb, touched, missed>>

Stamp == 0..MaxClock
Metadata == [body : Stamp, created : Stamp, modified : Stamp]
NoMeta == [body |-> 0, created |-> 0, modified |-> 0]

\* The locals of a request: its key, what the stat found, the record it writes
\* or was described, the body it served.
Request == [key : Keys \cup {None}, over : BOOLEAN, prior : Stamp \cup {None},
            md : Metadata, got : Stamp \cup {None}]
Control == {"idle", "created", "lock", "stat", "stream", "rename", "upsert", "unlink",
            "remove", "read", "relabel", "labelrow", "body", "served"}

\* The rebuild task: directories left to visit, files left to read, the record
\* read last, the keys seen, the rows left to remove.
RebuildTask == [state : {"idle", "scan", "sweep", "completed", "failed"},
                walk : SUBSET Keys, files : SUBSET Keys, cur : Keys \cup {None},
                md : Metadata, seen : SUBSET Keys, rows : SUBSET Keys, runs : 0..MaxRebuilds]

\* The locals of a request that is not running.
NoReq(k) == [key |-> k, over |-> FALSE, prior |-> None, md |-> NoMeta, got |-> None]

NoRebuild == [state |-> "idle", walk |-> {}, files |-> {}, cur |-> None,
              md |-> NoMeta, seen |-> {}, rows |-> {}, runs |-> 0]

Init ==
    /\ disk = [k \in Keys |-> None]
    /\ index = [k \in Keys |-> None]
    /\ lock = [k \in Keys |-> None]
    /\ clock = 0
    /\ pc = [p \in Procs |-> "idle"]
    /\ req = [p \in Procs |-> NoReq(None)]
    /\ reb = NoRebuild
    /\ touched = {}
    /\ missed = {}

-----------------------------------------------------------------------------
(* Helpers shared by the operations.                                       *)

\* LockRegistry::check_not_locked.
NotLocked(k) == lock[k] = None

\* index.upsert and index.remove each run in one redb write transaction.  Every
\* caller logs an error of the transaction and goes on.
IndexTx(k, row) ==
    \/ index' = [index EXCEPT ![k] = row] /\ missed' = missed \ {k}
    \/ missed' = missed \cup {k} /\ UNCHANGED index
Upsert(k, md) == IndexTx(k, md)
Remove(k) == IndexTx(k, None)

Goto(p, to) == pc' = [pc EXCEPT ![p] = to]

\* The request returns and its locals are dropped.
Return(p) == Goto(p, "idle") /\ req' = [req EXCEPT ![p] = NoReq(None)]

\* (mutant) The clock may have been set back.
TickBack == clock' \in 1..MaxClock

\* now_nanos: time has advanced since it was last read.
Tick == clock < MaxClock /\ clock' = clock + 1

Touch(k) == touched' = touched \cup {k}

-----------------------------------------------------------------------------
(* begin_streaming_put and StreamingPutGuard::commit.                      *)

\* begin_streaming_put stats the existing file before it takes the lock.
StreamStat(p) ==
    /\ pc[p] = "idle"
    /\ \E k \in Keys :
        /\ req' = [req EXCEPT ![p] = [NoReq(k) EXCEPT !.over = disk[k] # None]]
        /\ Goto(p, IF disk[k] # None THEN "created" ELSE "lock")
    /\ UNCHANGED <<disk, index, lock, clock, reb, touched, missed>>

\* read_obj_created opens the file again; a file that is gone yields None.
StreamReadCreated(p) ==
    LET k == req[p].key IN
    /\ pc[p] = "created"
    /\ req' = [req EXCEPT ![p].prior = IF disk[k] = None THEN None ELSE disk[k].created]
    /\ Goto(p, "lock")
    /\ UNCHANGED <<disk, index, lock, clock, reb, touched, missed>>

\* try_acquire: the vacant entry is taken, an occupied one is Error::Locked.
StreamLock(p) ==
    LET k == req[p].key IN
    /\ pc[p] = "lock"
    /\ IF NotLocked(k)
         THEN lock' = [lock EXCEPT ![k] = p] /\ Goto(p, "stream") /\ UNCHANGED req
         ELSE Return(p) /\ UNCHANGED lock
    /\ UNCHANGED <<disk, index, clock, reb, touched, missed>>

\* The body has been encrypted into the staging file: commit reads the clock
\* and seals the metadata blob.  prior_created.unwrap_or(now) is decided here.
CommitStamp(p) ==
    /\ pc[p] = "stream"
    /\ Tick
    /\ req' = [req EXCEPT ![p].md =
                  [body     |-> clock',
                   created  |-> IF req[p].prior = None THEN clock' ELSE req[p].prior,
                   modified |-> clock']]
    /\ Goto(p, "rename")
    /\ UNCHANGED <<disk, index, lock, reb, touched, missed>>

\* (mutant) The lock is released at the rename, before the index transaction.
CommitRenameUnlocks(p) ==
    /\ pc[p] = "rename"
    /\ disk' = [disk EXCEPT ![req[p].key] = req[p].md]
    /\ lock' = [lock EXCEPT ![req[p].key] = None]
    /\ Goto(p, "upsert")
    /\ Touch(req[p].key)
    /\ UNCHANGED <<index, clock, req, reb, missed>>

\* The staging file is renamed over the object file.
CommitRename(p) ==
    /\ pc[p] = "rename"
    /\ disk' = [disk EXCEPT ![req[p].key] = req[p].md]
    /\ Goto(p, "upsert")
    /\ Touch(req[p].key)
    /\ UNCHANGED <<index, lock, clock, req, reb, missed>>

\* The index row is written; the guard is dropped, which releases the lock.
CommitIndex(p) ==
    LET k == req[p].key IN
    /\ pc[p] = "upsert"
    /\ Upsert(k, req[p].md)
    /\ lock' = [lock EXCEPT ![k] = None]
    /\ Return(p)
    /\ Touch(k)
    /\ UNCHANGED <<disk, clock, reb>>

\* The body stream, the quota, a write or the rename fails: the guard's Drop
\* removes the staging file and releases the lock.
PutAbort(p) ==
    /\ pc[p] \in {"stat", "stream", "rename"}
    /\ lock' = [lock EXCEPT ![req[p].key] = None]
    /\ Return(p)
    /\ UNCHANGED <<disk, index, clock, reb, touched, missed>>

(* Storage::put, the buffered path, takes the lock before it stats.        *)

PutLock(p) ==
    /\ pc[p] = "idle"
    /\ \E k \in Keys :
        /\ NotLocked(k)
        /\ lock' = [lock EXCEPT ![k] = p]
        /\ req' = [req EXCEPT ![p] = NoReq(k)]
    /\ Goto(p, "stat")
    /\ UNCHANGED <<disk, index, clock, reb, touched, missed>>

\* The stat and the read of `created`, both under the lock.
PutStat(p) ==
    LET k == req[p].key IN
    /\ pc[p] = "stat"
    /\ req' = [req EXCEPT ![p].over = disk[k] # None,
                          ![p].prior = IF disk[k] = None THEN None ELSE disk[k].created]
    /\ Goto(p, "stream")
    /\ UNCHANGED <<disk, index, lock, clock, reb, touched, missed>>

-----------------------------------------------------------------------------
(* Storage::delete: check_not_locked only, no lock is taken.               *)

\* The lock is checked, the file is opened and its header validated.
DeleteCheck(p) ==
    /\ pc[p] = "idle"
    /\ \E k \in Keys :
        /\ NotLocked(k)
        /\ disk[k] # None
        /\ req' = [req EXCEPT ![p] = NoReq(k)]
    /\ Goto(p, "unlink")
    /\ UNCHANGED <<disk, index, lock, clock, reb, touched, missed>>

\* remove_file; NotFound is not an error.
DeleteUnlink(p) ==
    /\ pc[p] = "unlink"
    /\ disk' = [disk EXCEPT ![req[p].key] = None]
    /\ Goto(p, "remove")
    /\ Touch(req[p].key)
    /\ UNCHANGED <<index, lock, clock, req, reb, missed>>

DeleteIndex(p) ==
    /\ pc[p] = "remove"
    /\ Remove(req[p].key)
    /\ Return(p)
    /\ Touch(req[p].key)
    /\ UNCHANGED <<disk, lock, clock, reb>>

-----------------------------------------------------------------------------
(* Storage::set_labels and set_labels_impl: check_not_locked only.         *)

LabelsCheck(p) ==
    /\ pc[p] = "idle"
    /\ \E k \in Keys :
        /\ NotLocked(k)
        /\ req' = [req EXCEPT ![p] = NoReq(k)]
    /\ Goto(p, "read")
    /\ UNCHANGED <<disk, index, lock, clock, reb, touched, missed>>

\* The whole file is read; labels and `modified` are replaced in memory.
LabelsRead(p) ==
    LET k == req[p].key IN
    /\ pc[p] = "read"
    /\ disk[k] # None
    /\ Tick
    /\ req' = [req EXCEPT ![p].md = [disk[k] EXCEPT !.modified = clock']]
    /\ Goto(p, "relabel")
    /\ UNCHANGED <<disk, index, lock, reb, touched, missed>>

\* The rewritten file is renamed over whatever is at the path by now.
LabelsRename(p) ==
    /\ pc[p] = "relabel"
    /\ disk' = [disk EXCEPT ![req[p].key] = req[p].md]
    /\ Goto(p, "labelrow")
    /\ Touch(req[p].key)
    /\ UNCHANGED <<index, lock, clock, req, reb, missed>>

LabelsIndex(p) ==
    /\ pc[p] = "labelrow"
    /\ Upsert(req[p].key, req[p].md)
    /\ Return(p)
    /\ Touch(req[p].key)
    /\ UNCHANGED <<disk, lock, clock, reb>>

\* unlink, or set_labels' read (NotFound included), staging write or rename, returns an error.
MutationFails(p) ==
    /\ pc[p] \in {"unlink", "read", "relabel"}
    /\ Return(p)
    /\ UNCHANGED <<disk, index, lock, clock, reb, touched, missed>>

-----------------------------------------------------------------------------
(* The GET handler: describe, then get.                                    *)

\* storage.describe: Locked and NotFound end the request.
GetDescribe(p) ==
    /\ pc[p] \in {"idle", "served"}
    /\ \E k \in Keys :
        /\ NotLocked(k)
        /\ disk[k] # None
        /\ req' = [req EXCEPT ![p] = [NoReq(k) EXCEPT !.md = disk[k]]]
    /\ Goto(p, "body")
    /\ UNCHANGED <<disk, index, lock, clock, reb, touched, missed>>

\* storage.get, then the envelope is opened with the size in md.
GetBody(p) ==
    LET k == req[p].key IN
    /\ pc[p] = "body"
    /\ IF NotLocked(k) /\ disk[k] # None
         THEN Goto(p, "served") /\ req' = [req EXCEPT ![p].got = disk[k].body]
         ELSE Return(p)
    /\ UNCHANGED <<disk, index, lock, clock, reb, touched, missed>>

-----------------------------------------------------------------------------
(* rebuild_cache, run_rebuild and collect_obj_files.                       *)

\* CacheRebuildStatus::Running: the scan of the files or the sweep of the rows.
Rebuilding == reb.state \in {"scan", "sweep"}

\* rebuild_cache refuses a second run, then spawns the task.
RebuildStart ==
    /\ ~Rebuilding
    /\ reb.runs < MaxRebuilds
    /\ reb' = [NoRebuild EXCEPT !.state = "scan", !.walk = Keys, !.runs = reb.runs + 1]
    /\ touched' = {}
    /\ UNCHANGED <<disk, index, lock, clock, pc, req, missed>>

\* collect_obj_files visits the shard directories one by one.
RebuildCollect ==
    /\ reb.state = "scan"
    /\ \E k \in reb.walk :
        reb' = [reb EXCEPT !.walk = @ \ {k},
                           !.files = IF disk[k] = None THEN @ ELSE @ \cup {k}]
    /\ UNCHANGED <<disk, index, lock, clock, pc, req, touched, missed>>

\* (mutant) A file that cannot be read is kept for another try.
RebuildReadRetries ==
    /\ reb.state = "scan" /\ reb.walk = {} /\ reb.cur = None
    /\ \E k \in reb.files :
        reb' = [reb EXCEPT !.files = IF disk[k] = None THEN @ ELSE @ \ {k},
                           !.cur = IF disk[k] = None THEN None ELSE k,
                           !.md = IF disk[k] = None THEN @ ELSE disk[k]]
    /\ UNCHANGED <<disk, index, lock, clock, pc, req, touched, missed>>

\* read_obj_metadata of the next file; a file that cannot be read is skipped.
RebuildRead ==
    /\ reb.state = "scan" /\ reb.walk = {} /\ reb.cur = None
    /\ \E k \in reb.files :
        reb' = [reb EXCEPT !.files = @ \ {k},
                           !.cur = IF disk[k] = None THEN None ELSE k,
                           !.md = IF disk[k] = None THEN @ ELSE disk[k]]
    /\ UNCHANGED <<disk, index, lock, clock, pc, req, touched, missed>>

RebuildUpsert ==
    /\ reb.state = "scan" /\ reb.cur # None
    /\ Upsert(reb.cur, reb.md)
    /\ reb' = [reb EXCEPT !.seen = @ \cup {reb.cur}, !.cur = None, !.md = NoMeta]
    /\ UNCHANGED <<disk, lock, clock, pc, req, touched>>

\* (mutant) The rows without a file are not collected for removal.
RebuildListRowsNone ==
    /\ reb.state = "scan" /\ reb.walk = {} /\ reb.files = {} /\ reb.cur = None
    /\ reb' = [reb EXCEPT !.state = "sweep"]
    /\ UNCHANGED <<disk, index, lock, clock, pc, req, touched, missed>>

\* list_all_keys, once every file has been processed.
RebuildListRows ==
    /\ reb.state = "scan" /\ reb.walk = {} /\ reb.files = {} /\ reb.cur = None
    /\ reb' = [reb EXCEPT !.state = "sweep",
                          !.rows = {k \in Keys : index[k] # None} \ reb.seen]
    /\ UNCHANGED <<disk, index, lock, clock, pc, req, touched, missed>>

\* Every row whose file was not seen is removed.
RebuildRemove ==
    /\ reb.state = "sweep"
    /\ \E k \in reb.rows :
        /\ Remove(k)
        /\ reb' = [reb EXCEPT !.rows = @ \ {k}]
    /\ UNCHANGED <<disk, lock, clock, pc, req, touched>>

\* read_dir or list_all_keys fails: CacheRebuildStatus::Failed.
RebuildFails ==
    /\ reb.state = "scan" /\ reb.cur = None
    /\ reb.walk # {} \/ reb.files = {}
    /\ reb' = [NoRebuild EXCEPT !.state = "failed", !.runs = reb.runs]
    /\ UNCHANGED <<disk, index, lock, clock, pc, req, touched, missed>>

RebuildDone ==
    /\ reb.state = "sweep" /\ reb.rows = {}
    /\ reb' = [NoRebuild EXCEPT !.state = "completed", !.runs = reb.runs]
    /\ UNCHANGED <<disk, index, lock, clock, pc, req, touched, missed>>

-----------------------------------------------------------------------------
Stream(p) ==
    \/ StreamStat(p) \/ StreamReadCreated(p) \/ StreamLock(p)
Commit(p) ==
    \/ CommitStamp(p) \/ CommitRename(p) \/ CommitIndex(p) \/ PutAbort(p)
Put(p) == PutLock(p) \/ PutStat(p)
Delete(p) == DeleteCheck(p) \/ DeleteUnlink(p) \/ DeleteIndex(p)
SetLabels(p) == LabelsCheck(p) \/ LabelsRead(p) \/ LabelsRename(p) \/ LabelsIndex(p)
Get(p) == GetDescribe(p) \/ GetBody(p)
RebuildStep ==
    \/ RebuildCollect \/ RebuildRead \/ RebuildUpsert
    \/ RebuildListRows \/ RebuildRemove \/ RebuildDone \/ RebuildFails

Next ==
    \/ \E p \in Streamers : Stream(p)
    \/ \E p \in Streamers \cup Putters : Commit(p)
    \/ \E p \in Putters : Put(p)
    \/ \E p \in Deleters : Delete(p) \/ MutationFails(p)
    \/ \E p \in Labelers : SetLabels(p) \/ MutationFails(p)
    \/ \E p \in Readers : Get(p)
    \/ RebuildStart
    \/ RebuildStep

Spec == Init /\ [][Next]_vars

-----------------------------------------------------------------------------
TypeOK ==
    /\ disk \in [Keys -> Metadata \cup {None}]
    /\ index \in [Keys -> Metadata \cup {None}]
    /\ lock \in [Keys -> Streamers \cup Putters \cup {None}]
    /\ clock \in Stamp
    /\ pc \in [Procs -> Control]
    /\ req \in [Procs -> Request]
    /\ reb \in RebuildTask
    /\ touched \subseteq Keys /\ missed \subseteq Keys

\* Between try_acquire and the drop of the guard.
Committing == {"stat", "stream", "rename", "upsert"}

\* Two PUTs of one key are never both between taking the lock and releasing it,
\* whatever DELETE, set_labels and the rebuild do (LockRegistry::try_acquire).
PutsExclusive ==
    \A p, q \in Procs :
        (pc[p] \in Committing /\ pc[q] \in Committing /\ req[p].key = req[q].key) => p = q

\* A key that no PUT holds has an index row equal to its file, unless its last
\* index transaction failed: what a listing shows is what a GET reads.  PUT keeps
\* the lock from before the rename until after the index transaction
\* (filesystem.rs, commit).
UnlockedKeyIndexed == \A k \in Keys \ missed : lock[k] = None => index[k] = disk[k]

\* When a rebuild has completed, the index is right for every key that no
\* request has changed since the rebuild started (and whose index transaction
\* did not fail), however the key's row had drifted before and whatever happened
\* to the other keys meanwhile.
RebuildRepairsUntouched ==
    reb.state = "completed" => \A k \in Keys \ (touched \cup missed) : index[k] = disk[k]

\* The body a GET serves is never older than the metadata it was described
\* with: commits of a key reach the disk in the order they were stamped.
GetBodyNotOlder ==
    \A p \in Readers : pc[p] = "served" => req[p].got >= req[p].md.body

\* A buffered PUT that replaces a file keeps its `created` stamp and reports that
\* it replaced one, whatever PUTs and DELETEs end between its stat and its rename, as long
\* as no set_labels runs.  (A streaming PUT stats before it takes the lock and has no
\* such guarantee.)
PutKeepsCreated ==
    [][\A p \in Putters :
         LET k == req[p].key IN
         (pc[p] = "rename" /\ pc'[p] = "upsert" /\ disk[k] # None)
             => /\ disk'[k].created = disk[k].created
                /\ req[p].over]_vars

\* set_labels replaces the labels and `modified` of the file that is there and
\* nothing else: the data section is "preserved byte-for-byte".
LabelsKeepBody ==
    [][\A p \in Labelers :
         LET k == req[p].key IN
         (pc[p] = "relabel" /\ pc'[p] = "labelrow")
             => disk[k] # None /\ disk'[k].body = disk[k].body]_vars

\* A rebuild that was started ends, whatever PUT, DELETE and set_labels do to
\* the files and rows it has listed.
RebuildCompletes == Rebuilding ~> ~Rebuilding
=============================================================================
