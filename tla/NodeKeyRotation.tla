-------------------------- MODULE NodeKeyRotation --------------------------
(***************************************************************************)
(* Offline rotation of the node key (y2qd --rotate-node-key), the boot of  *)
(* the daemon beside it, and the keystore files both use.                  *)
(*                                                                         *)
(* Every name and seal on disk is derived from the node key, so the model  *)
(* records, for each thing on disk, the key it is under: the directory of  *)
(* a bucket, its config sidecar, each object file (a pair of object and    *)
(* key), the metadata index, users.redb, the device registry and the       *)
(* verifier in keystore.json.  The keystore flock is held by one process   *)
(* at most; a kill or an I/O error ends the process at any step and leaves *)
(* the disk as it is.  Staging files are left out: they are renamed into   *)
(* place and never read.                                                   *)
(***************************************************************************)
EXTENDS Naturals, FiniteSets

CONSTANTS
    NodeKeys,      \* node keys
    Buckets,       \* bucket names
    Objects,       \* object keys
    Holds,         \* the objects stored in each bucket
    Claimed,       \* the buckets that have a config sidecar
    Modes,         \* "operator": key from the environment; "device": registry
    MaxStarts,     \* bound on the rotations begun (a resume is not counted)
    MaxStops,      \* bound on kills and I/O errors
    Partial,       \* a journal file that does not parse yet
    None

ASSUME HoldsType == Holds \in [Buckets -> SUBSET Objects]
ASSUME ClaimedType == Claimed \subseteq Buckets
ASSUME ModesType == Modes \subseteq {"operator", "device"}
ASSUME BoundsType == MaxStarts \in Nat /\ MaxStops \in Nat

VARIABLES
    mode,      \* how the node key is supplied
    journal,   \* node-key-rotation.json: None, Partial or <<old, new>>
    manifest,  \* the key whose verifier keystore.json holds
    registry,  \* the key wrapped in devices.json, None in operator mode
    users,     \* the key users.redb is sealed under
    index,     \* None, or the index file: its key, the buckets with object
               \* rows and the buckets create_bucket registered
    dir,       \* the key each bucket's directory is named under
    config,    \* the key each bucket's sidecar is sealed under, or None
    files,     \* the object files of each bucket: pairs <<object, key>>
    lock,      \* the holder of the keystore flock
    rot,       \* the rotation process
    daemon,    \* the daemon process
    failure,   \* why the last rotation ended early
    starts, stops

tree == <<dir, config, files>>
keystore == <<journal, manifest, registry, users>>
vars == <<mode, keystore, index, tree, lock, rot, daemon, failure, starts, stops>>

Pairs == {p \in NodeKeys \X NodeKeys : p[1] # p[2]}
Held == {b \in Buckets : Holds[b] # {}}
Index(k, rows, registered) == [key |-> k, rows |-> rows, registered |-> registered]
Listed(i) == i.rows \cup i.registered
NoRotation == [pc |-> "idle", old |-> None, new |-> None, todo |-> {},
               bucket |-> None, files |-> {}]
NoDaemon == [pc |-> "down", key |-> None]
Phases == {"idle", "create", "write", "probe", "bucket", "object", "remove", "config",
           "rename", "open", "rebuild", "users", "registry", "verifier", "delete"}

JournalStates == {None, Partial} \cup Pairs
IndexFiles == [key : NodeKeys, rows : SUBSET Buckets, registered : SUBSET Buckets]
IndexStates == {None} \cup IndexFiles
FileSets == SUBSET (Objects \X NodeKeys)
RotStates == [pc : Phases, old : NodeKeys \cup {None}, new : NodeKeys \cup {None},
              todo : SUBSET Buckets, bucket : Buckets \cup {None}, files : FileSets]
DaemonStates == [pc : {"down", "booting", "rebuilding", "serving"}, key : NodeKeys \cup {None}]
Failures == {"none", "header", "index", "config", "users", "stopped"}

ASSUME NoneIsNothing ==
    /\ None \notin NodeKeys \cup (NodeKeys \X NodeKeys) \cup IndexFiles \cup {"rotation", "daemon"}
    /\ Partial \notin (NodeKeys \X NodeKeys) \cup {None}

TypeOK ==
    /\ mode \in Modes
    /\ journal \in JournalStates
    /\ manifest \in NodeKeys
    /\ users \in NodeKeys
    /\ registry \in NodeKeys \cup {None}
    /\ index \in IndexStates
    /\ dir \in [Buckets -> NodeKeys]
    /\ config \in [Buckets -> NodeKeys \cup {None}]
    /\ files \in [Buckets -> FileSets]
    /\ lock \in {None, "rotation", "daemon"}
    /\ rot \in RotStates
    /\ daemon \in DaemonStates
    /\ failure \in Failures
    /\ starts \in 0 .. MaxStarts
    /\ stops \in 0 .. MaxStops

Init ==
    /\ mode \in Modes
    /\ journal = None
    /\ manifest \in NodeKeys
    /\ users = manifest
    /\ registry = IF mode = "device" THEN manifest ELSE None
    /\ index = Index(manifest, Held, Buckets)
    /\ dir = [b \in Buckets |-> manifest]
    /\ config = [b \in Buckets |-> IF b \in Claimed THEN manifest ELSE None]
    /\ files = [b \in Buckets |-> Holds[b] \X {manifest}]
    /\ lock = None
    /\ rot = NoRotation
    /\ daemon = NoDaemon
    /\ failure = "none"
    /\ starts = 0 /\ stops = 0

-----------------------------------------------------------------------------
(* The rotation ends early and its flock is released: an error return. *)
Fail(why) ==
    /\ rot' = NoRotation
    /\ lock' = None
    /\ failure' = why
    /\ UNCHANGED <<mode, keystore, index, tree, daemon, starts, stops>>

Goto(pc) == rot' = [rot EXCEPT !.pc = pc]

(* Mutant: a fresh run goes straight to the tree. *)

(* Where an accepted run begins.  In operator mode the old key is verified
   against keystore.json before the journal is read; in device mode a registry
   that already opens under the new key means only the finish is left.  A
   journal for another pair, or one that does not parse, refuses the run. *)
StartPhase(old, new) ==
    IF journal = None THEN "create"
    ELSE IF mode = "device" /\ old = new THEN "verifier"
    ELSE "probe"

Accepts(old, new) ==
    \/ journal = None /\ old # new /\ manifest = old
    \/ journal = <<old, new>> /\ manifest = old
    \/ mode = "device" /\ old = new /\ \E o \in NodeKeys : journal = <<o, new>>

RotateStart(old, new) ==
    /\ lock = None
    /\ journal = None => starts < MaxStarts
    /\ mode = "device" => old = registry
    /\ Accepts(old, new)
    /\ lock' = "rotation"
    /\ rot' = [NoRotation EXCEPT !.pc = StartPhase(old, new), !.old = old, !.new = new]
    /\ starts' = IF journal = None THEN starts + 1 ELSE starts
    /\ failure' = "none"
    /\ UNCHANGED <<mode, keystore, index, tree, daemon, stops>>

(* write_rotation_journal creates the file, then fills and syncs it. *)
JournalCreate ==
    /\ rot.pc = "create"
    /\ journal' = Partial
    /\ Goto("write")
    /\ UNCHANGED <<mode, manifest, registry, users, index, tree, lock, daemon, failure, starts, stops>>

(* Mutant: the new verifier is written twice. *)

JournalWrite ==
    /\ rot.pc = "write"
    /\ journal' = <<rot.old, rot.new>>
    /\ Goto("probe")
    /\ UNCHANGED <<mode, manifest, registry, users, index, tree, lock, daemon, failure, starts, stops>>

(* The bucket list is read through the old key; opening a missing index
   creates an empty one.  An index that opens only under the new key means the
   walk is done, and no bucket is listed. *)
Probe ==
    /\ rot.pc = "probe"
    /\ IF index = None \/ index.key \in {rot.old, rot.new}
       THEN /\ index' = IF index = None THEN Index(rot.old, {}, {}) ELSE index
            /\ rot' = [rot EXCEPT !.pc = "bucket",
                                  !.todo = IF index'.key = rot.old THEN Listed(index') ELSE {}]
            /\ UNCHANGED <<mode, keystore, tree, lock, daemon, failure, starts, stops>>
       ELSE Fail("index")

(* A bucket whose directory is not under the old name is skipped. *)
NextBucket ==
    /\ rot.pc = "bucket"
    /\ \E b \in rot.todo :
          rot' = IF dir[b] = rot.old
                 THEN [rot EXCEPT !.pc = "object", !.todo = @ \ {b}, !.bucket = b,
                                  !.files = files[b]]
                 ELSE [rot EXCEPT !.todo = @ \ {b}]
    /\ UNCHANGED <<mode, keystore, index, tree, lock, daemon, failure, starts, stops>>

(* migrate_object_file, for the next of the files collected when the bucket
   was opened.  The header is authenticated under the old key before anything
   else is looked at, so a file of the new key is an error. *)
MigrateObject ==
    /\ rot.pc = "object"
    /\ \E f \in rot.files :
          LET b == rot.bucket
              new == <<f[1], rot.new>>
          IN  \/ /\ f[2] # rot.old
                 /\ Fail("header")
              \/ /\ f[2] = rot.old
                 /\ new \in files[b]
                 /\ files' = [files EXCEPT ![b] = @ \ {f}]
                 /\ rot' = [rot EXCEPT !.files = @ \ {f}]
                 /\ UNCHANGED <<mode, keystore, index, dir, config, lock, daemon, failure, starts, stops>>
              \/ /\ f[2] = rot.old
                 /\ new \notin files[b]
                 /\ files' = [files EXCEPT ![b] = @ \cup {new}]
                 /\ rot' = [rot EXCEPT !.pc = "remove", !.files = @ \ {f}]
                 /\ UNCHANGED <<mode, keystore, index, dir, config, lock, daemon, failure, starts, stops>>

(* Mutant: the path removed is the new one. *)
RemoveNew ==
    /\ rot.pc = "remove"
    /\ \E f \in files[rot.bucket] \ rot.files :
          /\ f[2] = rot.old
          /\ files' = [files EXCEPT ![rot.bucket] = @ \ {<<f[1], rot.new>>}]
    /\ Goto("object")
    /\ UNCHANGED <<mode, keystore, index, dir, config, lock, daemon, failure, starts, stops>>

(* The old file goes once the new one is in place. *)
RemoveOld ==
    /\ rot.pc = "remove"
    /\ \E f \in files[rot.bucket] \ rot.files :
          /\ f[2] = rot.old
          /\ files' = [files EXCEPT ![rot.bucket] = @ \ {f}]
    /\ Goto("object")
    /\ UNCHANGED <<mode, keystore, index, dir, config, lock, daemon, failure, starts, stops>>

MigrateConfig ==
    /\ rot.pc = "object" /\ rot.files = {}
    /\ IF config[rot.bucket] \in {None, rot.old, rot.new}
       THEN /\ config' = [config EXCEPT ![rot.bucket] = IF @ = None THEN None ELSE rot.new]
            /\ Goto("rename")
            /\ UNCHANGED <<mode, keystore, index, dir, files, lock, daemon, failure, starts, stops>>
       ELSE Fail("config")

RenameDir ==
    /\ rot.pc = "rename"
    /\ dir' = [dir EXCEPT ![rot.bucket] = rot.new]
    /\ rot' = [rot EXCEPT !.pc = "bucket", !.bucket = None]
    /\ UNCHANGED <<mode, keystore, index, config, files, lock, daemon, failure, starts, stops>>

(* Mutant: the index is deleted before the walk is over. *)

(* The index is deleted, created under the new key and rebuilt from the object
   files that open under it. *)
DropIndex ==
    /\ rot.pc = "bucket" /\ rot.todo = {}
    /\ index' = None
    /\ Goto("open")
    /\ UNCHANGED <<mode, keystore, tree, lock, daemon, failure, starts, stops>>

OpenIndex ==
    /\ rot.pc = "open"
    /\ index' = Index(rot.new, {}, {})
    /\ Goto("rebuild")
    /\ UNCHANGED <<mode, keystore, tree, lock, daemon, failure, starts, stops>>

Readable(k) == {b \in Buckets : \E o \in Objects : <<o, k>> \in files[b]}

RebuildRow(k) ==
    \E b \in Readable(k) \ index.rows : index' = [index EXCEPT !.rows = @ \cup {b}]

RotateRebuildRow ==
    /\ rot.pc = "rebuild"
    /\ RebuildRow(rot.new)
    /\ UNCHANGED <<mode, keystore, tree, lock, rot, daemon, failure, starts, stops>>

RotateRebuilt ==
    /\ rot.pc = "rebuild"
    /\ Readable(rot.new) \subseteq index.rows
    /\ index' = [index EXCEPT !.rows = Readable(rot.new)]
    /\ Goto("users")
    /\ UNCHANGED <<mode, keystore, tree, lock, daemon, failure, starts, stops>>

(* Mutant: the user store stays under the old key. *)

(* Mutant: a store that is under the new key already is an error. *)
RekeyUsersOnce ==
    /\ rot.pc = "users"
    /\ IF users = rot.old
       THEN /\ users' = rot.new
            /\ Goto(IF mode = "device" THEN "registry" ELSE "verifier")
            /\ UNCHANGED <<mode, journal, manifest, registry, index, tree, lock, daemon, failure, starts, stops>>
       ELSE Fail("users")

(* users.redb is copied to a new file and renamed; done already if it opens
   under the new key only. *)
RekeyUsers ==
    /\ rot.pc = "users"
    /\ IF users \in {rot.old, rot.new}
       THEN /\ users' = rot.new
            /\ Goto(IF mode = "device" THEN "registry" ELSE "verifier")
            /\ UNCHANGED <<mode, journal, manifest, registry, index, tree, lock, daemon, failure, starts, stops>>
       ELSE Fail("users")

RewriteRegistry ==
    /\ rot.pc = "registry"
    /\ registry' = rot.new
    /\ Goto("verifier")
    /\ UNCHANGED <<mode, journal, manifest, users, index, tree, lock, daemon, failure, starts, stops>>

RewriteVerifier ==
    /\ rot.pc = "verifier"
    /\ manifest' = rot.new
    /\ Goto("delete")
    /\ UNCHANGED <<mode, journal, registry, users, index, tree, lock, daemon, failure, starts, stops>>

(* The last step; the process exits and the flock goes with it. *)
DeleteJournal ==
    /\ rot.pc = "delete"
    /\ journal' = None
    /\ rot' = NoRotation
    /\ lock' = None
    /\ UNCHANGED <<mode, manifest, registry, users, index, tree, daemon, failure, starts, stops>>

(* A kill, or an I/O error at the step that was about to run. *)
RotateStop ==
    /\ rot.pc # "idle"
    /\ stops < MaxStops
    /\ stops' = stops + 1
    /\ rot' = NoRotation
    /\ lock' = None
    /\ failure' = "stopped"
    /\ UNCHANGED <<mode, keystore, index, tree, daemon, starts>>

-----------------------------------------------------------------------------
(* Mutant: the daemon starts beside a journal. *)
BootCheckBlind ==
    /\ daemon.pc = "down"
    /\ daemon' = [NoDaemon EXCEPT !.pc = "booting"]
    /\ UNCHANGED <<mode, keystore, index, tree, lock, rot, failure, starts, stops>>

(* The journal is looked for before the flock is taken. *)
BootCheck ==
    /\ daemon.pc = "down"
    /\ journal = None
    /\ daemon' = [NoDaemon EXCEPT !.pc = "booting"]
    /\ UNCHANGED <<mode, keystore, index, tree, lock, rot, failure, starts, stops>>

BootRefused ==
    /\ daemon.pc = "booting"
    /\ daemon' = NoDaemon
    /\ UNCHANGED <<mode, keystore, index, tree, lock, rot, failure, starts, stops>>

(* The key must match the verifier and open users.redb; an index under another
   key stays locked and the daemon runs on. *)
BootLoad(k) ==
    /\ daemon.pc = "booting"
    /\ lock = None
    /\ mode = "device" => k = registry
    /\ manifest = k /\ users = k
    /\ lock' = "daemon"
    /\ index' = IF index = None THEN Index(k, {}, {}) ELSE index
    /\ daemon' = [pc |-> IF index'.key = k THEN "rebuilding" ELSE "serving", key |-> k]
    /\ UNCHANGED <<mode, keystore, tree, rot, failure, starts, stops>>

(* The rebuild that every start spawns. *)
DaemonRebuildRow ==
    /\ daemon.pc = "rebuilding"
    /\ RebuildRow(daemon.key)
    /\ UNCHANGED <<mode, keystore, tree, lock, rot, daemon, failure, starts, stops>>

DaemonRebuilt ==
    /\ daemon.pc = "rebuilding"
    /\ Readable(daemon.key) \subseteq index.rows
    /\ index' = [index EXCEPT !.rows = Readable(daemon.key)]
    /\ daemon' = [daemon EXCEPT !.pc = "serving"]
    /\ UNCHANGED <<mode, keystore, tree, lock, rot, failure, starts, stops>>

DaemonStop ==
    /\ daemon.pc \in {"rebuilding", "serving"}
    /\ daemon' = NoDaemon
    /\ lock' = None
    /\ UNCHANGED <<mode, keystore, index, tree, rot, failure, starts, stops>>

(* The operator restores a backup without the index, or deletes the file. *)
LoseIndex ==
    /\ lock = None
    /\ index # None
    /\ index' = None
    /\ UNCHANGED <<mode, keystore, tree, lock, rot, daemon, failure, starts, stops>>

-----------------------------------------------------------------------------
RotationStep ==
    \/ JournalCreate \/ JournalWrite \/ Probe \/ NextBucket \/ MigrateObject \/ RemoveOld
    \/ MigrateConfig \/ RenameDir \/ DropIndex \/ OpenIndex \/ RotateRebuildRow
    \/ RotateRebuilt \/ RekeyUsers \/ RewriteRegistry \/ RewriteVerifier \/ DeleteJournal

DaemonStep ==
    \/ BootCheck \/ BootRefused \/ DaemonRebuildRow \/ DaemonRebuilt \/ DaemonStop
    \/ \E k \in NodeKeys : BootLoad(k)

Next ==
    \/ \E old, new \in NodeKeys : RotateStart(old, new)
    \/ RotationStep \/ RotateStop \/ DaemonStep \/ LoseIndex

Spec == Init /\ [][Next]_vars

(* The steps of an operator with care: a daemon is not started while a rotation
   is (its journal check would come before the journal and its flock after the
   rotation's end), a rotation begins with an index that lists every bucket that
   holds an object, and the index is left alone until a rotation is finished. *)
IndexComplete == index # None /\ index.key = manifest /\ Held \subseteq Listed(index)

CarefulNext ==
    /\ \/ /\ journal = None => IndexComplete
          /\ \E old, new \in NodeKeys : RotateStart(old, new)
       \/ journal = None /\ LoseIndex
       \/ RotationStep \/ RotateStop \/ DaemonStep
    /\ daemon'.pc = "booting" => rot'.pc = "idle"

CarefulSpec == Init /\ [][CarefulNext]_vars

-----------------------------------------------------------------------------
(* Everything on disk that the daemon needs is under key k. *)
TreeUnder(k) ==
    \A b \in Held : /\ dir[b] = k
                    /\ files[b] = Holds[b] \X {k}
                    /\ b \in Claimed => config[b] = k

Under(k) == TreeUnder(k) /\ users = k /\ (mode = "device" => registry = k)

(* Without a journal the whole deployment is under the key that keystore.json
   verifies: a rotation is never half done and unrecorded. *)
JournalCovers == journal = None => Under(manifest)

(* While a journal exists, every object still has a file under the old or the
   new key, in a directory named under one of them. *)
CopyKept ==
    \A pair \in Pairs : journal = pair =>
        \A b \in Held : /\ dir[b] \in {pair[1], pair[2]}
                        /\ \A o \in Holds[b] : \E k \in {pair[1], pair[2]} : <<o, k>> \in files[b]
                        /\ dir[b] = pair[2] => files[b] = Holds[b] \X {pair[2]}

(* An index that no longer opens under the old key proves the walk complete,
   which is what lets a resumed rotation skip it. *)
IndexProvesWalk ==
    \A pair \in Pairs :
        (journal = pair /\ (index = None \/ index.key = pair[2])) => TreeUnder(pair[2])

(* The verifier flips to the new key only after everything else is under it,
   and the registry only after the tree and the user store are. *)
FlipsLast ==
    \A pair \in Pairs : journal = pair =>
        /\ manifest = pair[2] => Under(pair[2])
        /\ registry = pair[2] => TreeUnder(pair[2]) /\ users = pair[2]

(* A daemon that is up finds every object, sidecar and user under its key, and
   an index it can open; when its rebuild is over the index lists them all. *)
ServesWhole ==
    /\ daemon.pc \in {"rebuilding", "serving"} => Under(daemon.key) /\ index.key = daemon.key
    /\ daemon.pc = "serving" => Held \subseteq index.rows

(* docs/operations.md says that a re-run skips what is already migrated: a
   rotation never fails on a file that an earlier run moved. *)
MigratedSkipped == failure # "header"
=============================================================================
