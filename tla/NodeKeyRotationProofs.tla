----------------------- MODULE NodeKeyRotationProofs -----------------------
(***************************************************************************)
(* A rotation of the node key is never half done and unrecorded, for any   *)
(* keys, buckets and objects, any number of rotations and any stops, when  *)
(* the operator takes the care CarefulSpec describes.                      *)
(***************************************************************************)
EXTENDS NodeKeyRotation, TLAPS

WalkPhases == {"object", "remove", "rename"}
DonePhases == {"open", "rebuild", "users", "registry", "verifier", "delete"}

(* Who holds the flock, and that a daemon is never up beside a journal. *)
LockInv ==
    /\ lock = "rotation" <=> rot.pc # "idle"
    /\ lock = "daemon" <=> daemon.pc \in {"rebuilding", "serving"}
    /\ daemon.pc = "booting" => rot.pc = "idle"
    /\ daemon.pc # "down" => journal = None
    /\ daemon.pc \in {"rebuilding", "serving"} => index # None /\ daemon.key = manifest
    /\ daemon.pc = "serving" => Held \subseteq index.rows
    /\ mode = "operator" => registry = None

(* Without a complete journal everything is under the verified key. *)
RestInv ==
    journal \in {None, Partial} =>
        /\ Under(manifest)
        /\ index # None => index.key = manifest
        /\ rot.pc \in {"idle", "create", "write"}
        /\ rot.pc = "create" => journal = None
        /\ rot.pc = "write" => journal = Partial
        /\ rot.pc # "idle" => /\ rot.old = manifest /\ rot.old # rot.new
                              /\ rot.old \in NodeKeys /\ rot.new \in NodeKeys
                              /\ IndexComplete

(* A bucket between the old key o and the new key n. *)
BucketInv(b, o, n) ==
    /\ dir[b] \in {o, n}
    /\ files[b] \subseteq Holds[b] \X {o, n}
    /\ \A x \in Holds[b] : <<x, o>> \in files[b] \/ <<x, n>> \in files[b]
    /\ b \in Claimed => config[b] \in {o, n}
    /\ dir[b] = n => files[b] = Holds[b] \X {n} /\ (b \in Claimed => config[b] = n)

TreeInv(o, n) == \A b \in Held : BucketInv(b, o, n)

(* Which files prove which earlier steps done. *)
OrderInv(o, n) ==
    /\ index = None \/ index.key = n => TreeUnder(n)
    /\ index # None => index.key \in {o, n}
    /\ index # None /\ index.key = o => \A b \in Held : dir[b] = o => b \in Listed(index)
    /\ users \in {o, n}
    /\ users = n => TreeUnder(n)
    /\ mode = "device" => registry \in {o, n}
    /\ registry = n => users = n /\ index # None /\ index.key = n
    /\ manifest \in {o, n}
    /\ manifest = n => Under(n) /\ index # None /\ index.key = n

(* What the running process has done so far. *)
PhaseInv(o, n) ==
    /\ rot.pc \notin {"create", "write"}
    /\ rot.pc # "idle" => rot.new = n
    /\ rot.pc \notin {"idle", "verifier", "delete"} =>
          rot.old = o /\ manifest = o /\ registry # n
    /\ rot.pc = "bucket" => \A b \in Held : dir[b] = o => b \in rot.todo
    /\ rot.pc \in DonePhases => TreeUnder(n)
    /\ rot.pc \in {"rebuild", "users", "registry", "verifier", "delete"} =>
          index # None /\ index.key = n
    /\ rot.pc \in {"registry", "verifier", "delete"} => users = n
    /\ rot.pc = "registry" => mode = "device"
    /\ rot.pc \in {"verifier", "delete"} /\ mode = "device" => registry = n
    /\ rot.pc = "delete" => manifest = n

(* The bucket it is moving. *)
MoveInv(o, n) ==
    /\ rot.pc \in WalkPhases =>
          /\ rot.bucket \in Buckets
          /\ dir[rot.bucket] = o
          /\ \A b \in Held \ {rot.bucket} : dir[b] = o => b \in rot.todo
          /\ rot.files \subseteq files[rot.bucket]
    /\ rot.pc = "object" => \A f \in files[rot.bucket] \ rot.files : f[2] = n
    /\ rot.pc = "remove" =>
          \E x \in Objects : /\ <<x, n>> \in files[rot.bucket]
                             /\ \A f \in files[rot.bucket] \ rot.files : f[2] = n \/ f = <<x, o>>
    /\ rot.pc = "rename" /\ rot.bucket \in Held =>
          /\ files[rot.bucket] = Holds[rot.bucket] \X {n}
          /\ rot.bucket \in Claimed => config[rot.bucket] = n

PairInv(o, n) == o # n /\ TreeInv(o, n) /\ OrderInv(o, n) /\ PhaseInv(o, n) /\ MoveInv(o, n)

JournalInv == \A o, n \in NodeKeys : journal = <<o, n>> => PairInv(o, n)

IInv == TypeOK /\ LockInv /\ RestInv /\ JournalInv

-----------------------------------------------------------------------------
(* Facts about the records and the files the steps build. *)
LEMMA GotoType == ASSUME TypeOK, NEW pc \in Phases, Goto(pc) 
                  PROVE rot' \in RotStates /\ rot'.pc = pc /\ rot'.old = rot.old
                        /\ rot'.new = rot.new /\ rot'.todo = rot.todo
                        /\ rot'.bucket = rot.bucket /\ rot'.files = rot.files
  BY DEF TypeOK, Goto, RotStates

LEMMA NoProcess == /\ NoRotation \in RotStates /\ NoRotation.pc = "idle"
                   /\ NoDaemon \in DaemonStates /\ NoDaemon.pc = "down"
  BY DEF NoRotation, RotStates, NoDaemon, DaemonStates, Phases, FileSets

LEMMA FreshIndex == ASSUME NEW k \in NodeKeys
                    PROVE /\ Index(k, {}, {}) \in IndexStates
                          /\ Index(k, {}, {}) # None
                          /\ Index(k, {}, {}).key = k
                          /\ Listed(Index(k, {}, {})) = {}
  BY NoneIsNothing DEF Index, IndexStates, IndexFiles, Listed

(* Nothing that a rotation at a step past the journal can be in but a pair. *)
LEMMA Active ==
    ASSUME IInv, rot.pc \notin {"idle", "create", "write"}
    PROVE \E o, n \in NodeKeys : journal = <<o, n>> /\ PairInv(o, n) /\ rot.new = n
<1>1. journal \in Pairs
  BY DEF IInv, TypeOK, JournalStates, RestInv
<1>2. PICK o \in NodeKeys, n \in NodeKeys : journal = <<o, n>>
  BY <1>1 DEF Pairs
<1>3. PairInv(o, n)
  BY <1>2 DEF IInv, JournalInv
<1> QED
  BY <1>2, <1>3 DEF PairInv, PhaseInv

(* A step of a running rotation that keeps the journal keeps the rest of the
   invariant once it keeps the pair's. *)
LEMMA Close ==
    ASSUME IInv, TypeOK', rot.pc # "idle", rot'.pc # "idle", UNCHANGED <<lock, daemon>>,
           mode' = "operator" => registry' = None,
           NEW o \in NodeKeys, NEW n \in NodeKeys, journal' = <<o, n>>, PairInv(o, n)'
    PROVE IInv'
<1>1. journal' # None /\ journal' # Partial
  BY NoneIsNothing
<1>2. daemon.pc = "down"
  BY DEF IInv, TypeOK, LockInv, DaemonStates
<1>3. LockInv'
  BY <1>2 DEF IInv, LockInv
<1>4. RestInv'
  BY <1>1 DEF RestInv
<1>5. JournalInv'
  BY DEF JournalInv
<1> QED
  BY <1>3, <1>4, <1>5 DEF IInv

(* A rotation that ends where it is leaves the disk as it was. *)
LEMMA Ends ==
    ASSUME IInv, rot.pc # "idle", rot' = NoRotation, lock' = None,
           UNCHANGED <<mode, keystore, index, tree, daemon>>,
           failure' \in Failures, starts' \in 0 .. MaxStarts, stops' \in 0 .. MaxStops
    PROVE IInv'
<1> USE NoProcess, NoneIsNothing
<1>0. UNCHANGED <<mode, journal, manifest, registry, users, index, dir, config, files, daemon>>
  BY DEF keystore, tree
<1>1. TypeOK'
  BY <1>0 DEF IInv, TypeOK
<1>2. LockInv'
  BY <1>0 DEF IInv, LockInv, TypeOK, DaemonStates, Held
<1>3. RestInv'
  BY <1>0 DEF IInv, RestInv, Under, TreeUnder, Held
<1>4. ASSUME NEW o \in NodeKeys, NEW n \in NodeKeys, journal' = <<o, n>> PROVE PairInv(o, n)'
  <2>1. PairInv(o, n)
    BY <1>0, <1>4 DEF IInv, JournalInv
  <2>2. TreeInv(o, n)'
    BY <1>0, <2>1 DEF PairInv, TreeInv, BucketInv, Held
  <2>3. OrderInv(o, n)'
    BY <1>0, <2>1 DEF PairInv, OrderInv, Under, TreeUnder, Held, Listed
  <2>4. PhaseInv(o, n)' /\ MoveInv(o, n)'
    BY DEF PhaseInv, MoveInv, WalkPhases, DonePhases
  <2> QED
    BY <2>1, <2>2, <2>3, <2>4 DEF PairInv
<1> QED
  BY <1>1, <1>2, <1>3, <1>4 DEF IInv, JournalInv

LEMMA InitInv == Init => IInv
<1> SUFFICES ASSUME Init PROVE IInv
  OBVIOUS
<1>1. TypeOK
  <2>1. journal \in JournalStates /\ failure \in Failures
    BY DEF Init, JournalStates, Failures
  <2>2. index \in IndexStates
    BY DEF Init, Index, IndexStates, IndexFiles, Held
  <2>3. files \in [Buckets -> FileSets]
    BY HoldsType DEF Init, FileSets
  <2> QED
    BY <2>1, <2>2, <2>3, NoProcess, BoundsType DEF Init, TypeOK
<1>2. LockInv
  BY NoProcess, NoneIsNothing DEF Init, LockInv
<1>3. RestInv
  BY NoProcess DEF Init, RestInv, Under, TreeUnder, Index, Held
<1>4. JournalInv
  BY NoneIsNothing DEF Init, JournalInv
<1> QED
  BY <1>1, <1>2, <1>3, <1>4 DEF IInv

-----------------------------------------------------------------------------
(* The start of a rotation and its journal. *)
LEMMA StartInv ==
    ASSUME IInv, NEW old \in NodeKeys, NEW new \in NodeKeys, RotateStart(old, new),
           journal = None => IndexComplete, daemon'.pc = "booting" => rot'.pc = "idle"
    PROVE IInv'
<1> USE NoneIsNothing
<1>0. UNCHANGED <<mode, journal, manifest, registry, users, index, dir, config, files, daemon>>
  BY DEF RotateStart, keystore, tree
<1>1. /\ rot' \in RotStates /\ rot'.pc = StartPhase(old, new) /\ rot'.old = old /\ rot'.new = new
      /\ rot'.pc \in {"create", "probe", "verifier"}
  BY ZenonT(30) DEF RotateStart, StartPhase, NoRotation, Phases, RotStates, FileSets
<1>2. TypeOK'
  <2>1. starts' \in 0 .. MaxStarts
    BY BoundsType DEF IInv, TypeOK, RotateStart
  <2> QED
    BY <1>0, <1>1, <2>1 DEF IInv, TypeOK, RotateStart, Failures
<1>3. LockInv'
  BY <1>0, <1>1 DEF IInv, LockInv, RotateStart, TypeOK, DaemonStates
<1>4. RestInv'
  <2>1. TreeUnder(manifest)' <=> TreeUnder(manifest)
    BY <1>0 DEF TreeUnder, Held
  <2>2. journal \in {None, Partial} => journal = None /\ old # new /\ manifest = old
    BY DEF RotateStart, Accepts
  <2> QED
    BY <1>0, <1>1, <2>1, <2>2 DEF IInv, RestInv, Under, StartPhase, IndexComplete, Held, Listed
<1>5. ASSUME NEW o \in NodeKeys, NEW n \in NodeKeys, journal' = <<o, n>> PROVE PairInv(o, n)'
  <2>1. PairInv(o, n)
    BY <1>0, <1>5 DEF IInv, JournalInv
  <2>2. TreeInv(o, n)'
    BY <1>0, <2>1 DEF PairInv, TreeInv, BucketInv, Held
  <2>3. OrderInv(o, n)'
    BY <1>0, <2>1 DEF PairInv, OrderInv, Under, TreeUnder, Held, Listed
  <2>0. mode = "device" \/ registry = None
    BY ModesType DEF IInv, TypeOK, LockInv
  <2>4. \/ rot'.pc = "probe" /\ old = o /\ new = n /\ manifest = o /\ registry # n
        \/ rot'.pc = "verifier" /\ mode = "device" /\ registry = n /\ new = n
    BY <1>0, <1>1, <1>5, <2>0, <2>1 DEF RotateStart, Accepts, StartPhase, PairInv
  <2>5. PhaseInv(o, n)'
    <3>1. CASE rot'.pc = "probe"
      BY <1>0, <1>1, <2>4, <3>1 DEF PhaseInv, DonePhases
    <3>2. CASE rot'.pc = "verifier"
      <4>1. users = n /\ index # None /\ index.key = n /\ TreeUnder(n)'
        BY <2>1, <2>3, <2>4, <3>2, <1>0 DEF PairInv, OrderInv
      <4> QED
        BY <1>0, <1>1, <2>4, <3>2, <4>1 DEF PhaseInv, DonePhases
    <3> QED
      BY <2>4, <3>1, <3>2
  <2>6. MoveInv(o, n)'
    BY <2>4 DEF MoveInv, WalkPhases
  <2> QED
    BY <2>1, <2>2, <2>3, <2>5, <2>6 DEF PairInv
<1> QED
  BY <1>2, <1>3, <1>4, <1>5 DEF IInv, JournalInv

LEMMA JournalCreateInv == ASSUME IInv, JournalCreate PROVE IInv'
<1> USE NoneIsNothing
<1>0. UNCHANGED <<mode, manifest, registry, users, index, dir, config, files, lock, daemon>>
  BY DEF JournalCreate, tree
<1>1. rot' \in RotStates /\ rot'.pc = "write" /\ rot'.old = rot.old /\ rot'.new = rot.new
  BY GotoType DEF JournalCreate, IInv, Phases
<1>2. TypeOK'
  BY <1>0, <1>1 DEF IInv, TypeOK, JournalCreate, JournalStates
<1>3. journal = None
  <2>1. journal \notin Pairs
    BY DEF IInv, JournalInv, PairInv, PhaseInv, JournalCreate, Pairs
  <2> QED
    BY <2>1 DEF IInv, TypeOK, JournalStates, JournalCreate, RestInv
<1>4. LockInv'
  BY <1>0, <1>1, <1>3 DEF IInv, LockInv, JournalCreate, TypeOK, DaemonStates
<1>5. RestInv'
  <2>1. TreeUnder(manifest)' <=> TreeUnder(manifest)
    BY <1>0 DEF TreeUnder, Held
  <2> QED
    BY <1>0, <1>1, <1>3, <2>1 DEF IInv, RestInv, Under, IndexComplete, Held, Listed, JournalCreate
<1>6. JournalInv'
  BY DEF JournalInv, JournalCreate
<1> QED
  BY <1>2, <1>4, <1>5, <1>6 DEF IInv

LEMMA JournalWriteInv == ASSUME IInv, JournalWrite PROVE IInv'
<1> USE NoneIsNothing
<1>0. UNCHANGED <<mode, manifest, registry, users, index, dir, config, files, lock, daemon>>
  BY DEF JournalWrite, tree
<1>1. rot' \in RotStates /\ rot'.pc = "probe" /\ rot'.old = rot.old /\ rot'.new = rot.new
  BY GotoType DEF JournalWrite, IInv, Phases
<1>2. journal = Partial
  <2>1. journal \notin Pairs
    BY DEF IInv, JournalInv, PairInv, PhaseInv, JournalWrite, Pairs
  <2> QED
    BY <2>1 DEF IInv, TypeOK, JournalStates, JournalWrite, RestInv
<1>3. PICK o \in NodeKeys, n \in NodeKeys :
         /\ o = rot.old /\ n = rot.new /\ o # n /\ manifest = o
         /\ Under(o) /\ IndexComplete
  BY <1>2 DEF IInv, RestInv, JournalWrite
<1>4. journal' = <<o, n>>
  BY <1>3 DEF JournalWrite
<1>5. TypeOK'
  BY <1>0, <1>1, <1>3, <1>4 DEF IInv, TypeOK, JournalStates, Pairs, JournalWrite
<1>6. TreeInv(o, n)'
  <2> SUFFICES ASSUME NEW b \in Held PROVE BucketInv(b, o, n)'
    BY DEF TreeInv, Held
  <2>1. dir[b] = o /\ files[b] = Holds[b] \X {o} /\ (b \in Claimed => config[b] = o)
    <3>1. TreeUnder(o)
      BY <1>3 DEF Under
    <3> QED
      BY <3>1, Zenon DEF TreeUnder
  <2>2. files[b] \subseteq Holds[b] \X {o, n}
    BY <2>1
  <2>3. \A x \in Holds[b] : <<x, o>> \in files[b]
    BY <2>1
  <2> QED
    BY <1>0, <1>3, <2>1, <2>2, <2>3 DEF BucketInv
<1>r. registry # n
  BY <1>3, ModesType DEF IInv, TypeOK, LockInv, Under
<1>7. OrderInv(o, n)'
  BY <1>0, <1>3, <1>r DEF Under, OrderInv, IndexComplete, Held, Listed, TreeUnder
<1>8. PhaseInv(o, n)' /\ MoveInv(o, n)'
  BY <1>0, <1>1, <1>3, <1>r DEF PhaseInv, MoveInv, DonePhases, WalkPhases
<1>9. PairInv(o, n)'
  BY <1>3, <1>6, <1>7, <1>8 DEF PairInv
<1> QED
  BY <1>0, <1>1, <1>3, <1>4, <1>5, <1>9, Close DEF JournalWrite, IInv, LockInv

-----------------------------------------------------------------------------
(* The steps that leave the tree alone. *)
LEMMA TreeFrame ==
    ASSUME UNCHANGED <<dir, config, files>>, NEW o \in NodeKeys, NEW n \in NodeKeys
    PROVE (TreeUnder(n)' <=> TreeUnder(n)) /\ (TreeInv(o, n)' <=> TreeInv(o, n))
  BY DEF TreeUnder, TreeInv, BucketInv, Held

LEMMA FailInv == ASSUME IInv, rot.pc # "idle", NEW why \in Failures, Fail(why) PROVE IInv'
  BY Ends DEF Fail, IInv, TypeOK

LEMMA ProbeInv == ASSUME IInv, Probe PROVE IInv'
<1> USE NoneIsNothing
<1>a. PICK o \in NodeKeys, n \in NodeKeys : journal = <<o, n>> /\ PairInv(o, n) /\ rot.new = n
  BY Active DEF Probe
<1>b. rot.old = o /\ manifest = o /\ rot.pc = "probe"
  BY <1>a DEF PairInv, PhaseInv, Probe
<1>1. CASE Fail("index")
  BY <1>1, <1>b, FailInv DEF Failures
<1>2. CASE /\ index' = IF index = None THEN Index(rot.old, {}, {}) ELSE index
           /\ rot' = [rot EXCEPT !.pc = "bucket",
                                 !.todo = IF index'.key = rot.old THEN Listed(index') ELSE {}]
           /\ UNCHANGED <<mode, keystore, tree, lock, daemon, failure, starts, stops>>
  <2>0. UNCHANGED <<mode, journal, manifest, registry, users, dir, config, files, lock, daemon, failure, starts, stops>>
    BY <1>2 DEF keystore, tree
  <2>1. /\ index' \in IndexStates /\ index' # None
        /\ index = None => index'.key = o /\ Listed(index') = {}
        /\ index # None => index' = index
    BY <1>2, <1>b, FreshIndex DEF IInv, TypeOK
  <2>2. Listed(index') \subseteq Buckets
    BY <2>1 DEF IndexStates, IndexFiles, Listed
  <2>3. /\ rot' \in RotStates /\ rot'.pc = "bucket" /\ rot'.old = o /\ rot'.new = n
        /\ rot'.todo = IF index'.key = o THEN Listed(index') ELSE {}
    BY ZenonT(30), <1>2, <1>a, <1>b, <2>2 DEF IInv, TypeOK, RotStates, Phases
  <2>4. TypeOK'
    BY <2>0, <2>1, <2>3 DEF IInv, TypeOK
  <2>5. TreeInv(o, n)' /\ (TreeUnder(n)' <=> TreeUnder(n))
    BY <1>a, <2>0, TreeFrame DEF PairInv
  <2>6. TreeUnder(n) => \A b \in Held : dir[b] # o
    BY <1>a DEF TreeUnder, PairInv
  <2>7. OrderInv(o, n)'
    <3>1. registry # n
      BY <1>a, <1>b DEF PairInv, OrderInv, PhaseInv
    <3> QED
      BY <1>a, <1>b, <2>0, <2>1, <2>5, <2>6 DEF PairInv, OrderInv, Listed, Held, Under
  <2>8. PhaseInv(o, n)'
    BY <1>a, <1>b, <2>0, <2>1, <2>3, <2>6 DEF PairInv, OrderInv, PhaseInv, DonePhases, Held
  <2>9. PairInv(o, n)'
    BY <1>a, <2>3, <2>5, <2>7, <2>8 DEF PairInv, MoveInv, WalkPhases
  <2> QED
    BY <1>a, <1>b, <2>0, <2>3, <2>4, <2>9, Close DEF IInv, LockInv
<1> QED
  BY <1>1, <1>2 DEF Probe

LEMMA NextBucketInv == ASSUME IInv, NextBucket PROVE IInv'
<1>a. PICK o \in NodeKeys, n \in NodeKeys : journal = <<o, n>> /\ PairInv(o, n) /\ rot.new = n
  BY Active DEF NextBucket
<1>b. rot.old = o /\ manifest = o /\ rot.pc = "bucket"
  BY <1>a DEF PairInv, PhaseInv, NextBucket
<1>0. UNCHANGED <<mode, journal, manifest, registry, users, index, dir, config, files, lock, daemon, failure, starts, stops>>
  BY DEF NextBucket, keystore, tree
<1>c. PICK c \in rot.todo :
         rot' = IF dir[c] = rot.old
                THEN [rot EXCEPT !.pc = "object", !.todo = @ \ {c}, !.bucket = c, !.files = files[c]]
                ELSE [rot EXCEPT !.todo = @ \ {c}]
  BY ZenonT(30) DEF NextBucket
<1>d. c \in Buckets /\ files[c] \in FileSets
  BY DEF IInv, TypeOK, RotStates
<1>1. /\ rot' \in RotStates /\ rot'.pc \in {"bucket", "object"} /\ rot'.old = o /\ rot'.new = n
      /\ rot'.todo = rot.todo \ {c}
      /\ rot'.pc = "object" => dir[c] = o /\ rot'.bucket = c /\ rot'.files = files[c]
      /\ rot'.pc = "bucket" => dir[c] # o
  BY ZenonT(30), <1>a, <1>b, <1>c, <1>d DEF IInv, TypeOK, RotStates, Phases
<1>2. TypeOK'
  BY <1>0, <1>1 DEF IInv, TypeOK
<1>3. TreeInv(o, n)' /\ (TreeUnder(n)' <=> TreeUnder(n))
  BY <1>a, <1>0, TreeFrame DEF PairInv
<1>4. OrderInv(o, n)'
  BY <1>a, <1>0, <1>3 DEF PairInv, OrderInv, Under, Listed, Held
<1>5. PhaseInv(o, n)'
  BY <1>a, <1>b, <1>0, <1>1 DEF PairInv, PhaseInv, DonePhases, Held
<1>6. MoveInv(o, n)'
  BY <1>a, <1>b, <1>0, <1>1, <1>d DEF PairInv, PhaseInv, MoveInv, WalkPhases, Held
<1>7. PairInv(o, n)'
  BY <1>a, <1>3, <1>4, <1>5, <1>6 DEF PairInv
<1> QED
  BY <1>a, <1>b, <1>0, <1>1, <1>2, <1>7, Close DEF IInv, LockInv

LEMMA IndexStepInv == ASSUME IInv, DropIndex \/ OpenIndex PROVE IInv'
<1> USE NoneIsNothing
<1>a. PICK o \in NodeKeys, n \in NodeKeys : journal = <<o, n>> /\ PairInv(o, n) /\ rot.new = n
  BY Active DEF DropIndex, OpenIndex
<1>b. rot.old = o /\ manifest = o /\ rot.pc \in {"bucket", "open"}
  BY <1>a DEF PairInv, PhaseInv, DropIndex, OpenIndex
<1>0. UNCHANGED <<mode, journal, manifest, registry, users, dir, config, files, lock, daemon, failure, starts, stops>>
  BY DEF DropIndex, OpenIndex, keystore, tree
<1>1. /\ rot' \in RotStates /\ rot'.old = o /\ rot'.new = n
      /\ \/ rot'.pc = "open" /\ index' = None
         \/ rot'.pc = "rebuild" /\ index' # None /\ index'.key = n
      /\ index' \in IndexStates
  BY <1>a, <1>b, GotoType, FreshIndex DEF IInv, DropIndex, OpenIndex, Phases, IndexStates
<1>2. TypeOK'
  BY <1>0, <1>1 DEF IInv, TypeOK
<1>3. TreeUnder(n)
  <2>1. CASE rot.pc = "open"
    BY <1>a, <2>1 DEF PairInv, PhaseInv, DonePhases
  <2>2. CASE rot.pc = "bucket"
    <3>1. \A b \in Held : dir[b] # o
      BY <1>a, <2>2 DEF PairInv, PhaseInv, DropIndex, OpenIndex
    <3> QED
      BY <1>a, <3>1 DEF PairInv, TreeInv, BucketInv, TreeUnder
  <2> QED
    BY <1>b, <2>1, <2>2
<1>4. TreeInv(o, n)' /\ TreeUnder(n)'
  BY <1>a, <1>3, <1>0, TreeFrame DEF PairInv
<1>5. registry # n
  BY <1>a, <1>b DEF PairInv, PhaseInv
<1>6. OrderInv(o, n)'
  BY <1>a, <1>b, <1>0, <1>1, <1>4, <1>5 DEF PairInv, OrderInv, Under
<1>7. PhaseInv(o, n)' /\ MoveInv(o, n)'
  BY <1>a, <1>b, <1>0, <1>1, <1>4 DEF PairInv, PhaseInv, MoveInv, DonePhases, WalkPhases
<1>8. PairInv(o, n)'
  BY <1>a, <1>4, <1>6, <1>7 DEF PairInv
<1> QED
  BY <1>a, <1>b, <1>0, <1>1, <1>2, <1>8, Close DEF IInv, LockInv

-----------------------------------------------------------------------------
(* The steps that move one bucket b, which is still under its old name. *)
LEMMA WalkFrame ==
    ASSUME NEW o \in NodeKeys, NEW n \in NodeKeys, NEW b \in Buckets, o # n,
           TreeInv(o, n), OrderInv(o, n), dir[b] = o, dir'[b] \in {o, n},
           b \in Held => BucketInv(b, o, n)',
           \A c \in Buckets \ {b} : /\ dir'[c] = dir[c]
                                    /\ files'[c] = files[c]
                                    /\ config'[c] = config[c],
           UNCHANGED <<mode, manifest, registry, users, index>>
    PROVE TreeInv(o, n)' /\ OrderInv(o, n)'
<1>1. TreeInv(o, n)'
  <2> SUFFICES ASSUME NEW c \in Held PROVE BucketInv(c, o, n)'
    BY DEF TreeInv, Held
  <2>1. CASE c = b
    BY <2>1
  <2>2. CASE c # b
    BY <2>2 DEF TreeInv, BucketInv, Held
  <2> QED
    BY <2>1, <2>2
<1>2. TreeUnder(n) => TreeUnder(n)'
  <2> SUFFICES ASSUME TreeUnder(n) PROVE TreeUnder(n)'
    OBVIOUS
  <2>1. b \notin Held
    BY DEF TreeUnder
  <2> QED
    BY <2>1 DEF TreeUnder, Held
<1>3. \A c \in Held : dir'[c] = o => dir[c] = o
  BY DEF Held
<1> QED
  BY <1>1, <1>2, <1>3 DEF OrderInv, Under, Listed, Held

LEMMA MigrateObjectInv == ASSUME IInv, MigrateObject PROVE IInv'
<1>a. PICK o \in NodeKeys, n \in NodeKeys : journal = <<o, n>> /\ PairInv(o, n) /\ rot.new = n
  BY Active DEF MigrateObject
<1>b. /\ rot.old = o /\ manifest = o /\ rot.pc = "object" /\ registry # n /\ o # n
      /\ TreeInv(o, n) /\ OrderInv(o, n) 
  BY <1>a DEF PairInv, PhaseInv, MigrateObject
<1>c. PICK b \in Buckets :
         /\ b = rot.bucket /\ dir[b] = o
         /\ \A c \in Held \ {b} : dir[c] = o => c \in rot.todo
         /\ \A g \in files[b] \ rot.files : g[2] = n
         /\ rot.files \subseteq files[b]
         /\ b \in Held => BucketInv(b, o, n)
  BY <1>a, <1>b DEF PairInv, MoveInv, WalkPhases, TreeInv
<1>d. PICK f \in rot.files :
         \/ Fail("header")
         \/ /\ f[2] = o /\ <<f[1], n>> \in files[b]
            /\ files' = [files EXCEPT ![b] = @ \ {f}]
            /\ rot' = [rot EXCEPT !.files = @ \ {f}]
            /\ UNCHANGED <<mode, keystore, index, dir, config, lock, daemon, failure, starts, stops>>
         \/ /\ f[2] = o /\ <<f[1], n>> \notin files[b]
            /\ files' = [files EXCEPT ![b] = @ \cup {<<f[1], n>>}]
            /\ rot' = [rot EXCEPT !.pc = "remove", !.files = @ \ {f}]
            /\ UNCHANGED <<mode, keystore, index, dir, config, lock, daemon, failure, starts, stops>>
  BY ZenonT(30), <1>a, <1>b, <1>c DEF MigrateObject
<1>e. f \in Objects \X NodeKeys
  BY DEF IInv, TypeOK, RotStates, FileSets
<1>1. CASE Fail("header")
  BY ZenonT(10), SMTT(30), <1>1, <1>b, FailInv DEF Failures
<1>2. CASE /\ f[2] = o /\ <<f[1], n>> \in files[b]
           /\ files' = [files EXCEPT ![b] = @ \ {f}]
           /\ rot' = [rot EXCEPT !.files = @ \ {f}]
           /\ UNCHANGED <<mode, keystore, index, dir, config, lock, daemon, failure, starts, stops>>
  <2>0. UNCHANGED <<mode, journal, manifest, registry, users, index, dir, config, lock, daemon, failure, starts, stops>>
    BY <1>2 DEF keystore
  <2>1. /\ rot' \in RotStates /\ rot'.pc = "object" /\ rot'.old = o /\ rot'.new = n
        /\ rot'.todo = rot.todo /\ rot'.bucket = b /\ rot'.files = rot.files \ {f}
    BY <1>2, <1>a, <1>b, <1>c DEF IInv, TypeOK, RotStates, FileSets
  <2>2. files' \in [Buckets -> FileSets]
    BY <1>2 DEF IInv, TypeOK, FileSets
  <2>3. files'[b] = files[b] \ {f} /\ \A c \in Buckets \ {b} : files'[c] = files[c]
    BY ZenonT(10), SMTT(30), <1>2 DEF IInv, TypeOK
  <2>4. TypeOK'
    BY ZenonT(10), SMTT(30), <2>0, <2>1, <2>2 DEF IInv, TypeOK
  <2>5. ASSUME b \in Held PROVE BucketInv(b, o, n)'
    <3>0. f = <<f[1], o>>
      BY <1>e, <1>2
    <3>1. \A x \in Holds[b] : <<x, o>> \in files'[b] \/ <<x, n>> \in files'[b]
      <4> SUFFICES ASSUME NEW x \in Holds[b], <<x, n>> \notin files'[b] PROVE <<x, o>> \in files'[b]
        OBVIOUS
      <4>1. <<f[1], n>> \in files'[b]
        BY <1>b, <1>2, <2>3, <3>0
      <4>2. x # f[1]
        BY <4>1
      <4>3. <<x, n>> \notin files[b]
        BY SMTT(30), <1>b, <2>3, <3>0
      <4>4. <<x, o>> \in files[b] \/ <<x, n>> \in files[b]
        BY ONLY Zenon, <1>c, <2>5, x \in Holds[b] DEF BucketInv
      <4>5. <<x, o>> \in files[b]
        BY ONLY Zenon, <4>3, <4>4
      <4> QED
        BY <2>3, <3>0, <4>2, <4>5
    <3> QED
      BY <1>b, <1>c, <2>0, <2>3, <2>5, <3>1 DEF BucketInv
  <2>v. dir[b] = o
    BY <1>c
  <2>w. /\ o # n /\ TreeInv(o, n) /\ OrderInv(o, n) /\ dir[b] = o /\ dir'[b] \in {o, n}
        /\ b \in Held => BucketInv(b, o, n)'
        /\ \A c \in Buckets \ {b} : /\ dir'[c] = dir[c]
                                    /\ files'[c] = files[c]
                                    /\ config'[c] = config[c]
        /\ UNCHANGED <<mode, manifest, registry, users, index>>
    BY <1>b, <2>0, <2>3, <2>5, <2>v
  <2>6. TreeInv(o, n)' /\ OrderInv(o, n)'
    BY <1>b, <2>w, WalkFrame
  <2>7. PhaseInv(o, n)'
    BY ZenonT(10), SMTT(30), <1>a, <1>b, <2>0, <2>1 DEF PairInv, PhaseInv, DonePhases
  <2>8. MoveInv(o, n)'
    BY ZenonT(10), SMTT(30), <1>c, <2>0, <2>1, <2>3 DEF MoveInv, WalkPhases, Held
  <2> QED
    BY <1>a, <1>b, <2>0, <2>1, <2>4, <2>6, <2>7, <2>8, Close DEF IInv, LockInv, PairInv
<1>3. CASE /\ f[2] = o /\ <<f[1], n>> \notin files[b]
           /\ files' = [files EXCEPT ![b] = @ \cup {<<f[1], n>>}]
           /\ rot' = [rot EXCEPT !.pc = "remove", !.files = @ \ {f}]
           /\ UNCHANGED <<mode, keystore, index, dir, config, lock, daemon, failure, starts, stops>>
  <2>0. UNCHANGED <<mode, journal, manifest, registry, users, index, dir, config, lock, daemon, failure, starts, stops>>
    BY <1>3 DEF keystore
  <2>1. /\ rot' \in RotStates /\ rot'.pc = "remove" /\ rot'.old = o /\ rot'.new = n
        /\ rot'.todo = rot.todo /\ rot'.bucket = b /\ rot'.files = rot.files \ {f}
    BY ZenonT(30), <1>3, <1>a, <1>b, <1>c DEF IInv, TypeOK, RotStates, FileSets, Phases
  <2>2. files' \in [Buckets -> FileSets]
    BY <1>3, <1>e DEF IInv, TypeOK, FileSets
  <2>3. files'[b] = files[b] \cup {<<f[1], n>>} /\ \A c \in Buckets \ {b} : files'[c] = files[c]
    BY <1>3 DEF IInv, TypeOK
  <2>4. TypeOK'
    BY <2>0, <2>1, <2>2 DEF IInv, TypeOK
  <2>5. ASSUME b \in Held PROVE BucketInv(b, o, n)'
    <3>1. files'[b] \subseteq Holds[b] \X {o, n}
      BY <1>c, <1>e, <2>3, <2>5 DEF BucketInv
    <3> QED
      BY <1>b, <1>c, <2>0, <2>3, <2>5, <3>1 DEF BucketInv
  <2>v. dir[b] = o
    BY <1>c
  <2>w. /\ o # n /\ TreeInv(o, n) /\ OrderInv(o, n) /\ dir[b] = o /\ dir'[b] \in {o, n}
        /\ b \in Held => BucketInv(b, o, n)'
        /\ \A c \in Buckets \ {b} : /\ dir'[c] = dir[c]
                                    /\ files'[c] = files[c]
                                    /\ config'[c] = config[c]
        /\ UNCHANGED <<mode, manifest, registry, users, index>>
    BY <1>b, <2>0, <2>3, <2>5, <2>v
  <2>6. TreeInv(o, n)' /\ OrderInv(o, n)'
    BY <1>b, <2>w, WalkFrame
  <2>7. PhaseInv(o, n)'
    BY <1>a, <1>b, <2>0, <2>1 DEF PairInv, PhaseInv, DonePhases
  <2>8. MoveInv(o, n)'
    <3>1. f = <<f[1], o>> /\ f[1] \in Objects
      BY <1>e, <1>3
    <3>2. \A g \in files'[b] \ rot'.files : g[2] = n \/ g = <<f[1], o>>
      BY <1>c, <2>1, <2>3, <3>1
    <3>3. <<f[1], n>> \in files'[b]
      BY ZenonT(10), SMTT(30), <2>3
    <3> QED
      BY <1>c, <2>0, <2>1, <2>3, <3>1, <3>2, <3>3 DEF MoveInv, WalkPhases, Held
  <2> QED
    BY <1>a, <1>b, <2>0, <2>1, <2>4, <2>6, <2>7, <2>8, Close DEF IInv, LockInv, PairInv
<1> QED
  BY <1>d, <1>1, <1>2, <1>3

LEMMA RemoveOldInv == ASSUME IInv, RemoveOld PROVE IInv'
<1>a. PICK o \in NodeKeys, n \in NodeKeys : journal = <<o, n>> /\ PairInv(o, n) /\ rot.new = n
  BY Active DEF RemoveOld
<1>b. /\ rot.old = o /\ manifest = o /\ rot.pc = "remove" /\ registry # n /\ o # n
      /\ TreeInv(o, n) /\ OrderInv(o, n)
  BY ZenonT(10), SMTT(30), <1>a DEF PairInv, PhaseInv, RemoveOld
<1>c. PICK b \in Buckets :
         /\ b = rot.bucket /\ dir[b] = o
         /\ \A c \in Held \ {b} : dir[c] = o => c \in rot.todo
         /\ \E x \in Objects : /\ <<x, n>> \in files[b]
                               /\ \A g \in files[b] \ rot.files : g[2] = n \/ g = <<x, o>>
         /\ rot.files \subseteq files[b]
         /\ b \in Held => BucketInv(b, o, n)
  BY <1>a, <1>b DEF PairInv, MoveInv, WalkPhases, TreeInv
<1>d. PICK x \in Objects : /\ <<x, n>> \in files[b]
                           /\ \A g \in files[b] \ rot.files : g[2] = n \/ g = <<x, o>>
  BY <1>c
<1>e. PICK f \in files[b] \ rot.files : f[2] = o /\ files' = [files EXCEPT ![b] = @ \ {f}]
  BY ZenonT(30), <1>b, <1>c DEF RemoveOld
<1>f. f = <<x, o>>
  BY <1>b, <1>d, <1>e
<1>0. UNCHANGED <<mode, journal, manifest, registry, users, index, dir, config, lock, daemon, failure, starts, stops>>
  BY DEF RemoveOld, keystore
<1>1. /\ rot' \in RotStates /\ rot'.pc = "object" /\ rot'.old = o /\ rot'.new = n
      /\ rot'.todo = rot.todo /\ rot'.bucket = b /\ rot'.files = rot.files
  BY ZenonT(10), SMTT(30), <1>a, <1>b, <1>c, GotoType DEF IInv, RemoveOld, Phases
<1>2. files' \in [Buckets -> FileSets]
  BY <1>e DEF IInv, TypeOK, FileSets
<1>3. files'[b] = files[b] \ {f} /\ \A c \in Buckets \ {b} : files'[c] = files[c]
  BY <1>e DEF IInv, TypeOK
<1>4. TypeOK'
  BY ZenonT(10), SMTT(30), <1>0, <1>1, <1>2 DEF IInv, TypeOK
<1>5. ASSUME b \in Held PROVE BucketInv(b, o, n)'
  <2>1. \A y \in Holds[b] : <<y, o>> \in files'[b] \/ <<y, n>> \in files'[b]
    BY ZenonT(30), <1>b, <1>c, <1>d, <1>f, <1>3, <1>5 DEF BucketInv
  <2> QED
    BY <1>b, <1>c, <1>0, <1>3, <1>5, <2>1 DEF BucketInv
<1>v. dir[b] = o
  BY <1>c
<1>w. /\ o # n /\ TreeInv(o, n) /\ OrderInv(o, n) /\ dir[b] = o /\ dir'[b] \in {o, n}
      /\ b \in Held => BucketInv(b, o, n)'
      /\ \A c \in Buckets \ {b} : /\ dir'[c] = dir[c]
                                  /\ files'[c] = files[c]
                                  /\ config'[c] = config[c]
      /\ UNCHANGED <<mode, manifest, registry, users, index>>
  BY <1>b, <1>0, <1>3, <1>5, <1>v
<1>6. TreeInv(o, n)' /\ OrderInv(o, n)'
  BY <1>b, <1>w, WalkFrame
<1>7. PhaseInv(o, n)'
  BY <1>a, <1>b, <1>0, <1>1 DEF PairInv, PhaseInv, DonePhases
<1>8. MoveInv(o, n)'
  BY ZenonT(30), <1>c, <1>d, <1>e, <1>f, <1>0, <1>1, <1>3 DEF MoveInv, WalkPhases, Held
<1> QED
  BY <1>a, <1>b, <1>0, <1>1, <1>4, <1>6, <1>7, <1>8, Close DEF IInv, LockInv, PairInv

LEMMA MigrateConfigInv == ASSUME IInv, MigrateConfig PROVE IInv'
<1>a. PICK o \in NodeKeys, n \in NodeKeys : journal = <<o, n>> /\ PairInv(o, n) /\ rot.new = n
  BY Active DEF MigrateConfig
<1>b. /\ rot.old = o /\ manifest = o /\ rot.pc = "object" /\ rot.files = {} /\ registry # n
      /\ o # n /\ TreeInv(o, n) /\ OrderInv(o, n)
  BY ZenonT(10), SMTT(30), <1>a DEF PairInv, PhaseInv, MigrateConfig
<1>c. PICK b \in Buckets :
         /\ b = rot.bucket /\ dir[b] = o
         /\ \A c \in Held \ {b} : dir[c] = o => c \in rot.todo
         /\ \A f \in files[b] : f[2] = n
         /\ b \in Held => BucketInv(b, o, n)
  BY <1>a, <1>b DEF PairInv, MoveInv, WalkPhases, TreeInv
<1>1. CASE Fail("config")
  BY ZenonT(10), SMTT(30), <1>1, <1>b, FailInv DEF Failures
<1>2. CASE /\ config' = [config EXCEPT ![rot.bucket] = IF @ = None THEN None ELSE rot.new]
           /\ Goto("rename")
           /\ UNCHANGED <<mode, keystore, index, dir, files, lock, daemon, failure, starts, stops>>
  <2>0. UNCHANGED <<mode, journal, manifest, registry, users, index, dir, files, lock, daemon, failure, starts, stops>>
    BY ZenonT(10), SMTT(30), <1>2 DEF keystore
  <2>1. /\ rot' \in RotStates /\ rot'.pc = "rename" /\ rot'.old = o /\ rot'.new = n
        /\ rot'.todo = rot.todo /\ rot'.bucket = b /\ rot'.files = {}
    BY <1>2, <1>a, <1>b, <1>c, GotoType DEF IInv, Phases
  <2>2. config' \in [Buckets -> NodeKeys \cup {None}]
    BY ZenonT(30), <1>2, <1>a DEF IInv, TypeOK
  <2>3. /\ config'[b] = IF config[b] = None THEN None ELSE n
        /\ \A c \in Buckets \ {b} : config'[c] = config[c]
    BY ZenonT(10), SMTT(30), <1>2, <1>a, <1>c DEF IInv, TypeOK
  <2>4. TypeOK'
    BY <2>0, <2>1, <2>2 DEF IInv, TypeOK
  <2>5. ASSUME b \in Held, b \in Claimed PROVE config'[b] = n
    BY <1>c, <2>3, <2>5, NoneIsNothing DEF BucketInv
  <2>6. ASSUME b \in Held PROVE BucketInv(b, o, n)'
    BY ZenonT(30), <1>b, <1>c, <2>0, <2>5, <2>6 DEF BucketInv
  <2>v. dir[b] = o
    BY <1>c
  <2>w. /\ o # n /\ TreeInv(o, n) /\ OrderInv(o, n) /\ dir[b] = o /\ dir'[b] \in {o, n}
        /\ b \in Held => BucketInv(b, o, n)'
        /\ \A c \in Buckets \ {b} : /\ dir'[c] = dir[c]
                                    /\ files'[c] = files[c]
                                    /\ config'[c] = config[c]
        /\ UNCHANGED <<mode, manifest, registry, users, index>>
    BY <1>b, <2>0, <2>3, <2>6, <2>v
  <2>7. TreeInv(o, n)' /\ OrderInv(o, n)'
    BY <1>b, <2>w, WalkFrame
  <2>8. PhaseInv(o, n)'
    BY <1>a, <1>b, <2>0, <2>1 DEF PairInv, PhaseInv, DonePhases
  <2>9. ASSUME b \in Held PROVE files[b] = Holds[b] \X {n}
    <3>1. files[b] \subseteq Holds[b] \X {n}
      BY <1>b, <1>c, <2>9 DEF BucketInv
    <3>2. \A x \in Holds[b] : <<x, n>> \in files[b]
      BY ZenonT(30), <1>b, <1>c, <2>9 DEF BucketInv
    <3> QED
      BY SMTT(30), <3>1, <3>2
  <2>10. MoveInv(o, n)'
    BY ZenonT(30), <1>c, <2>0, <2>1, <2>5, <2>9 DEF MoveInv, WalkPhases, Held
  <2> QED
    BY ZenonT(10), SMTT(30), <1>a, <1>b, <2>0, <2>1, <2>4, <2>7, <2>8, <2>10, Close DEF IInv, LockInv, PairInv
<1> QED
  BY <1>1, <1>2 DEF MigrateConfig

LEMMA RenameDirInv == ASSUME IInv, RenameDir PROVE IInv'
<1>a. PICK o \in NodeKeys, n \in NodeKeys : journal = <<o, n>> /\ PairInv(o, n) /\ rot.new = n
  BY Active DEF RenameDir
<1>b. /\ rot.old = o /\ manifest = o /\ rot.pc = "rename" /\ registry # n
      /\ o # n /\ TreeInv(o, n) /\ OrderInv(o, n)
  BY ZenonT(10), SMTT(30), <1>a DEF PairInv, PhaseInv, RenameDir
<1>c. PICK b \in Buckets :
         /\ b = rot.bucket /\ dir[b] = o
         /\ \A c \in Held \ {b} : dir[c] = o => c \in rot.todo
         /\ b \in Held => /\ BucketInv(b, o, n)
                          /\ files[b] = Holds[b] \X {n}
                          /\ b \in Claimed => config[b] = n
  BY <1>a, <1>b DEF PairInv, MoveInv, WalkPhases, TreeInv
<1>0. UNCHANGED <<mode, journal, manifest, registry, users, index, config, files, lock, daemon, failure, starts, stops>>
  BY DEF RenameDir, keystore
<1>1. /\ rot' \in RotStates /\ rot'.pc = "bucket" /\ rot'.old = o /\ rot'.new = n
      /\ rot'.todo = rot.todo
  BY ZenonT(30), <1>a, <1>b DEF IInv, TypeOK, RenameDir, RotStates, Phases
<1>2. dir' \in [Buckets -> NodeKeys] /\ dir'[b] = n /\ \A c \in Buckets \ {b} : dir'[c] = dir[c]
  BY <1>a, <1>c DEF IInv, TypeOK, RenameDir
<1>3. TypeOK'
  BY <1>0, <1>1, <1>2 DEF IInv, TypeOK
<1>4. ASSUME b \in Held PROVE BucketInv(b, o, n)'
  BY ZenonT(10), SMTT(30), <1>c, <1>0, <1>2, <1>4 DEF BucketInv
<1>v. dir[b] = o
  BY <1>c
<1>w. /\ o # n /\ TreeInv(o, n) /\ OrderInv(o, n) /\ dir[b] = o /\ dir'[b] \in {o, n}
      /\ b \in Held => BucketInv(b, o, n)'
      /\ \A c \in Buckets \ {b} : /\ dir'[c] = dir[c]
                                  /\ files'[c] = files[c]
                                  /\ config'[c] = config[c]
      /\ UNCHANGED <<mode, manifest, registry, users, index>>
  BY <1>b, <1>0, <1>2, <1>4, <1>v
<1>5. TreeInv(o, n)' /\ OrderInv(o, n)'
  BY <1>b, <1>w, WalkFrame
<1>6. PhaseInv(o, n)'
  <2>1. \A c \in Held : dir'[c] = o => c \in rot'.todo
    BY <1>b, <1>c, <1>1, <1>2 DEF Held
  <2> QED
    BY ZenonT(10), SMTT(30), <1>b, <1>0, <1>1, <2>1 DEF PhaseInv, DonePhases, Held
<1>7. MoveInv(o, n)'
  BY <1>1 DEF MoveInv, WalkPhases
<1> QED
  BY ZenonT(30), <1>a, <1>b, <1>0, <1>1, <1>3, <1>5, <1>6, <1>7, Close DEF IInv, LockInv, PairInv

-----------------------------------------------------------------------------
(* The rebuild of the index, the user store, the registry and the verifier. *)
LEMMA RebuildInv == ASSUME IInv, RotateRebuildRow \/ RotateRebuilt PROVE IInv'
<1> USE NoneIsNothing
<1>a. PICK o \in NodeKeys, n \in NodeKeys : journal = <<o, n>> /\ PairInv(o, n) /\ rot.new = n
  BY Active DEF RotateRebuildRow, RotateRebuilt
<1>b. /\ rot.old = o /\ manifest = o /\ rot.pc = "rebuild" /\ registry # n /\ o # n
      /\ TreeInv(o, n) /\ OrderInv(o, n) /\ TreeUnder(n) /\ index # None /\ index.key = n
  BY <1>a DEF PairInv, PhaseInv, DonePhases, RotateRebuildRow, RotateRebuilt
<1>0. UNCHANGED <<mode, journal, manifest, registry, users, dir, config, files, lock, daemon, failure, starts, stops>>
  BY DEF RotateRebuildRow, RotateRebuilt, keystore, tree
<1>c. PICK rows \in SUBSET Buckets : index' = [index EXCEPT !.rows = rows]
  <2>1. index.rows \subseteq Buckets
    BY <1>b DEF IInv, TypeOK, IndexStates, IndexFiles
  <2> QED
    BY <2>1 DEF RotateRebuildRow, RotateRebuilt, RebuildRow, Readable
<1>1. index' \in IndexStates /\ index' # None /\ index'.key = n
  BY <1>b, <1>c DEF IInv, TypeOK, IndexStates, IndexFiles
<1>2. /\ rot' \in RotStates /\ rot'.pc \in {"rebuild", "users"} /\ rot'.old = o /\ rot'.new = n
  BY <1>a, <1>b, GotoType DEF IInv, TypeOK, RotateRebuildRow, RotateRebuilt, Phases
<1>3. TypeOK'
  BY <1>0, <1>1, <1>2 DEF IInv, TypeOK
<1>4. TreeInv(o, n)' /\ TreeUnder(n)'
  BY <1>b, <1>0, TreeFrame
<1>5. OrderInv(o, n)'
  BY <1>b, <1>0, <1>1, <1>4 DEF OrderInv, Under
<1>6. PhaseInv(o, n)' /\ MoveInv(o, n)'
  BY <1>b, <1>0, <1>1, <1>2, <1>4 DEF PhaseInv, MoveInv, DonePhases, WalkPhases
<1>7. PairInv(o, n)'
  BY <1>b, <1>4, <1>5, <1>6 DEF PairInv
<1> QED
  BY <1>a, <1>b, <1>0, <1>2, <1>3, <1>7, Close DEF IInv, LockInv

LEMMA RekeyUsersInv == ASSUME IInv, RekeyUsers PROVE IInv'
<1> USE NoneIsNothing
<1>a. PICK o \in NodeKeys, n \in NodeKeys : journal = <<o, n>> /\ PairInv(o, n) /\ rot.new = n
  BY Active DEF RekeyUsers
<1>b. /\ rot.old = o /\ manifest = o /\ rot.pc = "users" /\ registry # n /\ o # n
      /\ TreeInv(o, n) /\ OrderInv(o, n) /\ TreeUnder(n) /\ index # None /\ index.key = n
  BY <1>a DEF PairInv, PhaseInv, DonePhases, RekeyUsers
<1>1. CASE Fail("users")
  BY ZenonT(10), SMTT(30), <1>1, <1>b, FailInv DEF Failures
<1>2. CASE /\ users' = rot.new
           /\ Goto(IF mode = "device" THEN "registry" ELSE "verifier")
           /\ UNCHANGED <<mode, journal, manifest, registry, index, tree, lock, daemon, failure, starts, stops>>
  <2>0. UNCHANGED <<mode, journal, manifest, registry, index, dir, config, files, lock, daemon, failure, starts, stops>>
    BY <1>2 DEF tree
  <2>1. /\ rot' \in RotStates /\ rot'.pc = (IF mode = "device" THEN "registry" ELSE "verifier")
        /\ rot'.old = o /\ rot'.new = n
    BY <1>2, <1>a, <1>b, GotoType DEF IInv, Phases
  <2>2. users' = n
    BY <1>a, <1>2
  <2>3. TypeOK'
    BY <2>0, <2>1, <2>2 DEF IInv, TypeOK
  <2>4. TreeInv(o, n)' /\ TreeUnder(n)'
    BY <1>b, <2>0, TreeFrame
  <2>5. OrderInv(o, n)'
    BY <1>b, <2>0, <2>2, <2>4 DEF OrderInv, Under
  <2>6. PhaseInv(o, n)' /\ MoveInv(o, n)'
    BY <1>b, <2>0, <2>1, <2>2, <2>4 DEF PhaseInv, MoveInv, DonePhases, WalkPhases
  <2>7. PairInv(o, n)'
    BY <1>b, <2>4, <2>5, <2>6 DEF PairInv
  <2> QED
    BY <1>a, <1>b, <2>0, <2>1, <2>3, <2>7, Close DEF IInv, LockInv
<1> QED
  BY <1>1, <1>2 DEF RekeyUsers

LEMMA RewriteRegistryInv == ASSUME IInv, RewriteRegistry PROVE IInv'
<1> USE NoneIsNothing
<1>a. PICK o \in NodeKeys, n \in NodeKeys : journal = <<o, n>> /\ PairInv(o, n) /\ rot.new = n
  BY Active DEF RewriteRegistry
<1>b. /\ rot.old = o /\ manifest = o /\ rot.pc = "registry" /\ mode = "device" /\ o # n /\ users = n
      /\ TreeInv(o, n) /\ OrderInv(o, n) /\ TreeUnder(n) /\ index # None /\ index.key = n
  BY <1>a DEF PairInv, PhaseInv, DonePhases, RewriteRegistry
<1>0. UNCHANGED <<mode, journal, manifest, users, index, dir, config, files, lock, daemon, failure, starts, stops>>
  BY DEF RewriteRegistry, tree
<1>1. /\ rot' \in RotStates /\ rot'.pc = "verifier" /\ rot'.old = o /\ rot'.new = n /\ registry' = n
  BY <1>a, <1>b, GotoType DEF IInv, RewriteRegistry, Phases
<1>2. TypeOK'
  BY <1>0, <1>1 DEF IInv, TypeOK
<1>3. TreeInv(o, n)' /\ TreeUnder(n)'
  BY <1>b, <1>0, TreeFrame
<1>4. OrderInv(o, n)'
  BY <1>b, <1>0, <1>1, <1>3 DEF OrderInv, Under
<1>5. PhaseInv(o, n)' /\ MoveInv(o, n)'
  BY <1>b, <1>0, <1>1, <1>3 DEF PhaseInv, MoveInv, DonePhases, WalkPhases
<1>6. PairInv(o, n)'
  BY <1>b, <1>3, <1>4, <1>5 DEF PairInv
<1> QED
  BY <1>a, <1>b, <1>0, <1>1, <1>2, <1>6, Close

LEMMA RewriteVerifierInv == ASSUME IInv, RewriteVerifier PROVE IInv'
<1> USE NoneIsNothing
<1>a. PICK o \in NodeKeys, n \in NodeKeys : journal = <<o, n>> /\ PairInv(o, n) /\ rot.new = n
  BY Active DEF RewriteVerifier
<1>b. /\ rot.pc = "verifier" /\ o # n /\ users = n /\ (mode = "device" => registry = n)
      /\ TreeInv(o, n) /\ OrderInv(o, n) /\ TreeUnder(n) /\ index # None /\ index.key = n
  BY <1>a DEF PairInv, PhaseInv, DonePhases, RewriteVerifier
<1>0. UNCHANGED <<mode, journal, registry, users, index, dir, config, files, lock, daemon, failure, starts, stops>>
  BY DEF RewriteVerifier, tree
<1>1. /\ rot' \in RotStates /\ rot'.pc = "delete" /\ rot'.new = n /\ manifest' = n
  BY <1>a, <1>b, GotoType DEF IInv, RewriteVerifier, Phases
<1>2. TypeOK'
  BY <1>0, <1>1 DEF IInv, TypeOK
<1>3. TreeInv(o, n)' /\ TreeUnder(n)'
  BY <1>b, <1>0, TreeFrame
<1>4. OrderInv(o, n)'
  BY <1>b, <1>0, <1>1, <1>3 DEF OrderInv, Under
<1>5. PhaseInv(o, n)' /\ MoveInv(o, n)'
  BY <1>b, <1>0, <1>1, <1>3 DEF PhaseInv, MoveInv, DonePhases, WalkPhases
<1>6. PairInv(o, n)'
  BY <1>b, <1>3, <1>4, <1>5 DEF PairInv
<1> QED
  BY <1>a, <1>b, <1>0, <1>1, <1>2, <1>6, Close DEF IInv, LockInv

LEMMA DeleteJournalInv == ASSUME IInv, DeleteJournal PROVE IInv'
<1> USE NoneIsNothing, NoProcess
<1>a. PICK o \in NodeKeys, n \in NodeKeys : journal = <<o, n>> /\ PairInv(o, n) /\ rot.new = n
  BY Active DEF DeleteJournal
<1>b. /\ rot.pc = "delete" /\ manifest = n /\ Under(n) /\ index # None /\ index.key = n
  BY <1>a DEF PairInv, PhaseInv, OrderInv, DeleteJournal
<1>0. UNCHANGED <<mode, manifest, registry, users, index, dir, config, files, daemon, failure, starts, stops>>
  BY DEF DeleteJournal, tree
<1>1. journal' = None /\ rot' = NoRotation /\ lock' = None
  BY DEF DeleteJournal
<1>2. TypeOK'
  BY <1>0, <1>1 DEF IInv, TypeOK, JournalStates
<1>3. LockInv'
  BY <1>b, <1>0, <1>1 DEF IInv, LockInv, TypeOK, DaemonStates, Held
<1>4. RestInv'
  <2>1. TreeUnder(n)'
    BY <1>b, <1>0, TreeFrame DEF Under
  <2> QED
    BY <1>b, <1>0, <1>1, <2>1 DEF RestInv, Under
<1>5. JournalInv'
  BY <1>1 DEF JournalInv
<1> QED
  BY <1>2, <1>3, <1>4, <1>5 DEF IInv

-----------------------------------------------------------------------------
(* The daemon's steps, a stop, and a lost index. *)
LEMMA StopInv == ASSUME IInv, RotateStop PROVE IInv'
<1>1. stops' \in 0 .. MaxStops
  BY BoundsType DEF IInv, TypeOK, RotateStop
<1> QED
  BY <1>1, Ends DEF RotateStop, Failures, IInv, TypeOK

LEMMA DiskFrame ==
    ASSUME IInv, UNCHANGED <<mode, journal, manifest, registry, users, index, dir, config, files, rot>>
    PROVE RestInv' /\ JournalInv'
<1>1. TreeUnder(manifest)' <=> TreeUnder(manifest)
  BY ZenonT(10), SMTT(30) DEF TreeUnder, Held
<1>2. RestInv'
  BY <1>1 DEF IInv, RestInv, Under, IndexComplete, Listed, Held
<1>3. ASSUME NEW o \in NodeKeys, NEW n \in NodeKeys, journal' = <<o, n>> PROVE PairInv(o, n)'
  <2>1. PairInv(o, n)
    BY <1>3 DEF IInv, JournalInv
  <2>2. TreeInv(o, n)' /\ (TreeUnder(n)' <=> TreeUnder(n))
    BY <2>1, TreeFrame DEF PairInv
  <2>a. Under(n)' <=> Under(n)
    BY ZenonT(10), SMTT(30), <2>2 DEF Under
  <2>b. (\A b \in Held : dir[b] = o => b \in Listed(index))'
            <=> \A b \in Held : dir[b] = o => b \in Listed(index)
    <3>1. dir' = dir /\ index' = index
      OBVIOUS
    <3>2. Listed(index)' = Listed(index)
      BY <3>1 DEF Listed
    <3> QED
      BY ZenonT(30), <3>1, <3>2 DEF Held
  <2>3. OrderInv(o, n)'
    BY <2>1, <2>2, <2>a, <2>b DEF PairInv, OrderInv
  <2>4. PhaseInv(o, n)'
    BY ZenonT(10), SMTT(30), <2>1, <2>2 DEF PairInv, PhaseInv, Held
  <2>5. MoveInv(o, n)'
    BY <2>1 DEF PairInv, MoveInv, Held
  <2> QED
    BY <2>1, <2>2, <2>3, <2>4, <2>5 DEF PairInv
<1> QED
  BY <1>2, <1>3 DEF JournalInv

LEMMA BootCheckInv ==
    ASSUME IInv, BootCheck \/ BootRefused, daemon'.pc = "booting" => rot'.pc = "idle" PROVE IInv'
<1> USE NoProcess
<1>0. UNCHANGED <<mode, journal, manifest, registry, users, index, dir, config, files, lock, rot, failure, starts, stops>>
  BY DEF BootCheck, BootRefused, keystore, tree
<1>1. /\ daemon' \in DaemonStates /\ daemon'.pc \in {"down", "booting"}
      /\ daemon'.pc = "booting" => journal = None
      /\ daemon.pc \notin {"rebuilding", "serving"}
  BY DEF BootCheck, BootRefused, DaemonStates, NoDaemon
<1>2. TypeOK'
  BY <1>0, <1>1 DEF IInv, TypeOK
<1>3. LockInv'
  BY <1>0, <1>1 DEF IInv, LockInv
<1>4. RestInv' /\ JournalInv'
  BY <1>0, DiskFrame
<1> QED
  BY <1>2, <1>3, <1>4 DEF IInv

(* A daemon that is up, or the operator without a journal, may change the index
   as long as it stays under the verified key. *)
LEMMA RestIndex ==
    ASSUME IInv, rot.pc = "idle", journal = None, index' = None \/ index'.key = manifest,
           UNCHANGED <<mode, journal, manifest, registry, users, dir, config, files, rot>>
    PROVE RestInv' /\ JournalInv'
<1>1. TreeUnder(manifest)' <=> TreeUnder(manifest)
  BY DEF TreeUnder, Held
<1>2. RestInv'
  BY <1>1 DEF IInv, RestInv, Under
<1> QED
  BY <1>2, NoneIsNothing DEF JournalInv

LEMMA BootLoadInv == ASSUME IInv, NEW k \in NodeKeys, BootLoad(k) PROVE IInv'
<1> USE NoneIsNothing
<1>0. UNCHANGED <<mode, journal, manifest, registry, users, dir, config, files, rot, failure, starts, stops>>
  BY DEF BootLoad, keystore, tree
<1>1. journal = None /\ rot.pc = "idle" /\ manifest = k
  BY DEF BootLoad, IInv, LockInv
<1>2. index' \in IndexStates /\ index' # None /\ index'.key = k
  BY <1>1, FreshIndex DEF BootLoad, IInv, TypeOK, RestInv
<1>3. daemon' \in DaemonStates /\ daemon'.pc = "rebuilding" /\ daemon'.key = k /\ lock' = "daemon"
  BY <1>2 DEF BootLoad, DaemonStates
<1>4. TypeOK'
  BY <1>0, <1>2, <1>3 DEF IInv, TypeOK
<1>5. LockInv'
  BY <1>0, <1>1, <1>2, <1>3 DEF IInv, LockInv
<1> QED
  BY <1>0, <1>1, <1>2, <1>4, <1>5, RestIndex DEF IInv

LEMMA DaemonRebuildInv == ASSUME IInv, DaemonRebuildRow \/ DaemonRebuilt PROVE IInv'
<1> USE NoneIsNothing
<1>0. UNCHANGED <<mode, journal, manifest, registry, users, dir, config, files, lock, rot, failure, starts, stops>>
  BY DEF DaemonRebuildRow, DaemonRebuilt, keystore, tree
<1>1. /\ journal = None /\ rot.pc = "idle" /\ daemon.key = manifest /\ index # None
      /\ daemon.pc = "rebuilding" /\ index.key = manifest /\ TreeUnder(manifest)
  BY DEF DaemonRebuildRow, DaemonRebuilt, IInv, LockInv, RestInv, Under
<1>2. PICK rows \in SUBSET Buckets :
         /\ index' = [index EXCEPT !.rows = rows]
         /\ daemon'.pc = "serving" => rows = Readable(manifest)
  <2>1. index.rows \subseteq Buckets
    BY <1>1 DEF IInv, TypeOK, IndexStates, IndexFiles
  <2>2. CASE DaemonRebuildRow
    <3>1. PICK b \in Buckets : index' = [index EXCEPT !.rows = @ \cup {b}]
      BY ZenonT(30), <2>2 DEF DaemonRebuildRow, RebuildRow, Readable
    <3>2. daemon'.pc # "serving"
      BY <1>1, <2>2 DEF DaemonRebuildRow
    <3> QED
      BY <2>1, <3>1, <3>2
  <2>3. CASE DaemonRebuilt
    BY ZenonT(30), <1>1, <2>3 DEF DaemonRebuilt, Readable
  <2> QED
    BY <2>2, <2>3
<1>3. index' \in IndexStates /\ index' # None /\ index'.key = manifest /\ index'.rows = rows
  BY <1>1, <1>2 DEF IInv, TypeOK, IndexStates, IndexFiles
<1>4. daemon' \in DaemonStates /\ daemon'.pc \in {"rebuilding", "serving"} /\ daemon'.key = manifest
  BY <1>1 DEF DaemonRebuildRow, DaemonRebuilt, IInv, TypeOK, DaemonStates
<1>5. Held \subseteq Readable(manifest)
  <2> SUFFICES ASSUME NEW b \in Held PROVE \E x \in Objects : <<x, manifest>> \in files[b]
    BY DEF Readable, Held
  <2>1. files[b] = Holds[b] \X {manifest}
    BY <1>1 DEF TreeUnder
  <2>2. PICK x \in Objects : x \in Holds[b]
    BY HoldsType DEF Held
  <2> QED
    BY <2>1, <2>2
<1>6. TypeOK'
  BY <1>0, <1>3, <1>4 DEF IInv, TypeOK
<1>7. LockInv'
  BY <1>0, <1>1, <1>2, <1>3, <1>4, <1>5 DEF IInv, LockInv, Held
<1> QED
  BY <1>0, <1>1, <1>3, <1>6, <1>7, RestIndex DEF IInv

LEMMA DaemonStopInv == ASSUME IInv, DaemonStop PROVE IInv'
<1> USE NoneIsNothing, NoProcess
<1>0. UNCHANGED <<mode, journal, manifest, registry, users, index, dir, config, files, rot, failure, starts, stops>>
  BY DEF DaemonStop, keystore, tree
<1>1. journal = None /\ rot.pc = "idle" /\ daemon' = NoDaemon /\ lock' = None
  BY DEF DaemonStop, IInv, LockInv
<1>2. TypeOK' /\ LockInv'
  BY <1>0, <1>1 DEF IInv, TypeOK, LockInv
<1>3. index' = None \/ index'.key = manifest
  BY <1>0, <1>1 DEF IInv, RestInv
<1> QED
  BY <1>0, <1>1, <1>2, <1>3, RestIndex DEF IInv

LEMMA LoseIndexInv == ASSUME IInv, LoseIndex, journal = None PROVE IInv'
<1> USE NoneIsNothing
<1>0. UNCHANGED <<mode, journal, manifest, registry, users, dir, config, files, lock, rot, daemon, failure, starts, stops>>
  BY DEF LoseIndex, keystore, tree
<1>1. rot.pc = "idle" /\ index' = None /\ lock = None
  BY DEF LoseIndex, IInv, LockInv
<1>2. TypeOK' /\ LockInv'
  BY <1>0, <1>1 DEF IInv, TypeOK, LockInv, IndexStates
<1> QED
  BY <1>0, <1>1, <1>2, RestIndex DEF IInv

LEMMA StepInv == IInv /\ [CarefulNext]_vars => IInv'
<1> SUFFICES ASSUME IInv, [CarefulNext]_vars PROVE IInv'
  OBVIOUS
<1>1. CASE RotationStep
  BY <1>1, JournalCreateInv, JournalWriteInv, ProbeInv, NextBucketInv, MigrateObjectInv, RemoveOldInv,
     MigrateConfigInv, RenameDirInv, IndexStepInv, RebuildInv, RekeyUsersInv, RewriteRegistryInv,
     RewriteVerifierInv, DeleteJournalInv DEF RotationStep
<1>2. CASE CarefulNext /\ ~RotationStep
  BY <1>2, StartInv, StopInv, BootCheckInv, BootLoadInv, DaemonRebuildInv, DaemonStopInv, LoseIndexInv
     DEF CarefulNext, DaemonStep
<1>3. CASE UNCHANGED vars
  <2>0. UNCHANGED <<mode, journal, manifest, registry, users, index, dir, config, files, lock, rot, daemon, failure, starts, stops>>
    BY ZenonT(10), SMTT(30), <1>3 DEF vars, keystore, tree
  <2>1. TypeOK' /\ LockInv'
    BY <2>0 DEF IInv, TypeOK, LockInv, Held
  <2>2. RestInv' /\ JournalInv'
    BY <2>0, DiskFrame
  <2> QED
    BY <2>1, <2>2 DEF IInv
<1> QED
  BY <1>1, <1>2, <1>3

-----------------------------------------------------------------------------
(* Types, and the properties that rest on the invariant. *)
LEMMA Implied == IInv => TypeOK /\ JournalCovers /\ CopyKept /\ IndexProvesWalk /\ FlipsLast /\ ServesWhole
<1> SUFFICES ASSUME IInv PROVE TypeOK /\ JournalCovers /\ CopyKept /\ IndexProvesWalk /\ FlipsLast /\ ServesWhole
  OBVIOUS
<1>1. TypeOK /\ JournalCovers
  BY DEF IInv, JournalCovers, RestInv
<1>2. ASSUME NEW pair \in Pairs, journal = pair
      PROVE PairInv(pair[1], pair[2])
  BY <1>2 DEF IInv, JournalInv, Pairs
<1>3. CopyKept
  BY ZenonT(10), SMTT(30), <1>2 DEF CopyKept, PairInv, TreeInv, BucketInv
<1>4. IndexProvesWalk
  BY ZenonT(10), SMTT(30), <1>2 DEF IndexProvesWalk, PairInv, OrderInv
<1>5. FlipsLast
  BY ZenonT(10), SMTT(30), <1>2 DEF FlipsLast, PairInv, OrderInv
<1>6. ServesWhole
  BY DEF IInv, ServesWhole, LockInv, RestInv
<1> QED
  BY <1>1, <1>3, <1>4, <1>5, <1>6

(* Every file, directory, process and counter of a rotation keeps its type. *)
THEOREM TypeCorrect == CarefulSpec => []TypeOK
  BY InitInv, StepInv, Implied, PTL DEF CarefulSpec

(* A rotation is never half done and unrecorded: without a journal everything
   is under the key keystore.json verifies. *)
THEOREM RotationJournalled == CarefulSpec => []JournalCovers
  BY InitInv, StepInv, Implied, PTL DEF CarefulSpec

(* At every step of a journalled rotation, stopped or not, every object has a
   file under the old or the new key. *)
THEOREM RotationKeepsCopy == CarefulSpec => []CopyKept
  BY InitInv, StepInv, Implied, PTL DEF CarefulSpec

(* A re-run that finds no index under the old key may skip the walk. *)
THEOREM SkippingIsSound == CarefulSpec => []IndexProvesWalk
  BY InitInv, StepInv, Implied, PTL DEF CarefulSpec

(* The registry and the verifier name the new key only when everything is
   under it. *)
THEOREM VerifierFlipsLast == CarefulSpec => []FlipsLast
  BY InitInv, StepInv, Implied, PTL DEF CarefulSpec

(* A daemon that is up finds everything under its key. *)
THEOREM DaemonServesWhole == CarefulSpec => []ServesWhole
  BY InitInv, StepInv, Implied, PTL DEF CarefulSpec
=============================================================================
