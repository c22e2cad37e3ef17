------------------------- MODULE ObjectStoreProofs -------------------------
(***************************************************************************)
(* Proofs about ObjectStore for every set of keys and requests: type       *)
(* correctness, the exclusion the write lock provides, the index row of an *)
(* unlocked key, the order in which a GET sees the bodies, what a rebuild  *)
(* repairs, and the stamp a buffered PUT keeps.                            *)
(***************************************************************************)
EXTENDS ObjectStore, TLAPS

\* A request that is running names a key of the bucket.
RunningHasKey == \A p \in Procs : pc[p] # "idle" => req[p].key \in Keys

TypeInv == TypeOK /\ RunningHasKey

LEMMA TypeInit == Init => TypeInv
  BY NoneAssumption, BoundAssumption
     DEF Init, TypeInv, TypeOK, RunningHasKey, Procs, Stamp, Metadata, NoMeta, NoReq, NoRebuild,
         Request, Control, RebuildTask

\* The locals of a request that has just chosen its key.
LEMMA NoReqType ==
  ASSUME NEW k \in Keys \cup {None}
  PROVE  NoReq(k) \in Request /\ NoReq(k).key = k
  BY NoneAssumption, BoundAssumption DEF NoReq, Request, Stamp, Metadata, NoMeta

\* What the stat of the existing file stores keeps the type and the key.
LEMMA OverType ==
  ASSUME NEW r \in Request, NEW b \in BOOLEAN, NEW t \in Stamp \cup {None}
  PROVE  /\ [r EXCEPT !.over = b] \in Request
         /\ [r EXCEPT !.over = b].key = r.key
         /\ [r EXCEPT !.over = b, !.prior = t] \in Request
         /\ [r EXCEPT !.over = b, !.prior = t].key = r.key
  BY ZenonT(30) DEF Request

LEMMA ReturnType ==
  ASSUME TypeInv, NEW p \in Procs, Return(p)
  PROVE  pc' \in [Procs -> Control] /\ req' \in [Procs -> Request] /\ RunningHasKey'
  BY NoReqType DEF TypeInv, TypeOK, RunningHasKey, Return, Goto, Control

\* The edits run_rebuild makes to its locals keep their types.
LEMMA RebuildEdit ==
  ASSUME NEW r \in RebuildTask, NEW A \in SUBSET Keys, NEW B \in SUBSET Keys,
         NEW c \in Keys \cup {None}, NEW m \in Metadata
  PROVE  /\ [r EXCEPT !.walk = A, !.files = B] \in RebuildTask
         /\ [r EXCEPT !.files = A, !.cur = c, !.md = m] \in RebuildTask
         /\ [r EXCEPT !.seen = A, !.cur = c, !.md = m] \in RebuildTask
         /\ [r EXCEPT !.state = "sweep", !.rows = A] \in RebuildTask
         /\ [r EXCEPT !.rows = A] \in RebuildTask
  BY ZenonT(30) DEF RebuildTask

LEMMA NoRebuildType ==
  ASSUME NEW n \in 0..MaxRebuilds
  PROVE  /\ [NoRebuild EXCEPT !.state = "scan", !.walk = Keys, !.runs = n] \in RebuildTask
         /\ [NoRebuild EXCEPT !.state = "completed", !.runs = n] \in RebuildTask
         /\ [NoRebuild EXCEPT !.state = "failed", !.runs = n] \in RebuildTask
<1>1. NoMeta \in Metadata
  BY BoundAssumption DEF NoMeta, Metadata, Stamp
<1>2. NoRebuild \in RebuildTask
  BY <1>1, BoundAssumption DEF NoRebuild, RebuildTask
<1> QED
  BY ZenonT(30), <1>2 DEF RebuildTask

LEMMA TypeStep == TypeInv /\ [Next]_vars => TypeInv'
<1> SUFFICES ASSUME TypeInv, [Next]_vars PROVE TypeInv'
  OBVIOUS
<1> USE NoneAssumption, BoundAssumption DEF TypeInv, TypeOK, Procs
<1>1. ASSUME NEW p \in Streamers, StreamStat(p) PROVE TypeInv'
  <2>1. PICK k \in Keys :
          /\ req' = [req EXCEPT ![p] = [NoReq(k) EXCEPT !.over = disk[k] # None]]
          /\ Goto(p, IF disk[k] # None THEN "created" ELSE "lock")
    BY ZenonT(30), <1>1 DEF StreamStat
  <2>2. /\ [NoReq(k) EXCEPT !.over = disk[k] # None] \in Request
        /\ [NoReq(k) EXCEPT !.over = disk[k] # None].key = k
    BY ZenonT(30), NoReqType, OverType, (disk[k] # None) \in BOOLEAN
  <2>3. req' \in [Procs -> Request] /\ pc' \in [Procs -> Control]
    BY <2>1, <2>2 DEF Goto, Control
  <2>4. RunningHasKey'
    BY <2>1, <2>2 DEF RunningHasKey, Goto
  <2> QED
    BY <1>1, <2>3, <2>4 DEF StreamStat
<1>2. ASSUME NEW p \in Streamers, StreamReadCreated(p) PROVE TypeInv'
  BY <1>2 DEF StreamReadCreated, Goto, RunningHasKey, Control, Request, Metadata
<1>3. ASSUME NEW p \in Streamers, StreamLock(p) PROVE TypeInv'
  <2>1. CASE NotLocked(req[p].key)
    BY <1>3, <2>1 DEF StreamLock, Goto, RunningHasKey, Control
  <2>2. CASE ~NotLocked(req[p].key)
    BY <1>3, <2>2, ReturnType DEF StreamLock
  <2> QED
    BY <2>1, <2>2
<1>4. ASSUME NEW p \in Streamers \cup Putters, CommitStamp(p) PROVE TypeInv'
  BY <1>4 DEF CommitStamp, Tick, Goto, RunningHasKey, Control, Request, Metadata, Stamp
<1>5. ASSUME NEW p \in Streamers \cup Putters, CommitRename(p) PROVE TypeInv'
  BY <1>5 DEF CommitRename, Touch, Goto, RunningHasKey, Control, Request
<1>6. ASSUME NEW p \in Streamers \cup Putters, CommitIndex(p) PROVE TypeInv'
  BY <1>6, ReturnType DEF CommitIndex, Touch, Upsert, IndexTx, RunningHasKey, Request
<1>7. ASSUME NEW p \in Streamers \cup Putters, PutAbort(p) PROVE TypeInv'
  BY ZenonT(30), <1>7, ReturnType DEF PutAbort
<1>8. ASSUME NEW p \in Putters, PutLock(p) PROVE TypeInv'
  BY <1>8, NoReqType DEF PutLock, Goto, RunningHasKey, Control
<1>9. ASSUME NEW p \in Putters, PutStat(p) PROVE TypeInv'
  <2> DEFINE k == req[p].key
             t == IF disk[k] = None THEN None ELSE disk[k].created
             b == disk[k] # None
             r == [req[p] EXCEPT !.over = b, !.prior = t]
  <2>1. k \in Keys /\ t \in Stamp \cup {None}
    BY <1>9 DEF RunningHasKey, PutStat, Metadata
  <2>2. r \in Request /\ r.key = k
    <3>1. req[p] \in Request /\ b \in BOOLEAN
      OBVIOUS
    <3> HIDE DEF t, k, b
    <3>2. r \in Request /\ r.key = req[p].key
      BY ZenonT(30), <3>1, <2>1, OverType
    <3> QED
      BY <3>2 DEF k
  <2>3. req' = [req EXCEPT ![p] = r] /\ pc' = [pc EXCEPT ![p] = "stream"]
    BY ZenonT(30), <1>9 DEF PutStat, Goto
  <2>4. UNCHANGED <<disk, index, lock, clock, reb, touched, missed>>
    BY <1>9 DEF PutStat
  <2> HIDE DEF r, k
  <2>5. RunningHasKey'
    BY <2>1, <2>2, <2>3 DEF RunningHasKey
  <2> QED
    BY <2>2, <2>3, <2>4, <2>5 DEF Control
<1>10. ASSUME NEW p \in Deleters, Delete(p) PROVE TypeInv'
  <2>1. CASE DeleteCheck(p)
    BY <2>1, NoReqType DEF DeleteCheck, Goto, RunningHasKey, Control
  <2>2. CASE DeleteUnlink(p)
    BY <2>2 DEF DeleteUnlink, Touch, Goto, RunningHasKey, Control
  <2>3. CASE DeleteIndex(p)
    BY <2>3, ReturnType DEF DeleteIndex, Touch, Remove, IndexTx, RunningHasKey
  <2> QED
    BY <1>10, <2>1, <2>2, <2>3 DEF Delete
<1>11. ASSUME NEW p \in Labelers, SetLabels(p) PROVE TypeInv'
  <2>1. CASE LabelsCheck(p)
    BY <2>1, NoReqType DEF LabelsCheck, Goto, RunningHasKey, Control
  <2>2. CASE LabelsRead(p)
    BY <2>2 DEF LabelsRead, Tick, Goto, RunningHasKey, Control, Request, Metadata, Stamp
  <2>3. CASE LabelsRename(p)
    BY <2>3 DEF LabelsRename, Touch, Goto, RunningHasKey, Control, Request
  <2>4. CASE LabelsIndex(p)
    BY <2>4, ReturnType DEF LabelsIndex, Touch, Upsert, IndexTx, RunningHasKey, Request
  <2> QED
    BY <1>11, <2>1, <2>2, <2>3, <2>4 DEF SetLabels
<1>12. ASSUME NEW p \in Deleters \cup Labelers, MutationFails(p) PROVE TypeInv'
  BY <1>12, ReturnType DEF MutationFails
<1>13. ASSUME NEW p \in Readers, GetDescribe(p) PROVE TypeInv'
  <2>1. PICK k \in Keys :
          disk[k] # None /\ req' = [req EXCEPT ![p] = [NoReq(k) EXCEPT !.md = disk[k]]]
    BY ZenonT(30), <1>13 DEF GetDescribe
  <2>2. /\ [NoReq(k) EXCEPT !.md = disk[k]] \in Request
        /\ [NoReq(k) EXCEPT !.md = disk[k]].key = k
    BY <2>1, NoReqType DEF Request
  <2> QED
    BY ZenonT(30), <1>13, <2>1, <2>2 DEF RunningHasKey, Goto, Control, GetDescribe
<1>14. ASSUME NEW p \in Readers, GetBody(p) PROVE TypeInv'
  <2>1. CASE NotLocked(req[p].key) /\ disk[req[p].key] # None
    BY <1>14, <2>1 DEF GetBody, Goto, RunningHasKey, Control, Request, Metadata
  <2>2. CASE ~(NotLocked(req[p].key) /\ disk[req[p].key] # None)
    BY <1>14, <2>2, ReturnType DEF GetBody
  <2> QED
    BY <2>1, <2>2
<1>15. CASE RebuildStart
  <2>1. reb.runs + 1 \in 0..MaxRebuilds
    BY <1>15 DEF RebuildStart, RebuildTask
  <2>2. reb' \in RebuildTask
    BY ZenonT(30), <1>15, <2>1, NoRebuildType DEF RebuildStart
  <2> QED
    BY <1>15, <2>2 DEF RebuildStart, RunningHasKey
<1>16. CASE RebuildStep
  <2>1. /\ reb.walk \in SUBSET Keys /\ reb.files \in SUBSET Keys /\ reb.seen \in SUBSET Keys
        /\ reb.rows \in SUBSET Keys /\ reb.cur \in Keys \cup {None} /\ reb.md \in Metadata
        /\ reb.runs \in 0..MaxRebuilds /\ NoMeta \in Metadata
    BY DEF RebuildTask, NoMeta, Metadata, Stamp
  <2>2. CASE RebuildCollect
    <3>1. PICK k \in reb.walk :
            reb' = [reb EXCEPT !.walk = @ \ {k},
                               !.files = IF disk[k] = None THEN @ ELSE @ \cup {k}]
      BY ZenonT(30), <2>2 DEF RebuildCollect
    <3> DEFINE W == reb.walk \ {k}
               F == IF disk[k] = None THEN reb.files ELSE reb.files \cup {k}
    <3>2. W \in SUBSET Keys /\ F \in SUBSET Keys /\ reb' = [reb EXCEPT !.walk = W, !.files = F]
      BY <2>1, <3>1
    <3> HIDE DEF W, F
    <3>3. reb' \in RebuildTask
      BY ZenonT(30), <2>1, <3>2, RebuildEdit
    <3> QED
      BY <2>2, <3>3 DEF RebuildCollect, RunningHasKey
  <2>3. CASE RebuildRead
    <3>1. PICK k \in reb.files :
            reb' = [reb EXCEPT !.files = @ \ {k},
                               !.cur = IF disk[k] = None THEN None ELSE k,
                               !.md = IF disk[k] = None THEN @ ELSE disk[k]]
      BY ZenonT(30), <2>3 DEF RebuildRead
    <3>2. /\ reb.files \ {k} \in SUBSET Keys
          /\ (IF disk[k] = None THEN None ELSE k) \in Keys \cup {None}
          /\ (IF disk[k] = None THEN reb.md ELSE disk[k]) \in Metadata
      BY <2>1
    <3>3. reb' \in RebuildTask
      BY ZenonT(30), <3>1, <3>2, RebuildEdit
    <3> QED
      BY <2>3, <3>3 DEF RebuildRead, RunningHasKey
  <2>4. CASE RebuildUpsert
    <3>1. reb.cur \in Keys /\ reb.seen \cup {reb.cur} \in SUBSET Keys
      BY <2>1, <2>4 DEF RebuildUpsert
    <3>2. reb' \in RebuildTask
      BY ZenonT(30), <2>1, <2>4, <3>1, RebuildEdit DEF RebuildUpsert
    <3> QED
      BY <2>1, <2>4, <3>1, <3>2 DEF RebuildUpsert, Upsert, IndexTx, RunningHasKey
  <2>5. CASE RebuildListRows
    <3> DEFINE R == {k \in Keys : index[k] # None} \ reb.seen
    <3>1. R \in SUBSET Keys /\ reb' = [reb EXCEPT !.state = "sweep", !.rows = R]
      BY <2>5 DEF RebuildListRows
    <3> HIDE DEF R
    <3>2. reb' \in RebuildTask
      BY ZenonT(30), <2>1, <3>1, RebuildEdit
    <3> QED
      BY <2>5, <3>2 DEF RebuildListRows, RunningHasKey
  <2>6. CASE RebuildRemove
    <3>1. PICK k \in reb.rows : Remove(k) /\ reb' = [reb EXCEPT !.rows = @ \ {k}]
      BY ZenonT(30), <2>6 DEF RebuildRemove
    <3> DEFINE R == reb.rows \ {k}
    <3>2. k \in Keys /\ R \in SUBSET Keys /\ reb' = [reb EXCEPT !.rows = R]
      BY <2>1, <3>1
    <3> HIDE DEF R
    <3>3. reb' \in RebuildTask
      BY ZenonT(30), <2>1, <3>2, RebuildEdit
    <3> QED
      BY <2>6, <3>1, <3>2, <3>3 DEF RebuildRemove, Remove, IndexTx, RunningHasKey
  <2>7. CASE RebuildDone \/ RebuildFails
    <3>1. reb.runs \in 0..MaxRebuilds
      BY <2>1 DEF RebuildTask
    <3>2. \/ reb' = [NoRebuild EXCEPT !.state = "completed", !.runs = reb.runs]
          \/ reb' = [NoRebuild EXCEPT !.state = "failed", !.runs = reb.runs]
      BY <2>7 DEF RebuildDone, RebuildFails
    <3>3. reb' \in RebuildTask
      BY ONLY <3>1, <3>2, NoRebuildType, Zenon
    <3> QED
      BY <2>7, <3>3 DEF RebuildDone, RebuildFails, RunningHasKey
  <2> QED
    BY <1>16, <2>2, <2>3, <2>4, <2>5, <2>6, <2>7 DEF RebuildStep
<1>17. CASE UNCHANGED vars
  BY <1>17 DEF vars, RunningHasKey
<1> QED
  BY ZenonT(30), <1>1, <1>2, <1>3, <1>4, <1>5, <1>6, <1>7, <1>8, <1>9, <1>10, <1>11, <1>12, <1>13,
     <1>14, <1>15, <1>16, <1>17 DEF Next, Stream, Commit, Put, Get

\* Every variable keeps its type (filesystem.rs: the state of the store, of its
\* requests and of the rebuild task).
THEOREM TypeCorrect == Spec => []TypeOK
<1>1. TypeInv /\ UNCHANGED vars => TypeInv'
  BY TypeStep
<1> QED
  BY TypeInit, TypeStep, PTL DEF Spec, TypeInv

-----------------------------------------------------------------------------
(* The write lock.                                                         *)

\* A PUT that is committing owns the entry of its key.
LockInv == \A p \in Procs : pc[p] \in Committing => lock[req[p].key] = p

LEMMA LockStep == TypeInv /\ LockInv /\ [Next]_vars => LockInv'
<1> SUFFICES ASSUME TypeInv, LockInv, [Next]_vars PROVE LockInv'
  OBVIOUS
<1> USE NoneAssumption
    DEF TypeInv, TypeOK, RunningHasKey, LockInv, Committing, Procs, Goto, Return, NotLocked
<1>1. ASSUME NEW p \in Streamers, Stream(p) PROVE LockInv'
  <2>1. CASE StreamStat(p) \/ StreamReadCreated(p)
    BY <2>1 DEF StreamStat, StreamReadCreated
  <2>2. CASE StreamLock(p)
    BY <2>2 DEF StreamLock
  <2> QED
    BY <1>1, <2>1, <2>2 DEF Stream
<1>2. ASSUME NEW p \in Streamers \cup Putters, Commit(p) PROVE LockInv'
  <2>1. CASE CommitStamp(p)
    <3>1. req'[p].key = req[p].key
      BY <2>1 DEF CommitStamp, Request
    <3> QED
      BY <2>1, <3>1 DEF CommitStamp
  <2>2. CASE CommitRename(p)
    BY <2>2 DEF CommitRename
  <2>3. CASE CommitIndex(p) \/ PutAbort(p)
    BY <2>3 DEF CommitIndex, PutAbort
  <2> QED
    BY <1>2, <2>1, <2>2, <2>3 DEF Commit
<1>3. ASSUME NEW p \in Putters, Put(p) PROVE LockInv'
  <2>1. CASE PutLock(p)
    BY <2>1, NoReqType DEF PutLock
  <2>2. CASE PutStat(p)
    <3>1. req'[p].key = req[p].key
      BY <2>2 DEF PutStat, Request
    <3> QED
      BY <2>2, <3>1 DEF PutStat
  <2> QED
    BY <1>3, <2>1, <2>2 DEF Put
<1>4. ASSUME NEW p \in Deleters, Delete(p) PROVE LockInv'
  BY <1>4 DEF Delete, DeleteCheck, DeleteUnlink, DeleteIndex
<1>5. ASSUME NEW p \in Labelers, SetLabels(p) PROVE LockInv'
  BY <1>5 DEF SetLabels, LabelsCheck, LabelsRead, LabelsRename, LabelsIndex
<1>6. ASSUME NEW p \in Deleters \cup Labelers, MutationFails(p) PROVE LockInv'
  BY <1>6 DEF MutationFails
<1>7. ASSUME NEW p \in Readers, Get(p) PROVE LockInv'
  BY <1>7 DEF Get, GetDescribe, GetBody
<1>8. CASE RebuildStart \/ RebuildStep
  <2>1. UNCHANGED <<pc, req, lock>>
    BY ZenonT(30), <1>8 DEF RebuildStart, RebuildStep, RebuildCollect, RebuildRead, RebuildUpsert,
                RebuildListRows, RebuildRemove, RebuildDone, RebuildFails
  <2> QED
    BY <2>1
<1>9. CASE UNCHANGED vars
  BY <1>9 DEF vars
<1> QED
  BY <1>1, <1>2, <1>3, <1>4, <1>5, <1>6, <1>7, <1>8, <1>9 DEF Next

\* Two PUTs of one key are never both between taking the lock and releasing it,
\* whatever DELETE, set_labels and the rebuild do (LockRegistry::try_acquire).
THEOREM PutsAreExclusive == Spec => []PutsExclusive
<1>1. Init => LockInv
  BY DEF Init, LockInv, Committing, Procs
<1>2. TypeInv /\ LockInv => PutsExclusive
  BY DEF LockInv, PutsExclusive
<1> QED
  BY <1>1, <1>2, TypeInit, TypeStep, LockStep, PTL DEF Spec

-----------------------------------------------------------------------------
(* The index row of a key that no PUT holds, while only PUTs and GETs run. *)

PutsOnly == Deleters = {} /\ Labelers = {} /\ MaxRebuilds = 0

\* A row differs from its file only while a PUT is between its rename and its
\* index transaction, and then the file is the record the PUT will index.
SyncInv ==
    /\ ~Rebuilding
    /\ \A k \in Keys \ missed :
         index[k] = disk[k] \/ \E p \in Procs : pc[p] = "upsert" /\ req[p].key = k
    /\ \A p \in Procs : pc[p] = "upsert" => disk[req[p].key] = req[p].md

LEMMA SyncStep ==
  ASSUME PutsOnly, TypeInv, LockInv, SyncInv, [Next]_vars PROVE SyncInv'
<1> USE NoneAssumption
    DEF PutsOnly, TypeInv, TypeOK, RunningHasKey, LockInv, SyncInv, Committing, Procs,
        Goto, Return, NotLocked
<1>1. ASSUME NEW p \in Streamers, Stream(p) PROVE SyncInv'
  BY <1>1 DEF Stream, StreamStat, StreamReadCreated, StreamLock, Rebuilding
<1>2. ASSUME NEW p \in Streamers \cup Putters, Commit(p) PROVE SyncInv'
  <2>1. CASE CommitStamp(p)
    BY <2>1 DEF CommitStamp, Rebuilding
  <2>2. CASE CommitRename(p)
    BY <2>2 DEF CommitRename, Rebuilding
  <2>3. CASE CommitIndex(p)
    BY <2>3 DEF CommitIndex, Upsert, IndexTx, Rebuilding
  <2>4. CASE PutAbort(p)
    BY <2>4 DEF PutAbort, Rebuilding
  <2> QED
    BY <1>2, <2>1, <2>2, <2>3, <2>4 DEF Commit
<1>3. ASSUME NEW p \in Putters, Put(p) PROVE SyncInv'
  BY <1>3 DEF Put, PutLock, PutStat, Rebuilding
<1>4. ASSUME NEW p \in Readers, Get(p) PROVE SyncInv'
  BY <1>4 DEF Get, GetDescribe, GetBody, Rebuilding
<1>5. ~RebuildStart /\ ~RebuildStep
  <2>1. ~(reb.runs < MaxRebuilds)
    BY DEF RebuildTask
  <2>2. RebuildStep => Rebuilding
    BY ZenonT(30) DEF RebuildStep, RebuildCollect, RebuildRead, RebuildUpsert, RebuildListRows,
           RebuildRemove, RebuildDone, RebuildFails, Rebuilding
  <2> QED
    BY <2>1, <2>2 DEF RebuildStart
<1>6. CASE UNCHANGED vars
  BY <1>6 DEF vars, Rebuilding
<1> QED
  BY <1>1, <1>2, <1>3, <1>4, <1>5, <1>6 DEF Next

\* While PUTs and GETs run, and nothing else does, a listing agrees with the
\* object files for every key whose lock is free and whose last index
\* transaction succeeded (StreamingPutGuard::commit keeps the lock across both).
THEOREM UnlockedKeyIsIndexed == PutsOnly => (Spec => []UnlockedKeyIndexed)
<1> SUFFICES ASSUME PutsOnly PROVE Spec => []UnlockedKeyIndexed
  OBVIOUS
<1>1. Init => LockInv /\ SyncInv
  BY DEF Init, LockInv, SyncInv, Committing, Procs, NoRebuild, Rebuilding
<1>2. TypeInv /\ LockInv /\ SyncInv /\ [Next]_vars => SyncInv'
  BY SyncStep
<1>3. TypeInv /\ LockInv /\ SyncInv => UnlockedKeyIndexed
  BY NoneAssumption DEF LockInv, SyncInv, UnlockedKeyIndexed, Committing, Procs
<1> QED
  BY <1>1, <1>2, <1>3, TypeInit, TypeStep, LockStep, PTL DEF Spec

-----------------------------------------------------------------------------
(* The order of the bodies a GET sees, when no set_labels runs.            *)

\* No stamp is ahead of the clock; a PUT about to rename was stamped after the
\* file it replaces; and from describe to get, the file and every PUT about to
\* replace it are at least as recent as the record that was described.
BodyOrder ==
    /\ \A k \in Keys : disk[k] # None => disk[k].body <= clock
    /\ \A p \in Procs : req[p].md.body <= clock
    /\ \A p \in Procs : (pc[p] = "rename" /\ disk[req[p].key] # None)
                            => disk[req[p].key].body <= req[p].md.body
    /\ \A p \in Procs : pc[p] = "body" =>
          /\ disk[req[p].key] # None => req[p].md.body <= disk[req[p].key].body
          /\ \A q \in Procs : (pc[q] = "rename" /\ req[q].key = req[p].key)
                                  => req[p].md.body <= req[q].md.body
    /\ \A p \in Procs : pc[p] = "served" => req[p].md.body <= req[p].got

LEMMA BodyOrderStep ==
  ASSUME Labelers = {}, TypeInv, LockInv, BodyOrder, [Next]_vars PROVE BodyOrder'
<1> USE NoneAssumption, BoundAssumption
    DEF TypeInv, TypeOK, RunningHasKey, LockInv, BodyOrder, Committing, Procs, Stamp,
        Goto, NotLocked
<1>1. \A k \in Keys \cup {None} : NoReq(k).key = k /\ NoReq(k).md.body = 0
  BY ZenonT(10), SMTT(30) DEF NoReq, NoMeta
<1>2. ASSUME NEW p \in Procs, Return(p), UNCHANGED <<disk, clock>> PROVE BodyOrder'
  BY SMTT(20), Zenon, <1>1, <1>2 DEF Return
<1>3. ASSUME NEW p \in Streamers, Stream(p) PROVE BodyOrder'
  <2>1. CASE StreamStat(p)
    BY SMTT(30), <1>1, <2>1 DEF StreamStat, NoReq, NoMeta
  <2>2. CASE StreamReadCreated(p)
    BY SMTT(60), <2>2 DEF StreamReadCreated, Request
  <2>3. CASE StreamLock(p)
    BY SMTT(60), <1>2, <2>3 DEF StreamLock
  <2> QED
    BY ZenonT(30), <1>3, <2>1, <2>2, <2>3 DEF Stream
<1>4. ASSUME NEW p \in Streamers \cup Putters, Commit(p) PROVE BodyOrder'
  <2>1. CASE CommitStamp(p)
    <3>1. req'[p].key = req[p].key /\ req'[p].md.body = clock + 1 /\ clock' = clock + 1
      BY <2>1 DEF CommitStamp, Tick, Request
    <3>2. /\ pc' = [pc EXCEPT ![p] = "rename"] /\ UNCHANGED disk
          /\ \A q \in Procs \ {p} : req'[q] = req[q]
      BY <2>1 DEF CommitStamp
    <3>3. /\ clock \in Nat /\ \A q \in Procs : req[q].md.body \in Nat
          /\ \A k \in Keys : disk[k] # None => disk[k].body \in Nat
      BY DEF Request, Metadata
    <3>4. \A q \in Procs : req'[q].key = req[q].key /\ (pc'[q] = "body" => pc[q] = "body" /\ q # p)
      BY <3>1, <3>2
    <3>5. /\ \A k \in Keys : disk'[k] # None => disk'[k].body <= clock'
          /\ \A q \in Procs : req'[q].md.body <= clock'
      BY <3>1, <3>2, <3>3
    <3>6. \A q \in Procs : (pc'[q] = "rename" /\ disk'[req'[q].key] # None)
                              => disk'[req'[q].key].body <= req'[q].md.body
      BY SMTT(30), <3>1, <3>2, <3>3, <2>1 DEF CommitStamp
    <3>7. \A r \in Procs : pc'[r] = "body" =>
            /\ disk'[req'[r].key] # None => req'[r].md.body <= disk'[req'[r].key].body
            /\ \A q \in Procs : (pc'[q] = "rename" /\ req'[q].key = req'[r].key)
                                    => req'[r].md.body <= req'[q].md.body
      BY SMTT(20), Zenon, <3>1, <3>2, <3>3, <3>4
    <3>8. \A q \in Procs : pc'[q] = "served" => req'[q].md.body <= req'[q].got
      BY ZenonT(10), SMTT(30), <3>2
    <3> QED
      BY <3>5, <3>6, <3>7, <3>8
  <2>2. CASE CommitRename(p)
    BY SMTT(20), Zenon, <2>2 DEF CommitRename, Request, Metadata
  <2>3. CASE CommitIndex(p) \/ PutAbort(p)
    BY ZenonT(30), <1>2, <2>3 DEF CommitIndex, PutAbort
  <2> QED
    BY ZenonT(10), SMTT(30), <1>4, <2>1, <2>2, <2>3 DEF Commit
<1>5. ASSUME NEW p \in Putters, Put(p) PROVE BodyOrder'
  <2>1. CASE PutLock(p)
    BY SMTT(60), <1>1, <2>1 DEF PutLock
  <2>2. CASE PutStat(p)
    <3>1. req'[p].key = req[p].key /\ req'[p].md = req[p].md
      BY <2>2 DEF PutStat, Request
    <3>2. /\ pc' = [pc EXCEPT ![p] = "stream"] /\ UNCHANGED <<disk, clock>>
          /\ \A q \in Procs \ {p} : req'[q] = req[q]
      BY ZenonT(10), SMTT(30), <2>2 DEF PutStat
    <3>3. /\ \A q \in Procs : req'[q].key = req[q].key /\ req'[q].md = req[q].md
          /\ \A q \in Procs : pc'[q] = "served" => req'[q] = req[q] /\ pc[q] = "served"
          /\ \A q \in Procs : pc'[q] \in {"rename", "body"} => pc[q] = pc'[q]
      BY ZenonT(10), SMTT(30), <3>1, <3>2
    <3> QED
      BY SMTT(20), Zenon, <3>2, <3>3
  <2> QED
    BY ZenonT(30), <1>5, <2>1, <2>2 DEF Put
<1>6. ASSUME NEW p \in Deleters, Delete(p) PROVE BodyOrder'
  <2>1. CASE DeleteCheck(p)
    BY SMTT(60), <1>1, <2>1 DEF DeleteCheck
  <2>2. CASE DeleteUnlink(p)
    BY ZenonT(10), SMTT(30), <2>2 DEF DeleteUnlink
  <2>3. CASE DeleteIndex(p)
    BY ZenonT(10), SMTT(30), <1>2, <2>3 DEF DeleteIndex
  <2> QED
    BY ZenonT(10), SMTT(30), <1>6, <2>1, <2>2, <2>3 DEF Delete
<1>7. ASSUME NEW p \in Deleters, MutationFails(p) PROVE BodyOrder'
  BY <1>2, <1>7 DEF MutationFails
<1>8. ASSUME NEW p \in Readers, GetDescribe(p) PROVE BodyOrder'
  <2>1. PICK k \in Keys :
          /\ lock[k] = None /\ disk[k] # None
          /\ req' = [req EXCEPT ![p] = [NoReq(k) EXCEPT !.md = disk[k]]]
    BY ZenonT(30), <1>8 DEF GetDescribe
  <2>2. req'[p].key = k /\ req'[p].md = disk[k]
    BY <1>1, <2>1 DEF NoReq
  <2>3. \A q \in Procs : pc[q] = "rename" => req[q].key # k
    BY <2>1
  <2>4. /\ pc' = [pc EXCEPT ![p] = "body"] /\ UNCHANGED <<disk, clock>>
        /\ \A q \in Procs \ {p} : req'[q] = req[q]
    BY ZenonT(10), SMTT(30), <1>8, <2>1 DEF GetDescribe
  <2> QED
    BY <2>1, <2>2, <2>3, <2>4 DEF Metadata
<1>9. ASSUME NEW p \in Readers, GetBody(p) PROVE BodyOrder'
  <2>1. CASE NotLocked(req[p].key) /\ disk[req[p].key] # None
    <3>1. /\ req'[p].key = req[p].key /\ req'[p].md = req[p].md
          /\ req'[p].got = disk[req[p].key].body
      BY <1>9, <2>1 DEF GetBody, Request
    <3> QED
      BY SMTT(20), Zenon, <1>9, <2>1, <3>1 DEF GetBody
  <2>2. CASE ~(NotLocked(req[p].key) /\ disk[req[p].key] # None)
    BY ZenonT(10), SMTT(30), <1>2, <1>9, <2>2 DEF GetBody
  <2> QED
    BY <2>1, <2>2
<1>10. CASE RebuildStart \/ RebuildStep
  <2>1. UNCHANGED <<pc, req, disk, clock>>
    BY ZenonT(30), <1>10 DEF RebuildStart, RebuildStep, RebuildCollect, RebuildRead, RebuildUpsert,
                 RebuildListRows, RebuildRemove, RebuildDone, RebuildFails
  <2> QED
    BY <2>1
<1>11. CASE UNCHANGED vars
  BY <1>11 DEF vars
<1> QED
  BY ZenonT(30), <1>3, <1>4, <1>5, <1>6, <1>7, <1>8, <1>9, <1>10, <1>11 DEF Next, Get

\* Whatever PUTs, DELETEs, GETs and rebuilds do together, the body a GET serves
\* is never older than the metadata it was described with (the GET handler reads
\* the file twice, with PUTs committing in between).
THEOREM GetBodyIsNotOlder == Labelers = {} => (Spec => []GetBodyNotOlder)
<1> SUFFICES ASSUME Labelers = {} PROVE Spec => []GetBodyNotOlder
  OBVIOUS
<1>1. Init => LockInv /\ BodyOrder
  BY BoundAssumption DEF Init, LockInv, BodyOrder, Committing, Procs, NoReq, NoMeta
<1>2. TypeInv /\ LockInv /\ BodyOrder /\ [Next]_vars => BodyOrder'
  BY BodyOrderStep
<1>3. TypeInv /\ BodyOrder => GetBodyNotOlder
  BY NoneAssumption DEF TypeInv, TypeOK, BodyOrder, GetBodyNotOlder, Procs
<1> QED
  BY <1>1, <1>2, <1>3, TypeInit, TypeStep, LockStep, PTL DEF Spec

-----------------------------------------------------------------------------
(* What a rebuild does for the keys no request changes meanwhile.          *)

\* A key no request has changed: while the files are scanned it is still to be
\* visited, or it has a file and is queued, just read, or indexed, or it has no
\* file and is in none of the task's sets; while the rows are removed its row is
\* right, or stale and about to go.
Repaired(k) == k \notin missed => index[k] = disk[k]
Scanned(k) ==
    IF k \in reb.walk \/ disk[k] = None
      THEN k \notin reb.files /\ reb.cur # k /\ k \notin reb.seen
      ELSE \/ k \in reb.files /\ reb.cur # k
           \/ reb.cur = k /\ reb.md = disk[k] /\ k \notin reb.files
           \/ k \in reb.seen /\ reb.cur # k /\ k \notin reb.files /\ Repaired(k)
Swept(k) == IF k \in reb.rows THEN disk[k] = None ELSE Repaired(k)

RebuildInv ==
    \A k \in Keys \ touched :
       /\ reb.state = "scan" => Scanned(k)
       /\ reb.state = "sweep" => Swept(k)
       /\ reb.state = "completed" => Repaired(k)

\* Every request marks the keys whose file or row it changes.
LEMMA RequestsTouch ==
  ASSUME TypeInv, [Next]_vars, ~RebuildStart, ~RebuildStep
  PROVE  /\ reb' = reb /\ touched \subseteq touched'
         /\ \A k \in Keys \ touched' : disk'[k] = disk[k] /\ index'[k] = index[k] /\ (k \in missed' <=> k \in missed)
<1> USE DEF TypeInv, TypeOK, RunningHasKey, Procs, Goto, Return, Touch, Upsert, Remove, IndexTx
<1> DEFINE Frame == /\ reb' = reb /\ touched \subseteq touched'
                    /\ \A k \in Keys \ touched' :
                          disk'[k] = disk[k] /\ index'[k] = index[k] /\ (k \in missed' <=> k \in missed)
<1>1. ASSUME NEW p \in Streamers, Stream(p) PROVE Frame
  BY <1>1 DEF Stream, StreamStat, StreamReadCreated, StreamLock
<1>2. ASSUME NEW p \in Streamers \cup Putters, Commit(p) PROVE Frame
  BY <1>2 DEF Commit, CommitStamp, CommitRename, CommitIndex, PutAbort
<1>3. ASSUME NEW p \in Putters, Put(p) PROVE Frame
  BY <1>3 DEF Put, PutLock, PutStat
<1>4. ASSUME NEW p \in Deleters, Delete(p) PROVE Frame
  BY <1>4 DEF Delete, DeleteCheck, DeleteUnlink, DeleteIndex
<1>5. ASSUME NEW p \in Labelers, SetLabels(p) PROVE Frame
  BY <1>5 DEF SetLabels, LabelsCheck, LabelsRead, LabelsRename, LabelsIndex
<1>6. ASSUME NEW p \in Deleters \cup Labelers, MutationFails(p) PROVE Frame
  BY <1>6 DEF MutationFails
<1>7. ASSUME NEW p \in Readers, Get(p) PROVE Frame
  BY <1>7 DEF Get, GetDescribe, GetBody
<1>8. CASE UNCHANGED vars
  BY <1>8 DEF vars
<1> QED
  BY <1>1, <1>2, <1>3, <1>4, <1>5, <1>6, <1>7, <1>8 DEF Next

LEMMA RebuildInvStep ==
  ASSUME TypeInv, RebuildInv, [Next]_vars PROVE RebuildInv'
<1> USE NoneAssumption DEF TypeInv, TypeOK
<1>1. CASE ~RebuildStart /\ ~RebuildStep
  BY <1>1, RequestsTouch DEF RebuildInv, Scanned, Swept, Repaired
<1>2. CASE RebuildStart
  <2>1. /\ reb'.state = "scan" /\ reb'.walk = Keys /\ reb'.files = {} /\ reb'.cur = None /\ reb'.seen = {}
    BY <1>2 DEF RebuildStart, NoRebuild
  <2> QED BY <1>2, <2>1 DEF RebuildInv, Scanned
<1>3. CASE RebuildCollect
  <2>1. PICK d \in reb.walk : reb' = [reb EXCEPT !.walk = @ \ {d}, !.files = IF disk[d] = None THEN @ ELSE @ \cup {d}]
    BY <1>3 DEF RebuildCollect
  <2>2. /\ reb'.state = "scan" /\ reb'.walk = reb.walk \ {d} /\ reb'.cur = reb.cur /\ reb'.seen = reb.seen /\ reb'.md = reb.md
        /\ reb'.files = IF disk[d] = None THEN reb.files ELSE reb.files \cup {d}
    BY <1>3, <2>1 DEF RebuildCollect, RebuildTask
  <2> QED BY <1>3, <2>2 DEF RebuildCollect, RebuildInv, Scanned, Repaired
<1>4. CASE RebuildRead
  <2>1. PICK d \in reb.files : reb' = [reb EXCEPT !.files = @ \ {d}, !.cur = IF disk[d] = None THEN None ELSE d,
                                                  !.md = IF disk[d] = None THEN @ ELSE disk[d]]
    BY <1>4 DEF RebuildRead
  <2>2. /\ reb'.state = "scan" /\ reb'.walk = {} /\ reb'.files = reb.files \ {d} /\ reb'.seen = reb.seen
        /\ reb'.cur = IF disk[d] = None THEN None ELSE d
        /\ reb'.md = IF disk[d] = None THEN reb.md ELSE disk[d]
    BY <1>4, <2>1 DEF RebuildRead, RebuildTask
  <2> QED BY <1>4, <2>2 DEF RebuildRead, RebuildInv, Scanned, Repaired
<1>5. CASE RebuildUpsert
  <2>1. /\ reb'.state = "scan" /\ reb'.walk = reb.walk /\ reb'.files = reb.files /\ reb'.cur = None
        /\ reb'.seen = reb.seen \cup {reb.cur} /\ reb.cur \in Keys
    BY <1>5 DEF RebuildUpsert, RebuildTask
  <2> QED BY <1>5, <2>1 DEF RebuildUpsert, Upsert, IndexTx, RebuildInv, Scanned, Repaired
<1>6. CASE RebuildListRows
  <2>1. /\ reb.state = "scan" /\ reb.walk = {} /\ reb.files = {} /\ reb.cur = None
        /\ reb'.state = "sweep" /\ reb'.rows = {k \in Keys : index[k] # None} \ reb.seen
    BY <1>6 DEF RebuildListRows, RebuildTask
  <2> QED BY <1>6, <2>1 DEF RebuildListRows, RebuildInv, Scanned, Swept, Repaired
<1>7. CASE RebuildRemove
  <2>1. PICK d \in reb.rows : Remove(d) /\ reb' = [reb EXCEPT !.rows = @ \ {d}]
    BY <1>7 DEF RebuildRemove
  <2>2. reb.state = "sweep" /\ reb'.state = "sweep" /\ reb'.rows = reb.rows \ {d} /\ d \in Keys
    BY <1>7, <2>1 DEF RebuildRemove, RebuildTask
  <2> QED BY <1>7, <2>1, <2>2 DEF RebuildRemove, Remove, IndexTx, RebuildInv, Swept, Repaired
<1>8. CASE RebuildDone
  <2>1. reb.state = "sweep" /\ reb.rows = {} /\ reb'.state = "completed"
    BY <1>8 DEF RebuildDone, NoRebuild
  <2> QED BY <1>8, <2>1 DEF RebuildDone, RebuildInv, Swept, Repaired
<1>9. CASE RebuildFails
  <2>1. reb'.state = "failed"
    BY <1>9 DEF RebuildFails, NoRebuild
  <2> QED BY <2>1 DEF RebuildInv
<1> QED
  BY <1>1, <1>2, <1>3, <1>4, <1>5, <1>6, <1>7, <1>8, <1>9 DEF RebuildStep

\* A completed rebuild has made the index right for every key that no request
\* changed since it was started, however its row had drifted before: run_rebuild
\* neither misses a file nor removes the row of one.
THEOREM RebuildIsRight == Spec => []RebuildRepairsUntouched
<1>1. Init => RebuildInv
  BY DEF Init, RebuildInv, NoRebuild
<1>2. RebuildInv => RebuildRepairsUntouched
  BY DEF RebuildInv, RebuildRepairsUntouched, Repaired
<1> QED
  BY <1>1, <1>2, TypeInit, TypeStep, RebuildInvStep, PTL DEF Spec

-----------------------------------------------------------------------------
(* The `created` stamp of a file that a buffered PUT replaces.             *)

\* From its stat to its rename a buffered PUT knows the stamp of the file that
\* is there, if one is: another PUT is locked out and a DELETE leaves none.
CreatedInv ==
    \A p \in Putters :
       LET k == req[p].key IN
       /\ pc[p] \in {"stream", "rename"} /\ disk[k] # None => req[p].over /\ req[p].prior = disk[k].created
       /\ pc[p] = "rename" /\ req[p].prior # None => req[p].md.created = req[p].prior

LEMMA PutStatFields ==
  ASSUME TypeInv, NEW p \in Putters, PutStat(p)
  PROVE  /\ req'[p].key = req[p].key /\ pc'[p] = "stream" /\ disk' = disk
         /\ disk[req[p].key] # None => req'[p].over /\ req'[p].prior = disk[req[p].key].created
<1> DEFINE k == req[p].key
           t == IF disk[k] = None THEN None ELSE disk[k].created
           b == disk[k] # None
           r == [req[p] EXCEPT !.over = b, !.prior = t]
<1>1. req[p] \in Request /\ b \in BOOLEAN /\ t \in Stamp \cup {None}
  BY DEF TypeInv, TypeOK, RunningHasKey, Procs, PutStat, Metadata
<1>2. req' = [req EXCEPT ![p] = r] /\ pc' = [pc EXCEPT ![p] = "stream"] /\ disk' = disk
  BY ZenonT(30) DEF PutStat, Goto
<1>3. req'[p] = r /\ pc'[p] = "stream"
  BY <1>2 DEF TypeInv, TypeOK, Procs
<1>4. r.key = req[p].key /\ r.over = b /\ r.prior = t
  <2> HIDE DEF k, t, b
  <2> QED BY ZenonT(30), <1>1 DEF Request
<1> HIDE DEF r
<1> QED BY <1>2, <1>3, <1>4

LEMMA CreatedStep ==
  ASSUME Labelers = {}, TypeInv, LockInv, CreatedInv, [Next]_vars PROVE CreatedInv'
<1> USE NoneAssumption DEF TypeInv, TypeOK, RunningHasKey, LockInv, CreatedInv, Committing, Procs, Goto, NotLocked
<1>1. ASSUME NEW p \in Streamers, Stream(p) PROVE CreatedInv'
  <2>1. p \notin Putters /\ disk' = disk
    BY <1>1, KindAssumption DEF Stream, StreamStat, StreamReadCreated, StreamLock
  <2>2. \A q \in Putters : pc'[q] = pc[q] /\ req'[q] = req[q]
    BY <1>1, <2>1 DEF Stream, StreamStat, StreamReadCreated, StreamLock, Return
  <2> QED BY <2>1, <2>2
<1>2. ASSUME NEW p \in Streamers \cup Putters, CommitStamp(p) PROVE CreatedInv'
  BY <1>2 DEF CommitStamp, Request
<1>3. ASSUME NEW p \in Streamers \cup Putters, CommitRename(p) PROVE CreatedInv'
  BY SMTT(20), Zenon, <1>3 DEF CommitRename
<1>4. ASSUME NEW p \in Streamers \cup Putters, CommitIndex(p) \/ PutAbort(p) PROVE CreatedInv'
  BY SMTT(20), Zenon, <1>4 DEF CommitIndex, PutAbort, Return
<1>5. ASSUME NEW p \in Putters, PutLock(p) PROVE CreatedInv'
  BY SMTT(20), Zenon, <1>5 DEF PutLock
<1>6. ASSUME NEW p \in Putters, PutStat(p) PROVE CreatedInv'
  <2>1. /\ req'[p].key = req[p].key /\ pc'[p] = "stream" /\ disk' = disk
        /\ disk[req[p].key] # None => req'[p].over /\ req'[p].prior = disk[req[p].key].created
    BY <1>6, PutStatFields
  <2>2. \A q \in Putters \ {p} : pc'[q] = pc[q] /\ req'[q] = req[q]
    BY <1>6 DEF PutStat
  <2> QED BY SMTT(20), Zenon, <2>1, <2>2
<1>7. ASSUME NEW p \in Deleters, Delete(p) \/ MutationFails(p) PROVE CreatedInv'
  BY SMTT(20), Zenon, <1>7 DEF Delete, DeleteCheck, DeleteUnlink, DeleteIndex, MutationFails, Return
<1>8. ASSUME NEW p \in Readers, Get(p) PROVE CreatedInv'
  BY <1>8 DEF Get, GetDescribe, GetBody, Return
<1>9. CASE RebuildStart \/ RebuildStep
  <2>1. UNCHANGED <<pc, req, disk>>
    BY ZenonT(30), <1>9 DEF RebuildStart, RebuildStep, RebuildCollect, RebuildRead, RebuildUpsert,
                RebuildListRows, RebuildRemove, RebuildDone, RebuildFails
  <2> QED BY <2>1
<1>10. CASE UNCHANGED vars
  BY <1>10 DEF vars
<1> QED
  BY <1>1, <1>2, <1>3, <1>4, <1>5, <1>6, <1>7, <1>8, <1>9, <1>10 DEF Next, Commit, Put

\* Where no set_labels runs, a buffered PUT that replaces a file keeps its
\* `created` stamp and reports that it replaced one, whatever PUTs, DELETEs and
\* rebuilds do between its stat and its rename (Storage::put).
THEOREM PutKeepsCreatedStamp == Labelers = {} => (Spec => PutKeepsCreated)
<1> SUFFICES ASSUME Labelers = {} PROVE Spec => PutKeepsCreated
  OBVIOUS
<1> DEFINE Kept == \A p \in Putters :
                      LET k == req[p].key IN
                      (pc[p] = "rename" /\ pc'[p] = "upsert" /\ disk[k] # None)
                          => /\ disk'[k].created = disk[k].created
                             /\ req[p].over
<1>1. Init => LockInv /\ CreatedInv
  BY DEF Init, LockInv, CreatedInv, Committing, Procs
<1>2. TypeInv /\ LockInv /\ CreatedInv /\ [Next]_vars => CreatedInv'
  BY CreatedStep
<1>3. TypeInv /\ LockInv /\ CreatedInv /\ [Next]_vars => [Kept]_vars
  <2> SUFFICES ASSUME TypeInv, LockInv, CreatedInv, Next,
                      NEW p \in Putters, pc[p] = "rename", pc'[p] = "upsert", disk[req[p].key] # None
               PROVE  disk'[req[p].key].created = disk[req[p].key].created /\ req[p].over
    OBVIOUS
  <2> USE DEF TypeInv, TypeOK, Procs, Goto, Return
  <2>1. ASSUME NEW q \in Streamers, Stream(q) PROVE FALSE
    BY <2>1 DEF Stream, StreamStat, StreamReadCreated, StreamLock
  <2>2. ASSUME NEW q \in Streamers \cup Putters, CommitStamp(q) \/ CommitIndex(q) \/ PutAbort(q) PROVE FALSE
    BY <2>2 DEF CommitStamp, CommitIndex, PutAbort
  <2>3. ASSUME NEW q \in Putters, Put(q) PROVE FALSE
    BY <2>3 DEF Put, PutLock, PutStat
  <2>4. ASSUME NEW q \in Deleters, Delete(q) \/ MutationFails(q) PROVE FALSE
    BY <2>4 DEF Delete, DeleteCheck, DeleteUnlink, DeleteIndex, MutationFails
  <2>5. ASSUME NEW q \in Readers, Get(q) PROVE FALSE
    BY <2>5 DEF Get, GetDescribe, GetBody
  <2>6. ASSUME RebuildStart \/ RebuildStep PROVE FALSE
    <3>1. UNCHANGED pc
      BY ZenonT(30), <2>6 DEF RebuildStart, RebuildStep, RebuildCollect, RebuildRead, RebuildUpsert,
                  RebuildListRows, RebuildRemove, RebuildDone, RebuildFails
    <3> QED BY <3>1
  <2>7. PICK q \in Streamers \cup Putters : CommitRename(q)
    BY <2>1, <2>2, <2>3, <2>4, <2>5, <2>6 DEF Next, Commit
  <2>8. q = p
    BY <2>7 DEF CommitRename
  <2>9. disk'[req[p].key] = req[p].md
    BY <2>7, <2>8 DEF CommitRename, RunningHasKey
  <2>10. req[p].key \in Keys /\ disk[req[p].key].created # None
    BY NoneAssumption DEF RunningHasKey, Metadata, Stamp
  <2> QED
    BY <2>9, <2>10 DEF CreatedInv
<1> QED
  BY <1>1, <1>2, <1>3, TypeInit, TypeStep, LockStep, PTL DEF Spec, PutKeepsCreated
=============================================================================
