-------------------------- MODULE BucketKeysProofs --------------------------
(***************************************************************************)
(* Proofs about the keys of a bucket, for any number of users, personas,   *)
(* objects, epochs and requests.                                           *)
(*                                                                         *)
(* OneJobRuns: a job that runs has marked the registry, and only it takes  *)
(* the mark away.  KeysServeAlone, while one administrative request at a   *)
(* time changes the bucket, or rekeys do: the key pair of epoch e is the   *)
(* e + 1st that was generated, wherever a key is held, so an epoch names   *)
(* its key; the copy of the configuration that is about to be written      *)
(* keeps every epoch of the stored one; and what a rekey still has to move *)
(* includes every object older than the key it moves to, so that what its  *)
(* prune drops serves nothing.                                             *)
(***************************************************************************)
EXTENDS BucketKeys, TLAPS

\* Keys are changed by one administrative request at a time, or by rekeys, and the
\* bucket is not deleted.
Alone ==
    /\ Rekeyers = {} \/ Admins = {}
    /\ \A a, b \in Admins : a = b
    /\ Ops \subseteq {"rotate", "acl", "share", "config"}

KeyVersions == [epoch : Nat, kp : Nat, real : SUBSET Personas]
FitKeys == {k \in Nat \X Nat : k[2] = k[1] + 1}
ConfFields == {"owner", "acl", "gen", "quota", "keys"}
ReqFields == {"pc", "who", "mine", "obj", "key", "src", "op", "gen", "slot", "edit", "held", "todo", "own"}

KeysOK(ks) ==
    /\ ks \in Seq(KeyVersions) /\ ks # <<>>
    /\ \A i \in 1..Len(ks) : ks[i].kp = ks[i].epoch + 1
    /\ \A i, j \in 1..Len(ks) : i < j => ks[i].epoch < ks[j].epoch

UsersOf(real) == {x[1] : x \in real}

ConfOK(c) ==
    /\ DOMAIN c = ConfFields
    /\ KeysOK(c.keys)
    /\ c.owner \in Users /\ c.acl \in [Users -> Levels \cup {None}] /\ c.acl[c.owner] = None
    /\ UsersOf(Newest(c).real) = ReadImplying(c.acl) \cup {c.owner}

Has(c, e) == \E i \in 1..Len(c.keys) : c.keys[i].epoch = e
Keeps(c, d) == \A i \in 1..Len(c.keys) : Has(d, c.keys[i].epoch)

ObjOK(o, c) == o # None => o.epoch \in Nat /\ o.kp = o.epoch + 1 /\ Has(c, o.epoch)

ShapeOK(r) ==
    /\ DOMAIN r = ReqFields
    /\ r.own = None \/ r.own \subseteq FitKeys

WriterOK(r, c) ==
    /\ r.pc \in {"idle", "config", "lock", "commit"}
    /\ r.pc \in {"lock", "commit"} =>
          r.key \in FitKeys /\ Has(c, r.key[1]) /\ (Admins = {} => r.key[1] = Newest(c).epoch)

ReaderOK(r) ==
    /\ r.pc \in {"idle", "getconf", "describe", "serve"}
    /\ r.pc # "idle" => r.who \in Personas /\ r.obj \in Objects
    /\ r.pc = "describe" => KeysOK(r.mine.keys)
    /\ r.pc = "serve" => r.key[2] = r.src

\* A share names the slot it is for until its sessions are ended.
NamesSlot(r) == r.pc \in {"seal", "revoke"} \/ r.edit # "share" => r.slot \in Slots

AdminOK(r, c, n) ==
    /\ r.pc \in {"idle", "rotate", "acl", "share", "config", "seal", "revoke", "write"}
    /\ r.pc # "idle" => r.who \in Personas
    /\ r.pc = "seal" => r.mine = c
    /\ NamesSlot(r)
    /\ r.pc = "write" => ConfOK(r.mine) /\ Keeps(c, r.mine) /\ n = Newest(r.mine).epoch + 1

Moving == {"next", "klock", "kcommit"}
RekeyerOK(r, c, os) ==
    /\ r.pc \in {"idle", "start", "try", "job", "collect", "prune"} \cup Moving
    /\ r.pc \in {"collect", "prune"} \cup Moving => r.key \in FitKeys /\ r.key[1] = Newest(c).epoch
    /\ r.pc \in Moving =>
          \A o \in Objects : os[o] # None /\ os[o].epoch < r.key[1] =>
              (\E t \in r.todo : t[1] = o) \/ (r.pc # "next" /\ o = r.obj)
    /\ r.pc = "prune" =>
          /\ ConfOK(r.mine) /\ Newest(r.mine) = Newest(c)
          /\ \A o \in Objects : os[o] # None => os[o].epoch = r.key[1]

Shape ==
    /\ exists = TRUE
    /\ req = [p \in Procs |-> req[p]] /\ \A p \in Procs : ShapeOK(req[p])
    /\ objs = [o \in Objects |-> objs[o]]
    /\ cache \in [Personas -> SUBSET FitKeys]
    /\ used \in Nat

AloneInv ==
    /\ Shape
    /\ ConfOK(conf)
    /\ \A o \in Objects : ObjOK(objs[o], conf)
    /\ \A p \in Writers : WriterOK(req[p], conf)
    /\ \A p \in Readers : ReaderOK(req[p])
    /\ \A p \in Admins : AdminOK(req[p], conf, used)
    /\ \A p \in Rekeyers : RekeyerOK(req[p], conf, objs)
    /\ (\A p \in Admins : req[p].pc # "write") => used = Newest(conf).epoch + 1

JobInv ==
    /\ req = [p \in Procs |-> req[p]] /\ \A p \in Procs : "pc" \in DOMAIN req[p]
    /\ \A p \in Rekeyers : JobRunning(p) => job = "running"
    /\ OneJob

-----------------------------------------------------------------------------
(* One rekey job at a time.                                                *)

LEMMA Stepped ==
    ASSUME NEW p \in Procs, NEW r, req = [q \in Procs |-> req[q]], Step(p, r)
    PROVE  /\ req' = [q \in Procs |-> req'[q]]
           /\ req'[p] = r /\ \A q \in Procs : q # p => req'[q] = req[q]
BY DEF Step

LEMMA NoReqPc == "pc" \in DOMAIN NoReq /\ NoReq.pc = "idle"
BY DEF NoReq

\* A request that is no rekey changes its own entry, or the sessions of others.
LEMMA JobFrame ==
    ASSUME JobInv, NEW p \in Procs \ Rekeyers, NEW r, "pc" \in DOMAIN r, job' = job,
           Step(p, r) \/ \E W : EndSessions(W, p, r)
    PROVE  JobInv'
<1>1. /\ req' = [q \in Procs |-> req'[q]]
      /\ \A q \in Procs : q # p => "pc" \in DOMAIN req'[q] /\ req'[q].pc = req[q].pc
      /\ "pc" \in DOMAIN req'[p]
  <2>1. CASE Step(p, r)
    BY <2>1, Stepped DEF JobInv
  <2>2. ASSUME NEW W, EndSessions(W, p, r)
        PROVE  /\ req' = [q \in Procs |-> req'[q]]
               /\ \A q \in Procs : q # p => "pc" \in DOMAIN req'[q] /\ req'[q].pc = req[q].pc
               /\ "pc" \in DOMAIN req'[p]
    <3>1. \A q \in Procs : q # p => req'[q] = req[q] \/ req'[q] = [req[q] EXCEPT !.own = cache[req[q].who]]
      BY <2>2 DEF EndSessions
    <3>2. req'[p] = r /\ req' = [q \in Procs |-> req'[q]]
      BY <2>2 DEF EndSessions
    <3>3. \A q \in Procs : "pc" \in DOMAIN req[q]
      BY DEF JobInv
    <3> QED
      BY <3>1, <3>2, <3>3
  <2> QED
    BY <2>1, <2>2
<1>2. \A q \in Rekeyers : JobRunning(q)' <=> JobRunning(q)
    BY <1>1 DEF JobRunning, Procs
<1> QED
    BY <1>1, <1>2 DEF JobInv, OneJob

Moves(p) == \E r : "pc" \in DOMAIN r /\ Step(p, r)

LEMMA ReturnMoves == ASSUME NEW p, Return(p) PROVE Moves(p)
BY NoReqPc DEF Moves, Return

LEMMA GotoMoves == ASSUME NEW p, NEW to, "pc" \in DOMAIN req[p], Goto(p, to) PROVE Moves(p)
BY DEF Moves, Goto

LEMMA WriteKeyMoves == ASSUME NEW p, "pc" \in DOMAIN req[p], ResolveWriteKey(p) PROVE Moves(p)
<1>1. CASE Return(p)
    BY <1>1, ReturnMoves
<1> DEFINE r == [req[p] EXCEPT !.pc = "lock", !.key = KeyOf(Newest(conf))]
<1>2. CASE Step(p, r)
  <2>1. "pc" \in DOMAIN r
    OBVIOUS
  <2> HIDE DEF r
  <2> QED
    BY <1>2, <2>1 DEF Moves
<1> QED
    BY <1>1, <1>2 DEF ResolveWriteKey

LEMMA PutMoves ==
    ASSUME NEW p, "pc" \in DOMAIN req[p], Put(p)
    PROVE  Moves(p) /\ job' = job
<1>1. CASE PutAuthorize(p)
  <2>1. PICK w \in Personas, o \in Objects :
            Step(p, [NoReq EXCEPT !.pc = IF conf.owner = None /\ ~exists THEN "check" ELSE "config",
                                  !.who = w, !.obj = o])
    BY <1>1, Zenon DEF PutAuthorize
  <2>2. "pc" \in DOMAIN [NoReq EXCEPT !.pc = IF conf.owner = None /\ ~exists THEN "check" ELSE "config",
                                      !.who = w, !.obj = o]
    BY NoReqPc
  <2> QED
    BY <1>1, <2>1, <2>2, Zenon DEF Moves, PutAuthorize
<1>2. CASE ClaimCheck(p) \/ ClaimMkdir(p)
    BY <1>2, GotoMoves DEF ClaimCheck, ClaimMkdir
<1>3. CASE ClaimRead(p)
  <2>1. CASE ResolveWriteKey(p)
    BY <1>3, <2>1, WriteKeyMoves DEF ClaimRead
  <2>2. CASE Step(p, [req[p] EXCEPT !.pc = "seed", !.mine = conf])
    BY <1>3, <2>2, Zenon DEF ClaimRead, Moves
  <2> QED
    BY <1>3, <2>1, <2>2 DEF ClaimRead
<1>4. CASE ClaimSeed(p)
    BY <1>4, GotoMoves DEF ClaimSeed
<1>5. CASE PutConfig(p)
    BY <1>5, WriteKeyMoves DEF PutConfig
<1>6. CASE PutLock(p)
    BY <1>6, GotoMoves, ReturnMoves DEF PutLock
<1>7. CASE PutCommit(p) \/ PutAbort(p)
    BY <1>7, ReturnMoves DEF PutCommit, PutAbort
<1> QED
    BY <1>1, <1>2, <1>3, <1>4, <1>5, <1>6, <1>7 DEF Put

LEMMA GetMoves ==
    ASSUME NEW p, "pc" \in DOMAIN req[p], Get(p)
    PROVE  Moves(p) /\ job' = job
<1>1. CASE GetAuthorize(p)
  <2>1. PICK w \in Personas, o \in Objects : Step(p, [NoReq EXCEPT !.pc = "getconf", !.who = w, !.obj = o])
    BY <1>1, Zenon DEF GetAuthorize
  <2>2. "pc" \in DOMAIN [NoReq EXCEPT !.pc = "getconf", !.who = w, !.obj = o]
    BY NoReqPc
  <2> QED
    BY <1>1, <2>1, <2>2, Zenon DEF Moves, GetAuthorize
<1>2. CASE GetConfig(p)
    BY <1>2, Zenon DEF GetConfig, Moves
<1>3. CASE GetDescribe(p)
  <2>1. CASE Return(p)
    BY <1>3, <2>1, ReturnMoves, Zenon DEF GetDescribe
  <2>2. ASSUME NEW k, Step(p, [req[p] EXCEPT !.pc = "serve", !.key = k, !.src = objs[req[p].obj].kp])
        PROVE  Moves(p)
    BY <2>2, Zenon DEF Moves
  <2> QED
    BY <1>3, <2>1, <2>2, Zenon DEF GetDescribe
<1>4. CASE GetDone(p)
    BY <1>4, ReturnMoves DEF GetDone
<1> QED
    BY <1>1, <1>2, <1>3, <1>4 DEF Get

LEMMA AdminMoves ==
    ASSUME NEW p, "pc" \in DOMAIN req[p], Admin(p)
    PROVE  job' = job /\ (Moves(p) \/ \E W, r : "pc" \in DOMAIN r /\ EndSessions(W, p, r))
<1>0. ASSUME NEW c, Prepare(p, c) PROVE Moves(p)
    BY <1>0, Zenon DEF Moves, Prepare, Prepared
<1>1. CASE AdminAuthorize(p)
  <2>1. PICK op \in Ops, w \in Personas :
            Step(p, [NoReq EXCEPT !.pc = op, !.op = op, !.who = w, !.gen = IF op = "acl" THEN conf.gen ELSE 0])
    BY <1>1, Zenon DEF AdminAuthorize
  <2>2. "pc" \in DOMAIN [NoReq EXCEPT !.pc = op, !.op = op, !.who = w, !.gen = IF op = "acl" THEN conf.gen ELSE 0]
    BY NoReqPc
  <2> QED
    BY <1>1, <2>1, <2>2, Zenon DEF Moves, AdminAuthorize
<1>2. CASE Rotate(p)
    BY <1>0, <1>2, ReturnMoves DEF Rotate
<1>3. CASE SetAcl(p)
  <2>1. job' = job /\ (Return(p) \/ (\E c : Prepare(p, c)) \/ \E W, c : EndSessions(W, p, Prepared(p, c)))
    BY <1>3, Zenon DEF SetAcl
  <2>2. \A c : "pc" \in DOMAIN Prepared(p, c)
    BY DEF Prepared
  <2> QED
    BY <1>0, <2>1, <2>2, ReturnMoves
<1>4. CASE ShareRead(p)
  <2>1. PICK s \in Slots \ {req[p].who[2]}, edit \in {"share", "withdraw"} :
            Step(p, [req[p] EXCEPT !.pc = "seal", !.mine = conf, !.slot = s, !.edit = edit])
    BY <1>4, Zenon DEF ShareRead
  <2> QED
    BY <1>4, <2>1, Zenon DEF ShareRead, Moves
<1>5. AfterShare(p) => Moves(p)
    BY ReturnMoves, GotoMoves DEF AfterShare
<1>6. CASE ShareSeal(p)
    BY <1>0, <1>5, <1>6 DEF ShareSeal
<1>7. CASE ShareRevoke(p)
    BY <1>7, NoReqPc DEF ShareRevoke
<1>8. CASE SetConfig(p)
    BY <1>0, <1>8 DEF SetConfig
<1>9. CASE WriteConfig(p)
    BY <1>5, <1>9 DEF WriteConfig
<1>10. CASE DeleteBucket(p)
    BY <1>10, ReturnMoves DEF DeleteBucket
<1> QED
    BY <1>1, <1>2, <1>3, <1>4, <1>6, <1>7, <1>8, <1>9, <1>10 DEF Admin

\* A step of a rekey: the job goes on, begins when none runs, or ends.
LEMMA RekeyJob ==
    ASSUME JobInv, NEW p \in Rekeyers, Rekey(p)
    PROVE  JobInv'
<1>1. p \in Procs /\ "pc" \in DOMAIN req[p] /\ req = [q \in Procs |-> req[q]]
    BY DEF JobInv, Procs
<1>2. ASSUME NEW r, Step(p, r), "pc" \in DOMAIN r,
             \/ job' = job /\ (r.pc = "idle" \/ r.pc \in {"start", "try"} \/ JobRunning(p))
             \/ job # "running" /\ job' = "running"
             \/ JobRunning(p) /\ r.pc = "idle"
      PROVE  JobInv'
  <2>1. /\ req' = [q \in Procs |-> req'[q]]
        /\ req'[p] = r /\ \A q \in Procs : q # p => req'[q] = req[q]
    BY <1>1, <1>2, Stepped
  <2>2. \A q \in Rekeyers : q # p => (JobRunning(q)' <=> JobRunning(q))
    BY <2>1 DEF JobRunning, Procs
  <2>3. JobRunning(p)' => r.pc \notin {"idle", "start", "try"}
    BY <2>1 DEF JobRunning
  <2>4. \A q \in Procs : "pc" \in DOMAIN req'[q]
    BY <1>2, <2>1 DEF JobInv
  <2>5. \A q \in Rekeyers : JobRunning(q) => job = "running"
    BY DEF JobInv
  <2>6. \A q, s \in Rekeyers : JobRunning(q) /\ JobRunning(s) => q = s
    BY DEF JobInv, OneJob
  <2>7. \A q \in Rekeyers : JobRunning(q)' => job' = "running"
    BY <1>2, <2>2, <2>3, <2>5, <2>6
  <2>8. \A q, s \in Rekeyers : JobRunning(q)' /\ JobRunning(s)' => q = s
    BY <1>2, <2>2, <2>3, <2>5, <2>6
  <2> QED
    BY <2>1, <2>4, <2>7, <2>8 DEF JobInv, OneJob
<1>3. ASSUME Return(p), job' = job \/ JobRunning(p) \/ (job # "running" /\ job' = "running") PROVE JobInv'
    BY <1>2, <1>3, NoReqPc DEF Return
<1>4. ASSUME NEW to, Goto(p, to), job' = job, JobRunning(p) PROVE JobInv'
    BY <1>1, <1>2, <1>4 DEF Goto
<1>5. CASE RekeyAuthorize(p)
  <2>1. PICK w \in Personas : Step(p, [NoReq EXCEPT !.pc = "start", !.who = w])
    BY <1>5, Zenon DEF RekeyAuthorize
  <2> DEFINE r == [NoReq EXCEPT !.pc = "start", !.who = w]
  <2>2. "pc" \in DOMAIN r /\ r.pc = "start"
    BY NoReqPc
  <2> HIDE DEF r
  <2> QED
    BY <1>2, <1>5, <2>1, <2>2, Zenon DEF RekeyAuthorize, r
<1>6. CASE RekeyRead(p)
  <2>1. CASE Return(p)
    BY <1>3, <1>6, <2>1 DEF RekeyRead
  <2>2. CASE Step(p, [req[p] EXCEPT !.pc = "try", !.mine = conf])
    BY <1>1, <1>2, <1>6, <2>2, Zenon DEF RekeyRead
  <2> QED
    BY <1>6, <2>1, <2>2 DEF RekeyRead
<1>7. CASE RekeyStart(p)
  <2>1. CASE Return(p)
    BY <1>3, <1>7, <2>1 DEF RekeyStart, Spawn
  <2>2. CASE ~Return(p)
    <3> DEFINE r == [req[p] EXCEPT !.pc = "job", !.mine = NoConfig,
                        !.held = {KeyOf(req[p].mine.keys[i]) : i \in Older(req[p].mine)}]
    <3>1. Step(p, r) /\ job # "running" /\ job' = "running"
      BY <1>7, <2>2 DEF RekeyStart, Spawn
    <3>2. "pc" \in DOMAIN r
      BY <1>1
    <3> HIDE DEF r
    <3> QED
      BY <1>2, <3>1, <3>2
  <2> QED
    BY <2>1, <2>2
<1>8. CASE RekeyNewest(p)
  <2>0. JobRunning(p)
    BY <1>8 DEF RekeyNewest, JobRunning
  <2>1. CASE Return(p)
    BY <1>3, <2>0, <2>1
  <2>2. CASE Step(p, [req[p] EXCEPT !.pc = "collect", !.key = KeyOf(Newest(conf))]) /\ job' = job
    BY <1>1, <1>2, <2>0, <2>2, Zenon
  <2> QED
    BY <1>8, <2>1, <2>2 DEF RekeyNewest, JobEnds
<1>9. CASE RekeyCollect(p)
  <2>0. JobRunning(p)
    BY <1>9 DEF RekeyCollect, JobRunning
  <2> QED
    BY <1>1, <1>2, <1>9, <2>0, Zenon DEF RekeyCollect
<1>10. CASE RekeyFetch(p)
  <2>0. JobRunning(p)
    BY <1>10 DEF RekeyFetch, JobRunning
  <2>1. CASE Return(p)
    BY <1>3, <2>0, <2>1
  <2>2. ASSUME NEW t, Step(p, [req[p] EXCEPT !.pc = "klock", !.obj = t[1], !.src = objs[t[1]].ver, !.todo = @ \ {t}]),
               job' = job
        PROVE  JobInv'
    BY <1>1, <1>2, <2>0, <2>2, Zenon
  <2> QED
    BY <1>10, <2>1, <2>2, Zenon DEF RekeyFetch, JobEnds
<1>11. CASE RekeyLock(p)
  <2>0. JobRunning(p)
    BY <1>11 DEF RekeyLock, JobRunning
  <2> QED
    BY <1>3, <1>4, <1>11, <2>0 DEF RekeyLock, JobEnds
<1>12. CASE RekeyCommit(p)
  <2>0. JobRunning(p)
    BY <1>12 DEF RekeyCommit, JobRunning
  <2> QED
    BY <1>3, <1>4, <1>12, <2>0 DEF RekeyCommit, JobEnds
<1>13. CASE RekeyFails(p)
  <2>0. JobRunning(p)
    BY <1>13 DEF RekeyFails, JobRunning
  <2> QED
    BY <1>3, <1>13, <2>0 DEF RekeyFails, JobEnds
<1>14. CASE RekeyPruneRead(p)
  <2>0. JobRunning(p)
    BY <1>14 DEF RekeyPruneRead, JobRunning
  <2> DEFINE r == [req[p] EXCEPT !.pc = "prune", !.mine = [conf EXCEPT !.keys = Retain(@, req[p].key[1])]]
  <2>1. "pc" \in DOMAIN r
    BY <1>1
  <2>2. Step(p, r) /\ job' = job
    BY <1>14 DEF RekeyPruneRead
  <2> HIDE DEF r
  <2> QED
    BY <1>2, <2>0, <2>1, <2>2
<1>15. CASE RekeyPruneWrite(p)
  <2>0. JobRunning(p)
    BY <1>15 DEF RekeyPruneWrite, JobRunning
  <2> QED
    BY <1>3, <1>15, <2>0 DEF RekeyPruneWrite, JobEnds
<1> QED
    BY <1>5, <1>6, <1>7, <1>8, <1>9, <1>10, <1>11, <1>12, <1>13, <1>14, <1>15 DEF Rekey

\* At most one rekey job of a bucket runs, for any number of requests of every
\* kind (RekeyRegistry::try_start, finish).
THEOREM OneJobRuns == Spec => []OneJob
<1>1. Init => JobInv
  <2> SUFFICES ASSUME Init PROVE JobInv
    OBVIOUS
  <2>1. req = [p \in Procs |-> NoReq]
    BY DEF Init
  <2>2. \A p \in Procs : req[p] = NoReq
    BY <2>1
  <2>3. \A p \in Rekeyers : ~JobRunning(p)
    BY <2>2, NoReqPc DEF JobRunning, Procs
  <2> QED
    BY <2>1, <2>2, <2>3, NoReqPc DEF JobInv, OneJob
<1>2. JobInv /\ [Next]_vars => JobInv'
  <2> SUFFICES ASSUME JobInv, [Next]_vars PROVE JobInv'
    OBVIOUS
  <2>1. \A p \in Procs : "pc" \in DOMAIN req[p]
    BY DEF JobInv
  <2>2. ASSUME NEW p \in Writers, Put(p) PROVE JobInv'
    <3>1. p \in Procs \ Rekeyers
      BY DisjointAssumption DEF Procs
    <3> QED
      BY <2>1, <2>2, <3>1, PutMoves, JobFrame DEF Moves
  <2>3. ASSUME NEW p \in Readers, Get(p) PROVE JobInv'
    <3>1. p \in Procs \ Rekeyers
      BY DisjointAssumption DEF Procs
    <3> QED
      BY <2>1, <2>3, <3>1, GetMoves, JobFrame DEF Moves
  <2>4. ASSUME NEW p \in Admins, Admin(p) PROVE JobInv'
    <3>1. p \in Procs \ Rekeyers
      BY DisjointAssumption DEF Procs
    <3> QED
      BY <2>1, <2>4, <3>1, AdminMoves, JobFrame DEF Moves
  <2>5. CASE UNCHANGED vars
    BY <2>5 DEF vars, JobInv, OneJob, JobRunning
  <2> QED
    BY <2>2, <2>3, <2>4, <2>5, RekeyJob DEF Next
<1>3. JobInv => OneJob
    BY DEF JobInv
<1> QED
    BY <1>1, <1>2, <1>3, PTL DEF Spec

-----------------------------------------------------------------------------
(* What the key lists of a configuration promise.                          *)

LEMMA NewestLast ==
    ASSUME NEW c, KeysOK(c.keys)
    PROVE  /\ Len(c.keys) \in 1..Len(c.keys) /\ Newest(c) = c.keys[Len(c.keys)]
           /\ Newest(c) \in KeyVersions /\ Newest(c).kp = Newest(c).epoch + 1
           /\ Has(c, Newest(c).epoch)
           /\ \A i \in 1..Len(c.keys) : c.keys[i].epoch <= Newest(c).epoch
           /\ \A i \in 1..Len(c.keys) : c.keys[i].epoch = Newest(c).epoch => i = Len(c.keys)
<1>1. Len(c.keys) \in 1..Len(c.keys) /\ \A i \in 1..Len(c.keys) : c.keys[i] \in KeyVersions
    BY DEF KeysOK
<1>2. Newest(c) = c.keys[Len(c.keys)]
    BY DEF Newest
<1>3. \A i \in 1..Len(c.keys) : c.keys[i].epoch \in Nat
    BY <1>1 DEF KeyVersions
<1>4. \A i \in 1..Len(c.keys) : i # Len(c.keys) => c.keys[i].epoch < Newest(c).epoch
    BY <1>1, <1>2 DEF KeysOK
<1>5. Newest(c) \in KeyVersions /\ Newest(c).kp = Newest(c).epoch + 1 /\ Has(c, Newest(c).epoch)
    BY <1>1, <1>2 DEF KeysOK, Has
<1> QED
    BY <1>1, <1>2, <1>3, <1>4, <1>5

LEMMA KeyFits ==
    ASSUME NEW c, KeysOK(c.keys), NEW i \in 1..Len(c.keys)
    PROVE  KeyOf(c.keys[i]) \in FitKeys /\ KeyOf(c.keys[i])[1] = c.keys[i].epoch
<1>1. c.keys[i] \in KeyVersions /\ c.keys[i].kp = c.keys[i].epoch + 1
    BY DEF KeysOK
<1> QED
    BY <1>1 DEF KeyVersions, KeyOf, FitKeys

LEMMA NewestFits ==
    ASSUME NEW c, KeysOK(c.keys)
    PROVE  KeyOf(Newest(c)) \in FitKeys /\ KeyOf(Newest(c))[1] = Newest(c).epoch
BY NewestLast, KeyFits

\* A key that resolves is of the epoch asked for, and the one that epoch has.
LEMMA ResolveFits ==
    ASSUME NEW seen, seen \subseteq FitKeys, NEW c, KeysOK(c.keys), NEW w, NEW e,
           NEW k \in ResolveReadKey(seen, c, w, e)
    PROVE  k \in FitKeys /\ k[1] = e
<1>1. CASE k \in seen /\ k[1] = e
    BY <1>1
<1>2. CASE \E i \in 1..Len(c.keys) : c.keys[i].epoch = e /\ k = KeyOf(c.keys[i])
    BY <1>2, KeyFits
<1> QED
    BY <1>1, <1>2 DEF ResolveReadKey

LEMMA SeenFits ==
    ASSUME NEW seen, seen \subseteq FitKeys, NEW c, KeysOK(c.keys), NEW w
    PROVE  CacheSeen(seen, c, w) \subseteq FitKeys
BY ResolveFits DEF CacheSeen

LEMMA CacheKept ==
    ASSUME Shape, NEW w \in Personas, NEW ks, ks \subseteq FitKeys, cache' = [cache EXCEPT ![w] = ks]
    PROVE  cache' \in [Personas -> SUBSET FitKeys]
BY DEF Shape

LEMMA Remembered ==
    ASSUME Shape, KeysOK(conf.keys), NEW w \in Personas, Remember(w)
    PROVE  cache' \in [Personas -> SUBSET FitKeys]
<1>1. cache[w] \subseteq FitKeys
    BY DEF Shape
<1>2. CacheSeen(cache[w], conf, w) \subseteq FitKeys
    BY <1>1, SeenFits
<1>3. cache' = [cache EXCEPT ![w] = CacheSeen(cache[w], conf, w)]
    BY DEF Remember
<1> QED
    BY <1>2, <1>3, CacheKept, Zenon

\* Cardinality, from its definition: the library's theorems would double the time
\* these proofs take.
LEMMA OneElement == ASSUME NEW x PROVE Cardinality({x}) = 1
<1> DEFINE F(g) == [T \in SUBSET {x} |-> IF T = {} THEN 0 ELSE 1 + g[T \ {CHOOSE y : y \in T}]]
           f == [T \in SUBSET {x} |-> IF T = {} THEN 0 ELSE 1]
           c == CHOOSE g : g = F(g)
<1>1. (\A T \in SUBSET {x} : T = {} \/ T = {x}) /\ (CHOOSE y : y \in {x}) = x
    OBVIOUS
<1>2. f = F(f)
  <2>1. \A T \in SUBSET {x} : T # {} => T \ {CHOOSE y : y \in T} = {}
    BY <1>1
  <2> QED
    BY <2>1
<1>3. c = F(c)
    BY <1>2, Zenon
<1>4. Cardinality({x}) = c[{x}]
    BY DEF Cardinality
<1> HIDE DEF c
<1>5. c[{}] = 0 /\ c[{x}] = 1 + c[{x} \ {CHOOSE y : y \in {x}}]
    BY <1>3
<1>6. {x} \ {CHOOSE y : y \in {x}} = {}
    BY <1>1
<1> QED
    BY <1>4, <1>5, <1>6

\* Vec::retain of the newest epoch leaves the newest key alone.
LEMMA RetainNewest ==
    ASSUME NEW c, KeysOK(c.keys)
    PROVE  Retain(c.keys, Newest(c).epoch) = <<Newest(c)>>
<1> DEFINE n == Len(c.keys)
           kept == {i \in 1..n : c.keys[i].epoch = Newest(c).epoch}
<1>1. n \in 1..n /\ n \in Nat /\ kept = {n}
    BY NewestLast
<1>2. Cardinality(kept) = 1
    BY <1>1, OneElement, Zenon
<1>3. \A i \in kept : {j \in kept : j <= i} = {n}
    BY <1>1
<1>4. \A i \in kept : Cardinality({j \in kept : j <= i}) = 1
    BY <1>3, OneElement, Zenon
<1>5. (CHOOSE i \in kept : Cardinality({j \in kept : j <= i}) = 1) = n
    BY <1>1, <1>4
<1>6. Retain(c.keys, Newest(c).epoch)
        = [m \in 1..Cardinality(kept) |-> c.keys[CHOOSE i \in kept : Cardinality({j \in kept : j <= i}) = m]]
    BY DEF Retain
<1>7. Newest(c) = c.keys[n]
    BY DEF Newest
<1>8. 1..1 = {1}
    OBVIOUS
<1>9. \A m \in 1..1 : c.keys[CHOOSE i \in kept : Cardinality({j \in kept : j <= i}) = m] = c.keys[n]
    BY <1>5, <1>8, Zenon
<1>10. Retain(c.keys, Newest(c).epoch) = [m \in 1..1 |-> c.keys[n]]
    BY <1>2, <1>6, <1>9, Zenon
<1> HIDE DEF n, kept
<1> QED
    BY <1>7, <1>10

-----------------------------------------------------------------------------
(* The configurations that requests prepare.                               *)

LEMMA UsersSubset ==
    ASSUME NEW a, NEW b
    PROVE  UsersOf(a \cup b) = UsersOf(a) \cup UsersOf(b)
BY DEF UsersOf

\* A row replaced as a whole: its user is in if a slot is.
LEMMA PutUsers ==
    ASSUME NEW real, NEW u, NEW slots
    PROVE  UsersOf(PutGrantSlot(real, u, slots)) = (UsersOf(real) \ {u}) \cup (IF slots = {} THEN {} ELSE {u})
<1>1. UsersOf({x \in real : x[1] # u}) = UsersOf(real) \ {u}
    BY DEF UsersOf
<1>2. UsersOf({<<u, s>> : s \in slots}) = (IF slots = {} THEN {} ELSE {u})
  <2>1. \A s : <<u, s>>[1] = u
    OBVIOUS
  <2>2. \A v : v \in UsersOf({<<u, s>> : s \in slots}) <=> \E s \in slots : v = u
    BY <2>1, Zenon DEF UsersOf
  <2> QED
    BY <2>2
<1>3. PutGrantSlot(real, u, slots) = {x \in real : x[1] # u} \cup {<<u, s>> : s \in slots}
    BY DEF PutGrantSlot
<1>4. UsersOf(PutGrantSlot(real, u, slots)) = UsersOf({x \in real : x[1] # u}) \cup UsersOf({<<u, s>> : s \in slots})
    BY <1>3, UsersSubset, Zenon
<1> QED
    BY <1>1, <1>2, <1>4, Zenon

\* The users given their primary slots.
LEMMA PrimaryUsers ==
    ASSUME NEW us
    PROVE  UsersOf({<<u, Primary[u]>> : u \in us}) = us
<1>1. \A u : <<u, Primary[u]>>[1] = u
    OBVIOUS
<1>2. \A v : v \in UsersOf({<<u, Primary[u]>> : u \in us}) <=> \E u \in us : v = u
    BY <1>1, Zenon DEF UsersOf
<1> QED
    BY <1>2

LEMMA PutPersonas ==
    ASSUME NEW real, real \subseteq Personas, NEW u \in Users, NEW slots, slots \subseteq Slots
    PROVE  PutGrantSlot(real, u, slots) \subseteq Personas
BY DEF PutGrantSlot, Personas

LEMMA OwnerApart ==
    ASSUME NEW acl \in [Users -> Levels \cup {None}], NEW u \in Users, acl[u] = None
    PROVE  u \notin ReadImplying(acl) /\ ReadImplying(acl) \subseteq Users
BY NoneAssumption DEF ReadImplying

\* rotate_key: a new epoch for the caller, the owner and the read grantees.
LEMMA RotatedOK ==
    ASSUME ConfOK(conf), NEW w \in Newest(conf).real, used = Newest(conf).epoch + 1,
           NEW c, c = [conf EXCEPT !.keys = Append(@, NextEpoch(w))]
    PROVE  ConfOK(c) /\ Keeps(conf, c) /\ used + 1 = Newest(c).epoch + 1
<1> DEFINE ks == conf.keys
           k == NextEpoch(w)
           n == Len(ks)
<1>1. KeysOK(ks) /\ DOMAIN conf = ConfFields
    BY DEF ConfOK
<1>2. Newest(conf) \in KeyVersions /\ \A i \in 1..n : ks[i].epoch <= Newest(conf).epoch
    BY <1>1, NewestLast
<1>3. w \in Personas /\ w[1] \in ReadImplying(conf.acl) \cup {conf.owner}
  <2>1. w \in Personas
    BY <1>2 DEF KeyVersions
  <2>2. w[1] \in UsersOf(Newest(conf).real)
    BY DEF UsersOf
  <2> QED
    BY <2>1, <2>2 DEF ConfOK
<1>4. conf.owner \in Users /\ conf.owner # None /\ ReadImplying(conf.acl) \subseteq Users
    BY NoneAssumption DEF ConfOK, ReadImplying
<1>5. CurrentGrantees(conf, w) \subseteq Personas
    BY <1>3, <1>4, UserAssumption DEF CurrentGrantees, Personas
<1>6. UsersOf(CurrentGrantees(conf, w)) = ReadImplying(conf.acl) \cup {conf.owner}
  <2> DEFINE us == (ReadImplying(conf.acl) \cup ({conf.owner} \ {None})) \ {w[1]}
  <2>1. UsersOf({w}) = {w[1]}
    BY DEF UsersOf
  <2>2. CurrentGrantees(conf, w) = {w} \cup {<<u, Primary[u]>> : u \in us}
    BY DEF CurrentGrantees
  <2>3. UsersOf(CurrentGrantees(conf, w)) = {w[1]} \cup us
    <3>1. UsersOf(CurrentGrantees(conf, w)) = UsersOf({w}) \cup UsersOf({<<u, Primary[u]>> : u \in us})
      BY <2>2, UsersSubset, Zenon
    <3> QED
      BY <2>1, <3>1, PrimaryUsers, Zenon
  <2> QED
    BY <1>3, <1>4, <2>3
<1>7. k \in KeyVersions /\ k.epoch = Newest(conf).epoch + 1 /\ k.kp = k.epoch + 1 /\ k.real = CurrentGrantees(conf, w)
    BY <1>2, <1>5 DEF NextEpoch, KeyVersions
<1>8. /\ DOMAIN c = ConfFields /\ c.keys = Append(ks, k)
      /\ c.owner = conf.owner /\ c.acl = conf.acl
    BY <1>1 DEF ConfFields
<1> HIDE DEF k
<1>9. /\ c.keys \in Seq(KeyVersions) /\ c.keys # <<>> /\ Len(c.keys) = n + 1 /\ n \in Nat
      /\ c.keys[n + 1] = k /\ \A i \in 1..n : c.keys[i] = ks[i]
    BY <1>1, <1>7, <1>8 DEF KeysOK
<1>10. \A i \in 1..(n + 1) : i = n + 1 \/ i \in 1..n
    BY <1>9
<1>11. \A i \in 1..n : ks[i].epoch \in Nat /\ ks[i].epoch < k.epoch /\ ks[i].kp = ks[i].epoch + 1
  <2>1. \A i \in 1..n : ks[i] \in KeyVersions /\ ks[i].kp = ks[i].epoch + 1
    BY <1>1 DEF KeysOK
  <2>2. Newest(conf).epoch \in Nat /\ \A i \in 1..n : ks[i].epoch \in Nat
    BY <1>2, <2>1 DEF KeyVersions
  <2> QED
    BY <1>2, <1>7, <2>1, <2>2
<1>12. KeysOK(c.keys)
  <2>1. \A i \in 1..Len(c.keys) : c.keys[i].kp = c.keys[i].epoch + 1
    BY <1>7, <1>9, <1>10, <1>11
  <2>2. \A i, j \in 1..Len(c.keys) : i < j => c.keys[i].epoch < c.keys[j].epoch
    <3> SUFFICES ASSUME NEW i \in 1..(n + 1), NEW j \in 1..(n + 1), i < j
                 PROVE  c.keys[i].epoch < c.keys[j].epoch
      BY <1>9
    <3>1. i \in 1..n
      BY <1>9
    <3>2. CASE j = n + 1
      BY <1>9, <1>11, <3>1, <3>2
    <3>3. CASE j \in 1..n
      BY <1>1, <1>9, <3>1, <3>3 DEF KeysOK
    <3> QED
      BY <1>10, <3>2, <3>3
  <2> QED
    BY <1>9, <2>1, <2>2 DEF KeysOK
<1>13. Newest(c) = k
    BY <1>9 DEF Newest
<1>14. ConfOK(c)
    BY <1>6, <1>7, <1>8, <1>12, <1>13 DEF ConfOK
<1>15. Keeps(conf, c)
    BY <1>9 DEF Keeps, Has
<1> QED
    BY <1>2, <1>7, <1>13, <1>14, <1>15 DEF KeyVersions

\* An edit that gives every key new grants and changes nothing else of the keys.
LEMMA RegrantedOK ==
    ASSUME ConfOK(conf), used = Newest(conf).epoch + 1,
           NEW c, DOMAIN c = ConfFields, Len(c.keys) = Len(conf.keys), c.keys \in Seq(KeyVersions),
           \A i \in 1..Len(conf.keys) : c.keys[i].epoch = conf.keys[i].epoch /\ c.keys[i].kp = conf.keys[i].kp,
           c.owner \in Users, c.acl \in [Users -> Levels \cup {None}], c.acl[c.owner] = None,
           UsersOf(Newest(c).real) = ReadImplying(c.acl) \cup {c.owner}
    PROVE  ConfOK(c) /\ Keeps(conf, c) /\ used = Newest(c).epoch + 1
<1>1. KeysOK(c.keys)
    BY DEF ConfOK, KeysOK
<1>2. Newest(c).epoch = Newest(conf).epoch
    BY NewestLast DEF Newest, ConfOK
<1> QED
    BY <1>1, <1>2 DEF ConfOK, Keeps, Has

\* The reseal of set_acl: its real grants are the new owner's and the new readers'.
LEMMA ResealedUsers ==
    ASSUME NEW real, real \subseteq Personas, NEW old \in SUBSET Users, NEW new \in SUBSET Users,
           NEW oo \in Users, NEW no \in Users, oo \notin old, no \notin new,
           UsersOf(real) = old \cup {oo}
    PROVE  /\ UsersOf(Resealed(real, old, new, oo, no)) = new \cup {no}
           /\ Resealed(real, old, new, oo, no) \subseteq Personas
<1> DEFINE kept == {x \in real : x[1] \notin (new \ old) \cup (old \ new)}
           added == {<<u, Primary[u]>> : u \in new \ old}
           diffed == kept \cup added
           owned == PutGrantSlot(diffed, no, {Primary[no]})
<1>1. UsersOf(kept) = (old \cup {oo}) \ ((new \ old) \cup (old \ new))
    BY DEF UsersOf
<1>2. UsersOf(added) = new \ old
    BY PrimaryUsers, Zenon
<1>3. UsersOf(diffed) = new \cup {oo}
  <2>1. UsersOf(diffed) = UsersOf(kept) \cup UsersOf(added)
    BY UsersSubset
  <2> HIDE DEF kept, added, diffed
  <2> QED
    BY <1>1, <1>2, <2>1
<1>4. diffed \subseteq Personas
    BY UserAssumption DEF Personas
<1> HIDE DEF diffed
<1>5. UsersOf(owned) = new \cup {oo, no} /\ owned \subseteq Personas
    BY <1>3, <1>4, PutUsers, PutPersonas, UserAssumption
<1> HIDE DEF owned
<1>6. UsersOf(PutGrantSlot(owned, oo, {})) = (new \cup {oo, no}) \ {oo} /\ PutGrantSlot(owned, oo, {}) \subseteq Personas
    BY <1>5, PutUsers, PutPersonas
<1>7. Resealed(real, old, new, oo, no) =
        IF no = oo THEN diffed ELSE IF oo = None \/ oo \in new THEN owned ELSE PutGrantSlot(owned, oo, {})
    BY DEF Resealed, diffed, owned
<1>8. oo # None
    BY NoneAssumption
<1> QED
    BY <1>3, <1>4, <1>5, <1>6, <1>7, <1>8

-----------------------------------------------------------------------------
(* What a step leaves of the other requests.                               *)

Agrees(a, b) ==
    /\ a.pc = b.pc /\ a.who = b.who /\ a.mine = b.mine /\ a.obj = b.obj
    /\ a.key = b.key /\ a.src = b.src /\ a.todo = b.todo /\ a.slot = b.slot /\ a.edit = b.edit

\* Request p has r in hand, and the others what they had, or a session of their own.
After(p, r) ==
    /\ req' = [q \in Procs |-> req'[q]] /\ req'[p] = r /\ ShapeOK(r)
    /\ \A q \in Procs : q # p => ShapeOK(req'[q]) /\ Agrees(req'[q], req[q])

LEMMA StepAfter ==
    ASSUME Shape, NEW p \in Procs, NEW r, ShapeOK(r), Step(p, r)
    PROVE  After(p, r)
<1>1. req = [q \in Procs |-> req[q]] /\ \A q \in Procs : ShapeOK(req[q])
    BY DEF Shape
<1>2. /\ req' = [q \in Procs |-> req'[q]]
      /\ req'[p] = r /\ \A q \in Procs : q # p => req'[q] = req[q]
    BY <1>1, Stepped
<1> QED
    BY <1>1, <1>2 DEF After, Agrees

LEMMA EndAfter ==
    ASSUME Shape, NEW p \in Procs, NEW r, ShapeOK(r), NEW W \in SUBSET Personas, EndSessions(W, p, r)
    PROVE  After(p, r) /\ cache' \in [Personas -> SUBSET FitKeys]
<1>1. cache' \in [Personas -> SUBSET FitKeys]
    BY DEF EndSessions, Shape
<1>2. req' = [q \in Procs |-> req'[q]] /\ req'[p] = r
    BY DEF EndSessions
<1>3. ASSUME NEW q \in Procs, q # p PROVE ShapeOK(req'[q]) /\ Agrees(req'[q], req[q])
  <2>1. ShapeOK(req[q])
    BY DEF Shape
  <2>2. CASE req'[q] = req[q]
    BY <2>1, <2>2 DEF Agrees
  <2>3. CASE req[q].who \in W /\ req'[q] = [req[q] EXCEPT !.own = cache[req[q].who]]
    <3>1. cache[req[q].who] \subseteq FitKeys
      BY <2>3 DEF Shape
    <3>2. DOMAIN req[q] = ReqFields
      BY <2>1 DEF ShapeOK
    <3>3. DOMAIN req'[q] = ReqFields /\ req'[q].own = cache[req[q].who]
      BY <2>3, <3>2 DEF ReqFields
    <3>4. Agrees(req'[q], req[q])
      BY <2>3, <3>2 DEF ReqFields, Agrees
    <3> QED
      BY <3>1, <3>3, <3>4 DEF ShapeOK
  <2>4. req'[q] = IF req[q].who \in W /\ req[q].own = None
                    THEN [req[q] EXCEPT !.own = cache[req[q].who]] ELSE req[q]
    BY <1>3 DEF EndSessions
  <2> QED
    BY <2>2, <2>3, <2>4
<1> QED
    BY <1>1, <1>2, <1>3 DEF After

LEMMA AgreesOK ==
    ASSUME NEW a, NEW b, Agrees(a, b), NEW c, NEW os, NEW n
    PROVE  /\ WriterOK(b, c) => WriterOK(a, c)
           /\ ReaderOK(b) => ReaderOK(a)
           /\ AdminOK(b, c, n) => AdminOK(a, c, n)
           /\ RekeyerOK(b, c, os) => RekeyerOK(a, c, os)
<1>1. WriterOK(b, c) => WriterOK(a, c)
    BY DEF Agrees, WriterOK
<1>2. ReaderOK(b) => ReaderOK(a)
    BY DEF Agrees, ReaderOK
<1>3. AdminOK(b, c, n) => AdminOK(a, c, n)
    BY DEF Agrees, AdminOK, NamesSlot
<1>4. RekeyerOK(b, c, os) => RekeyerOK(a, c, os)
    BY DEF Agrees, RekeyerOK
<1> QED
    BY <1>1, <1>2, <1>3, <1>4

InRole(p, r, c, os, n) ==
    /\ p \in Writers => WriterOK(r, c)
    /\ p \in Readers => ReaderOK(r)
    /\ p \in Admins => AdminOK(r, c, n)
    /\ p \in Rekeyers => RekeyerOK(r, c, os)

\* What is left to show of a step of p.
LEMMA Preserved ==
    ASSUME AloneInv, NEW p \in Procs, NEW r, After(p, r), InRole(p, r, conf', objs', used'),
           exists' = TRUE, objs' = [o \in Objects |-> objs'[o]],
           cache' \in [Personas -> SUBSET FitKeys], used' \in Nat,
           ConfOK(conf'), \A o \in Objects : ObjOK(objs'[o], conf'),
           \A q \in Writers \ {p} : WriterOK(req[q], conf'),
           \A q \in Admins \ {p} : AdminOK(req[q], conf', used'),
           \A q \in Rekeyers \ {p} : RekeyerOK(req[q], conf', objs'),
           (\A q \in Admins : req'[q].pc # "write") => used' = Newest(conf').epoch + 1
    PROVE  AloneInv'
<1>1. Shape'
    BY DEF Shape, After
<1>2. \A q \in Procs : q # p => Agrees(req'[q], req[q])
    BY DEF After
<1>3. req'[p] = r
    BY DEF After
<1>4. ASSUME NEW q \in Writers PROVE WriterOK(req'[q], conf')
    BY <1>2, <1>3, <1>4, AgreesOK, Zenon DEF InRole, Procs
<1>5. ASSUME NEW q \in Readers PROVE ReaderOK(req'[q])
    BY <1>2, <1>3, <1>5, AgreesOK, Zenon DEF InRole, Procs, AloneInv
<1>6. ASSUME NEW q \in Admins PROVE AdminOK(req'[q], conf', used')
    BY <1>2, <1>3, <1>6, AgreesOK, Zenon DEF InRole, Procs
<1>7. ASSUME NEW q \in Rekeyers PROVE RekeyerOK(req'[q], conf', objs')
    BY <1>2, <1>3, <1>7, AgreesOK, Zenon DEF InRole, Procs
<1> QED
    BY <1>1, <1>4, <1>5, <1>6, <1>7 DEF AloneInv

\* A step that leaves the configuration and the objects alone.
LEMMA OneStep ==
    ASSUME AloneInv, NEW p \in Procs, NEW r, After(p, r), InRole(p, r, conf, objs, used),
           p \in Admins /\ req[p].pc = "write" => r.pc = "write",
           exists' = TRUE, conf' = conf, objs' = objs, used' = used,
           cache' \in [Personas -> SUBSET FitKeys]
    PROVE  AloneInv'
<1>1. (\A q \in Admins : req'[q].pc # "write") => (\A q \in Admins : req[q].pc # "write")
    BY DEF After, Agrees, Procs
<1>2. objs' = [o \in Objects |-> objs'[o]] /\ used' \in Nat
    BY Zenon DEF AloneInv, Shape
<1>3. (\A q \in Admins : req'[q].pc # "write") => used' = Newest(conf').epoch + 1
    BY <1>1 DEF AloneInv
<1>4. InRole(p, r, conf', objs', used')
    OBVIOUS
<1>5. ConfOK(conf') /\ \A o \in Objects : ObjOK(objs'[o], conf')
    BY Zenon DEF AloneInv
<1>6. /\ \A q \in Writers \ {p} : WriterOK(req[q], conf')
      /\ \A q \in Admins \ {p} : AdminOK(req[q], conf', used')
      /\ \A q \in Rekeyers \ {p} : RekeyerOK(req[q], conf', objs')
    BY DEF AloneInv
<1> QED
    BY <1>2, <1>3, <1>4, <1>5, <1>6, Preserved

LEMMA NoReqShape == ShapeOK(NoReq) /\ \A p, c, os, n : InRole(p, NoReq, c, os, n)
<1>1. DOMAIN NoReq = ReqFields /\ NoReq.pc = "idle" /\ NoReq.own = None /\ NoReq.edit = "share"
    BY DEF NoReq, ReqFields
<1>2. "idle" \notin Moving
    BY Zenon DEF Moving
<1> QED
    BY <1>1, <1>2 DEF ShapeOK, InRole, WriterOK, ReaderOK, AdminOK, NamesSlot, RekeyerOK

\* A request that ends changes nothing else.
LEMMA Returned ==
    ASSUME AloneInv, NEW p \in Procs, Return(p), req[p].pc # "write",
           exists' = TRUE, conf' = conf, objs' = objs, used' = used,
           cache' \in [Personas -> SUBSET FitKeys]
    PROVE  AloneInv'
<1>1. After(p, NoReq)
    BY NoReqShape, StepAfter DEF Return, AloneInv
<1> QED
    BY <1>1, NoReqShape, OneStep, Zenon

LEMMA RolesApart ==
    ASSUME NEW p, NEW r, NEW c, NEW os, NEW n
    PROVE  /\ p \in Writers /\ WriterOK(r, c) => p \in Procs /\ InRole(p, r, c, os, n)
           /\ p \in Readers /\ ReaderOK(r) => p \in Procs /\ InRole(p, r, c, os, n)
           /\ p \in Admins /\ AdminOK(r, c, n) => p \in Procs /\ InRole(p, r, c, os, n)
           /\ p \in Rekeyers /\ RekeyerOK(r, c, os) => p \in Procs /\ InRole(p, r, c, os, n)
<1>1. /\ p \in Writers => p \notin Readers /\ p \notin Admins /\ p \notin Rekeyers
      /\ p \in Readers => p \notin Admins /\ p \notin Rekeyers
      /\ p \in Admins => p \notin Rekeyers
    BY DisjointAssumption
<1> QED
    BY <1>1 DEF InRole, Procs

-----------------------------------------------------------------------------
(* PUT and GET.                                                            *)

\* New objects go under the newest epoch.
LEMMA WriteKeyOK ==
    ASSUME AloneInv, NEW p \in Writers, ResolveWriteKey(p), req[p].pc # "write",
           exists' = TRUE, conf' = conf, objs' = objs, used' = used, cache' = cache
    PROVE  AloneInv'
<1>0. p \in Procs /\ Shape /\ KeysOK(conf.keys) /\ DOMAIN req[p] = ReqFields /\ ShapeOK(req[p])
    BY Zenon DEF Procs, AloneInv, ConfOK, Shape, ShapeOK
<1>1. cache' \in [Personas -> SUBSET FitKeys]
    BY <1>0 DEF Shape
<1>2. CASE Return(p)
    BY <1>0, <1>1, <1>2, Returned, Zenon
<1> DEFINE r == [req[p] EXCEPT !.pc = "lock", !.key = KeyOf(Newest(conf))]
<1>3. CASE Step(p, r)
  <2>1. DOMAIN r = ReqFields /\ r.pc = "lock" /\ r.key = KeyOf(Newest(conf)) /\ r.own = req[p].own
    BY <1>0 DEF ReqFields
  <2> HIDE DEF r
  <2>2. ShapeOK(r)
    BY <1>0, <2>1 DEF ShapeOK
  <2>3. WriterOK(r, conf)
    BY <1>0, <2>1, NewestLast, NewestFits, Zenon DEF WriterOK
  <2>4. InRole(p, r, conf, objs, used)
    BY <2>3, RolesApart
  <2>5. p \notin Admins
    BY DisjointAssumption
  <2> QED
    BY <1>0, <1>1, <1>3, <2>2, <2>4, <2>5, StepAfter, OneStep
<1> QED
    BY <1>2, <1>3 DEF ResolveWriteKey

\* An object written under a retained key, the newest one if keys are only pruned.
LEMMA CommitOK ==
    ASSUME AloneInv, NEW p \in Procs, NEW ver, Commit(p, ver), req[p].key \in FitKeys, Has(conf, req[p].key[1]),
           Rekeyers = {} \/ req[p].key[1] = Newest(conf).epoch
    PROVE  /\ objs' = [o \in Objects |-> objs'[o]]
           /\ \A o \in Objects : ObjOK(objs'[o], conf)
           /\ \A q \in Rekeyers \ {p} : RekeyerOK(req[q], conf, objs')
           /\ \A o \in Objects : objs'[o] = objs[o] \/ (objs'[o] # None => objs'[o].epoch = req[p].key[1])
           /\ p \in staged => objs'[req[p].obj] = objs[req[p].obj] \/ req[p].obj \notin Objects
                              \/ objs'[req[p].obj].epoch = req[p].key[1]
<1> DEFINE new == [epoch |-> req[p].key[1], kp |-> req[p].key[2], ver |-> ver]
<1>1. new.epoch = req[p].key[1] /\ new.epoch \in Nat /\ new.kp = new.epoch + 1
    BY DEF FitKeys
<1>2. objs' = IF p \in staged THEN [objs EXCEPT ![req[p].obj] = new] ELSE objs
    BY DEF Commit
<1> HIDE DEF new
<1>3. objs = [o \in Objects |-> objs[o]] /\ \A o \in Objects : ObjOK(objs[o], conf)
    BY DEF AloneInv, Shape
<1>4. objs' = [o \in Objects |-> objs'[o]] /\ \A o \in Objects : objs'[o] = objs[o] \/ objs'[o] = new
    BY <1>2, <1>3
<1>5. p \in staged /\ req[p].obj \in Objects => objs'[req[p].obj] = new
    BY <1>2, <1>3
<1>6. \A o \in Objects : ObjOK(objs'[o], conf)
    BY <1>1, <1>3, <1>4, Zenon DEF ObjOK
<1>7. ASSUME NEW q \in Rekeyers PROVE RekeyerOK(req[q], conf, objs')
  <2>1. RekeyerOK(req[q], conf, objs) /\ new.epoch = Newest(conf).epoch
    BY <1>1, <1>7 DEF AloneInv
  <2>2. \A o \in Objects : objs'[o] # None /\ objs'[o].epoch < req[q].key[1] /\ req[q].key[1] = new.epoch
                             => objs'[o] = objs[o]
    BY <1>1, <1>4
  <2> QED
    BY <1>4, <2>1, <2>2, Zenon DEF RekeyerOK
<1> QED
    BY <1>1, <1>4, <1>5, <1>6, <1>7, Zenon

LEMMA PutOK ==
    ASSUME AloneInv, Alone, NEW p \in Writers, Put(p)
    PROVE  AloneInv'
<1>0. /\ p \in Procs /\ Shape /\ KeysOK(conf.keys) /\ DOMAIN req[p] = ReqFields /\ ShapeOK(req[p])
      /\ exists = TRUE /\ cache \in [Personas -> SUBSET FitKeys] /\ WriterOK(req[p], conf) /\ p \notin Admins
    BY DisjointAssumption, Zenon DEF Procs, AloneInv, ConfOK, Shape, ShapeOK
<1>1. CASE PutAuthorize(p)
  <2>1. PICK w \in Personas, o \in Objects :
          /\ Remember(w)
          /\ Step(p, [NoReq EXCEPT !.pc = IF conf.owner = None /\ ~exists THEN "check" ELSE "config",
                                   !.who = w, !.obj = o])
    BY <1>1, Zenon DEF PutAuthorize
  <2> DEFINE r == [NoReq EXCEPT !.pc = IF conf.owner = None /\ ~exists THEN "check" ELSE "config",
                                !.who = w, !.obj = o]
  <2>2. DOMAIN r = ReqFields /\ r.pc = "config" /\ r.own = None
    BY <1>0 DEF ReqFields, NoReq
  <2>3. Step(p, r)
    BY <2>1
  <2> HIDE DEF r
  <2>4. ShapeOK(r) /\ WriterOK(r, conf)
    BY <2>2 DEF ShapeOK, WriterOK
  <2>5. UNCHANGED <<exists, conf, objs, used>>
    BY <1>1 DEF PutAuthorize, store
  <2> QED
    BY <1>0, <2>1, <2>3, <2>4, <2>5, Remembered, RolesApart, StepAfter, OneStep
<1>2. ~(ClaimCheck(p) \/ ClaimMkdir(p) \/ ClaimRead(p) \/ ClaimSeed(p))
    BY <1>0 DEF ClaimCheck, ClaimMkdir, ClaimRead, ClaimSeed, WriterOK
<1>3. CASE PutConfig(p)
    BY <1>0, <1>3, WriteKeyOK DEF PutConfig, store
<1>4. CASE PutLock(p)
  <2>1. CASE BeginPut(p) /\ Goto(p, "commit")
    <3> DEFINE r == [req[p] EXCEPT !.pc = "commit"]
    <3>1. DOMAIN r = ReqFields /\ r.pc = "commit" /\ r.own = req[p].own /\ r.key = req[p].key
      BY <1>0 DEF ReqFields
    <3>2. Step(p, r)
      BY <2>1, Zenon DEF Goto
    <3> HIDE DEF r
    <3>3. ShapeOK(r) /\ WriterOK(r, conf)
      BY <1>0, <1>4, <3>1 DEF ShapeOK, WriterOK, PutLock
    <3>4. exists' = TRUE /\ UNCHANGED <<conf, objs, used, cache>>
      BY <1>4, <2>1, Zenon DEF PutLock, BeginPut
    <3> QED
      BY <1>0, <3>2, <3>3, <3>4, RolesApart, StepAfter, OneStep
  <2>2. CASE exists' = TRUE /\ Return(p)
    BY <1>0, <1>4, <2>2, Returned DEF PutLock
  <2> QED
    BY <1>4, <2>1, <2>2, Zenon DEF PutLock
<1>5. CASE PutCommit(p)
  <2>1. /\ Commit(p, p) /\ req[p].key \in FitKeys /\ Has(conf, req[p].key[1])
        /\ Rekeyers = {} \/ req[p].key[1] = Newest(conf).epoch
    BY <1>0, <1>5, Zenon DEF PutCommit, WriterOK, Alone
  <2>2. After(p, NoReq)
    BY <1>0, <1>5, NoReqShape, StepAfter DEF PutCommit, Return
  <2>3. UNCHANGED <<exists, conf, used, cache>>
    BY <1>5 DEF PutCommit
  <2>4. /\ objs' = [o \in Objects |-> objs'[o]]
        /\ \A o \in Objects : ObjOK(objs'[o], conf)
        /\ \A q \in Rekeyers \ {p} : RekeyerOK(req[q], conf, objs')
    BY <1>0, <2>1, CommitOK, Zenon
  <2>5. (\A q \in Admins : req'[q].pc # "write") => used = Newest(conf).epoch + 1
    BY <1>0, <2>2 DEF After, Agrees, Procs, AloneInv
  <2>6. InRole(p, NoReq, conf', objs', used')
    BY NoReqShape
  <2>7. /\ \A q \in Writers \ {p} : WriterOK(req[q], conf')
        /\ \A q \in Admins \ {p} : AdminOK(req[q], conf', used')
        /\ ConfOK(conf') /\ used' \in Nat
    BY <2>3, Zenon DEF AloneInv, Shape
  <2> QED
    BY <1>0, <2>2, <2>3, <2>4, <2>5, <2>6, <2>7, Preserved, Zenon
<1>6. CASE PutAbort(p)
    BY <1>0, <1>6, Returned DEF PutAbort
<1> QED
    BY <1>1, <1>2, <1>3, <1>4, <1>5, <1>6 DEF Put

LEMMA GetOK ==
    ASSUME AloneInv, NEW p \in Readers, Get(p)
    PROVE  AloneInv'
<1>0. /\ p \in Procs /\ Shape /\ KeysOK(conf.keys) /\ DOMAIN req[p] = ReqFields /\ ShapeOK(req[p])
      /\ exists = TRUE /\ cache \in [Personas -> SUBSET FitKeys] /\ ReaderOK(req[p]) /\ p \notin Admins
    BY DisjointAssumption, Zenon DEF Procs, AloneInv, ConfOK, Shape, ShapeOK
<1>1. UNCHANGED <<exists, conf, objs, used>>
    BY Zenon DEF Get, GetAuthorize, GetConfig, GetDescribe, GetDone, store
<1>2. CASE GetAuthorize(p)
  <2>1. PICK w \in Personas, o \in Objects :
          Remember(w) /\ Step(p, [NoReq EXCEPT !.pc = "getconf", !.who = w, !.obj = o])
    BY <1>2, Zenon DEF GetAuthorize
  <2> DEFINE r == [NoReq EXCEPT !.pc = "getconf", !.who = w, !.obj = o]
  <2>2. DOMAIN r = ReqFields /\ r.pc = "getconf" /\ r.own = None /\ r.who = w /\ r.obj = o
    BY DEF ReqFields, NoReq
  <2>3. Step(p, r)
    BY <2>1, Zenon
  <2> HIDE DEF r
  <2>4. ShapeOK(r) /\ ReaderOK(r)
    BY <2>2 DEF ShapeOK, ReaderOK
  <2> QED
    BY <1>0, <1>1, <2>1, <2>3, <2>4, Remembered, RolesApart, StepAfter, OneStep
<1>3. CASE GetConfig(p)
  <2> DEFINE r == [req[p] EXCEPT !.pc = "describe", !.mine = conf]
  <2>2. /\ DOMAIN r = ReqFields /\ r.pc = "describe" /\ r.own = req[p].own /\ r.mine = conf
        /\ r.who = req[p].who /\ r.obj = req[p].obj
    BY <1>0 DEF ReqFields
  <2>3. Step(p, r) /\ cache' = cache
    BY <1>3 DEF GetConfig
  <2> HIDE DEF r
  <2>4. ShapeOK(r) /\ ReaderOK(r)
    BY <1>0, <1>3, <2>2 DEF ShapeOK, ReaderOK, GetConfig
  <2> QED
    BY <1>0, <1>1, <2>3, <2>4, RolesApart, StepAfter, OneStep, Zenon
<1>4. CASE GetDescribe(p)
  <2> DEFINE o == objs[req[p].obj]
             keys == ResolveReadKey(SessionKeys(p), req[p].mine, req[p].who, o.epoch)
  <2>1. req[p].who \in Personas /\ req[p].obj \in Objects /\ KeysOK(req[p].mine.keys)
    BY <1>0, <1>4, Zenon DEF GetDescribe, ReaderOK
  <2>2. SessionKeys(p) \subseteq FitKeys
    BY <1>0, <2>1 DEF SessionKeys, ShapeOK
  <2>3. \A k \in keys : k \in FitKeys /\ k[1] = o.epoch
    BY <2>1, <2>2, ResolveFits
  <2>4. \/ o = None /\ Return(p) /\ cache' = cache
        \/ /\ o # None
           /\ cache' = IF req[p].own = None THEN [cache EXCEPT ![req[p].who] = @ \cup keys] ELSE cache
           /\ \/ Return(p)
              \/ \E k \in keys : Step(p, [req[p] EXCEPT !.pc = "serve", !.key = k, !.src = o.kp])
    BY <1>4, Zenon DEF GetDescribe
  <2>5. o # None /\ req[p].obj \in Objects => o.epoch \in Nat /\ o.kp = o.epoch + 1
    BY DEF AloneInv, ObjOK
  <2> HIDE DEF o, keys
  <2>6. cache' \in [Personas -> SUBSET FitKeys]
    <3>1. cache[req[p].who] \cup keys \subseteq FitKeys
      BY <1>0, <2>1, <2>3
    <3>2. cache' = cache \/ cache' = [cache EXCEPT ![req[p].who] = cache[req[p].who] \cup keys]
      BY <2>4, Zenon
    <3> QED
      BY <1>0, <2>1, <3>1, <3>2, CacheKept, Zenon
  <2>7. CASE Return(p)
    BY <1>0, <1>1, <1>4, <2>6, <2>7, Returned, Zenon DEF GetDescribe
  <2>8. ASSUME o # None, NEW k \in keys, Step(p, [req[p] EXCEPT !.pc = "serve", !.key = k, !.src = o.kp])
        PROVE  AloneInv'
    <3> DEFINE r == [req[p] EXCEPT !.pc = "serve", !.key = k, !.src = o.kp]
    <3>1. /\ DOMAIN r = ReqFields /\ r.pc = "serve" /\ r.own = req[p].own /\ r.key = k /\ r.src = o.kp
          /\ r.who = req[p].who /\ r.obj = req[p].obj
      BY <1>0 DEF ReqFields
    <3>2. Step(p, r)
      BY <2>8
    <3> HIDE DEF r
    <3>3. k[2] = o.kp
      BY <2>1, <2>3, <2>5, <2>8, Zenon DEF FitKeys
    <3>4. ShapeOK(r) /\ ReaderOK(r)
      BY <1>0, <2>1, <3>1, <3>3, Zenon DEF ShapeOK, ReaderOK
    <3> QED
      BY <1>0, <1>1, <2>6, <3>2, <3>4, RolesApart, StepAfter, OneStep, Zenon
  <2> QED
    BY <2>4, <2>7, <2>8, Zenon
<1>5. CASE GetDone(p)
    BY <1>0, <1>1, <1>5, Returned, Zenon DEF GetDone
<1> QED
    BY <1>2, <1>3, <1>4, <1>5 DEF Get

-----------------------------------------------------------------------------
(* The requests that change keys and grants, one at a time.                *)

LEMMA AdminFacts ==
    ASSUME AloneInv, Alone, NEW p \in Admins
    PROVE  /\ p \in Procs /\ Rekeyers = {} /\ \A q \in Admins : q = p
           /\ Shape /\ ConfOK(conf) /\ KeysOK(conf.keys) /\ DOMAIN conf = ConfFields
           /\ DOMAIN req[p] = ReqFields /\ ShapeOK(req[p]) /\ AdminOK(req[p], conf, used)
           /\ exists = TRUE /\ cache \in [Personas -> SUBSET FitKeys]
           /\ req[p].pc # "write" => used = Newest(conf).epoch + 1
<1>1. p \in Procs /\ Rekeyers = {} /\ \A q \in Admins : q = p
    BY DEF Procs, Alone
<1>2. Shape /\ ConfOK(conf) /\ AdminOK(req[p], conf, used)
    BY DEF AloneInv
<1>3. exists = TRUE /\ cache \in [Personas -> SUBSET FitKeys] /\ ShapeOK(req[p])
    BY <1>1, <1>2 DEF Shape
<1>4. KeysOK(conf.keys) /\ DOMAIN conf = ConfFields /\ DOMAIN req[p] = ReqFields
    BY <1>2, <1>3, Zenon DEF ConfOK, ShapeOK
<1>5. req[p].pc # "write" => used = Newest(conf).epoch + 1
    BY <1>1, Zenon DEF AloneInv
<1> QED
    BY <1>1, <1>2, <1>3, <1>4, <1>5

LEMMA PreparedShape ==
    ASSUME NEW p, ShapeOK(req[p]), NEW c
    PROVE  /\ ShapeOK(Prepared(p, c)) /\ Prepared(p, c).pc = "write" /\ Prepared(p, c).mine = c
           /\ Prepared(p, c).who = req[p].who /\ Prepared(p, c).slot = req[p].slot /\ Prepared(p, c).edit = req[p].edit
<1>1. DOMAIN req[p] = ReqFields
    BY DEF ShapeOK
<1>2. /\ DOMAIN Prepared(p, c) = ReqFields /\ Prepared(p, c).pc = "write" /\ Prepared(p, c).mine = c
      /\ Prepared(p, c).who = req[p].who /\ Prepared(p, c).own = req[p].own
      /\ Prepared(p, c).slot = req[p].slot /\ Prepared(p, c).edit = req[p].edit
    BY <1>1 DEF Prepared, ReqFields
<1> QED
    BY <1>2 DEF ShapeOK

\* A good edit is ready to be written.
LEMMA PreparedOK ==
    ASSUME AloneInv, Alone, NEW p \in Admins, req[p].pc # "idle",
           NEW c, ConfOK(c), Keeps(conf, c), used' \in Nat, used' = Newest(c).epoch + 1,
           After(p, Prepared(p, c)), UNCHANGED <<exists, conf, objs>>,
           cache' \in [Personas -> SUBSET FitKeys]
    PROVE  AloneInv'
<1> DEFINE r == Prepared(p, c)
<1>0. /\ p \in Procs /\ Rekeyers = {} /\ \A q \in Admins : q = p
      /\ ShapeOK(req[p]) /\ AdminOK(req[p], conf, used) /\ exists = TRUE /\ ConfOK(conf)
    BY AdminFacts, Zenon
<1>1. r.pc = "write" /\ r.mine = c /\ r.who = req[p].who /\ r.slot = req[p].slot /\ r.edit = req[p].edit
    BY <1>0, PreparedShape
<1>2. req[p].who \in Personas /\ NamesSlot(req[p])
    BY <1>0, Zenon DEF AdminOK
<1> HIDE DEF r
<1>3. AdminOK(r, conf', used')
    BY <1>1, <1>2 DEF AdminOK, NamesSlot
<1>4. InRole(p, r, conf', objs', used')
    BY <1>3, RolesApart, Zenon
<1>5. req'[p] = r
    BY Zenon DEF After, r
<1>6. ~(\A q \in Admins : req'[q].pc # "write")
    BY <1>1, <1>5
<1>7. objs' = [o \in Objects |-> objs'[o]] /\ ConfOK(conf') /\ \A o \in Objects : ObjOK(objs'[o], conf')
    BY DEF AloneInv, Shape
<1>8. /\ \A q \in Writers \ {p} : WriterOK(req[q], conf')
      /\ \A q \in Admins \ {p} : AdminOK(req[q], conf', used')
      /\ \A q \in Rekeyers \ {p} : RekeyerOK(req[q], conf', objs')
    BY <1>0, Zenon DEF AloneInv
<1>9. After(p, r) /\ exists' = TRUE
    BY <1>0, Zenon DEF r
<1> QED
    BY <1>0, <1>4, <1>6, <1>7, <1>8, <1>9, Preserved

LEMMA PreparesOK ==
    ASSUME AloneInv, Alone, NEW p \in Admins, req[p].pc # "idle",
           NEW c, ConfOK(c), Keeps(conf, c), used' \in Nat, used' = Newest(c).epoch + 1,
           Prepare(p, c), UNCHANGED <<exists, conf, objs>>,
           cache' \in [Personas -> SUBSET FitKeys]
    PROVE  AloneInv'
<1>1. After(p, Prepared(p, c))
    BY AdminFacts, PreparedShape, StepAfter, Zenon DEF Prepare
<1> QED
    BY <1>1, PreparedOK

\* A step of an administrative request that only goes on to another point.
LEMMA AdminGoes ==
    ASSUME AloneInv, Alone, NEW p \in Admins, req[p].pc # "write", NEW r, ShapeOK(r), Step(p, r),
           r.pc \in {"rotate", "acl", "share", "config", "seal", "revoke"}, r.who \in Personas,
           r.pc = "seal" => r.mine = conf, NamesSlot(r),
           UNCHANGED <<exists, conf, objs, used>>, cache' \in [Personas -> SUBSET FitKeys]
    PROVE  AloneInv'
<1>0. p \in Procs /\ Shape /\ exists = TRUE
    BY AdminFacts, Zenon
<1>1. AdminOK(r, conf, used)
    BY Zenon DEF AdminOK
<1>2. InRole(p, r, conf, objs, used)
    BY <1>1, RolesApart
<1> QED
    BY <1>0, <1>2, StepAfter, OneStep

LEMMA RotateOK ==
    ASSUME AloneInv, Alone, NEW p \in Admins, Rotate(p)
    PROVE  AloneInv'
<1>0. /\ p \in Procs /\ ConfOK(conf) /\ used = Newest(conf).epoch + 1 /\ used \in Nat /\ exists = TRUE
      /\ cache' \in [Personas -> SUBSET FitKeys] /\ UNCHANGED <<exists, conf, objs>>
    BY AdminFacts, Zenon DEF Rotate, Shape, store
<1>1. CASE Return(p) /\ UNCHANGED used
    BY <1>0, <1>1, Returned DEF Rotate
<1> DEFINE c == [conf EXCEPT !.keys = Append(@, NextEpoch(req[p].who))]
<1>2. CASE req[p].who \in Newest(conf).real /\ used' = used + 1 /\ Prepare(p, c)
  <2>1. ConfOK(c) /\ Keeps(conf, c) /\ used + 1 = Newest(c).epoch + 1
    BY <1>0, <1>2, RotatedOK
  <2> HIDE DEF c
  <2>2. req[p].pc # "idle" /\ used' \in Nat
    BY <1>0, <1>2 DEF Rotate
  <2> QED
    BY <1>0, <1>2, <2>1, <2>2, PreparesOK, Zenon
<1> QED
    BY <1>1, <1>2 DEF Rotate

\* An edit of the ACL whose keys are those of the configuration but for grants.
LEMMA EditedOK ==
    ASSUME AloneInv, Alone, NEW p \in Admins, req[p].pc # "write",
           NEW acl \in [Users -> Levels \cup {None}], NEW owner \in Users, acl[owner] = None,
           NEW c, DOMAIN c = ConfFields, c.owner = owner, c.acl = acl,
           Len(c.keys) = Len(conf.keys), c.keys \in Seq(KeyVersions),
           \A i \in 1..Len(conf.keys) : c.keys[i].epoch = conf.keys[i].epoch /\ c.keys[i].kp = conf.keys[i].kp,
           UsersOf(Newest(c).real) = ReadImplying(acl) \cup {owner}
    PROVE  ConfOK(c) /\ Keeps(conf, c) /\ used = Newest(c).epoch + 1 /\ used \in Nat
<1>1. ConfOK(conf) /\ used = Newest(conf).epoch + 1 /\ used \in Nat
    BY AdminFacts, Zenon DEF Shape
<1> QED
    BY <1>1, RegrantedOK

LEMMA SetAclOK ==
    ASSUME AloneInv, Alone, NEW p \in Admins, SetAcl(p)
    PROVE  AloneInv'
<1>0. /\ p \in Procs /\ Shape /\ ConfOK(conf) /\ KeysOK(conf.keys) /\ DOMAIN conf = ConfFields /\ exists = TRUE
      /\ ShapeOK(req[p]) /\ cache \in [Personas -> SUBSET FitKeys]
    BY AdminFacts, Zenon
<1>1. /\ req[p].pc = "acl" /\ UNCHANGED <<exists, conf, objs, used>>
    BY DEF SetAcl, store
<1>2. conf.owner \in Users /\ None \notin Users /\ ReadImplying(conf.acl) \subseteq Users /\ conf.owner \notin ReadImplying(conf.acl)
    BY <1>0, NoneAssumption, OwnerApart DEF ConfOK
<1> DEFINE n == Len(conf.keys)
           old == ReadImplying(conf.acl)
           Reseal(acl, owner) == [Edited(acl, owner) EXCEPT
                                    !.keys[n].real = Resealed(@, old, ReadImplying(acl), conf.owner, owner)]
           Ends(acl, owner) == {x \in Personas : x[1] \in Revoked(old, ReadImplying(acl), conf.owner, owner)}
<1>3. PICK acl \in [Users -> GrantLevels \cup {None}], owner \in Users \cup {conf.owner} :
        \/ Return(p) /\ UNCHANGED cache
        \/ /\ owner # None => acl[owner] = None
           /\ \/ /\ ~((old # ReadImplying(acl) \/ owner # conf.owner) /\ n > 0)
                 /\ Prepare(p, Edited(acl, owner)) /\ UNCHANGED cache
              \/ EndSessions(Ends(acl, owner), p, Prepared(p, Reseal(acl, owner)))
    BY Zenon DEF SetAcl
<1> DEFINE new == ReadImplying(acl)
<1>4. owner \in Users /\ owner # None
    BY <1>2
<1>5. acl \in [Users -> Levels \cup {None}]
    BY UserAssumption
<1>6. CASE Return(p) /\ UNCHANGED cache
    BY <1>0, <1>1, <1>6, Returned
<1>7. /\ DOMAIN Edited(acl, owner) = ConfFields /\ Edited(acl, owner).owner = owner
      /\ Edited(acl, owner).acl = acl /\ Edited(acl, owner).keys = conf.keys
    BY <1>0, Zenon DEF Edited, ConfFields
<1>8. n \in 1..n /\ conf.keys \in Seq(KeyVersions) /\ Newest(conf) = conf.keys[n]
    BY <1>0, NewestLast DEF KeysOK
<1>9. UsersOf(Newest(conf).real) = old \cup {conf.owner} /\ Newest(conf).real \subseteq Personas
    BY <1>0, NewestLast, Zenon DEF ConfOK, KeyVersions
<1>10. CASE acl[owner] = None /\ old = new /\ owner = conf.owner /\ Prepare(p, Edited(acl, owner)) /\ UNCHANGED cache
  <2> DEFINE c == Edited(acl, owner)
  <2>1. /\ DOMAIN c = ConfFields /\ c.owner = owner /\ c.acl = acl /\ c.keys = conf.keys
    BY <1>7
  <2> HIDE DEF c
  <2>2. UsersOf(Newest(c).real) = new \cup {owner}
    BY <1>9, <1>10, <2>1 DEF Newest
  <2>3. ConfOK(c) /\ Keeps(conf, c) /\ used = Newest(c).epoch + 1 /\ used \in Nat
    BY <1>1, <1>4, <1>5, <1>8, <1>10, <2>1, <2>2, EditedOK, Zenon
  <2>4. Prepare(p, c) /\ cache' \in [Personas -> SUBSET FitKeys] /\ req[p].pc # "idle"
    BY <1>0, <1>1, <1>10, Zenon DEF c
  <2> QED
    BY <1>1, <2>3, <2>4, PreparesOK, Zenon
<1>11. CASE acl[owner] = None /\ EndSessions(Ends(acl, owner), p, Prepared(p, Reseal(acl, owner)))
  <2> DEFINE c == Reseal(acl, owner)
             real == Resealed(Newest(conf).real, old, new, conf.owner, owner)
  <2>1. owner \notin new /\ new \subseteq Users
    BY <1>4, <1>5, <1>11, OwnerApart
  <2>2. UsersOf(real) = new \cup {owner} /\ real \subseteq Personas
    BY <1>2, <1>4, <1>9, <2>1, ResealedUsers, Zenon
  <2>3. c = [Edited(acl, owner) EXCEPT !.keys[n].real = real]
    BY <1>7, <1>8
  <2> HIDE DEF real
  <2>4. /\ DOMAIN c = ConfFields /\ c.owner = owner /\ c.acl = acl
        /\ c.keys = [conf.keys EXCEPT ![n] = [@ EXCEPT !.real = real]]
    BY <1>7, <2>3, Zenon DEF ConfFields
  <2> HIDE DEF c
  <2>5. /\ Len(c.keys) = n /\ c.keys \in Seq(KeyVersions)
        /\ \A i \in 1..n : c.keys[i].epoch = conf.keys[i].epoch /\ c.keys[i].kp = conf.keys[i].kp
        /\ c.keys[n].real = real
    <3>1. conf.keys[n] \in KeyVersions
      BY <1>8
    <3> DEFINE k == [conf.keys[n] EXCEPT !.real = real]
    <3>2. k \in KeyVersions /\ k.epoch = conf.keys[n].epoch /\ k.kp = conf.keys[n].kp /\ k.real = real
      BY <2>2, <3>1 DEF KeyVersions
    <3> HIDE DEF k
    <3>3. c.keys = [conf.keys EXCEPT ![n] = k]
      BY <2>4 DEF k
    <3> QED
      BY <1>8, <3>2, <3>3
  <2>6. UsersOf(Newest(c).real) = new \cup {owner}
    BY <2>2, <2>5 DEF Newest
  <2>7. ConfOK(c) /\ Keeps(conf, c) /\ used = Newest(c).epoch + 1 /\ used \in Nat
    BY <1>1, <1>4, <1>5, <1>11, <2>4, <2>5, <2>6, EditedOK, Zenon
  <2>8. EndSessions(Ends(acl, owner), p, Prepared(p, c))
    BY <1>11 DEF c
  <2>9. Ends(acl, owner) \in SUBSET Personas
    OBVIOUS
  <2> HIDE DEF Ends
  <2>10. After(p, Prepared(p, c)) /\ cache' \in [Personas -> SUBSET FitKeys]
    BY <1>0, <2>8, <2>9, PreparedShape, EndAfter, Zenon
  <2> QED
    BY <1>1, <2>7, <2>10, PreparedOK
<1> QED
    BY <1>3, <1>4, <1>6, <1>8, <1>10, <1>11

\* share_or_revoke: the caller keeps its row in every epoch it replaces it in.
LEMMA SharedOK ==
    ASSUME ConfOK(conf), used = Newest(conf).epoch + 1, NEW w \in Personas,
           NEW slots \in SUBSET Slots, slots # {},
           NEW c, c = [conf EXCEPT !.keys =
                         [i \in 1..Len(conf.keys) |->
                            IF w \in conf.keys[i].real
                              THEN [conf.keys[i] EXCEPT !.real = PutGrantSlot(@, w[1], slots)]
                              ELSE conf.keys[i]]]
    PROVE  ConfOK(c) /\ Keeps(conf, c) /\ used = Newest(c).epoch + 1
<1> DEFINE n == Len(conf.keys)
           Shared(k) == IF w \in k.real THEN [k EXCEPT !.real = PutGrantSlot(@, w[1], slots)] ELSE k
<1>1. KeysOK(conf.keys) /\ DOMAIN conf = ConfFields
    BY DEF ConfOK
<1>2. n \in 1..n /\ n \in Nat /\ Newest(conf) = conf.keys[n] /\ \A i \in 1..n : conf.keys[i] \in KeyVersions
    BY <1>1, NewestLast DEF KeysOK
<1>3. ASSUME NEW k \in KeyVersions
      PROVE  /\ Shared(k) \in KeyVersions /\ Shared(k).epoch = k.epoch /\ Shared(k).kp = k.kp
             /\ UsersOf(Shared(k).real) = UsersOf(k.real)
  <2>1. CASE w \notin k.real
    BY <2>1
  <2>2. CASE w \in k.real
    <3> DEFINE g == PutGrantSlot(k.real, w[1], slots)
    <3>1. k.real \subseteq Personas /\ w[1] \in Users
      BY DEF KeyVersions, Personas
    <3>2. g \subseteq Personas
      BY <3>1, PutPersonas
    <3>3. UsersOf(g) = (UsersOf(k.real) \ {w[1]}) \cup {w[1]}
      BY PutUsers
    <3>4. w[1] \in UsersOf(k.real)
      BY <2>2 DEF UsersOf
    <3> HIDE DEF g
    <3>5. Shared(k) = [k EXCEPT !.real = g]
      BY <2>2 DEF g
    <3>6. /\ Shared(k) \in KeyVersions /\ Shared(k).epoch = k.epoch /\ Shared(k).kp = k.kp /\ Shared(k).real = g
      BY <3>2, <3>5 DEF KeyVersions
    <3> QED
      BY <3>3, <3>4, <3>6, Zenon
  <2> QED
    BY <2>1, <2>2
<1>4. /\ DOMAIN c = ConfFields /\ c.owner = conf.owner /\ c.acl = conf.acl
      /\ c.keys = [i \in 1..n |-> Shared(conf.keys[i])]
    BY <1>1 DEF ConfFields
<1> HIDE DEF Shared
<1>5. c.keys \in Seq(KeyVersions) /\ Len(c.keys) = n /\ \A i \in 1..n : c.keys[i] = Shared(conf.keys[i])
    BY <1>2, <1>3, <1>4
<1>6. \A i \in 1..n : c.keys[i].epoch = conf.keys[i].epoch /\ c.keys[i].kp = conf.keys[i].kp
    BY <1>2, <1>3, <1>5
<1>7. UsersOf(Newest(c).real) = UsersOf(Newest(conf).real)
  <2>1. Newest(c) = Shared(Newest(conf))
    BY <1>2, <1>5, Zenon DEF Newest
  <2> QED
    BY <1>2, <1>3, <2>1
<1>8. UsersOf(Newest(c).real) = ReadImplying(c.acl) \cup {c.owner}
    BY <1>4, <1>7 DEF ConfOK
<1>9. c.owner \in Users /\ c.acl \in [Users -> Levels \cup {None}] /\ c.acl[c.owner] = None
    BY <1>4 DEF ConfOK
<1> QED
    BY <1>4, <1>5, <1>6, <1>8, <1>9, RegrantedOK, Zenon

LEMMA AfterShareOK ==
    ASSUME AloneInv, Alone, NEW p \in Admins, req[p].pc # "write", req[p].pc # "idle", AfterShare(p),
           UNCHANGED <<exists, conf, objs, used>>, cache' \in [Personas -> SUBSET FitKeys]
    PROVE  AloneInv'
<1>0. /\ p \in Procs /\ ShapeOK(req[p]) /\ DOMAIN req[p] = ReqFields /\ exists = TRUE
      /\ AdminOK(req[p], conf, used)
    BY AdminFacts, Zenon
<1>1. CASE Return(p)
    BY <1>0, <1>1, Returned, Zenon
<1> DEFINE r == [req[p] EXCEPT !.pc = "revoke"]
<1>2. CASE req[p].edit # "share" /\ Step(p, r)
  <2>1. DOMAIN r = ReqFields /\ r.pc = "revoke" /\ r.who = req[p].who /\ r.own = req[p].own /\ r.slot = req[p].slot
    BY <1>0, Zenon DEF ReqFields
  <2> HIDE DEF r
  <2>2. ShapeOK(r) /\ r.who \in Personas /\ NamesSlot(r)
    BY <1>0, <1>2, <2>1 DEF ShapeOK, AdminOK, NamesSlot
  <2> QED
    BY <1>2, <2>1, <2>2, AdminGoes
<1> QED
    BY <1>1, <1>2 DEF AfterShare, Goto

LEMMA ShareSealOK ==
    ASSUME AloneInv, Alone, NEW p \in Admins, ShareSeal(p)
    PROVE  AloneInv'
<1> DEFINE w == req[p].who
           slots == {w[2]} \cup (IF req[p].edit = "share" THEN {req[p].slot} ELSE {})
           c == [conf EXCEPT !.keys =
                   [i \in 1..Len(conf.keys) |->
                      IF w \in conf.keys[i].real
                        THEN [conf.keys[i] EXCEPT !.real = PutGrantSlot(@, w[1], slots)]
                        ELSE conf.keys[i]]]
<1>0. /\ p \in Procs /\ Shape /\ ConfOK(conf) /\ KeysOK(conf.keys) /\ ShapeOK(req[p]) /\ used \in Nat
      /\ cache \in [Personas -> SUBSET FitKeys] /\ AdminOK(req[p], conf, used)
    BY AdminFacts, Zenon DEF Shape
<1>1. /\ req[p].pc = "seal" /\ UNCHANGED <<exists, conf, objs, used>>
    BY DEF ShareSeal, store
<1>2. w \in Personas /\ req[p].mine = conf /\ req[p].slot \in Slots /\ used = Newest(conf).epoch + 1
    BY <1>0, <1>1, AdminFacts, Zenon DEF AdminOK, NamesSlot
<1>3. cache' \in [Personas -> SUBSET FitKeys]
  <2>1. CacheSeen(cache[w], conf, w) \subseteq FitKeys
    BY <1>0, <1>2, SeenFits, Zenon
  <2>2. cache' = cache \/ cache' = [cache EXCEPT ![w] = CacheSeen(cache[w], conf, w)]
    BY DEF ShareSeal
  <2> QED
    BY <1>0, <1>2, <2>1, <2>2, CacheKept
<1>4. slots \in SUBSET Slots /\ slots # {}
    BY <1>2 DEF Personas
<1>5. AfterShare(p) \/ Prepare(p, c)
    BY <1>2, Zenon DEF ShareSeal
<1>6. CASE AfterShare(p)
    BY <1>1, <1>3, <1>6, AfterShareOK, Zenon
<1>7. CASE Prepare(p, c)
  <2>1. ConfOK(c) /\ Keeps(conf, c) /\ used = Newest(c).epoch + 1
    BY <1>0, <1>2, <1>4, SharedOK, Zenon
  <2> HIDE DEF c
  <2> QED
    BY <1>0, <1>1, <1>3, <1>7, <2>1, PreparesOK
<1> QED
    BY <1>5, <1>6, <1>7

\* The sidecar is replaced by a good edit of what it still holds.
LEMMA WriteConfigOK ==
    ASSUME AloneInv, Alone, NEW p \in Admins, WriteConfig(p)
    PROVE  AloneInv'
<1>0. /\ p \in Procs /\ Rekeyers = {} /\ (\A q \in Admins : q = p) /\ Shape /\ ShapeOK(req[p])
      /\ DOMAIN req[p] = ReqFields /\ AdminOK(req[p], conf, used)
    BY AdminFacts, Zenon
<1>1. /\ req[p].pc = "write" /\ conf' = req[p].mine /\ exists' = TRUE /\ AfterShare(p)
      /\ UNCHANGED <<objs, used, cache>>
    BY DEF WriteConfig
<1>2. ConfOK(conf') /\ Keeps(conf, conf') /\ used' = Newest(conf').epoch + 1 /\ req[p].who \in Personas
    BY <1>0, <1>1, Zenon DEF AdminOK
<1>3. PICK r : After(p, r) /\ AdminOK(r, conf', used')
  <2>1. CASE Return(p)
    <3>1. After(p, NoReq)
      BY <1>0, <2>1, NoReqShape, StepAfter DEF Return
    <3>2. AdminOK(NoReq, conf', used')
      BY NoReqShape DEF InRole
    <3> QED
      BY <3>1, <3>2
  <2> DEFINE r == [req[p] EXCEPT !.pc = "revoke"]
  <2>2. CASE req[p].edit # "share" /\ Step(p, r)
    <3>1. DOMAIN r = ReqFields /\ r.pc = "revoke" /\ r.who = req[p].who /\ r.own = req[p].own /\ r.slot = req[p].slot
      BY <1>0 DEF ReqFields
    <3> HIDE DEF r
    <3>2. ShapeOK(r) /\ AdminOK(r, conf', used')
      BY <1>0, <1>2, <2>2, <3>1, Zenon DEF ShapeOK, AdminOK, NamesSlot
    <3> QED
      BY <1>0, <2>2, <3>2, StepAfter, Zenon
  <2> QED
    BY <1>1, <2>1, <2>2 DEF AfterShare, Goto
<1>4. \A e : Has(conf, e) => Has(conf', e)
    BY <1>2, Zenon DEF Keeps, Has
<1>5. \A o \in Objects : ObjOK(objs'[o], conf')
    BY <1>1, <1>4 DEF AloneInv, ObjOK
<1>6. \A q \in Writers : WriterOK(req[q], conf')
    BY <1>4, Zenon DEF AloneInv, WriterOK
<1>7. objs' = [o \in Objects |-> objs'[o]] /\ cache' \in [Personas -> SUBSET FitKeys] /\ used' \in Nat
    BY <1>0, <1>1 DEF Shape
<1>8. InRole(p, r, conf', objs', used')
    BY <1>3, RolesApart
<1> QED
    BY <1>0, <1>1, <1>2, <1>3, <1>5, <1>6, <1>7, <1>8, Preserved, Zenon

LEMMA AdminStepOK ==
    ASSUME AloneInv, Alone, NEW p \in Admins, Admin(p)
    PROVE  AloneInv'
<1>0. /\ p \in Procs /\ Shape /\ ConfOK(conf) /\ KeysOK(conf.keys) /\ ShapeOK(req[p]) /\ DOMAIN req[p] = ReqFields
      /\ DOMAIN conf = ConfFields /\ used \in Nat /\ exists = TRUE
      /\ cache \in [Personas -> SUBSET FitKeys] /\ AdminOK(req[p], conf, used)
    BY AdminFacts, Zenon DEF Shape
<1>1. CASE AdminAuthorize(p)
  <2>1. PICK op \in Ops, w \in Personas :
          /\ UNCHANGED cache \/ Remember(w)
          /\ Step(p, [NoReq EXCEPT !.pc = op, !.op = op, !.who = w, !.gen = IF op = "acl" THEN conf.gen ELSE 0])
    BY <1>1, Zenon DEF AdminAuthorize
  <2> DEFINE r == [NoReq EXCEPT !.pc = op, !.op = op, !.who = w, !.gen = IF op = "acl" THEN conf.gen ELSE 0]
  <2>2. DOMAIN r = ReqFields /\ r.pc = op /\ r.own = None /\ r.who = w /\ r.edit = "share"
    BY DEF ReqFields, NoReq
  <2>3. Step(p, r)
    BY <2>1
  <2> HIDE DEF r
  <2>4. ShapeOK(r)
    BY <2>2 DEF ShapeOK
  <2>5. r.pc \in {"rotate", "acl", "share", "config"} /\ NamesSlot(r)
    BY <2>2 DEF Alone, NamesSlot
  <2>6. UNCHANGED <<exists, conf, objs, used>> /\ req[p].pc = "idle"
    BY <1>1 DEF AdminAuthorize, store
  <2>7. cache' \in [Personas -> SUBSET FitKeys]
    BY <1>0, <2>1, Remembered
  <2> QED
    BY <2>2, <2>3, <2>4, <2>5, <2>6, <2>7, AdminGoes
<1>2. CASE ShareRead(p)
  <2>1. PICK s \in Slots \ {req[p].who[2]}, edit \in {"share", "withdraw"} :
          Step(p, [req[p] EXCEPT !.pc = "seal", !.mine = conf, !.slot = s, !.edit = edit])
    BY <1>2, Zenon DEF ShareRead
  <2> DEFINE r == [req[p] EXCEPT !.pc = "seal", !.mine = conf, !.slot = s, !.edit = edit]
  <2>2. /\ DOMAIN r = ReqFields /\ r.pc = "seal" /\ r.own = req[p].own /\ r.who = req[p].who
        /\ r.mine = conf /\ r.slot = s
    BY <1>0 DEF ReqFields
  <2>3. Step(p, r)
    BY <2>1
  <2> HIDE DEF r
  <2>4. ShapeOK(r) /\ r.who \in Personas /\ NamesSlot(r)
    BY <1>0, <1>2, <2>2 DEF ShapeOK, AdminOK, ShareRead, NamesSlot
  <2>5. UNCHANGED <<exists, conf, objs, used, cache>> /\ req[p].pc = "share"
    BY <1>2, Zenon DEF ShareRead, store
  <2> QED
    BY <1>0, <2>2, <2>3, <2>4, <2>5, AdminGoes, Zenon
<1>3. CASE ShareRevoke(p)
  <2>1. /\ EndSessions({<<req[p].who[1], req[p].slot>>}, p, NoReq) /\ UNCHANGED <<exists, conf, objs, used>>
        /\ req[p].pc = "revoke"
    BY <1>3 DEF ShareRevoke, store
  <2>2. {<<req[p].who[1], req[p].slot>>} \in SUBSET Personas
    BY <1>0, <2>1, Zenon DEF AdminOK, NamesSlot, Personas
  <2>3. After(p, NoReq) /\ cache' \in [Personas -> SUBSET FitKeys]
    BY <1>0, <2>1, <2>2, NoReqShape, EndAfter, Zenon
  <2> QED
    BY <1>0, <2>1, <2>3, NoReqShape, OneStep, Zenon
<1>4. CASE SetConfig(p)
  <2> DEFINE c == [conf EXCEPT !.quota = 1 - @]
  <2>1. DOMAIN c = ConfFields /\ c.owner = conf.owner /\ c.acl = conf.acl /\ c.keys = conf.keys
    BY <1>0 DEF ConfFields
  <2>2. Prepare(p, c) /\ UNCHANGED <<exists, conf, objs, used, cache>> /\ req[p].pc = "config"
    BY <1>4, Zenon DEF SetConfig, store
  <2> HIDE DEF c
  <2>3. ConfOK(c) /\ Newest(c) = Newest(conf)
    BY <1>0, <2>1 DEF ConfOK, Newest
  <2>4. Keeps(conf, c)
    BY <2>1 DEF Keeps, Has
  <2>5. used' = Newest(c).epoch + 1
    BY <2>2, <2>3, AdminFacts, Zenon
  <2> QED
    BY <1>0, <2>2, <2>3, <2>4, <2>5, PreparesOK
<1>5. ~DeleteBucket(p)
    BY <1>0 DEF AdminOK, DeleteBucket
<1> QED
    BY <1>1, <1>2, <1>3, <1>4, <1>5, RotateOK, SetAclOK, ShareSealOK, WriteConfigOK DEF Admin

-----------------------------------------------------------------------------
(* Rekeys.                                                                 *)

LEMMA RekeyFacts ==
    ASSUME AloneInv, Alone, NEW p \in Rekeyers
    PROVE  /\ p \in Procs /\ Admins = {} /\ p \notin Admins
           /\ Shape /\ ConfOK(conf) /\ KeysOK(conf.keys) /\ DOMAIN conf = ConfFields
           /\ DOMAIN req[p] = ReqFields /\ ShapeOK(req[p]) /\ RekeyerOK(req[p], conf, objs)
           /\ exists = TRUE /\ cache \in [Personas -> SUBSET FitKeys]
           /\ used = Newest(conf).epoch + 1 /\ used \in Nat
<1>1. p \in Procs /\ Admins = {}
    BY Zenon DEF Procs, Alone
<1>2. Shape /\ ConfOK(conf) /\ RekeyerOK(req[p], conf, objs) /\ used = Newest(conf).epoch + 1
    BY <1>1 DEF AloneInv
<1>3. exists = TRUE /\ cache \in [Personas -> SUBSET FitKeys] /\ ShapeOK(req[p]) /\ used \in Nat
    BY <1>1, <1>2, Zenon DEF Shape
<1> QED
    BY <1>1, <1>2, <1>3, Zenon DEF ConfOK, ShapeOK

\* A step of a rekey that leaves the configuration and the objects alone.
LEMMA RekeyGoes ==
    ASSUME AloneInv, Alone, NEW p \in Rekeyers, NEW r, DOMAIN r = ReqFields, r.own = req[p].own \/ r.own = None,
           Step(p, r), RekeyerOK(r, conf, objs),
           exists' = TRUE, UNCHANGED <<conf, objs, used>>, cache' \in [Personas -> SUBSET FitKeys]
    PROVE  AloneInv'
<1>0. p \in Procs /\ p \notin Admins /\ Shape /\ ShapeOK(req[p])
    BY RekeyFacts, Zenon
<1>1. ShapeOK(r)
    BY <1>0, Zenon DEF ShapeOK
<1>2. InRole(p, r, conf, objs, used)
    BY RolesApart, Zenon
<1> QED
    BY <1>0, <1>1, <1>2, StepAfter, OneStep

\* No object is left behind: the job's objects, and those it has yet to do.
LEMMA RekeyCommitOK ==
    ASSUME AloneInv, Alone, NEW p \in Rekeyers, RekeyCommit(p)
    PROVE  AloneInv'
<1>0. /\ p \in Procs /\ Admins = {} /\ Shape /\ ShapeOK(req[p]) /\ DOMAIN req[p] = ReqFields /\ ConfOK(conf)
      /\ RekeyerOK(req[p], conf, objs) /\ exists = TRUE /\ used = Newest(conf).epoch + 1 /\ used \in Nat
      /\ cache \in [Personas -> SUBSET FitKeys] /\ KeysOK(conf.keys)
    BY RekeyFacts, Zenon
<1>1. /\ req[p].pc = "kcommit" /\ Commit(p, req[p].src) /\ UNCHANGED <<exists, conf, used, cache>>
    BY Zenon DEF RekeyCommit
<1>2. /\ req[p].key \in FitKeys /\ req[p].key[1] = Newest(conf).epoch /\ Has(conf, req[p].key[1])
    BY <1>0, <1>1, NewestLast, Zenon DEF RekeyerOK, Moving
<1>3. /\ objs' = [o \in Objects |-> objs'[o]]
      /\ \A o \in Objects : ObjOK(objs'[o], conf)
      /\ \A q \in Rekeyers \ {p} : RekeyerOK(req[q], conf, objs')
      /\ \A o \in Objects : objs'[o] = objs[o] \/ (objs'[o] # None => objs'[o].epoch = req[p].key[1])
    BY <1>0, <1>1, <1>2, CommitOK
<1>4. PICK r : After(p, r) /\ RekeyerOK(r, conf, objs')
  <2>1. CASE Return(p)
    <3>1. After(p, NoReq)
      BY <1>0, <2>1, NoReqShape, StepAfter DEF Return
    <3>2. RekeyerOK(NoReq, conf, objs')
      BY NoReqShape DEF InRole
    <3> QED
      BY <3>1, <3>2
  <2> DEFINE r == [req[p] EXCEPT !.pc = "next"]
  <2>2. CASE p \in staged /\ Step(p, r)
    <3>1. /\ DOMAIN r = ReqFields /\ r.pc = "next" /\ r.own = req[p].own /\ r.key = req[p].key
          /\ r.todo = req[p].todo
      BY <1>0, Zenon DEF ReqFields
    <3> HIDE DEF r
    <3>2. ShapeOK(r)
      BY <1>0, <3>1 DEF ShapeOK
    <3>3. ASSUME NEW o \in Objects, objs'[o] # None, objs'[o].epoch < r.key[1]
          PROVE  \E t \in r.todo : t[1] = o
      <4>1. r.key[1] \in Nat
        BY <1>2, <3>1 DEF FitKeys
      <4>2. objs'[o] = objs[o]
        BY <1>3, <3>1, <3>3, <4>1
      <4>3. (\E t \in req[p].todo : t[1] = o) \/ o = req[p].obj
        BY <1>0, <1>1, <3>1, <3>3, <4>2, Zenon DEF RekeyerOK, Moving
      <4>4. o # req[p].obj
        <5> SUFFICES ASSUME o = req[p].obj PROVE FALSE
          OBVIOUS
        <5>1. objs'[o] = [epoch |-> req[p].key[1], kp |-> req[p].key[2], ver |-> req[p].src]
          <6>1. objs = [x \in Objects |-> objs[x]]
            BY <1>0, Zenon DEF Shape
          <6> QED
            BY <1>1, <2>2, <6>1 DEF Commit
        <5>2. objs'[o].epoch = r.key[1]
          BY <3>1, <5>1
        <5> QED
          BY <3>3, <4>1, <5>2
      <4> QED
        BY <3>1, <4>3, <4>4, Zenon
    <3>4. RekeyerOK(r, conf, objs')
      BY <1>2, <3>1, <3>3 DEF RekeyerOK, Moving
    <3> QED
      BY <1>0, <2>2, <3>2, <3>4, StepAfter
  <2> QED
    BY <2>1, <2>2 DEF RekeyCommit, JobEnds, Goto
<1>5. InRole(p, r, conf', objs', used')
    BY <1>1, <1>4, RolesApart, Zenon
<1>6. \A q \in Writers \ {p} : WriterOK(req[q], conf')
    BY <1>1, Zenon DEF AloneInv
<1> QED
    BY <1>0, <1>1, <1>3, <1>4, <1>5, <1>6, Preserved

\* The pruned copy: the newest key alone, and no object needs another.
LEMMA PruneReadOK ==
    ASSUME AloneInv, Alone, NEW p \in Rekeyers, RekeyPruneRead(p)
    PROVE  AloneInv'
<1>0. /\ DOMAIN req[p] = ReqFields /\ ConfOK(conf) /\ KeysOK(conf.keys) /\ DOMAIN conf = ConfFields
      /\ RekeyerOK(req[p], conf, objs) /\ exists = TRUE /\ cache \in [Personas -> SUBSET FitKeys]
    BY RekeyFacts, Zenon
<1> DEFINE c == [conf EXCEPT !.keys = Retain(@, req[p].key[1])]
           r == [req[p] EXCEPT !.pc = "prune", !.mine = c]
<1>1. req[p].pc = "next" /\ req[p].todo = {} /\ Step(p, r) /\ UNCHANGED <<exists, conf, objs, used, cache>>
    BY DEF RekeyPruneRead, store
<1>2. req[p].key \in FitKeys /\ req[p].key[1] = Newest(conf).epoch
    BY <1>0, <1>1 DEF RekeyerOK, Moving
<1>3. /\ DOMAIN c = ConfFields /\ c.keys = <<Newest(conf)>> /\ c.owner = conf.owner /\ c.acl = conf.acl
    BY <1>0, <1>2, RetainNewest DEF ConfFields
<1> HIDE DEF c
<1>4. DOMAIN r = ReqFields /\ r.pc = "prune" /\ r.mine = c /\ r.key = req[p].key /\ r.own = req[p].own
    BY <1>0 DEF ReqFields
<1> HIDE DEF r
<1>5. /\ Newest(conf) \in KeyVersions /\ Newest(conf).kp = Newest(conf).epoch + 1
      /\ \A i \in 1..Len(conf.keys) : conf.keys[i].epoch <= Newest(conf).epoch
    BY <1>0, NewestLast, Zenon
<1>6. Len(c.keys) = 1 /\ c.keys[1] = Newest(conf) /\ c.keys \in Seq(KeyVersions) /\ c.keys # <<>>
    BY <1>3, <1>5
<1>7. KeysOK(c.keys) /\ Newest(c) = Newest(conf)
    BY <1>5, <1>6 DEF KeysOK, Newest
<1>8. ConfOK(c)
    BY <1>0, <1>3, <1>7, Zenon DEF ConfOK
<1>9. ASSUME NEW o \in Objects, objs[o] # None PROVE objs[o].epoch = req[p].key[1]
  <2>1. objs[o].epoch \in Nat /\ Has(conf, objs[o].epoch)
    BY <1>9, Zenon DEF AloneInv, ObjOK
  <2>2. objs[o].epoch <= Newest(conf).epoch
    BY <1>5, <2>1, Zenon DEF Has
  <2>3. ~(objs[o].epoch < req[p].key[1])
    BY <1>0, <1>1, <1>9, Zenon DEF RekeyerOK, Moving
  <2> QED
    BY <1>2, <2>1, <2>2, <2>3 DEF FitKeys
<1>10. RekeyerOK(r, conf, objs)
    BY <1>2, <1>4, <1>7, <1>8, <1>9, Zenon DEF RekeyerOK, Moving
<1> QED
    BY <1>0, <1>1, <1>4, <1>10, RekeyGoes, Zenon

LEMMA PruneWriteOK ==
    ASSUME AloneInv, Alone, NEW p \in Rekeyers, RekeyPruneWrite(p)
    PROVE  AloneInv'
<1>0. /\ p \in Procs /\ Admins = {} /\ Shape /\ KeysOK(conf.keys) /\ RekeyerOK(req[p], conf, objs)
      /\ cache \in [Personas -> SUBSET FitKeys] /\ used = Newest(conf).epoch + 1 /\ used \in Nat
    BY RekeyFacts, Zenon
<1>1. /\ req[p].pc = "prune" /\ conf' = req[p].mine /\ exists' = TRUE /\ Return(p)
      /\ UNCHANGED <<objs, used, cache>>
    BY Zenon DEF RekeyPruneWrite, JobEnds
<1>2. /\ ConfOK(conf') /\ Newest(conf') = Newest(conf) /\ req[p].key[1] = Newest(conf).epoch
      /\ \A o \in Objects : objs[o] # None => objs[o].epoch = req[p].key[1]
    BY <1>0, <1>1 DEF RekeyerOK
<1>3. Has(conf', Newest(conf').epoch)
    BY <1>2, NewestLast, Zenon DEF ConfOK
<1>4. \A o \in Objects : ObjOK(objs'[o], conf')
    BY <1>1, <1>2, <1>3, Zenon DEF AloneInv, ObjOK
<1>5. \A q \in Writers : WriterOK(req[q], conf')
    BY <1>0, <1>2, <1>3, Zenon DEF AloneInv, WriterOK
<1>6. \A q \in Rekeyers : RekeyerOK(req[q], conf', objs')
    BY <1>1, <1>2, Zenon DEF AloneInv, RekeyerOK
<1>7. After(p, NoReq)
    BY <1>0, <1>1, NoReqShape, StepAfter, Zenon DEF Return
<1>8. InRole(p, NoReq, conf', objs', used')
    BY NoReqShape
<1>9. objs' = [o \in Objects |-> objs'[o]]
    BY <1>0, <1>1 DEF Shape
<1> QED
    BY <1>0, <1>1, <1>2, <1>4, <1>5, <1>6, <1>7, <1>8, <1>9, Preserved, Zenon

LEMMA RekeyOK ==
    ASSUME AloneInv, Alone, NEW p \in Rekeyers, Rekey(p)
    PROVE  AloneInv'
<1>0. /\ p \in Procs /\ Shape /\ DOMAIN req[p] = ReqFields /\ KeysOK(conf.keys)
      /\ RekeyerOK(req[p], conf, objs) /\ exists = TRUE /\ cache \in [Personas -> SUBSET FitKeys]
    BY RekeyFacts, Zenon
<1>1. ASSUME Return(p), req[p].pc # "write", exists' = TRUE, UNCHANGED <<conf, objs, used, cache>> PROVE AloneInv'
    BY <1>0, <1>1, Returned, Zenon
<1>2. CASE RekeyAuthorize(p)
  <2>1. PICK w \in Personas : Remember(w) /\ Step(p, [NoReq EXCEPT !.pc = "start", !.who = w])
    BY <1>2, Zenon DEF RekeyAuthorize
  <2> DEFINE r == [NoReq EXCEPT !.pc = "start", !.who = w]
  <2>2. DOMAIN r = ReqFields /\ r.pc = "start" /\ r.own = None
    BY DEF ReqFields, NoReq
  <2>3. Step(p, r) /\ UNCHANGED <<exists, conf, objs, used>>
    BY <1>2, <2>1, Zenon DEF RekeyAuthorize, store
  <2> HIDE DEF r
  <2>4. RekeyerOK(r, conf, objs)
    BY <2>2 DEF RekeyerOK, Moving
  <2>5. cache' \in [Personas -> SUBSET FitKeys]
    BY <1>0, <2>1, Remembered
  <2> QED
    BY <1>0, <2>2, <2>3, <2>4, <2>5, RekeyGoes
<1>3. CASE RekeyRead(p)
  <2>1. CASE Return(p)
    BY <1>0, <1>1, <1>3, <2>1 DEF RekeyRead, store
  <2> DEFINE r == [req[p] EXCEPT !.pc = "try", !.mine = conf]
  <2>2. CASE Step(p, r)
    <3>1. DOMAIN r = ReqFields /\ r.pc = "try" /\ r.own = req[p].own
      BY <1>0 DEF ReqFields
    <3> HIDE DEF r
    <3>2. RekeyerOK(r, conf, objs)
      BY <3>1 DEF RekeyerOK, Moving
    <3> QED
      BY <1>0, <1>3, <2>2, <3>1, <3>2, RekeyGoes DEF RekeyRead, store
  <2> QED
    BY <1>3, <2>1, <2>2 DEF RekeyRead
<1>4. CASE RekeyStart(p)
  <2>1. CASE Return(p)
    BY <1>0, <1>1, <1>4, <2>1, Zenon DEF RekeyStart, store
  <2> DEFINE r == [req[p] EXCEPT !.pc = "job", !.mine = NoConfig,
                      !.held = {KeyOf(req[p].mine.keys[i]) : i \in Older(req[p].mine)}]
  <2>2. CASE Step(p, r)
    <3>1. DOMAIN r = ReqFields /\ r.pc = "job" /\ r.own = req[p].own
      BY <1>0, Zenon DEF ReqFields
    <3> HIDE DEF r
    <3>2. RekeyerOK(r, conf, objs)
      BY <3>1 DEF RekeyerOK, Moving
    <3> QED
      BY <1>0, <1>4, <2>2, <3>1, <3>2, RekeyGoes DEF RekeyStart, store
  <2> QED
    BY <1>4, <2>1, <2>2, Zenon DEF RekeyStart, Spawn
<1>5. CASE RekeyNewest(p)
  <2>1. CASE Return(p)
    BY <1>0, <1>1, <1>5, <2>1 DEF RekeyNewest, store
  <2> DEFINE r == [req[p] EXCEPT !.pc = "collect", !.key = KeyOf(Newest(conf))]
  <2>2. CASE Step(p, r)
    <3>1. DOMAIN r = ReqFields /\ r.pc = "collect" /\ r.own = req[p].own /\ r.key = KeyOf(Newest(conf))
      BY <1>0 DEF ReqFields
    <3> HIDE DEF r
    <3>2. RekeyerOK(r, conf, objs)
      BY <1>0, <3>1, NewestFits, Zenon DEF RekeyerOK, Moving
    <3> QED
      BY <1>0, <1>5, <2>2, <3>1, <3>2, RekeyGoes DEF RekeyNewest, store
  <2> QED
    BY <1>5, <2>1, <2>2 DEF RekeyNewest, JobEnds
<1>6. CASE RekeyCollect(p)
  <2> DEFINE todo == {<<o, objs[o].epoch>> : o \in Stale(req[p].key[1])}
             r == [req[p] EXCEPT !.pc = "next", !.todo = todo]
  <2>1. DOMAIN r = ReqFields /\ r.pc = "next" /\ r.own = req[p].own /\ r.key = req[p].key /\ r.todo = todo
    BY <1>0 DEF ReqFields
  <2>2. Step(p, r) /\ UNCHANGED <<exists, conf, objs, used, cache>>
    BY <1>6 DEF RekeyCollect, store
  <2> HIDE DEF r
  <2>3. \A o \in Objects : objs[o] # None /\ objs[o].epoch < r.key[1] => \E t \in todo : t[1] = o
    <3> SUFFICES ASSUME NEW o \in Objects, objs[o] # None, objs[o].epoch < req[p].key[1]
                 PROVE  \E t \in todo : t[1] = o
      BY <2>1
    <3>1. <<o, objs[o].epoch>> \in todo /\ <<o, objs[o].epoch>>[1] = o
      BY DEF Stale
    <3> QED
      BY <3>1, Zenon
  <2> HIDE DEF todo
  <2>4. req[p].key \in FitKeys /\ req[p].key[1] = Newest(conf).epoch
    BY <1>0, <1>6, Zenon DEF RekeyCollect, RekeyerOK
  <2>5. RekeyerOK(r, conf, objs)
    BY <2>1, <2>3, <2>4 DEF RekeyerOK, Moving
  <2> QED
    BY <1>0, <2>1, <2>2, <2>5, RekeyGoes, Zenon
<1>7. CASE RekeyFetch(p)
  <2>1. CASE Return(p)
    BY <1>0, <1>1, <1>7, <2>1, Zenon DEF RekeyFetch, store
  <2>2. ASSUME NEW t \in req[p].todo,
               Step(p, [req[p] EXCEPT !.pc = "klock", !.obj = t[1], !.src = objs[t[1]].ver, !.todo = @ \ {t}])
        PROVE  AloneInv'
    <3> DEFINE r == [req[p] EXCEPT !.pc = "klock", !.obj = t[1], !.src = objs[t[1]].ver, !.todo = @ \ {t}]
    <3>1. /\ DOMAIN r = ReqFields /\ r.pc = "klock" /\ r.own = req[p].own /\ r.key = req[p].key
          /\ r.obj = t[1] /\ r.todo = req[p].todo \ {t}
      BY <1>0 DEF ReqFields
    <3>2. Step(p, r) /\ UNCHANGED <<exists, conf, objs, used, cache>> /\ req[p].pc = "next"
      BY <1>7, <2>2 DEF RekeyFetch, store
    <3> HIDE DEF r
    <3>3. /\ req[p].key \in FitKeys /\ req[p].key[1] = Newest(conf).epoch
          /\ \A o \in Objects : objs[o] # None /\ objs[o].epoch < req[p].key[1] => \E x \in req[p].todo : x[1] = o
      BY <1>0, <3>2, Zenon DEF RekeyerOK, Moving
    <3>4. \A o \in Objects : objs[o] # None /\ objs[o].epoch < r.key[1] => (\E x \in r.todo : x[1] = o) \/ o = r.obj
      BY <3>1, <3>3, Zenon
    <3>5. RekeyerOK(r, conf, objs)
      BY <3>1, <3>3, <3>4 DEF RekeyerOK, Moving
    <3> QED
      BY <1>0, <3>1, <3>2, <3>5, RekeyGoes
  <2> QED
    BY <1>7, <2>1, <2>2, Zenon DEF RekeyFetch, JobEnds
<1>8. CASE RekeyLock(p)
  <2>1. CASE Return(p) /\ exists' = TRUE
    BY <1>1, <1>8, <2>1 DEF RekeyLock
  <2> DEFINE r == [req[p] EXCEPT !.pc = "kcommit"]
  <2>2. CASE BeginPut(p) /\ Step(p, r)
    <3>1. /\ DOMAIN r = ReqFields /\ r.pc = "kcommit" /\ r.own = req[p].own /\ r.key = req[p].key
          /\ r.obj = req[p].obj /\ r.todo = req[p].todo
      BY <1>0 DEF ReqFields
    <3> HIDE DEF r
    <3>2. req[p].pc = "klock" /\ exists' = TRUE /\ UNCHANGED <<conf, objs, used, cache>>
      BY <1>8, <2>2, Zenon DEF RekeyLock, BeginPut
    <3>3. RekeyerOK(r, conf, objs)
      BY <1>0, <3>1, <3>2, Zenon DEF RekeyerOK, Moving
    <3> QED
      BY <1>0, <2>2, <3>1, <3>2, <3>3, RekeyGoes, Zenon
  <2> QED
    BY <1>8, <2>1, <2>2, Zenon DEF RekeyLock, JobEnds, Goto
<1>9. CASE RekeyFails(p)
    BY <1>0, <1>1, <1>9, Zenon DEF RekeyFails, JobEnds
<1> QED
    BY <1>2, <1>3, <1>4, <1>5, <1>6, <1>7, <1>8, <1>9, RekeyCommitOK, PruneReadOK, PruneWriteOK, Zenon DEF Rekey

-----------------------------------------------------------------------------
LEMMA AloneStarts ==
    ASSUME Init, exists
    PROVE  AloneInv
<1>1. PICK w \in Personas, n \in 0..InitEpochs :
        /\ exists = (n > 0)
        /\ conf = IF n = 0 THEN NoConfig
                  ELSE [NoConfig EXCEPT
                          !.owner = w[1],
                          !.keys = [i \in 1..n |-> [epoch |-> i - 1, kp |-> i, real |-> {w}]]]
        /\ objs \in [Objects -> {None} \cup {[epoch |-> i - 1, kp |-> i, ver |-> None] : i \in 1..n}]
        /\ used = n
    BY Zenon DEF Init
<1>2. n \in Nat /\ n > 0 /\ exists = TRUE
  <2>1. n \in Nat
    BY SizeAssumption
  <2>2. n > 0
    BY <1>1, Zenon
  <2>3. exists = TRUE
    BY <1>1, <2>2, Zenon
  <2> QED
    BY <2>1, <2>2, <2>3
<1> DEFINE ks == [i \in 1..n |-> [epoch |-> i - 1, kp |-> i, real |-> {w}]]
<1>3. /\ DOMAIN conf = ConfFields /\ conf.owner = w[1] /\ conf.keys = ks
      /\ conf.acl = [u \in Users |-> None]
    BY <1>1, <1>2 DEF NoConfig, ConfFields
<1>4. /\ ks \in Seq(KeyVersions) /\ Len(ks) = n
      /\ \A i \in 1..n : ks[i].epoch = i - 1 /\ ks[i].kp = i /\ ks[i].real = {w}
    BY <1>2 DEF KeyVersions
<1> HIDE DEF ks
<1>5. KeysOK(conf.keys) /\ Newest(conf) = ks[n]
    BY <1>2, <1>3, <1>4 DEF KeysOK, Newest
<1>6. w[1] \in Users /\ ReadImplying(conf.acl) = {} /\ UsersOf({w}) = {w[1]}
    BY <1>3, NoneAssumption DEF Personas, ReadImplying, UsersOf
<1>7. ConfOK(conf)
  <2>1. conf.acl \in [Users -> Levels \cup {None}] /\ conf.owner \in Users /\ conf.acl[conf.owner] = None
    BY <1>3, <1>6
  <2>2. Newest(conf).real = {w}
    BY <1>2, <1>4, <1>5
  <2>3. UsersOf(Newest(conf).real) = ReadImplying(conf.acl) \cup {conf.owner}
    BY <1>3, <1>6, <2>2, Zenon
  <2> QED
    BY <1>3, <1>5, <2>1, <2>3, Zenon DEF ConfOK
<1>8. ASSUME NEW o \in Objects, objs[o] # None PROVE ObjOK(objs[o], conf)
  <2>1. PICK i \in 1..n : objs[o] = [epoch |-> i - 1, kp |-> i, ver |-> None]
    BY <1>1, <1>8
  <2> QED
    BY <1>2, <1>3, <1>4, <2>1 DEF ObjOK, Has
<1>9. req = [p \in Procs |-> NoReq] /\ cache = [v \in Personas |-> {}]
    BY DEF Init
<1>10. \A p \in Procs : req[p] = NoReq
    BY <1>9
<1>11. Shape
    BY <1>1, <1>2, <1>9, <1>10, NoReqShape DEF Shape
<1>12. \A p \in Procs : InRole(p, req[p], conf, objs, used)
    BY <1>10, NoReqShape
<1>13. used = Newest(conf).epoch + 1
    BY <1>1, <1>2, <1>4, <1>5
<1> QED
    BY <1>7, <1>8, <1>11, <1>12, <1>13, Zenon DEF AloneInv, InRole, Procs, ObjOK

LEMMA AloneStays ==
    ASSUME AloneInv, Alone, [Next]_vars
    PROVE  AloneInv'
<1>1. CASE UNCHANGED vars
  <2>1. UNCHANGED <<exists, conf, objs, used, cache, req>>
    BY <1>1 DEF vars
  <2>2. Shape'
    BY <2>1 DEF AloneInv, Shape
  <2> QED
    BY <2>1, <2>2, Zenon DEF AloneInv
<1> QED
    BY <1>1, PutOK, GetOK, AdminStepOK, RekeyOK DEF Next

\* Keys serve their objects and follow the ACL.  In a bucket that is there and is not
\* deleted, whose keys and grants one request at a time changes (rotate_key, set_acl,
\* share_or_revoke, set_config) or any number of rekeys, and beside any number of PUTs
\* and GETs: every object stays under a retained key, no session's cache has a stale
\* one, a GET decrypts with the key its object needs, and the users who can open the
\* newest epoch are the owner and the read grantees of the ACL.
THEOREM KeysServeAlone ==
    Alone /\ Init /\ exists /\ [][Next]_vars => [](ObjectsReadable /\ CacheFresh /\ GetKeyFits /\ GrantsFollowAcl)
<1> SUFFICES ASSUME Alone
             PROVE  Init /\ exists /\ [][Next]_vars => [](ObjectsReadable /\ CacheFresh /\ GetKeyFits /\ GrantsFollowAcl)
    OBVIOUS
<1>1. Init /\ exists => AloneInv
    BY AloneStarts
<1>2. AloneInv /\ [Next]_vars => AloneInv'
    BY AloneStays
<1>3. AloneInv => ObjectsReadable /\ CacheFresh /\ GetKeyFits /\ GrantsFollowAcl
  <2> SUFFICES ASSUME AloneInv PROVE ObjectsReadable /\ CacheFresh /\ GetKeyFits /\ GrantsFollowAcl
    OBVIOUS
  <2>0. ConfOK(conf) /\ KeysOK(conf.keys)
    BY Zenon DEF AloneInv, ConfOK
  <2>1. ObjectsReadable
    <3> SUFFICES ASSUME NEW o \in Objects, objs[o] # None
                 PROVE  \E i \in 1..Len(conf.keys) : KeyOf(conf.keys[i]) = <<objs[o].epoch, objs[o].kp>>
      BY DEF ObjectsReadable
    <3>1. objs[o].kp = objs[o].epoch + 1 /\ Has(conf, objs[o].epoch)
      BY Zenon DEF AloneInv, ObjOK
    <3>2. PICK i \in 1..Len(conf.keys) : conf.keys[i].epoch = objs[o].epoch
      BY <3>1 DEF Has
    <3> QED
      BY <2>0, <3>1, <3>2, Zenon DEF KeysOK, KeyOf
  <2>2. CacheFresh
    <3>1. \A w \in Personas : \A k \in cache[w] : k[2] = k[1] + 1
      BY DEF AloneInv, Shape, FitKeys
    <3> QED
      BY <2>0, <3>1, Zenon DEF CacheFresh, KeysOK
  <2>3. GetKeyFits
    BY Zenon DEF AloneInv, ReaderOK, GetKeyFits
  <2>4. GrantsFollowAcl
    BY <2>0, NoneAssumption DEF ConfOK, GrantsFollowAcl, UsersOf
  <2> QED
    BY <2>1, <2>2, <2>3, <2>4
<1> QED
    BY <1>1, <1>2, <1>3, PTL
=============================================================================
