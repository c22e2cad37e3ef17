----------------------------- MODULE BucketKeys -----------------------------
(***************************************************************************)
(* The key epochs of one bucket: who can open them, which epoch an object  *)
(* is encrypted under, and the requests that change either.  Translated    *)
(* from crates/y2qd/src/bucket_keys.rs, authz.rs, handlers/keys.rs,        *)
(* handlers/acl.rs, handlers/personas.rs, handlers/buckets.rs, and the     *)
(* paths of handlers/put.rs and get.rs that use the bucket configuration.  *)
(*                                                                         *)
(* The configuration sidecar is read and replaced whole, and no lock       *)
(* covers the time between: every request keeps the copy it read (mine)    *)
(* and writes an edited copy back.  A key pair is a number; a sealed grant *)
(* is real for the personas in "real" and a decoy for all others.          *)
(***************************************************************************)
EXTENDS Naturals, Sequences, FiniteSets, Authz

CONSTANTS
    Primary, Role,       \* Primary[u], Role[u]
    Objects,             \* object keys of the bucket
    Writers,             \* PUT requests
    Readers,             \* GET requests
    Admins,              \* rotate-key, ACL, persona-share, config, delete requests
    Rekeyers,            \* POST rekey requests
    Ops,                 \* the operations Admins choose from
    GrantLevels,         \* the levels a PUT of the ACL grants
    InitEpochs,          \* most epochs the bucket starts with
    MaxRetainedEpochs,   \* MAX_RETAINED_EPOCHS
    MaxKeyPairs,         \* bound on the key pairs ever generated
    MaxGen               \* bound on the ACL generation

Personas == Users \X Slots
Procs == Writers \cup Readers \cup Admins \cup Rekeyers
Levels == {"read", "write", "writeonly", "admin"}

ASSUME SizeAssumption ==
    /\ MaxRetainedEpochs \in Nat \ {0} /\ MaxKeyPairs \in Nat /\ MaxGen \in Nat
    /\ InitEpochs \in 0..MaxKeyPairs /\ InitEpochs <= MaxRetainedEpochs
ASSUME UserAssumption ==
    /\ Primary \in [Users -> Slots]
    /\ Role \in [Users -> Roles]
    /\ GrantLevels \subseteq Levels
ASSUME NoneAssumption == None \notin Users \cup Levels \cup Procs
ASSUME DisjointAssumption ==
    /\ Writers \cap (Readers \cup Admins \cup Rekeyers) = {}
    /\ Readers \cap (Admins \cup Rekeyers) = {} /\ Admins \cap Rekeyers = {}

VARIABLES
    exists,     \* the bucket's directory is there
    conf,       \* the configuration sidecar
    objs,       \* objs[o]: the object at o, or None
    olock,      \* objects with an entry in the write-lock registry
    staged,     \* requests whose staging file is in the bucket's directory
    job,        \* the RekeyRegistry entry
    used,       \* number of key pairs generated so far
    cache,      \* cache[w]: <<epoch, key pair>> in the key cache of w's session
    req         \* req[p]: what request p has in hand

vars == <<exists, conf, objs, olock, staged, job, used, cache, req>>
store == <<exists, objs, olock, staged>>

NoConfig == [owner |-> None, acl |-> [u \in Users |-> None], gen |-> 0,
             quota |-> 0, keys |-> <<>>]

\* A request at rest.  who: the caller's persona; mine: its copy of the
\* configuration; obj, key: the object and the key it uses; src: the content or
\* key pair it read; op, gen, slot, edit: the parameters of an edit; held, todo:
\* the keys and the stale objects of a rekey job; own: the key cache of its
\* session once that session has been ended.
NoReq == [pc |-> "idle", who |-> None, mine |-> NoConfig, obj |-> None, key |-> <<0, 0>>,
          src |-> None, op |-> None, gen |-> 0, slot |-> None, edit |-> "share",
          held |-> {}, todo |-> {}, own |-> None]

\* A bucket that is not there, or one that some persona claimed, whose key it
\* rotated, and whose objects were written under any of the epochs.
Init ==
    /\ \E w \in Personas, n \in 0..InitEpochs :
        /\ exists = (n > 0)
        /\ conf = IF n = 0 THEN NoConfig
                  ELSE [NoConfig EXCEPT
                          !.owner = w[1],
                          !.keys = [i \in 1..n |-> [epoch |-> i - 1, kp |-> i, real |-> {w}]]]
        /\ objs \in [Objects -> {None} \cup {[epoch |-> i - 1, kp |-> i, ver |-> None] : i \in 1..n}]
        /\ used = n
    /\ olock = {} /\ staged = {} /\ job = "idle"
    /\ cache = [w \in Personas |-> {}]
    /\ req = [p \in Procs |-> NoReq]

Step(p, r) == req' = [req EXCEPT ![p] = r]
Goto(p, to) == Step(p, [req[p] EXCEPT !.pc = to])
Return(p) == Step(p, NoReq)

-----------------------------------------------------------------------------
(* bucket_keys.rs and authz.rs                                             *)

Newest(c) == c.keys[Len(c.keys)]
KeyOf(kv) == <<kv.epoch, kv.kp>>

\* The cache of the session that request p came with.
SessionKeys(p) == IF req[p].own = None THEN cache[req[p].who] ELSE req[p].own

\* The key of an epoch in a session's cache or, if it opens, in the config.
ResolveReadKey(seen, c, w, e) ==
    LET cached == {k \in seen : k[1] = e}
    IN  IF cached # {} THEN cached
        ELSE {KeyOf(c.keys[i]) : i \in {j \in 1..Len(c.keys) : c.keys[j].epoch = e /\ w \in c.keys[j].real}}

IsVisible(seen, c, w) == c.keys # <<>> /\ ResolveReadKey(seen, c, w, Newest(c).epoch) # {}

\* What the check leaves in the session's cache.
CacheSeen(seen, c, w) ==
    IF c.keys = <<>> THEN seen ELSE seen \cup ResolveReadKey(seen, c, w, Newest(c).epoch)

BucketGrantCaps(c, u) ==
    IF c.owner = None THEN {} ELSE IF c.owner = u THEN Verbs ELSE GrantCaps(c.acl[u])

IsWriteOnly(c, u) == c.owner \notin {None, u} /\ c.acl[u] = "writeonly"

EffectiveCaps(seen, c, w) ==
    LET u == w[1]
    IN  IF IsVisible(seen, c, w)
          THEN IF RoleIsGlobal(Role[u]) THEN RoleCaps(Role[u])
               ELSE RoleCaps(Role[u]) \cap BucketGrantCaps(c, u)
          ELSE IF IsWriteOnly(c, u) THEN RoleCaps(Role[u]) \cap {"write"} ELSE {}

\* authorize_bucket lets persona w pass.
Authorized(w, verb) == verb \in EffectiveCaps(cache[w], conf, w)
Remember(w) == cache' = [cache EXCEPT ![w] = CacheSeen(@, conf, w)]

ReadImplying(acl) == {u \in Users : acl[u] \in Levels \ {"writeonly"}}

\* current_grantees: the caller's own persona, and the primary slot of the
\* owner and of every read grantee.
CurrentGrantees(c, w) ==
    {w} \cup {<<u, Primary[u]>> : u \in (ReadImplying(c.acl) \cup ({c.owner} \ {None})) \ {w[1]}}

\* put_grant_slot: the user's row is replaced as a whole.
PutGrantSlot(real, u, slots) == {x \in real : x[1] # u} \cup {<<u, s>> : s \in slots}

-----------------------------------------------------------------------------
(* PUT: authorize_bucket, resolve_bucket_config, the object.               *)

\* New objects are encrypted to the last key; a bucket without one is an error.
ResolveWriteKey(p) ==
    IF conf.keys = <<>> THEN Return(p)
    ELSE Step(p, [req[p] EXCEPT !.pc = "lock", !.key = KeyOf(Newest(conf))])

\* A write to a bucket that is not there and has no owner claims it.
PutAuthorize(p) ==
    /\ req[p].pc = "idle"
    /\ \E w \in Personas, o \in Objects :
        LET claim == conf.owner = None /\ ~exists
        IN  /\ Authorized(w, "write") \/ (claim /\ "write" \in RoleCaps(Role[w[1]]))
            /\ Remember(w)
            /\ Step(p, [NoReq EXCEPT !.pc = IF claim THEN "check" ELSE "config", !.who = w, !.obj = o])
    /\ UNCHANGED <<store, conf, job, used>>

\* claim_ownership: create_bucket looks whether the directory is there ...
ClaimCheck(p) ==
    /\ req[p].pc = "check"
    /\ Goto(p, IF exists THEN "config" ELSE "mkdir")
    /\ UNCHANGED <<store, conf, job, used, cache>>

\* ... and creates it, which is no error if another request did so meanwhile.
ClaimMkdir(p) ==
    /\ req[p].pc = "mkdir"
    /\ exists' = TRUE
    /\ Goto(p, "created")
    /\ UNCHANGED <<conf, objs, olock, staged, job, used, cache>>

\* The configuration as the directory's creator finds it.
ClaimRead(p) ==
    /\ req[p].pc = "created"
    /\ IF conf.owner = None THEN Step(p, [req[p] EXCEPT !.pc = "seed", !.mine = conf])
                            ELSE ResolveWriteKey(p)
    /\ UNCHANGED <<store, conf, job, used, cache>>

\* new_owner_key at epoch 0, for the claiming persona only.
ClaimSeed(p) ==
    /\ req[p].pc = "seed"
    /\ used < MaxKeyPairs
    /\ used' = used + 1
    /\ exists' = TRUE
    /\ conf' = [req[p].mine EXCEPT !.owner = req[p].who[1],
                    !.keys = Append(@, [epoch |-> 0, kp |-> used + 1, real |-> {req[p].who}])]
    /\ Goto(p, "config")
    /\ UNCHANGED <<objs, olock, staged, job, cache>>

\* The configuration is read, or read back after a claim.
PutConfig(p) ==
    /\ req[p].pc = "config"
    /\ ResolveWriteKey(p)
    /\ UNCHANGED <<store, conf, job, used, cache>>

\* begin_streaming_put creates the directories and takes the object's lock.
BeginPut(p) ==
    /\ exists' = TRUE
    /\ req[p].obj \notin olock
    /\ olock' = olock \cup {req[p].obj}
    /\ staged' = staged \cup {p}

\* The staging file and the lock go.
EndPut(p) == olock' = olock \ {req[p].obj} /\ staged' = staged \ {p}

\* commit renames the staging file over the object, if it is still there.
Commit(p, ver) ==
    objs' = IF p \in staged
              THEN [objs EXCEPT ![req[p].obj] =
                      [epoch |-> req[p].key[1], kp |-> req[p].key[2], ver |-> ver]]
              ELSE objs

PutLock(p) ==
    /\ req[p].pc = "lock"
    /\ \/ BeginPut(p) /\ Goto(p, "commit")
       \/ req[p].obj \in olock /\ exists' = TRUE /\ Return(p) /\ UNCHANGED <<olock, staged>>
    /\ UNCHANGED <<conf, objs, job, used, cache>>

PutCommit(p) ==
    /\ req[p].pc = "commit"
    /\ Commit(p, p) /\ EndPut(p)
    /\ Return(p)
    /\ UNCHANGED <<exists, conf, job, used, cache>>

\* The body fails: the object stays.
PutAbort(p) ==
    /\ req[p].pc = "commit"
    /\ EndPut(p)
    /\ Return(p)
    /\ UNCHANGED <<exists, conf, objs, job, used, cache>>

Put(p) ==
    \/ PutAuthorize(p) \/ ClaimCheck(p) \/ ClaimMkdir(p) \/ ClaimRead(p) \/ ClaimSeed(p)
    \/ PutConfig(p) \/ PutLock(p) \/ PutCommit(p) \/ PutAbort(p)

-----------------------------------------------------------------------------
(* GET: authorize_bucket, the configuration, describe, resolve_read_key.   *)

GetAuthorize(p) ==
    /\ req[p].pc = "idle"
    /\ \E w \in Personas, o \in Objects :
        /\ Authorized(w, "read") /\ Remember(w)
        /\ Step(p, [NoReq EXCEPT !.pc = "getconf", !.who = w, !.obj = o])
    /\ UNCHANGED <<store, conf, job, used>>

GetConfig(p) ==
    /\ req[p].pc = "getconf"
    /\ Step(p, [req[p] EXCEPT !.pc = "describe", !.mine = conf])
    /\ UNCHANGED <<store, conf, job, used, cache>>

\* The described object's epoch is resolved in the copy; src keeps the key pair
\* the object needs.
GetDescribe(p) ==
    /\ req[p].pc = "describe"
    /\ LET o == objs[req[p].obj]
           keys == ResolveReadKey(SessionKeys(p), req[p].mine, req[p].who, o.epoch)
       IN  IF o = None THEN Return(p) /\ UNCHANGED cache
           ELSE /\ cache' = IF req[p].own = None THEN [cache EXCEPT ![req[p].who] = @ \cup keys] ELSE cache
                /\ \/ keys = {} /\ Return(p)
                   \/ \E k \in keys : Step(p, [req[p] EXCEPT !.pc = "serve", !.key = k, !.src = o.kp])
    /\ UNCHANGED <<store, conf, job, used>>

GetDone(p) ==
    /\ req[p].pc = "serve"
    /\ Return(p)
    /\ UNCHANGED <<store, conf, job, used, cache>>

Get(p) == GetAuthorize(p) \/ GetConfig(p) \/ GetDescribe(p) \/ GetDone(p)

-----------------------------------------------------------------------------
(* Requests that rewrite the configuration.                                *)

\* authorize_bucket, where the handler starts with it; gen is what the client
\* got from its GET of the ACL.
AdminAuthorize(p) ==
    /\ req[p].pc = "idle"
    /\ \E op \in Ops, w \in Personas :
        /\ IF op = "share" THEN UNCHANGED cache ELSE Authorized(w, "admin") /\ Remember(w)
        /\ Step(p, [NoReq EXCEPT !.pc = op, !.op = op, !.who = w, !.gen = IF op = "acl" THEN conf.gen ELSE 0])
    /\ UNCHANGED <<store, conf, job, used>>

\* The edited copy c is ready to be written.
Prepared(p, c) == [req[p] EXCEPT !.pc = "write", !.mine = c]
Prepare(p, c) == Step(p, Prepared(p, c))

NextEpoch(w) == [epoch |-> Newest(conf).epoch + 1, kp |-> used + 1, real |-> CurrentGrantees(conf, w)]

\* rotate_key: the caller must open the newest epoch; the list is capped.
Rotate(p) ==
    /\ req[p].pc = "rotate" /\ used < MaxKeyPairs
    /\ IF /\ exists /\ conf.keys # <<>> /\ Len(conf.keys) < MaxRetainedEpochs
          /\ req[p].who \in Newest(conf).real
         THEN used' = used + 1 /\ Prepare(p, [conf EXCEPT !.keys = Append(@, NextEpoch(req[p].who))])
         ELSE Return(p) /\ UNCHANGED used
    /\ UNCHANGED <<store, conf, job, cache>>

\* The real grants of the newest epoch after a PUT of the ACL: the diff of the
\* read grantees, then the new and the previous owner.
Resealed(real, old, new, oldOwner, newOwner) ==
    LET diffed == {x \in real : x[1] \notin (new \ old) \cup (old \ new)}
                      \cup {<<u, Primary[u]>> : u \in new \ old}
        owned == PutGrantSlot(diffed, newOwner, {Primary[newOwner]})
    IN  IF newOwner = oldOwner THEN diffed
        ELSE IF oldOwner = None \/ oldOwner \in new THEN owned
        ELSE PutGrantSlot(owned, oldOwner, {})

\* Users whose sessions set_acl ends.
Revoked(old, new, oldOwner, newOwner) ==
    (old \ new) \cup (IF newOwner # oldOwner THEN {oldOwner} \ (new \cup {None}) ELSE {})

\* Request p ends the sessions of the personas in W and goes on with r; a request
\* in flight keeps the session it came with.
EndSessions(W, p, r) ==
    /\ cache' = [w \in Personas |-> IF w \in W THEN {} ELSE cache[w]]
    /\ req' = [q \in Procs |->
                 IF q = p THEN r
                 ELSE IF req[q].who \in W /\ req[q].own = None
                        THEN [req[q] EXCEPT !.own = cache[req[q].who]] ELSE req[q]]

Edited(acl, owner) == [conf EXCEPT !.acl = acl, !.owner = owner, !.gen = @ + 1]

\* set_acl: the checks, the reseal of the newest epoch, the end of sessions; the
\* write follows.
SetAcl(p) ==
    /\ req[p].pc = "acl" /\ conf.gen < MaxGen
    /\ \E acl \in [Users -> GrantLevels \cup {None}], owner \in Users \cup {conf.owner} :
        LET w == req[p].who
            old == ReadImplying(conf.acl)
            new == ReadImplying(acl)
            n == Len(conf.keys)
            reseal == (old # new \/ owner # conf.owner) /\ n > 0
            valid == /\ exists /\ req[p].gen = conf.gen
                     /\ owner # conf.owner => (w[1] = conf.owner \/ Role[w[1]] = "admin")
                     /\ owner # None => acl[owner] = None
                     /\ reseal => w \in Newest(conf).real
        IN  \/ /\ ~valid
               /\ Return(p) /\ UNCHANGED cache
            \/ /\ valid /\ ~reseal
               /\ Prepare(p, Edited(acl, owner)) /\ UNCHANGED cache
            \/ /\ valid /\ reseal
               /\ EndSessions({x \in Personas : x[1] \in Revoked(old, new, conf.owner, owner)}, p,
                     Prepared(p, [Edited(acl, owner) EXCEPT
                                    !.keys[n].real = Resealed(@, old, new, conf.owner, owner)]))
    /\ UNCHANGED <<store, conf, job, used>>

\* (mutant) Withdrawing a share leaves the sessions alone.
AfterShareKeeps(p) == Return(p)

\* Withdrawing a share ends with revoke_user_persona.
AfterShare(p) == IF req[p].edit = "share" THEN Return(p) ELSE Goto(p, "revoke")

\* share_or_revoke reads the configuration ...
ShareRead(p) ==
    /\ req[p].pc = "share"
    /\ \E s \in Slots \ {req[p].who[2]}, edit \in {"share", "withdraw"} :
        Step(p, [req[p] EXCEPT !.pc = "seal", !.mine = conf, !.slot = s, !.edit = edit])
    /\ UNCHANGED <<store, conf, job, used, cache>>

\* ... and, if the caller may read the bucket by now, replaces the caller's row
\* in every epoch of its copy that the caller can open.
ShareSeal(p) ==
    /\ req[p].pc = "seal"
    /\ LET w == req[p].who
           c == req[p].mine
           slots == {w[2]} \cup (IF req[p].edit = "share" THEN {req[p].slot} ELSE {})
           keys == [i \in 1..Len(c.keys) |->
                      IF w \in c.keys[i].real
                        THEN [c.keys[i] EXCEPT !.real = PutGrantSlot(@, w[1], slots)] ELSE c.keys[i]]
           seen == SessionKeys(p)
       IN  /\ cache' = IF req[p].own = None THEN [cache EXCEPT ![w] = CacheSeen(@, conf, w)] ELSE cache
           /\ IF "read" \in EffectiveCaps(seen, conf, w) /\ \E i \in 1..Len(c.keys) : w \in c.keys[i].real
                THEN Prepare(p, [c EXCEPT !.keys = keys])
                ELSE AfterShare(p)
    /\ UNCHANGED <<store, conf, job, used>>

ShareRevoke(p) ==
    /\ req[p].pc = "revoke"
    /\ EndSessions({<<req[p].who[1], req[p].slot>>}, p, NoReq)
    /\ UNCHANGED <<store, conf, job, used>>

\* set_config edits only the quota, SSE and CORS fields.
SetConfig(p) ==
    /\ req[p].pc = "config"
    /\ Prepare(p, [conf EXCEPT !.quota = 1 - @])
    /\ UNCHANGED <<store, conf, job, used, cache>>

\* set_bucket_config replaces the sidecar, whatever it holds by now.
WriteConfig(p) ==
    /\ req[p].pc = "write"
    /\ conf' = req[p].mine /\ exists' = TRUE
    /\ AfterShare(p)
    /\ UNCHANGED <<objs, olock, staged, job, used, cache>>

\* delete_bucket: the rows, then the directory with sidecar and staging files.
DeleteBucket(p) ==
    /\ req[p].pc = "delete"
    /\ exists' = FALSE /\ conf' = NoConfig
    /\ objs' = [o \in Objects |-> None] /\ staged' = {}
    /\ Return(p)
    /\ UNCHANGED <<olock, job, used, cache>>

Admin(p) ==
    \/ AdminAuthorize(p) \/ Rotate(p) \/ SetAcl(p) \/ ShareRead(p) \/ ShareSeal(p)
    \/ ShareRevoke(p) \/ SetConfig(p) \/ WriteConfig(p) \/ DeleteBucket(p)

-----------------------------------------------------------------------------
(* POST rekey, and the job it spawns.                                      *)

RekeyAuthorize(p) ==
    /\ req[p].pc = "idle"
    /\ \E w \in Personas :
        Authorized(w, "admin") /\ Remember(w) /\ Step(p, [NoReq EXCEPT !.pc = "start", !.who = w])
    /\ UNCHANGED <<store, conf, job, used>>

Older(c) == {i \in 1..Len(c.keys) : c.keys[i].epoch < Newest(c).epoch}

\* The secret keys of the older epochs are opened and the job is spawned.  An
\* epoch the caller cannot open is an error that leaves the registry entry as
\* try_start set it.
Spawn(p) ==
    LET c == req[p].mine
    IN  /\ job' = "running"
        /\ IF \A i \in Older(c) : req[p].who \in c.keys[i].real
             THEN Step(p, [req[p] EXCEPT !.pc = "job", !.mine = NoConfig,
                                         !.held = {KeyOf(c.keys[i]) : i \in Older(c)}])
             ELSE Return(p)

\* start_rekey reads the configuration; the caller must open the newest epoch.
RekeyRead(p) ==
    /\ req[p].pc = "start"
    /\ IF exists /\ conf.keys # <<>> /\ req[p].who \in Newest(conf).real
         THEN Step(p, [req[p] EXCEPT !.pc = "try", !.mine = conf]) ELSE Return(p)
    /\ UNCHANGED <<store, conf, job, used, cache>>

\* (mutant) The registry is not consulted.
RekeyStartAnyway(p) ==
    /\ req[p].pc = "try"
    /\ Spawn(p)
    /\ UNCHANGED <<store, conf, used, cache>>

\* RekeyRegistry::try_start, and the job.
RekeyStart(p) ==
    /\ req[p].pc = "try"
    /\ IF job = "running" THEN Return(p) /\ UNCHANGED job ELSE Spawn(p)
    /\ UNCHANGED <<store, conf, used, cache>>

\* The job ends, and says how.
JobEnds(p, state) == job' = state /\ Return(p)

\* run_rekey reads the configuration again and takes its last key.
RekeyNewest(p) ==
    /\ req[p].pc = "job"
    /\ \/ conf.keys = <<>> /\ JobEnds(p, "failed")
       \/ /\ conf.keys # <<>> /\ UNCHANGED job
          /\ Step(p, [req[p] EXCEPT !.pc = "collect", !.key = KeyOf(Newest(conf))])
    /\ UNCHANGED <<store, conf, used, cache>>

Stale(e) == {o \in Objects : objs[o] # None /\ objs[o].epoch < e}

\* (mutant) No page of the listing is taken for stale.
RekeyCollectNone(p) ==
    /\ req[p].pc = "collect"
    /\ Step(p, [req[p] EXCEPT !.pc = "next", !.todo = {}])
    /\ UNCHANGED <<store, conf, job, used, cache>>

\* collect_stale_keys: the objects and the epochs they are listed with.
RekeyCollect(p) ==
    /\ req[p].pc = "collect"
    /\ Step(p, [req[p] EXCEPT !.pc = "next", !.todo = {<<o, objs[o].epoch>> : o \in Stale(req[p].key[1])}])
    /\ UNCHANGED <<store, conf, job, used, cache>>

\* The next stale object is read and decrypted with the key of the epoch it was
\* listed with; an object that is gone or does not decrypt ends the job.
RekeyFetch(p) ==
    /\ req[p].pc = "next"
    /\ \E t \in req[p].todo :
        LET o == objs[t[1]]
        IN  IF o # None /\ <<t[2], o.kp>> \in req[p].held
              THEN /\ Step(p, [req[p] EXCEPT !.pc = "klock", !.obj = t[1], !.src = o.ver, !.todo = @ \ {t}])
                   /\ UNCHANGED job
              ELSE JobEnds(p, "failed")
    /\ UNCHANGED <<store, conf, used, cache>>

RekeyLock(p) ==
    /\ req[p].pc = "klock"
    /\ \/ BeginPut(p) /\ Goto(p, "kcommit") /\ UNCHANGED job
       \/ req[p].obj \in olock /\ exists' = TRUE /\ JobEnds(p, "failed") /\ UNCHANGED <<olock, staged>>
    /\ UNCHANGED <<conf, objs, used, cache>>

\* The plaintext goes back under the newest key.
RekeyCommit(p) ==
    /\ req[p].pc = "kcommit"
    /\ Commit(p, req[p].src) /\ EndPut(p)
    /\ IF p \in staged THEN Goto(p, "next") /\ UNCHANGED job ELSE JobEnds(p, "failed")
    /\ UNCHANGED <<exists, conf, used, cache>>

\* An I/O error in the object loop.
RekeyFails(p) ==
    /\ req[p].pc \in {"next", "klock", "kcommit"}
    /\ JobEnds(p, "failed")
    /\ IF req[p].pc = "kcommit" THEN EndPut(p) ELSE UNCHANGED <<olock, staged>>
    /\ UNCHANGED <<exists, conf, objs, used, cache>>

\* Vec::retain: the keys of epoch e, in their order.
Retain(ks, e) ==
    LET kept == {i \in 1..Len(ks) : ks[i].epoch = e}
    IN  [n \in 1..Cardinality(kept) |->
            ks[CHOOSE i \in kept : Cardinality({j \in kept : j <= i}) = n]]

\* Only the epoch the job moved to is retained ...
RekeyPruneRead(p) ==
    /\ req[p].pc = "next" /\ req[p].todo = {}
    /\ Step(p, [req[p] EXCEPT !.pc = "prune",
                   !.mine = [conf EXCEPT !.keys = Retain(@, req[p].key[1])]])
    /\ UNCHANGED <<store, conf, job, used, cache>>

\* ... in the copy that replaces the sidecar.
RekeyPruneWrite(p) ==
    /\ req[p].pc = "prune"
    /\ conf' = req[p].mine /\ exists' = TRUE
    /\ JobEnds(p, "completed")
    /\ UNCHANGED <<objs, olock, staged, used, cache>>

Rekey(p) ==
    \/ RekeyAuthorize(p) \/ RekeyRead(p) \/ RekeyStart(p) \/ RekeyNewest(p) \/ RekeyCollect(p) \/ RekeyFetch(p)
    \/ RekeyLock(p) \/ RekeyCommit(p) \/ RekeyFails(p) \/ RekeyPruneRead(p) \/ RekeyPruneWrite(p)

Next ==
    \/ \E p \in Writers : Put(p)
    \/ \E p \in Readers : Get(p)
    \/ \E p \in Admins : Admin(p)
    \/ \E p \in Rekeyers : Rekey(p)

Spec == Init /\ [][Next]_vars

-----------------------------------------------------------------------------
JobRunning(p) == req[p].pc \in {"job", "collect", "next", "klock", "kcommit", "prune"}

\* Every object is encrypted under a key pair that the configuration retains at
\* the epoch the object names ("existing objects keep decrypting under whichever
\* epoch they were written under until a rekey migrates them", rotate_key).
ObjectsReadable ==
    \A o \in Objects : objs[o] # None =>
        \E i \in 1..Len(conf.keys) : KeyOf(conf.keys[i]) = <<objs[o].epoch, objs[o].kp>>

\* A session's cached key of an epoch is the retained key of that epoch ("a
\* rotation can never serve a stale key from the cache", BucketKeyCache).
CacheFresh ==
    \A w \in Personas : \A k \in cache[w] :
        \A i \in 1..Len(conf.keys) : conf.keys[i].epoch = k[1] => conf.keys[i].kp = k[2]

\* A GET that resolved a key resolved the one its object needs.
GetKeyFits == \A p \in Readers : req[p].pc = "serve" => req[p].key[2] = req[p].src

\* The users who can open the newest epoch are the owner and those whose ACL
\* entry implies read (set_acl, rotate_key, claim_ownership, share_or_revoke).
GrantsFollowAcl ==
    conf.keys # <<>> =>
        {x[1] : x \in Newest(conf).real} = ReadImplying(conf.acl) \cup ({conf.owner} \ {None})

\* At most one rekey job of the bucket runs ("never silently overlaps two runs
\* against the same bucket", RekeyRegistry::try_start).
OneJob == \A p, q \in Rekeyers : JobRunning(p) /\ JobRunning(q) => p = q

=============================================================================
