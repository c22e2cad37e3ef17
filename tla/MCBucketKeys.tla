---------------------------- MODULE MCBucketKeys ----------------------------
(* Instances of BucketKeys.  Slot 0 is everybody's primary slot, and bob's *)
(* global role is admin.  A run explores several kinds of traffic, one per *)
(* behaviour: which requests there are, whose they are, what they do.      *)
EXTENDS BucketKeys

CONSTANTS alice, bob, w1, w2, r1, a1, a2, k1, k2, o1, o2,
          Traffic      \* the kinds of traffic of the run
VARIABLES traffic,     \* the one this behaviour has
          withdrawn    \* personas whose share was withdrawn, and not given again
keysVars == <<vars, traffic, withdrawn>>

PrimaryDef == [u \in Users |-> 0]
RoleDef == [u \in Users |-> IF u = bob THEN "admin" ELSE "user"]

Kind(name, procs, ops, personas, objects, epochs, pairs) ==
    [name |-> name, procs |-> procs, ops |-> ops, personas |-> personas, objects |-> objects,
     epochs |-> epochs, pairs |-> pairs]
Accounts == {<<alice, 0>>, <<bob, 0>>}

PassingTraffic ==
    {Kind("acl", {w1, a1}, {"rotate", "acl"}, Accounts, {o1}, 1, 2),
     Kind("acl", {r1, a1}, {"rotate", "acl"}, Accounts, {o1}, 1, 2),
     Kind("acl", {w1, r1, a1}, {"rotate"}, Accounts, {o1}, 1, 2),
     Kind("share", {r1, a1}, {"rotate", "share"}, {alice} \X {0, 1}, {o1}, 1, 2),
     Kind("share", {r1, a1}, {"share"}, {alice} \X Slots, {o1}, 1, 1),
     Kind("claim", {w1, w2, a1}, {"config", "delete"}, Accounts, {o1}, 1, 3),
     Kind("overlap", {a1, a2, k1}, {"rotate", "delete"}, {<<alice, 0>>}, {o1}, 2, 3),
     Kind("rekey", {k1, k2, r1}, {}, {<<alice, 0>>}, {o1, o2}, 2, 2),
     Kind("rekey", {k1, w1}, {}, {<<alice, 0>>}, {o1, o2}, 2, 2)}
RotateRaceTraffic ==
    {Kind("race", {w1, a1, a2}, {"rotate"}, {<<alice, 0>>}, {o1}, 1, 3)}

Within ==
    /\ used <= traffic.pairs
    /\ \A p \in Procs : req[p] # NoReq =>
        /\ req[p].who \in traffic.personas \cup {None}
        /\ req[p].slot \in {w[2] : w \in traffic.personas} \cup {None}
        /\ req[p].op \in traffic.ops \cup {None}
        /\ req[p].obj \in traffic.objects \cup {None}

MCInit ==
    /\ Init
    /\ traffic \in Traffic /\ withdrawn = {}
    /\ used <= traffic.epochs
    /\ \A i \in 1..Len(conf.keys) : conf.keys[i].real \subseteq traffic.personas
    /\ \A o \in Objects \ traffic.objects : objs[o] = None

Holders == IF conf.keys = <<>> THEN {} ELSE Newest(conf).real
\* The personas whose withdrawal answers in this step.
Withdrawn == {<<req[p].who[1], req[p].slot>> : p \in {q \in Admins : req[q].edit = "withdraw" /\ req'[q].pc = "idle"}}

MCNext ==
    /\ \/ \E p \in Writers \cap traffic.procs : Put(p)
       \/ \E p \in Readers \cap traffic.procs : Get(p)
       \/ \E p \in Admins \cap traffic.procs : Admin(p)
       \/ \E p \in Rekeyers \cap traffic.procs : Rekey(p)
    /\ withdrawn' = (withdrawn \cup Withdrawn) \ Holders'
    /\ UNCHANGED traffic /\ Within'
MCSpec == MCInit /\ [][MCNext]_keysVars

-----------------------------------------------------------------------------
(* What holds for some traffic only.                                       *)

\* Keys serve their objects.  Every object stays readable under rotations and ACL changes
\* one at a time and under any number of rekeys without other requests (ObjectsReadable); a
\* session never serves a stale key as long as the bucket is not deleted and rotations do
\* not overlap (CacheFresh); a GET beside rotations and shares uses the key its object
\* needs (GetKeyFits).
ReadableAlone ==
    /\ traffic.name \in {"acl", "rekey"} => ObjectsReadable
    /\ traffic.name \in {"acl", "share", "rekey"} => CacheFresh
    /\ traffic.name \in {"acl", "share"} => GetKeyFits

\* Once a share is withdrawn, the persona cannot read the bucket until it is given a
\* share again, from no request's copy of the configuration and no cache ("a token
\* minted under the old grant can't keep reading from cache", share_or_revoke).
RevokedCannotRead == \A w \in withdrawn : "read" \notin EffectiveCaps(cache[w], conf, w)

\* Keys follow the ACL.  Changes one at a time keep the real grants of the newest epoch in
\* step with it (GrantsFollowAcl), and a persona whose share was withdrawn cannot go on
\* reading from a session's cache (RevokedCannotRead).
RevokedAlone ==
    /\ traffic.name \in {"acl", "share", "claim", "rekey"} => GrantsFollowAcl
    /\ traffic.name = "share" => RevokedCannotRead
=============================================================================
