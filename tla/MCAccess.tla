------------------------------ MODULE MCAccess -----------------------------
(* Who may do what, in three parts, each checked by itself: the keys of a   *)
(* bucket, accounts with their personas and sessions, and the memory that   *)
(* holds a session's keys.  bob is the administrator, alice a user with a   *)
(* second persona.  Every behaviour has one mix of requests, or one host.   *)
EXTENDS MCBucketKeys, Sessions, SecretMemory, TLC

CONSTANTS q1, q2, pr, pa, pb

VARIABLE part
accessVars == <<keysVars, sessVars, secVars, part>>

AccountDef == (bob :> "admin") @@ (alice :> "user")
SecretDef == (bob :> pr) @@ (alice :> pa)
SecondDef == (bob :> None) @@ (alice :> <<pb, "user", TRUE>>)
TargetsDef == {<<"admin", FALSE>>, <<"user", FALSE>>, <<"readonly", TRUE>>}
LoggedDef == <<<<bob, 0>>, <<alice, 0>>>>

Mix(name, one, two, who, pws, tokens, writes, clock) ==
    [name |-> name, ops |-> (q1 :> one) @@ (q2 :> two), who |-> who, pws |-> pws,
     tokens |-> tokens, writes |-> writes, clock |-> clock]
PassingMixes ==
    {Mix("delete", {"login"}, {"delete"}, {alice}, {pa}, 4, 0, {}),
     Mix("guess", {"login", "password"}, {"login"}, {alice}, {pa, pr}, 3, 1, {"lockout"}),
     Mix("accounts", {"add", "delete", "acl"}, {"login"}, {alice}, {pa}, 3, 1, {}),
     Mix("accounts", {"role", "delete"}, {"login"}, {alice}, {pa}, 3, 1, {}),
     Mix("alone", {"login", "logout", "password"}, {}, {alice}, {pa, pb}, 4, 1, {}),
     Mix("expiry", {"login", "refresh"}, {"refresh"}, {alice}, {pa}, 4, 0, {"expiry"}),
     Mix("reset", {"login", "role", "reset"}, {}, {bob, alice}, {pa}, 3, 1, {}),
     Mix("personas", {"login", "persona", "unpersona"}, {}, {alice}, {pa, pb, pr}, 3, 2, {})}
-----------------------------------------------------------------------------
(* What holds for some traffic only.                                       *)

\* Sessions follow accounts.  A login beside a deletion leaves no session behind
\* (NoSessionOfGone); requests one at a time never leave a session above its account's
\* role (WithinCeiling), nor anything for a later account of the name (NothingInherited);
\* without a password change, which does not look at the other slots, a password opens at
\* most one persona (OnePersonaPerPassword); and no session has another persona's key.
SessionsFollowAccounts ==
    /\ mix.name = "delete" => NoSessionOfGone
    /\ mix.name \in {"alone", "reset", "personas"} => WithinCeiling
    /\ mix.name = "accounts" => NothingInherited
    /\ mix.name \in {"delete", "personas"} => OnePersonaPerPassword
    /\ KeyOfPersona

-----------------------------------------------------------------------------
RestMix  == Mix("rest", {}, {}, {}, {}, 2, 0, {})
SessMixes == PassingMixes \cup {RestMix}
KeysRest == MCInit /\ ~exists /\ traffic.name = "overlap"

\* Kernels with and without secretmem, with room for all buffers, for some and for none.
Host(secret, limit, faults) == [secret |-> secret, limit |-> limit, faults |-> faults]
RestHost == Host(FALSE, 0, {})
MemHosts ==
    {Host(TRUE, 3, {"mmap", "mprotect", "prctl"}), Host(TRUE, 3, {"memfd"}), Host(FALSE, 3, {"mprotect"}),
     Host(TRUE, 2, {}), Host(TRUE, 0, {}), Host(FALSE, 1, {})}
AllHosts == MemHosts \cup {RestHost}

PartSet == {"keys", "sessions", "memory"}

AccessInit ==
    /\ part \in PartSet
    /\ IF part = "keys" THEN MCInit ELSE KeysRest
    /\ SessInit /\ (part = "sessions" <=> mix # RestMix)
    /\ SecInit /\ (part = "memory" <=> host # RestHost)

AccessNext ==
    \/ part = "keys" /\ MCNext /\ UNCHANGED <<sessVars, secVars, part>>
    \/ part = "sessions" /\ SessNext /\ UNCHANGED <<keysVars, secVars, part>>
    \/ part = "memory" /\ SecNext /\ UNCHANGED <<keysVars, sessVars, part>>
AccessSpec == AccessInit /\ [][AccessNext]_accessVars
=============================================================================
