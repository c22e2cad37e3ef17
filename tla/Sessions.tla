------------------------------ MODULE Sessions ------------------------------
(***************************************************************************)
(* Accounts, credential slots and live sessions: the handlers of           *)
(* crates/y2qd/src/auth/handlers.rs over auth/session.rs, auth/state.rs,   *)
(* and the records of y2q-core/src/crypto/user_store.rs and kdf.rs.        *)
(*                                                                         *)
(* The user store commits one record per transaction and the session map   *)
(* locks one row per call; between two such calls any other request may    *)
(* run.  A request keeps the record it read (snap) and writes it back      *)
(* whole.  An identity key pair and a wrapped slot are numbers, fresh with *)
(* every write; a decoy slot is one whose password nobody knows.           *)
(***************************************************************************)
EXTENDS Naturals, Sequences, FiniteSets, FiniteSetsExt, Authz

CONSTANTS
    Passwords,          \* passwords clients try
    Reqs,               \* requests that may be in flight at once
    Mixes,              \* kinds of traffic: what each request may be, who logs in, the
                        \* passwords tried, how many tokens and writes, what time does
    Account, Secret,    \* each user's first role, or None, and first password
    Second,             \* a second persona of a user at the start: <<password, role, flag>>
    Logged,             \* the sessions there are at the start: a sequence of <<user, slot>>
    Targets,            \* roles and duress flags a client may ask for: <<role, flag>>
    MaxFailed,          \* [auth] max_failed_logins
    MaxRefreshes,       \* [auth] max_refreshes
    MaxTokens,          \* bound on the tokens ever minted
    MaxWrites           \* bound on the slots ever written

ASSUME BoundAssumption ==
    /\ MaxFailed \in Nat \ {0} /\ MaxRefreshes \in Nat /\ MaxTokens \in Nat /\ MaxWrites \in Nat
    /\ Slots \subseteq Nat /\ IsFiniteSet(Slots) /\ IsFiniteSet(Reqs) /\ Reqs # {}
    /\ Targets \subseteq Roles \X BOOLEAN /\ {0, 1} \subseteq Slots
ASSUME StartAssumption ==
    /\ Account \in [Users -> Roles \cup {None}] /\ Secret \in [Users -> Passwords]
    /\ Second \in [Users -> (Passwords \X Roles \X BOOLEAN) \cup {None}]
    /\ Logged \in Seq(Users \X Slots) /\ Len(Logged) <= MaxTokens
    /\ \A i \in 1..Len(Logged) : Account[Logged[i][1]] # None
ASSUME StrangerAssumption == None \notin Passwords /\ None \notin Users /\ None \notin Slots /\ None \notin Roles
ASSUME MixAssumption ==
    \A m \in Mixes : /\ m.who \subseteq Users /\ m.pws \subseteq Passwords
                     /\ m.tokens \in 0..MaxTokens /\ m.writes \in 0..MaxWrites

Tokens == 1..MaxTokens
Writes == 0..MaxWrites
Keys == Slots \X Writes     \* identity key pairs: generated for a slot, never twice

VARIABLES
    users,      \* users[u]: the record in users.redb, or None
    sessions,   \* sessions[t]: the session row of token t, or None
    expired,    \* tokens whose expires_at has passed
    attempts,   \* attempts[u]: the failed-login counter and its lockout
    bucket,     \* who has a key grant and who an ACL entry on a bucket
    minted,     \* number of tokens handed out so far
    written,    \* number of slot writes so far
    call,       \* call[r]: what request r has in hand
    mix         \* the kind of traffic of this behaviour

sessVars == <<users, sessions, expired, attempts, bucket, minted, written, call, mix>>

CredentialSlot == [key : Keys, wrap : Writes, pw : Passwords \cup {None},
                   role : Roles, duress : BOOLEAN]
UserRecord == [kdf : Writes, slots : [Slots -> CredentialSlot], role : Roles]
SessionInfo == [user : Users, role : Roles, persona : Slots, duress : BOOLEAN,
                key : Keys, refreshes : 0..MaxRefreshes]
Clear == [failed |-> 0, locked |-> "no"]

NoCall == [pc |-> "idle", tok |-> None, who |-> None, pw |-> None, slot |-> None,
          want |-> None, snap |-> None, row |-> None, victims |-> {}, mine |-> None]

Live(t) == sessions[t] # None /\ t \notin expired
LiveOf(u) == {t \in Tokens : sessions[t] # None /\ sessions[t].user = u}
Quiet == \A r \in Reqs : call[r].pc = "idle"

Hold(r, f) == call' = [call EXCEPT ![r] = f]
Proceed(r, to) == Hold(r, [call[r] EXCEPT !.pc = to])
Answer(r) == Hold(r, NoCall)
Begin(r, op) == call[r].pc = "idle" /\ op \in mix.ops[r]

-----------------------------------------------------------------------------
(* user_store.rs and kdf.rs                                                *)

\* A slot opened by pw, and one nobody can open.
NewSlot(s, pw, role, duress) ==
    [key |-> <<s, written + 1>>, wrap |-> written + 1, pw |-> pw, role |-> role, duress |-> duress]
DecoySlot(s) == NewSlot(s, None, "user", FALSE)

\* The password's slot lands on any position; decoys fill the others.
NewSlotsRandom(pw, role) ==
    {[s \in Slots |-> IF s = real THEN NewSlot(s, pw, role, FALSE) ELSE DecoySlot(s)] : real \in Slots}

Upsert(u, rec) ==
    /\ users' = [users EXCEPT ![u] = rec]
    /\ written < mix.writes /\ written' = written + 1

\* The slots of a record that a password opens.
Opens(rec, pw) == {s \in Slots : rec.slots[s].pw = pw}

Administrators == {u \in Users : users[u] # None /\ users[u].role = "admin"}

-----------------------------------------------------------------------------
(* auth/state.rs: LoginAttempts                                            *)

\* (mutant) A lockout is recorded and never enforced.
CheckLockoutNever(u) == attempts' = attempts

\* The guard of every password check: not locked out; a lockout whose time is
\* over is forgotten.
CheckLockout(u) ==
    /\ attempts[u].locked # "yes"
    /\ attempts' = IF attempts[u].locked = "over" THEN [attempts EXCEPT ![u] = Clear] ELSE attempts

RecordFailure(u) ==
    LET n == attempts[u].failed + 1
    IN  attempts' = [attempts EXCEPT ![u] =
            [failed |-> n, locked |-> IF n >= MaxFailed THEN "yes" ELSE @.locked]]
RecordSuccess(u) == attempts' = [attempts EXCEPT ![u] = Clear]

LockoutEnds(u) ==
    /\ attempts[u].locked = "yes"
    /\ attempts' = [attempts EXCEPT ![u].locked = "over"]
    /\ UNCHANGED <<users, sessions, expired, bucket, minted, written, call>>

-----------------------------------------------------------------------------
(* auth/session.rs: SessionStore                                           *)

Insert(row) ==
    /\ minted < mix.tokens /\ minted' = minted + 1
    /\ sessions' = [sessions EXCEPT ![minted + 1] = row]

DropRows(ts) == sessions' = [t \in Tokens |-> IF t \in ts THEN None ELSE sessions[t]]

\* The rows revoke_user_persona and its variants collect, then remove one by one.
PersonaOf(u, s) == {t \in LiveOf(u) : sessions[t].persona = s}

\* The row a duress login leaves under another session's token.
Switched(old, slot, p) ==
    [old EXCEPT !.role = p.role, !.persona = slot, !.duress = p.duress, !.key = p.key]

Expire(t) ==
    /\ Live(t)
    /\ expired' = expired \cup {t}
    /\ UNCHANGED <<users, sessions, attempts, bucket, minted, written, call>>

\* get_active drops an expired row it meets; the background task drops them all.
Sweep ==
    /\ \E t \in expired : sessions[t] # None
    /\ DropRows(expired)
    /\ UNCHANGED <<users, expired, attempts, bucket, minted, written, call>>

\* Second half of revoke_user, revoke_user_persona(_except): the collected rows
\* go.  It ends every handler but reset_identity, which still scrubs grants.
RevokeRemove(r) ==
    /\ call[r].pc = "revoke"
    /\ DropRows(call[r].victims)
    /\ IF call[r].want = "reset" THEN Proceed(r, "scrub") ELSE Answer(r)
    /\ UNCHANGED <<users, expired, attempts, bucket, minted, written>>

\* First half: the rows that match now.
RevokeCollect(r, ts) == Hold(r, [call[r] EXCEPT !.pc = "revoke", !.victims = ts])

-----------------------------------------------------------------------------
(* POST auth/login                                                         *)

LoginBegin(r, u, pw) ==
    /\ Begin(r, "login")
    /\ CheckLockout(u)
    /\ Hold(r, [NoCall EXCEPT !.pc = "unwrap", !.who = u, !.pw = pw, !.snap = users[u]])
    /\ UNCHANGED <<users, sessions, expired, bucket, minted, written>>

\* One derivation tries all slots; an unknown name fails like a bad password.
LoginUnwrap(r) ==
    LET q == call[r]
        open == IF q.snap = None THEN {} ELSE Opens(q.snap, q.pw)
    IN  /\ q.pc = "unwrap"
        /\ IF open = {} THEN RecordFailure(q.who) /\ Answer(r)
           ELSE Hold(r, [q EXCEPT !.pc = "fresh", !.slot = Min(open)]) /\ UNCHANGED attempts
        /\ UNCHANGED <<users, sessions, expired, bucket, minted, written>>

\* The record is read again: gone or changed fails the login, and so does a
\* persona above the account's role; then last_login is touched.
LoginFresh(r) ==
    LET q == call[r]
        now == users[q.who]
        p == q.snap.slots[q.slot]
    IN  /\ q.pc = "fresh"
        /\ IF \/ now = None \/ now.kdf # q.snap.kdf \/ now.slots # q.snap.slots
              \/ "disabled" \in {p.role, now.role} \/ ~RolePermits(p.role, now.role)
             THEN Answer(r)
             ELSE Proceed(r, "insert")
        /\ UNCHANGED <<users, sessions, expired, attempts, bucket, minted, written>>

LoginInsert(r) ==
    LET q == call[r]
        p == q.snap.slots[q.slot]
    IN  /\ q.pc = "insert"
        /\ Insert([user |-> q.who, role |-> p.role, persona |-> q.slot, duress |-> p.duress,
                   key |-> p.key, refreshes |-> 0])
        /\ Hold(r, [q EXCEPT !.pc = "recheck", !.tok = minted + 1])
        /\ UNCHANGED <<users, expired, attempts, bucket, written>>

\* (mutant) A deletion since the touch goes unnoticed.
LoginRecheckTrusts(r) ==
    LET q == call[r]
    IN  /\ q.pc = "recheck"
        /\ IF q.snap.slots[q.slot].duress
             THEN /\ Hold(r, [q EXCEPT !.pc = "switch",
                                       !.victims = LiveOf(q.who) \ PersonaOf(q.who, q.slot)])
                  /\ UNCHANGED attempts
             ELSE RecordSuccess(q.who) /\ Answer(r)
        /\ UNCHANGED <<users, sessions, expired, bucket, minted, written>>

\* A deletion since the touch takes the new row with it; a duress persona goes
\* on to take over the other sessions of the account.
LoginRecheck(r) ==
    LET q == call[r]
        p == q.snap.slots[q.slot]
    IN  /\ q.pc = "recheck"
        /\ CASE users[q.who] = None -> RevokeCollect(r, LiveOf(q.who)) /\ UNCHANGED attempts
             [] users[q.who] # None /\ p.duress ->
                  /\ Hold(r, [q EXCEPT !.pc = "switch",
                                       !.victims = LiveOf(q.who) \ PersonaOf(q.who, q.slot)])
                  /\ UNCHANGED attempts
             [] OTHER -> RecordSuccess(q.who) /\ Answer(r)
        /\ UNCHANGED <<users, sessions, expired, bucket, minted, written>>

\* switch_user_to_persona reads one row and replaces it in two calls.
SwitchRead(r, t) ==
    /\ call[r].pc = "switch" /\ t \in call[r].victims
    /\ Hold(r, [call[r] EXCEPT !.victims = @ \ {t}, !.row = sessions[t], !.tok = t,
                              !.pc = IF sessions[t] = None THEN "switch" ELSE "put"])
    /\ UNCHANGED <<users, sessions, expired, attempts, bucket, minted, written>>

SwitchWrite(r) ==
    LET q == call[r]
    IN  /\ q.pc = "put"
        /\ sessions' = [sessions EXCEPT ![q.tok] = Switched(q.row, q.slot, q.snap.slots[q.slot])]
        /\ Proceed(r, "switch")
        /\ UNCHANGED <<users, expired, attempts, bucket, minted, written>>

SwitchDone(r) ==
    /\ call[r].pc = "switch" /\ call[r].victims = {}
    /\ RecordSuccess(call[r].who) /\ Answer(r)
    /\ UNCHANGED <<users, sessions, expired, bucket, minted, written>>

-----------------------------------------------------------------------------
(* POST auth/refresh, auth/logout, auth/password                           *)

RefreshRead(r, t) ==
    /\ Begin(r, "refresh") /\ Live(t)
    /\ sessions[t].refreshes < MaxRefreshes
    /\ Hold(r, [NoCall EXCEPT !.pc = "reissue", !.tok = t,
                             !.row = [sessions[t] EXCEPT !.refreshes = @ + 1]])
    /\ UNCHANGED <<users, sessions, expired, attempts, bucket, minted, written>>

RefreshInsert(r) ==
    /\ call[r].pc = "reissue"
    /\ Insert(call[r].row)
    /\ Proceed(r, "dropold")
    /\ UNCHANGED <<users, expired, attempts, bucket, written>>

RefreshRemove(r) ==
    /\ call[r].pc = "dropold"
    /\ DropRows({call[r].tok}) /\ Answer(r)
    /\ UNCHANGED <<users, expired, attempts, bucket, minted, written>>

Logout(r, t) ==
    /\ Begin(r, "logout") /\ Live(t)
    /\ DropRows({t})
    /\ UNCHANGED <<users, expired, attempts, bucket, minted, written, call>>

\* Verifies the current password of the session's own slot only.
PasswordRead(r, t, pw, new) ==
    LET u == sessions[t].user
    IN  /\ Begin(r, "password") /\ Live(t)
        /\ CheckLockout(u)
        /\ Hold(r, [NoCall EXCEPT !.pc = "rewrap", !.tok = t, !.who = u, !.pw = pw, !.want = new,
                                 !.slot = sessions[t].persona, !.snap = users[u]])
        /\ UNCHANGED <<users, sessions, expired, bucket, minted, written>>

PasswordWrite(r) ==
    LET q == call[r]
    IN  /\ q.pc = "rewrap"
        /\ IF q.snap = None \/ (q.snap # None /\ q.snap.slots[q.slot].pw # q.pw)
             THEN RecordFailure(q.who) /\ Answer(r) /\ UNCHANGED <<users, written>>
             ELSE /\ Upsert(q.who, [q.snap EXCEPT !.slots[q.slot] = [@ EXCEPT !.pw = q.want, !.wrap = written + 1]])
                  /\ RecordSuccess(q.who)
                  /\ Proceed(r, "others")
        /\ UNCHANGED <<sessions, expired, bucket, minted>>

\* Every other session of the persona is ended; the caller's is kept.
PasswordRevoke(r) ==
    /\ call[r].pc = "others"
    /\ RevokeCollect(r, PersonaOf(call[r].who, call[r].slot) \ {call[r].tok})
    /\ UNCHANGED <<users, sessions, expired, attempts, bucket, minted, written>>

-----------------------------------------------------------------------------
(* PUT users/add, DELETE users/{user}, PUT users/{user}/role,              *)
(* POST users/{user}/reset-identity                                        *)

AdminAuthenticated(t) == Live(t) /\ sessions[t].role = "admin"

AddCheck(r, t, u, pw, role) ==
    /\ Begin(r, "add") /\ AdminAuthenticated(t)
    /\ users[u] = None
    /\ Hold(r, [NoCall EXCEPT !.pc = "add", !.who = u, !.pw = pw, !.want = role])
    /\ UNCHANGED <<users, sessions, expired, attempts, bucket, minted, written>>

AddWrite(r) ==
    /\ call[r].pc = "add"
    /\ \E slots \in NewSlotsRandom(call[r].pw, call[r].want) :
        Upsert(call[r].who, [kdf |-> written + 1, slots |-> slots, role |-> call[r].want])
    /\ Answer(r)
    /\ UNCHANGED <<sessions, expired, attempts, bucket, minted>>

\* A bucket only this user can open is not stranded without force.
DeleteGuard(r, t, u, force) ==
    /\ Begin(r, "delete") /\ AdminAuthenticated(t)
    /\ force \/ bucket.grants # {u}
    /\ Hold(r, [NoCall EXCEPT !.pc = "list", !.who = u, !.want = "delete"])
    /\ UNCHANGED <<users, sessions, expired, attempts, bucket, minted, written>>

\* (mutant) Only the last user is refused, not the last administrator.
DeleteListUsers(r) ==
    /\ call[r].pc = "list"
    /\ IF Cardinality({v \in Users : users[v] # None}) <= 1 THEN Answer(r) ELSE Proceed(r, "row")
    /\ UNCHANGED <<users, sessions, expired, attempts, bucket, minted, written>>

\* Neither the last user nor the last administrator.
DeleteList(r) ==
    /\ call[r].pc = "list"
    /\ IF \/ Cardinality({v \in Users : users[v] # None}) <= 1
          \/ call[r].who \in Administrators /\ Cardinality(Administrators) <= 1
         THEN Answer(r)
         ELSE Proceed(r, "row")
    /\ UNCHANGED <<users, sessions, expired, attempts, bucket, minted, written>>

DeleteRow(r) ==
    /\ call[r].pc = "row"
    /\ IF users[call[r].who] = None THEN Answer(r) ELSE Proceed(r, "scrub")
    /\ users' = [users EXCEPT ![call[r].who] = None]
    /\ UNCHANGED <<sessions, expired, attempts, bucket, minted, written>>

\* Grants, and for a deletion ACL entries, are scrubbed from each bucket's
\* configuration: read whole, written whole.
ScrubRead(r) ==
    /\ call[r].pc \in {"scrub", "scrubacl"}
    /\ Hold(r, [call[r] EXCEPT !.mine = bucket, !.pc = IF @ = "scrub" THEN "scrubbing" ELSE "scrubbingacl"])
    /\ UNCHANGED <<users, sessions, expired, attempts, bucket, minted, written>>

ScrubUserGrants(r) ==
    LET q == call[r]
    IN  /\ q.pc = "scrubbing"
        /\ bucket' = IF q.who \in q.mine.grants THEN [q.mine EXCEPT !.grants = @ \ {q.who}] ELSE bucket
        /\ IF q.want = "reset" THEN Answer(r) ELSE Proceed(r, "scrubacl")
        /\ UNCHANGED <<users, sessions, expired, attempts, minted, written>>

ScrubAcl(r) ==
    LET q == call[r]
    IN  /\ q.pc = "scrubbingacl"
        /\ bucket' = IF q.who \in q.mine.acl THEN [q.mine EXCEPT !.acl = @ \ {q.who}] ELSE bucket
        /\ Proceed(r, "revokeuser")
        /\ UNCHANGED <<users, sessions, expired, attempts, minted, written>>

RevokeUser(r) ==
    /\ call[r].pc = "revokeuser"
    /\ RevokeCollect(r, LiveOf(call[r].who))
    /\ UNCHANGED <<users, sessions, expired, attempts, bucket, minted, written>>

SetRoleCheck(r, t, u, role) ==
    /\ Begin(r, "role") /\ AdminAuthenticated(t) /\ users[u] # None
    /\ ~(u \in Administrators /\ role # "admin" /\ Cardinality(Administrators) <= 1)
    /\ Hold(r, [NoCall EXCEPT !.pc = "getrec", !.who = u, !.want = role])
    /\ UNCHANGED <<users, sessions, expired, attempts, bucket, minted, written>>

SetRoleRead(r) ==
    /\ call[r].pc = "getrec"
    /\ IF users[call[r].who] = None THEN Answer(r)
       ELSE Hold(r, [call[r] EXCEPT !.pc = "setrole", !.snap = users[call[r].who]])
    /\ UNCHANGED <<users, sessions, expired, attempts, bucket, minted, written>>

SetRoleWrite(r) ==
    /\ call[r].pc = "setrole"
    /\ users' = [users EXCEPT ![call[r].who] = [call[r].snap EXCEPT !.role = call[r].want]]
    /\ Proceed(r, "revokeuser")
    /\ UNCHANGED <<sessions, expired, attempts, bucket, minted, written>>

ResetRead(r, t, u, pw) ==
    /\ Begin(r, "reset") /\ AdminAuthenticated(t) /\ users[u] # None
    /\ Hold(r, [NoCall EXCEPT !.pc = "reset", !.who = u, !.pw = pw, !.want = "reset", !.snap = users[u]])
    /\ UNCHANGED <<users, sessions, expired, attempts, bucket, minted, written>>

\* A new identity on the account's salt and role; every old slot is gone.
ResetWrite(r) ==
    /\ call[r].pc = "reset"
    /\ \E slots \in NewSlotsRandom(call[r].pw, call[r].snap.role) :
        Upsert(call[r].who, [call[r].snap EXCEPT !.slots = slots])
    /\ Proceed(r, "revokeuser")
    /\ UNCHANGED <<sessions, expired, attempts, bucket, minted>>

\* A PUT of the ACL that lets u in (BucketKeys has it step by step).
SetBucketAcl(r, u) ==
    /\ Begin(r, "acl") /\ users[u] # None
    /\ bucket' = [grants |-> bucket.grants \cup {u}, acl |-> bucket.acl \cup {u}]
    /\ UNCHANGED <<users, sessions, expired, attempts, minted, written, call>>

-----------------------------------------------------------------------------
(* POST personas, DELETE personas/{slot}                                   *)

\* Any slot but the caller's own, at most the account's and the caller's role.
PersonaRead(r, t, s, pw, want) ==
    LET i == sessions[t]
    IN  /\ Begin(r, "persona") /\ Live(t) /\ s # i.persona /\ users[i.user] # None
        /\ RolePermits(want[1], users[i.user].role) /\ RolePermits(want[1], i.role)
        /\ Hold(r, [NoCall EXCEPT !.pc = "newslot", !.who = i.user, !.pw = pw, !.slot = s,
                                 !.want = want, !.snap = users[i.user]])
        /\ UNCHANGED <<users, sessions, expired, attempts, bucket, minted, written>>

PersonaWrite(r) ==
    LET q == call[r]
    IN  /\ q.pc = "newslot"
        /\ IF Opens(q.snap, q.pw) # {} THEN UNCHANGED <<users, written>>
           ELSE Upsert(q.who, [q.snap EXCEPT !.slots[q.slot] = NewSlot(q.slot, q.pw, q.want[1], q.want[2])])
        /\ Answer(r)
        /\ UNCHANGED <<sessions, expired, attempts, bucket, minted>>

UnpersonaRead(r, t, s) ==
    LET i == sessions[t]
    IN  /\ Begin(r, "unpersona") /\ Live(t) /\ s # i.persona /\ users[i.user] # None
        /\ Hold(r, [NoCall EXCEPT !.pc = "decoy", !.who = i.user, !.slot = s, !.snap = users[i.user]])
        /\ UNCHANGED <<users, sessions, expired, attempts, bucket, minted, written>>

UnpersonaWrite(r) ==
    LET q == call[r]
    IN  /\ q.pc = "decoy"
        /\ Upsert(q.who, [q.snap EXCEPT !.slots[q.slot] = DecoySlot(q.slot)])
        /\ Proceed(r, "unslot")
        /\ UNCHANGED <<sessions, expired, attempts, bucket, minted>>

UnpersonaRevoke(r) ==
    /\ call[r].pc = "unslot"
    /\ RevokeCollect(r, PersonaOf(call[r].who, call[r].slot))
    /\ UNCHANGED <<users, sessions, expired, attempts, bucket, minted, written>>

-----------------------------------------------------------------------------
FirstSlot(u, s) ==
    CASE s = 0 -> [key |-> <<s, 0>>, wrap |-> 0, pw |-> Secret[u], role |-> Account[u], duress |-> FALSE]
      [] s = 1 /\ Second[u] # None ->
           [key |-> <<s, 0>>, wrap |-> 0, pw |-> Second[u][1], role |-> Second[u][2], duress |-> Second[u][3]]
      [] OTHER -> [key |-> <<s, 0>>, wrap |-> 0, pw |-> None, role |-> "user", duress |-> FALSE]
FirstRow(u, s) ==
    [user |-> u, role |-> FirstSlot(u, s).role, persona |-> s, duress |-> FirstSlot(u, s).duress,
     key |-> <<s, 0>>, refreshes |-> 0]

SessInit ==
    /\ users = [u \in Users |-> IF Account[u] = None THEN None
                ELSE [kdf |-> 0, slots |-> [s \in Slots |-> FirstSlot(u, s)], role |-> Account[u]]]
    /\ sessions = [t \in Tokens |-> IF t <= Len(Logged) THEN FirstRow(Logged[t][1], Logged[t][2]) ELSE None]
    /\ expired = {}
    /\ attempts = [u \in Users |-> Clear]
    /\ bucket \in [grants : SUBSET Users, acl : {{}}]
    /\ bucket.grants = {u \in Users : users[u] # None}
    /\ minted = Len(Logged) /\ written = 0
    /\ call = [r \in Reqs |-> NoCall]
    /\ mix \in Mixes

Login(r) ==
    \/ \E u \in mix.who, pw \in mix.pws : LoginBegin(r, u, pw)
    \/ LoginUnwrap(r) \/ LoginFresh(r) \/ LoginInsert(r) \/ LoginRecheck(r)
    \/ \E t \in Tokens : SwitchRead(r, t)
    \/ SwitchWrite(r) \/ SwitchDone(r)
OwnSession(r) ==
    \/ \E t \in Tokens : RefreshRead(r, t) \/ Logout(r, t)
    \/ RefreshInsert(r) \/ RefreshRemove(r)
    \/ \E t \in Tokens, pw, new \in mix.pws : PasswordRead(r, t, pw, new)
    \/ PasswordWrite(r) \/ PasswordRevoke(r) \/ RevokeRemove(r)
AccountRequest(r) ==
    \/ \E t \in Tokens, u \in Users, pw \in mix.pws, w \in Targets : AddCheck(r, t, u, pw, w[1])
    \/ AddWrite(r)
    \/ \E t \in Tokens, u \in Users, force \in BOOLEAN : DeleteGuard(r, t, u, force)
    \/ DeleteList(r) \/ DeleteRow(r) \/ ScrubRead(r) \/ ScrubUserGrants(r) \/ ScrubAcl(r)
    \/ RevokeUser(r)
    \/ \E t \in Tokens, u \in Users, w \in Targets : SetRoleCheck(r, t, u, w[1])
    \/ SetRoleRead(r) \/ SetRoleWrite(r)
    \/ \E t \in Tokens, u \in Users, pw \in mix.pws : ResetRead(r, t, u, pw)
    \/ ResetWrite(r)
    \/ \E u \in Users : SetBucketAcl(r, u)
PersonaRequest(r) ==
    \/ \E t \in Tokens, s \in Slots, pw \in mix.pws, w \in Targets : PersonaRead(r, t, s, pw, w)
    \/ PersonaWrite(r)
    \/ \E t \in Tokens, s \in Slots : UnpersonaRead(r, t, s)
    \/ UnpersonaWrite(r) \/ UnpersonaRevoke(r)
Clock ==
    \/ "lockout" \in mix.clock /\ \E u \in Users : LockoutEnds(u)
    \/ "expiry" \in mix.clock /\ (Sweep \/ \E t \in Tokens : Expire(t))

SessNext ==
    /\ \/ \E r \in Reqs : Login(r) \/ OwnSession(r) \/ AccountRequest(r) \/ PersonaRequest(r)
       \/ Clock
    /\ UNCHANGED mix

SessSpec == SessInit /\ [][SessNext]_sessVars

-----------------------------------------------------------------------------
(* Properties                                                              *)

\* login's second look at the account: once the requests are over, no live
\* session belongs to an account that does not exist, however a login and a
\* deletion overlapped (handlers.rs, "must not leave a live token").
NoSessionOfGone == Quiet => \A u \in Users : users[u] = None => LiveOf(u) = {}

\* LoginAttempts: between two lockouts a name can be tried max_failed_logins
\* times, plus once for every other request that was past the check already.
GuessesBounded == \A u \in Users : attempts[u].failed <= MaxFailed + Cardinality(Reqs) - 1

\* delete_user and set_role refuse to take away the last administrator.
AdminRemains == Administrators # {}

\* A live session never has more than its account's role allows: a demotion
\* ends the sessions, and no slot written before it can log in above it.
WithinCeiling ==
    Quiet => \A t \in Tokens : sessions[t] # None /\ users[sessions[t].user] # None =>
        RolePermits(sessions[t].role, users[sessions[t].user].role)

\* A session works with the key of the persona it says it is, or with a key
\* that persona had before: never with the key of another slot of the account.
KeyOfPersona ==
    \A t \in Tokens : sessions[t] # None =>
        LET i == sessions[t]
        IN  \A s \in Slots \ {i.persona} : users[i.user] # None => users[i.user].slots[s].key # i.key

\* A password opens at most one slot of a record, so which persona a login
\* gets does not depend on the order of the slots (create_persona's probe).
OnePersonaPerPassword ==
    \A u \in Users, pw \in Passwords : users[u] # None => Cardinality(Opens(users[u], pw)) <= 1

\* A deleted name keeps no key grant and no ACL entry: an account added later
\* under the same name inherits nothing (scrub_deleted_user_acl_entries).
NothingInherited ==
    Quiet => \A u \in Users : users[u] = None => u \notin bucket.grants /\ u \notin bucket.acl

=============================================================================
