--------------------------- MODULE SessionsProofs ---------------------------
(***************************************************************************)
(* Two invariants of Sessions for any number of accounts, slots, requests  *)
(* in flight and mixes of traffic: failed logins stay bounded although     *)
(* the lockout is checked in one step and counted in another, and no       *)
(* session ever works with the key of another persona.                     *)
(***************************************************************************)
EXTENDS Sessions, TLAPS, FiniteSetTheorems, WellFoundedInduction

Pcs == {"idle", "unwrap", "fresh", "insert", "recheck", "switch", "put", "reissue", "dropold", "rewrap", "others",
        "revoke", "add", "list", "row", "scrub", "scrubacl", "scrubbing", "scrubbingacl", "revokeuser", "getrec",
        "setrole", "reset", "newslot", "decoy", "unslot"}
Wants == Roles \cup Passwords \cup Targets \cup {"reset", "delete", None}
BucketConfig == [grants : SUBSET Users, acl : SUBSET Users]

\* Records and rows whose keys were generated for the slot they are in.
OwnRecord == {rec \in UserRecord : \A s \in Slots : rec.slots[s].key[1] = s}
OwnRow == {i \in SessionInfo : i.key[1] = i.persona}

Call == [pc : Pcs, tok : Tokens \cup {None}, who : Users \cup {None}, pw : Passwords \cup {None},
         slot : Slots \cup {None}, want : Wants, snap : OwnRecord \cup {None}, row : OwnRow \cup {None},
         victims : SUBSET Tokens, mine : BucketConfig \cup {None}]

\* What a request has in hand at each of its steps.
Has(c) ==
    /\ c.pc \notin {"idle", "reissue", "dropold"} => c.who \in Users
    /\ c.pc \in {"fresh", "insert", "recheck", "switch", "put", "setrole", "reset", "newslot", "decoy"} => c.snap \in OwnRecord
    /\ c.pc \in {"fresh", "insert", "recheck", "switch", "put", "rewrap", "others", "newslot", "decoy", "unslot"} => c.slot \in Slots
    /\ c.pc \in {"put", "reissue", "dropold"} => c.tok \in Tokens /\ c.row \in OwnRow
    /\ c.pc \in {"unwrap", "rewrap", "add", "reset", "newslot"} => c.pw \in Passwords
    /\ c.pc = "rewrap" => c.want \in Passwords
    /\ c.pc \in {"add", "getrec", "setrole"} => c.want \in Roles
    /\ c.pc = "newslot" => c.want \in Targets
    /\ c.pc \in {"scrubbing", "scrubbingacl"} => c.mine \in BucketConfig

Held == {c \in Call : Has(c)}

StoreTyped ==
    /\ users \in [Users -> OwnRecord \cup {None}]
    /\ sessions \in [Tokens -> OwnRow \cup {None}]
    /\ expired \subseteq Tokens
    /\ attempts \in [Users -> [failed : Nat, locked : {"no", "yes", "over"}]]
    /\ bucket \in BucketConfig
    /\ minted \in 0..MaxTokens /\ written \in Writes
    /\ mix \in Mixes

SessInv == StoreTyped /\ call \in [Reqs -> Held]

\* The requests that are past the lockout check of u and have not counted their outcome yet.
Pending(u) == {r \in Reqs : call[r].pc \in {"unwrap", "rewrap"} /\ call[r].who = u}

\* Each of them can still count one failure.
GuessInv ==
    \A u \in Users :
        /\ attempts[u].locked = "no" => attempts[u].failed < MaxFailed
        /\ attempts[u].failed + Cardinality(Pending(u)) <= MaxFailed + Cardinality(Reqs) - 1

-----------------------------------------------------------------------------
(* Records, rows and requests.                                             *)

LEMMA SlotFields ==
    ASSUME NEW rec \in OwnRecord, NEW s \in Slots
    PROVE  /\ rec.slots[s].key \in Keys /\ rec.slots[s].key[1] = s /\ rec.slots[s].role \in Roles
           /\ rec.slots[s].duress \in BOOLEAN /\ rec.slots[s] \in CredentialSlot
  BY DEF OwnRecord, UserRecord, CredentialSlot

LEMMA RowFields ==
    ASSUME NEW i \in OwnRow
    PROVE  /\ i.user \in Users /\ i.role \in Roles /\ i.persona \in Slots /\ i.duress \in BOOLEAN
           /\ i.key \in Keys /\ i.key[1] = i.persona /\ i.refreshes \in 0..MaxRefreshes
  BY DEF OwnRow, SessionInfo

\* A slot that is written anew has a key of its own.
LEMMA NewSlotOwn ==
    ASSUME NEW s \in Slots, NEW pw \in Passwords \cup {None}, NEW role \in Roles, NEW duress \in BOOLEAN,
           written + 1 \in Writes
    PROVE  NewSlot(s, pw, role, duress) \in CredentialSlot /\ NewSlot(s, pw, role, duress).key[1] = s
  BY DEF NewSlot, CredentialSlot, Keys

LEMMA DecoyOwn ==
    ASSUME NEW s \in Slots, written + 1 \in Writes
    PROVE  DecoySlot(s) \in CredentialSlot /\ DecoySlot(s).key[1] = s
  BY NewSlotOwn, Zenon DEF DecoySlot, Roles

LEMMA PutSlot ==
    ASSUME NEW rec \in OwnRecord, NEW s \in Slots, NEW x \in CredentialSlot, x.key[1] = s
    PROVE  [rec EXCEPT !.slots[s] = x] \in OwnRecord
<1> DEFINE new == [rec EXCEPT !.slots[s] = x]
<1>1. rec \in UserRecord /\ \A t \in Slots : rec.slots[t].key[1] = t
  BY DEF OwnRecord
<1>2. new \in UserRecord
  BY <1>1 DEF UserRecord
<1>3. new.slots = [rec.slots EXCEPT ![s] = x]
  BY <1>1 DEF UserRecord
<1>4. \A t \in Slots : new.slots[t].key[1] = t
  BY <1>1, <1>3 DEF UserRecord
<1> QED BY <1>2, <1>4, Zenon DEF OwnRecord

\* Another password for the same slot: the key stays.
LEMMA Rewrapped ==
    ASSUME NEW rec \in OwnRecord, NEW s \in Slots, NEW pw \in Passwords, NEW n \in Writes
    PROVE  [rec EXCEPT !.slots[s] = [@ EXCEPT !.pw = pw, !.wrap = n]] \in OwnRecord
<1> DEFINE x == [rec.slots[s] EXCEPT !.pw = pw, !.wrap = n]
<1>1. rec.slots[s] \in CredentialSlot /\ rec.slots[s].key[1] = s
  BY SlotFields
<1>2. x \in CredentialSlot /\ x.key[1] = s
  BY <1>1, Zenon DEF CredentialSlot
<1>3. [rec EXCEPT !.slots[s] = [@ EXCEPT !.pw = pw, !.wrap = n]] = [rec EXCEPT !.slots[s] = x]
  OBVIOUS
<1> HIDE DEF x
<1> QED BY <1>2, <1>3, PutSlot

\* The slots of a new or reset account.
LEMMA FreshSlots ==
    ASSUME NEW pw \in Passwords, NEW role \in Roles, written + 1 \in Writes,
           NEW slots \in NewSlotsRandom(pw, role)
    PROVE  slots \in [Slots -> CredentialSlot] /\ \A s \in Slots : slots[s].key[1] = s
<1>1. PICK real \in Slots : slots = [s \in Slots |-> IF s = real THEN NewSlot(s, pw, role, FALSE) ELSE DecoySlot(s)]
  BY Zenon DEF NewSlotsRandom
<1>2. \A s \in Slots : slots[s] \in CredentialSlot /\ slots[s].key[1] = s
  BY <1>1, NewSlotOwn, DecoyOwn, Zenon
<1> QED BY <1>1, <1>2, Zenon

LEMMA NoCallHeld == NoCall \in Held /\ NoCall.pc = "idle"
  BY DEF NoCall, Held, Call, Has, Pcs, Wants

\* A request that has collected the rows it will drop, and one that has read the bucket's configuration.
LEMMA Collects ==
    ASSUME NEW q \in Call, q.who \in Users, NEW ts \in SUBSET Tokens
    PROVE  [q EXCEPT !.pc = "revoke", !.victims = ts] \in Call /\ Has([q EXCEPT !.pc = "revoke", !.victims = ts])
<1>1. [q EXCEPT !.pc = "revoke", !.victims = ts] \in Call
  BY Zenon DEF Call, Pcs
<1>2. [q EXCEPT !.pc = "revoke", !.victims = ts].pc = "revoke" /\ [q EXCEPT !.pc = "revoke", !.victims = ts].who = q.who
  BY DEF Call
<1> QED BY <1>1, <1>2 DEF Has

LEMMA ReadsBucket ==
    ASSUME NEW q \in Call, q.who \in Users, NEW b \in BucketConfig, NEW to \in {"scrubbing", "scrubbingacl"}
    PROVE  [q EXCEPT !.mine = b, !.pc = to] \in Call /\ Has([q EXCEPT !.mine = b, !.pc = to])
<1>1. [q EXCEPT !.mine = b, !.pc = to] \in Call
  BY Zenon DEF Call, Pcs
<1>2. LET x == [q EXCEPT !.mine = b, !.pc = to] IN x.pc = to /\ x.who = q.who /\ x.mine = b
  BY DEF Call
<1> QED BY <1>1, <1>2 DEF Has

LEMMA Known ==
    ASSUME SessInv, NEW r \in Reqs
    PROVE  call[r] \in Call /\ Has(call[r]) /\ StoreTyped /\ DOMAIN call = Reqs
  BY DEF SessInv, Held

LEMMA Holds ==
    ASSUME SessInv, NEW r \in Reqs, StoreTyped', NEW x \in Call, Has(x), call' = [call EXCEPT ![r] = x]
    PROVE  SessInv'
  BY DEF SessInv, Held

-----------------------------------------------------------------------------
(* The parts of the state that several requests change.                    *)

LEMMA Upserted ==
    ASSUME StoreTyped, NEW u \in Users, NEW rec \in OwnRecord, Upsert(u, rec)
    PROVE  users' \in [Users -> OwnRecord \cup {None}] /\ written' \in Writes
  BY MixAssumption, BoundAssumption DEF StoreTyped, Upsert, Writes

LEMMA Inserted ==
    ASSUME StoreTyped, NEW row \in OwnRow, Insert(row)
    PROVE  sessions' \in [Tokens -> OwnRow \cup {None}] /\ minted' \in 0..MaxTokens /\ minted + 1 \in Tokens
  BY MixAssumption, BoundAssumption DEF StoreTyped, Insert, Tokens

LEMMA Dropped ==
    ASSUME StoreTyped, NEW ts, DropRows(ts)
    PROVE  sessions' \in [Tokens -> OwnRow \cup {None}]
  BY DEF StoreTyped, DropRows

AttemptRecords == [failed : Nat, locked : {"no", "yes", "over"}]

LEMMA Attempts ==
    ASSUME StoreTyped, NEW u \in Users, CheckLockout(u) \/ RecordFailure(u) \/ RecordSuccess(u)
    PROVE  attempts' \in [Users -> AttemptRecords]
<1>1. Clear \in AttemptRecords
  BY DEF Clear, AttemptRecords
<1>2. CASE RecordFailure(u)
  <2>1. attempts[u].failed + 1 \in Nat /\ attempts[u].locked \in {"no", "yes", "over"}
    BY DEF StoreTyped
  <2> QED BY <1>2, <2>1 DEF RecordFailure, StoreTyped, AttemptRecords
<1>3. CASE CheckLockout(u) \/ RecordSuccess(u)
  BY <1>1, <1>3 DEF CheckLockout, RecordSuccess, StoreTyped, AttemptRecords
<1> QED BY <1>2, <1>3

\* Every set of naturals that is not empty has a least element: Min is one of its members.
LEMMA LeastOne ==
    ASSUME NEW S \in SUBSET Nat, S # {}
    PROVE  \E m \in S : \A n \in S : m <= n
<1> DEFINE R == OpToRel(<, Nat)
<1>1. IsWellFoundedOn(R, Nat)
  BY NatLessThanWellFounded, Zenon
<1>3. \A x, y \in Nat : x < y => <<x, y>> \in R
  BY DEF OpToRel
<1> HIDE DEF R
<1>2. \E x \in S : \A y \in S : ~ (<<y, x>> \in R)
  BY <1>1, WFMin, Zenon
<1>4. PICK x \in S : \A y \in S : ~ (<<y, x>> \in R)
  BY <1>2
<1>5. \A y \in S : ~ (y < x)
  BY <1>3, <1>4, Zenon
<1> QED BY <1>5

-----------------------------------------------------------------------------
(* The steps of a login.                                                 *)

\* UNCHANGED for what a step of a request leaves alone.
LEMMA StoreKept ==
    ASSUME StoreTyped, UNCHANGED <<users, sessions, expired, attempts, bucket, minted, written, mix>>
    PROVE  StoreTyped'
  BY DEF StoreTyped

LEMMA LoginKeeps ==
    ASSUME SessInv, NEW r \in Reqs, Login(r), UNCHANGED mix
    PROVE  SessInv'
<1> DEFINE q == call[r]
<1>q. q \in Call /\ Has(q) /\ StoreTyped
  BY Known
<1>1. ASSUME NEW u \in mix.who, NEW pw \in mix.pws, LoginBegin(r, u, pw) PROVE SessInv'
  <2> DEFINE x == [NoCall EXCEPT !.pc = "unwrap", !.who = u, !.pw = pw, !.snap = users[u]]
  <2>1. u \in Users /\ pw \in Passwords /\ users[u] \in OwnRecord \cup {None}
    BY <1>q, MixAssumption DEF StoreTyped
  <2>2. x \in Call /\ Has(x)
    BY <2>1, Zenon DEF NoCall, Call, Has, Pcs, Wants
  <2>3. StoreTyped'
    BY <1>1, <1>q, <2>1, Attempts DEF LoginBegin, StoreTyped, AttemptRecords
  <2>4. call' = [call EXCEPT ![r] = x]
    BY <1>1 DEF LoginBegin, Hold
  <2> HIDE DEF x
  <2> QED BY <2>2, <2>3, <2>4, Holds, Zenon
<1>2. CASE LoginUnwrap(r)
  <2> DEFINE open == IF q.snap = None THEN {} ELSE Opens(q.snap, q.pw)
             x == [q EXCEPT !.pc = "fresh", !.slot = Min(open)]
  <2>1. q.pc = "unwrap" /\ q.who \in Users
    BY <1>2, <1>q DEF LoginUnwrap, Has
  <2>2. CASE open = {}
    <3>1. RecordFailure(q.who) /\ call' = [call EXCEPT ![r] = NoCall] /\ UNCHANGED <<users, sessions, expired, bucket, minted, written>>
      BY <1>2, <2>2 DEF LoginUnwrap, Answer, Hold
    <3>2. StoreTyped'
      BY <1>q, <2>1, <3>1, Attempts DEF StoreTyped, AttemptRecords
    <3> QED BY <3>1, <3>2, NoCallHeld, Holds, Zenon DEF Held
  <2>3. CASE open # {}
    <3>1. call' = [call EXCEPT ![r] = x] /\ UNCHANGED <<users, sessions, expired, attempts, bucket, minted, written>>
      BY <1>2, <2>3 DEF LoginUnwrap, Hold
    <3>2. q.snap # None /\ open \subseteq Slots
      BY <2>3 DEF Opens
    <3>3. Min(open) \in Slots
      <4>1. open \subseteq Nat /\ open # {}
        BY <2>3, <3>2, BoundAssumption, Zenon
      <4>2. \E m \in open : \A n \in open : m <= n
        BY <4>1, LeastOne
      <4> QED BY <3>2, <4>2 DEF Min
    <3> DEFINE least == Min(open)
    <3> HIDE DEF least
    <3>4. [q EXCEPT !.pc = "fresh", !.slot = least] \in Call /\ Has([q EXCEPT !.pc = "fresh", !.slot = least])
      <4>1. least \in Slots /\ q.snap \in OwnRecord
        BY <1>q, <3>2, <3>3, Zenon DEF least, Call
      <4> QED BY <1>q, <2>1, <4>1, ZenonT(40) DEF Call, Has, Pcs
    <3>5. StoreTyped'
      BY <1>q, <3>1, StoreKept
    <3>6. call' = [call EXCEPT ![r] = [q EXCEPT !.pc = "fresh", !.slot = least]]
      BY <3>1 DEF least
    <3> QED BY <3>4, <3>5, <3>6, Holds, Zenon
  <2> QED BY <2>2, <2>3
<1>3. CASE LoginFresh(r)
  <2>1. q.pc = "fresh" /\ StoreTyped'
    BY <1>3, <1>q, StoreKept, Zenon DEF LoginFresh
  <2>2. call' = [call EXCEPT ![r] = NoCall] \/ call' = [call EXCEPT ![r] = [q EXCEPT !.pc = "insert"]]
    BY <1>3 DEF LoginFresh, Answer, Proceed, Hold
  <2>3. [q EXCEPT !.pc = "insert"] \in Call /\ Has([q EXCEPT !.pc = "insert"])
    BY <1>q, <2>1 DEF Call, Has, Pcs
  <2> QED BY <2>1, <2>2, <2>3, NoCallHeld, Holds, Zenon DEF Held
<1>4. CASE LoginInsert(r)
  <2> DEFINE p == q.snap.slots[q.slot]
             row == [user |-> q.who, role |-> p.role, persona |-> q.slot, duress |-> p.duress, key |-> p.key, refreshes |-> 0]
             x == [q EXCEPT !.pc = "recheck", !.tok = minted + 1]
  <2>1. q.pc = "insert" /\ q.snap \in OwnRecord /\ q.slot \in Slots /\ q.who \in Users
    BY <1>4, <1>q DEF LoginInsert, Has
  <2>2. row \in OwnRow
    <3>1. p.role \in Roles /\ p.duress \in BOOLEAN /\ p.key \in Keys /\ p.key[1] = q.slot
      BY <2>1, SlotFields
    <3> HIDE DEF p
    <3> QED BY <2>1, <3>1, BoundAssumption DEF OwnRow, SessionInfo
  <2>3. Insert(row) /\ call' = [call EXCEPT ![r] = x] /\ UNCHANGED <<users, expired, attempts, bucket, written>>
    BY <1>4, Zenon DEF LoginInsert, Hold
  <2> HIDE DEF row
  <2>4. StoreTyped' /\ minted + 1 \in Tokens
    BY <1>q, <2>2, <2>3, Inserted DEF StoreTyped
  <2>5. x \in Call /\ Has(x)
    BY <1>q, <2>1, <2>4, ZenonT(40) DEF Call, Has, Pcs
  <2> HIDE DEF x
  <2> QED BY <2>3, <2>4, <2>5, Holds, Zenon
<1>5. CASE LoginRecheck(r)
  <2> DEFINE gone == LiveOf(q.who)
             rest == LiveOf(q.who) \ PersonaOf(q.who, q.slot)
  <2>1. q.pc = "recheck" /\ q.who \in Users
    BY <1>5, <1>q DEF LoginRecheck, Has
  <2>2. gone \subseteq Tokens /\ rest \subseteq Tokens
    BY Zenon DEF LiveOf
  <2>3. StoreTyped'
    BY <1>5, <1>q, <2>1, Attempts, Zenon DEF LoginRecheck, StoreTyped, AttemptRecords
  <2>4. \/ call' = [call EXCEPT ![r] = [q EXCEPT !.pc = "revoke", !.victims = gone]]
        \/ call' = [call EXCEPT ![r] = [q EXCEPT !.pc = "switch", !.victims = rest]]
        \/ call' = [call EXCEPT ![r] = NoCall]
    BY <1>5 DEF LoginRecheck, RevokeCollect, Answer, Hold
  <2> HIDE DEF gone, rest
  <2>5. [q EXCEPT !.pc = "revoke", !.victims = gone] \in Call /\ Has([q EXCEPT !.pc = "revoke", !.victims = gone])
    BY <1>q, <2>1, <2>2, ZenonT(40) DEF Call, Has, Pcs
  <2>6. [q EXCEPT !.pc = "switch", !.victims = rest] \in Call /\ Has([q EXCEPT !.pc = "switch", !.victims = rest])
    BY <1>q, <2>1, <2>2, ZenonT(40) DEF Call, Has, Pcs
  <2> QED BY <2>3, <2>4, <2>5, <2>6, NoCallHeld, Holds DEF Held
<1>6. ASSUME NEW t \in Tokens, SwitchRead(r, t) PROVE SessInv'
  <2> DEFINE to == IF sessions[t] = None THEN "switch" ELSE "put"
             row == sessions[t]
             rest == q.victims \ {t}
  <2>1. q.pc = "switch" /\ StoreTyped'
    BY <1>6, <1>q, StoreKept DEF SwitchRead
  <2>2. row \in OwnRow \cup {None} /\ (to = "put" => row \in OwnRow) /\ to \in {"switch", "put"} /\ rest \subseteq Tokens
    BY <1>q DEF StoreTyped, Call
  <2>3. call' = [call EXCEPT ![r] = [q EXCEPT !.victims = rest, !.row = row, !.tok = t, !.pc = to]]
    BY <1>6, <1>q DEF SwitchRead, Hold, Call
  <2> HIDE DEF to, row, rest
  <2>4. [q EXCEPT !.victims = rest, !.row = row, !.tok = t, !.pc = to] \in Call
    BY <1>q, <2>2, ZenonT(40) DEF Call, Pcs
  <2>5. Has([q EXCEPT !.victims = rest, !.row = row, !.tok = t, !.pc = to])
    BY <1>q, <2>1, <2>2 DEF Call, Has, Pcs
  <2> QED BY <2>1, <2>3, <2>4, <2>5, Holds, Zenon
<1>7. CASE SwitchWrite(r)
  <2> DEFINE p == q.snap.slots[q.slot]
             row == Switched(q.row, q.slot, p)
  <2>1. q.pc = "put" /\ q.snap \in OwnRecord /\ q.slot \in Slots /\ q.tok \in Tokens /\ q.row \in OwnRow
    BY <1>7, <1>q DEF SwitchWrite, Has
  <2>2. row \in OwnRow
    <3>1. p.role \in Roles /\ p.duress \in BOOLEAN /\ p.key \in Keys /\ p.key[1] = q.slot
      BY <2>1, SlotFields
    <3> HIDE DEF p
    <3>2. row \in SessionInfo
      BY <2>1, <3>1, Zenon DEF Switched, OwnRow, SessionInfo
    <3>3. row.key = p.key /\ row.persona = q.slot
      BY <2>1, <3>1 DEF Switched, OwnRow, SessionInfo
    <3> QED BY <3>1, <3>2, <3>3, Zenon DEF OwnRow
  <2>3. sessions' = [sessions EXCEPT ![q.tok] = row] /\ call' = [call EXCEPT ![r] = [q EXCEPT !.pc = "switch"]]
        /\ UNCHANGED <<users, expired, attempts, bucket, minted, written>>
    BY <1>7 DEF SwitchWrite, Proceed, Hold
  <2> HIDE DEF row
  <2>4. StoreTyped'
    BY <1>q, <2>2, <2>3, Zenon DEF StoreTyped
  <2>5. [q EXCEPT !.pc = "switch"] \in Call /\ Has([q EXCEPT !.pc = "switch"])
    BY <1>q, <2>1 DEF Call, Has, Pcs
  <2> QED BY <2>3, <2>4, <2>5, Holds, Zenon
<1>8. CASE SwitchDone(r)
  <2>1. q.who \in Users
    BY <1>8, <1>q DEF SwitchDone, Has
  <2>2. StoreTyped' /\ call' = [call EXCEPT ![r] = NoCall]
    BY <1>8, <1>q, <2>1, Attempts, Zenon DEF SwitchDone, StoreTyped, AttemptRecords, Answer, Hold
  <2> QED BY <2>2, NoCallHeld, Holds, Zenon DEF Held
<1> QED BY <1>1, <1>2, <1>3, <1>4, <1>5, <1>6, <1>7, <1>8 DEF Login

-----------------------------------------------------------------------------
(* The other requests.                                                     *)

LEMMA OwnSessionKeeps ==
    ASSUME SessInv, NEW r \in Reqs, OwnSession(r), UNCHANGED mix
    PROVE  SessInv'
<1> DEFINE q == call[r]
<1>q. q \in Call /\ Has(q) /\ StoreTyped
  BY Known
<1>1. ASSUME NEW t \in Tokens, RefreshRead(r, t) PROVE SessInv'
  <2> DEFINE row == [sessions[t] EXCEPT !.refreshes = @ + 1]
             x == [NoCall EXCEPT !.pc = "reissue", !.tok = t, !.row = row]
  <2>1. sessions[t] \in OwnRow /\ sessions[t].refreshes < MaxRefreshes
    BY <1>1, <1>q DEF RefreshRead, Live, StoreTyped
  <2>2. row \in OwnRow
    <3>1. sessions[t].refreshes + 1 \in 0..MaxRefreshes
      BY <2>1, RowFields, BoundAssumption
    <3>2. row \in SessionInfo /\ row.key = sessions[t].key /\ row.persona = sessions[t].persona
      BY <2>1, <3>1 DEF OwnRow, SessionInfo
    <3> QED BY <2>1, <3>2, Zenon DEF OwnRow
  <2>3. call' = [call EXCEPT ![r] = x] /\ StoreTyped'
    BY <1>1, <1>q, StoreKept DEF RefreshRead, Hold
  <2> HIDE DEF row
  <2>4. x \in Call /\ Has(x)
    BY <2>2, Zenon DEF NoCall, Call, Has, Pcs, Wants
  <2> HIDE DEF x
  <2> QED BY <2>3, <2>4, Holds, Zenon
<1>2. ASSUME NEW t \in Tokens, Logout(r, t) PROVE SessInv'
  <2>1. DropRows({t}) /\ UNCHANGED <<users, expired, attempts, bucket, minted, written, call>>
    BY <1>2 DEF Logout
  <2>2. StoreTyped'
    BY <1>q, <2>1, Dropped DEF StoreTyped
  <2> QED BY <2>1, <2>2 DEF SessInv
<1>3. CASE RefreshInsert(r)
  <2>1. q.pc = "reissue" /\ q.row \in OwnRow /\ Insert(q.row) /\ UNCHANGED <<users, expired, attempts, bucket, written>>
        /\ call' = [call EXCEPT ![r] = [q EXCEPT !.pc = "dropold"]]
    BY <1>3, <1>q DEF RefreshInsert, Has, Proceed, Hold
  <2>2. StoreTyped'
    BY <1>q, <2>1, Inserted DEF StoreTyped
  <2>3. [q EXCEPT !.pc = "dropold"] \in Call /\ Has([q EXCEPT !.pc = "dropold"])
    BY <1>q, <2>1 DEF Call, Has, Pcs
  <2> QED BY <2>1, <2>2, <2>3, Holds, Zenon
<1>4. CASE RefreshRemove(r)
  <2>1. DropRows({q.tok}) /\ UNCHANGED <<users, expired, attempts, bucket, minted, written>> /\ call' = [call EXCEPT ![r] = NoCall]
    BY <1>4 DEF RefreshRemove, Answer, Hold
  <2>2. StoreTyped'
    BY <1>q, <2>1, Dropped DEF StoreTyped
  <2> QED BY <2>1, <2>2, NoCallHeld, Holds, Zenon DEF Held
<1>5. ASSUME NEW t \in Tokens, NEW pw \in mix.pws, NEW new \in mix.pws, PasswordRead(r, t, pw, new) PROVE SessInv'
  <2> DEFINE u == sessions[t].user
             slot == sessions[t].persona
             rec == users[u]
             x == [NoCall EXCEPT !.pc = "rewrap", !.tok = t, !.who = u, !.pw = pw, !.want = new, !.slot = slot, !.snap = rec]
  <2>1. u \in Users /\ slot \in Slots /\ pw \in Passwords /\ new \in Passwords
    BY <1>5, <1>q, RowFields, MixAssumption DEF PasswordRead, Live, StoreTyped
  <2>2. rec \in OwnRecord \cup {None}
    BY <1>q, <2>1 DEF StoreTyped
  <2>3. call' = [call EXCEPT ![r] = x] /\ CheckLockout(u) /\ UNCHANGED <<users, sessions, expired, bucket, minted, written>>
    BY <1>5 DEF PasswordRead, Hold
  <2> HIDE DEF u, slot, rec
  <2>4. StoreTyped'
    BY <1>q, <2>1, <2>3, Attempts DEF StoreTyped, AttemptRecords
  <2>5. x \in Call /\ Has(x)
    BY <2>1, <2>2, Zenon DEF NoCall, Call, Has, Pcs, Wants
  <2> HIDE DEF x
  <2> QED BY <2>3, <2>4, <2>5, Holds, Zenon
<1>6. CASE PasswordWrite(r)
  <2>1. q.pc = "rewrap" /\ q.who \in Users /\ q.slot \in Slots /\ q.want \in Passwords /\ UNCHANGED <<sessions, expired, bucket, minted>>
    BY <1>6, <1>q DEF PasswordWrite, Has
  <2>2. CASE RecordFailure(q.who) /\ Answer(r) /\ UNCHANGED <<users, written>>
    <3>1. StoreTyped'
      BY <1>q, <2>1, <2>2, Attempts DEF StoreTyped, AttemptRecords
    <3> QED BY <2>2, <3>1, NoCallHeld, Holds, Zenon DEF Held, Answer, Hold
  <2> DEFINE rec == [q.snap EXCEPT !.slots[q.slot] = [@ EXCEPT !.pw = q.want, !.wrap = written + 1]]
  <2>3. CASE q.snap # None /\ Upsert(q.who, rec) /\ RecordSuccess(q.who) /\ Proceed(r, "others")
    <3>1. written + 1 \in Writes
      BY <1>q, <2>3, MixAssumption, BoundAssumption DEF StoreTyped, Upsert, Writes
    <3>2. q.snap \in OwnRecord
      BY <1>q, <2>3 DEF Call
    <3>3. rec \in OwnRecord
      BY <2>1, <3>1, <3>2, Rewrapped, Zenon
    <3> HIDE DEF rec
    <3>4. StoreTyped'
      BY <1>q, <2>1, <2>3, <3>3, Upserted, Attempts DEF StoreTyped, AttemptRecords
    <3>5. [q EXCEPT !.pc = "others"] \in Call /\ Has([q EXCEPT !.pc = "others"])
      BY <1>q, <2>1 DEF Call, Has, Pcs
    <3> QED BY <2>3, <3>4, <3>5, Holds, Zenon DEF Proceed, Hold
  <2> QED BY <1>6, <2>2, <2>3, Zenon DEF PasswordWrite
<1>7. CASE PasswordRevoke(r)
  <2> DEFINE ts == PersonaOf(q.who, q.slot) \ {q.tok}
  <2>1. q.pc = "others" /\ StoreTyped' /\ ts \subseteq Tokens /\ call' = [call EXCEPT ![r] = [q EXCEPT !.pc = "revoke", !.victims = ts]]
    BY <1>7, <1>q, StoreKept DEF PasswordRevoke, RevokeCollect, Hold, PersonaOf, LiveOf
  <2> HIDE DEF ts
  <2>2. [q EXCEPT !.pc = "revoke", !.victims = ts] \in Call /\ Has([q EXCEPT !.pc = "revoke", !.victims = ts])
    BY <1>q, <2>1, Collects, Zenon DEF Has
  <2> QED BY <2>1, <2>2, Holds, Zenon
<1>8. CASE RevokeRemove(r)
  <2>1. q.pc = "revoke" /\ DropRows(q.victims) /\ UNCHANGED <<users, expired, attempts, bucket, minted, written>>
    BY <1>8 DEF RevokeRemove
  <2>2. StoreTyped'
    BY <1>q, <2>1, Dropped DEF StoreTyped
  <2>3. [q EXCEPT !.pc = "scrub"] \in Call /\ Has([q EXCEPT !.pc = "scrub"])
    BY <1>q, <2>1 DEF Call, Has, Pcs
  <2>4. call' = [call EXCEPT ![r] = NoCall] \/ call' = [call EXCEPT ![r] = [q EXCEPT !.pc = "scrub"]]
    BY <1>8, Zenon DEF RevokeRemove, Proceed, Answer, Hold
  <2> QED BY <2>2, <2>3, <2>4, NoCallHeld, Holds, Zenon DEF Held
<1> QED BY <1>1, <1>2, <1>3, <1>4, <1>5, <1>6, <1>7, <1>8 DEF OwnSession

LEMMA AccountKeeps ==
    ASSUME SessInv, NEW r \in Reqs, AccountRequest(r), UNCHANGED mix
    PROVE  SessInv'
<1> DEFINE q == call[r]
<1>q. q \in Call /\ Has(q) /\ StoreTyped
  BY Known, Zenon
<1>t. \A w \in Targets : w[1] \in Roles /\ w[1] \in Wants
  BY BoundAssumption DEF Wants
<1>1. ASSUME NEW t \in Tokens, NEW u \in Users, NEW pw \in mix.pws, NEW w \in Targets, AddCheck(r, t, u, pw, w[1]) PROVE SessInv'
  <2> DEFINE role == w[1]
             x == [NoCall EXCEPT !.pc = "add", !.who = u, !.pw = pw, !.want = role]
  <2>1. role \in Roles /\ pw \in Passwords
    BY <1>q, <1>t, MixAssumption DEF StoreTyped
  <2>2. call' = [call EXCEPT ![r] = x] /\ StoreTyped'
    BY <1>1, <1>q, StoreKept DEF AddCheck, Hold
  <2> HIDE DEF role
  <2>3. x \in Call /\ Has(x)
    BY <2>1, Zenon DEF NoCall, Call, Has, Pcs, Wants
  <2> HIDE DEF x
  <2> QED BY <2>2, <2>3, Holds, Zenon
<1>2. CASE AddWrite(r)
  <2>1. q.pc = "add" /\ q.who \in Users /\ q.pw \in Passwords /\ q.want \in Roles
    BY <1>2, <1>q, Zenon DEF AddWrite, Has
  <2>2. PICK slots \in NewSlotsRandom(q.pw, q.want) : Upsert(q.who, [kdf |-> written + 1, slots |-> slots, role |-> q.want])
    BY <1>2, Zenon DEF AddWrite
  <2>3. written + 1 \in Writes
    BY SMTT(20), Zenon, <1>q, <2>2, MixAssumption, BoundAssumption DEF StoreTyped, Upsert, Writes
  <2>4. [kdf |-> written + 1, slots |-> slots, role |-> q.want] \in OwnRecord
    BY SMTT(20), Zenon, <2>1, <2>3, FreshSlots DEF OwnRecord, UserRecord
  <2>5. StoreTyped'
    BY <1>2, <1>q, <2>1, <2>2, <2>4, Upserted DEF StoreTyped, AddWrite
  <2> QED BY <1>2, <2>5, NoCallHeld, Holds, Zenon DEF Held, AddWrite, Answer, Hold
<1>3. ASSUME NEW t \in Tokens, NEW u \in Users, NEW force \in BOOLEAN, DeleteGuard(r, t, u, force) PROVE SessInv'
  <2> DEFINE x == [NoCall EXCEPT !.pc = "list", !.who = u, !.want = "delete"]
  <2>1. call' = [call EXCEPT ![r] = x] /\ StoreTyped'
    BY <1>3, <1>q, StoreKept DEF DeleteGuard, Hold
  <2>2. x \in Call /\ Has(x)
    BY Zenon DEF NoCall, Call, Has, Pcs, Wants
  <2> HIDE DEF x
  <2> QED BY <2>1, <2>2, Holds, Zenon
<1>4. CASE DeleteList(r)
  <2>1. q.pc = "list" /\ StoreTyped'
    BY <1>4, <1>q, StoreKept DEF DeleteList
  <2>2. [q EXCEPT !.pc = "row"] \in Call /\ Has([q EXCEPT !.pc = "row"])
    BY <1>q, <2>1 DEF Call, Has, Pcs
  <2>3. call' = [call EXCEPT ![r] = NoCall] \/ call' = [call EXCEPT ![r] = [q EXCEPT !.pc = "row"]]
    BY <1>4 DEF DeleteList, Proceed, Answer, Hold
  <2> QED BY <2>1, <2>2, <2>3, NoCallHeld, Holds, Zenon DEF Held
<1>5. CASE DeleteRow(r)
  <2>1. q.pc = "row" /\ StoreTyped'
    BY <1>5, <1>q, Zenon DEF DeleteRow, StoreTyped
  <2>2. [q EXCEPT !.pc = "scrub"] \in Call /\ Has([q EXCEPT !.pc = "scrub"])
    BY <1>q, <2>1 DEF Call, Has, Pcs
  <2>3. call' = [call EXCEPT ![r] = NoCall] \/ call' = [call EXCEPT ![r] = [q EXCEPT !.pc = "scrub"]]
    BY <1>5 DEF DeleteRow, Proceed, Answer, Hold
  <2> QED BY <2>1, <2>2, <2>3, NoCallHeld, Holds DEF Held
<1>6. CASE ScrubRead(r)
  <2> DEFINE to == IF q.pc = "scrub" THEN "scrubbing" ELSE "scrubbingacl"
             x == [q EXCEPT !.mine = bucket, !.pc = to]
  <2>1. q.pc \in {"scrub", "scrubacl"} /\ StoreTyped' /\ to \in {"scrubbing", "scrubbingacl"} /\ bucket \in BucketConfig
    BY <1>6, <1>q, StoreKept DEF ScrubRead, StoreTyped
  <2>2. call' = [call EXCEPT ![r] = x]
    BY <1>6, <1>q DEF ScrubRead, Hold, Call
  <2>3. q.who \in Users
    BY <1>q, <2>1 DEF Has
  <2> HIDE DEF to
  <2>4. x \in Call /\ Has(x)
    BY <1>q, <2>1, <2>3, ReadsBucket, Zenon
  <2> HIDE DEF x
  <2> QED BY <2>1, <2>2, <2>4, Holds, Zenon
<1>7. CASE ScrubUserGrants(r)
  <2>1. q.pc = "scrubbing" /\ q.mine \in BucketConfig
    BY <1>7, <1>q DEF ScrubUserGrants, Has
  <2>2. [q.mine EXCEPT !.grants = @ \ {q.who}] \in BucketConfig
    BY <2>1 DEF BucketConfig
  <2>3. StoreTyped'
    BY <1>7, <1>q, <2>2 DEF ScrubUserGrants, StoreTyped
  <2>4. [q EXCEPT !.pc = "scrubacl"] \in Call /\ Has([q EXCEPT !.pc = "scrubacl"])
    BY <1>q, <2>1 DEF Call, Has, Pcs
  <2>5. call' = [call EXCEPT ![r] = NoCall] \/ call' = [call EXCEPT ![r] = [q EXCEPT !.pc = "scrubacl"]]
    BY <1>7 DEF ScrubUserGrants, Proceed, Answer, Hold
  <2> QED BY <2>3, <2>4, <2>5, NoCallHeld, Holds DEF Held
<1>8. CASE ScrubAcl(r)
  <2>1. q.pc = "scrubbingacl" /\ q.mine \in BucketConfig
    BY <1>8, <1>q DEF ScrubAcl, Has
  <2>2. [q.mine EXCEPT !.acl = @ \ {q.who}] \in BucketConfig
    BY <2>1 DEF BucketConfig
  <2>3. StoreTyped' /\ call' = [call EXCEPT ![r] = [q EXCEPT !.pc = "revokeuser"]]
    BY <1>8, <1>q, <2>2 DEF ScrubAcl, StoreTyped, Proceed, Hold
  <2>4. [q EXCEPT !.pc = "revokeuser"] \in Call /\ Has([q EXCEPT !.pc = "revokeuser"])
    BY <1>q, <2>1 DEF Call, Has, Pcs
  <2> QED BY <2>3, <2>4, Holds, Zenon
<1>9. CASE RevokeUser(r)
  <2> DEFINE ts == LiveOf(q.who)
  <2>1. q.pc = "revokeuser" /\ StoreTyped' /\ ts \subseteq Tokens /\ call' = [call EXCEPT ![r] = [q EXCEPT !.pc = "revoke", !.victims = ts]]
    BY <1>9, <1>q, StoreKept DEF RevokeUser, RevokeCollect, Hold, LiveOf
  <2> HIDE DEF ts
  <2>2. [q EXCEPT !.pc = "revoke", !.victims = ts] \in Call /\ Has([q EXCEPT !.pc = "revoke", !.victims = ts])
    BY <1>q, <2>1, Collects, Zenon DEF Has
  <2> QED BY <2>1, <2>2, Holds, Zenon
<1>10. ASSUME NEW t \in Tokens, NEW u \in Users, NEW w \in Targets, SetRoleCheck(r, t, u, w[1]) PROVE SessInv'
  <2> DEFINE role == w[1]
             x == [NoCall EXCEPT !.pc = "getrec", !.who = u, !.want = role]
  <2>1. role \in Roles
    BY <1>t
  <2>2. call' = [call EXCEPT ![r] = x] /\ StoreTyped'
    BY <1>10, <1>q, StoreKept DEF SetRoleCheck, Hold
  <2> HIDE DEF role
  <2>3. x \in Call /\ Has(x)
    BY <2>1, Zenon DEF NoCall, Call, Has, Pcs, Wants
  <2> HIDE DEF x
  <2> QED BY <2>2, <2>3, Holds, Zenon
<1>11. CASE SetRoleRead(r)
  <2> DEFINE rec == users[q.who]
             x == [q EXCEPT !.pc = "setrole", !.snap = rec]
  <2>1. q.pc = "getrec" /\ StoreTyped' /\ q.who \in Users /\ q.want \in Roles
    BY <1>11, <1>q, StoreKept DEF SetRoleRead, Has
  <2>2. \/ call' = [call EXCEPT ![r] = NoCall]
        \/ call' = [call EXCEPT ![r] = x] /\ rec # None
    BY <1>11 DEF SetRoleRead, Answer, Hold
  <2>3. rec # None => rec \in OwnRecord
    BY <1>q, <2>1 DEF StoreTyped
  <2> HIDE DEF rec
  <2>4. rec # None => x \in Call /\ Has(x)
    BY <1>q, <2>1, <2>3, Zenon DEF Call, Has, Pcs
  <2> HIDE DEF x
  <2> QED BY <2>1, <2>2, <2>4, NoCallHeld, Holds, Zenon DEF Held
<1>12. CASE SetRoleWrite(r)
  <2> DEFINE rec == [q.snap EXCEPT !.role = q.want]
  <2>1. q.pc = "setrole" /\ q.who \in Users /\ q.want \in Roles /\ q.snap \in OwnRecord
    BY <1>12, <1>q DEF SetRoleWrite, Has
  <2>2. rec \in OwnRecord
    <3>1. rec \in UserRecord /\ rec.slots = q.snap.slots
      BY <2>1 DEF OwnRecord, UserRecord
    <3> QED BY <2>1, <3>1, Zenon DEF OwnRecord
  <2>3. users' = [users EXCEPT ![q.who] = rec] /\ UNCHANGED <<sessions, expired, attempts, bucket, minted, written>>
        /\ call' = [call EXCEPT ![r] = [q EXCEPT !.pc = "revokeuser"]]
    BY <1>12 DEF SetRoleWrite, Proceed, Hold
  <2> HIDE DEF rec
  <2>4. StoreTyped'
    BY <1>q, <2>1, <2>2, <2>3, Zenon DEF StoreTyped
  <2>5. [q EXCEPT !.pc = "revokeuser"] \in Call /\ Has([q EXCEPT !.pc = "revokeuser"])
    BY <1>q, <2>1 DEF Call, Has, Pcs
  <2> QED BY <2>3, <2>4, <2>5, Holds, Zenon
<1>13. ASSUME NEW t \in Tokens, NEW u \in Users, NEW pw \in mix.pws, ResetRead(r, t, u, pw) PROVE SessInv'
  <2> DEFINE rec == users[u]
             x == [NoCall EXCEPT !.pc = "reset", !.who = u, !.pw = pw, !.want = "reset", !.snap = rec]
  <2>1. pw \in Passwords /\ rec \in OwnRecord
    BY <1>13, <1>q, MixAssumption DEF StoreTyped, ResetRead
  <2>2. call' = [call EXCEPT ![r] = x] /\ StoreTyped'
    BY <1>13, <1>q, StoreKept DEF ResetRead, Hold
  <2> HIDE DEF rec
  <2>3. x \in Call /\ Has(x)
    BY <2>1, Zenon DEF NoCall, Call, Has, Pcs, Wants
  <2> HIDE DEF x
  <2> QED BY <2>2, <2>3, Holds, Zenon
<1>14. CASE ResetWrite(r)
  <2>1. q.pc = "reset" /\ q.who \in Users /\ q.pw \in Passwords /\ q.snap \in OwnRecord
    BY <1>14, <1>q DEF ResetWrite, Has
  <2>2. PICK slots \in NewSlotsRandom(q.pw, q.snap.role) : Upsert(q.who, [q.snap EXCEPT !.slots = slots])
    BY <1>14 DEF ResetWrite
  <2>3. written + 1 \in Writes
    BY <1>q, <2>2, MixAssumption, BoundAssumption DEF StoreTyped, Upsert, Writes
  <2>4. [q.snap EXCEPT !.slots = slots] \in OwnRecord
    <3>1. q.snap \in UserRecord /\ q.snap.role \in Roles
      BY <2>1 DEF OwnRecord, UserRecord
    <3>2. slots \in [Slots -> CredentialSlot] /\ \A s \in Slots : slots[s].key[1] = s
      BY <2>1, <2>3, <3>1, FreshSlots
    <3>3. [q.snap EXCEPT !.slots = slots] \in UserRecord /\ [q.snap EXCEPT !.slots = slots].slots = slots
      BY <3>1, <3>2 DEF UserRecord
    <3> QED BY <3>2, <3>3, Zenon DEF OwnRecord
  <2>5. StoreTyped'
    BY <1>14, <1>q, <2>1, <2>2, <2>4, Upserted, Zenon DEF StoreTyped, ResetWrite
  <2>6. [q EXCEPT !.pc = "revokeuser"] \in Call /\ Has([q EXCEPT !.pc = "revokeuser"])
    BY <1>q, <2>1 DEF Call, Has, Pcs
  <2> QED BY <1>14, <2>5, <2>6, Holds, Zenon DEF ResetWrite, Proceed, Hold
<1>15. ASSUME NEW u \in Users, SetBucketAcl(r, u) PROVE SessInv'
  <2>1. StoreTyped'
    BY <1>15, <1>q, Zenon DEF SetBucketAcl, StoreTyped, BucketConfig
  <2> QED BY <1>15, <2>1 DEF SetBucketAcl, SessInv
<1> QED BY <1>1, <1>2, <1>3, <1>4, <1>5, <1>6, <1>7, <1>8, <1>9, <1>10, <1>11, <1>12, <1>13, <1>14, <1>15 DEF AccountRequest

LEMMA PersonaKeeps ==
    ASSUME SessInv, NEW r \in Reqs, PersonaRequest(r), UNCHANGED mix
    PROVE  SessInv'
<1> DEFINE q == call[r]
<1>q. q \in Call /\ Has(q) /\ StoreTyped
  BY Known
<1>1. ASSUME NEW t \in Tokens, NEW s \in Slots, NEW pw \in mix.pws, NEW w \in Targets, PersonaRead(r, t, s, pw, w) PROVE SessInv'
  <2> DEFINE u == sessions[t].user
             rec == users[u]
             x == [NoCall EXCEPT !.pc = "newslot", !.who = u, !.pw = pw, !.slot = s, !.want = w, !.snap = rec]
  <2>1. u \in Users /\ pw \in Passwords
    BY <1>1, <1>q, RowFields, MixAssumption, Zenon DEF PersonaRead, Live, StoreTyped
  <2>2. rec \in OwnRecord
    BY <1>1, <1>q, <2>1 DEF StoreTyped, PersonaRead
  <2>3. call' = [call EXCEPT ![r] = x] /\ StoreTyped'
    BY <1>1, <1>q, StoreKept DEF PersonaRead, Hold
  <2> HIDE DEF u, rec
  <2>4. x \in Call /\ Has(x)
    BY <2>1, <2>2, Zenon DEF NoCall, Call, Has, Pcs, Wants
  <2> HIDE DEF x
  <2> QED BY <2>3, <2>4, Holds, Zenon
<1>2. CASE PersonaWrite(r)
  <2> DEFINE new == NewSlot(q.slot, q.pw, q.want[1], q.want[2])
             rec == [q.snap EXCEPT !.slots[q.slot] = new]
  <2>1. q.pc = "newslot" /\ q.who \in Users /\ q.pw \in Passwords /\ q.snap \in OwnRecord /\ q.slot \in Slots /\ q.want \in Targets
    BY <1>2, <1>q DEF PersonaWrite, Has
  <2>2. q.want[1] \in Roles /\ q.want[2] \in BOOLEAN
    BY <2>1, BoundAssumption
  <2>3. CASE UNCHANGED <<users, written>>
    BY <1>2, <1>q, <2>3, StoreKept, NoCallHeld, Holds, Zenon DEF Held, PersonaWrite, Answer, Hold
  <2>4. CASE Upsert(q.who, rec)
    <3>1. written + 1 \in Writes
      BY <1>q, <2>4, MixAssumption, BoundAssumption DEF StoreTyped, Upsert, Writes
    <3>2. new \in CredentialSlot /\ new.key[1] = q.slot
      BY <2>1, <2>2, <3>1, NewSlotOwn
    <3> HIDE DEF new
    <3>3. rec \in OwnRecord
      BY <2>1, <3>2, PutSlot
    <3> HIDE DEF rec
    <3>4. StoreTyped'
      BY <1>2, <1>q, <2>1, <2>4, <3>3, Upserted DEF StoreTyped, PersonaWrite
    <3> QED BY <1>2, <3>4, NoCallHeld, Holds, Zenon DEF Held, PersonaWrite, Answer, Hold
  <2> QED BY <1>2, <2>3, <2>4 DEF PersonaWrite
<1>3. ASSUME NEW t \in Tokens, NEW s \in Slots, UnpersonaRead(r, t, s) PROVE SessInv'
  <2> DEFINE u == sessions[t].user
             rec == users[u]
             x == [NoCall EXCEPT !.pc = "decoy", !.who = u, !.slot = s, !.snap = rec]
  <2>1. u \in Users
    BY <1>3, <1>q, RowFields DEF UnpersonaRead, Live, StoreTyped
  <2>2. rec \in OwnRecord
    BY <1>3, <1>q, <2>1 DEF StoreTyped, UnpersonaRead
  <2>3. call' = [call EXCEPT ![r] = x] /\ StoreTyped'
    BY <1>3, <1>q, StoreKept DEF UnpersonaRead, Hold
  <2> HIDE DEF u, rec
  <2>4. x \in Call /\ Has(x)
    BY <2>1, <2>2, Zenon DEF NoCall, Call, Has, Pcs, Wants
  <2> HIDE DEF x
  <2> QED BY <2>3, <2>4, Holds, Zenon
<1>4. CASE UnpersonaWrite(r)
  <2> DEFINE new == DecoySlot(q.slot)
             rec == [q.snap EXCEPT !.slots[q.slot] = new]
  <2>1. q.pc = "decoy" /\ q.who \in Users /\ q.snap \in OwnRecord /\ q.slot \in Slots /\ Upsert(q.who, rec)
    BY <1>4, <1>q DEF UnpersonaWrite, Has
  <2>2. written + 1 \in Writes
    BY <1>q, <2>1, MixAssumption, BoundAssumption DEF StoreTyped, Upsert, Writes
  <2>3. new \in CredentialSlot /\ new.key[1] = q.slot
    BY <2>1, <2>2, DecoyOwn
  <2> HIDE DEF new
  <2>4. rec \in OwnRecord
    BY <2>1, <2>3, PutSlot
  <2> HIDE DEF rec
  <2>5. StoreTyped'
    BY <1>4, <1>q, <2>1, <2>4, Upserted, Zenon DEF StoreTyped, UnpersonaWrite
  <2>6. [q EXCEPT !.pc = "unslot"] \in Call /\ Has([q EXCEPT !.pc = "unslot"])
    BY <1>q, <2>1 DEF Call, Has, Pcs
  <2> QED BY <1>4, <2>5, <2>6, Holds, Zenon DEF UnpersonaWrite, Proceed, Hold
<1>5. CASE UnpersonaRevoke(r)
  <2> DEFINE ts == PersonaOf(q.who, q.slot)
  <2>1. q.pc = "unslot" /\ StoreTyped' /\ ts \subseteq Tokens /\ call' = [call EXCEPT ![r] = [q EXCEPT !.pc = "revoke", !.victims = ts]]
    BY <1>5, <1>q, StoreKept DEF UnpersonaRevoke, RevokeCollect, Hold, PersonaOf, LiveOf
  <2> HIDE DEF ts
  <2>2. [q EXCEPT !.pc = "revoke", !.victims = ts] \in Call /\ Has([q EXCEPT !.pc = "revoke", !.victims = ts])
    BY <1>q, <2>1, Collects, Zenon DEF Has
  <2> QED BY <2>1, <2>2, Holds, Zenon
<1> QED BY <1>1, <1>2, <1>3, <1>4, <1>5 DEF PersonaRequest

LEMMA ClockKeeps == ASSUME SessInv, Clock, UNCHANGED mix PROVE SessInv'
<1>q. StoreTyped
  BY DEF SessInv
<1>1. ASSUME NEW u \in Users, LockoutEnds(u) PROVE SessInv'
  <2>1. attempts' \in [Users -> [failed : Nat, locked : {"no", "yes", "over"}]]
    BY <1>1, <1>q DEF LockoutEnds, StoreTyped
  <2> QED BY <1>1, <1>q, <2>1 DEF LockoutEnds, StoreTyped, SessInv
<1>2. CASE Sweep
  BY <1>2, <1>q, Dropped DEF Sweep, StoreTyped, SessInv
<1>3. ASSUME NEW t \in Tokens, Expire(t) PROVE SessInv'
  BY <1>3, <1>q DEF Expire, StoreTyped, SessInv
<1> QED BY <1>1, <1>2, <1>3 DEF Clock

-----------------------------------------------------------------------------
(* Keys of personas.                                                       *)

LEMMA FirstSlotOwn ==
    ASSUME NEW u \in Users, Account[u] # None, NEW s \in Slots
    PROVE  FirstSlot(u, s) \in CredentialSlot /\ FirstSlot(u, s).key = <<s, 0>>
<1>1. Account[u] \in Roles /\ Secret[u] \in Passwords /\ <<s, 0>> \in Keys /\ 0 \in Writes /\ "user" \in Roles
  BY StartAssumption, BoundAssumption DEF Keys, Writes, Roles
<1>2. Second[u] # None => Second[u][1] \in Passwords /\ Second[u][2] \in Roles /\ Second[u][3] \in BOOLEAN
  BY StartAssumption
<1>3. CASE s = 0
  BY <1>1, <1>3 DEF FirstSlot, CredentialSlot
<1>4. CASE s # 0 /\ s = 1 /\ Second[u] # None
  BY <1>1, <1>2, <1>4 DEF FirstSlot, CredentialSlot
<1>5. CASE s # 0 /\ ~(s = 1 /\ Second[u] # None)
  BY <1>1, <1>5 DEF FirstSlot, CredentialSlot
<1> QED BY <1>3, <1>4, <1>5

LEMMA InitInv == SessInit => SessInv
<1> SUFFICES ASSUME SessInit PROVE SessInv
  OBVIOUS
<1>1. users \in [Users -> OwnRecord \cup {None}]
  <2>1. ASSUME NEW u \in Users, Account[u] # None
        PROVE  [kdf |-> 0, slots |-> [s \in Slots |-> FirstSlot(u, s)], role |-> Account[u]] \in OwnRecord
    <3> DEFINE slots == [s \in Slots |-> FirstSlot(u, s)]
    <3>1. slots \in [Slots -> CredentialSlot] /\ \A s \in Slots : slots[s].key[1] = s
      BY <2>1, FirstSlotOwn
    <3>2. Account[u] \in Roles /\ 0 \in Writes
      BY <2>1, StartAssumption, BoundAssumption DEF Writes
    <3> HIDE DEF slots
    <3>3. [kdf |-> 0, slots |-> slots, role |-> Account[u]] \in OwnRecord
      BY <3>1, <3>2, Zenon DEF OwnRecord, UserRecord
    <3> QED BY <3>3 DEF slots
  <2> QED BY <2>1 DEF SessInit
<1>2. sessions \in [Tokens -> OwnRow \cup {None}]
  <2>1. ASSUME NEW t \in Tokens, t <= Len(Logged) PROVE FirstRow(Logged[t][1], Logged[t][2]) \in OwnRow
    <3> DEFINE u == Logged[t][1]
               s == Logged[t][2]
    <3>1. t \in 1..Len(Logged)
      BY <2>1, StartAssumption, BoundAssumption DEF Tokens
    <3>2. u \in Users /\ s \in Slots /\ Account[u] # None
      BY <3>1, StartAssumption
    <3> HIDE DEF u, s
    <3>3. FirstSlot(u, s) \in CredentialSlot /\ <<s, 0>> \in Keys /\ 0 \in 0..MaxRefreshes
      BY <3>2, FirstSlotOwn, BoundAssumption DEF Keys, Writes
    <3>4. FirstSlot(u, s).role \in Roles /\ FirstSlot(u, s).duress \in BOOLEAN
      BY <3>3 DEF CredentialSlot
    <3>5. FirstRow(u, s) \in OwnRow
      BY <3>2, <3>3, <3>4, Zenon DEF FirstRow, OwnRow, SessionInfo
    <3> QED BY <3>5 DEF u, s
  <2> QED BY <2>1 DEF SessInit
<1>3. attempts \in [Users -> [failed : Nat, locked : {"no", "yes", "over"}]]
  BY DEF SessInit, Clear
<1>4. bucket \in BucketConfig
  BY DEF SessInit, BucketConfig
<1>5. minted \in 0..MaxTokens /\ written \in Writes /\ mix \in Mixes /\ expired \subseteq Tokens
  BY StartAssumption, BoundAssumption DEF SessInit, Writes
<1>6. call \in [Reqs -> Held]
  BY NoCallHeld DEF SessInit
<1> QED BY <1>1, <1>2, <1>3, <1>4, <1>5, <1>6, Zenon DEF SessInv, StoreTyped

LEMMA StepInv == SessInv /\ [SessNext]_sessVars => SessInv'
<1> SUFFICES ASSUME SessInv, [SessNext]_sessVars PROVE SessInv'
  OBVIOUS
<1>1. CASE UNCHANGED sessVars
  BY <1>1 DEF SessInv, StoreTyped, sessVars
<1> QED BY <1>1, LoginKeeps, OwnSessionKeeps, AccountKeeps, PersonaKeeps, ClockKeeps, Zenon DEF SessNext

\* Type correctness, and every request keeps what its next step uses: the record it read, the slot it is about, the token.
THEOREM RequestsKeepWhatTheyRead == SessSpec => []SessInv
  BY InitInv, StepInv, PTL DEF SessSpec

\* A session works with a key of the persona it says it is, never with another slot's, however logins, password
\* changes, duress switches, refreshes, resets and slot edits of any number of requests interleave (session.rs,
\* user_store.rs).
THEOREM PersonaKeepsItsKey == SessSpec => []KeyOfPersona
<1>1. SessInv => KeyOfPersona
  <2> SUFFICES ASSUME SessInv, NEW t \in Tokens, sessions[t] # None, NEW s \in Slots \ {sessions[t].persona},
                      users[sessions[t].user] # None
               PROVE  users[sessions[t].user].slots[s].key # sessions[t].key
    BY DEF KeyOfPersona
  <2>1. sessions[t] \in OwnRow /\ sessions[t].user \in Users /\ sessions[t].key[1] = sessions[t].persona
    BY RowFields DEF SessInv, StoreTyped
  <2>2. users[sessions[t].user] \in OwnRecord
    BY <2>1, Zenon DEF SessInv, StoreTyped
  <2>3. users[sessions[t].user].slots[s].key[1] = s
    BY <2>2, SlotFields
  <2> QED BY <2>1, <2>3, Zenon
<1> QED BY <1>1, RequestsKeepWhatTheyRead, PTL

-----------------------------------------------------------------------------
(* Failed logins.                                                          *)

LEMMA PendingFinite ==
    ASSUME NEW S \in SUBSET Reqs
    PROVE  IsFiniteSet(S) /\ Cardinality(S) \in Nat /\ Cardinality(S) <= Cardinality(Reqs) /\ Cardinality(Reqs) \in Nat
           /\ Cardinality(Reqs) >= 1
  BY BoundAssumption, FS_Subset, FS_CardinalityType, FS_EmptySet

\* Three ways to stay within the bound: no more failures and nobody new past the check; a counter below the limit; one
\* failure more, counted by a request that was past the check.
Stays(u) ==
    \/ attempts'[u].failed <= attempts[u].failed /\ Pending(u)' \subseteq Pending(u)
    \/ attempts'[u].failed < MaxFailed
    \/ attempts'[u].failed = attempts[u].failed + 1 /\ \E r \in Pending(u) : Pending(u)' \subseteq Pending(u) \ {r}

LEMMA StaysWithin ==
    ASSUME GuessInv, StoreTyped, StoreTyped', NEW u \in Users, Stays(u)
    PROVE  attempts'[u].failed + Cardinality(Pending(u)') <= MaxFailed + Cardinality(Reqs) - 1
<1> DEFINE old == Pending(u)
           new == Pending(u)'
           all == Cardinality(Reqs)
<1>1. old \subseteq Reqs /\ new \subseteq Reqs
  BY DEF Pending
<1>2. attempts[u].failed \in Nat /\ attempts'[u].failed \in Nat /\ MaxFailed \in Nat
      /\ attempts[u].failed + Cardinality(old) <= MaxFailed + all - 1
  BY BoundAssumption DEF StoreTyped, GuessInv
<1> HIDE DEF old, new
<1>3. IsFiniteSet(old) /\ Cardinality(old) \in Nat /\ Cardinality(new) \in Nat /\ Cardinality(new) <= all /\ all \in Nat
  BY <1>1, PendingFinite, Zenon
<1> HIDE DEF all
<1>4. CASE attempts'[u].failed <= attempts[u].failed /\ new \subseteq old
  <2>1. Cardinality(new) <= Cardinality(old)
    BY <1>3, <1>4, FS_Subset, Zenon
  <2> QED BY <1>2, <1>3, <1>4, <2>1 DEF new, all
<1>5. CASE attempts'[u].failed < MaxFailed
  BY <1>2, <1>3, <1>5 DEF new, all
<1>6. CASE attempts'[u].failed = attempts[u].failed + 1 /\ \E r \in old : new \subseteq old \ {r}
  <2>1. PICK r \in old : new \subseteq old \ {r}
    BY <1>6
  <2>2. IsFiniteSet(old \ {r}) /\ Cardinality(old \ {r}) = Cardinality(old) - 1
    BY <1>3, <2>1, FS_RemoveElement
  <2>3. Cardinality(new) <= Cardinality(old) - 1
    BY <2>1, <2>2, FS_Subset
  <2> QED BY <1>2, <1>3, <1>6, <2>3 DEF new, all
<1> QED BY <1>4, <1>5, <1>6, Zenon DEF Stays, old, new

\* A step of request r that does not pass the check.
Passes(r) == call' = [call EXCEPT ![r] = call'[r]] /\ call'[r].pc \notin {"unwrap", "rewrap"}

LEMMA PendingShrinks ==
    ASSUME SessInv, NEW r \in Reqs, Passes(r) \/ UNCHANGED call, NEW u \in Users
    PROVE  /\ Pending(u)' \subseteq Pending(u)
           /\ Passes(r) => Pending(u)' \subseteq Pending(u) \ {r}
  BY Known DEF Passes, Pending

\* What the three calls of LoginAttempts do to a counter.
LEMMA Unlocked ==
    ASSUME GuessInv, StoreTyped, NEW u \in Users, CheckLockout(u)
    PROVE  /\ attempts'[u].failed < MaxFailed /\ attempts' \in [Users -> AttemptRecords]
           /\ \A v \in Users \ {u} : attempts'[v] = attempts[v]
<1>1. attempts[u].failed \in Nat /\ attempts[u].locked \in {"no", "yes", "over"}
  BY DEF StoreTyped
<1>2. CASE attempts[u].locked = "over"
  <2>1. attempts' = [attempts EXCEPT ![u] = Clear] /\ Clear.failed = 0
    BY <1>2 DEF CheckLockout, Clear
  <2>2. attempts'[u] = Clear /\ \A v \in Users \ {u} : attempts'[v] = attempts[v]
    BY <2>1 DEF StoreTyped
  <2> QED BY <2>1, <2>2, BoundAssumption, Attempts
<1>3. CASE attempts[u].locked = "no"
  BY <1>3, Attempts, Zenon DEF CheckLockout, StoreTyped, GuessInv
<1> QED BY <1>1, <1>2, <1>3, Zenon DEF CheckLockout

LEMMA Failure ==
    ASSUME GuessInv, StoreTyped, NEW u \in Users, RecordFailure(u)
    PROVE  /\ attempts'[u].failed = attempts[u].failed + 1
           /\ attempts'[u].locked = "no" => attempts'[u].failed < MaxFailed
           /\ \A v \in Users \ {u} : attempts'[v] = attempts[v]
  BY BoundAssumption DEF RecordFailure, StoreTyped

LEMMA Success ==
    ASSUME StoreTyped, NEW u \in Users, RecordSuccess(u)
    PROVE  attempts'[u].failed < MaxFailed /\ \A v \in Users \ {u} : attempts'[v] = attempts[v]
  BY BoundAssumption DEF RecordSuccess, StoreTyped, Clear

\* A request that ends, goes on, or has collected rows to drop, passes no check.
LEMMA Moving ==
    ASSUME SessInv, NEW r \in Reqs,
           \/ Answer(r)
           \/ \E to \in Pcs \ {"unwrap", "rewrap"} : Proceed(r, to)
           \/ \E ts \in SUBSET Tokens : RevokeCollect(r, ts)
    PROVE  Passes(r)
<1>0. call[r] \in Call /\ DOMAIN call = Reqs
  BY Known
<1>1. CASE Answer(r)
  BY <1>0, <1>1, NoCallHeld DEF Answer, Hold, Passes
<1>2. ASSUME NEW to \in Pcs \ {"unwrap", "rewrap"}, Proceed(r, to) PROVE Passes(r)
  <2>1. [call[r] EXCEPT !.pc = to].pc = to
    BY <1>0 DEF Call
  <2> QED BY <1>0, <1>2, <2>1 DEF Proceed, Hold, Passes
<1>3. ASSUME NEW ts \in SUBSET Tokens, RevokeCollect(r, ts) PROVE Passes(r)
  <2>1. [call[r] EXCEPT !.pc = "revoke", !.victims = ts].pc = "revoke"
    BY <1>0, Zenon DEF Call
  <2> QED BY <1>0, <1>3, <2>1, Zenon DEF RevokeCollect, Hold, Passes
<1> QED BY <1>1, <1>2, <1>3

\* A step that leaves the counters alone and passes no check.
LEMMA Quietly ==
    ASSUME SessInv, SessInv', GuessInv, NEW r \in Reqs, Passes(r) \/ UNCHANGED call, UNCHANGED attempts
    PROVE  GuessInv'
<1> SUFFICES ASSUME NEW u \in Users
             PROVE  /\ attempts'[u].locked = "no" => attempts'[u].failed < MaxFailed
                    /\ attempts'[u].failed + Cardinality(Pending(u)') <= MaxFailed + Cardinality(Reqs) - 1
  BY DEF GuessInv
<1>1. attempts'[u] = attempts[u] /\ attempts[u].failed \in Nat /\ Pending(u)' \subseteq Pending(u)
  BY PendingShrinks, Zenon DEF SessInv, StoreTyped
<1>2. Stays(u)
  BY SMTT(20), Zenon, <1>1 DEF Stays
<1> QED BY <1>1, <1>2, StaysWithin, Zenon DEF GuessInv, SessInv

\* A request passes the check of u.
LEMMA Checked ==
    ASSUME SessInv, SessInv', GuessInv, NEW r \in Reqs, NEW u \in Users, CheckLockout(u),
           call' = [call EXCEPT ![r] = call'[r]], call'[r].who = u
    PROVE  GuessInv'
<1>0. StoreTyped /\ StoreTyped' /\ DOMAIN call = Reqs
  BY DEF SessInv
<1> SUFFICES ASSUME NEW v \in Users
             PROVE  /\ attempts'[v].locked = "no" => attempts'[v].failed < MaxFailed
                    /\ attempts'[v].failed + Cardinality(Pending(v)') <= MaxFailed + Cardinality(Reqs) - 1
  BY DEF GuessInv
<1>1. attempts'[u].failed < MaxFailed /\ (v # u => attempts'[v] = attempts[v])
  BY <1>0, Unlocked, Zenon
<1>2. v # u => Pending(v)' \subseteq Pending(v)
  BY <1>0 DEF Pending
<1>3. attempts[v].failed \in Nat
  BY <1>0, Zenon DEF StoreTyped
<1>4. Stays(v)
  BY <1>1, <1>2, <1>3 DEF Stays
<1> QED BY <1>0, <1>1, <1>4, StaysWithin, Zenon DEF GuessInv

\* A request that was past the check of u counts its outcome.
LEMMA Counted ==
    ASSUME SessInv, SessInv', GuessInv, NEW r \in Reqs, NEW u \in Users, Passes(r),
           RecordSuccess(u) \/ (RecordFailure(u) /\ r \in Pending(u))
    PROVE  GuessInv'
<1>0. StoreTyped /\ StoreTyped'
  BY Zenon DEF SessInv
<1> SUFFICES ASSUME NEW v \in Users
             PROVE  /\ attempts'[v].locked = "no" => attempts'[v].failed < MaxFailed
                    /\ attempts'[v].failed + Cardinality(Pending(v)') <= MaxFailed + Cardinality(Reqs) - 1
  BY DEF GuessInv
<1>1. attempts[v].failed \in Nat /\ Pending(v)' \subseteq Pending(v) /\ Pending(v)' \subseteq Pending(v) \ {r}
  BY <1>0, PendingShrinks, Zenon DEF StoreTyped
<1>2. CASE v # u
  <2>1. attempts'[v] = attempts[v]
    BY <1>0, <1>2, Success, Failure, Zenon
  <2> QED BY SMTT(20), Zenon, <1>0, <1>1, <2>1, StaysWithin DEF Stays, GuessInv
<1>3. CASE v = u /\ RecordSuccess(u)
  BY <1>0, <1>3, Success, StaysWithin, Zenon DEF Stays
<1>4. CASE v = u /\ RecordFailure(u) /\ r \in Pending(u)
  BY <1>0, <1>1, <1>4, Failure, StaysWithin, Zenon DEF Stays
<1> QED BY <1>2, <1>3, <1>4

LEMMA LoginGuess ==
    ASSUME SessInv, SessInv', GuessInv, NEW r \in Reqs, Login(r)
    PROVE  GuessInv'
<1> DEFINE q == call[r]
<1>q. q \in Call /\ Has(q) /\ StoreTyped /\ DOMAIN call = Reqs
  BY Known
<1>1. ASSUME NEW u \in mix.who, NEW pw \in mix.pws, LoginBegin(r, u, pw) PROVE GuessInv'
  <2> DEFINE x == [NoCall EXCEPT !.pc = "unwrap", !.who = u, !.pw = pw, !.snap = users[u]]
  <2>1. u \in Users
    BY <1>q, MixAssumption DEF StoreTyped
  <2>2. x.who = u
    BY DEF NoCall
  <2>3. call' = [call EXCEPT ![r] = x] /\ CheckLockout(u)
    BY <1>1 DEF LoginBegin, Hold
  <2> HIDE DEF x
  <2> QED BY <1>q, <2>1, <2>2, <2>3, Checked, Zenon
<1>2. CASE LoginUnwrap(r)
  <2> DEFINE open == IF q.snap = None THEN {} ELSE Opens(q.snap, q.pw)
             slot == Min(open)
             x == [q EXCEPT !.pc = "fresh", !.slot = slot]
  <2>1. q.pc = "unwrap" /\ q.who \in Users /\ r \in Pending(q.who)
    BY <1>2, <1>q DEF LoginUnwrap, Has, Pending
  <2>2. \/ RecordFailure(q.who) /\ Answer(r)
        \/ call' = [call EXCEPT ![r] = x] /\ UNCHANGED attempts
    BY <1>2 DEF LoginUnwrap, Hold
  <2> HIDE DEF slot
  <2>3. x.pc = "fresh"
    BY <1>q DEF Call
  <2> HIDE DEF x
  <2>4. call' = [call EXCEPT ![r] = x] => Passes(r)
    BY <1>q, <2>3 DEF Passes
  <2> QED BY <2>1, <2>2, <2>4, Moving, Counted, Quietly, Zenon
<1>3. CASE LoginFresh(r)
  BY <1>3, Moving, Quietly, Zenon DEF LoginFresh, Pcs
<1>4. CASE LoginInsert(r)
  <2> DEFINE x == [q EXCEPT !.pc = "recheck", !.tok = minted + 1]
  <2>1. call' = [call EXCEPT ![r] = x] /\ UNCHANGED attempts
    BY <1>4 DEF LoginInsert, Hold
  <2>2. x.pc = "recheck"
    BY <1>q DEF Call
  <2> HIDE DEF x
  <2> QED BY <1>q, <2>1, <2>2, Quietly, Zenon DEF Passes
<1>5. CASE LoginRecheck(r)
  <2> DEFINE gone == LiveOf(q.who)
             rest == LiveOf(q.who) \ PersonaOf(q.who, q.slot)
             x == [q EXCEPT !.pc = "switch", !.victims = rest]
  <2>1. q.who \in Users /\ gone \subseteq Tokens
    BY <1>5, <1>q, Zenon DEF LoginRecheck, Has, LiveOf
  <2>2. \/ RevokeCollect(r, gone) /\ UNCHANGED attempts
        \/ call' = [call EXCEPT ![r] = x] /\ UNCHANGED attempts
        \/ RecordSuccess(q.who) /\ Answer(r)
    BY <1>5 DEF LoginRecheck, Hold
  <2> HIDE DEF gone, rest
  <2>3. x.pc = "switch"
    BY <1>q DEF Call
  <2> HIDE DEF x
  <2>4. call' = [call EXCEPT ![r] = x] => Passes(r)
    BY <1>q, <2>3 DEF Passes
  <2> QED BY <2>1, <2>2, <2>4, Moving, Counted, Quietly, Zenon
<1>6. ASSUME NEW t \in Tokens, SwitchRead(r, t) PROVE GuessInv'
  <2> DEFINE to == IF sessions[t] = None THEN "switch" ELSE "put"
             x == [q EXCEPT !.victims = @ \ {t}, !.row = sessions[t], !.tok = t, !.pc = to]
  <2>1. call' = [call EXCEPT ![r] = x] /\ UNCHANGED attempts /\ to \in {"switch", "put"}
    BY <1>6 DEF SwitchRead, Hold
  <2> HIDE DEF to
  <2>2. x.pc = to
    BY <1>q, Zenon DEF Call
  <2> HIDE DEF x
  <2> QED BY <1>q, <2>1, <2>2, Quietly, Zenon DEF Passes
<1>7. CASE SwitchWrite(r)
  BY <1>7, Moving, Quietly, Zenon DEF SwitchWrite, Pcs
<1>8. CASE SwitchDone(r)
  <2>1. q.who \in Users /\ RecordSuccess(q.who) /\ Answer(r)
    BY <1>8, <1>q, Zenon DEF SwitchDone, Has
  <2> QED BY <2>1, Moving, Counted, Zenon
<1> QED BY <1>1, <1>2, <1>3, <1>4, <1>5, <1>6, <1>7, <1>8, Zenon DEF Login

LEMMA OwnSessionGuess ==
    ASSUME SessInv, SessInv', GuessInv, NEW r \in Reqs, OwnSession(r)
    PROVE  GuessInv'
<1> DEFINE q == call[r]
<1>q. q \in Call /\ Has(q) /\ StoreTyped /\ DOMAIN call = Reqs
  BY Known, Zenon
<1>1. ASSUME NEW t \in Tokens, RefreshRead(r, t) PROVE GuessInv'
  <2> DEFINE x == [NoCall EXCEPT !.pc = "reissue", !.tok = t, !.row = [sessions[t] EXCEPT !.refreshes = @ + 1]]
  <2>1. call' = [call EXCEPT ![r] = x] /\ UNCHANGED attempts
    BY <1>1 DEF RefreshRead, Hold
  <2>2. x.pc = "reissue"
    BY DEF NoCall
  <2> HIDE DEF x
  <2> QED BY <1>q, <2>1, <2>2, Quietly, Zenon DEF Passes
<1>2. ASSUME NEW t \in Tokens, Logout(r, t) PROVE GuessInv'
  BY <1>2, Quietly, Zenon DEF Logout
<1>3. CASE RefreshInsert(r) \/ RefreshRemove(r) \/ RevokeRemove(r)
  BY <1>3, Moving, Quietly DEF RefreshInsert, RefreshRemove, RevokeRemove, Pcs
<1>4. ASSUME NEW t \in Tokens, NEW pw \in mix.pws, NEW new \in mix.pws, PasswordRead(r, t, pw, new) PROVE GuessInv'
  <2> DEFINE u == sessions[t].user
             x == [NoCall EXCEPT !.pc = "rewrap", !.tok = t, !.who = u, !.pw = pw, !.want = new,
                                 !.slot = sessions[t].persona, !.snap = users[u]]
  <2>1. u \in Users
    BY <1>4, <1>q, RowFields DEF PasswordRead, Live, StoreTyped
  <2>2. x.who = u
    BY DEF NoCall
  <2>3. call' = [call EXCEPT ![r] = x] /\ CheckLockout(u)
    BY <1>4, Zenon DEF PasswordRead, Hold
  <2> HIDE DEF x, u
  <2> QED BY <1>q, <2>1, <2>2, <2>3, Checked, Zenon
<1>5. CASE PasswordWrite(r)
  <2>1. q.pc = "rewrap" /\ q.who \in Users /\ r \in Pending(q.who)
    BY <1>5, <1>q DEF PasswordWrite, Has, Pending
  <2> DEFINE bad == q.snap = None \/ (q.snap # None /\ q.snap.slots[q.slot].pw # q.pw)
  <2>2. (bad => RecordFailure(q.who) /\ Answer(r)) /\ (~bad => RecordSuccess(q.who) /\ Proceed(r, "others"))
    BY <1>5, Zenon DEF PasswordWrite
  <2> HIDE DEF bad
  <2> QED BY <2>1, <2>2, Moving, Counted, Zenon DEF Pcs
<1>6. CASE PasswordRevoke(r)
  <2>1. \E ts \in SUBSET Tokens : RevokeCollect(r, ts)
    BY <1>6 DEF PasswordRevoke, PersonaOf, LiveOf
  <2> QED BY <1>6, <2>1, Moving, Quietly, Zenon DEF PasswordRevoke
<1> QED BY <1>1, <1>2, <1>3, <1>4, <1>5, <1>6 DEF OwnSession

LEMMA AccountGuess ==
    ASSUME SessInv, SessInv', GuessInv, NEW r \in Reqs, AccountRequest(r)
    PROVE  GuessInv'
<1> DEFINE q == call[r]
<1>q. q \in Call /\ DOMAIN call = Reqs
  BY Known
<1>1. ASSUME NEW t \in Tokens, NEW u \in Users, NEW pw \in mix.pws, NEW w \in Targets, AddCheck(r, t, u, pw, w[1]) PROVE GuessInv'
  <2> DEFINE x == [NoCall EXCEPT !.pc = "add", !.who = u, !.pw = pw, !.want = w[1]]
  <2>1. call' = [call EXCEPT ![r] = x] /\ UNCHANGED attempts
    BY <1>1 DEF AddCheck, Hold
  <2>2. x.pc = "add"
    BY Zenon DEF NoCall
  <2> HIDE DEF x
  <2> QED BY <1>q, <2>1, <2>2, Quietly, Zenon DEF Passes
<1>2. CASE AddWrite(r) \/ DeleteList(r) \/ DeleteRow(r)
  BY <1>2, Moving, Quietly, Zenon DEF AddWrite, DeleteList, DeleteRow, Pcs
<1>3. CASE ScrubUserGrants(r) \/ ScrubAcl(r) \/ SetRoleWrite(r) \/ ResetWrite(r)
  BY <1>3, Moving, Quietly DEF ScrubUserGrants, ScrubAcl, SetRoleWrite, ResetWrite, Pcs
<1>4. ASSUME NEW t \in Tokens, NEW u \in Users, NEW force \in BOOLEAN, DeleteGuard(r, t, u, force) PROVE GuessInv'
  <2> DEFINE x == [NoCall EXCEPT !.pc = "list", !.who = u, !.want = "delete"]
  <2>1. call' = [call EXCEPT ![r] = x] /\ UNCHANGED attempts
    BY <1>4 DEF DeleteGuard, Hold
  <2>2. x.pc = "list"
    BY DEF NoCall
  <2> HIDE DEF x
  <2> QED BY <1>q, <2>1, <2>2, Quietly, Zenon DEF Passes
<1>5. CASE ScrubRead(r)
  <2> DEFINE to == IF q.pc = "scrub" THEN "scrubbing" ELSE "scrubbingacl"
             x == [q EXCEPT !.mine = bucket, !.pc = to]
  <2>1. to \in {"scrubbing", "scrubbingacl"} /\ UNCHANGED attempts /\ call' = [call EXCEPT ![r] = x]
    BY <1>5, <1>q DEF ScrubRead, Hold, Call
  <2> HIDE DEF to
  <2>2. x.pc = to
    BY <1>q, Zenon DEF Call
  <2> HIDE DEF x
  <2> QED BY <1>q, <2>1, <2>2, Quietly, Zenon DEF Passes
<1>6. CASE RevokeUser(r)
  <2>1. \E ts \in SUBSET Tokens : RevokeCollect(r, ts)
    BY <1>6 DEF RevokeUser, LiveOf
  <2> QED BY <1>6, <2>1, Moving, Quietly, Zenon DEF RevokeUser
<1>7. ASSUME NEW t \in Tokens, NEW u \in Users, NEW w \in Targets, SetRoleCheck(r, t, u, w[1]) PROVE GuessInv'
  <2> DEFINE x == [NoCall EXCEPT !.pc = "getrec", !.who = u, !.want = w[1]]
  <2>1. call' = [call EXCEPT ![r] = x] /\ UNCHANGED attempts
    BY <1>7 DEF SetRoleCheck, Hold
  <2>2. x.pc = "getrec"
    BY DEF NoCall
  <2> HIDE DEF x
  <2> QED BY <1>q, <2>1, <2>2, Quietly, Zenon DEF Passes
<1>8. CASE SetRoleRead(r)
  <2> DEFINE x == [q EXCEPT !.pc = "setrole", !.snap = users[q.who]]
  <2>1. (Answer(r) \/ call' = [call EXCEPT ![r] = x]) /\ UNCHANGED attempts
    BY <1>8 DEF SetRoleRead, Hold
  <2>2. x.pc = "setrole"
    BY <1>q DEF Call
  <2> HIDE DEF x
  <2>3. call' = [call EXCEPT ![r] = x] => Passes(r)
    BY <1>q, <2>2 DEF Passes
  <2> QED BY <2>1, <2>3, Moving, Quietly, Zenon
<1>9. ASSUME NEW t \in Tokens, NEW u \in Users, NEW pw \in mix.pws, ResetRead(r, t, u, pw) PROVE GuessInv'
  <2> DEFINE x == [NoCall EXCEPT !.pc = "reset", !.who = u, !.pw = pw, !.want = "reset", !.snap = users[u]]
  <2>1. call' = [call EXCEPT ![r] = x] /\ UNCHANGED attempts
    BY <1>9 DEF ResetRead, Hold
  <2>2. x.pc = "reset"
    BY DEF NoCall
  <2> HIDE DEF x
  <2> QED BY <1>q, <2>1, <2>2, Quietly, Zenon DEF Passes
<1>10. ASSUME NEW u \in Users, SetBucketAcl(r, u) PROVE GuessInv'
  BY <1>10, Quietly, Zenon DEF SetBucketAcl
<1> QED BY <1>1, <1>2, <1>3, <1>4, <1>5, <1>6, <1>7, <1>8, <1>9, <1>10, Zenon DEF AccountRequest

LEMMA PersonaGuess ==
    ASSUME SessInv, SessInv', GuessInv, NEW r \in Reqs, PersonaRequest(r)
    PROVE  GuessInv'
<1>q. call[r] \in Call /\ DOMAIN call = Reqs
  BY Known
<1>1. ASSUME NEW t \in Tokens, NEW s \in Slots, NEW pw \in mix.pws, NEW w \in Targets, PersonaRead(r, t, s, pw, w) PROVE GuessInv'
  <2> DEFINE u == sessions[t].user
             x == [NoCall EXCEPT !.pc = "newslot", !.who = u, !.pw = pw, !.slot = s, !.want = w, !.snap = users[u]]
  <2>1. call' = [call EXCEPT ![r] = x] /\ UNCHANGED attempts
    BY <1>1 DEF PersonaRead, Hold
  <2>2. x.pc = "newslot"
    BY DEF NoCall
  <2> HIDE DEF x
  <2> QED BY <1>q, <2>1, <2>2, Quietly, Zenon DEF Passes
<1>2. CASE PersonaWrite(r) \/ UnpersonaWrite(r)
  BY <1>2, Moving, Quietly DEF PersonaWrite, UnpersonaWrite, Pcs
<1>3. ASSUME NEW t \in Tokens, NEW s \in Slots, UnpersonaRead(r, t, s) PROVE GuessInv'
  <2> DEFINE u == sessions[t].user
             x == [NoCall EXCEPT !.pc = "decoy", !.who = u, !.slot = s, !.snap = users[u]]
  <2>1. call' = [call EXCEPT ![r] = x] /\ UNCHANGED attempts
    BY <1>3 DEF UnpersonaRead, Hold
  <2>2. x.pc = "decoy"
    BY DEF NoCall
  <2> HIDE DEF x
  <2> QED BY <1>q, <2>1, <2>2, Quietly, Zenon DEF Passes
<1>4. CASE UnpersonaRevoke(r)
  <2>1. \E ts \in SUBSET Tokens : RevokeCollect(r, ts)
    BY <1>4 DEF UnpersonaRevoke, PersonaOf, LiveOf
  <2> QED BY <1>4, <2>1, Moving, Quietly, Zenon DEF UnpersonaRevoke
<1> QED BY <1>1, <1>2, <1>3, <1>4, Zenon DEF PersonaRequest

LEMMA ClockGuess == ASSUME SessInv, SessInv', GuessInv, Clock PROVE GuessInv'
<1>0. PICK r \in Reqs : TRUE
  BY BoundAssumption, Zenon
<1>1. ASSUME NEW u \in Users, LockoutEnds(u) PROVE GuessInv'
  <2>1. UNCHANGED call /\ attempts' = [attempts EXCEPT ![u].locked = "over"] /\ attempts \in [Users -> AttemptRecords]
    BY <1>1 DEF LockoutEnds, SessInv, StoreTyped, AttemptRecords
  <2>2. \A v \in Users : attempts'[v].failed = attempts[v].failed /\ (attempts'[v].locked = "no" => attempts[v].locked = "no")
    BY <2>1 DEF AttemptRecords
  <2>3. \A v \in Users : Pending(v)' = Pending(v)
    BY <2>1 DEF Pending
  <2> QED BY <2>2, <2>3 DEF GuessInv
<1>2. ASSUME NEW t \in Tokens, Sweep \/ Expire(t) PROVE GuessInv'
  BY <1>0, <1>2, Quietly, Zenon DEF Sweep, Expire
<1>3. CASE Sweep
  BY <1>0, <1>3, Quietly, Zenon DEF Sweep
<1> QED BY <1>1, <1>2, <1>3, Zenon DEF Clock

LEMMA GuessStep == SessInv /\ SessInv' /\ GuessInv /\ [SessNext]_sessVars => GuessInv'
<1> SUFFICES ASSUME SessInv, SessInv', GuessInv, [SessNext]_sessVars PROVE GuessInv'
  OBVIOUS
<1>0. PICK r \in Reqs : TRUE
  BY BoundAssumption
<1>1. CASE UNCHANGED sessVars
  BY <1>0, <1>1, Quietly, Zenon DEF sessVars
<1> QED BY <1>1, LoginGuess, OwnSessionGuess, AccountGuess, PersonaGuess, ClockGuess DEF SessNext

LEMMA GuessInit == SessInit => GuessInv
<1> SUFFICES ASSUME SessInit, NEW u \in Users
             PROVE  /\ attempts[u].locked = "no" => attempts[u].failed < MaxFailed
                    /\ attempts[u].failed + Cardinality(Pending(u)) <= MaxFailed + Cardinality(Reqs) - 1
  BY Zenon DEF GuessInv
<1>1. attempts[u].failed = 0
  BY Zenon DEF SessInit, Clear
<1>2. Pending(u) = {}
  BY NoCallHeld DEF SessInit, Pending
<1>3. Cardinality({}) = 0 /\ Cardinality(Reqs) \in Nat /\ Cardinality(Reqs) >= 1
  BY FS_EmptySet, PendingFinite
<1> QED BY <1>1, <1>2, <1>3, BoundAssumption

\* The lockout bounds guessing although login and change_password check it before the slow derivation and count the
\* outcome after it: with n requests in flight a name is tried at most n - 1 times more than max_failed_logins.
THEOREM GuessesAreBounded == SessSpec => []GuessesBounded
<1>1. SessInv /\ GuessInv => GuessesBounded
  <2> SUFFICES ASSUME SessInv, GuessInv, NEW u \in Users
               PROVE  attempts[u].failed <= MaxFailed + Cardinality(Reqs) - 1
    BY DEF GuessesBounded
  <2> DEFINE n == Cardinality(Pending(u))
             all == Cardinality(Reqs)
  <2>1. n \in Nat /\ all \in Nat
    <3>1. Pending(u) \subseteq Reqs
      BY DEF Pending
    <3> QED BY <3>1, PendingFinite
  <2>2. attempts[u].failed \in Nat /\ attempts[u].failed + n <= MaxFailed + all - 1
    BY DEF SessInv, StoreTyped, GuessInv
  <2> HIDE DEF n
  <2> QED BY <2>1, <2>2, BoundAssumption
<1>2. SessSpec => []GuessInv
  BY GuessInit, GuessStep, RequestsKeepWhatTheyRead, PTL DEF SessSpec
<1> QED BY <1>1, <1>2, RequestsKeepWhatTheyRead, PTL
=============================================================================
