----------------------------- MODULE S3Gateway ------------------------------
(***************************************************************************)
(* The S3 front end of the daemon: temporary credentials and multipart     *)
(* uploads bound to a session (y2qd/src/s3/state.rs, credentials.rs,       *)
(* multipart.rs), the write and read pipelines of object.rs with the quota *)
(* permit of quota.rs and the session leash of s3/auth.rs, and the         *)
(* background sweeper of lib.rs.                                           *)
(*                                                                         *)
(* One bucket.  Contents are sequences of write numbers: a PUT or a part   *)
(* is one number, an assembled object the parts' numbers in order; the     *)
(* ETag of a part is its number.  A session is a token with the number of  *)
(* its row: a refresh moves it to a new token, a duress login replaces the *)
(* row under the same token.                                               *)
(***************************************************************************)
EXTENDS Naturals, Sequences, FiniteSets, FiniteSetsExt

CONSTANTS
    Reqs, Mixes,        \* requests in flight; kinds of traffic
    Sizes, MinPart,     \* plaintext sizes; least size of a part but the last
    MaxPart, MaxObject, \* [s3] max_part_bytes; the ceiling of a whole object
    Parts,              \* part numbers
    Recheck,            \* [s3] session_recheck_bytes
    MaxPerSession,      \* [s3] max_credentials_per_session, max_uploads_per_session
    MaxTokens, MaxRows, MaxCreds, MaxUploads, MaxWrites,    \* bounds
    None

ASSUME SizeAssumption ==
    /\ Sizes \subseteq Nat \ {0} /\ Parts \subseteq Nat \ {0} /\ IsFiniteSet(Parts)
    /\ \A c \in {MinPart, MaxPart, MaxObject, MaxTokens, MaxRows, MaxCreds, MaxUploads, MaxWrites} : c \in Nat
    /\ Recheck \in Nat \ {0} /\ MaxPerSession \in Nat \ {0}
ASSUME NoneAssumption == None \notin Nat /\ None \notin Reqs
ASSUME MixAssumption == \A m \in Mixes : m.quota \in Nat \cup {None} /\ m.sessions \in 1..MaxTokens

Tokens == 1..MaxTokens
Uploads == 1..MaxUploads
Creds == 1..MaxCreds
Obj == <<0, 0>>                          \* the key of the bucket's one object
Keys == {Obj} \cup (Uploads \X Parts)    \* <<u, n>> is the key of a part

VARIABLES
    row,        \* row[t]: the live session row of token t, 0 if none
    rows,       \* number of session rows so far
    creds,      \* creds[c]: the token credential c is bound to, or None
    uploads,    \* uploads[u]: the token upload u is bound to, or None
    parts,      \* parts[u][n]: <<size, etag>> recorded, or None; outlives the registry entry
    store,      \* store[k]: the object stored under k, or None
    lock,       \* who holds the bucket's quota permit, or None
    writes,     \* number of bodies written so far
    made,       \* how many tokens, credentials and uploads were ever made
    req,        \* req[r]: what request r has in hand
    traffic
vars == <<row, rows, creds, uploads, parts, store, lock, writes, made, req, traffic>>

NoReq == [pc |-> "idle", op |-> None, then |-> "stream", tok |-> None, row |-> 0, key |-> None, size |-> 0,
          said |-> 0, cap |-> 0, since |-> 0, late |-> 0, moved |-> 0, body |-> <<>>,
          list |-> <<>>, set |-> {}, left |-> {}]

Step(r, q) == req' = [req EXCEPT ![r] = q]
Goto(r, to) == Step(r, [req[r] EXCEPT !.pc = to])
Return(r) == Step(r, NoReq)
Begin(r, op) == req[r].pc = "idle" /\ op \in traffic.ops[r]
Quiet == \A r \in Reqs : req[r].pc = "idle"
Live(t) == row[t] # 0
\* A new token is the client's once the refresh has answered.
Known(t) == Live(t) /\ \A r \in Reqs : req[r].pc \in {"relist", "recreds", "reuploads"} => req[r].key # t
\* The bytes of objects of the given sizes; what the bucket holds is their number.
Bytes(size) == UNION {{k} \X (1..size[k]) : k \in DOMAIN size}
SizeOf == [k \in Keys |-> IF store[k] = None THEN 0 ELSE store[k].size]
Usage == Cardinality(Bytes(SizeOf))
Unlock(r) == lock' = IF lock = r THEN None ELSE lock

-----------------------------------------------------------------------------
(* Sessions, as the gateway sees them (Sessions has their own handlers)    *)

EndSession(t) ==
    /\ "end" \in traffic.env /\ Live(t)
    /\ row' = [row EXCEPT ![t] = 0]
    /\ UNCHANGED <<rows, creds, uploads, parts, store, lock, writes, made, req>>

\* switch_user_to_persona puts another row under the same token.
SwitchRow(t) ==
    /\ "switch" \in traffic.env /\ Live(t) /\ rows < MaxRows
    /\ row' = [row EXCEPT ![t] = rows + 1] /\ rows' = rows + 1
    /\ UNCHANGED <<creds, uploads, parts, store, lock, writes, made, req>>

\* refresh: the session moves to a new token; then its credentials and its
\* uploads are re-bound, each from a list made first.
RefreshReissue(r, t) ==
    /\ Begin(r, "refresh") /\ Known(t) /\ rows < MaxRows
    /\ made.tokens < MaxTokens
    /\ LET new == made.tokens + 1
       IN  /\ row' = [row EXCEPT ![t] = 0, ![new] = rows + 1] /\ rows' = rows + 1
           /\ made' = [made EXCEPT !.tokens = new]
           /\ Step(r, [NoReq EXCEPT !.pc = "relist", !.tok = t, !.key = new])
    /\ UNCHANGED <<creds, uploads, parts, store, lock, writes>>

RekeyList(r) ==
    /\ req[r].pc = "relist"
    /\ Step(r, [req[r] EXCEPT !.pc = "recreds", !.set = {c \in Creds : creds[c] = req[r].tok}])
    /\ UNCHANGED <<row, rows, creds, uploads, parts, store, lock, writes, made>>

RekeyCreds(r) ==
    /\ req[r].pc = "recreds"
    /\ creds' = [c \in Creds |-> IF c \in req[r].set THEN req[r].key ELSE creds[c]]
    /\ Step(r, [req[r] EXCEPT !.pc = "reuploads", !.set = {u \in Uploads : uploads[u] = req[r].tok}])
    /\ UNCHANGED <<row, rows, uploads, parts, store, lock, writes, made>>

\* (mutant) The rebuilt entry starts with an empty parts map.
RekeyUploadsBare(r) ==
    /\ req[r].pc = "reuploads"
    /\ uploads' = [u \in Uploads |-> IF u \in req[r].set THEN req[r].key ELSE uploads[u]]
    /\ parts' = [u \in Uploads |-> IF u \in req[r].set THEN [n \in Parts |-> None] ELSE parts[u]]
    /\ Return(r)
    /\ UNCHANGED <<row, rows, creds, store, lock, writes, made>>

\* The entry listed is put back under the new token and shares its parts map.
RekeyUploads(r) ==
    /\ req[r].pc = "reuploads"
    /\ uploads' = [u \in Uploads |-> IF u \in req[r].set THEN req[r].key ELSE uploads[u]]
    /\ Return(r)
    /\ UNCHANGED <<row, rows, creds, parts, store, lock, writes, made>>

-----------------------------------------------------------------------------
(* Credentials                                                             *)

MintBegin(r, t) ==
    /\ Begin(r, "mint") /\ Known(t)
    /\ Step(r, [NoReq EXCEPT !.pc = "mint", !.tok = t])
    /\ UNCHANGED <<row, rows, creds, uploads, parts, store, lock, writes, made>>

MintInsert(r) ==
    /\ req[r].pc = "mint" /\ made.creds < MaxCreds
    /\ creds' = [creds EXCEPT ![made.creds + 1] = req[r].tok]
    /\ made' = [made EXCEPT !.creds = @ + 1]
    /\ Goto(r, "list")
    /\ UNCHANGED <<row, rows, uploads, parts, store, lock, writes>>

\* The session's credentials beyond the newest MaxPerSession.
MintList(r) ==
    LET mine == {c \in Creds : creds[c] = req[r].tok}
    IN  /\ req[r].pc = "list"
        /\ Step(r, [req[r] EXCEPT !.pc = "trim",
                !.set = {c \in mine : Cardinality({d \in mine : d > c}) >= MaxPerSession}])
        /\ UNCHANGED <<row, rows, creds, uploads, parts, store, lock, writes, made>>

MintTrim(r) ==
    /\ req[r].pc = "trim"
    /\ creds' = [c \in Creds |-> IF c \in req[r].set THEN None ELSE creds[c]]
    /\ Return(r)
    /\ UNCHANGED <<row, rows, uploads, parts, store, lock, writes, made>>

Revoke(r, t, c) ==
    /\ Begin(r, "revoke") /\ Known(t) /\ creds[c] = t
    /\ creds' = [creds EXCEPT ![c] = None]
    /\ UNCHANGED <<row, rows, uploads, parts, store, lock, writes, made, req>>

\* verify: a credential whose session is gone is dropped and refused.
VerifyFails(r, c) ==
    /\ req[r].pc = "idle" /\ traffic.ops[r] # {} /\ creds[c] # None /\ ~Live(creds[c])
    /\ creds' = [creds EXCEPT ![c] = None]
    /\ UNCHANGED <<row, rows, uploads, parts, store, lock, writes, made, req>>

\* A request that verify lets in: the token, and the row its leash holds on to.
Verified(t) == \E c \in Creds : creds[c] = t /\ Live(t)
Request(op, t, k) == [NoReq EXCEPT !.op = op, !.tok = t, !.row = row[t], !.key = k]

-----------------------------------------------------------------------------
(* The write pipeline: quota permit, leashed stream, commit                *)

\* (mutant) The object a write replaces is credited twice.
CreditTwice(k) == IF Usage > 2 * SizeOf[k] THEN Usage - 2 * SizeOf[k] ELSE 0

\* The bytes stored once the object under k is replaced.
Effective(k) == Usage - SizeOf[k]

\* Without a quota there is no permit.  With one, the permit is held from before
\* usage is read until the commit; the stream is cut off at what the usage, less
\* the object this write replaces, leaves.
WriteBudget(r) ==
    LET q == req[r]
        used == Effective(q.key)
    IN  /\ q.pc = "budget"
        /\ IF traffic.quota = None THEN Goto(r, q.then) /\ UNCHANGED lock
           ELSE /\ lock = None
                /\ IF used + q.said > traffic.quota THEN Return(r) /\ UNCHANGED lock
                   ELSE /\ lock' = r
                        /\ Step(r, [q EXCEPT !.pc = q.then, !.cap = Min({@, traffic.quota - used})])
        /\ UNCHANGED <<row, rows, creds, uploads, parts, store, writes, made>>

Abandon(r) ==
    /\ Unlock(r) /\ Return(r)
    /\ UNCHANGED <<row, rows, creds, uploads, parts, store, writes, made>>

\* (mutant) The leash looks for a live session, not for the same one.
LeashAny(q) == row[q.tok] # 0

\* The row the request was authenticated with is still the one in place.
Leash(q) == row[q.tok] = q.row

\* One unit of an upload, a copy or a download passes the leash, which looks at
\* the session once Recheck units have passed, or sooner when its interval is
\* over; an upload also fails at its cap.
StreamChunk(r, timer) ==
    LET q == req[r]
        look == timer \/ q.since + 1 >= Recheck
    IN  /\ q.pc = "stream" /\ q.moved < q.size
        /\ IF (look /\ ~Leash(q)) \/ (q.op # "get" /\ q.moved + 1 > q.cap) THEN Abandon(r)
           ELSE /\ Step(r, [q EXCEPT !.moved = @ + 1, !.since = IF look THEN 0 ELSE @ + 1,
                                     !.late = IF row[q.tok] = q.row THEN 0 ELSE @ + 1])
                /\ UNCHANGED <<row, rows, creds, uploads, parts, store, lock, writes, made>>

\* The client goes away, or the body fails its checksum at the end.
StreamFails(r) == req[r].pc \in {"stream", "assemble"} /\ Abandon(r)

StreamEnds(r) ==
    LET q == req[r]
    IN  /\ q.pc = "stream" /\ q.moved = q.size
        /\ IF q.op = "get" THEN Return(r) /\ UNCHANGED writes
           ELSE /\ writes < traffic.writes /\ writes' = writes + 1
                /\ Step(r, [q EXCEPT !.pc = "commit", !.body = <<writes + 1>>])
        /\ UNCHANGED <<row, rows, creds, uploads, parts, store, lock, made>>

\* The object becomes visible, then the permit is dropped.
Commit(r) ==
    LET q == req[r]
    IN  /\ q.pc = "commit"
        /\ store' = [store EXCEPT ![q.key] = [size |-> q.moved, body |-> q.body, mpu |-> Len(q.list)]]
        /\ Unlock(r)
        /\ CASE q.op = "put" -> Return(r)
             [] q.op = "part" -> Goto(r, "describe")
             [] q.op = "complete" -> Goto(r, "keys")
        /\ UNCHANGED <<row, rows, creds, uploads, parts, writes, made>>

-----------------------------------------------------------------------------
(* Objects                                                                 *)

\* put_object; "said" is the Content-Length, 0 when the client states none.
PutBegin(r, t, size, said) ==
    /\ Begin(r, "put") /\ Verified(t) /\ said \in {0, size}
    /\ Step(r, [Request("put", t, Obj) EXCEPT !.pc = "budget", !.size = size, !.said = said,
                                            !.cap = MaxObject])
    /\ UNCHANGED <<row, rows, creds, uploads, parts, store, lock, writes, made>>

GetBegin(r, t) ==
    /\ Begin(r, "get") /\ Verified(t) /\ store[Obj] # None
    /\ Step(r, [Request("get", t, Obj) EXCEPT !.pc = "stream", !.size = store[Obj].size])
    /\ UNCHANGED <<row, rows, creds, uploads, parts, store, lock, writes, made>>

\* delete takes no quota permit.
Delete(r, t) ==
    /\ Begin(r, "delete") /\ Verified(t)
    /\ store' = [store EXCEPT ![Obj] = None]
    /\ UNCHANGED <<row, rows, creds, uploads, parts, lock, writes, made, req>>

\* put_tagging and delete_tagging rewrite the labels from a described copy,
\* the reserved part-count label included.
TagRead(r, t) ==
    /\ Begin(r, "tag") /\ Verified(t) /\ store[Obj] # None
    /\ Step(r, [Request("tag", t, Obj) EXCEPT !.pc = "tag", !.size = store[Obj].mpu])
    /\ UNCHANGED <<row, rows, creds, uploads, parts, store, lock, writes, made>>

TagWrite(r) ==
    /\ req[r].pc = "tag"
    /\ store' = IF store[Obj] = None THEN store ELSE [store EXCEPT ![Obj].mpu = req[r].size]
    /\ Return(r)
    /\ UNCHANGED <<row, rows, creds, uploads, parts, lock, writes, made>>

-----------------------------------------------------------------------------
(* Multipart uploads                                                       *)

Owned(u, t) == uploads[u] = t

CreateBegin(r, t) ==
    /\ Begin(r, "create") /\ Verified(t)
    /\ Step(r, [Request("create", t, None) EXCEPT !.pc = "create"])
    /\ UNCHANGED <<row, rows, creds, uploads, parts, store, lock, writes, made>>

\* A session at its limit is told to slow down.
CreateInsert(r) ==
    /\ req[r].pc = "create"
    /\ IF Cardinality({u \in Uploads : uploads[u] = req[r].tok}) >= MaxPerSession
       THEN UNCHANGED <<uploads, made>>
       ELSE /\ made.uploads < MaxUploads
            /\ uploads' = [uploads EXCEPT ![made.uploads + 1] = req[r].tok]
            /\ made' = [made EXCEPT !.uploads = @ + 1]
    /\ Return(r)
    /\ UNCHANGED <<row, rows, creds, parts, store, lock, writes>>

PartBegin(r, t, u, n, size, said) ==
    /\ Begin(r, "part") /\ Verified(t) /\ Owned(u, t) /\ said \in {0, size} /\ said <= MaxPart
    /\ Step(r, [Request("part", t, <<u, n>>) EXCEPT !.pc = "budget", !.size = size, !.said = said,
                                                    !.cap = MaxPart])
    /\ UNCHANGED <<row, rows, creds, uploads, parts, store, lock, writes, made>>

\* The ETag answered and recorded is the one describe finds under the part's key.
PartDescribe(r) ==
    LET q == req[r]
    IN  /\ q.pc = "describe"
        /\ IF store[q.key] = None THEN Return(r)
           ELSE Step(r, [q EXCEPT !.pc = "record", !.body = store[q.key].body])
        /\ UNCHANGED <<row, rows, creds, uploads, parts, store, lock, writes, made>>

\* The size recorded is what arrived.
PartRecord(r) ==
    LET q == req[r]
    IN  /\ q.pc = "record"
        /\ parts' = [parts EXCEPT ![q.key[1]][q.key[2]] = <<q.moved, Head(q.body)>>]
        /\ Return(r)
        /\ UNCHANGED <<row, rows, creds, uploads, store, lock, writes, made>>

\* complete's checks of the requested list of <<part number, ETag>>.
Accepts(u, list) ==
    /\ list # <<>>
    /\ \A i \in 2..Len(list) : list[i - 1][1] < list[i][1]
    /\ \A i \in 1..Len(list) :
        /\ parts[u][list[i][1]] # None /\ parts[u][list[i][1]][2] = list[i][2]
        /\ i < Len(list) => parts[u][list[i][1]][1] >= MinPart

CompleteBegin(r, t, u, list) ==
    /\ Begin(r, "complete") /\ Verified(t) /\ Owned(u, t) /\ Accepts(u, list)
    /\ LET incoming == Cardinality(Bytes([i \in DOMAIN list |-> parts[u][list[i][1]][1]]))
       IN  Step(r, [Request("complete", t, Obj) EXCEPT !.pc = "budget", !.then = "assemble",
                    !.said = incoming, !.cap = MaxObject, !.list = list, !.set = {u}])
    /\ UNCHANGED <<row, rows, creds, uploads, parts, store, lock, writes, made>>

\* advance_assembly: the leash is looked at before every part, and the part read
\* is whatever its key holds then.
AssemblePart(r) ==
    LET q == req[r]
        u == CHOOSE v \in q.set : TRUE
        part == store[<<u, q.list[q.since + 1][1]>>]
    IN  /\ q.pc = "assemble" /\ q.since < Len(q.list)
        /\ IF ~Leash(q) \/ part = None THEN Abandon(r)
           ELSE IF q.moved + part.size > q.cap THEN Abandon(r)
           ELSE /\ Step(r, [q EXCEPT !.since = @ + 1, !.moved = @ + part.size, !.body = @ \o part.body,
                                     !.pc = IF q.since + 1 = Len(q.list) THEN "commit" ELSE @])
                /\ UNCHANGED <<row, rows, creds, uploads, parts, store, lock, writes, made>>

AbortBegin(r, t, u) ==
    /\ Begin(r, "abort") /\ Verified(t) /\ Owned(u, t)
    /\ Step(r, [Request("abort", t, None) EXCEPT !.pc = "keys", !.set = {u}])
    /\ UNCHANGED <<row, rows, creds, uploads, parts, store, lock, writes, made>>

\* Uploads whose session is no longer known.
Orphans == {u \in Uploads : uploads[u] # None /\ ~Live(uploads[u])}

\* sweep_orphaned_uploads lists the orphans and, past max_age, any upload.
SweepBegin(r, aged) ==
    /\ Begin(r, "sweep") /\ aged \subseteq traffic.aged
    /\ LET victims == Orphans \cup {u \in aged : uploads[u] # None}
       IN  /\ victims # {}
           /\ Step(r, [NoReq EXCEPT !.op = "sweep", !.pc = "keys", !.set = victims])
    /\ UNCHANGED <<row, rows, creds, uploads, parts, store, lock, writes, made>>

SweepCreds(r) ==
    /\ Begin(r, "sweep")
    /\ creds' = [c \in Creds |-> IF creds[c] # None /\ ~Live(creds[c]) THEN None ELSE creds[c]]
    /\ creds' # creds
    /\ UNCHANGED <<row, rows, uploads, parts, store, lock, writes, made, req>>

\* abort_upload_parts: the recorded part numbers of the next upload, ...
DropKeys(r) ==
    LET q == req[r]
        u == Min(q.set)
    IN  /\ q.pc = "keys"
        /\ Step(r, [q EXCEPT !.pc = "drop", !.key = u, !.left = {n \in Parts : parts[u][n] # None}])
        /\ UNCHANGED <<row, rows, creds, uploads, parts, store, lock, writes, made>>

\* ... each deleted in turn; a delete may fail, which is only logged.
DropPart(r) ==
    LET q == req[r]
        n == Min(q.left)
    IN  /\ q.pc = "drop" /\ q.left # {}
        /\ \/ store' = [store EXCEPT ![<<q.key, n>>] = None]
           \/ "faults" \in traffic.env /\ UNCHANGED store
        /\ Step(r, [q EXCEPT !.left = @ \ {n}])
        /\ UNCHANGED <<row, rows, creds, uploads, parts, lock, writes, made>>

\* Then the registry entry goes.
DropUpload(r) ==
    LET q == req[r]
        rest == q.set \ {q.key}
    IN  /\ q.pc = "drop" /\ q.left = {}
        /\ uploads' = [uploads EXCEPT ![q.key] = None]
        /\ IF rest = {} THEN Return(r) ELSE Step(r, [q EXCEPT !.pc = "keys", !.set = rest])
        /\ UNCHANGED <<row, rows, creds, parts, store, lock, writes, made>>

-----------------------------------------------------------------------------
Init ==
    /\ traffic \in Mixes
    /\ row = [t \in Tokens |-> IF t <= traffic.sessions THEN t ELSE 0]
    /\ rows = traffic.sessions
    /\ creds = [c \in Creds |-> IF c <= traffic.sessions THEN c ELSE None]
    /\ uploads = [u \in Uploads |-> IF u <= traffic.uploads THEN 1 ELSE None]
    /\ parts = [u \in Uploads |-> [n \in Parts |-> None]]
    /\ store = [k \in Keys |-> None]
    /\ lock = None /\ writes = 0
    /\ made = [tokens |-> traffic.sessions, creds |-> traffic.sessions, uploads |-> traffic.uploads]
    /\ req = [r \in Reqs |-> NoReq]

\* The lists a client may ask to complete with: ETags it was given.
Lists == {l \in UNION {[1..k -> Parts \X (1..MaxWrites)] : k \in 1..Cardinality(Parts)} :
             \A i \in 1..Len(l) : l[i][2] <= writes}

ReqNext(r) ==
    \/ \E t \in Tokens :
        \/ RefreshReissue(r, t) \/ MintBegin(r, t) \/ GetBegin(r, t) \/ Delete(r, t)
        \/ TagRead(r, t) \/ CreateBegin(r, t)
        \/ \E c \in Creds : Revoke(r, t, c)
        \/ \E size \in Sizes, said \in {0} \cup Sizes :
            \/ PutBegin(r, t, size, said)
            \/ \E u \in Uploads, n \in Parts : PartBegin(r, t, u, n, size, said)
        \/ \E u \in Uploads :
            \/ AbortBegin(r, t, u)
            \/ \E list \in Lists : CompleteBegin(r, t, u, list)
    \/ \E c \in Creds : VerifyFails(r, c)
    \/ RekeyList(r) \/ RekeyCreds(r) \/ RekeyUploads(r) \/ MintInsert(r) \/ MintList(r) \/ MintTrim(r)
    \/ WriteBudget(r) \/ StreamFails(r) \/ StreamEnds(r) \/ Commit(r) \/ TagWrite(r)
    \/ \E timer \in BOOLEAN : StreamChunk(r, timer)
    \/ CreateInsert(r) \/ PartDescribe(r) \/ PartRecord(r) \/ AssemblePart(r)
    \/ \E aged \in SUBSET traffic.aged : SweepBegin(r, aged)
    \/ SweepCreds(r) \/ DropKeys(r) \/ DropPart(r) \/ DropUpload(r)

Next ==
    /\ \/ \E r \in Reqs : ReqNext(r)
       \/ \E t \in Tokens : EndSession(t) \/ SwitchRow(t)
    /\ UNCHANGED traffic

Spec == Init /\ [][Next]_vars

-----------------------------------------------------------------------------

\* (write_budget) Concurrent PUTs, part uploads, completions and deletes never
\* bring the stored bytes over the bucket's quota, whatever length a client
\* announced: the permit is held from reading the usage to the commit, and only
\* the object replaced is credited.
QuotaKept == traffic.quota # None => Usage <= traffic.quota

\* No client refreshes its session: the credentials of one refreshed between the
\* insertion and the trim of a mint leave the trim nothing to find.
NoRefresh == \A r \in Reqs : "refresh" \notin traffic.ops[r]

\* (mint) Once no mint is under way, a session that was not refreshed has no more
\* credentials than its limit, however mints and revocations interleaved: the
\* trim after the insertion "always converges".
CredsBounded == Quiet /\ NoRefresh =>
    \A t \in Tokens : Cardinality({c \in Creds : creds[c] = t}) <= MaxPerSession

\* (SessionLeash) After a session ended, or was replaced under the same token,
\* a transfer it had started moves fewer than Recheck further bytes.
LeashBounds == \A r \in Reqs : req[r].pc = "stream" => req[r].late < Recheck

\* What a session may do ends with it and has a limit: its credentials, and the transfers it started.
Leashed == CredsBounded /\ LeashBounds

\* (MultipartUpload.parts, rekey_session) Between requests, an upload of a
\* session that was only refreshed is bound to a live token, and every part
\* stored for it is recorded under the ETag of what is stored: a refresh racing
\* an upload_part loses nothing.
RefreshKeepsParts == Quiet => \A u \in Uploads : uploads[u] # None =>
    /\ Live(uploads[u])
    /\ \A n \in Parts : store[<<u, n>>] # None =>
           parts[u][n] # None /\ <<parts[u][n][2]>> = store[<<u, n>>].body

\* (complete) A completion commits exactly the bodies whose ETags the client
\* listed, in ascending order of part number, or fails.
CompletesAsListed == \A r \in Reqs : req[r].pc = "commit" /\ req[r].op = "complete" =>
    LET list == req[r].list
    IN  /\ req[r].body = [i \in 1..Len(list) |-> list[i][2]]
        /\ \A i \in 2..Len(list) : list[i - 1][1] < list[i][1]

\* (abort_upload_parts) Between requests, every stored part belongs to an upload
\* that is still registered: none survives "as an unreachable, undeletable,
\* still-quota-counted object".
NoOrphanPart == Quiet => \A u \in Uploads, n \in Parts : store[<<u, n>>] # None => uploads[u] # None

=============================================================================
