------------------------------ MODULE Envelope ------------------------------
(***************************************************************************)
(* The object envelope (crates/y2q-core/src/crypto/envelope.rs) between a  *)
(* PUT that is fed in pieces (crates/y2qd/src/cipher.rs) and the GETs that *)
(* decrypt it whole or one chunk at a time, beside further PUTs of the     *)
(* same object.                                                            *)
(*                                                                         *)
(* A file is a sequence of cells: the fixed header, the KEM ciphertext,    *)
(* and for every chunk one cell per byte and one for the tag.  AES-GCM is  *)
(* ideal: a run of cells opens exactly when it is one sealed chunk, whole  *)
(* and in order, under its own key, chunk number and marker.               *)
(***************************************************************************)
EXTENDS Integers, Sequences, TLC

CONSTANTS Offsets, NoUpload, Pad, Refused

VARIABLES
    jobs,    \* the PUTs still to come: size, chunk size, bucket key epoch
    sess,    \* the EncryptSession of the PUT that runs, with what it has written, or NoUpload
    disk,    \* the object: its data section and its metadata, or NoUpload
    rd,      \* the GET
    gen      \* the number of the last PUT that was started

envVars == <<jobs, sess, disk, rd, gen>>

PreambleLen == 2
TagLen      == 1
-----------------------------------------------------------------------------
(* Sealing.                                                                *)

Log2(l) == CHOOSE e \in 0..l : 2^e <= l /\ l < 2^(e + 1)

padme_len(l) ==
    IF l < 2 THEN l
    ELSE LET e == Log2(l)
             s == Log2(e) + 1
         IN IF e <= s THEN l ELSE ((l + 2^(e - s) - 1) \div 2^(e - s)) * 2^(e - s)

build_v4_aad(final) == final

\* One chunk under content key k and chunk number i.
SealAs(k, i, aad, data) ==
    [o \in 1..(Len(data) + TagLen) |->
        [k |-> k, i |-> i, aad |-> aad, n |-> Len(data), o |-> o, b |-> IF o <= Len(data) THEN data[o] ELSE "tag"]]

\* decrypt_in_place.
Opens(cells, k, i, aad) ==
    /\ cells # <<>>
    /\ Len(cells) = cells[1].n + TagLen
    /\ \A o \in 1..Len(cells) : cells[o].k = k /\ cells[o].i = i /\ cells[o].aad = aad /\ cells[o].n = cells[1].n /\ cells[o].o = o
Bytes(cells) == [o \in 1..(Len(cells) - TagLen) |-> cells[o].b]
-----------------------------------------------------------------------------
(* EncryptSession.                                                         *)

Header(ver, job, len) == [ver |-> ver, epoch |-> job.epoch, len |-> len, cs |-> job.cs]
KemCt(g, job)         == [kem |-> g, epoch |-> job.epoch]

Session(g, job) ==
    [gen |-> g, job |-> job, left |-> job.size, out |-> <<Header(4, job, 0), KemCt(g, job)>>, idx |-> 0, staging |-> <<>>,
     pending |-> <<>>, total |-> 0, size |-> 0]

flush_raw(s, data, final) ==
    [s EXCEPT !.out = @ \o SealAs(s.gen, s.idx, build_v4_aad(final), data), !.total = @ + Len(data), !.idx = @ + 1]

\* A full chunk waits until it is known whether another one follows; an empty pending stands for None.
promote_staging(s) ==
    LET f == IF s.pending # <<>> THEN flush_raw(s, s.pending, FALSE) ELSE s
    IN [f EXCEPT !.pending = s.staging, !.staging = <<>>]

RECURSIVE feed(_, _)
feed(s, data) ==
    IF data = <<>> THEN s
    ELSE LET space == s.job.cs - Len(s.staging)
             take  == IF Len(data) < space THEN Len(data) ELSE space
             t     == [s EXCEPT !.staging = @ \o SubSeq(data, 1, take)]
         IN feed(IF Len(t.staging) = s.job.cs THEN promote_staging(t) ELSE t, SubSeq(data, take + 1, Len(data)))

\* (mutant) The chunk that waits is never the last one.
FinishTail(s) ==
    LET absorbed == s.total + Len(s.pending) + Len(s.staging)
        p        == feed(s, [i \in 1..(padme_len(absorbed) - absorbed) |-> Pad])
        q        == IF p.pending # <<>> THEN flush_raw(p, p.pending, FALSE) ELSE p
        f        == IF p.staging # <<>> THEN flush_raw(q, p.staging, TRUE) ELSE q
    IN [f EXCEPT !.out = [@ EXCEPT ![1].len = f.total]]

\* Padding, the last chunk with its marker, the length in the header.
finish(s) ==
    LET absorbed == s.total + Len(s.pending) + Len(s.staging)
        p        == feed(s, [i \in 1..(padme_len(absorbed) - absorbed) |-> Pad])
        q        == IF p.staging # <<>> /\ p.pending # <<>> THEN flush_raw(p, p.pending, FALSE) ELSE p
        f        == IF p.staging # <<>> THEN flush_raw(q, p.staging, TRUE)
                    ELSE IF p.pending # <<>> THEN flush_raw(p, p.pending, TRUE) ELSE p
    IN [f EXCEPT !.out = [@ EXCEPT ![1].len = f.total]]
-----------------------------------------------------------------------------
(* Opening.                                                                *)

\* The content key that the secret key of an epoch recovers.
derive_content_key(kem, epoch) == IF kem.epoch = epoch THEN kem.kem ELSE 0

MinOf(a, b) == IF a < b THEN a ELSE b

\* The associated data expected of chunk i: without a marker in v3; in v4 the chunk that is last in a whole envelope, or the
\* last of the given number in a window.
Expected(ver, chunks, i, end) == IF ver = 3 THEN "v3" ELSE build_v4_aad(IF chunks = 0 THEN end ELSE i + 1 = chunks)

RECURSIVE OpenChunks(_, _, _, _, _, _)
OpenChunks(cells, k, cs, i, ver, chunks) ==
    IF cells = <<>> THEN <<>>
    ELSE LET end  == MinOf(cs + TagLen, Len(cells))
             run  == SubSeq(cells, 1, end)
             rest == OpenChunks(SubSeq(cells, end + 1, Len(cells)), k, cs, i + 1, ver, chunks)
         IN IF ~Opens(run, k, i, Expected(ver, chunks, i, end = Len(cells))) \/ rest = Refused THEN Refused ELSE Bytes(run) \o rest

finish_plaintext(text, expected) == IF Len(text) < expected THEN Refused ELSE SubSeq(text, 1, expected)

\* decrypt_v3 and decrypt_v4 (and their owned forms).
DecryptAs(ver, env, epoch, expected) ==
    LET text == OpenChunks(SubSeq(env, PreambleLen + 1, Len(env)), derive_content_key(env[2], epoch), env[1].cs, 0, ver, 0)
    IN IF text = Refused \/ Len(text) # env[1].len THEN Refused ELSE finish_plaintext(text, expected)
decrypt_v3(env, epoch, expected) == DecryptAs(3, env, epoch, expected)
decrypt_v4(env, epoch, expected) == DecryptAs(4, env, epoch, expected)
decrypt(env, epoch, expected) ==
    IF Len(env) < PreambleLen THEN Refused
    ELSE IF env[1].ver = 3 THEN decrypt_v3(env, epoch, expected) ELSE decrypt_v4(env, epoch, expected)

\* A window of whole chunks beginning with chunk first.
decrypt_v3_chunks(pre, window, first, epoch) ==
    OpenChunks(window, derive_content_key(pre[2], epoch), pre[1].cs, first, 3, 0)
decrypt_v4_chunks(pre, window, first, chunks, epoch) ==
    OpenChunks(window, derive_content_key(pre[2], epoch), pre[1].cs, first, 4, chunks)
-----------------------------------------------------------------------------
(* PUT: stream_encrypt_for_put and encrypt_bytes_for_put.                  *)

Reading == rd.pc \in {"preamble", "chunk", "get"}

EncryptStart ==
    /\ sess = NoUpload /\ jobs # <<>>
    /\ gen' = gen + 1 /\ sess' = Session(gen + 1, Head(jobs)) /\ jobs' = Tail(jobs)
    /\ UNCHANGED <<disk, rd>>

\* The next piece of the body, whatever its length.  A body over the limit ends the PUT.
FeedPiece(n) ==
    /\ sess # NoUpload /\ n \in 1..sess.left /\ (sess.job.whole => n = sess.left)
    /\ LET size == sess.size + n
       IN sess' = IF size > sess.job.max THEN NoUpload
                  ELSE [feed(sess, [i \in 1..n |-> [gen |-> gen, at |-> sess.size + i]]) EXCEPT !.size = size, !.left = @ - n]
    /\ UNCHANGED <<jobs, disk, rd, gen>>

\* The end of the body: finish, and the commit replaces the object with its metadata.
FinishPut ==
    /\ sess # NoUpload /\ sess.left = 0
    /\ LET f == finish(sess)
       IN disk' = [cells |-> f.out, md |-> [gen |-> gen, size |-> f.size, ver |-> 4, epoch |-> sess.job.epoch, cipher |-> Len(f.out)]]
    /\ sess' = NoUpload
    /\ rd' = [rd EXCEPT !.replaced = @ \/ Reading]
    /\ UNCHANGED <<jobs, gen>>
-----------------------------------------------------------------------------
(* GET: handlers/get.rs, s3/object.rs and plaintext_stream.                *)

\* A Range header: "a-b", "a-" or "-b" by form.  None is -1.
parse_byte_range(r) == IF r.form = "a-b" THEN <<r.a, r.b>> ELSE <<>>
parse_range(r, size) ==
    IF size = 0 \/ r.form = "none" THEN <<>>
    ELSE IF r.form = "-b" THEN IF r.b = 0 THEN <<>> ELSE <<IF r.b > size THEN 0 ELSE size - r.b, size - 1>>
    ELSE LET end == IF r.form = "a-" THEN size - 1 ELSE r.b
         IN IF r.a > end \/ r.a >= size THEN <<>> ELSE <<r.a, MinOf(end, size - 1)>>

Idle == [pc |-> "idle", md |-> NoUpload, ask |-> NoUpload, start |-> 0, end |-> 0, pre |-> <<>>, cur |-> 0, out |-> <<>>, replaced |-> FALSE]

\* describe, and what the request asks of it: the whole object, a range of it, or nothing that it has.
Describe(r) ==
    /\ rd.pc = "idle" /\ disk # NoUpload
    /\ LET md  == disk.md
           rng == IF r.s3 THEN parse_range(r, md.size) ELSE parse_byte_range(r)
           got == [Idle EXCEPT !.md = md, !.ask = r]
       IN rd' = IF r.s3 /\ md.size = 0 THEN [got EXCEPT !.pc = "done"]
                ELSE IF r.s3 /\ rng = <<>> THEN [got EXCEPT !.pc = "preamble", !.end = md.size - 1]
                ELSE IF rng = <<>> THEN [got EXCEPT !.pc = "get"]
                ELSE IF rng[1] > rng[2] \/ rng[2] >= md.size THEN [got EXCEPT !.pc = "unsatisfiable"]
                ELSE [got EXCEPT !.pc = "preamble", !.start = rng[1], !.end = rng[2]]
    /\ UNCHANGED <<jobs, sess, disk, gen>>

\* The whole file and its decryption, trimmed to the size that was described.
decrypt_after_get ==
    /\ rd.pc = "get"
    /\ LET text == decrypt(disk.cells, rd.md.epoch, rd.md.size)
       IN rd' = IF text = Refused THEN [rd EXCEPT !.pc = "refused"] ELSE [rd EXCEPT !.pc = "done", !.out = text]
    /\ UNCHANGED <<jobs, sess, disk, gen>>

\* get_range of the storage: the cells from a to b, fewer when the file ends before.
get_range(a, b) == SubSeq(disk.cells, a + 1, MinOf(b + 1, Len(disk.cells)))

\* The first poll: the preamble and the geometry of the version that was described.
ReadPreamble ==
    /\ rd.pc = "preamble"
    /\ LET pre == get_range(0, PreambleLen - 1)
       IN rd' = IF pre[1].ver # rd.md.ver THEN [rd EXCEPT !.pc = "refused"]
                ELSE [rd EXCEPT !.pc = "chunk", !.pre = pre, !.cur = rd.start \div pre[1].cs]
    /\ UNCHANGED <<jobs, sess, disk, gen>>

ChunkCount(size, cs) == (padme_len(size) + cs - 1) \div cs

trim_back(cur, last, end, len) == IF cur = last THEN MinOf(end, len - 1) ELSE len - 1

\* Every further poll: one chunk, a read of its own, cut to the range.
NextChunk ==
    LET cs     == rd.pre[1].cs
        last   == rd.end \div cs
        first  == PreambleLen + rd.cur * (cs + TagLen)
        final  == MinOf(first + cs + TagLen, rd.md.cipher) - 1
        window == get_range(first, final)
        text   == IF rd.md.ver = 3 THEN decrypt_v3_chunks(rd.pre, window, rd.cur, rd.md.epoch)
                  ELSE decrypt_v4_chunks(rd.pre, window, rd.cur, ChunkCount(rd.md.size, cs), rd.md.epoch)
        at     == rd.cur * cs
        front  == IF rd.start > at THEN rd.start - at ELSE 0
        back   == trim_back(rd.cur, last, rd.end - at, Len(text))
    IN
    /\ rd.pc = "chunk"
    /\ rd' = IF rd.cur > last THEN [rd EXCEPT !.pc = "done"]
             ELSE IF Len(window) # final - first + 1 \/ text = Refused THEN [rd EXCEPT !.pc = "refused"]
             ELSE [rd EXCEPT !.cur = @ + 1, !.out = @ \o SubSeq(text, front + 1, back + 1)]
    /\ UNCHANGED <<jobs, sess, disk, gen>>

Asks == {r \in [form : {"none", "a-b", "a-", "-b"}, a : Offsets, b : Offsets, s3 : BOOLEAN] :
            (r.form \in {"none", "-b"} => r.a = 0) /\ (r.form \in {"none", "a-"} => r.b = 0)}
GetStep == decrypt_after_get \/ ReadPreamble \/ NextChunk
PutStep == EncryptStart \/ (sess # NoUpload /\ \E n \in 1..sess.left : FeedPiece(n)) \/ FinishPut
EnvNext == PutStep \/ (\E r \in Asks : Describe(r)) \/ GetStep
-----------------------------------------------------------------------------
(* What an envelope of a body of n bytes is, without a session.            *)

Text(g, n)  == [i \in 1..padme_len(n) |-> IF i <= n THEN [gen |-> g, at |-> i] ELSE Pad]
RefCells(ver, g, job) ==
    LET n      == job.size
        chunks == (padme_len(n) + job.cs - 1) \div job.cs
        Size(i) == MinOf(job.cs, padme_len(n) - i * job.cs)
    IN <<Header(ver, job, padme_len(n)), KemCt(g, job)>> \o
       [p \in 1..(padme_len(n) + chunks) |->
          LET i == (p - 1) \div (job.cs + TagLen)
              o == ((p - 1) % (job.cs + TagLen)) + 1
          IN [k |-> g, i |-> i, aad |-> IF ver = 3 THEN "v3" ELSE build_v4_aad(i + 1 = chunks), n |-> Size(i), o |-> o,
              b |-> IF o <= Size(i) THEN Text(g, n)[i * job.cs + o] ELSE "tag"]]
Legacy(job) == [cells |-> RefCells(3, 0, job), md |-> [gen |-> 0, size |-> job.size, ver |-> 3, epoch |-> job.epoch,
                                                       cipher |-> Len(RefCells(3, 0, job))]]

EnvInit(d) ==
    /\ jobs = d.jobs /\ sess = NoUpload /\ gen = 0 /\ rd = Idle
    /\ disk = IF d.legacy = NoUpload THEN NoUpload ELSE Legacy(d.legacy)
-----------------------------------------------------------------------------
\* Whatever the pieces in which a body arrives (feed, promote_staging, finish), the same envelope is written: full chunks,
\* numbered without a gap, padding, exactly one last chunk, or none.
SplitsDoNotMatter ==
    disk # NoUpload /\ disk.md.ver = 4 /\ rd.pc = "idle" =>
        LET h == disk.cells[1]
        IN disk.cells = RefCells(4, disk.md.gen, [size |-> disk.md.size, cs |-> h.cs, epoch |-> h.epoch])

\* A GET that completes has the bytes it asked for, all of one version: of the one it described unless a PUT replaced it in
\* the meantime, and then what lies beyond the end of the newer one is padding.
ReadsExactly ==
    rd.pc = "done" =>
        LET last == IF rd.ask.s3 \/ rd.ask.form = "a-b" THEN rd.end ELSE rd.md.size - 1
            Want(g, i) == [gen |-> g, at |-> rd.start + i]
        IN /\ Len(rd.out) = (IF rd.md.size = 0 THEN 0 ELSE last - rd.start + 1)
           /\ \E g \in IF rd.replaced THEN 0..gen ELSE {rd.md.gen} :
                \A i \in 1..Len(rd.out) : rd.out[i] = Want(g, i) \/ (rd.replaced /\ rd.out[i] = Pad)

\* A GET of an object that nobody replaced is never refused (the chunk arithmetic of plaintext_stream agrees with finish).
NeverRefused == rd.pc = "refused" => rd.replaced

\* An envelope that lost its tail is refused, also one cut between two chunks whose header claims the shorter length.
CutIsRefused ==
    disk # NoUpload /\ disk.md.ver = 4 /\ rd.pc = "idle" =>
        \A n \in PreambleLen..(Len(disk.cells) - 1) : \A len \in 0..padme_len(disk.md.size) :
            decrypt([SubSeq(disk.cells, 1, n) EXCEPT ![1].len = len], disk.md.epoch, disk.md.size) = Refused

\* What an envelope promises: one form whatever the splits, exact reads of whole objects, none of a cut one.
EnvelopeSound == SplitsDoNotMatter /\ ReadsExactly /\ NeverRefused /\ CutIsRefused
=============================================================================
