------------------------------- MODULE Uring -------------------------------
(***************************************************************************)
(* The io_uring backend (crates/y2q-core/src/storage/uring).  Requests run *)
(* on the server's runtime and send typed operations to worker threads     *)
(* over one channel per worker; a key always goes to the same worker.  A   *)
(* request whose client goes away is dropped where it waits, and what it   *)
(* sent stays in the channel.                                              *)
(*                                                                         *)
(* A file is a function from offsets to cells: the container header, the   *)
(* envelope's preamble and chunks, the metadata, the trailer.  set_labels, *)
(* the bucket operations and the eviction of locks are filesystem.rs's     *)
(* here too: ObjectStore and StagingFile.                                  *)
(***************************************************************************)
EXTENDS Integers, Sequences, TLC

CONSTANTS UKeys, Workers, Callers, Chunks, Batch, Nobody

VARIABLES
    shard,   \* shard[k]: the worker (bucket, key) hashes to; shard.path: the one the path hashes to
    obj,     \* obj[k]: the file at the .obj path, or Nobody
    tmp,     \* tmp[k]: the file at the .tmp path, or Nobody
    safe,    \* safe[k]: the .obj entry a power loss leaves
    held,    \* held[k]: the upload that holds k's lock, or Nobody
    rows,    \* rows[k]: the index row of k, or Nobody
    queue,   \* queue[w]: the operations sent to worker w
    work,    \* work[w]: the buffered PUT w has staged and not renamed, or Nobody
    alive,   \* the workers whose thread runs
    call,    \* call[c]: request c and the requests after it
    scan,    \* the rebuild task
    pool,    \* "open", "closing", "joined"
    past,    \* history: effects sent, applied and acknowledged per key, keys touched since the rebuild began
    faults   \* what may still go wrong, how often

uringVars == <<shard, obj, tmp, safe, held, rows, queue, work, alive, call, scan, pool, past, faults>>
files     == <<obj, tmp, safe, held, rows>>
threads   == <<shard, queue, work, alive>>
-----------------------------------------------------------------------------
(* The container: header, preamble, chunks, metadata, trailer.             *)

MetaAt == Chunks + 2
Piece(o) == IF o = 0 THEN "header" ELSE IF o = 1 THEN "preamble" ELSE IF o = MetaAt THEN "meta"
            ELSE IF o = MetaAt + 1 THEN "trailer" ELSE "chunk"

\* The staging file with all writes of put_via_buffered, and of put_via_direct with its larger data offset; what a fault in
\* them leaves: the partial file, or nothing after cleanup_direct_failure.
Staged(op, direct) == [cell |-> [o \in 0..(MetaAt + 1) |-> [by |-> op.id, what |-> Piece(o)]], direct |-> direct, synced |-> op.dur,
                       torn |-> FALSE, stamp |-> 0]
put_via_buffered(op, ok)       == [Staged(op, FALSE) EXCEPT !.torn = ~ok]
cleanup_direct_failure         == Nobody
put_via_direct(op, ok)         == IF ok THEN Staged(op, TRUE) ELSE cleanup_direct_failure
WriteFile(op, direct, ok)      == IF direct THEN put_via_direct(op, ok) ELSE put_via_buffered(op, ok)

\* Header::decode and check_total_len: what a reader accepts.
Whole(f) ==
    /\ ~f.torn /\ DOMAIN f.cell = 0..(MetaAt + 1)
    /\ \A o \in DOMAIN f.cell : f.cell[o] = [by |-> f.cell[0].by, what |-> Piece(o)]
Uploader(f) == f.cell[0].by
-----------------------------------------------------------------------------
(* Sending and answering.                                                  *)

dispatch_for_key(k, c) == shard.key[k]

Resting(prog, id, n) == [pc |-> "idle", prog |-> prog, id |-> id, n |-> n, wait |-> FALSE, reply |-> "none",
                         mark |-> FALSE, pos |-> 1, cur |-> 0, end |-> 0, stamp |-> 0]

\* A finished or dropped request makes room for the client's next one.
Finish(r) == Resting(Tail(r.prog), [r.id EXCEPT !.i = @ + 1], r.n)

Req(c)        == Head(call[c].prog)
Key(c)        == Req(c).key
Effects       == {"Put", "Delete", "StreamRename"}
Waits(c, pc)  == call[c].pc = pc /\ ~call[c].wait
Heard(c, pc)  == call[c].pc = pc /\ call[c].wait /\ call[c].reply # "none"
Step(c, pc)   == [call[c] EXCEPT !.pc = pc, !.wait = FALSE, !.reply = "none"]
Becomes(c, r) == call' = [call EXCEPT ![c] = r]

\* The operation is sent and its answer awaited; the channel of a worker that is gone refuses it.
dispatch(c, r, kind, off, what) ==
    LET w  == dispatch_for_key(Key(c), c)
        st == IF kind \in Effects THEN past[Key(c)].sent + 1 ELSE past[Key(c)].acked
        op == [kind |-> kind, key |-> Key(c), id |-> r.id, by |-> c, n |-> r.n + 1, off |-> off, what |-> what,
               dur |-> Req(c).dur, large |-> Req(c).large, stamp |-> st]
    IN /\ Becomes(c, [r EXCEPT !.n = @ + 1, !.wait = TRUE, !.stamp = st, !.reply = IF w \in alive THEN "none" ELSE "refused"])
       /\ queue' = IF w \in alive THEN [queue EXCEPT ![w] = Append(@, op)] ELSE queue
       /\ past' = IF kind \in Effects THEN [past EXCEPT ![Key(c)].sent = st] ELSE past
       /\ UNCHANGED <<shard, work, alive>>

NoAnswer == [st |-> "none", id |-> Nobody]
NoScan == [pc |-> "idle", walk |-> {}, files |-> {}, sent |-> <<>>, got |-> [k \in UKeys |-> NoAnswer], seen |-> {}, rows |-> {}, runs |-> 0]

\* reply.send: nobody listens once the request was dropped.
Reply(op, value) ==
    IF op.by = "scan"
    THEN /\ scan' = [scan EXCEPT !.got[op.key] = [st |-> value, id |-> IF value = "ok" THEN Uploader(obj[op.key]) ELSE Nobody]]
         /\ UNCHANGED call
    ELSE /\ call' = IF call[op.by].wait /\ call[op.by].n = op.n THEN [call EXCEPT ![op.by].reply = value] ELSE call
         /\ UNCHANGED scan
-----------------------------------------------------------------------------
(* Storage for UringStorage: get, describe, put, delete.                   *)

OpOf == [get |-> "Get", describe |-> "Describe", put |-> "Put", delete |-> "Delete"]

Request(c) ==
    /\ Waits(c, "idle") /\ call[c].prog # <<>> /\ pool = "open"
    /\ Req(c).op \in DOMAIN OpOf
    /\ dispatch(c, [call[c] EXCEPT !.pc = Req(c).op], OpOf[Req(c).op], 0, "")
    /\ UNCHANGED <<files, scan, pool, faults>>

GetDone(c) ==
    /\ Heard(c, "get") \/ Heard(c, "describe")
    /\ Becomes(c, Finish(call[c]))
    /\ UNCHANGED <<files, threads, scan, pool, past, faults>>

\* put and delete change the index once the worker has answered, with no lock held.
Changed(c) ==
    /\ Heard(c, "put") \/ Heard(c, "delete")
    /\ Becomes(c, IF call[c].reply \in {"ok", "fallback"} THEN [Step(c, "row") EXCEPT !.mark = call[c].reply = "fallback"]
                  ELSE Finish(call[c]))
    /\ UNCHANGED <<files, threads, scan, pool, past, faults>>

\* index.upsert or index.remove, and the request is acknowledged.
Acknowledge(c) ==
    LET k == Key(c)
        p == past[k]
        later == IF p.acked < call[c].stamp THEN call[c].stamp ELSE p.acked
    IN
    /\ Waits(c, "row")
    /\ rows' = [rows EXCEPT ![k] = IF Req(c).op = "delete" THEN Nobody ELSE [id |-> call[c].id, mark |-> call[c].mark]]
    /\ past' = [past EXCEPT ![k] = [p EXCEPT !.touched = TRUE, !.acked = later,
                                             !.kept = IF Req(c).dur /\ call[c].stamp > p.kept THEN call[c].stamp ELSE @]]
    /\ Becomes(c, IF Req(c).op = "stream" THEN Step(c, "drop") ELSE Finish(call[c]))
    /\ UNCHANGED <<obj, tmp, safe, held, threads, scan, pool, faults>>
-----------------------------------------------------------------------------
(* begin_streaming_put, UringStreamingWriter, UringStreamingPutGuard.      *)

\* An existing file is read for its created stamp, before the lock.
StreamStat(c) ==
    /\ Waits(c, "idle") /\ call[c].prog # <<>> /\ pool = "open"
    /\ Req(c).op = "stream"
    /\ IF obj[Key(c)] # Nobody THEN dispatch(c, [call[c] EXCEPT !.pc = "prior"], "ReadObjectMeta", 0, "")
       ELSE Becomes(c, Step(c, "lock")) /\ UNCHANGED <<threads, past>>
    /\ UNCHANGED <<files, scan, pool, faults>>

\* Whatever the read says the PUT goes on, unless it could not be sent.
PriorRead(c) ==
    /\ Heard(c, "prior")
    /\ Becomes(c, IF call[c].reply = "refused" THEN Finish(call[c]) ELSE Step(c, "lock"))
    /\ UNCHANGED <<files, threads, scan, pool, past, faults>>

\* try_acquire, then StreamCreate with the placeholder header.
StreamLock(c) ==
    LET k == Key(c) IN
    /\ Waits(c, "lock")
    /\ IF held[k] = Nobody
       THEN held' = [held EXCEPT ![k] = call[c].id] /\ dispatch(c, [call[c] EXCEPT !.pc = "create"], "StreamCreate", 0, "blank")
       ELSE Becomes(c, Finish(call[c])) /\ UNCHANGED <<held, threads, past>>
    /\ UNCHANGED <<obj, tmp, safe, rows, scan, pool, faults>>

\* The writer starts behind the header.  Without a guard an error only releases the lock.
StreamCreated(c) ==
    /\ Heard(c, "create")
    /\ Becomes(c, [Step(c, IF call[c].reply = "ok" THEN "stream" ELSE "unlock") EXCEPT !.cur = 1, !.end = 1])
    /\ UNCHANGED <<files, threads, scan, pool, past, faults>>

\* EncryptSession and commit: preamble, chunks, the patch of the length, metadata and trailer, header, fdatasync, rename.
Writes_(dur) ==
    <<[kind |-> "StreamWrite", at |-> "cur", what |-> "open"]>>
    \o [i \in 1..Chunks |-> [kind |-> "StreamWrite", at |-> "cur", what |-> "chunk"]]
    \o <<[kind |-> "StreamWrite", at |-> "preamble", what |-> "preamble"],
         [kind |-> "StreamWrite", at |-> "end", what |-> "meta"],
         [kind |-> "StreamWrite", at |-> "cur", what |-> "trailer"],
         [kind |-> "StreamWrite", at |-> "header", what |-> "header"]>>
    \o (IF dur THEN <<[kind |-> "StreamSyncData", at |-> "cur", what |-> ""]>> ELSE <<>>)
    \o <<[kind |-> "StreamRename", at |-> "cur", what |-> ""]>>

seek_to_end(r) == r.end
Offset(r, at) == CASE at = "header" -> 0 [] at = "preamble" -> 1 [] at = "end" -> seek_to_end(r) [] OTHER -> r.cur

Stream(c) ==
    LET s == Writes_(Req(c).dur)[call[c].pos]
    IN /\ Waits(c, "stream")
       /\ dispatch(c, call[c], s.kind, Offset(call[c], s.at), s.what)
       /\ UNCHANGED <<files, scan, pool, faults>>

\* write_all_at moves the cursor behind what it wrote and keeps the high-water mark.
Streamed(c) ==
    LET s   == Writes_(Req(c).dur)[call[c].pos]
        cur == Offset(call[c], s.at) + 1
        r   == IF s.kind = "StreamWrite"
               THEN [Step(c, "stream") EXCEPT !.cur = cur, !.end = IF cur > @ THEN cur ELSE @] ELSE Step(c, "stream")
    IN /\ Heard(c, "stream")
       /\ Becomes(c, IF call[c].reply # "ok" THEN Step(c, "drop")
                     ELSE IF s.kind = "StreamRename" THEN Step(c, "row") ELSE [r EXCEPT !.pos = @ + 1])
       /\ UNCHANGED <<files, threads, scan, pool, past, faults>>

\* Drop of the guard: the staging file goes first, the lock with the fields.
GuardDrop(c) ==
    /\ Waits(c, "drop")
    /\ tmp' = [tmp EXCEPT ![Key(c)] = Nobody]
    /\ Becomes(c, Step(c, "unlock"))
    /\ UNCHANGED <<obj, safe, held, rows, threads, scan, pool, past, faults>>

LockDrop(c) ==
    /\ Waits(c, "unlock")
    /\ held' = [held EXCEPT ![Key(c)] = Nobody]
    /\ Becomes(c, Finish(call[c]))
    /\ UNCHANGED <<obj, tmp, safe, rows, threads, scan, pool, past, faults>>

\* The client goes away and the request is dropped at an await.
Dropped(c) ==
    /\ faults.drop > 0 /\ faults' = [faults EXCEPT !.drop = @ - 1]
    /\ call[c].wait \/ call[c].pc \in {"stream", "row"}
    /\ LET owner == call[c].pc = "stream" \/ (call[c].pc = "row" /\ Req(c).op = "stream")
       IN Becomes(c, IF owner THEN Step(c, "drop") ELSE IF call[c].pc = "create" THEN Step(c, "unlock") ELSE Finish(call[c]))
    /\ UNCHANGED <<files, threads, scan, pool, past>>
-----------------------------------------------------------------------------
(* worker_main and the handlers of ops.rs.                                 *)

Faulty == faults.io > 0 /\ faults' = [faults EXCEPT !.io = @ - 1]

\* Outcomes of the reading handlers.
do_get(op) == IF held[op.key] # Nobody THEN "locked" ELSE IF obj[op.key] = Nobody THEN "missing"
              ELSE IF Whole(obj[op.key]) THEN "ok" ELSE "corrupt"
do_read_object_meta(op) == IF obj[op.key] # Nobody /\ Whole(obj[op.key]) THEN "ok" ELSE "corrupt"

\* The .obj entry changes; an effect is recorded with the place it had in the channel.
Effect(op, f) ==
    /\ obj' = [obj EXCEPT ![op.key] = f]
    /\ past' = [past EXCEPT ![op.key] = [@ EXCEPT !.eff = op.stamp, !.touched = TRUE]]
NoEffect == UNCHANGED <<obj, past>>

Take(w, kind) == w \in alive /\ work[w] = Nobody /\ queue[w] # <<>> /\ Head(queue[w]).kind \in kind
Popped(w) == queue' = [queue EXCEPT ![w] = Tail(@)] /\ UNCHANGED <<shard, alive, pool>>

HandleRead(w) ==
    LET op == Head(queue[w]) IN
    /\ Take(w, {"Get", "Describe", "ReadObjectMeta"}) /\ Popped(w)
    /\ Reply(op, IF op.kind = "ReadObjectMeta" THEN do_read_object_meta(op) ELSE do_get(op))
    /\ UNCHANGED <<files, work, past, faults>>

\* do_delete: the header must be good; the directory is not synced.
do_delete(w) ==
    LET op  == Head(queue[w])
        got == do_get(op)
    IN
    /\ Take(w, {"Delete"}) /\ Popped(w)
    /\ IF got = "ok" THEN Effect(op, Nobody) ELSE NoEffect
    /\ Reply(op, got)
    /\ UNCHANGED <<tmp, safe, held, rows, work, faults>>

\* do_put: the lock is tried on the worker and the whole file staged, a large payload with O_DIRECT where the file system
\* has it.
do_put(w) ==
    LET op == Head(queue[w]) IN
    /\ Take(w, {"Put"}) /\ Popped(w)
    /\ \/ /\ held[op.key] # Nobody
          /\ Reply(op, "locked") /\ UNCHANGED <<tmp, held, work, faults>>
       \/ /\ held[op.key] = Nobody
          /\ \E direct \in {FALSE, op.large} : tmp' = [tmp EXCEPT ![op.key] = WriteFile(op, direct, TRUE)]
          /\ held' = [held EXCEPT ![op.key] = op.id] /\ work' = [work EXCEPT ![w] = op]
          /\ UNCHANGED <<call, scan, faults>>
       \/ /\ held[op.key] = Nobody /\ Faulty
          /\ \E direct \in {FALSE, op.large} : tmp' = [tmp EXCEPT ![op.key] = WriteFile(op, direct, FALSE)]
          /\ Reply(op, "error") /\ UNCHANGED <<held, work>>
    /\ UNCHANGED <<obj, safe, rows, past>>

\* (mutant) The directory is not synced.
RenamedOnly(op) ==
    /\ Effect(op, [tmp[op.key] EXCEPT !.stamp = op.stamp])
    /\ tmp' = [tmp EXCEPT ![op.key] = Nobody]
    /\ UNCHANGED safe

\* A Durable rename is followed by an fsync of the directory.
Renamed(op) ==
    LET f == [tmp[op.key] EXCEPT !.stamp = op.stamp] IN
    /\ Effect(op, f)
    /\ tmp' = [tmp EXCEPT ![op.key] = Nobody]
    /\ safe' = IF op.dur THEN [safe EXCEPT ![op.key] = f] ELSE safe

\* finalize_rename_and_dir_fsync.  After a fallback to the buffered path the row says so; the metadata in the file was
\* encrypted before.
PutRename(w) ==
    LET op == work[w] IN
    /\ op # Nobody
    /\ \/ Renamed(op) /\ Reply(op, IF op.large /\ ~tmp[op.key].direct THEN "fallback" ELSE "ok") /\ UNCHANGED faults
       \/ Faulty /\ Reply(op, "error") /\ NoEffect /\ UNCHANGED <<tmp, safe>>
    /\ held' = [held EXCEPT ![op.key] = Nobody]
    /\ work' = [work EXCEPT ![w] = Nobody]
    /\ UNCHANGED <<shard, rows, queue, alive, pool>>

\* create and truncate; the placeholder header is written.
do_stream_create(w) ==
    LET op == Head(queue[w]) IN
    /\ Take(w, {"StreamCreate"}) /\ Popped(w)
    /\ tmp' = [tmp EXCEPT ![op.key] = [cell |-> [o \in {0} |-> [by |-> op.id, what |-> op.what]], direct |-> FALSE, synced |-> FALSE, torn |-> FALSE, stamp |-> 0]]
    /\ \/ Reply(op, "ok") /\ UNCHANGED faults
       \/ Reply(op, "error") /\ Faulty
    /\ UNCHANGED <<obj, safe, held, rows, work, past>>

\* The path is opened for every write, without create.
do_stream_write(w) ==
    LET op == Head(queue[w])
        f  == tmp[op.key]
    IN
    /\ Take(w, {"StreamWrite"}) /\ Popped(w)
    /\ \/ f = Nobody /\ Reply(op, "gone") /\ UNCHANGED <<tmp, faults>>
       \/ /\ f # Nobody
          /\ tmp' = [tmp EXCEPT ![op.key] = [f EXCEPT !.cell = (op.off :> [by |-> op.id, what |-> op.what]) @@ @, !.synced = FALSE]]
          /\ Reply(op, "ok") /\ UNCHANGED faults
       \/ f # Nobody /\ Faulty /\ Reply(op, "error") /\ UNCHANGED tmp
    /\ UNCHANGED <<obj, safe, held, rows, work, past>>

do_stream_sync_data(w) ==
    LET op == Head(queue[w]) IN
    /\ Take(w, {"StreamSyncData"}) /\ Popped(w)
    /\ \/ tmp[op.key] = Nobody /\ Reply(op, "gone") /\ UNCHANGED <<tmp, faults>>
       \/ tmp[op.key] # Nobody /\ tmp' = [tmp EXCEPT ![op.key].synced = TRUE] /\ Reply(op, "ok") /\ UNCHANGED faults
       \/ tmp[op.key] # Nobody /\ Faulty /\ Reply(op, "error") /\ UNCHANGED tmp
    /\ UNCHANGED <<obj, safe, held, rows, work, past>>

do_stream_rename(w) ==
    LET op == Head(queue[w]) IN
    /\ Take(w, {"StreamRename"}) /\ Popped(w)
    /\ IF tmp[op.key] = Nobody THEN Reply(op, "gone") /\ NoEffect /\ UNCHANGED <<tmp, safe>>
       ELSE Renamed(op) /\ Reply(op, "ok")
    /\ UNCHANGED <<held, rows, work, faults>>

\* The ring of the next burst cannot be set up and the thread ends: the operation in hand is dropped, what is queued
\* behind it is dropped with the channel or stays in it.
WorkerDies(w) ==
    /\ w \in alive /\ work[w] = Nobody /\ queue[w] # <<>>
    /\ faults.die > 0 /\ faults' = [faults EXCEPT !.die = @ - 1]
    /\ alive' = alive \ {w} /\ queue' = [queue EXCEPT ![w] = <<>>]
    /\ \E n \in {1, Len(queue[w])} :
         LET lost == {queue[w][i] : i \in 1..n}
         IN /\ call' = [c \in Callers |-> IF \E op \in lost : op.by = c /\ call[c].wait /\ call[c].n = op.n
                                          THEN [call[c] EXCEPT !.reply = "closed"] ELSE call[c]]
            /\ scan' = [scan EXCEPT !.got = [k \in UKeys |-> IF \E op \in lost : op.by = "scan" /\ op.key = k
                                                             THEN [NoAnswer EXCEPT !.st = "corrupt"] ELSE scan.got[k]]]
    /\ UNCHANGED <<files, shard, work, pool, past>>

Worker(w) ==
    \/ HandleRead(w) \/ do_delete(w) \/ do_put(w) \/ PutRename(w)
    \/ do_stream_create(w) \/ do_stream_write(w) \/ do_stream_sync_data(w) \/ do_stream_rename(w)
-----------------------------------------------------------------------------
(* rebuild_cache and run_rebuild.                                          *)

rebuild_cache ==
    /\ scan.pc \in {"idle", "completed"} /\ scan.runs < faults.scans /\ pool = "open"
    /\ scan' = [NoScan EXCEPT !.pc = "walk", !.walk = UKeys, !.runs = scan.runs + 1]
    /\ past' = [k \in UKeys |-> [past[k] EXCEPT !.touched = FALSE]]
    /\ UNCHANGED <<files, threads, call, pool, faults>>

\* collect_obj_files, one directory after the other.
collect_obj_files ==
    /\ scan.pc = "walk"
    /\ IF scan.walk = {} THEN scan' = [scan EXCEPT !.pc = "send"]
       ELSE \E k \in scan.walk : scan' = [scan EXCEPT !.walk = @ \ {k}, !.files = IF obj[k] # Nobody THEN @ \cup {k} ELSE @]
    /\ UNCHANGED <<files, threads, call, pool, past, faults>>

\* A batch of reads, each to the worker its path hashes to; a closed channel ends the rebuild.
ScanSend ==
    /\ scan.pc = "send"
    /\ IF scan.files = {} THEN scan' = [scan EXCEPT !.pc = "rows"] /\ UNCHANGED queue
       ELSE IF Len(scan.sent) = Batch THEN scan' = [scan EXCEPT !.pc = "drain"] /\ UNCHANGED queue
       ELSE \E k \in scan.files :
              LET w == shard.path[k]
                  op == [kind |-> "ReadObjectMeta", key |-> k, id |-> Nobody, by |-> "scan", n |-> 0, off |-> 0, what |-> "",
                         dur |-> FALSE, large |-> FALSE, stamp |-> 0]
              IN IF w \in alive
                 THEN /\ queue' = [queue EXCEPT ![w] = Append(@, op)]
                      /\ scan' = [scan EXCEPT !.files = @ \ {k}, !.sent = Append(@, k), !.pc = IF scan.files = {k} THEN "drain" ELSE @]
                 ELSE scan' = [NoScan EXCEPT !.runs = scan.runs] /\ UNCHANGED queue
    /\ UNCHANGED <<files, shard, work, alive, call, pool, past, faults>>

\* The answers are taken in the order of the batch: a row is upserted, a file that cannot be read is skipped.
ScanDrain ==
    /\ scan.pc = "drain"
    /\ IF scan.sent = <<>> THEN scan' = [scan EXCEPT !.pc = "send"] /\ UNCHANGED rows
       ELSE LET k == Head(scan.sent)
                rest == [scan EXCEPT !.sent = Tail(@), !.got[k] = NoAnswer]
            IN /\ scan.got[k].st # "none"
               /\ IF scan.got[k].st = "corrupt" THEN scan' = rest /\ UNCHANGED rows
                  ELSE scan' = [rest EXCEPT !.seen = @ \cup {k}] /\ rows' = [rows EXCEPT ![k] = [id |-> scan.got[k].id, mark |-> FALSE]]
    /\ UNCHANGED <<obj, tmp, safe, held, threads, call, pool, past, faults>>

ScanStale == {k \in UKeys : rows[k] # Nobody /\ k \notin scan.seen}

\* list_all_keys, then the rows of files that were not seen go one by one.
ScanSweep ==
    /\ \/ scan.pc = "rows" /\ scan' = [scan EXCEPT !.pc = "sweep", !.rows = ScanStale] /\ UNCHANGED rows
       \/ /\ scan.pc = "sweep" /\ scan.rows # {}
          /\ \E k \in scan.rows : rows' = [rows EXCEPT ![k] = Nobody] /\ scan' = [scan EXCEPT !.rows = @ \ {k}]
       \/ scan.pc = "sweep" /\ scan.rows = {} /\ scan' = [NoScan EXCEPT !.pc = "completed", !.runs = scan.runs] /\ UNCHANGED rows
    /\ UNCHANGED <<obj, tmp, safe, held, threads, call, pool, past, faults>>

Scan == collect_obj_files \/ ScanSend \/ ScanDrain \/ ScanSweep
-----------------------------------------------------------------------------
\* The storage is dropped.  Requests borrow it and the rebuild shares the pool; a streaming PUT has only its sender.
DropPool ==
    /\ pool = "open" /\ scan.pc \in {"idle", "completed"}
    /\ \A c \in Callers : call[c].pc \in {"idle", "stream", "row", "drop", "unlock"}
    /\ pool' = "closing"
    /\ UNCHANGED <<files, threads, call, scan, past, faults>>

\* (mutant) The pool joins with its own senders still open.
JoinWithSenders ==
    /\ pool = "closing" /\ alive = {}
    /\ pool' = "joined"
    /\ UNCHANGED <<files, threads, call, scan, past, faults>>

\* The threads are joined: a channel is closed when its last sender is gone and it is empty.
JoinPool ==
    /\ pool = "closing"
    /\ \A w \in Workers : queue[w] = <<>> /\ work[w] = Nobody
    /\ \A c \in Callers : call[c].pc \in {"idle", "drop", "unlock"}
    /\ pool' = "joined"
    /\ UNCHANGED <<files, threads, call, scan, past, faults>>

\* The daemon ends with all it has in memory.  A loss of power also takes directory entries and bytes that were not synced.
Crashed(power) ==
    /\ faults.crash > 0 /\ faults' = [faults EXCEPT !.crash = @ - 1]
    /\ \E lost \in IF power THEN SUBSET UKeys ELSE {{}} :
         /\ obj' = [k \in UKeys |-> LET f == IF k \in lost THEN safe[k] ELSE obj[k]
                                    IN IF f # Nobody /\ power THEN [f EXCEPT !.torn = @ \/ ~f.synced] ELSE f]
         /\ past' = [k \in UKeys |-> [past[k] EXCEPT !.touched = TRUE, !.acked = IF power THEN 0 ELSE @]]
    /\ safe' = IF power THEN obj' ELSE safe
    /\ call' = [c \in Callers |-> IF call[c].pc = "idle" THEN call[c] ELSE Finish(call[c])]
    /\ held' = [k \in UKeys |-> Nobody]
    /\ queue' = [w \in Workers |-> <<>>] /\ work' = [w \in Workers |-> Nobody] /\ alive' = Workers
    /\ scan' = [NoScan EXCEPT !.runs = scan.runs] /\ pool' = "open"
    /\ UNCHANGED <<shard, tmp, rows>>

Caller(c) ==
    \/ GetDone(c) \/ Changed(c) \/ Acknowledge(c) \/ PriorRead(c) \/ StreamLock(c) \/ StreamCreated(c)
    \/ Stream(c) \/ Streamed(c) \/ GuardDrop(c) \/ LockDrop(c)

UringNext ==
    \/ \E c \in Callers : Caller(c) \/ Request(c) \/ StreamStat(c) \/ Dropped(c)
    \/ \E w \in Workers : Worker(w) \/ WorkerDies(w)
    \/ rebuild_cache \/ Scan \/ DropPool \/ JoinPool
    \/ \E power \in BOOLEAN : Crashed(power)

\* d.prog: the requests of every client, d.key and d.path: the hashes, d.faults: what may go wrong.
UringInit(d) ==
    /\ shard = [key |-> d.key, path |-> d.path]
    /\ obj = [k \in UKeys |-> Nobody] /\ tmp = obj /\ safe = obj /\ held = obj /\ rows = obj
    /\ queue = [w \in Workers |-> <<>>] /\ work = [w \in Workers |-> Nobody] /\ alive = Workers
    /\ call = [c \in Callers |-> Resting(d.prog[c], [c |-> c, i |-> 1], 0)]
    /\ scan = NoScan /\ pool = "open"
    /\ past = [k \in UKeys |-> [sent |-> 0, eff |-> 0, acked |-> 0, kept |-> 0, touched |-> FALSE]]
    /\ faults = d.faults

\* The threads run, the runtime polls its tasks, and DropPool's join returns when it can.
Progress == (\E c \in Callers : Caller(c)) \/ (\E w \in Workers : Worker(w)) \/ Scan \/ JoinPool
-----------------------------------------------------------------------------
\* An object file is one upload's, complete and in its layout (do_put, commit), also when earlier uploads of the key were
\* dropped with writes in the channel; only a loss of power can tear it, and only one that was not synced.
WholeObjects == \A k \in UKeys : obj[k] # Nobody => Whole(obj[k]) \/ (obj[k].torn /\ ~obj[k].synced)

\* A request finds at least what was acknowledged before it was sent (per-key order of dispatch_for_key): the effect its
\* answer reflects was not sent before the acknowledged one.
ReadsAcked ==
    \A w \in Workers : queue[w] # <<>> /\ w \in alive =>
        LET op == Head(queue[w]) IN op.kind \in {"Get", "Describe"} => past[op.key].eff >= op.stamp

\* An acknowledged Durable PUT that is the last change of its key is there, whole, also after a loss of power.
DurableSurvives ==
    \A k \in UKeys : past[k].kept # 0 /\ past[k].kept = past[k].eff => obj[k] # Nobody /\ Whole(obj[k]) /\ obj[k].stamp = past[k].kept

\* When a rebuild completes, the row of every key that no request changed meanwhile is its file's, unless a worker ended.
RebuildExact ==
    scan.pc = "completed" /\ alive = Workers => \A k \in UKeys : ~past[k].touched =>
        IF obj[k] = Nobody \/ ~Whole(obj[k]) THEN rows[k] = Nobody ELSE rows[k] # Nobody /\ rows[k].id = Uploader(obj[k])

\* What was acknowledged is there, for every later request, rebuild and restart.
AckedIsThere == WholeObjects /\ ReadsAcked /\ DurableSurvives /\ RebuildExact

\* A request that waits is answered or dropped, unless the worker of its key has ended.
EveryAskAnswered == \A c \in Callers : call[c].wait ~> (~call[c].wait \/ call[c].reply # "none" \/ alive # Workers)

\* Dropping the pool ends: the join waits for streaming PUTs, and these end.
PoolJoins == pool = "closing" ~> (pool # "closing" \/ alive # Workers)

\* The pool always answers: every request, and its own drop.
PoolLive == EveryAskAnswered /\ PoolJoins
=============================================================================
