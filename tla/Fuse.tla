-------------------------------- MODULE Fuse --------------------------------
(***************************************************************************)
(* The FUSE driver (y2q-fuse/src/fs.rs) on a single-bucket mount: inode    *)
(* table, open handles with their write buffers, driver-local directories, *)
(* and the requests the four dispatch threads run.  A handler that leaves  *)
(* a lock or waits for the daemon is several actions of its thread; the    *)
(* daemon is the map srv, and any call to it may fail.                     *)
(* A body is a sequence of write numbers (0: zero fill).  An object path   *)
(* is <<directory, name>>, a directory path <<name>>, the root <<>>.       *)
(***************************************************************************)
EXTENDS InodeTable, Sequences, FiniteSetsExt, TLC

CONSTANTS
    Dirs, Names,       \* directories of the bucket, names in a directory
    Labels,            \* label names
    Threads,           \* dispatch threads
    MaxLen,            \* bound: length of a body
    MaxWr,             \* bound: writes
    MaxFh,             \* bound: handles ever opened
    MaxFail,           \* bound: failed calls to the daemon
    Mixes,             \* which requests run together, and the bounds within these
    None

Top == ""
Keys == ({Top} \cup Dirs) \X Names
Bodies == UNION {[1..n -> 0..MaxWr] : n \in 0..MaxLen}
Objects == [body : Bodies, lab : SUBSET Labels]
Meta(obj) == [size |-> Len(obj.body), lab |-> obj.lab]

ASSUME FuseAssumption ==
    /\ Top \notin Dirs /\ Root = <<>>
    /\ Paths = {Root} \cup {<<d>> : d \in Dirs} \cup Keys
    /\ Metas = [size : 0..MaxLen, lab : SUBSET Labels]

VARIABLES
    srv,               \* objects on the daemon, None where there is none
    localDirs,         \* directories made by mkdir
    hs,                \* open handles, None: not open
    fhs,               \* handles opened so far
    op,                \* the request each thread is in
    wr,                \* writes so far
    fails,             \* failed calls so far
    cut,               \* (ghost) cut[h][p]: the last write a truncate has removed from position p of handle h
    traffic            \* the mix of this behaviour

fuseVars == <<table, srv, localDirs, hs, fhs, op, wr, fails, cut, traffic>>

Fhs == 1..MaxFh
Idle == [pc |-> "idle"]
Quiet == \A t \in Threads : op[t] = Idle
Open(h) == hs[h] # None
Writable(h) == Open(h) /\ hs[h].buf # None
PutPending(h) == Writable(h) /\ hs[h].dirty /\ ~hs[h].flushed
Known(p) == table.byPath[p] # 0
InoOf(p) == table.byPath[p]
PathOf(i) == table.byIno[i]
DirKnown(d) == d # Top => Known(<<d>>)
Size(i) == table.meta[i].size

\* The request may start: the thread is free and the mix has such requests.
Starts(t, kind) == op[t] = Idle /\ t <= traffic.threads /\ kind \in traffic.ops

\* The kernel holds a directory's lock while a request changes its entries (shared for lookup and readdir).
Holds(o) == IF "holds" \in DOMAIN o THEN o.holds
            ELSE IF "back" \in DOMAIN o /\ o.back # Idle THEN o.back.holds ELSE {}
DirFree(d) == \A u \in Threads : d \notin Holds(op[u]) /\ (op[u].pc = "seen" => op[u].dir # d)
DirReadable(d) == DirKnown(d) /\ \A u \in Threads : d \notin Holds(op[u])

Resize(body, n) == [p \in 1..n |-> IF p <= Len(body) THEN body[p] ELSE 0]
Overwrite(body, p, w) == [q \in 1..(IF p > Len(body) THEN p ELSE Len(body)) |->
                             IF q = p THEN w ELSE IF q <= Len(body) THEN body[q] ELSE 0]

\* InodeTable::set_size: keeps the other cached fields, or leaves a stub without labels.
SetSize(t, i, n) ==
    SetMeta(t, i, IF t.meta[i] = NoMeta THEN [size |-> n, lab |-> {}] ELSE [t.meta[i] EXCEPT !.size = n], TRUE)
Invalidate(t, i) == SetMeta(t, i, t.meta[i], FALSE)
NoteWritten(t, i, n) == Invalidate(SetSize(t, i, n), i)
ShrinkCachedSize(t, i, n) ==
    IF t.byIno[i] # NoPath /\ t.meta[i] # NoMeta /\ n < t.meta[i].size THEN SetSize(t, i, n) ELSE t

FuseInit ==
    /\ traffic \in Mixes
    /\ table = NewTable
    /\ srv = [k \in Keys |-> IF k \in traffic.stored THEN [body |-> <<0>>, lab |-> traffic.lab] ELSE None]
    /\ localDirs = {} /\ fhs = 0 /\ wr = 0 /\ fails = 0
    /\ hs = [h \in Fhs |-> None]
    /\ op = [t \in Threads |-> Idle]
    /\ cut = [h \in Fhs |-> [p \in 1..MaxLen |-> 0]]

\* A call to the daemon fails; `next` is what the handler does then.
CallFails(t, next) ==
    /\ fails < traffic.fails /\ fails' = fails + 1
    /\ op' = [op EXCEPT ![t] = next]

-----------------------------------------------------------------------------
(* lookup and readdir: HEAD or list, then one entry of the answer after    *)
(* the other into the table.                                               *)

Listed(d) == {k \in Keys : k[1] = d /\ srv[k] # None}

Lookup(t, k) ==
    /\ Starts(t, "lookup") /\ DirReadable(k[1]) /\ srv[k] # None
    /\ op' = [op EXCEPT ![t] = [pc |-> "seen", dir |-> k[1], seen |-> [x \in {k} |-> srv[x]]]]
    /\ UNCHANGED <<table, srv, localDirs, hs, fhs, wr, fails, cut, traffic>>

\* A name that HEAD does not know is a directory when a key is listed under it or mkdir made it.
LookupDir(t, d) ==
    /\ Starts(t, "lookup") /\ DirReadable(Top) /\ HasRoom(table)
    /\ Listed(d) # {} \/ d \in localDirs
    /\ table' = GetOrAssign(table, <<d>>)
    /\ UNCHANGED <<srv, localDirs, hs, fhs, op, wr, fails, cut, traffic>>

Readdir(t, d) ==
    /\ Starts(t, "readdir") /\ DirReadable(d) /\ Listed(d) # {}
    /\ op' = [op EXCEPT ![t] = [pc |-> "seen", dir |-> d, seen |-> [x \in Listed(d) |-> srv[x]]]]
    /\ UNCHANGED <<table, srv, localDirs, hs, fhs, wr, fails, cut, traffic>>

SeenApply(t) ==
    /\ op[t].pc = "seen" /\ HasRoom(table)
    /\ \E k \in DOMAIN op[t].seen :
         LET assigned == GetOrAssign(table, k)
             rest == DOMAIN op[t].seen \ {k}
         IN  /\ table' = SetMeta(assigned, assigned.byPath[k], Meta(op[t].seen[k]), TRUE)
             /\ op' = [op EXCEPT ![t] = IF rest = {} THEN Idle
                                        ELSE [@ EXCEPT !.seen = [x \in rest |-> op[t].seen[x]]]]
    /\ UNCHANGED <<srv, localDirs, hs, fhs, wr, fails, cut, traffic>>

\* getattr, getxattr and listxattr of an object whose metadata is not fresh.
GetAttr(t, i) ==
    /\ Starts(t, "getattr") /\ PathOf(i) \in Keys /\ ~table.fresh[i] /\ srv[PathOf(i)] # None
    /\ op' = [op EXCEPT ![t] = [pc |-> "attr", ino |-> i, obj |-> srv[PathOf(i)]]]
    /\ UNCHANGED <<table, srv, localDirs, hs, fhs, wr, fails, cut, traffic>>

AttrApply(t) ==
    /\ op[t].pc = "attr"
    /\ table' = SetMeta(table, op[t].ino, Meta(op[t].obj), TRUE)
    /\ op' = [op EXCEPT ![t] = Idle]
    /\ UNCHANGED <<srv, localDirs, hs, fhs, wr, fails, cut, traffic>>

\* ATTR_TTL passes.
Expire(i) ==
    /\ "expire" \in traffic.ops /\ table.fresh[i]
    /\ table' = Invalidate(table, i)
    /\ UNCHANGED <<srv, localDirs, hs, fhs, op, wr, fails, cut, traffic>>

-----------------------------------------------------------------------------
(* open and create.                                                        *)

NewHandle(k, i, buf, dirty, lab) ==
    [key |-> k, ino |-> i, buf |-> buf, dirty |-> dirty, flushed |-> FALSE, lab |-> lab]

OpenRead(t, i) ==
    /\ Starts(t, "read") /\ PathOf(i) \in Keys /\ fhs < traffic.fhs
    /\ hs' = [hs EXCEPT ![fhs + 1] = NewHandle(PathOf(i), i, None, FALSE, {})]
    /\ fhs' = fhs + 1
    /\ UNCHANGED <<table, srv, localDirs, op, wr, fails, cut, traffic>>

CachedLabels(i) == IF table.meta[i] = NoMeta THEN {} ELSE table.meta[i].lab

\* A writable open seeds its buffer with GET; one that truncates starts empty and dirty.
OpenStart(t, i, trunc) ==
    /\ Starts(t, IF trunc THEN "trunc" ELSE "write") /\ PathOf(i) \in Keys /\ fhs < traffic.fhs
    /\ op' = [op EXCEPT ![t] =
                [pc |-> "open", ino |-> i, key |-> PathOf(i), trunc |-> trunc, lab |-> CachedLabels(i),
                 body |-> IF trunc \/ srv[PathOf(i)] = None THEN <<>> ELSE srv[PathOf(i)].body]]
    /\ UNCHANGED <<table, srv, localDirs, hs, fhs, wr, fails, cut, traffic>>

\* Without cached labels, HEAD; a failure other than NotFound fails the open.
OpenHead(t) ==
    /\ op[t].pc = "open" /\ op[t].lab = {}
    /\ \/ /\ op' = [op EXCEPT ![t].pc = "opened", ![t].lab = IF srv[op[t].key] = None THEN {} ELSE srv[op[t].key].lab]
          /\ UNCHANGED fails
       \/ CallFails(t, Idle)
    /\ UNCHANGED <<table, srv, localDirs, hs, fhs, wr, cut, traffic>>

\* Every writable handle of the object is resized; only the initiator is marked for a PUT.
TruncateOpenBuffers(open, k, n, init) ==
    [h \in Fhs |->
        IF open[h] = None \/ open[h].key # k \/ open[h].buf = None THEN open[h]
        ELSE LET marked == h = init /\ (Len(open[h].buf) # n \/ open[h].dirty)
             IN  [open[h] EXCEPT !.buf = Resize(@, n), !.dirty = @ \/ marked, !.flushed = @ /\ ~marked]]

\* The ghost of a truncate: what the handles of k hold beyond n must not come back.
Cut(k, n) == cut' = [h \in Fhs |-> IF Writable(h) /\ hs[h].key = k
                                   THEN [p \in 1..MaxLen |-> IF p > n THEN wr ELSE cut[h][p]] ELSE cut[h]]

OpenInsert(t) ==
    /\ op[t].pc = "opened" \/ (op[t].pc = "open" /\ op[t].lab # {})
    /\ fhs < traffic.fhs /\ fhs' = fhs + 1
    /\ LET o == op[t]
           resized == IF o.trunc THEN TruncateOpenBuffers(hs, o.key, 0, fhs + 1) ELSE hs
       IN  /\ hs' = [resized EXCEPT ![fhs + 1] = NewHandle(o.key, o.ino, o.body, o.trunc, o.lab)]
           /\ table' = IF o.trunc THEN SetSize(table, o.ino, 0) ELSE table
           /\ IF o.trunc THEN Cut(o.key, 0) ELSE UNCHANGED cut
    /\ op' = [op EXCEPT ![t] = Idle]
    /\ UNCHANGED <<srv, localDirs, wr, fails, traffic>>

\* The kernel creates a name its lookup did not find.
Create(t, k) ==
    /\ Starts(t, "create") /\ DirKnown(k[1]) /\ DirFree(k[1]) /\ ~Known(k) /\ srv[k] = None /\ fhs < traffic.fhs /\ HasRoom(table)
    /\ table' = GetOrAssign(table, k)
    /\ hs' = [hs EXCEPT ![fhs + 1] = NewHandle(k, table.next, <<>>, TRUE, {})]
    /\ fhs' = fhs + 1
    /\ UNCHANGED <<srv, localDirs, op, wr, fails, cut, traffic>>

\* One unit at position p; the cached size follows the buffer.
Write(t, h, p) ==
    /\ op[t] = Idle /\ t <= traffic.threads /\ Writable(h) /\ wr < traffic.writes
    /\ LET buf == Overwrite(hs[h].buf, p, wr + 1)
       IN  /\ hs' = [hs EXCEPT ![h].buf = buf, ![h].dirty = TRUE, ![h].flushed = FALSE]
           /\ table' = SetSize(table, hs[h].ino, Len(buf))
    /\ wr' = wr + 1
    /\ UNCHANGED <<srv, localDirs, fhs, op, fails, cut, traffic>>

-----------------------------------------------------------------------------
(* flush_handle, for flush, fsync and a rename's dirty handles: the buffer *)
(* is claimed (flushed) under the lock and read while the PUT runs.        *)

FlushOf(h, ino, back) ==
    [pc |-> "flush", fh |-> h, ino |-> ino, key |-> hs[h].key, lab |-> hs[h].lab, size |-> Len(hs[h].buf),
     back |-> back]

Claimed(h) == [hs EXCEPT ![h].flushed = TRUE]

Flush(t, h) ==
    /\ op[t] = Idle /\ t <= traffic.threads /\ PutPending(h)
    /\ hs' = Claimed(h)
    /\ op' = [op EXCEPT ![t] = FlushOf(h, hs[h].ino, Idle)]
    /\ UNCHANGED <<table, srv, localDirs, fhs, wr, fails, cut, traffic>>

\* The body sent is what the file holds now; fewer bytes than announced fail the request.
FlushRead(t) ==
    /\ op[t].pc = "flush" /\ Open(op[t].fh)
    /\ LET o == op[t]
           buf == hs[o.fh].buf
       IN  op' = [op EXCEPT ![t] =
                    IF Len(buf) < o.size THEN [o EXCEPT !.pc = "failed"]
                    ELSE [pc |-> "put", fh |-> o.fh, ino |-> o.ino, key |-> o.key, size |-> o.size, back |-> o.back,
                          obj |-> [body |-> SubSeq(buf, 1, o.size), lab |-> o.lab]]]
    /\ UNCHANGED <<table, srv, localDirs, hs, fhs, wr, fails, cut, traffic>>

FlushPut(t) ==
    /\ op[t].pc = "put"
    /\ \/ /\ srv' = [srv EXCEPT ![op[t].key] = op[t].obj]
          /\ op' = [op EXCEPT ![t].pc = "stored"]
          /\ UNCHANGED fails
       \/ CallFails(t, [op[t] EXCEPT !.pc = "failed"]) /\ UNCHANGED srv
    /\ UNCHANGED <<table, localDirs, hs, fhs, wr, cut, traffic>>

FlushDone(t) ==
    /\ op[t].pc = "stored"
    /\ table' = NoteWritten(table, op[t].ino, op[t].size)
    /\ op' = [op EXCEPT ![t] = op[t].back]
    /\ UNCHANGED <<srv, localDirs, hs, fhs, wr, fails, cut, traffic>>

\* (mutant) The claim stays after a failed flush.
FlushFailedKept(t) ==
    /\ op[t].pc = "failed"
    /\ table' = Invalidate(table, op[t].ino)
    /\ op' = [op EXCEPT ![t] = Idle]
    /\ UNCHANGED <<srv, localDirs, hs, fhs, wr, fails, cut, traffic>>

\* A failed flush gives the claim back, so a retry or the release PUTs; a rename ends with the error.
FlushFailed(t) ==
    /\ op[t].pc = "failed"
    /\ hs' = IF Open(op[t].fh) THEN [hs EXCEPT ![op[t].fh].flushed = FALSE] ELSE hs
    /\ table' = Invalidate(table, op[t].ino)
    /\ op' = [op EXCEPT ![t] = Idle]
    /\ UNCHANGED <<srv, localDirs, fhs, wr, fails, cut, traffic>>

\* The last close: no request uses the handle any more.  An unflushed buffer is sent, best effort.
Release(t, h) ==
    /\ op[t] = Idle /\ t <= traffic.threads /\ Open(h)
    /\ \A u \in Threads : "fh" \in DOMAIN op[u] => op[u].fh # h
    /\ hs' = [hs EXCEPT ![h] = None]
    /\ op' = [op EXCEPT ![t] = IF ~PutPending(h) THEN Idle
                               ELSE [pc |-> "put", fh |-> h, ino |-> hs[h].ino, key |-> hs[h].key,
                                     size |-> Len(hs[h].buf), back |-> Idle,
                                     obj |-> [body |-> hs[h].buf, lab |-> hs[h].lab]]]
    /\ UNCHANGED <<table, srv, localDirs, fhs, wr, fails, cut, traffic>>

-----------------------------------------------------------------------------
(* setattr with a size.                                                    *)

\* A writable initiating handle: the truncate is in its buffer and reaches the daemon with its PUT.
TruncateBuffers(t, h, n) ==
    /\ Starts(t, "setattr") /\ Writable(h)
    /\ hs' = TruncateOpenBuffers(hs, hs[h].key, n, h)
    /\ table' = ShrinkCachedSize(table, hs[h].ino, n)
    /\ Cut(hs[h].key, n)
    /\ UNCHANGED <<srv, localDirs, fhs, op, wr, fails, traffic>>

\* Otherwise the object is rewritten first: HEAD, and GET when the size differs.
TruncateRemote(t, i, n) ==
    /\ Starts(t, "setattr") /\ PathOf(i) \in Keys
    /\ LET k == PathOf(i)
           pending == \E h \in Fhs : PutPending(h) /\ hs[h].key = k
           o == [ino |-> i, key |-> k, size |-> n, kept |-> srv[k] # None]
       IN  IF srv[k] = None /\ ~pending THEN UNCHANGED op
           ELSE op' = [op EXCEPT ![t] =
                         IF srv[k] = None \/ Len(srv[k].body) = n
                         THEN [pc |-> "cut"] @@ o
                         ELSE [pc |-> "rewrite", obj |-> [srv[k] EXCEPT !.body = Resize(@, n)]] @@ o]
    /\ UNCHANGED <<table, srv, localDirs, hs, fhs, wr, fails, cut, traffic>>

TruncatePut(t) ==
    /\ op[t].pc = "rewrite"
    /\ \/ /\ srv' = [srv EXCEPT ![op[t].key] = op[t].obj]
          /\ op' = [op EXCEPT ![t].pc = "cut"]
          /\ UNCHANGED fails
       \/ CallFails(t, Idle) /\ UNCHANGED srv
    /\ UNCHANGED <<table, localDirs, hs, fhs, wr, cut, traffic>>

TruncateDone(t) ==
    /\ op[t].pc = "cut"
    /\ LET o == op[t]
       IN  /\ hs' = TruncateOpenBuffers(hs, o.key, o.size, 0)
           /\ table' = IF o.kept THEN NoteWritten(table, o.ino, o.size) ELSE ShrinkCachedSize(table, o.ino, o.size)
           /\ Cut(o.key, o.size)
    /\ op' = [op EXCEPT ![t] = Idle]
    /\ UNCHANGED <<srv, localDirs, fhs, wr, fails, traffic>>

-----------------------------------------------------------------------------
(* unlink, mkdir, rmdir.                                                   *)

Unlink(t, k) ==
    /\ Starts(t, "unlink") /\ Known(k) /\ DirFree(k[1]) /\ srv[k] # None
    /\ srv' = [srv EXCEPT ![k] = None]
    /\ op' = [op EXCEPT ![t] = [pc |-> "unlinked", key |-> k, holds |-> {k[1]}]]
    /\ UNCHANGED <<table, localDirs, hs, fhs, wr, fails, cut, traffic>>

UnlinkDone(t) ==
    /\ op[t].pc = "unlinked" /\ HasRoom(table)
    /\ LET assigned == GetOrAssign(table, op[t].key)
       IN  table' = Remove(assigned, assigned.byPath[op[t].key])
    /\ op' = [op EXCEPT ![t] = Idle]
    /\ UNCHANGED <<srv, localDirs, hs, fhs, wr, fails, cut, traffic>>

Mkdir(t, d) ==
    /\ Starts(t, "mkdir") /\ DirFree(Top) /\ d \notin localDirs /\ Listed(d) = {} /\ HasRoom(table)
    /\ localDirs' = localDirs \cup {d}
    /\ table' = GetOrAssign(table, <<d>>)
    /\ UNCHANGED <<srv, hs, fhs, op, wr, fails, cut, traffic>>

Rmdir(t, d) ==
    /\ Starts(t, "rmdir") /\ DirFree(Top) /\ DirFree(d)
    /\ Known(<<d>>) \/ d \in localDirs
    /\ Listed(d) = {}
    /\ op' = [op EXCEPT ![t] = [pc |-> "rmdir", dir |-> d, holds |-> {Top, d}]]
    /\ UNCHANGED <<table, srv, localDirs, hs, fhs, wr, fails, cut, traffic>>

RmdirDone(t) ==
    /\ op[t].pc = "rmdir"
    /\ localDirs' = localDirs \ {op[t].dir}
    /\ table' = IF Known(<<op[t].dir>>) THEN Remove(table, InoOf(<<op[t].dir>>)) ELSE table
    /\ op' = [op EXCEPT ![t] = Idle]
    /\ UNCHANGED <<srv, hs, fhs, wr, fails, cut, traffic>>

-----------------------------------------------------------------------------
(* rename of a file: flush its dirty handles, copy from an open buffer or  *)
(* from the daemon, PUT the target, delete the source, move the handles    *)
(* and the inode.                                                          *)

RenameFile(t, src, dst) ==
    /\ Starts(t, "rename") /\ src # dst /\ DirKnown(dst[1]) /\ DirFree(src[1]) /\ DirFree(dst[1])
    /\ Known(src) /\ (srv[src] # None \/ \E h \in Fhs : Open(h) /\ hs[h].key = src)
    /\ LET users == {h \in Fhs : Open(h) /\ hs[h].key = src}
       IN  \E lab \in IF users = {} THEN {{}} ELSE {hs[h].lab : h \in users} :
             op' = [op EXCEPT ![t] = [pc |-> "move", src |-> src, dst |-> dst, holds |-> {src[1], dst[1]},
                                      todo |-> {h \in users : PutPending(h)}, lab |-> lab]]
    /\ UNCHANGED <<table, srv, localDirs, hs, fhs, wr, fails, cut, traffic>>

RenameFlush(t) ==
    /\ op[t].pc = "move"
    /\ \E h \in op[t].todo :
         LET rest == [op[t] EXCEPT !.todo = @ \ {h}]
         IN  IF PutPending(h)
             THEN hs' = Claimed(h) /\ op' = [op EXCEPT ![t] = FlushOf(h, InoOf(op[t].src), rest)]
             ELSE UNCHANGED hs /\ op' = [op EXCEPT ![t] = rest]
    /\ UNCHANGED <<table, srv, localDirs, fhs, wr, fails, cut, traffic>>

Moving(o, body, lab) ==
    [pc |-> "moving", src |-> o.src, dst |-> o.dst, holds |-> o.holds, obj |-> [body |-> body, lab |-> lab]]

\* An open buffer is the source when there is one; labels the handle does not have come from HEAD.
RenameCopy(t) ==
    /\ op[t].pc = "move" /\ op[t].todo = {}
    /\ LET o == op[t]
           bufs == {h \in Fhs : Writable(h) /\ hs[h].key = o.src}
           onServer == IF srv[o.src] = None THEN {} ELSE srv[o.src].lab
       IN  \/ \E h \in bufs :
                op' = [op EXCEPT ![t] = Moving(o, hs[h].buf, IF hs[h].lab = {} THEN onServer ELSE hs[h].lab)]
           \/ /\ bufs = {}
              /\ op' = [op EXCEPT ![t] = IF srv[o.src] = None THEN Idle
                                         ELSE Moving(o, srv[o.src].body, IF o.lab = {} THEN onServer ELSE o.lab)]
    /\ UNCHANGED <<table, srv, localDirs, hs, fhs, wr, fails, cut, traffic>>

RenamePut(t) ==
    /\ op[t].pc = "moving"
    /\ \/ /\ srv' = [srv EXCEPT ![op[t].dst] = op[t].obj]
          /\ op' = [op EXCEPT ![t].pc = "moved"]
          /\ UNCHANGED fails
       \/ CallFails(t, Idle) /\ UNCHANGED srv
    /\ UNCHANGED <<table, localDirs, hs, fhs, wr, cut, traffic>>

\* NotFound is fine for a file (it was never stored), an error inside a directory rename.
RenameDelete(t) ==
    /\ op[t].pc = "moved"
    /\ \/ /\ srv' = [srv EXCEPT ![op[t].src] = None]
          /\ op' = [op EXCEPT ![t] = IF "rest" \in DOMAIN @ /\ srv[op[t].src] = None THEN Idle
                                     ELSE [@ EXCEPT !.pc = "deleted"]]
          /\ UNCHANGED fails
       \/ CallFails(t, Idle) /\ UNCHANGED srv
    /\ UNCHANGED <<table, localDirs, hs, fhs, wr, cut, traffic>>

\* Open handles follow the object to its new key.
Rekey(src, dst) ==
    [h \in Fhs |-> IF Open(h) /\ hs[h].key = src THEN [hs[h] EXCEPT !.key = dst] ELSE hs[h]]

RenameDone(t) ==
    /\ op[t].pc = "deleted"
    /\ LET o == op[t]
       IN  /\ hs' = Rekey(o.src, o.dst)
           /\ table' = Repath(table, o.src, o.dst)
           /\ op' = [op EXCEPT ![t] = IF "rest" \in DOMAIN o THEN o.rest ELSE Idle]
    /\ UNCHANGED <<srv, localDirs, fhs, wr, fails, cut, traffic>>

-----------------------------------------------------------------------------
(* rename of a directory: every listed key is moved the same way, then the *)
(* driver-local directories and the inodes that remain under it.           *)

RenameDirectory(t, from, to) ==
    /\ Starts(t, "renamedir") /\ from # to /\ DirFree(Top) /\ DirFree(from) /\ DirFree(to)
    /\ Known(<<from>>) /\ Listed(to) = {}
    /\ op' = [op EXCEPT ![t] = [pc |-> "movedir", from |-> from, to |-> to, todo |-> Listed(from),
                                holds |-> {Top, from, to}]]
    /\ UNCHANGED <<table, srv, localDirs, hs, fhs, wr, fails, cut, traffic>>

RenameDirCopy(t) ==
    /\ op[t].pc = "movedir"
    /\ \E k \in op[t].todo :
         LET o == op[t]
         IN  op' = [op EXCEPT ![t] =
                      IF srv[k] = None THEN Idle
                      ELSE [rest |-> [o EXCEPT !.todo = @ \ {k}]]
                           @@ Moving([src |-> k, dst |-> <<o.to, k[2]>>, holds |-> o.holds], srv[k].body, srv[k].lab)]
    /\ UNCHANGED <<table, srv, localDirs, hs, fhs, wr, fails, cut, traffic>>

\* What is under the directory and was not listed is repathed (no handle is).
RepathAll(t, from, to) ==
    FoldSet(LAMBDA n, acc : Repath(acc, <<from, n>>, <<to, n>>), Repath(t, <<from>>, <<to>>), Names)

RenameDirDone(t) ==
    /\ op[t].pc = "movedir" /\ op[t].todo = {}
    /\ LET from == op[t].from
           to == op[t].to
       IN  /\ localDirs' = IF from \in localDirs THEN (localDirs \ {from}) \cup {to} ELSE localDirs
           /\ table' = RepathAll(table, from, to)
    /\ op' = [op EXCEPT ![t] = Idle]
    /\ UNCHANGED <<srv, hs, fhs, wr, fails, cut, traffic>>

-----------------------------------------------------------------------------
(* setxattr and removexattr of a label.                                    *)

\* The current labels come from fresh metadata, else from HEAD.
LabelRead(t, i, set, l) ==
    /\ Starts(t, "label") /\ PathOf(i) \in Keys
    /\ LET k == PathOf(i)
           cached == table.fresh[i] /\ table.meta[i] # NoMeta
           lab == IF cached THEN table.meta[i].lab ELSE srv[k].lab
       IN  /\ cached \/ srv[k] # None
           /\ set \/ l \in lab
           /\ table' = IF cached THEN table ELSE SetMeta(table, i, Meta(srv[k]), TRUE)
           /\ op' = [op EXCEPT ![t] = [pc |-> "label", ino |-> i, key |-> k, set |-> set, l |-> l, lab |-> lab]]
    /\ UNCHANGED <<srv, localDirs, hs, fhs, wr, fails, cut, traffic>>

\* Setting replaces the whole set, removing takes one label out.
LabelWrite(t) ==
    /\ op[t].pc = "label"
    /\ LET o == op[t]
           there == srv[o.key] # None
       IN  \/ /\ srv' = IF there THEN [srv EXCEPT ![o.key].lab = IF o.set THEN o.lab \cup {o.l} ELSE @ \ {o.l}] ELSE srv
              /\ op' = [op EXCEPT ![t] = IF there THEN [@ EXCEPT !.pc = "labelled"] ELSE Idle]
              /\ UNCHANGED fails
           \/ CallFails(t, Idle) /\ UNCHANGED srv
    /\ UNCHANGED <<table, localDirs, hs, fhs, wr, cut, traffic>>

LabelDone(t) ==
    /\ op[t].pc = "labelled"
    /\ table' = Invalidate(table, op[t].ino)
    /\ op' = [op EXCEPT ![t] = Idle]
    /\ UNCHANGED <<srv, localDirs, hs, fhs, wr, fails, cut, traffic>>

-----------------------------------------------------------------------------
FuseNext ==
    \/ \E t \in Threads :
         \/ \E k \in traffic.keys : Lookup(t, k) \/ Create(t, k) \/ Unlink(t, k)
         \/ \E d \in Dirs : LookupDir(t, d) \/ Mkdir(t, d) \/ Rmdir(t, d)
         \/ \E d \in {Top} \cup Dirs : Readdir(t, d)
         \/ \E i \in Inos :
              \/ GetAttr(t, i) \/ OpenRead(t, i)
              \/ \E trunc \in BOOLEAN : OpenStart(t, i, trunc)
              \/ \E n \in 0..MaxLen : TruncateRemote(t, i, n)
              \/ \E set \in BOOLEAN, l \in Labels : LabelRead(t, i, set, l)
         \/ \E h \in Fhs :
              \/ Flush(t, h) \/ Release(t, h)
              \/ \E p \in 1..MaxLen : Write(t, h, p)
              \/ \E n \in 0..MaxLen : TruncateBuffers(t, h, n)
         \/ \E src, dst \in traffic.keys : RenameFile(t, src, dst)
         \/ \E from, to \in Dirs : RenameDirectory(t, from, to)
         \/ SeenApply(t) \/ AttrApply(t) \/ OpenHead(t) \/ OpenInsert(t)
         \/ FlushRead(t) \/ FlushPut(t) \/ FlushDone(t) \/ FlushFailed(t)
         \/ TruncatePut(t) \/ TruncateDone(t) \/ UnlinkDone(t) \/ RmdirDone(t)
         \/ RenameFlush(t) \/ RenameCopy(t) \/ RenamePut(t) \/ RenameDelete(t) \/ RenameDone(t)
         \/ RenameDirCopy(t) \/ RenameDirDone(t)
         \/ LabelWrite(t) \/ LabelDone(t)
    \/ \E i \in Inos : Expire(i)

-----------------------------------------------------------------------------
(* What read answers: the handle's buffer, or a range of the object cut at *)
(* the cached size; the daemon refuses a range that ends past the object,  *)
(* which read turns into end of file.                                      *)

ComputeReadRange(start, n, cached) ==
    <<start, IF cached = None THEN start + n - 1 ELSE Min({start + n - 1, cached - 1})>>

Slice(body, range) == SubSeq(body, range[1] + 1, range[2] + 1)

ReadReply(h, start, n) ==
    LET f == hs[h]
        cached == IF f.buf # None THEN Len(f.buf) ELSE IF table.meta[f.ino] = NoMeta THEN None ELSE Size(f.ino)
        range == ComputeReadRange(start, n, cached)
    IN  IF cached # None /\ start >= cached THEN <<>>
        ELSE IF f.buf # None THEN Slice(f.buf, range)
        ELSE IF srv[f.key] = None \/ range[2] >= Len(srv[f.key].body) THEN <<>>
        ELSE Slice(srv[f.key].body, range)

-----------------------------------------------------------------------------

\* (truncate_open_buffers) Once a truncate has answered, the bytes it removed are in no write buffer that
\* was open then, whichever handle it came through, so no flush or close of those brings them back.
TruncSticks ==
    \A h \in Fhs : Writable(h) => \A p \in 1..Len(hs[h].buf) : hs[h].buf[p] = 0 \/ hs[h].buf[p] > cut[h][p]

\* (read, note_written, set_size) With no request in flight and no PUT pending, a read through any handle
\* without a buffer returns exactly the object's bytes in the range: the cached size it is cut at is right.
\* (Not after a failed PUT: that only takes the freshness away, which read ignores.)
ReadTrue ==
    Quiet /\ fails = 0 /\ (\A h \in Fhs : ~PutPending(h)) =>
        \A h \in Fhs : Open(h) /\ hs[h].buf = None /\ PathOf(hs[h].ino) = hs[h].key
                     /\ srv[hs[h].key] # None =>
            \A start \in 0..(MaxLen - 1), n \in 1..MaxLen :
                LET body == srv[hs[h].key].body
                IN  ReadReply(h, start, n) = SubSeq(body, start + 1, Min({start + n, Len(body)}))

\* (rename, rename_directory) With no request in flight, a handle's key is the path of its inode, so its
\* PUT goes where the file is now.
FollowsInode ==
    Quiet => \A h \in Fhs : Open(h) /\ PathOf(hs[h].ino) # NoPath => PathOf(hs[h].ino) = hs[h].key

\* (flush_handle, rename) With no request in flight and one handle ever opened, the bytes of a handle that
\* counts as flushed, and whose file has not been unlinked or replaced, are the ones stored under its key.
FlushedIsStored ==
    Quiet /\ fhs = 1 => \A h \in Fhs : Writable(h) /\ hs[h].dirty /\ hs[h].flushed /\ PathOf(hs[h].ino) # NoPath =>
        srv[hs[h].key] # None /\ srv[hs[h].key].body = hs[h].buf
=============================================================================
