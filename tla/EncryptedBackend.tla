-------------------------- MODULE EncryptedBackend --------------------------
(***************************************************************************)
(* The block-encrypted file under redb, translated from                    *)
(* crates/y2q-core/src/storage/encrypted_backend.rs.                       *)
(*                                                                         *)
(* Every call holds the backend's write lock, so calls do not interleave;  *)
(* what interrupts them is a kill of the process, a power loss or an I/O   *)
(* error.  A call is therefore planned as the file operations it performs  *)
(* (todo), which are executed one at a time.  Offsets are in cells,        *)
(* BlockSize cells to a block.  A seal is <<nonce, place, content>> with   *)
(* place 0 for the header and i + 1 for block i; a nonce is                *)
(* <<epoch, sequence>>, and the random nonces of version 1 have epoch 0.   *)
(***************************************************************************)
EXTENDS Naturals, Sequences, FiniteSets

CONSTANTS
    BlockSize, MaxLen, Vals,  \* cells per block, longest file, values written
    MaxU48,                   \* largest value of the 48-bit nonce fields
    ForeignFile,              \* "recreate" or "reject"
    Starts,                   \* what may be at the path first: "empty", "foreign", "legacy"
    Faults,                   \* of "kill", "power", "tear", "short", "error"
    MaxSeals,                 \* bound on the nonces drawn in one epoch
    MaxOpens, MaxOps,         \* bounds on the opens, and on the calls made
    Absent, Torn, Partial     \* nothing; an unreadable block; an incomplete last block

ASSUME SizeAssumption ==
    /\ BlockSize \in Nat \ {0} /\ MaxLen \in Nat /\ Vals \subseteq Nat
    /\ MaxU48 \in Nat /\ MaxSeals \in Nat /\ MaxOpens \in Nat /\ MaxOps \in Nat

\* What a version-1 or version-2 header seals, with its nonce.
Headers == (Nat \X Nat) \X {0} \X [version : {1, 2}, len : Nat, epoch : Nat, pending : {0, 1}]
ASSUME MarkAssumption == Absent # Torn /\ \A m \in {Absent, Torn} : m \notin Headers

VARIABLES
    file,      \* the file as the page cache has it: [hdr, blk]
    stable,    \* the file as of the last sync
    log,       \* the file operations since then
    medium,    \* history: seals that reached the medium
    status,    \* "closed", "opening", "open", or "lost" while a power loss takes effect
    epoch, seq, logicalLen,   \* the fields of Inner
    phys,      \* Inner.phys_len: whole blocks ...
    part,      \* ... and 1 if it ends inside a block
    todo,      \* the file operations the current call still has to do
    view,      \* what read returned before the current call
    opens, ops

inner == <<epoch, seq, logicalLen, phys, part>>
backendVars == <<file, stable, log, medium, status, inner, todo, view, opens, ops>>

Cells == 0..MaxLen - 1
Zero == [c \in 0..BlockSize - 1 |-> 0]
Max2(a, b) == IF a > b THEN a ELSE b
CeilDiv(a, b) == (a + b - 1) \div b

-----------------------------------------------------------------------------
(* The file.                                                               *)

EmptyFile == [hdr |-> Absent, blk |-> <<>>]

\* A block written past the end leaves a hole, and completes nothing.
PutAt(f, at, block) ==
    [f EXCEPT !.blk = [i \in 1..Max2(Len(@), at) |->
        IF i = at THEN block
        ELSE IF i <= Len(f.blk) /\ f.blk[i] # Partial THEN f.blk[i] ELSE Torn]]

\* One logged operation: a seal written whole, torn by a power loss or cut short by
\* a full disk; a change of the length; or one the power loss undid.
Apply(f, e) ==
    CASE e[1] = "seal" -> IF e[2][2] = 0 THEN [f EXCEPT !.hdr = e[2]] ELSE PutAt(f, e[2][2], e[2])
      [] e[1] = "torn" -> PutAt(f, e[2][2], Torn)
      [] e[1] = "short" -> PutAt(f, e[2][2], IF e[2][2] > Len(f.blk) THEN Partial ELSE Torn)
      [] e[1] = "trunc" -> [f EXCEPT !.blk = SubSeq(@, 1, IF e[2] < Len(@) THEN e[2] ELSE Len(@))]
      [] e[1] = "clear" -> EmptyFile
      [] e[1] = "lost" -> f

Logged(e) == file' = Apply(file, e) /\ log' = Append(log, e)

SealsOf(l) == {l[i][2] : i \in {j \in DOMAIN l : l[j][1] \in {"seal", "torn", "short"}}}
OnMedium == medium \cup SealsOf(log)

\* read_block: what is past the cached end is zero, the rest must authenticate.
Unreadable(i) == i < phys /\ file.blk[i + 1] \in {Torn, Partial}
ReadBlock(i) == IF i >= phys THEN Zero ELSE file.blk[i + 1][3]
ReadCell(c) ==
    LET i == c \div BlockSize
    IN  IF Unreadable(i) THEN Absent ELSE ReadBlock(i)[c % BlockSize]
View == [len |-> logicalLen, cells |-> [c \in Cells |-> ReadCell(c)]]

\* read_header: a version-1 header has epoch 0.  An empty file is the default.
Stored == IF file.hdr = Absent THEN [version |-> 2, len |-> 0, epoch |-> 0, pending |-> 0]
          ELSE file.hdr[3]

-----------------------------------------------------------------------------
Closed ==
    /\ status = "closed" /\ todo = <<>>
    /\ epoch = 0 /\ seq = 0 /\ logicalLen = 0 /\ phys = 0 /\ part = 0

LegacyFile ==
    [hdr |-> <<<<0, 0>>, 0, [version |-> 1, len |-> MaxLen, epoch |-> 0, pending |-> 0]>>,
     blk |-> [i \in 1..CeilDiv(MaxLen, BlockSize) |->
                <<<<0, i>>, i, [c \in 0..BlockSize - 1 |-> IF (i - 1) * BlockSize + c < MaxLen THEN 1 ELSE 0]>>]]

InitFrom(start) ==
    /\ Closed
    /\ file = CASE start = "legacy" -> LegacyFile
                [] start = "foreign" -> [hdr |-> Torn, blk |-> <<Torn>>]
                [] OTHER -> EmptyFile
    /\ stable = file /\ log = <<>>
    /\ medium = IF start = "legacy" THEN {file.hdr} \cup {file.blk[i] : i \in DOMAIN file.blk} ELSE {}
    /\ view = [len |-> IF start = "legacy" THEN MaxLen ELSE 0,
               cells |-> [c \in Cells |-> IF start = "legacy" THEN 1 ELSE 0]]
    /\ opens = 0 /\ ops = 0

BackendInit == \E start \in Starts : InitFrom(start)

-----------------------------------------------------------------------------
(* Plans.                                                                  *)

\* write_block: room for a nonce, sealed zeros up to the block, the block.
SealBlock(i, plain, end) ==
    <<<<"ensure">>>>
    \o [g \in 1..(IF i > end THEN i - end ELSE 0) |-> <<"gap", end + g - 1, Zero>>]
    \o <<<<"block", i, plain>>>>
NextMissing == phys + part

\* (mutant) The new epoch is not synced before it is used.
OpenPlanUnsynced(clear, reseal, blocks) ==
    (IF clear THEN <<<<"clear">>>> ELSE <<>>) \o <<<<"header", IF reseal THEN 1 ELSE 0>>>>
    \o IF reseal THEN [i \in 1..blocks |-> <<"reseal", i - 1>>] \o <<<<"header", 0>>>> ELSE <<>>

\* (mutant) The marker of an unfinished reseal is not written.
OpenPlanUnmarked(clear, reseal, blocks) ==
    (IF clear THEN <<<<"clear">>>> ELSE <<>>) \o <<<<"header", 0>>, <<"sync">>>>
    \o IF reseal THEN [i \in 1..blocks |-> <<"reseal", i - 1>>] \o <<<<"header", 0>>, <<"sync">>>> ELSE <<>>

\* open_file once the header has been read: the new epoch is made durable, then
\* the blocks of a version-1 file are sealed again.
OpenPlan(clear, reseal, blocks) ==
    (IF clear THEN <<<<"clear">>>> ELSE <<>>)
    \o <<<<"header", IF reseal THEN 1 ELSE 0>>, <<"sync">>>>
    \o IF reseal THEN [i \in 1..blocks |-> <<"reseal", i - 1>>] \o <<<<"header", 0>>, <<"sync">>>> ELSE <<>>

\* write: the blocks it covers, then the header if the file grew.
WritePlan(off, n, v) ==
    LET first == off \div BlockSize
        last == (off + n - 1) \div BlockSize
    IN  [k \in 1..(last - first + 1) |-> <<"rewrite", first + k - 1, off, n, v>>]
        \o (IF off + n > logicalLen THEN <<<<"len", off + n>>, <<"header", 0>>>> ELSE <<>>)

\* set_len: the length, the blocks that go, the tail of the last one.
SetLenPlan(l) ==
    LET needed == CeilDiv(l, BlockSize)
        i == l \div BlockSize
        present == l % BlockSize # 0 /\ i < phys
        kept == [c \in 0..BlockSize - 1 |-> IF c < l % BlockSize THEN ReadBlock(i)[c] ELSE 0]
    IN  <<<<"len", l>>>> \o (IF phys + part > needed THEN <<<<"trunc", needed>>>> ELSE <<>>)
        \o (IF ~present THEN <<>>
            ELSE IF Unreadable(i) THEN <<<<"fail">>>> ELSE SealBlock(i, kept, needed))
        \o <<<<"header", 0>>>>

-----------------------------------------------------------------------------
(* Calls.                                                                  *)

\* open_file reads the header and burns an epoch.  A foreign file is refused or
\* recreated.
Open ==
    /\ status = "closed" /\ opens < MaxOpens
    /\ file.hdr = Torn => ForeignFile = "recreate"
    /\ LET clear == file.hdr = Torn
           stored == IF clear THEN [version |-> 2, len |-> 0, epoch |-> 0, pending |-> 0] ELSE Stored
           short == ~clear /\ file.blk # <<>> /\ file.blk[Len(file.blk)] = Partial
           blocks == IF clear THEN 0 ELSE IF short THEN Len(file.blk) - 1 ELSE Len(file.blk)
       IN  /\ stored.epoch < MaxU48
           /\ epoch' = stored.epoch + 1 /\ seq' = 0
           /\ logicalLen' = stored.len
           /\ phys' = blocks /\ part' = IF short THEN 1 ELSE 0
           /\ todo' = OpenPlan(clear, stored.version = 1 \/ stored.pending = 1, blocks)
    /\ status' = "opening"
    /\ opens' = opens + 1
    /\ UNCHANGED <<file, stable, log, medium, view, ops>>

Call(plan) ==
    /\ status = "open" /\ todo = <<>> /\ ops < MaxOps
    /\ todo' = plan
    /\ view' = View
    /\ ops' = ops + 1
    /\ UNCHANGED <<file, stable, log, medium, status, inner, opens>>

Write(off, n, v) == off + n <= MaxLen /\ Call(WritePlan(off, n, v))
SetLen(l) == Call(SetLenPlan(l))
SyncData == Call(<<<<"sync">>>>)

\* The backend is dropped.
Close ==
    /\ status = "open" /\ todo = <<>>
    /\ status' = "closed" /\ view' = View
    /\ epoch' = 0 /\ seq' = 0 /\ logicalLen' = 0 /\ phys' = 0 /\ part' = 0
    /\ UNCHANGED <<file, stable, log, medium, todo, opens, ops>>

-----------------------------------------------------------------------------
(* The file operations of the current call.                                *)

Is(op) == todo # <<>> /\ Head(todo)[1] = op

\* The next operation has been done.
Done ==
    /\ todo' = Tail(todo)
    /\ status' = IF status = "opening" /\ Tail(todo) = <<>> THEN "open" ELSE status

\* The call returns an error; a failed open leaves no backend.
Failed ==
    /\ todo' = <<>>
    /\ status' = IF status = "opening" THEN "closed" ELSE status

\* ensure_nonce_space: a full epoch is followed by the next one, in the header
\* before it is used.
Ensure ==
    /\ Is("ensure")
    /\ \/ seq < MaxU48 /\ Done /\ UNCHANGED <<epoch, seq>>
       \/ /\ seq >= MaxU48 /\ epoch < MaxU48
          /\ epoch' = epoch + 1 /\ seq' = 0
          /\ todo' = <<<<"header", 0>>, <<"sync">>>> \o Tail(todo)
          /\ UNCHANGED status
       \/ seq >= MaxU48 /\ epoch = MaxU48 /\ Failed /\ UNCHANGED <<epoch, seq>>
    /\ UNCHANGED <<file, stable, log, medium, logicalLen, phys, part, view, opens, ops>>

\* next_nonce: the low 48 bits of each counter.
NextNonce == <<epoch % (MaxU48 + 1), seq % (MaxU48 + 1)>>
DrawNonce == seq < MaxSeals /\ seq' = seq + 1

\* write_header
WriteHeader ==
    /\ Is("header")
    /\ DrawNonce
    /\ Logged(<<"seal", <<NextNonce, 0, [version |-> 2, len |-> logicalLen, epoch |-> epoch,
                                         pending |-> Head(todo)[2]]>>>>)
    /\ Done
    /\ UNCHANGED <<stable, medium, epoch, logicalLen, phys, part, view, opens, ops>>

\* A block of a gap (the code writes these in one call, of which a kill or a full
\* disk may leave any prefix), or the block itself, after which phys_len is brought up.
WriteSealed ==
    /\ Is("gap") \/ Is("block")
    /\ DrawNonce
    /\ LET i == Head(todo)[2]
       IN  /\ Logged(<<"seal", <<NextNonce, i + 1, Head(todo)[3]>>>>)
           /\ IF Is("block") /\ i >= phys THEN phys' = i + 1 /\ part' = 0 ELSE UNCHANGED <<phys, part>>
    /\ Done
    /\ UNCHANGED <<stable, medium, epoch, logicalLen, view, opens, ops>>

\* (mutant) A block that is covered only in part is not read first.
RewriteNoRead ==
    /\ Is("rewrite")
    /\ LET i == Head(todo)[2]
           off == Head(todo)[3]
           end == off + Head(todo)[4]
           new == [c \in 0..BlockSize - 1 |->
                     IF off <= i * BlockSize + c /\ i * BlockSize + c < end THEN Head(todo)[5] ELSE 0]
       IN  todo' = SealBlock(i, new, NextMissing) \o Tail(todo)
    /\ UNCHANGED <<file, stable, log, medium, status, inner, view, opens, ops>>

\* write, for one block: a block it covers only in part is read first.
Rewrite ==
    /\ Is("rewrite")
    /\ LET i == Head(todo)[2]
           off == Head(todo)[3]
           end == off + Head(todo)[4]
           covers(c) == off <= c /\ c < end
           whole == off <= i * BlockSize /\ (i + 1) * BlockSize <= end
           new == [c \in 0..BlockSize - 1 |->
                     IF covers(i * BlockSize + c) THEN Head(todo)[5] ELSE ReadBlock(i)[c]]
       IN  IF ~whole /\ Unreadable(i) THEN Failed
           ELSE todo' = SealBlock(i, new, NextMissing) \o Tail(todo) /\ UNCHANGED status
    /\ UNCHANGED <<file, stable, log, medium, inner, view, opens, ops>>

\* reseal_legacy_blocks, for one block.
Reseal ==
    /\ Is("reseal")
    /\ LET i == Head(todo)[2]
       IN  IF Unreadable(i) THEN Failed
           ELSE todo' = SealBlock(i, ReadBlock(i), NextMissing) \o Tail(todo) /\ UNCHANGED status
    /\ UNCHANGED <<file, stable, log, medium, inner, view, opens, ops>>

SetLogicalLen ==
    /\ Is("len")
    /\ logicalLen' = Head(todo)[2]
    /\ Done
    /\ UNCHANGED <<file, stable, log, medium, epoch, seq, phys, part, view, opens, ops>>

\* File::set_len, to a number of blocks or to nothing.
Truncate ==
    /\ Is("trunc") \/ Is("clear")
    /\ Logged(Head(todo))
    /\ IF Is("trunc") THEN phys' = Head(todo)[2] /\ part' = 0 ELSE UNCHANGED <<phys, part>>
    /\ Done
    /\ UNCHANGED <<stable, medium, epoch, seq, logicalLen, view, opens, ops>>

Sync ==
    /\ Is("sync")
    /\ stable' = file /\ log' = <<>> /\ medium' = OnMedium
    /\ Done
    /\ UNCHANGED <<file, inner, view, opens, ops>>

\* A read_block in the middle of a call fails to authenticate.
AuthFails ==
    /\ Is("fail")
    /\ Failed
    /\ UNCHANGED <<file, stable, log, medium, inner, view, opens, ops>>

-----------------------------------------------------------------------------
(* Faults.                                                                 *)

\* An I/O error: the operation has no effect, but its nonce has been drawn.
IoError ==
    /\ todo # <<>> /\ ~Is("ensure") /\ ~Is("len")
    /\ IF Is("header") \/ Is("gap") \/ Is("block") THEN DrawNonce ELSE UNCHANGED seq
    /\ Failed
    /\ UNCHANGED <<file, stable, log, medium, epoch, logicalLen, phys, part, view, opens, ops>>

\* The disk is full: a block at the end of the file is written in part.
ShortWrite ==
    /\ Is("gap") \/ Is("block")
    /\ Head(todo)[2] = Len(file.blk)
    /\ DrawNonce
    /\ Logged(<<"short", <<NextNonce, Head(todo)[2] + 1, Head(todo)[3]>>>>)
    /\ Failed
    /\ UNCHANGED <<stable, medium, epoch, logicalLen, phys, part, view, opens, ops>>

Forgotten == todo' = <<>> /\ epoch' = 0 /\ seq' = 0 /\ logicalLen' = 0 /\ phys' = 0 /\ part' = 0

\* The process dies; the page cache does not.
Kill ==
    /\ status \in {"opening", "open"}
    /\ status' = "closed" /\ Forgotten
    /\ UNCHANGED <<file, stable, log, medium, view, opens, ops>>

\* The power fails: what the last sync left is there ...
PowerLoss ==
    /\ status \in {"opening", "open"} \/ (status = "closed" /\ log # <<>>)
    /\ status' = "lost" /\ Forgotten
    /\ file' = stable
    /\ UNCHANGED <<stable, log, medium, view, opens, ops>>

\* ... and of the operations since then, in their order, any may be lost, and a block torn.
Survives(tear) ==
    /\ status = "lost" /\ log # <<>>
    /\ \E e \in {<<"lost">>, Head(log)}
             \cup (IF tear /\ Head(log)[1] = "seal" /\ Head(log)[2][2] # 0 THEN {<<"torn", Head(log)[2]>>} ELSE {}) :
        /\ file' = Apply(file, e)
        /\ medium' = medium \cup SealsOf(<<e>>)
    /\ log' = Tail(log)
    /\ UNCHANGED <<stable, status, inner, todo, view, opens, ops>>

PowerBack ==
    /\ status = "lost" /\ log = <<>>
    /\ status' = "closed" /\ stable' = file
    /\ UNCHANGED <<file, log, medium, inner, todo, view, opens, ops>>

Fault(faults) ==
    \/ "error" \in faults /\ IoError
    \/ "short" \in faults /\ ShortWrite
    \/ "kill" \in faults /\ Kill
    \/ "power" \in faults /\ (PowerLoss \/ Survives("tear" \in faults) \/ PowerBack)

Operation ==
    \/ Open \/ Close \/ SyncData
    \/ \E off \in Cells, n \in 1..MaxLen, v \in Vals : Write(off, n, v)
    \/ \E l \in 0..MaxLen : SetLen(l)
    \/ Ensure \/ WriteHeader \/ WriteSealed \/ Rewrite \/ Reseal \/ SetLogicalLen \/ Truncate \/ Sync \/ AuthFails

BackendNext == Operation \/ Fault(Faults)

BackendSpec == BackendInit /\ [][BackendNext]_backendVars

-----------------------------------------------------------------------------

\* No two different ciphertexts that reach the medium share a nonce, whatever is
\* killed or loses power between an open and the next ("no two runs of the process
\* can ever share a nonce namespace - including across a hard crash", Inner.epoch;
\* "the counter must not silently wrap", ensure_nonce_space).
NonceUnique ==
    \A a, b \in OnMedium : a[1] = b[1] => a[2] = b[2] /\ a[3] = b[3]

\* Once the header no longer calls for a reseal, no block carries a version-1
\* nonce ("no legacy random nonce may survive the re-seal").
LegacyGone ==
    (file.hdr \notin {Absent, Torn} /\ Stored.version = 2 /\ Stored.pending = 0) =>
        \A i \in DOMAIN file.blk : file.blk[i] \notin {Torn, Partial} => file.blk[i][1][1] # 0

\* A file that is only opened reads as it did, however often the reseal is
\* interrupted ("a half-migrated file is a legal mix of old- and new-nonce blocks
\* that still reads correctly", reseal_legacy_blocks).
OpenKeepsContent ==
    status = "open" /\ ops = 0 => View = view

\* The reseal of a version-1 file as a whole: it ends with every block under a new nonce, and changes nothing a
\* reader sees (reseal_legacy_blocks).
ResealSound == LegacyGone /\ OpenKeepsContent

\* What a reader sees between calls.
Shown == IF status = "open" /\ todo = <<>> THEN View ELSE view
PF == INSTANCE PlainFile WITH len <- Shown.len, cells <- Shown.cells
\* Between calls the backend is the plain file redb takes it for, across any
\* number of reopens; a call takes effect as a whole.
ImplementsPlainFile == PF!Spec
=============================================================================
