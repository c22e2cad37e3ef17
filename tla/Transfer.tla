------------------------------ MODULE Transfer ------------------------------
(***************************************************************************)
(* mirror and the downloads of the command line client: listing pages or a *)
(* local walk, a plan, one copy after the other (cmd/mirror.rs, cmd/cp.rs, *)
(* ops/listing.rs), and the staged download with which a local file is     *)
(* replaced (staged_file.rs). Other programs write both sides meanwhile;   *)
(* the client may be killed and the machine may lose power at any step.    *)
(***************************************************************************)
EXTENDS Naturals, Sequences, FiniteSets, SequencesExt

CONSTANTS
    Keys,        \* keys relative to the two roots: numbers, in listing order
    Size,        \* content |-> its size; contents are the numbers 1..Len(Size)
    PageLimit,   \* objects in a page of a listing (1000)
    Absent

VARIABLES
    job,      \* the command: from, to ("local", "remote"), overwrite, remove, exclude, unsafe keys, faults
    run,      \* its progress: pc, listing cursor, collected entries, plan, current key
    src, dst, \* key |-> Absent, a content, or Part
    stage,    \* the hidden file of the current download: content, Part or Absent; synced
    kept,     \* key |-> a complete download left beside the destination, or Absent
    writes,   \* writes the other programs may still do
    steady,   \* history: the keys the source held since the command started
    quiet     \* history: no other program wrote since then

transferVars == <<job, run, src, dst, stage, kept, writes, steady, quiet>>

Contents == 1..Len(Size)
Part == 0                                   \* a torn file; its size is not looked at
NoStage == [c |-> Absent, synced |-> FALSE]
Entry(c, remote) == [size |-> IF c = Part THEN 0 ELSE Size[c], sum |-> IF remote THEN c ELSE Absent]
Empty == [k \in {} |-> Absent]
Stopped == {"done", "failed", "killed"}

Side == IF run.pc = "list_src" THEN src ELSE dst
Remote(pc) == (IF pc = "list_src" THEN job.from ELSE job.to) = "remote"
Fail == run' = [run EXCEPT !.pc = "failed"]

--------------------------------------------------------------------------
(* Collecting the two trees. *)

Listed(entries) ==
    IF run.pc = "list_src" THEN [run EXCEPT !.src = entries, !.pc = "list_dst", !.after = 0, !.paths = Absent]
    ELSE [run EXCEPT !.dst = entries, !.pc = "plan", !.paths = Absent]

\* The keys after the cursor at the moment of the request.
AfterCursor(have) == SetToSortSeq({k \in Keys : k > run.after /\ Side[k] # Absent}, <)

\* The page carries a cursor while there is more to list.
LastPage(keys) == Len(keys) <= PageLimit

\* collect_remote_entries: page after page.
ListPage ==
    /\ run.pc \in {"list_src", "list_dst"} /\ Remote(run.pc)
    /\ LET have == IF run.pc = "list_src" THEN run.src ELSE run.dst
           keys == AfterCursor(have)
           page == SubSeq(keys, 1, IF Len(keys) <= PageLimit THEN Len(keys) ELSE PageLimit)
           got  == [k \in DOMAIN have \cup ToSet(page) |-> IF k \in DOMAIN have THEN have[k] ELSE Entry(Side[k], TRUE)]
       IN run' = IF LastPage(keys) THEN Listed(got)
                 ELSE [run EXCEPT !.after = Last(page), ![IF run.pc = "list_src" THEN "src" ELSE "dst"] = got]
    /\ UNCHANGED <<job, src, dst, stage, kept, writes, steady, quiet>>

\* walk_files finds the paths, then collect_local_entries reads each file's size; a file gone meanwhile is an error.
Walk ==
    /\ run.pc \in {"list_src", "list_dst"} /\ ~Remote(run.pc) /\ run.paths = Absent
    /\ run' = [run EXCEPT !.paths = {k \in Keys : Side[k] # Absent}]
    /\ UNCHANGED <<job, src, dst, stage, kept, writes, steady, quiet>>

Stat ==
    /\ run.pc \in {"list_src", "list_dst"} /\ ~Remote(run.pc) /\ run.paths # Absent
    /\ IF \E k \in run.paths : Side[k] = Absent THEN Fail ELSE run' = Listed([k \in run.paths |-> Entry(Side[k], FALSE)])
    /\ UNCHANGED <<job, src, dst, stage, kept, writes, steady, quiet>>

--------------------------------------------------------------------------
(* The plan. *)

Differs(s, d) == s.size # d.size \/ (job.overwrite /\ s.sum # Absent /\ d.sum # Absent /\ s.sum # d.sum)

\* Mutant: a destination of another size is left alone.
CopyMissing(s, d) == {k \in DOMAIN s : k \notin DOMAIN d}

\* mirror_plan: what the destination lacks or has differently.
mirror_plan(s, d) == {k \in DOMAIN s : k \in DOMAIN d => Differs(s[k], d[k])}

\* Excluded keys are taken out of both listings, keys that would leave the local root out of the plan.
MakePlan ==
    /\ run.pc = "plan"
    /\ LET only(f) == [k \in DOMAIN f \ job.exclude |-> f[k]]
           s == only(run.src)
           d == only(run.dst)
       IN run' = [run EXCEPT !.pc = "next", !.paths = Absent, !.src = s, !.dst = Empty,
                    !.copies = SetToSortSeq(mirror_plan(s, d) \ job.unsafe, <),
                    !.dels = IF job.remove THEN SetToSortSeq((DOMAIN d \ DOMAIN s) \ job.unsafe, <) ELSE <<>>]
    /\ UNCHANGED <<job, src, dst, stage, kept, writes, steady, quiet>>

\* The copies in order, then the deletions; local to local is refused at the first copy.
NextKey ==
    /\ run.pc = "next"
    /\ run' = CASE run.copies # <<>> -> [run EXCEPT !.key = Head(run.copies), !.copies = Tail(@),
                                             !.pc = CASE job.from = "local" /\ job.to = "local" -> "failed"
                                                      [] job.to = "local" -> "create"
                                                      [] OTHER            -> "put"]
                [] run.copies = <<>> /\ run.dels # <<>> -> [run EXCEPT !.key = Head(run.dels), !.dels = Tail(@), !.pc = "delete"]
                [] OTHER -> [run EXCEPT !.pc = "done"]
    /\ UNCHANGED <<job, src, dst, stage, kept, writes, steady, quiet>>

\* delete_one: a destination that is gone already is an error.
delete_one ==
    /\ run.pc = "delete"
    /\ IF dst[run.key] = Absent THEN Fail /\ UNCHANGED dst
       ELSE /\ dst' = [dst EXCEPT ![run.key] = Absent]
            /\ run' = [run EXCEPT !.pc = "next"]
    /\ UNCHANGED <<job, src, stage, kept, writes, steady, quiet>>

\* copy_one to a server, from a file or through the tunnel: the length is the listed one, so a body that is
\* shorter fails the upload and one that is longer is cut off or refused. A failed read of the source shows
\* only as a short body.
PutOne ==
    /\ run.pc = "put"
    /\ LET c == src[run.key]
           want == run.src[run.key].size
       IN
       \/ Fail /\ UNCHANGED dst
       \/ /\ job.from = "remote" /\ want = 0
          /\ \E e \in Contents : Size[e] = 0 /\ dst' = [dst EXCEPT ![run.key] = e]
          /\ run' = [run EXCEPT !.pc = "next"]
       \/ /\ c # Absent /\ c # Part
          /\ \/ Size[c] = want /\ dst' = [dst EXCEPT ![run.key] = c]
             \/ Size[c] > want /\ dst' = [dst EXCEPT ![run.key] = Part]
          /\ run' = [run EXCEPT !.pc = "next"]
    /\ UNCHANGED <<job, src, stage, kept, writes, steady, quiet>>

--------------------------------------------------------------------------
(* A staged download: StagedFile::create, the transfer, commit. *)

\* The stage is made beside the destination, or in the temporary directory when an existing file's
\* directory takes no new files; a destination that may not be written fails first.
create ==
    /\ run.pc = "create"
    /\ \/ /\ stage' = [c |-> Part, synced |-> FALSE]
          /\ run' = [run EXCEPT !.pc = "fetch"]
       \/ job.faults # {} /\ (dst[run.key] = Absent \/ "denied" \in job.faults) /\ Fail /\ UNCHANGED stage
    /\ UNCHANGED <<job, src, dst, kept, writes, steady, quiet>>

\* Dropping the stage removes it.
Dropped == Fail /\ stage' = NoStage

get_to_writer ==
    /\ run.pc = "fetch"
    /\ \/ /\ src[run.key] \in Contents
          /\ stage' = [stage EXCEPT !.c = src[run.key]]
          /\ run' = [run EXCEPT !.pc = "sync"]
       \/ (src[run.key] \notin Contents \/ "net" \in job.faults) /\ Dropped
    /\ UNCHANGED <<job, src, dst, kept, writes, steady, quiet>>

sync_all == TRUE

CommitSync ==
    /\ run.pc = "sync"
    /\ stage' = [stage EXCEPT !.synced = sync_all]
    /\ run' = [run EXCEPT !.pc = "rename"]
    /\ UNCHANGED <<job, src, dst, kept, writes, steady, quiet>>

Publish ==
    /\ run.pc = "rename"
    /\ \/ /\ dst' = [dst EXCEPT ![run.key] = IF stage.synced THEN stage.c ELSE Part]
          /\ stage' = NoStage
          /\ run' = [run EXCEPT !.pc = "next"]
       \/ /\ "norename" \in job.faults
          /\ dst' = [dst EXCEPT ![run.key] = Part]
          /\ run' = [run EXCEPT !.pc = "inplace"]
          /\ UNCHANGED stage
    /\ UNCHANGED <<job, src, kept, writes, steady, quiet>>

KeepStage(k) == [kept EXCEPT ![k] = stage.c]

\* Rename refused: the finished download is copied over the truncated target; if that fails the stage stays.
CopyInPlace ==
    /\ run.pc = "inplace"
    /\ \/ /\ dst' = [dst EXCEPT ![run.key] = stage.c]
          /\ run' = [run EXCEPT !.pc = "next"]
          /\ UNCHANGED kept
       \/ /\ "full" \in job.faults
          /\ kept' = KeepStage(run.key)
          /\ Fail /\ UNCHANGED dst
    /\ stage' = NoStage
    /\ UNCHANGED <<job, src, writes, steady, quiet>>

--------------------------------------------------------------------------
(* The rest of the world. *)

\* Killed, or the power fails: no Drop runs, the stage stays where it is.
Kill ==
    /\ run.pc \notin Stopped /\ "kill" \in job.faults
    /\ run' = [run EXCEPT !.pc = "killed"]
    /\ kept' = IF stage.c \in Contents THEN KeepStage(run.key) ELSE kept
    /\ stage' = NoStage
    /\ UNCHANGED <<job, src, dst, writes, steady, quiet>>

OtherWrites ==
    /\ run.pc \notin Stopped /\ writes > 0
    /\ \E k \in Keys, c \in Contents \cup {Absent} :
       \/ /\ src[k] # c /\ src' = [src EXCEPT ![k] = c]
          /\ steady' = IF c = Absent THEN steady \ {k} ELSE steady
          /\ UNCHANGED dst
       \/ dst[k] # c /\ dst' = [dst EXCEPT ![k] = c] /\ UNCHANGED <<src, steady>>
    /\ writes' = writes - 1 /\ quiet' = FALSE
    /\ UNCHANGED <<job, run, stage, kept>>

TransferInit(jobs) ==
    /\ job \in jobs
    /\ src \in job.srcs /\ dst \in job.dsts
    /\ run = [pc |-> "list_src", after |-> 0, paths |-> Absent, src |-> Empty, dst |-> Empty,
              copies |-> <<>>, dels |-> <<>>, key |-> Absent]
    /\ stage = NoStage /\ kept = [k \in Keys |-> Absent]
    /\ writes = job.writes
    /\ steady = {k \in Keys : src[k] # Absent} /\ quiet = TRUE

TransferNext ==
    \/ ListPage \/ Walk \/ Stat \/ MakePlan \/ NextKey \/ delete_one \/ PutOne
    \/ create \/ get_to_writer \/ CommitSync \/ Publish \/ CopyInPlace
    \/ Kill \/ OtherWrites

--------------------------------------------------------------------------

\* A half-written local file is never the only copy: wherever the in-place copy stopped, by an error or
\* because the client was killed, the complete download is still on disk as the stage (commit).
NeverLost ==
    job.to = "local" => \A k \in Keys : dst[k] = Part => kept[k] \in Contents \/ (run.key = k /\ stage.c \in Contents)

\* --remove never deletes from the destination a key the source held during the whole command, whatever
\* other programs add and remove between the pages of the listings.
SteadyKept == run.pc = "delete" => run.key \notin steady

\* A mirror that reports success while nobody else wrote has made the destination equal to the source: same
\* keys (those not excluded or unsafe), same sizes, the same contents where both sides have checksums and
\* --overwrite is given, and with --remove nothing more.
MirrorConverges ==
    run.pc = "done" /\ quiet =>
        \A k \in Keys \ (job.exclude \cup job.unsafe) :
           /\ src[k] \in Contents => dst[k] \in Contents /\ Size[src[k]] = Size[dst[k]]
           /\ job.overwrite /\ job.from = "remote" /\ job.to = "remote" /\ src[k] # Absent => dst[k] = src[k]
           /\ job.remove /\ src[k] = Absent => dst[k] = Absent

\* What a mirror promises: it converges, and on the way loses nothing.
MirrorSafe == MirrorConverges /\ NeverLost /\ SteadyKept
=============================================================================
