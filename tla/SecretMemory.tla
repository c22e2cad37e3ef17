--------------------------- MODULE SecretMemory ---------------------------
(***************************************************************************)
(* Guarded memory: the pages that hold a secret, from the system calls     *)
(* that make them to the ones that give them back, while request tasks     *)
(* share one long-lived key through counted read guards and each fills a   *)
(* short-lived buffer of its own.                                          *)
(***************************************************************************)
EXTENDS Integers, Sequences, FiniteSets

CONSTANTS Tasks,      \* the request tasks that seal and open under the memory key
          Boot,       \* the thread that hardens the process and makes the key
          Hosts,      \* the kernels to run on: secretmem, RLIMIT_MEMLOCK in buffers, the calls that may fail
          MaxRuns     \* bound: operations the tasks start

ASSUME OwnersAssumption == IsFiniteSet(Tasks) /\ Boot \notin Tasks /\ "nobody" \notin Tasks
ASSUME HostsAssumption == \A h \in Hosts : h.secret \in BOOLEAN /\ h.limit \in Nat

Owners == Tasks \cup {Boot}
Free   == "nobody"

VARIABLES host,       \* the kernel it runs on
          policy,     \* the process-wide Policy, set once
          pages,      \* per owner, the mapping its Region holds
          vec,        \* per task, the SecretVec laid over its Region
          active,     \* GuardCount: the read guards alive on the key
          holder,     \* who holds GuardCount's mutex
          at,         \* per owner, where it is
          work,       \* per task, what it does; for the boot thread, which buffer it makes
          runs,       \* how many more operations the tasks may start
          fate,       \* of the process
          exposed     \* a mprotect that should have hidden the key has failed

secVars == <<host, policy, pages, vec, active, holder, at, work, runs, fate, exposed>>
taskVars == <<vec, active, holder, work, runs, exposed>>

Unmapped == [base |-> FALSE, data |-> "none", prot |-> "none", locked |-> FALSE, holds |-> FALSE]
Charged  == Cardinality({a \in Owners : pages[a].locked})
May(call) == call \in host.faults
Goes(a, s) == at' = [at EXCEPT ![a] = s]
NoVec == [cap |-> 0, len |-> 0, buf |-> <<>>]

--------------------------------------------------------------------------
(* Region::alloc. A failed step gives the whole reservation back. *)

Fail(a) ==
    /\ pages' = [pages EXCEPT ![a] = Unmapped]
    /\ Goes(a, "failed")

reserve(a) ==
    /\ at[a] = "reserve"
    /\ \/ /\ pages' = [pages EXCEPT ![a] = [Unmapped EXCEPT !.base = TRUE, !.data = "reserved"]]
          /\ Goes(a, "secretmem")
       \/ May("mmap") /\ Fail(a)
    /\ UNCHANGED <<host, policy, fate, taskVars>>

\* (mutant) The fallback is taken whatever the policy says.
MapFailedAnyPolicy(a, hole_removed) ==
    /\ pages' = [pages EXCEPT ![a].data = IF hole_removed THEN "none" ELSE @]
    /\ Goes(a, IF hole_removed THEN "reinstall" ELSE "unprotect")

\* The policy decides whether a buffer without secretmem is made at all.  A
\* failed MAP_FIXED has already removed the hole it was to fill.
MapFailed(a, hole_removed) ==
    IF policy = "require"
      THEN Fail(a)
      ELSE /\ pages' = [pages EXCEPT ![a].data = IF hole_removed THEN "none" ELSE @]
           /\ Goes(a, IF hole_removed THEN "reinstall" ELSE "unprotect")

\* Secretmem is charged to RLIMIT_MEMLOCK inside mmap and needs no mlock.
map_secretmem(a) ==
    /\ at[a] = "secretmem"
    /\ \/ /\ host.secret /\ Charged < host.limit
          /\ pages' = [pages EXCEPT ![a].data = "secret", ![a].prot = "rw", ![a].locked = TRUE]
          /\ Goes(a, "ready")
       \/ (~host.secret \/ May("memfd")) /\ MapFailed(a, FALSE)
       \/ host.secret /\ (Charged >= host.limit \/ May("mmap")) /\ MapFailed(a, TRUE)
    /\ UNCHANGED <<host, policy, fate, taskVars>>

reinstall_anonymous(a) ==
    /\ at[a] = "reinstall"
    /\ \/ /\ pages' = [pages EXCEPT ![a].data = "anon", ![a].prot = "rw"]
          /\ Goes(a, "mlock")
       \/ May("mmap") /\ Fail(a)
    /\ UNCHANGED <<host, policy, fate, taskVars>>

\* mprotect of an address range that is not mapped fails.
protect_raw(a) ==
    /\ at[a] = "unprotect"
    /\ \/ /\ pages[a].data # "none"
          /\ pages' = [pages EXCEPT ![a].data = "anon", ![a].prot = "rw"]
          /\ Goes(a, "mlock")
       \/ (pages[a].data = "none" \/ May("mprotect")) /\ Fail(a)
    /\ UNCHANGED <<host, policy, fate, taskVars>>

lock_or_degrade(a) ==
    /\ at[a] = "mlock"
    /\ \/ /\ Charged < host.limit
          /\ pages' = [pages EXCEPT ![a].locked = TRUE]
          /\ Goes(a, "ready")
       \/ /\ Charged >= host.limit
          /\ IF policy = "require" THEN Fail(a) ELSE Goes(a, "ready") /\ UNCHANGED pages
    /\ UNCHANGED <<host, policy, fate, taskVars>>

alloc(a) == reserve(a) \/ map_secretmem(a) \/ reinstall_anonymous(a) \/ protect_raw(a) \/ lock_or_degrade(a)

--------------------------------------------------------------------------
(* Region::drop. The mprotect's result is ignored: a page that is still
   hidden is then written to.                                            *)

Scrub(a) ==
    /\ at[a] = "drop"
    /\ \/ /\ pages' = [pages EXCEPT ![a].prot = "rw", ![a].holds = FALSE]
          /\ Goes(a, "unmap") /\ UNCHANGED fate
       \/ /\ May("mprotect") /\ pages[a].prot # "rw"
          /\ fate' = "killed" /\ UNCHANGED <<pages, at>>
    /\ UNCHANGED <<host, policy, taskVars>>

\* What the owner does next depends on why the buffer was dropped.
Unmap(a) ==
    /\ at[a] = "unmap"
    /\ pages' = [pages EXCEPT ![a] = Unmapped]
    /\ Goes(a, IF a \in Tasks THEN "idle" ELSE IF work[a] = "probe" THEN "reserve" ELSE IF work[a] = "key" THEN "failed" ELSE "gone")
    /\ work' = [work EXCEPT ![a] = IF @ = "probe" THEN "key" ELSE @]
    /\ vec' = IF a \in Tasks THEN [vec EXCEPT ![a] = NoVec] ELSE vec
    /\ UNCHANGED <<host, policy, fate, active, holder, runs, exposed>>

--------------------------------------------------------------------------
(* Boot: harden_process probes one buffer, MemoryKey::generate keeps one. *)

harden_process(p) ==
    /\ at[Boot] = "harden"
    /\ policy' = p
    /\ \/ Goes(Boot, "reserve")
       \/ May("prctl") /\ Goes(Boot, "failed")
    /\ UNCHANGED <<host, pages, fate, taskVars>>

\* SecretBuf::from_slice and SecretBuf::random: fill, then hide.  A buffer
\* that cannot be hidden is dropped with the error.
FillAndHide ==
    /\ at[Boot] = "ready"
    /\ \/ /\ pages' = [pages EXCEPT ![Boot].holds = TRUE, ![Boot].prot = "none"]
          /\ Goes(Boot, IF work[Boot] = "probe" THEN "drop" ELSE "kept")
          /\ fate' = IF work[Boot] = "probe" THEN fate ELSE "up"
          /\ UNCHANGED work
       \/ /\ May("mprotect")
          /\ pages' = [pages EXCEPT ![Boot].holds = TRUE]
          /\ Goes(Boot, "drop")
          /\ work' = [work EXCEPT ![Boot] = "key"]
          /\ UNCHANGED fate
    /\ UNCHANGED <<host, policy, vec, active, holder, runs, exposed>>

Refuse ==
    /\ at[Boot] = "failed" /\ fate = "booting"
    /\ fate' = "refused"
    /\ UNCHANGED <<host, policy, pages, at, taskVars>>

\* No guard outlives a borrow of the key it reads.
DropKey ==
    /\ fate = "up" /\ \A t \in Tasks : at[t] = "idle"
    /\ fate' = "stopping"
    /\ Goes(Boot, "drop")
    /\ work' = [work EXCEPT ![Boot] = "stop"]
    /\ UNCHANGED <<host, policy, pages, vec, active, holder, runs, exposed>>

--------------------------------------------------------------------------
(* MemoryKey::seal and MemoryKey::open. The key is readable only while its
   guard lives; the guard is counted under the mutex.                     *)

BeginOp(t, kind) ==
    /\ fate = "up" /\ at[t] = "idle" /\ runs > 0
    /\ runs' = runs - 1
    /\ work' = [work EXCEPT ![t] = kind]
    /\ Goes(t, "unlock")
    /\ UNCHANGED <<host, policy, pages, fate, vec, active, holder, exposed>>

\* (mutant) The count is read and changed without its mutex.
unlockNoMutex(t) ==
    /\ at[t] = "unlock"
    /\ Goes(t, "show")
    /\ UNCHANGED <<host, policy, pages, fate, vec, active, holder, work, runs, exposed>>

unlock(t) ==
    /\ at[t] = "unlock" /\ holder = Free
    /\ holder' = t
    /\ Goes(t, "show")
    /\ UNCHANGED <<host, policy, pages, fate, vec, active, work, runs, exposed>>

ShowKey(t) ==
    /\ at[t] = "show"
    /\ \/ /\ pages' = IF active = 0 THEN [pages EXCEPT ![Boot].prot = "r"] ELSE pages
          /\ Goes(t, "count") /\ UNCHANGED holder
       \/ /\ active = 0 /\ May("mprotect")
          /\ holder' = Free
          /\ Goes(t, "failed") /\ UNCHANGED pages
    /\ UNCHANGED <<host, policy, fate, vec, active, work, runs, exposed>>

TakeGuard(t) ==
    /\ at[t] = "count"
    /\ active' = active + 1
    /\ holder' = Free
    /\ Goes(t, "reading")
    /\ UNCHANGED <<host, policy, pages, fate, vec, work, runs, exposed>>

\* The cipher is built from the exposed slice; a hidden page kills the process.
exposed_slice(t) ==
    /\ at[t] = "reading"
    /\ IF pages[Boot].prot = "none"
         THEN fate' = "killed" /\ UNCHANGED at
         ELSE Goes(t, "release") /\ UNCHANGED fate
    /\ UNCHANGED <<host, policy, pages, taskVars>>

LockRelease(t) ==
    /\ at[t] = "release" /\ holder = Free
    /\ holder' = t
    /\ Goes(t, "uncount")
    /\ UNCHANGED <<host, policy, pages, fate, vec, active, work, runs, exposed>>

\* SecretRead::drop: the last guard hides the key again, or logs that it could not.
DropGuard(t) ==
    /\ at[t] = "uncount"
    /\ active' = IF active = 0 THEN 0 ELSE active - 1
    /\ holder' = Free
    /\ Goes(t, "reserve")
    /\ \/ active' > 0 /\ UNCHANGED <<pages, exposed>>
       \/ active' = 0 /\ pages' = [pages EXCEPT ![Boot].prot = "none"] /\ exposed' = FALSE
       \/ active' = 0 /\ May("mprotect") /\ exposed' = TRUE /\ UNCHANGED pages
    /\ UNCHANGED <<host, policy, fate, vec, work, runs>>

--------------------------------------------------------------------------
(* SecretVec: a fixed capacity, never reallocated. "p" is plaintext, "c"
   ciphertext, "t" the tag, "0" a byte that was never written or was wiped. *)

with_capacity(n) == [cap |-> n, len |-> 0, buf |-> [i \in 1 .. n |-> "0"]]
Fits(v, src) == v.len + Len(src) <= v.cap
push_slice(v, src) ==
    [cap |-> v.cap, len |-> v.len + Len(src),
     buf |-> [i \in 1 .. v.cap |-> IF i \in v.len + 1 .. v.len + Len(src) THEN src[i - v.len] ELSE v.buf[i]]]

truncate(v, n) ==
    IF n < v.len THEN [v EXCEPT !.len = n, !.buf = [i \in 1 .. v.cap |-> IF i \in n + 1 .. v.len THEN "0" ELSE v.buf[i]]] ELSE v
Plain  == <<"p">>
Sealed == <<"c", "t">>

\* The sealed form is the plaintext and a tag, so seal reserves room for both.
Capacity(kind) == IF kind = "seal" THEN Len(Plain) + 1 ELSE Len(Sealed)
Crypt(v, kind, i) == [v EXCEPT !.buf[i] = IF kind = "seal" THEN "c" ELSE "p"]

FillVec(t) ==
    /\ at[t] = "ready"
    /\ vec' = [vec EXCEPT ![t] = push_slice(with_capacity(Capacity(work[t])), IF work[t] = "seal" THEN Plain ELSE Sealed)]
    /\ pages' = [pages EXCEPT ![t].holds = TRUE]
    /\ Goes(t, "crypt")
    /\ UNCHANGED <<host, policy, fate, active, holder, work, runs, exposed>>

\* seal appends the tag; open checks it and cuts it off.  "forged" stands for a
\* sealed secret whose AAD is not the one it is opened with.
CryptInPlace(t) ==
    /\ at[t] = "crypt"
    /\ LET v == Crypt(vec[t], work[t], 1) IN
       \/ /\ work[t] = "seal"
          /\ IF Fits(vec[t], <<"t">>)
               THEN vec' = [vec EXCEPT ![t] = push_slice(v, <<"t">>)] /\ Goes(t, "sealed")
               ELSE Goes(t, "drop") /\ UNCHANGED vec
       \/ /\ work[t] = "open"
          /\ vec' = [vec EXCEPT ![t] = truncate(v, Len(Plain))]
          /\ Goes(t, "opened")
       \/ /\ work[t] = "forged"
          /\ Goes(t, "drop") /\ UNCHANGED vec
    /\ UNCHANGED <<host, policy, pages, fate, active, holder, work, runs, exposed>>

\* The result is copied out or used, then the buffer goes.
Finish(t) ==
    /\ at[t] \in {"sealed", "opened"}
    /\ Goes(t, "drop")
    /\ UNCHANGED <<host, policy, pages, fate, taskVars>>

GiveUp(t) ==
    /\ at[t] = "failed"
    /\ Goes(t, "idle")
    /\ UNCHANGED <<host, policy, pages, fate, taskVars>>

--------------------------------------------------------------------------

Policies == {"require", "best"}
Kinds    == {"seal", "open", "forged"}

SecInit ==
    /\ host \in Hosts
    /\ policy = "unset" /\ fate = "booting"
    /\ pages = [a \in Owners |-> Unmapped]
    /\ vec = [t \in Tasks |-> NoVec]
    /\ active = 0 /\ holder = Free /\ runs = MaxRuns /\ exposed = FALSE
    /\ at = [a \in Owners |-> IF a = Boot THEN "harden" ELSE "idle"]
    /\ work = [a \in Owners |-> IF a = Boot THEN "probe" ELSE "none"]

Alive == fate \notin {"killed", "refused"}

TaskStep(t) ==
    \/ \E k \in Kinds : BeginOp(t, k)
    \/ unlock(t) \/ ShowKey(t) \/ TakeGuard(t) \/ exposed_slice(t) \/ LockRelease(t) \/ DropGuard(t)
    \/ FillVec(t) \/ CryptInPlace(t) \/ Finish(t) \/ GiveUp(t)

SecNext ==
    /\ Alive
    /\ \/ \E p \in Policies : harden_process(p)
       \/ FillAndHide \/ Refuse \/ DropKey
       \/ \E a \in Owners : alloc(a) \/ Scrub(a) \/ Unmap(a)
       \/ \E t \in Tasks : TaskStep(t)

SecSpec == SecInit /\ [][SecNext]_secVars

--------------------------------------------------------------------------
(* Properties. *)

\* A task that holds a SecretRead can read the key: no other task's guard,
\* dropped meanwhile, has hidden the pages (GuardCount, unlock, SecretRead::drop).
GuardReads == Alive => \A t \in Tasks : at[t] \in {"reading", "release", "uncount"} => pages[Boot].prot # "none"

\* While no task is between unlock and the drop of its guard the key is
\* PROT_NONE, unless the mprotect that should have hidden it failed.
HiddenAtRest ==
    fate = "up" /\ ~exposed /\ (\A t \in Tasks : at[t] \notin {"show", "count", "reading", "release", "uncount"})
    => pages[Boot].prot = "none"

\* Whoever is between operations, or was refused a buffer, keeps no page and
\* no charge against RLIMIT_MEMLOCK (the error paths of Region::alloc and drop).
NothingKept == Alive => \A a \in Owners : at[a] \in {"idle", "failed", "gone"} => pages[a] = Unmapped

\* Under Policy::Require a secret is never in pages other than secretmem.
SecretOnlyInSecretmem == policy = "require" => \A a \in Owners : pages[a].holds => pages[a].data = "secret"

\* Under Policy::BestEffort, with no call failing but for want of secretmem or
\* of lockable memory, every buffer is made: the fallback puts back the hole
\* that a refused MAP_FIXED removed (Region::alloc, reinstall_anonymous).
BestEffortServes == policy = "best" /\ host.faults = {} => \A a \in Owners : at[a] # "failed"

\* Pages go back to the kernel wiped, however their buffer ended.
WipedBeforeUnmap == [][\A a \in Owners : pages[a].data # "none" /\ pages'[a].data = "none" => ~pages[a].holds]_secVars

\* Past its length a SecretVec holds no byte of an earlier, longer content.
TailWiped == \A t \in Tasks : \A i \in 1 .. vec[t].cap : i > vec[t].len => vec[t].buf[i] = "0"
=============================================================================
