-------------------------- MODULE LocalStateProofs --------------------------
(***************************************************************************)
(* Proofs about what one machine keeps to itself: the token file of the    *)
(* command line (TokensSafe, for any number of processes, aliases and      *)
(* servers), the inode table of the mount (TableInverse, for any set of    *)
(* paths), and guarded memory (for any number of tasks, on any kernel and  *)
(* under either policy).                                                   *)
(*                                                                         *)
(* For the token file: the process between Lock and Rename holds the file  *)
(* lock, so the file it is about to publish differs from the published one *)
(* in its own entry only, and the temporary file it renames is the one it  *)
(* wrote.  For the table: every operation preserves Table and Mutual.  For *)
(* guarded memory: the inductive invariant ties what an owner's mapping is *)
(* to where the owner is, and the protection of the key's pages to the     *)
(* number of read guards alive on it.                                      *)
(***************************************************************************)
EXTENDS Profiles, InodeTable, SecretMemory, FiniteSetTheorems, TLAPS

Destinations == Targets \cup {NoTarget}
Files == [AliasNames -> Destinations]
Process ==
    [cmd : CommandNames \cup {"none"}, name : AliasNames \cup {NoTarget}, to : Destinations,
     pc : {"idle", "save", "login", "token", "lock", "load", "write", "rename", "done"},
     conf : Files \cup {NoTarget}, tok : Destinations, clears : SUBSET AliasNames, file : Files \cup {NoTarget}]

\* What a process at r may rely on, given the token file, the temporary file and the lock.
Relies(p, r, tk, tm, lk) ==
    /\ r.pc # "idle" => r.name \in AliasNames
    /\ r.pc = "save" => r.conf \in Files
    /\ r.clears \subseteq {r.name}
    /\ r.pc \in {"load", "write", "rename"} => lk = p
    /\ r.pc \in {"write", "rename"} => r.file \in Files /\ \A n \in AliasNames : n # r.name => r.file[n] = tk[n]
    /\ r.pc = "rename" => tm = r.file

FilesTyped == config \in Files /\ tokens \in Files /\ tmp \in Files \cup {NoTarget, Torn} /\ lock \in Procs \cup {NoTarget}

\* The inductive invariant.
ProfilesInv ==
    /\ FilesTyped
    /\ procs \in [Procs -> Process]
    /\ \A p \in Procs : Relies(p, procs[p], tokens, tmp, lock)

LEMMA IdleProcess == Idle \in Process
  BY ProfilesAssumption DEF Idle, Process, Destinations, CommandNames

LEMMA InitInv == ProfilesInit([AliasNames -> Targets \cup {NoTarget}]) => ProfilesInv
<1> SUFFICES ASSUME ProfilesInit([AliasNames -> Targets \cup {NoTarget}]) PROVE ProfilesInv
  OBVIOUS
<1>1. FilesTyped
  BY DEF ProfilesInit, FilesTyped, Files, Destinations
<1>2. procs \in [Procs -> Process]
  BY IdleProcess DEF ProfilesInit
<1>3. \A p \in Procs : Relies(p, procs[p], tokens, tmp, lock)
  BY DEF ProfilesInit, Relies, Idle
<1> QED BY <1>1, <1>2, <1>3 DEF ProfilesInv

\* One process steps.  The others notice only when the lock was theirs to lose.
LEMMA OneSteps ==
    ASSUME ProfilesInv, NEW p \in Procs, FilesTyped',
           procs' = [procs EXCEPT ![p] = procs'[p]], procs'[p] \in Process,
           Relies(p, procs'[p], tokens', tmp', lock'),
           lock \in {p, NoTarget} \/ UNCHANGED <<tokens, tmp, lock>>
    PROVE  ProfilesInv'
<1>1. procs' \in [Procs -> Process]
  BY DEF ProfilesInv
<1>2. ASSUME NEW q \in Procs, q # p
      PROVE  Relies(q, procs'[q], tokens', tmp', lock')
  <2>1. procs'[q] = procs[q] /\ Relies(q, procs[q], tokens, tmp, lock)
    BY <1>2 DEF ProfilesInv
  <2>2. CASE UNCHANGED <<tokens, tmp, lock>>
    BY <2>1, <2>2
  <2>3. CASE lock \in {p, NoTarget}
    <3>1. procs[q].pc \notin {"load", "write", "rename"}
      BY <1>2, <2>1, <2>3, ProfilesAssumption DEF Relies
    <3> QED BY <2>1, <3>1 DEF Relies
  <2> QED BY <2>2, <2>3
<1>3. \A q \in Procs : Relies(q, procs'[q], tokens', tmp', lock')
  BY <1>2
<1> QED BY <1>1, <1>3 DEF ProfilesInv

\* What the invariant says of one process.
LEMMA Known ==
    ASSUME ProfilesInv, NEW p \in Procs
    PROVE  procs[p] \in Process /\ Relies(p, procs[p], tokens, tmp, lock) /\ FilesTyped /\ DOMAIN procs = Procs
  BY DEF ProfilesInv

\* update_tokens changes the entry of the command's own alias at most.
LEMMA UpdateKeepsOthers ==
    ASSUME NEW p \in Procs, ProfilesInv, procs[p].pc # "idle"
    PROVE  /\ update_tokens(procs[p]) \in Files
           /\ \A n \in AliasNames : n # procs[p].name => update_tokens(procs[p])[n] = tokens[n]
  BY Known DEF update_tokens, Relies, Process, FilesTyped, Files, Destinations

\* Every step of a process keeps the invariant.
LEMMA StepInv == ProfilesInv /\ [ProfilesNext]_profileVars => ProfilesInv'
<1> SUFFICES ASSUME ProfilesInv, [ProfilesNext]_profileVars PROVE ProfilesInv'
  OBVIOUS
<1> USE ProfilesAssumption
<1>0. CASE UNCHANGED profileVars
  BY <1>0 DEF profileVars, ProfilesInv, FilesTyped
<1>1. ASSUME NEW p \in Procs, NEW cmd \in Commands[p], NEW name \in AliasNames, NEW to \in Targets, Start(p, cmd, name, to)
      PROVE  ProfilesInv'
  <2> DEFINE conf == IF cmd \in {"set", "remove"} THEN config ELSE NoTarget
             goes == IF cmd = "set" THEN to ELSE config[name]
             next == CASE cmd \in {"set", "remove"} -> "save" [] cmd = "login" -> "login" [] OTHER -> "token"
             r == [cmd |-> cmd, name |-> name, to |-> goes, pc |-> next, conf |-> conf, tok |-> NoTarget, clears |-> {}, file |-> NoTarget]
  <2>1. cmd \in CommandNames /\ conf \in Files \cup {NoTarget} /\ goes \in Destinations /\ next \in {"save", "login", "token"}
    BY <1>1, Known DEF FilesTyped, Files, Destinations, CommandNames
  <2>2. next = "save" => conf \in Files
    BY Known DEF FilesTyped
  <2>3. procs' = [procs EXCEPT ![p] = r]
    BY <1>1 DEF Start
  <2> HIDE DEF conf, goes, next
  <2>4. r \in Process /\ Relies(p, r, tokens, tmp, lock)
    BY <2>1, <2>2 DEF Process, Relies, Destinations
  <2>5. procs'[p] = r /\ procs' = [procs EXCEPT ![p] = procs'[p]]
    BY <2>3, Known, Zenon
  <2>6. FilesTyped' /\ UNCHANGED <<tokens, tmp, lock>>
    BY <1>1, Known DEF Start, FilesTyped
  <2> QED BY <2>4, <2>5, <2>6, OneSteps
<1>2. ASSUME NEW p \in Procs, SaveConfig(p) PROVE ProfilesInv'
  <2> DEFINE c == procs[p]
             rebound == c.cmd = "remove" \/ c.conf[c.name] # c.to
             next == IF rebound THEN "lock" ELSE "done"
             gone == IF rebound THEN {c.name} ELSE {}
             r == [c EXCEPT !.pc = next, !.conf = NoTarget, !.clears = gone]
  <2>1. c \in Process /\ c.name \in AliasNames /\ c.conf \in Files
    BY <1>2, Known DEF SaveConfig, Relies
  <2>2. procs' = [procs EXCEPT ![p] = r] /\ UNCHANGED <<tokens, tmp, lock>>
    BY <1>2 DEF SaveConfig
  <2>3. FilesTyped'
    BY <1>2, <2>1, Known DEF SaveConfig, FilesTyped, Files, Destinations, Process
  <2>4. next \in {"lock", "done"} /\ gone \subseteq {c.name} /\ gone \subseteq AliasNames
    BY <2>1
  <2> HIDE DEF next, gone
  <2>5. r \in Process /\ r.name = c.name /\ r.pc = next /\ r.clears = gone
    BY <2>1, <2>4, Zenon DEF Process
  <2> HIDE DEF r
  <2>6. Relies(p, r, tokens, tmp, lock)
    BY <2>1, <2>4, <2>5 DEF Relies
  <2> QED BY <2>2, <2>3, <2>5, <2>6, Known, OneSteps, Zenon
<1>3. ASSUME NEW p \in Procs, login(p) PROVE ProfilesInv'
  <2> DEFINE c == procs[p]
             r == [c EXCEPT !.pc = "lock", !.tok = c.to]
  <2>1. c \in Process /\ Relies(p, c, tokens, tmp, lock) /\ c.pc = "login" /\ FilesTyped' /\ UNCHANGED <<tokens, tmp, lock>>
    BY <1>3, Known DEF login, FilesTyped
  <2>2. procs' = [procs EXCEPT ![p] = r]
    BY <1>3 DEF login
  <2>3. r \in Process /\ r.pc = "lock" /\ r.name = c.name /\ r.clears = c.clears
    BY <2>1, Zenon DEF Process
  <2> HIDE DEF r
  <2>4. Relies(p, r, tokens, tmp, lock)
    BY <2>1, <2>3 DEF Relies
  <2> QED BY <2>1, <2>2, <2>3, <2>4, Known, OneSteps
<1>4. ASSUME NEW p \in Procs, Present(p) PROVE ProfilesInv'
  <2> DEFINE c == procs[p]
             next == IF c.cmd = "logout" THEN "lock" ELSE "done"
             gone == IF c.cmd = "logout" THEN {c.name} ELSE {}
             r == [c EXCEPT !.pc = next, !.clears = gone]
  <2>1. c \in Process /\ c.name \in AliasNames /\ FilesTyped' /\ UNCHANGED <<tokens, tmp, lock>>
    BY <1>4, Known DEF Present, FilesTyped, Relies
  <2>2. procs' = [procs EXCEPT ![p] = r]
    BY <1>4 DEF Present
  <2>4. next \in {"lock", "done"} /\ gone \subseteq {c.name} /\ gone \subseteq AliasNames
    BY <2>1
  <2> HIDE DEF next, gone
  <2>5. r \in Process /\ r.name = c.name /\ r.pc = next /\ r.clears = gone
    BY <2>1, <2>4, Zenon DEF Process
  <2> HIDE DEF r
  <2>6. Relies(p, r, tokens, tmp, lock)
    BY <2>1, <2>4, <2>5 DEF Relies
  <2> QED BY <2>1, <2>2, <2>5, <2>6, Known, OneSteps, Zenon
<1>5. ASSUME NEW p \in Procs, Lock(p) PROVE ProfilesInv'
  <2> DEFINE c == procs[p]
             r == [c EXCEPT !.pc = "load"]
  <2>1. c \in Process /\ Relies(p, c, tokens, tmp, lock) /\ c.pc = "lock" /\ lock = NoTarget
    BY <1>5, Known DEF Lock, acquire
  <2>2. procs' = [procs EXCEPT ![p] = r] /\ lock' = p /\ UNCHANGED <<tokens, tmp>> /\ FilesTyped'
    BY <1>5, Known DEF Lock, acquire, Set, FilesTyped
  <2>3. r \in Process /\ r.pc = "load" /\ r.name = c.name /\ r.clears = c.clears
    BY <2>1 DEF Process
  <2> HIDE DEF r
  <2>4. Relies(p, r, tokens', tmp', lock')
    BY <2>1, <2>2, <2>3 DEF Relies
  <2> QED BY <2>1, <2>2, <2>3, <2>4, Known, OneSteps
<1>6. ASSUME NEW p \in Procs, Load(p) PROVE ProfilesInv'
  <2> DEFINE c == procs[p]
             new == update_tokens(c)
             r == [c EXCEPT !.pc = "write", !.clears = {}, !.tok = NoTarget, !.to = NoTarget, !.file = new]
  <2>1. c \in Process /\ Relies(p, c, tokens, tmp, lock) /\ c.pc = "load" /\ FilesTyped' /\ UNCHANGED <<tokens, tmp, lock>>
    BY <1>6, Known DEF Load, FilesTyped
  <2>2. procs' = [procs EXCEPT ![p] = r]
    BY <1>6 DEF Load
  <2>3. new \in Files /\ \A n \in AliasNames : n # c.name => new[n] = tokens[n]
    BY <2>1, UpdateKeepsOthers
  <2> HIDE DEF new
  <2>4. r \in Process /\ r.pc = "write" /\ r.name = c.name /\ r.clears = {} /\ r.file = new
    BY <2>1, <2>3, Zenon DEF Process, Destinations
  <2> HIDE DEF r
  <2>5. Relies(p, r, tokens, tmp, lock)
    BY <2>1, <2>3, <2>4 DEF Relies
  <2> QED BY <2>1, <2>2, <2>4, <2>5, Known, OneSteps, Zenon
<1>7. ASSUME NEW p \in Procs, WriteTmp(p) PROVE ProfilesInv'
  <2> DEFINE c == procs[p]
             r == [c EXCEPT !.pc = "rename"]
  <2>1. c \in Process /\ Relies(p, c, tokens, tmp, lock) /\ c.pc = "write" /\ lock = p /\ c.file \in Files
    BY <1>7, Known DEF WriteTmp, Relies
  <2>2. UNCHANGED <<tokens, lock, config>>
    BY <1>7 DEF WriteTmp
  <2>3. CASE tmp' = Torn /\ UNCHANGED procs
    <3>1. FilesTyped' /\ Relies(p, procs'[p], tokens', tmp', lock')
      BY <2>1, <2>2, <2>3, Known DEF FilesTyped, Relies
    <3>2. procs' = [procs EXCEPT ![p] = procs'[p]] /\ procs'[p] \in Process
      BY <2>1, <2>3 DEF ProfilesInv
    <3> QED BY <2>1, <3>1, <3>2, OneSteps
  <2>4. CASE tmp' = c.file /\ procs' = [procs EXCEPT ![p] = r]
    <3>1. r \in Process /\ r.pc = "rename" /\ r.name = c.name /\ r.clears = c.clears /\ r.file = c.file
      BY <2>1 DEF Process
    <3> HIDE DEF r
    <3>2. FilesTyped' /\ Relies(p, r, tokens', tmp', lock')
      BY <2>1, <2>2, <2>4, <3>1, Known, Zenon DEF FilesTyped, Relies
    <3> QED BY <2>1, <2>4, <3>1, <3>2, Known, OneSteps, Zenon
  <2> QED BY <1>7, <2>3, <2>4 DEF WriteTmp, Set
<1>8. ASSUME NEW p \in Procs, Rename(p) PROVE ProfilesInv'
  <2> DEFINE c == procs[p]
             r == [c EXCEPT !.pc = "done", !.file = NoTarget]
  <2>1. c \in Process /\ Relies(p, c, tokens, tmp, lock) /\ c.pc = "rename" /\ lock = p /\ tmp = c.file /\ tmp \in Files
    BY <1>8, Known DEF Rename, Relies
  <2>2. procs' = [procs EXCEPT ![p] = r] /\ tokens' = tmp /\ tmp' = NoTarget /\ lock' = NoTarget /\ config' = config
    BY <1>8 DEF Rename
  <2>3. r \in Process /\ r.pc = "done" /\ r.name = c.name /\ r.clears = c.clears
    BY <2>1 DEF Process
  <2> HIDE DEF r
  <2>4. FilesTyped' /\ Relies(p, r, tokens', tmp', lock')
    BY <2>1, <2>2, <2>3, Known DEF FilesTyped, Relies
  <2> QED BY <2>1, <2>2, <2>3, <2>4, Known, OneSteps, Zenon
<1>9. ASSUME NEW p \in Procs, Exit(p) PROVE ProfilesInv'
  <2>1. procs' = [procs EXCEPT ![p] = Idle] /\ FilesTyped' /\ UNCHANGED tokens
    BY <1>9, Known DEF Exit, FilesTyped
  <2>2. Relies(p, Idle, tokens', tmp', lock')
    BY DEF Relies, Idle
  <2>3. lock \in {p, NoTarget} \/ UNCHANGED <<tokens, tmp, lock>>
    BY <1>9, Known DEF Exit, Relies
  <2> QED BY <2>1, <2>2, <2>3, IdleProcess, Known, OneSteps, Zenon
<1> QED BY <1>0, <1>1, <1>2, <1>3, <1>4, <1>5, <1>6, <1>7, <1>8, <1>9 DEF ProfilesNext

\* One step of TokensSafe.
SafeStep ==
    /\ tokens' # Torn
    /\ \A n \in AliasNames : tokens'[n] # tokens[n] =>
         \E p \in Procs : procs[p].pc = "rename" /\ procs'[p].pc = "done" /\ procs[p].name = n
    /\ sent' \notin {sent, <<>>} /\ sent'[1] = "request" => sent'[2] = sent'[3]

\* A token file is never the torn one: it has other entries.
LEMMA WholeIsNotTorn == ASSUME NEW f \in Files PROVE f # Torn
<1>1. DOMAIN f = AliasNames /\ DOMAIN Torn = {"torn"}
  BY DEF Files, Torn
<1> QED BY <1>1, ProfilesAssumption

LEMMA StepSafe == ProfilesInv /\ ProfilesInv' /\ [ProfilesNext]_profileVars => SafeStep
<1> SUFFICES ASSUME ProfilesInv, ProfilesInv', [ProfilesNext]_profileVars PROVE SafeStep
  OBVIOUS
<1>1. tokens' # Torn
  BY WholeIsNotTorn DEF ProfilesInv, FilesTyped
<1>2. CASE UNCHANGED profileVars
  BY <1>1, <1>2 DEF SafeStep, profileVars
<1>3. ASSUME NEW p \in Procs, Rename(p) PROVE SafeStep
  <2>1. tokens' = procs[p].file /\ procs[p].pc = "rename" /\ sent' = sent
    BY <1>3, Known DEF Rename, Relies
  <2>2. \A n \in AliasNames : tokens'[n] # tokens[n] => procs[p].name = n
    BY <2>1, Known DEF Relies
  <2>3. procs'[p].pc = "done"
    BY <1>3, Known DEF Rename, Process
  <2> QED BY <1>1, <2>1, <2>2, <2>3 DEF SafeStep
<1>4. ASSUME NEW p \in Procs, Present(p) PROVE SafeStep
  <2> DEFINE c == procs[p]
             bound == token_for_bound(c.name, c.to)
             token == IF c.cmd = "logout" /\ bound = NoTarget THEN tokens[c.name] ELSE bound
  <2>1. sent' = IF token = NoTarget THEN sent ELSE <<c.cmd, token, c.to>>
    BY <1>4 DEF Present
  <2>2. c.cmd = "request" /\ token # NoTarget => token = c.to
    BY DEF token_for_bound
  <2> HIDE DEF token
  <2>3. sent' \notin {sent, <<>>} /\ sent'[1] = "request" => sent'[2] = sent'[3]
    BY <2>1, <2>2
  <2>4. tokens' = tokens
    BY <1>4 DEF Present
  <2> QED BY <1>1, <2>3, <2>4 DEF SafeStep
<1>5. ASSUME NEW p \in Procs, SaveConfig(p) \/ login(p) \/ Lock(p) \/ Load(p) \/ WriteTmp(p) \/ Exit(p) PROVE SafeStep
  <2>1. tokens' = tokens /\ sent' = sent
    BY <1>5 DEF SaveConfig, login, Lock, Load, WriteTmp, Exit
  <2> QED BY <1>1, <2>1 DEF SafeStep
<1>6. ASSUME NEW p \in Procs, NEW cmd \in Commands[p], NEW name \in AliasNames, NEW to \in Targets, Start(p, cmd, name, to)
      PROVE  SafeStep
  <2>1. tokens' = tokens /\ sent' = <<>>
    BY <1>6 DEF Start
  <2> QED BY <1>1, <2>1 DEF SafeStep
<1> QED BY <1>2, <1>3, <1>4, <1>5, <1>6 DEF ProfilesNext

\* The inductive invariant holds always: the lock serialises the writers of tokens.toml, and what the lock's holder is
\* about to publish is the published file with its own entry changed.
THEOREM LockedUpdate == ProfilesSpec => []ProfilesInv
  BY InitInv, StepInv, PTL DEF ProfilesSpec

\* The client's token file, for any number of processes, aliases and servers: it stays whole, an update changes the entry
\* of its own alias only, and a request carries a token only to the address and user it was minted for.
THEOREM TokensAreSafe == ProfilesSpec => TokensSafe
<1>1. ProfilesInv /\ ProfilesInv' /\ [ProfilesNext]_profileVars => [SafeStep]_profileVars
  BY StepSafe
<1>2. ProfilesSpec => [][SafeStep]_profileVars
  BY <1>1, LockedUpdate, PTL DEF ProfilesSpec
<1> QED BY <1>2 DEF TokensSafe, SafeStep

-----------------------------------------------------------------------------
(* The inode table.                                                        *)

TableOK(t) == t \in Table /\ Mutual(t)

\* A table field by field, as the provers take it.
Fields(n, byIno, byPath, meta, fresh) ==
    [next |-> n, byIno |-> byIno, byPath |-> byPath, meta |-> meta, fresh |-> fresh]

\* A record is in Table when its fields have their types.
LEMMA FieldsOK ==
    ASSUME NEW n \in 2..(MaxIno + 1), NEW byIno \in [Inos -> Paths \cup {NoPath}],
           NEW byPath \in [Paths -> 0..MaxIno], NEW meta \in [Inos -> Metas \cup {NoMeta}],
           NEW fresh \in [Inos -> BOOLEAN]
    PROVE  Fields(n, byIno, byPath, meta, fresh) \in Table
  BY DEF Fields, Table

\* And the other way round.
LEMMA FieldTypes ==
    ASSUME NEW t \in Table
    PROVE  /\ t.next \in 2..(MaxIno + 1) /\ t.byIno \in [Inos -> Paths \cup {NoPath}]
           /\ t.byPath \in [Paths -> 0..MaxIno] /\ t.meta \in [Inos -> Metas \cup {NoMeta}]
           /\ t.fresh \in [Inos -> BOOLEAN]
  BY DEF Table

\* NewTable maps the root to inode 1 and nothing else.
LEMMA NewOK == TableOK(NewTable)
<1>1. 1 \in Inos /\ 2 \in 2..(MaxIno + 1) /\ 1 \in 0..MaxIno /\ 0 \in 0..MaxIno
  BY TableAssumption DEF Inos
<1>2. NewTable \in Table
  BY <1>1, TableAssumption DEF NewTable, Table, RootIno
<1>3. Mutual(NewTable)
  <2>1. \A p \in Paths : NewTable.byPath[p] # 0 => p = Root /\ NewTable.byPath[p] = 1
    BY DEF NewTable, RootIno
  <2>2. \A i \in Inos : NewTable.byIno[i] # NoPath => i = 1
    BY DEF NewTable, RootIno
  <2>3. NewTable.byIno[1] = Root /\ NewTable.byPath[Root] = 1 /\ NewTable.next = 2
    BY <1>1, TableAssumption DEF NewTable, RootIno
  <2>4. \A i \in Inos : i >= 2 => i # 1
    BY DEF Inos
  <2> QED BY <2>1, <2>2, <2>3, <2>4 DEF Mutual
<1> QED BY <1>2, <1>3 DEF TableOK

\* get_or_assign hands out a number that neither map holds.
LEMMA AssignOK ==
    ASSUME NEW t, TableOK(t), HasRoom(t), NEW p \in Paths
    PROVE  TableOK(GetOrAssign(t, p))
<1>1. CASE t.byPath[p] # 0
  BY <1>1 DEF GetOrAssign
<1>2. CASE t.byPath[p] = 0
  <2>1. /\ t.next \in Inos /\ t.byIno[t.next] = NoPath
        /\ t.next \in 0..MaxIno /\ t.next + 1 \in 2..(MaxIno + 1)
    BY FieldTypes, TableAssumption DEF TableOK, Mutual, HasRoom, Inos
  <2>f. GetOrAssign(t, p) = Fields(t.next + 1, [t.byIno EXCEPT ![t.next] = p], [t.byPath EXCEPT ![p] = t.next],
                                   t.meta, t.fresh)
    BY <1>2 DEF TableOK, Table, Fields, GetOrAssign
  <2>2. GetOrAssign(t, p) \in Table
    BY <2>1, <2>f, FieldTypes, FieldsOK DEF TableOK
  <2>3. Mutual(GetOrAssign(t, p))
    <3> DEFINE u == GetOrAssign(t, p)
    <3>1. /\ u.next = t.next + 1
          /\ u.byIno = [t.byIno EXCEPT ![t.next] = p]
          /\ u.byPath = [t.byPath EXCEPT ![p] = t.next]
      BY <2>f DEF Fields
    <3>2. /\ t.next \in Nat /\ t.byIno \in [Inos -> Paths \cup {NoPath}] /\ t.byPath \in [Paths -> 0..MaxIno]
          /\ t.next # 0 /\ NoPath \notin Paths
      BY FieldTypes, TableAssumption DEF TableOK
    <3> HIDE DEF u
    <3>3. \A q \in Paths : u.byPath[q] # 0 => u.byIno[u.byPath[q]] = q
      <4> SUFFICES ASSUME NEW q \in Paths, u.byPath[q] # 0 PROVE u.byIno[u.byPath[q]] = q
        OBVIOUS
      <4>1. CASE q = p
        BY <2>1, <3>1, <3>2, <4>1
      <4>2. CASE q # p
        <5>1. u.byPath[q] = t.byPath[q] /\ t.byIno[t.byPath[q]] = q
          BY <3>1, <3>2, <4>2 DEF TableOK, Mutual
        <5> QED BY <2>1, <3>1, <3>2, <4>2, <5>1 DEF Inos
      <4> QED BY <4>1, <4>2
    <3>4. \A i \in Inos : u.byIno[i] # NoPath => u.byPath[u.byIno[i]] = i
      <4> SUFFICES ASSUME NEW i \in Inos, u.byIno[i] # NoPath PROVE u.byPath[u.byIno[i]] = i
        OBVIOUS
      <4>1. CASE i = t.next
        BY <2>1, <3>1, <3>2, <4>1
      <4>2. CASE i # t.next
        <5>1. u.byIno[i] = t.byIno[i] /\ t.byIno[i] \in Paths
          BY <3>1, <3>2, <4>2
        <5>2. t.byPath[t.byIno[i]] = i /\ i # 0
          BY <5>1 DEF TableOK, Mutual, Inos
        <5>3. t.byIno[i] # p
          BY <1>2, <5>2
        <5> QED BY <3>1, <3>2, <5>1, <5>2, <5>3
      <4> QED BY <4>1, <4>2
    <3>5. \A i \in Inos : i >= u.next => u.byIno[i] = NoPath
      BY <3>1, <3>2 DEF TableOK, Mutual, Inos
    <3> QED BY <3>3, <3>4, <3>5 DEF u, Mutual
  <2> QED BY <2>2, <2>3 DEF TableOK
<1> QED BY <1>1, <1>2

\* Metadata is no part of the maps.
LEMMA MetaOK ==
    ASSUME NEW t, TableOK(t), NEW i \in Inos, NEW m \in Metas \cup {NoMeta}, NEW b \in BOOLEAN
    PROVE  TableOK(SetMeta(t, i, m, b))
  BY TableAssumption, Zenon DEF TableOK, Table, Mutual, Inos, SetMeta

\* repath drops the inode that had the target path, and only that one.
LEMMA RepathOK ==
    ASSUME NEW t, TableOK(t), NEW from \in Paths, NEW to \in Paths
    PROVE  TableOK(Repath(t, from, to))
<1> DEFINE i == t.byPath[from]
           old == IF to = from THEN 0 ELSE t.byPath[to]
           moved == [t EXCEPT !.byIno = [t.byIno EXCEPT ![i] = to],
                              !.byPath = [t.byPath EXCEPT ![from] = 0, ![to] = i]]
<1>1. CASE i = 0
  BY <1>1 DEF Repath
<1>2. CASE i # 0
  <2>1. /\ i \in Inos /\ i < t.next /\ t.byIno[i] = from /\ old \in 0..MaxIno
        /\ old # 0 => old \in Inos /\ old # i /\ old < t.next /\ t.byIno[old] = to
    BY <1>2, TableAssumption DEF TableOK, Table, Mutual, Inos
  <2>2. /\ moved \in Table /\ moved.next = t.next
        /\ moved.byIno = [t.byIno EXCEPT ![i] = to]
        /\ moved.byPath = [t.byPath EXCEPT ![from] = 0, ![to] = i]
    <3>1. i \in 0..MaxIno /\ 0 \in 0..MaxIno
      BY <2>1, TableAssumption DEF Inos
    <3>2. /\ [t.byIno EXCEPT ![i] = to] \in [Inos -> Paths \cup {NoPath}]
          /\ [t.byPath EXCEPT ![from] = 0, ![to] = i] \in [Paths -> 0..MaxIno]
      BY <2>1, <3>1, FieldTypes DEF TableOK
    <3> DEFINE ino == [t.byIno EXCEPT ![i] = to]
               path == [t.byPath EXCEPT ![from] = 0, ![to] = i]
    <3>3. t \in Table /\ ino \in [Inos -> Paths \cup {NoPath}] /\ path \in [Paths -> 0..MaxIno]
      BY <3>2 DEF TableOK
    <3>4. moved = [t EXCEPT !.byIno = ino, !.byPath = path]
      OBVIOUS
    <3> HIDE DEF ino, path, moved
    <3>5. moved \in Table
      BY <3>3, <3>4, Zenon DEF Table
    <3>6. moved.byIno = ino
      BY <3>3, <3>4 DEF Table
    <3>7. moved.byPath = path
      BY <3>3, <3>4 DEF Table
    <3>8. moved.next = t.next
      BY <3>3, <3>4 DEF Table
    <3> QED BY <3>5, <3>6, <3>7, <3>8 DEF ino, path
  <2>3. CASE old = 0
    <3>1. Repath(t, from, to) = moved
      BY <1>2, <2>3 DEF Repath
    <3>2. Mutual(moved)
      BY <1>2, <2>1, <2>3, TableAssumption DEF TableOK, Table, Mutual, Inos
    <3> QED BY <2>2, <3>1, <3>2 DEF TableOK
  <2>4. CASE old # 0
    <3>1. Repath(t, from, to) = Drop(moved, old)
      BY <1>2, <2>4, Zenon DEF Repath
    <3>2. Drop(moved, old) \in Table
      BY <2>1, <2>2, <2>4 DEF Table, Drop, Inos
    <3>3. Mutual(Drop(moved, old))
      <4> DEFINE ino == [t.byIno EXCEPT ![i] = to, ![old] = NoPath]
                 path == [t.byPath EXCEPT ![from] = 0, ![to] = i]
      <4>1. /\ Drop(moved, old).byIno = ino /\ Drop(moved, old).byPath = path
            /\ Drop(moved, old).next = t.next
        BY <2>1, <2>2, <2>4, FieldTypes DEF Drop
      <4>2. to # from
        BY <2>4
      <4>3. \A p \in Paths : path[p] # 0 => ino[path[p]] = p
        <5> SUFFICES ASSUME NEW p \in Paths, path[p] # 0 PROVE ino[path[p]] = p
          OBVIOUS
        <5>1. CASE p = to
          BY <2>1, <2>4, <4>2, <5>1, FieldTypes, Zenon DEF TableOK
        <5>2. CASE p # to
          <6>1. p # from /\ path[p] = t.byPath[p] /\ t.byPath[p] \in Inos
            BY <2>1, <4>2, <5>2, FieldTypes, TableAssumption DEF TableOK, Inos
          <6>2. t.byIno[t.byPath[p]] = p
            BY <6>1 DEF TableOK, Mutual
          <6>3. t.byPath[p] # i /\ t.byPath[p] # old
            BY <2>1, <2>4, <5>2, <6>1, <6>2, Zenon
          <6> QED BY <2>1, <6>1, <6>2, <6>3, FieldTypes, Zenon DEF TableOK
        <5> QED BY <5>1, <5>2
      <4>4. \A j \in Inos : ino[j] # NoPath => path[ino[j]] = j
        BY SMTT(20), Zenon, <1>2, <2>1, <2>4, <4>2, FieldTypes, TableAssumption DEF TableOK, Mutual, Inos
      <4>5. \A j \in Inos : j >= t.next => ino[j] = NoPath
        BY <2>1, <2>4, FieldTypes, TableAssumption DEF TableOK, Mutual, Inos
      <4> HIDE DEF ino, path
      <4> QED BY <4>1, <4>3, <4>4, <4>5, Zenon DEF Mutual
    <3> QED BY <3>1, <3>2, <3>3 DEF TableOK
  <2> QED BY <2>3, <2>4
<1> QED BY <1>1, <1>2

\* remove takes an inode out of both maps.
LEMMA RemoveOK ==
    ASSUME NEW t, TableOK(t), NEW i \in Inos
    PROVE  TableOK(Remove(t, i))
<1>1. CASE t.byIno[i] = NoPath
  BY <1>1 DEF Remove
<1>2. CASE t.byIno[i] # NoPath
  <2>1. t.byIno[i] \in Paths /\ Remove(t, i) = Drop([t EXCEPT !.byPath[t.byIno[i]] = 0], i)
    BY <1>2 DEF TableOK, Table, Remove
  <2>2. Remove(t, i) \in Table
    <3>1. Remove(t, i) = Fields(t.next, [t.byIno EXCEPT ![i] = NoPath], [t.byPath EXCEPT ![t.byIno[i]] = 0],
                                [t.meta EXCEPT ![i] = NoMeta], [t.fresh EXCEPT ![i] = FALSE])
      BY <2>1, Zenon DEF TableOK, Table, Drop, Fields
    <3>2. 0 \in 0..MaxIno
      BY TableAssumption
    <3>3. /\ [t.byIno EXCEPT ![i] = NoPath] \in [Inos -> Paths \cup {NoPath}]
          /\ [t.byPath EXCEPT ![t.byIno[i]] = 0] \in [Paths -> 0..MaxIno]
          /\ [t.meta EXCEPT ![i] = NoMeta] \in [Inos -> Metas \cup {NoMeta}]
          /\ [t.fresh EXCEPT ![i] = FALSE] \in [Inos -> BOOLEAN]
          /\ t.next \in 2..(MaxIno + 1)
      BY <2>1, <3>2, FieldTypes DEF TableOK
    <3> QED BY <3>1, <3>3 DEF Fields, Table
  <2>3. Mutual(Remove(t, i))
    BY <1>2, <2>1, TableAssumption DEF TableOK, Table, Mutual, Inos, Drop
  <2> QED BY <2>2, <2>3 DEF TableOK
<1> QED BY <1>1, <1>2

\* Whatever the handlers do to the table, a path and an inode name each other.
THEOREM TableSpecInverse == TableSpec => []TableInverse
<1>1. TableInit => TableOK(table)
  BY NewOK DEF TableInit
<1>2. TableOK(table) /\ [TableNext]_table => TableOK(table)'
  <2> SUFFICES ASSUME TableOK(table), [TableNext]_table PROVE TableOK(table)'
    OBVIOUS
  <2>1. ASSUME NEW p \in Paths, HasRoom(table), table' = GetOrAssign(table, p) PROVE TableOK(table)'
    BY <2>1, AssignOK
  <2>2. ASSUME NEW i \in Inos, NEW m \in Metas \cup {NoMeta}, NEW b \in BOOLEAN,
               table' = SetMeta(table, i, m, b) PROVE TableOK(table)'
    BY <2>2, MetaOK
  <2>3. ASSUME NEW from \in Paths, NEW to \in Paths, table' = Repath(table, from, to) PROVE TableOK(table)'
    BY <2>3, RepathOK
  <2>4. ASSUME NEW i \in Inos, table' = Remove(table, i) PROVE TableOK(table)'
    BY <2>4, RemoveOK
  <2>5. CASE UNCHANGED table
    BY <2>5
  <2> QED BY <2>1, <2>2, <2>3, <2>4, <2>5 DEF TableNext
<1>3. TableOK(table) => TableInverse
  BY DEF TableOK, TableInverse
<1> QED BY <1>1, <1>2, <1>3, PTL DEF TableSpec
-----------------------------------------------------------------------------

AllocAt == {"secretmem", "reinstall", "unprotect", "mlock", "ready"}
GuardAt == {"reading", "release", "uncount"}
MutexAt == {"show", "count", "uncount"}
BareAt  == {"harden", "idle", "failed", "gone", "reserve", "unlock", "show", "count"} \cup GuardAt
Places  == AllocAt \cup BareAt \cup {"kept", "drop", "unmap", "crypt", "sealed", "opened"}

Page == [base : BOOLEAN, data : {"none", "reserved", "secret", "anon"}, prot : {"none", "r", "rw"},
         locked : BOOLEAN, holds : BOOLEAN]
Byte  == {"0", "p", "c", "t"}
Works == {"none", "probe", "key", "stop"} \cup Kinds

Guards == {t \in Tasks : at[t] \in GuardAt}

TypeInv ==
    /\ host \in Hosts
    /\ pages \in [Owners -> Page]
    /\ at \in [Owners -> Places]
    /\ vec = [t \in Tasks |-> vec[t]]
    /\ work \in [Owners -> Works]
    /\ active \in Nat
    /\ holder \in Tasks \cup {Free}
    /\ at[Boot] \notin GuardAt \cup MutexAt \cup {"idle", "unlock", "crypt", "sealed", "opened"}
    /\ \A t \in Tasks : at[t] \notin {"harden", "gone", "kept"}

\* What an owner's mapping is, by where the owner is.
PagesFit ==
    \A a \in Owners :
       /\ at[a] \in BareAt => pages[a] = Unmapped
       /\ at[a] \in {"secretmem", "unprotect"} => pages[a].data # "none"
       /\ at[a] \in AllocAt \cup {"unmap"} => ~pages[a].holds

\* Under Require the fallback is never entered.
NoFallback ==
    policy = "require" => \A a \in Owners :
       /\ at[a] \notin {"reinstall", "unprotect", "mlock"}
       /\ at[a] = "ready" \/ pages[a].holds => pages[a].data = "secret"

\* Tasks run only while the key is kept.
KeyKept ==
    /\ fate = "up" => at[Boot] = "kept"
    /\ (\E t \in Tasks : at[t] # "idle") => at[Boot] = "kept"

\* The mutex and the count say where the tasks are.
Counted ==
    /\ \A t \in Tasks : holder = t <=> at[t] \in MutexAt
    /\ active = Cardinality(Guards)

\* The key's pages are readable exactly while some guard counts on it.
KeyShown ==
    /\ active > 0 \/ (\E t \in Tasks : at[t] = "count") => pages[Boot].prot # "none"
    /\ at[Boot] = "kept" /\ ~exposed /\ active = 0 /\ (\A t \in Tasks : at[t] # "count") => pages[Boot].prot = "none"

\* Without a failing call nothing sends an owner to the error paths.
Serves ==
    host.faults = {} =>
       /\ policy = "best" => \A a \in Owners : at[a] # "failed"
       /\ at[Boot] \in {"drop", "unmap"} => work[Boot] # "key"

\* A SecretVec's buffer is as long as its capacity, and clean past its length.
CleanVec(v) ==
    /\ v = [cap |-> v.cap, len |-> v.len, buf |-> v.buf]
    /\ v.cap \in Nat /\ v.len \in 0 .. v.cap /\ v.buf \in [1 .. v.cap -> Byte]
    /\ \A i \in 1 .. v.cap : i > v.len => v.buf[i] = "0"

VecFits == \A t \in Tasks : CleanVec(vec[t]) /\ (at[t] = "crypt" => vec[t].len > 0)

SecInv == TypeInv /\ PagesFit /\ NoFallback /\ KeyKept /\ Counted /\ KeyShown /\ Serves /\ VecFits

--------------------------------------------------------------------------
(* The count and the set of guards. *)

LEMMA GuardsCounted ==
    ASSUME SecInv
    PROVE  IsFiniteSet(Guards) /\ (active = 0 <=> Guards = {})
<1>1. IsFiniteSet(Guards)
  BY OwnersAssumption, FS_Subset DEF Guards
<1> QED BY <1>1, FS_EmptySet DEF SecInv, Counted

\* While the boot thread is not at rest no task is on its way.
LEMMA BootAlone ==
    ASSUME SecInv, at[Boot] # "kept"
    PROVE  active = 0 /\ \A t \in Tasks : at[t] = "idle"
<1>1. \A t \in Tasks : at[t] = "idle"
  BY DEF SecInv, KeyKept
<1>2. Guards = {}
  BY <1>1 DEF Guards, GuardAt
<1> QED BY <1>1, <1>2, GuardsCounted

LEMMA AnonymousPage ==
    ASSUME NEW x \in Page
    PROVE  /\ [x EXCEPT !.data = "anon", !.prot = "rw"] \in Page
           /\ [x EXCEPT !.data = "anon", !.prot = "rw"].holds = x.holds
<1> DEFINE y == [x EXCEPT !.data = "anon"]
           z == [y EXCEPT !.prot = "rw"]
<1>1. y \in Page /\ y.holds = x.holds
  BY Zenon DEF Page
<1>2. [x EXCEPT !.data = "anon", !.prot = "rw"] = z
  OBVIOUS
<1> HIDE DEF y
<1>3. z \in Page /\ z.holds = y.holds
  BY <1>1, Zenon DEF Page
<1> QED BY <1>1, <1>2, <1>3, Zenon

LEMMA UnmappedIsPage == Unmapped \in Page
BY DEF Unmapped, Page

--------------------------------------------------------------------------
(* Region::alloc. Every call of it either goes on with a mapping that holds
   no secret yet or fails with the whole reservation given back.          *)

AllocStep(a, q, s) ==
    /\ at[a] \in (AllocAt \ {"ready"}) \cup {"reserve"}
    /\ q \in Page
    /\ pages' = [pages EXCEPT ![a] = q]
    /\ at' = [at EXCEPT ![a] = s]
    /\ UNCHANGED <<host, policy, fate, taskVars>>
    /\ \/ s = "failed" /\ q = Unmapped /\ (policy = "best" => host.faults # {})
       \/ /\ s \in AllocAt /\ ~q.holds
          /\ s \in {"secretmem", "unprotect"} => q.data # "none"
          /\ policy = "require" => s \in {"secretmem", "ready"} /\ (s = "ready" => q.data = "secret")

LEMMA AllocStepKeeps ==
    ASSUME SecInv, NEW a \in Owners, NEW q, NEW s, AllocStep(a, q, s)
    PROVE  SecInv'
<1> USE OwnersAssumption DEF AllocStep
<1>a. /\ pages'[a] = q /\ at'[a] = s
      /\ \A b \in Owners \ {a} : pages'[b] = pages[b] /\ at'[b] = at[b]
  BY DEF SecInv, TypeInv
<1>b. a = Boot => active = 0 /\ \A t \in Tasks : at[t] = "idle"
  BY BootAlone DEF AllocAt
<1>1. TypeInv'
  BY Zenon DEF SecInv, TypeInv, Places, AllocAt, BareAt, GuardAt, MutexAt, Owners, taskVars
<1>2. PagesFit'
  BY <1>a DEF SecInv, PagesFit, AllocAt, BareAt, GuardAt
<1>3. NoFallback'
  BY <1>a, UnmappedIsPage DEF SecInv, NoFallback, AllocAt, Unmapped
<1>4. KeyKept'
  BY <1>a, Zenon DEF SecInv, KeyKept, TypeInv, AllocAt, Owners
<1>5. Counted'
  <2>1. Guards' = Guards
    BY <1>a, Zenon DEF Guards, GuardAt, AllocAt, Owners
  <2> QED BY <1>a, <2>1, Zenon DEF SecInv, Counted, MutexAt, AllocAt, Owners, taskVars
<1>6. KeyShown'
  <2>1. CASE a = Boot
    BY <1>a, <1>b, <2>1 DEF AllocAt, KeyShown, Owners, taskVars
  <2>2. CASE a # Boot
    BY <1>a, <2>2, Zenon DEF SecInv, KeyShown, AllocAt, Owners, taskVars
  <2> QED BY <2>1, <2>2, Zenon
<1>7. Serves'
  BY <1>a, Zenon DEF SecInv, Serves, AllocAt, Owners, taskVars
<1>8. VecFits'
  BY <1>a, Zenon DEF SecInv, VecFits, AllocAt, Owners, taskVars
<1> QED BY <1>1, <1>2, <1>3, <1>4, <1>5, <1>6, <1>7, <1>8, Zenon DEF SecInv

\* The error path of every call: the process goes on without the buffer.
LEMMA FailIsAllocStep ==
    ASSUME SecInv, NEW a \in Owners, at[a] \in (AllocAt \ {"ready"}) \cup {"reserve"}, Fail(a),
           UNCHANGED <<host, policy, fate, taskVars>>, policy = "best" => host.faults # {}
    PROVE  AllocStep(a, Unmapped, "failed")
BY UnmappedIsPage DEF Fail, Goes, AllocStep

\* A refused mapping falls back or, under Require, fails.
LEMMA MapFailedKeeps ==
    ASSUME SecInv, NEW a \in Owners, NEW removed \in BOOLEAN, at[a] = "secretmem", pages[a].data # "none",
           MapFailed(a, removed), UNCHANGED <<host, policy, fate, taskVars>>
    PROVE  SecInv'
<1>1. CASE policy = "require"
  BY <1>1, FailIsAllocStep, AllocStepKeeps DEF MapFailed, AllocAt
<1>2. CASE policy # "require"
  <2> DEFINE q == [pages[a] EXCEPT !.data = IF removed THEN "none" ELSE @]
             s == IF removed THEN "reinstall" ELSE "unprotect"
  <2>1. q \in Page /\ q.holds = pages[a].holds /\ (~removed => q.data = pages[a].data)
    BY DEF SecInv, TypeInv, Page
  <2>2. pages' = [pages EXCEPT ![a] = q]
    BY <1>2 DEF MapFailed, SecInv, TypeInv, Page
  <2>3. AllocStep(a, q, s)
    BY <1>2, <2>1, <2>2 DEF MapFailed, Goes, AllocStep, AllocAt, SecInv, PagesFit
  <2> QED BY <2>3, AllocStepKeeps
<1> QED BY <1>1, <1>2

LEMMA reserveKeeps == ASSUME SecInv, NEW a \in Owners, reserve(a) PROVE SecInv'
<1> DEFINE q == [Unmapped EXCEPT !.base = TRUE, !.data = "reserved"]
<1>1. CASE pages' = [pages EXCEPT ![a] = q] /\ Goes(a, "secretmem")
  <2>1. q \in Page /\ ~q.holds
    BY Zenon DEF Unmapped, Page
  <2>2. AllocStep(a, q, "secretmem")
    BY <1>1, <2>1 DEF reserve, Goes, AllocStep, AllocAt
  <2> QED BY <2>2, AllocStepKeeps
<1>2. CASE May("mmap") /\ Fail(a)
  BY <1>2, FailIsAllocStep, AllocStepKeeps DEF reserve, May
<1> QED BY <1>1, <1>2 DEF reserve

LEMMA map_secretmemKeeps == ASSUME SecInv, NEW a \in Owners, map_secretmem(a) PROVE SecInv'
<1> DEFINE q == [pages[a] EXCEPT !.data = "secret", !.prot = "rw", !.locked = TRUE]
<1>1. CASE /\ pages' = [pages EXCEPT ![a].data = "secret", ![a].prot = "rw", ![a].locked = TRUE]
           /\ Goes(a, "ready")
  <2>1. q \in Page /\ q.holds = pages[a].holds /\ q.data = "secret"
    BY Zenon DEF SecInv, TypeInv, Page
  <2>2. pages' = [pages EXCEPT ![a] = q]
    BY <1>1, Zenon DEF SecInv, TypeInv, Page
  <2>3. AllocStep(a, q, "ready")
    BY <1>1, <2>1, <2>2 DEF map_secretmem, Goes, AllocStep, AllocAt, SecInv, PagesFit
  <2> QED BY <2>3, AllocStepKeeps
<1>2. CASE \E removed \in BOOLEAN : MapFailed(a, removed)
  BY <1>2, MapFailedKeeps DEF map_secretmem, SecInv, PagesFit
<1> QED BY <1>1, <1>2, Zenon DEF map_secretmem

LEMMA reinstall_anonymousKeeps == ASSUME SecInv, NEW a \in Owners, reinstall_anonymous(a) PROVE SecInv'
<1> DEFINE q == [pages[a] EXCEPT !.data = "anon", !.prot = "rw"]
<1>1. CASE pages' = [pages EXCEPT ![a].data = "anon", ![a].prot = "rw"] /\ Goes(a, "mlock")
  <2>1. q \in Page /\ q.holds = pages[a].holds
    BY AnonymousPage, Zenon DEF SecInv, TypeInv
  <2>2. pages' = [pages EXCEPT ![a] = q]
    BY <1>1, Zenon DEF SecInv, TypeInv, Page
  <2>3. AllocStep(a, q, "mlock")
    BY <1>1, <2>1, <2>2, Zenon DEF reinstall_anonymous, Goes, AllocStep, AllocAt, SecInv, PagesFit, NoFallback
  <2> QED BY <2>3, AllocStepKeeps
<1>2. CASE May("mmap") /\ Fail(a)
  BY <1>2, FailIsAllocStep, AllocStepKeeps DEF reinstall_anonymous, May, AllocAt
<1> QED BY <1>1, <1>2 DEF reinstall_anonymous

LEMMA protect_rawKeeps == ASSUME SecInv, NEW a \in Owners, protect_raw(a) PROVE SecInv'
<1> DEFINE q == [pages[a] EXCEPT !.data = "anon", !.prot = "rw"]
<1>1. CASE pages' = [pages EXCEPT ![a].data = "anon", ![a].prot = "rw"] /\ Goes(a, "mlock")
  <2>1. q \in Page /\ q.holds = pages[a].holds
    BY AnonymousPage, Zenon DEF SecInv, TypeInv
  <2>2. pages' = [pages EXCEPT ![a] = q]
    BY <1>1, Zenon DEF SecInv, TypeInv, Page
  <2>3. AllocStep(a, q, "mlock")
    BY <1>1, <2>1, <2>2, Zenon DEF protect_raw, Goes, AllocStep, AllocAt, SecInv, PagesFit, NoFallback
  <2> QED BY <2>3, AllocStepKeeps
<1>2. CASE (pages[a].data = "none" \/ May("mprotect")) /\ Fail(a)
  <2>1. pages[a].data # "none"
    BY DEF protect_raw, SecInv, PagesFit
  <2> QED BY <1>2, <2>1, FailIsAllocStep, AllocStepKeeps DEF protect_raw, May, AllocAt
<1> QED BY <1>1, <1>2 DEF protect_raw

LEMMA lock_or_degradeKeeps == ASSUME SecInv, NEW a \in Owners, lock_or_degrade(a) PROVE SecInv'
<1>0. policy # "require"
  BY DEF lock_or_degrade, SecInv, NoFallback
<1>1. CASE pages' = [pages EXCEPT ![a].locked = TRUE] /\ Goes(a, "ready")
  <2> DEFINE q == [pages[a] EXCEPT !.locked = TRUE]
  <2>1. q \in Page /\ q.holds = pages[a].holds
    BY Zenon DEF SecInv, TypeInv, Page
  <2>2. pages' = [pages EXCEPT ![a] = q]
    BY <1>1 DEF SecInv, TypeInv, Page
  <2>3. AllocStep(a, q, "ready")
    BY <1>0, <1>1, <2>1, <2>2 DEF lock_or_degrade, Goes, AllocStep, AllocAt, SecInv, PagesFit
  <2> QED BY <2>3, AllocStepKeeps
<1>2. CASE Goes(a, "ready") /\ UNCHANGED pages
  <2>1. AllocStep(a, pages[a], "ready")
    BY <1>0, <1>2 DEF lock_or_degrade, Goes, AllocStep, AllocAt, SecInv, TypeInv, PagesFit
  <2> QED BY <2>1, AllocStepKeeps
<1> QED BY <1>0, <1>1, <1>2 DEF lock_or_degrade

--------------------------------------------------------------------------
(* SecretVec's operations keep the bytes past the length clean. *)

LEMMA with_capacityClean ==
    ASSUME NEW n \in Nat
    PROVE  CleanVec(with_capacity(n)) /\ with_capacity(n).len = 0 /\ with_capacity(n).cap = n
BY DEF with_capacity, CleanVec, Byte

LEMMA push_sliceClean ==
    ASSUME NEW v, CleanVec(v), NEW src \in Seq(Byte), Fits(v, src)
    PROVE  CleanVec(push_slice(v, src)) /\ push_slice(v, src).len = v.len + Len(src)
<1> DEFINE b == [i \in 1 .. v.cap |-> IF i \in v.len + 1 .. v.len + Len(src) THEN src[i - v.len] ELSE v.buf[i]]
<1>1. v.cap \in Nat /\ v.len \in 0 .. v.cap /\ v.buf \in [1 .. v.cap -> Byte]
  BY Zenon DEF CleanVec
<1>2. ASSUME NEW i \in 1 .. v.cap PROVE b[i] \in Byte
  <2>1. CASE i \in v.len + 1 .. v.len + Len(src)
    <3>1. i - v.len \in 1 .. Len(src)
      BY <1>1, <2>1
    <3> QED BY <2>1, <3>1
  <2>2. CASE i \notin v.len + 1 .. v.len + Len(src)
    BY <1>1, <2>2, Zenon
  <2> QED BY <2>1, <2>2, Zenon
<1>3. \A i \in 1 .. v.cap : i > v.len + Len(src) => b[i] = "0"
  BY <1>1 DEF CleanVec
<1>4. push_slice(v, src) = [cap |-> v.cap, len |-> v.len + Len(src), buf |-> b]
  BY Zenon DEF push_slice
<1>5. v.len + Len(src) \in 0 .. v.cap
  BY <1>1 DEF Fits
<1>6. b \in [1 .. v.cap -> Byte]
  BY <1>2
<1> HIDE DEF b
<1> QED BY <1>1, <1>3, <1>4, <1>5, <1>6 DEF CleanVec

LEMMA truncateClean ==
    ASSUME NEW v, CleanVec(v), NEW n \in Nat
    PROVE  CleanVec(truncate(v, n))
<1> DEFINE b == [i \in 1 .. v.cap |-> IF i \in n + 1 .. v.len THEN "0" ELSE v.buf[i]]
<1>1. v.cap \in Nat /\ v.len \in 0 .. v.cap /\ v.buf \in [1 .. v.cap -> Byte]
  BY DEF CleanVec
<1>2. b \in [1 .. v.cap -> Byte]
  BY <1>1 DEF Byte
<1>3. \A i \in 1 .. v.cap : i > n => b[i] = "0"
  BY <1>1 DEF CleanVec
<1>4. n < v.len => truncate(v, n) = [cap |-> v.cap, len |-> n, buf |-> b]
  BY Zenon DEF truncate, CleanVec
<1>5. n >= v.len => truncate(v, n) = v
  BY <1>1 DEF truncate
<1> HIDE DEF b
<1> QED BY <1>1, <1>2, <1>3, <1>4, <1>5 DEF CleanVec

LEMMA CryptClean ==
    ASSUME NEW v, CleanVec(v), v.len > 0, NEW kind
    PROVE  CleanVec(Crypt(v, kind, 1)) /\ Crypt(v, kind, 1).len = v.len /\ Crypt(v, kind, 1).cap = v.cap
<1> DEFINE b == [v.buf EXCEPT ![1] = IF kind = "seal" THEN "c" ELSE "p"]
<1>1. v.cap \in Nat /\ v.len \in 0 .. v.cap /\ v.buf \in [1 .. v.cap -> Byte]
  BY Zenon DEF CleanVec
<1>2. b \in [1 .. v.cap -> Byte]
  BY <1>1 DEF Byte
<1>3. \A i \in 1 .. v.cap : i > v.len => b[i] = "0"
  BY <1>1 DEF CleanVec
<1>4. Crypt(v, kind, 1) = [cap |-> v.cap, len |-> v.len, buf |-> b]
  BY SMTT(20), Zenon DEF Crypt, CleanVec
<1> HIDE DEF b
<1> QED BY <1>1, <1>2, <1>3, <1>4 DEF CleanVec

--------------------------------------------------------------------------
(* Every other action. *)

LEMMA ScrubKeeps == ASSUME SecInv, NEW a \in Owners, Scrub(a) PROVE SecInv'
<1> USE OwnersAssumption DEF Goes, Owners, taskVars
<1>1. TypeInv'
  BY DEF SecInv, TypeInv, Scrub, Page, Places, AllocAt, BareAt, GuardAt, MutexAt, Unmapped
<1>2. PagesFit'
  BY DEF SecInv, TypeInv, PagesFit, Scrub, AllocAt, BareAt, GuardAt, Unmapped, Page
<1>3. NoFallback'
  BY DEF SecInv, TypeInv, NoFallback, Scrub, Page, Unmapped, BareAt, AllocAt, GuardAt, PagesFit, KeyKept
<1>4. KeyKept'
  BY DEF SecInv, TypeInv, KeyKept, Scrub
<1>5. Counted'
  BY Zenon DEF SecInv, TypeInv, Counted, Scrub, MutexAt, GuardAt, Guards
<1>6. KeyShown'
  BY DEF SecInv, TypeInv, KeyShown, Scrub, Page, KeyKept
<1>7. Serves'
  BY DEF SecInv, TypeInv, Serves, Scrub, May, PagesFit
<1>8. VecFits'
  BY DEF SecInv, TypeInv, VecFits, Scrub
<1> QED BY <1>1, <1>2, <1>3, <1>4, <1>5, <1>6, <1>7, <1>8 DEF SecInv

LEMMA UnmapKeeps == ASSUME SecInv, NEW a \in Owners, Unmap(a) PROVE SecInv'
<1> USE OwnersAssumption DEF Goes, Owners, taskVars
<1>a. a = Boot => active = 0 /\ \A t \in Tasks : at[t] = "idle"
  BY BootAlone DEF Unmap
<1>1. TypeInv'
  <2>2. vec' = [t \in Tasks |-> vec'[t]] /\ work' \in [Owners -> Works]
    BY DEF SecInv, TypeInv, Unmap, Works
  <2>3. pages' \in [Owners -> Page]
    BY UnmappedIsPage, Zenon DEF SecInv, TypeInv, Unmap
  <2>4. /\ at' \in [Owners -> Places]
        /\ at'[Boot] \notin GuardAt \cup MutexAt \cup {"idle", "unlock", "crypt", "sealed", "opened"}
        /\ \A t \in Tasks : at'[t] \notin {"harden", "gone", "kept"}
    BY Zenon DEF SecInv, TypeInv, Unmap, Places, AllocAt, BareAt, GuardAt, MutexAt
  <2> QED BY <2>2, <2>3, <2>4, Zenon DEF SecInv, TypeInv, Unmap
<1>2. PagesFit'
  BY Zenon DEF SecInv, TypeInv, PagesFit, Unmap, AllocAt, BareAt, GuardAt, Unmapped, Page
<1>3. NoFallback'
  BY Zenon DEF SecInv, TypeInv, NoFallback, Unmap, Page, Unmapped, BareAt, AllocAt, GuardAt, PagesFit, KeyKept
<1>4. KeyKept'
  BY DEF SecInv, TypeInv, KeyKept, Unmap
<1>5. Counted'
  BY Zenon DEF SecInv, TypeInv, Counted, Unmap, MutexAt, GuardAt, Guards
<1>6. KeyShown'
  <2>1. CASE a = Boot
    BY <1>a, <2>1 DEF SecInv, TypeInv, Unmap, KeyShown
  <2>2. CASE a # Boot
    BY <2>2, Zenon DEF SecInv, TypeInv, Unmap, KeyShown
  <2> QED BY <2>1, <2>2, Zenon
<1>7. Serves'
  BY Zenon DEF SecInv, TypeInv, Serves, Unmap, May, PagesFit
<1>8. VecFits'
  <2>1. CleanVec(NoVec)
    BY DEF NoVec, CleanVec
  <2> QED BY <2>1, Zenon DEF SecInv, TypeInv, VecFits, Unmap
<1> QED BY <1>1, <1>2, <1>3, <1>4, <1>5, <1>6, <1>7, <1>8 DEF SecInv

LEMMA harden_processKeeps == ASSUME SecInv, NEW p \in Policies, harden_process(p) PROVE SecInv'
<1> USE OwnersAssumption DEF Goes, Owners, taskVars
<1>1. TypeInv'
  BY DEF SecInv, TypeInv, harden_process, Page, Places, AllocAt, BareAt, GuardAt, MutexAt, Unmapped
<1>2. PagesFit'
  BY DEF SecInv, TypeInv, PagesFit, harden_process, AllocAt, BareAt, GuardAt, Unmapped, Page
<1>3. NoFallback'
  BY DEF SecInv, TypeInv, NoFallback, harden_process, Page, Unmapped, BareAt, AllocAt, GuardAt, PagesFit, KeyKept
<1>4. KeyKept'
  BY DEF SecInv, TypeInv, KeyKept, harden_process
<1>5. Counted'
  BY DEF SecInv, TypeInv, Counted, harden_process, MutexAt, GuardAt, Guards
<1>6. KeyShown'
  BY Zenon DEF SecInv, TypeInv, KeyShown, harden_process, Page, KeyKept
<1>7. Serves'
  <2>1. \A t \in Tasks : at[t] = "idle"
    BY BootAlone DEF harden_process
  <2> QED BY <2>1 DEF SecInv, TypeInv, Serves, harden_process, May
<1>8. VecFits'
  BY DEF SecInv, TypeInv, VecFits, harden_process
<1> QED BY <1>1, <1>2, <1>3, <1>4, <1>5, <1>6, <1>7, <1>8, Zenon DEF SecInv

LEMMA FillAndHideKeeps == ASSUME SecInv, FillAndHide PROVE SecInv'
<1> USE OwnersAssumption DEF Goes, Owners, taskVars
<1>1. TypeInv'
  <2>1. pages' \in [Owners -> Page]
    <3>1. pages[Boot] \in Page /\ pages \in [Owners -> Page]
      BY Zenon DEF SecInv, TypeInv
    <3>2. [pages[Boot] EXCEPT !.holds = TRUE] \in Page /\ [pages[Boot] EXCEPT !.holds = TRUE, !.prot = "none"] \in Page
      BY <3>1 DEF Page
    <3>3. \/ pages' = [pages EXCEPT ![Boot] = [pages[Boot] EXCEPT !.holds = TRUE]]
          \/ pages' = [pages EXCEPT ![Boot] = [pages[Boot] EXCEPT !.holds = TRUE, !.prot = "none"]]
      BY <3>1 DEF FillAndHide, Page
    <3> QED BY <3>1, <3>2, <3>3, Zenon
  <2>2. work' \in [Owners -> Works]
    BY DEF Works, SecInv, TypeInv, FillAndHide
  <2> QED BY <2>1, <2>2 DEF SecInv, TypeInv, FillAndHide, Places, AllocAt, BareAt, GuardAt, MutexAt
<1>2. PagesFit'
  BY DEF SecInv, TypeInv, PagesFit, FillAndHide, AllocAt, BareAt, GuardAt, Unmapped, Page
<1>3. NoFallback'
  BY DEF SecInv, TypeInv, NoFallback, FillAndHide, Page, Unmapped, BareAt, AllocAt, GuardAt, PagesFit, KeyKept
<1>4. KeyKept'
  BY DEF SecInv, TypeInv, KeyKept, FillAndHide
<1>5. Counted'
  BY Zenon DEF SecInv, TypeInv, Counted, FillAndHide, MutexAt, GuardAt, Guards
<1>6. KeyShown'
  BY DEF SecInv, TypeInv, KeyShown, FillAndHide, Page, KeyKept
<1>7. Serves'
  BY DEF SecInv, TypeInv, Serves, FillAndHide, May, PagesFit
<1>8. VecFits'
  BY DEF SecInv, TypeInv, VecFits, FillAndHide
<1> QED BY <1>1, <1>2, <1>3, <1>4, <1>5, <1>6, <1>7, <1>8, Zenon DEF SecInv

LEMMA RefuseKeeps == ASSUME SecInv, Refuse PROVE SecInv'
<1> USE OwnersAssumption DEF Goes, Owners, taskVars
<1>1. TypeInv'
  BY DEF SecInv, TypeInv, Refuse, Page, Places, AllocAt, BareAt, GuardAt, MutexAt, Unmapped
<1>2. PagesFit'
  BY Zenon DEF SecInv, TypeInv, PagesFit, Refuse, AllocAt, BareAt, GuardAt, Unmapped, Page
<1>3. NoFallback'
  BY DEF SecInv, TypeInv, NoFallback, Refuse, Page, Unmapped, BareAt, AllocAt, GuardAt, PagesFit, KeyKept
<1>4. KeyKept'
  BY DEF SecInv, TypeInv, KeyKept, Refuse
<1>5. Counted'
  BY Zenon DEF SecInv, TypeInv, Counted, Refuse, MutexAt, GuardAt, Guards
<1>6. KeyShown'
  BY DEF SecInv, TypeInv, KeyShown, Refuse, Page, KeyKept
<1>7. Serves'
  BY DEF SecInv, TypeInv, Serves, Refuse, May, PagesFit
<1>8. VecFits'
  BY Zenon DEF SecInv, TypeInv, VecFits, Refuse
<1> QED BY <1>1, <1>2, <1>3, <1>4, <1>5, <1>6, <1>7, <1>8 DEF SecInv

LEMMA DropKeyKeeps == ASSUME SecInv, DropKey PROVE SecInv'
<1> USE OwnersAssumption DEF Goes, Owners, taskVars
<1>1. TypeInv'
  <2>1. work' \in [Owners -> Works]
    BY Zenon DEF Works, SecInv, TypeInv, DropKey
  <2> QED BY <2>1 DEF SecInv, TypeInv, DropKey, Places, AllocAt, BareAt, GuardAt, MutexAt
<1>2. PagesFit'
  BY Zenon DEF SecInv, TypeInv, PagesFit, DropKey, AllocAt, BareAt, GuardAt, Unmapped, Page
<1>3. NoFallback'
  BY DEF SecInv, TypeInv, NoFallback, DropKey, Page, Unmapped, BareAt, AllocAt, GuardAt, PagesFit, KeyKept
<1>4. KeyKept'
  BY DEF SecInv, TypeInv, KeyKept, DropKey
<1>5. Counted'
  BY Zenon DEF SecInv, TypeInv, Counted, DropKey, MutexAt, GuardAt, Guards
<1>6. KeyShown'
  BY Zenon DEF SecInv, TypeInv, KeyShown, DropKey, Page, KeyKept
<1>7. Serves'
  BY DEF SecInv, TypeInv, Serves, DropKey, May, PagesFit
<1>8. VecFits'
  BY DEF SecInv, TypeInv, VecFits, DropKey
<1> QED BY <1>1, <1>2, <1>3, <1>4, <1>5, <1>6, <1>7, <1>8 DEF SecInv

LEMMA BeginOpKeeps == ASSUME SecInv, NEW t \in Tasks, NEW k \in Kinds, BeginOp(t, k) PROVE SecInv'
<1> USE OwnersAssumption DEF Goes, Owners, taskVars
<1>1. TypeInv'
  <2>1. work' \in [Owners -> Works]
    BY Zenon DEF Works, SecInv, TypeInv, BeginOp, Kinds
  <2> QED BY <2>1 DEF SecInv, TypeInv, BeginOp, Places, AllocAt, BareAt, GuardAt, MutexAt
<1>2. PagesFit'
  BY DEF SecInv, TypeInv, PagesFit, BeginOp, AllocAt, BareAt, GuardAt, Unmapped, Page
<1>3. NoFallback'
  BY DEF SecInv, TypeInv, NoFallback, BeginOp, Page, Unmapped, BareAt, AllocAt, GuardAt, PagesFit, KeyKept
<1>4. KeyKept'
  BY DEF SecInv, TypeInv, KeyKept, BeginOp
<1>5. Counted'
  BY Zenon DEF SecInv, TypeInv, Counted, BeginOp, MutexAt, GuardAt, Guards
<1>6. KeyShown'
  BY DEF SecInv, TypeInv, KeyShown, BeginOp, Page, KeyKept
<1>7. Serves'
  BY DEF SecInv, TypeInv, Serves, BeginOp, May, PagesFit
<1>8. VecFits'
  BY DEF SecInv, TypeInv, VecFits, BeginOp
<1> QED BY <1>1, <1>2, <1>3, <1>4, <1>5, <1>6, <1>7, <1>8, Zenon DEF SecInv

LEMMA unlockKeeps == ASSUME SecInv, NEW t \in Tasks, unlock(t) PROVE SecInv'
<1> USE OwnersAssumption DEF Goes, Owners, taskVars
<1>1. TypeInv'
  BY Zenon DEF SecInv, TypeInv, unlock, Page, Places, AllocAt, BareAt, GuardAt, MutexAt, Unmapped
<1>2. PagesFit'
  BY DEF SecInv, TypeInv, PagesFit, unlock, AllocAt, BareAt, GuardAt, Unmapped, Page
<1>3. NoFallback'
  BY DEF SecInv, TypeInv, NoFallback, unlock, Page, Unmapped, BareAt, AllocAt, GuardAt, PagesFit, KeyKept
<1>4. KeyKept'
  BY DEF SecInv, TypeInv, KeyKept, unlock
<1>5. Counted'
  <2>1. Guards' = Guards
    BY Zenon DEF SecInv, TypeInv, unlock, Guards, GuardAt
  <2> QED BY <2>1, Zenon DEF SecInv, TypeInv, Counted, unlock, MutexAt, Free
<1>6. KeyShown'
  BY Zenon DEF SecInv, TypeInv, KeyShown, unlock, Page, KeyKept
<1>7. Serves'
  BY Zenon DEF SecInv, TypeInv, Serves, unlock, May, PagesFit
<1>8. VecFits'
  BY Zenon DEF SecInv, TypeInv, VecFits, unlock
<1> QED BY <1>1, <1>2, <1>3, <1>4, <1>5, <1>6, <1>7, <1>8, Zenon DEF SecInv

LEMMA ShowKeyKeeps == ASSUME SecInv, NEW t \in Tasks, ShowKey(t) PROVE SecInv'
<1> USE OwnersAssumption DEF Goes, Owners, taskVars
<1>1. TypeInv'
  BY DEF SecInv, TypeInv, ShowKey, Page, Places, AllocAt, BareAt, GuardAt, MutexAt, Unmapped
<1>2. PagesFit'
  <2>1. \A b \in Owners \ {Boot} : pages'[b] = pages[b]
    BY DEF SecInv, TypeInv, ShowKey
  <2>2. pages'[Boot] # pages[Boot] => at[Boot] = "kept" /\ at'[Boot] = "kept"
    BY DEF SecInv, TypeInv, KeyKept, ShowKey
  <2> QED BY <2>1, <2>2 DEF SecInv, TypeInv, PagesFit, ShowKey, AllocAt, BareAt, GuardAt
<1>3. NoFallback'
  BY DEF SecInv, TypeInv, NoFallback, ShowKey, Page, Unmapped, BareAt, AllocAt, GuardAt, PagesFit, KeyKept
<1>4. KeyKept'
  BY DEF SecInv, TypeInv, KeyKept, ShowKey
<1>5. Counted'
  <2>1. Guards' = Guards
    BY DEF SecInv, TypeInv, ShowKey, Guards, GuardAt
  <2> QED BY <2>1 DEF SecInv, TypeInv, Counted, ShowKey, MutexAt, Free
<1>6. KeyShown'
  BY DEF SecInv, TypeInv, KeyShown, ShowKey, Page, KeyKept
<1>7. Serves'
  BY DEF SecInv, TypeInv, Serves, ShowKey, May, PagesFit
<1>8. VecFits'
  BY Zenon DEF SecInv, TypeInv, VecFits, ShowKey
<1> QED BY <1>1, <1>2, <1>3, <1>4, <1>5, <1>6, <1>7, <1>8 DEF SecInv

LEMMA TakeGuardKeeps == ASSUME SecInv, NEW t \in Tasks, TakeGuard(t) PROVE SecInv'
<1> USE OwnersAssumption DEF Goes, Owners, taskVars
<1>1. TypeInv'
  BY DEF SecInv, TypeInv, TakeGuard, Page, Places, AllocAt, BareAt, GuardAt, MutexAt, Unmapped
<1>2. PagesFit'
  BY DEF SecInv, TypeInv, PagesFit, TakeGuard, AllocAt, BareAt, GuardAt, Unmapped, Page
<1>3. NoFallback'
  BY DEF SecInv, TypeInv, NoFallback, TakeGuard, Page, Unmapped, BareAt, AllocAt, GuardAt, PagesFit, KeyKept
<1>4. KeyKept'
  BY DEF SecInv, TypeInv, KeyKept, TakeGuard
<1>5. Counted'
  <2>1. Guards' = Guards \cup {t} /\ t \notin Guards
    BY Zenon DEF SecInv, TypeInv, TakeGuard, Guards, GuardAt
  <2>2. Cardinality(Guards') = Cardinality(Guards) + 1
    BY <2>1, GuardsCounted, FS_AddElement, Zenon
  <2> QED BY <2>2 DEF SecInv, TypeInv, Counted, TakeGuard, MutexAt, Free
<1>6. KeyShown'
  BY DEF SecInv, TypeInv, KeyShown, TakeGuard, Page, KeyKept
<1>7. Serves'
  BY Zenon DEF SecInv, TypeInv, Serves, TakeGuard, May, PagesFit
<1>8. VecFits'
  BY DEF SecInv, TypeInv, VecFits, TakeGuard
<1> QED BY <1>1, <1>2, <1>3, <1>4, <1>5, <1>6, <1>7, <1>8 DEF SecInv

LEMMA exposed_sliceKeeps == ASSUME SecInv, NEW t \in Tasks, exposed_slice(t) PROVE SecInv'
<1> USE OwnersAssumption DEF Goes, Owners, taskVars
<1>1. TypeInv'
  BY DEF SecInv, TypeInv, exposed_slice, Page, Places, AllocAt, BareAt, GuardAt, MutexAt, Unmapped
<1>2. PagesFit'
  BY DEF SecInv, TypeInv, PagesFit, exposed_slice, AllocAt, BareAt, GuardAt, Unmapped, Page
<1>3. NoFallback'
  BY DEF SecInv, TypeInv, NoFallback, exposed_slice, Page, Unmapped, BareAt, AllocAt, GuardAt, PagesFit, KeyKept
<1>4. KeyKept'
  BY DEF SecInv, TypeInv, KeyKept, exposed_slice
<1>5. Counted'
  BY Zenon DEF SecInv, TypeInv, Counted, exposed_slice, MutexAt, GuardAt, Guards
<1>6. KeyShown'
  BY DEF SecInv, TypeInv, KeyShown, exposed_slice, Page, KeyKept
<1>7. Serves'
  BY DEF SecInv, TypeInv, Serves, exposed_slice, May, PagesFit
<1>8. VecFits'
  BY DEF SecInv, TypeInv, VecFits, exposed_slice
<1> QED BY <1>1, <1>2, <1>3, <1>4, <1>5, <1>6, <1>7, <1>8 DEF SecInv

LEMMA LockReleaseKeeps == ASSUME SecInv, NEW t \in Tasks, LockRelease(t) PROVE SecInv'
<1> USE OwnersAssumption DEF Goes, Owners, taskVars
<1>1. TypeInv'
  BY Zenon DEF SecInv, TypeInv, LockRelease, Page, Places, AllocAt, BareAt, GuardAt, MutexAt, Unmapped
<1>2. PagesFit'
  BY Zenon DEF SecInv, TypeInv, PagesFit, LockRelease, AllocAt, BareAt, GuardAt, Unmapped, Page
<1>3. NoFallback'
  BY DEF SecInv, TypeInv, NoFallback, LockRelease, Page, Unmapped, BareAt, AllocAt, GuardAt, PagesFit, KeyKept
<1>4. KeyKept'
  BY DEF SecInv, TypeInv, KeyKept, LockRelease
<1>5. Counted'
  <2>1. Guards' = Guards
    BY Zenon DEF SecInv, TypeInv, LockRelease, Guards, GuardAt
  <2> QED BY <2>1, Zenon DEF SecInv, TypeInv, Counted, LockRelease, MutexAt, Free
<1>6. KeyShown'
  BY Zenon DEF SecInv, TypeInv, KeyShown, LockRelease, Page, KeyKept
<1>7. Serves'
  BY DEF SecInv, TypeInv, Serves, LockRelease, May, PagesFit
<1>8. VecFits'
  BY Zenon DEF SecInv, TypeInv, VecFits, LockRelease
<1> QED BY <1>1, <1>2, <1>3, <1>4, <1>5, <1>6, <1>7, <1>8 DEF SecInv

LEMMA DropGuardKeeps == ASSUME SecInv, NEW t \in Tasks, DropGuard(t) PROVE SecInv'
<1> USE OwnersAssumption DEF Goes, Owners, taskVars
<1>a. t \in Guards /\ active > 0
  BY GuardsCounted DEF SecInv, TypeInv, DropGuard, Guards, GuardAt
<1>b. Guards' = Guards \ {t}
  BY DEF SecInv, TypeInv, DropGuard, Guards, GuardAt
<1>c. active' = active - 1 /\ active' = Cardinality(Guards')
  BY <1>a, <1>b, GuardsCounted, FS_RemoveElement DEF SecInv, TypeInv, Counted, DropGuard
<1>1. TypeInv'
  <2>1. pages' \in [Owners -> Page]
    BY DEF SecInv, TypeInv, DropGuard, Page
  <2>2. active' \in Nat
    BY <1>a, <1>c DEF SecInv, TypeInv, DropGuard
  <2> QED BY <2>1, <2>2, Zenon DEF SecInv, TypeInv, DropGuard, Places, AllocAt, BareAt, GuardAt, MutexAt
<1>2. PagesFit'
  BY DEF SecInv, TypeInv, PagesFit, DropGuard, AllocAt, BareAt, GuardAt, Unmapped, Page
<1>3. NoFallback'
  BY DEF SecInv, TypeInv, NoFallback, DropGuard, Page, Unmapped, BareAt, AllocAt, GuardAt, PagesFit, KeyKept
<1>4. KeyKept'
  BY DEF SecInv, TypeInv, KeyKept, DropGuard
<1>5. Counted'
  BY <1>c DEF SecInv, TypeInv, Counted, DropGuard, MutexAt, Free
<1>6. KeyShown'
  <2>1. \A u \in Tasks : at'[u] # "count"
    BY Zenon DEF SecInv, TypeInv, Counted, MutexAt, DropGuard
  <2>2. CASE active' > 0 /\ UNCHANGED pages
    BY <1>a, <1>c, <2>1, <2>2 DEF SecInv, KeyShown
  <2>3. CASE active' = 0 /\ pages' = [pages EXCEPT ![Boot].prot = "none"]
    BY <2>1, <2>3 DEF SecInv, TypeInv, KeyShown, Page
  <2>4. CASE active' = 0 /\ exposed' = TRUE
    BY <2>1, <2>4 DEF KeyShown
  <2> QED BY <1>a, <1>c, <2>2, <2>3, <2>4, Zenon DEF SecInv, TypeInv, DropGuard
<1>7. Serves'
  BY DEF SecInv, TypeInv, Serves, DropGuard, May, PagesFit
<1>8. VecFits'
  BY Zenon DEF SecInv, TypeInv, VecFits, DropGuard
<1> QED BY <1>1, <1>2, <1>3, <1>4, <1>5, <1>6, <1>7, <1>8 DEF SecInv

LEMMA FillVecKeeps == ASSUME SecInv, NEW t \in Tasks, FillVec(t) PROVE SecInv'
<1> USE OwnersAssumption DEF Goes, Owners, taskVars
<1> DEFINE src == IF work[t] = "seal" THEN Plain ELSE Sealed
           v   == push_slice(with_capacity(Capacity(work[t])), src)
<1>a. src \in Seq(Byte) /\ Len(src) > 0
  <2>1. Plain \in Seq(Byte) /\ Len(Plain) > 0
    BY DEF Plain, Byte
  <2>2. Sealed \in Seq(Byte) /\ Len(Sealed) > 0
    BY DEF Sealed, Byte
  <2> QED BY <2>1, <2>2
<1>b. Capacity(work[t]) \in Nat /\ Len(src) <= Capacity(work[t])
  BY DEF Capacity, Plain, Sealed
<1>c. CleanVec(with_capacity(Capacity(work[t]))) /\ Fits(with_capacity(Capacity(work[t])), src)
  BY <1>b, with_capacityClean DEF Fits
<1>d. CleanVec(v) /\ v.len > 0
  BY <1>a, <1>b, <1>c, push_sliceClean, with_capacityClean
<1>e. vec' = [vec EXCEPT ![t] = v]
  BY DEF FillVec
<1> HIDE DEF src, v
<1>1. TypeInv'
  <2>1. vec' = [u \in Tasks |-> vec'[u]]
    BY <1>e DEF SecInv, TypeInv
  <2>2. pages' \in [Owners -> Page]
    <3>1. pages \in [Owners -> Page] /\ t \in Owners
      BY Zenon DEF SecInv, TypeInv, Owners
    <3>2. [pages[t] EXCEPT !.holds = TRUE] \in Page
      BY <3>1, Zenon DEF Page
    <3>3. pages' = [pages EXCEPT ![t] = [pages[t] EXCEPT !.holds = TRUE]]
      BY <3>1, Zenon DEF FillVec
    <3> HIDE DEF Page
    <3> QED BY <3>1, <3>2, <3>3
  <2> QED BY <2>1, <2>2 DEF SecInv, TypeInv, FillVec, Places, AllocAt, BareAt, GuardAt, MutexAt
<1>2. PagesFit'
  BY DEF SecInv, TypeInv, PagesFit, FillVec, AllocAt, BareAt, GuardAt, Unmapped, Page
<1>3. NoFallback'
  BY DEF SecInv, TypeInv, NoFallback, FillVec, Page, Unmapped, BareAt, AllocAt, GuardAt, PagesFit, KeyKept
<1>4. KeyKept'
  BY DEF SecInv, TypeInv, KeyKept, FillVec
<1>5. Counted'
  BY Zenon DEF SecInv, TypeInv, Counted, FillVec, MutexAt, GuardAt, Guards
<1>6. KeyShown'
  BY DEF SecInv, TypeInv, KeyShown, FillVec, Page, KeyKept
<1>7. Serves'
  BY DEF SecInv, TypeInv, Serves, FillVec, May, PagesFit
<1>8. VecFits'
  BY <1>d, <1>e DEF SecInv, TypeInv, VecFits, FillVec
<1> QED BY <1>1, <1>2, <1>3, <1>4, <1>5, <1>6, <1>7, <1>8 DEF SecInv

LEMMA CryptInPlaceKeeps == ASSUME SecInv, NEW t \in Tasks, CryptInPlace(t) PROVE SecInv'
<1> USE OwnersAssumption DEF Goes, Owners, taskVars
<1> DEFINE c == Crypt(vec[t], work[t], 1)
<1>a. CleanVec(c) /\ c.len = vec[t].len /\ c.cap = vec[t].cap
  BY CryptClean, Zenon DEF SecInv, VecFits, CryptInPlace
<1>b. CleanVec(truncate(c, Len(Plain)))
  BY <1>a, truncateClean, Zenon DEF Plain
<1>c. Fits(vec[t], <<"t">>) => CleanVec(push_slice(c, <<"t">>))
  <2>1. <<"t">> \in Seq(Byte)
    BY DEF Byte
  <2>2. Fits(vec[t], <<"t">>) => Fits(c, <<"t">>)
    BY <1>a, Zenon DEF Fits
  <2> HIDE DEF c
  <2> QED BY <1>a, <2>1, <2>2, push_sliceClean, Zenon
<1>d. \E v : CleanVec(v) /\ vec' = [vec EXCEPT ![t] = v]
  <2>1. CASE vec' = [vec EXCEPT ![t] = push_slice(c, <<"t">>)] /\ Fits(vec[t], <<"t">>)
    BY <1>c, <2>1, Zenon
  <2>2. CASE vec' = [vec EXCEPT ![t] = truncate(c, Len(Plain))]
    BY <1>b, <2>2, Zenon
  <2>3. CASE UNCHANGED vec
    BY <2>3 DEF SecInv, TypeInv, VecFits
  <2> QED BY <2>1, <2>2, <2>3 DEF CryptInPlace
<1>e. PICK v : CleanVec(v) /\ vec' = [vec EXCEPT ![t] = v]
  BY <1>d, Zenon
<1>1. TypeInv'
  <2>1. vec' = [u \in Tasks |-> vec'[u]]
    BY <1>e, Zenon DEF SecInv, TypeInv
  <2> QED BY <2>1 DEF SecInv, TypeInv, CryptInPlace, Places, AllocAt, BareAt, GuardAt, MutexAt
<1>2. PagesFit'
  BY DEF SecInv, TypeInv, PagesFit, CryptInPlace, AllocAt, BareAt, GuardAt, Unmapped, Page
<1>3. NoFallback'
  BY DEF SecInv, TypeInv, NoFallback, CryptInPlace, Page, Unmapped, BareAt, AllocAt, GuardAt, PagesFit, KeyKept
<1>4. KeyKept'
  BY DEF SecInv, TypeInv, KeyKept, CryptInPlace
<1>5. Counted'
  BY Zenon DEF SecInv, TypeInv, Counted, CryptInPlace, MutexAt, GuardAt, Guards
<1>6. KeyShown'
  BY DEF SecInv, TypeInv, KeyShown, CryptInPlace, Page, KeyKept
<1>7. Serves'
  BY Zenon DEF SecInv, TypeInv, Serves, CryptInPlace, May, PagesFit
<1>8. VecFits'
  <2>1. at'[t] # "crypt"
    BY Zenon DEF SecInv, TypeInv, CryptInPlace
  <2> QED BY <1>e, <2>1, Zenon DEF SecInv, TypeInv, VecFits, CryptInPlace
<1> QED BY <1>1, <1>2, <1>3, <1>4, <1>5, <1>6, <1>7, <1>8 DEF SecInv

LEMMA FinishKeeps == ASSUME SecInv, NEW t \in Tasks, Finish(t) PROVE SecInv'
<1> USE OwnersAssumption DEF Goes, Owners, taskVars
<1>1. TypeInv'
  BY Zenon DEF SecInv, TypeInv, Finish, Page, Places, AllocAt, BareAt, GuardAt, MutexAt, Unmapped
<1>2. PagesFit'
  BY Zenon DEF SecInv, TypeInv, PagesFit, Finish, AllocAt, BareAt, GuardAt, Unmapped, Page
<1>3. NoFallback'
  BY DEF SecInv, TypeInv, NoFallback, Finish, Page, Unmapped, BareAt, AllocAt, GuardAt, PagesFit, KeyKept
<1>4. KeyKept'
  BY DEF SecInv, TypeInv, KeyKept, Finish
<1>5. Counted'
  BY Zenon DEF SecInv, TypeInv, Counted, Finish, MutexAt, GuardAt, Guards
<1>6. KeyShown'
  BY Zenon DEF SecInv, TypeInv, KeyShown, Finish, Page, KeyKept
<1>7. Serves'
  BY Zenon DEF SecInv, TypeInv, Serves, Finish, May, PagesFit
<1>8. VecFits'
  BY DEF SecInv, TypeInv, VecFits, Finish
<1> QED BY <1>1, <1>2, <1>3, <1>4, <1>5, <1>6, <1>7, <1>8 DEF SecInv

LEMMA GiveUpKeeps == ASSUME SecInv, NEW t \in Tasks, GiveUp(t) PROVE SecInv'
<1> USE OwnersAssumption DEF Goes, Owners, taskVars
<1>1. TypeInv'
  BY Zenon DEF SecInv, TypeInv, GiveUp, Page, Places, AllocAt, BareAt, GuardAt, MutexAt, Unmapped
<1>2. PagesFit'
  BY DEF SecInv, TypeInv, PagesFit, GiveUp, AllocAt, BareAt, GuardAt, Unmapped, Page
<1>3. NoFallback'
  BY DEF SecInv, TypeInv, NoFallback, GiveUp, Page, Unmapped, BareAt, AllocAt, GuardAt, PagesFit, KeyKept
<1>4. KeyKept'
  BY Zenon DEF SecInv, TypeInv, KeyKept, GiveUp
<1>5. Counted'
  BY Zenon DEF SecInv, TypeInv, Counted, GiveUp, MutexAt, GuardAt, Guards
<1>6. KeyShown'
  BY Zenon DEF SecInv, TypeInv, KeyShown, GiveUp, Page, KeyKept
<1>7. Serves'
  BY Zenon DEF SecInv, TypeInv, Serves, GiveUp, May, PagesFit
<1>8. VecFits'
  BY DEF SecInv, TypeInv, VecFits, GiveUp
<1> QED BY <1>1, <1>2, <1>3, <1>4, <1>5, <1>6, <1>7, <1>8 DEF SecInv

--------------------------------------------------------------------------
(* The invariant, and what follows from it. *)

LEMMA SecInvInit == SecInit => SecInv
<1> SUFFICES ASSUME SecInit PROVE SecInv
  OBVIOUS
<1> USE OwnersAssumption DEF SecInit, Owners
<1>1. CleanVec(NoVec)
  BY DEF NoVec, CleanVec
<1>2. TypeInv
  BY UnmappedIsPage, Zenon DEF TypeInv, Works, Places, AllocAt, BareAt, GuardAt, MutexAt
<1>3. PagesFit /\ NoFallback /\ KeyKept
  BY Zenon DEF PagesFit, NoFallback, KeyKept, AllocAt, BareAt, GuardAt
<1>4. Counted
  <2>1. Guards = {}
    BY Zenon DEF Guards, GuardAt
  <2> QED BY <2>1, FS_EmptySet DEF Counted, MutexAt, Free
<1>5. KeyShown /\ Serves
  BY DEF KeyShown, Serves
<1>6. VecFits
  BY <1>1 DEF VecFits
<1> QED BY <1>2, <1>3, <1>4, <1>5, <1>6 DEF SecInv

LEMMA SecInvStep == SecInv /\ [SecNext]_secVars => SecInv'
<1> SUFFICES ASSUME SecInv, [SecNext]_secVars PROVE SecInv'
  OBVIOUS
<1>1. ASSUME NEW a \in Owners, alloc(a) PROVE SecInv'
  BY <1>1, reserveKeeps, map_secretmemKeeps, reinstall_anonymousKeeps, protect_rawKeeps, lock_or_degradeKeeps DEF alloc
<1>2. ASSUME NEW a \in Owners, Scrub(a) \/ Unmap(a) PROVE SecInv'
  BY <1>2, ScrubKeeps, UnmapKeeps
<1>3. ASSUME NEW t \in Tasks, TaskStep(t) PROVE SecInv'
  <2>1. CASE \E k \in Kinds : BeginOp(t, k)
    BY <2>1, BeginOpKeeps
  <2>2. CASE unlock(t) \/ ShowKey(t) \/ TakeGuard(t) \/ exposed_slice(t) \/ LockRelease(t) \/ DropGuard(t)
    BY <2>2, unlockKeeps, ShowKeyKeeps, TakeGuardKeeps, exposed_sliceKeeps, LockReleaseKeeps, DropGuardKeeps, Zenon
  <2>3. CASE FillVec(t) \/ CryptInPlace(t) \/ Finish(t) \/ GiveUp(t)
    BY <2>3, FillVecKeeps, CryptInPlaceKeeps, FinishKeeps, GiveUpKeeps, Zenon
  <2> QED BY <1>3, <2>1, <2>2, <2>3 DEF TaskStep
<1>4. ASSUME \E p \in Policies : harden_process(p) PROVE SecInv'
  BY <1>4, harden_processKeeps
<1>5. ASSUME FillAndHide \/ Refuse \/ DropKey PROVE SecInv'
  BY <1>5, FillAndHideKeeps, RefuseKeeps, DropKeyKeeps, Zenon
<1>6. CASE UNCHANGED secVars
  BY Zenon, <1>6 DEF secVars, SecInv, TypeInv, PagesFit, NoFallback, KeyKept, Counted, Guards, KeyShown, Serves, VecFits
<1> QED BY <1>1, <1>2, <1>3, <1>4, <1>5, <1>6 DEF SecNext

LEMMA SecInvHolds == SecSpec => []SecInv
BY SecInvInit, SecInvStep, PTL DEF SecSpec

\* Whoever holds a SecretRead can read the key, whatever guards the other tasks
\* take and drop meanwhile (SecretBuf::unlock, SecretRead::drop).
THEOREM GuardsCanRead == SecSpec => []GuardReads
<1>1. SecInv => GuardReads
  <2> SUFFICES ASSUME SecInv, NEW t \in Tasks, at[t] \in GuardAt PROVE pages[Boot].prot # "none"
    BY DEF GuardReads, GuardAt
  <2>1. active # 0
    BY GuardsCounted, Zenon DEF Guards
  <2> QED BY <2>1 DEF SecInv, TypeInv, KeyShown
<1> QED BY <1>1, SecInvHolds, PTL

\* Under Policy::Require no secret is ever in pages other than secretmem,
\* whichever calls the kernel refuses (Region::alloc).
THEOREM RequireMeansSecretmem == SecSpec => []SecretOnlyInSecretmem
<1>1. SecInv => SecretOnlyInSecretmem
  BY Zenon DEF SecInv, NoFallback, SecretOnlyInSecretmem
<1> QED BY <1>1, SecInvHolds, PTL

\* While no task uses the key its pages are PROT_NONE, unless the mprotect that
\* should have hidden them failed (SecretRead::drop).
THEOREM KeyIsHiddenAtRest == SecSpec => []HiddenAtRest
<1>1. SecInv => HiddenAtRest
  <2> SUFFICES ASSUME SecInv, fate = "up", ~exposed,
                      \A t \in Tasks : at[t] \notin {"show", "count", "reading", "release", "uncount"}
               PROVE  pages[Boot].prot = "none"
    BY DEF HiddenAtRest
  <2>1. active = 0
    BY GuardsCounted, Zenon DEF Guards, GuardAt
  <2> QED BY <2>1, Zenon DEF SecInv, KeyKept, KeyShown
<1> QED BY <1>1, SecInvHolds, PTL

\* No error path of Region::alloc and no drop leaves a mapping, or a charge
\* against RLIMIT_MEMLOCK, behind.
THEOREM NothingIsKept == SecSpec => []NothingKept
<1>1. SecInv => NothingKept
  BY Zenon DEF SecInv, PagesFit, NothingKept, BareAt
<1> QED BY <1>1, SecInvHolds, PTL

\* Under Policy::BestEffort a kernel without secretmem, or with no lockable
\* memory left, never refuses a buffer (the fallback of Region::alloc).
THEOREM FallbackServes == SecSpec => []BestEffortServes
<1>1. SecInv => BestEffortServes
  BY Zenon DEF SecInv, Serves, BestEffortServes
<1> QED BY <1>1, SecInvHolds, PTL

\* Past its length a SecretVec holds no byte of an earlier, longer content
\* (SecretVec::push_slice, SecretVec::truncate).
THEOREM TailIsWiped == SecSpec => []TailWiped
<1>1. SecInv => TailWiped
  BY Zenon DEF SecInv, VecFits, CleanVec, TailWiped
<1> QED BY <1>1, SecInvHolds, PTL

\* No step gives pages back to the kernel while they hold a secret (Region::drop
\* and the error paths of Region::alloc).
THEOREM PagesAreWiped == SecSpec => WipedBeforeUnmap
<1> DEFINE Wiped == \A a \in Owners : pages[a].data # "none" /\ pages'[a].data = "none" => ~pages[a].holds
<1>1. SecInv /\ [SecNext]_secVars => [Wiped]_secVars
  <2> SUFFICES ASSUME SecInv, SecNext PROVE Wiped
    OBVIOUS
  <2> USE DEF SecInv, TypeInv, Wiped, Page, Owners
  <2>1. ASSUME NEW a \in Owners, alloc(a) PROVE Wiped
    <3>1. at[a] \in AllocAt \cup {"reserve"}
      BY <2>1, Zenon DEF alloc, reserve, map_secretmem, reinstall_anonymous, protect_raw, lock_or_degrade, AllocAt
    <3>2. ~pages[a].holds
      BY <3>1 DEF PagesFit, AllocAt, BareAt, Unmapped
    <3>3. \A b \in Owners \ {a} : pages'[b] = pages[b]
      BY <2>1 DEF alloc, reserve, map_secretmem, reinstall_anonymous, protect_raw, lock_or_degrade, MapFailed, Fail
    <3> QED BY <3>2, <3>3, Zenon
  <2>2. ASSUME NEW a \in Owners, Scrub(a) \/ Unmap(a) PROVE Wiped
    BY <2>2 DEF Scrub, Unmap, PagesFit
  <2>3. ASSUME NEW t \in Tasks, TaskStep(t) PROVE Wiped
    BY SMTT(20), Zenon, <2>3 DEF TaskStep, BeginOp, unlock, ShowKey, TakeGuard, exposed_slice, LockRelease, DropGuard, FillVec, CryptInPlace, Finish, GiveUp
  <2>4. ASSUME (\E p \in Policies : harden_process(p)) \/ FillAndHide \/ Refuse \/ DropKey PROVE Wiped
    BY <2>4 DEF harden_process, FillAndHide, Refuse, DropKey
  <2> QED BY <2>1, <2>2, <2>3, <2>4, Zenon DEF SecNext
<1> QED BY <1>1, SecInvHolds, PTL DEF SecSpec, WipedBeforeUnmap, Wiped
=============================================================================
