------------------------------ MODULE Devices -------------------------------
(***************************************************************************)
(* The processes around the device registry: the daemon that unlocks in    *)
(* process or through the key agent's one-shot helpers, the agent's arm    *)
(* file, the sweep timer, `y2q admin device`, and node-key rotation. A     *)
(* process reads devices.json, works on its copy while others run, and     *)
(* writes it back; the keystore flock and the registry lock decide who may *)
(* do so at the same time.                                                 *)
(***************************************************************************)
EXTENDS DeviceRegistry, TLC

CONSTANTS
    HomeIds,   \* ids for TPM records
    AwayIds,   \* ids for FIDO2 records
    Helpers,   \* key agent helper processes
    Mixes,     \* what may happen in a run
    Slack,     \* how far the attested time may lag
    MaxCount,  \* the largest signature counter a token reaches
    MaxArms    \* how often the agent is armed

VARIABLES
    traffic,   \* the member of Mixes
    disk,      \* devices.json, Nil before init
    key,       \* the node key keystore.json's verifier expects
    renewing,  \* the new key of a rotation under way, or Nil
    clock,     \* true time
    pcr,       \* the host's PCR value
    tokens,    \* signature counter of each token
    flock,     \* holder of the keystore flock
    reglock,   \* holder of the registry lock
    job,       \* what each process is doing
    armed,     \* the agent's armed file
    taking,    \* the file a fetch has renamed it to
    left,      \* budgets: commands, crashes, arms
    seen       \* history used by the properties

devVars == <<traffic, disk, key, renewing, clock, pcr, tokens, flock, reglock, job, armed, taking, left, seen>>

Procs == {"daemon", "timer", "cli", "rotate"} \cup Helpers
Idle == [pc |-> "idle"]
Slack0(n) == IF n < 0 THEN 0 ELSE n

\* The attested time is the largest lower bound: at most the true time, Nil without a quorum.
attested_now == {Nil} \cup Slack0(clock - Slack)..clock

\* What an unlock attempt may find.
Envs(codes, passes) ==
    [time : attested_now, code : codes, pass : passes, pcr : {pcr},
     plugged : {{}, {a \in AwayIds : tokens[a] < MaxCount}},
     count : {[a \in AwayIds |-> tokens[a] + 1]}]

Codes == {Nil} \cup traffic.codes

--------------------------------------------------------------------------
Start(name) ==
    LET home  == init_registry(NewHome("h1", 1), 2, "k1")
        both  == enroll_device(home, NewAway("a1", 1, FALSE), Nil)
        away  == init_registry(NewAway("a1", 1, TRUE), 2, "k1")
    IN CASE name = "none" -> Nil [] name = "both" -> both [] name = "away" -> away

DevInit ==
    /\ traffic \in Mixes
    /\ disk = Start(traffic.start)
    /\ key = "k1" /\ renewing = Nil
    /\ clock = 0 /\ pcr = 1
    /\ tokens = [a \in AwayIds |-> 1]
    /\ flock = Nil /\ reglock = Nil
    /\ job = [p \in Procs |-> Idle]
    /\ armed = Nil /\ taking = Nil
    /\ left = [cmds |-> traffic.cmds, crashes |-> traffic.crashes, arms |-> 0]
    /\ seen = [uses |-> [s \in Slots |-> 0], fetches |-> 0,
               minted |-> [a \in AwayIds |-> 0], gone |-> {}, refused |-> FALSE, away |-> Nil]

--------------------------------------------------------------------------
(* Steps every process takes. *)

\* The time until which each record's newest grant was worth, by the true clock of its mint.
MintedBy(old, new) ==
    [a \in AwayIds |->
        IF \E i \in DOMAIN new.devs :
              /\ new.devs[i].id = a
              /\ new.devs[i].grant # Nil
              /\ ~\E j \in DOMAIN old.devs : old.devs[j].id = a /\ old.devs[j].grant = new.devs[i].grant
        THEN clock + new.secs ELSE seen.minted[a]]

\* persist: validate, sign, replace the file. A registry that does not pass is not written.
Persist(reg) ==
    IF Check(reg)
    THEN /\ disk' = Signed(reg)
         /\ seen' = [seen EXCEPT !.minted = IF disk = Nil THEN @ ELSE MintedBy(disk, reg),
                                 !.gone = IF disk = Nil THEN @ ELSE @ \cup (Ids(disk) \ Ids(reg))]
    ELSE disk' = disk /\ seen' = [seen EXCEPT !.refused = TRUE]

MaybePersist(reg) == IF reg = Nil THEN UNCHANGED <<disk, seen>> ELSE Persist(reg)

\* The end of a process: its memory is gone and its locks are free.
Ends(p) ==
    /\ job' = [job EXCEPT ![p] = Idle]
    /\ flock' = IF flock = p THEN Nil ELSE flock
    /\ reglock' = IF reglock = p THEN Nil ELSE reglock

Refuses(p) == Ends(p) /\ UNCHANGED <<disk, seen>>

\* The code an authority used is counted when the node key leaves the unlock.
Used(auth) ==
    [seen EXCEPT !.uses = IF auth.by = "Emergency" THEN [@ EXCEPT ![auth.id] = @ + 1] ELSE @,
                 !.away = IF auth.by = "Away" /\ auth.deadline # Nil THEN [id |-> auth.id, at |-> auth.at] ELSE @]

\* devices::unlock on the copy, up to and including its own persist. Helpers drop the lock here.
Unlock(p) ==
    /\ job[p].pc = "loaded"
    /\ \E env \in Envs(IF p \in Helpers THEN {job[p].arm.code} ELSE Codes,
                       IF p \in Helpers THEN {job[p].arm.pass} ELSE {TRUE}) :
        LET out  == unlock(job[p].reg, env)
            open == [job[p] EXCEPT !.pc = "opened", !.reg = out.reg, !.auth = out.auth @@ [at |-> clock]]
        IN /\ tokens' = [a \in AwayIds |-> IF a \in out.tried THEN tokens[a] + 1 ELSE tokens[a]]
           /\ MaybePersist(out.save)
           /\ IF out.auth = Nil
              THEN Ends(p)
              ELSE /\ job' = [job EXCEPT ![p] = open]
                   /\ reglock' = IF p \in Helpers THEN Nil ELSE reglock
                   /\ UNCHANGED flock
    /\ UNCHANGED <<traffic, key, renewing, clock, pcr, armed, taking, left>>

Loaded(op) == [pc |-> "loaded", op |-> op, reg |-> disk, auth |-> Nil]

Crash(p) ==
    /\ job[p] # Idle /\ left.crashes > 0
    /\ Ends(p)
    /\ left' = [left EXCEPT !.crashes = @ - 1]
    /\ UNCHANGED <<traffic, disk, key, renewing, clock, pcr, tokens, armed, taking, seen>>

--------------------------------------------------------------------------
(* The daemon. *)

\* In-process device mode: the keystore flock is held, the registry lock is not.
DaemonBoot ==
    /\ traffic.mode = "inprocess"
    /\ job["daemon"] = Idle /\ flock = Nil /\ renewing = Nil /\ disk # Nil
    /\ flock' = "daemon"
    /\ job' = [job EXCEPT !["daemon"] = Loaded("boot")]
    /\ UNCHANGED <<traffic, disk, key, renewing, clock, pcr, tokens, reglock, armed, taking, left, seen>>

\* The node key is compared with keystore.json's verifier before anything is served.
DaemonServe ==
    LET j == job["daemon"] IN
    /\ j.pc = "opened"
    /\ IF j.reg.nk.key = key
       THEN /\ job' = [job EXCEPT !["daemon"] = [pc |-> "serving", master |-> j.auth.by = "Home"]]
            /\ UNCHANGED <<flock, reglock>>
       ELSE Ends("daemon")
    /\ seen' = Used(j.auth)
    /\ UNCHANGED <<traffic, disk, key, renewing, clock, pcr, tokens, armed, taking, left>>

\* The grant timer of an in-process boot; a registry somebody works on is left for the next tick.
SweepLoad ==
    /\ traffic.mode = "inprocess"
    /\ job["daemon"].pc = "serving" /\ reglock = Nil
    /\ reglock' = "daemon"
    /\ job' = [job EXCEPT !["daemon"] = [pc |-> "sweeping", master |-> @.master, reg |-> disk]]
    /\ UNCHANGED <<traffic, disk, key, renewing, clock, pcr, tokens, flock, armed, taking, left, seen>>

SweepSave ==
    LET j == job["daemon"] IN
    /\ j.pc = "sweeping"
    /\ \E now \in attested_now : MaybePersist(sweep_now(j.reg, j.master, now))
    /\ job' = [job EXCEPT !["daemon"] = [pc |-> "serving", master |-> j.master]]
    /\ reglock' = IF reglock = "daemon" THEN Nil ELSE reglock
    /\ UNCHANGED <<traffic, key, renewing, clock, pcr, tokens, flock, armed, taking, left>>

\* Agent mode: connect, which starts a helper, and wait.
DaemonFetch(h) ==
    /\ traffic.mode = "agent"
    /\ job["daemon"] = Idle /\ flock = Nil /\ renewing = Nil
    /\ job[h] = Idle
    /\ flock' = "daemon"
    /\ job' = [job EXCEPT !["daemon"] = [pc |-> "waiting", on |-> h], ![h] = [pc |-> "take"]]
    /\ UNCHANGED <<traffic, disk, key, renewing, clock, pcr, tokens, reglock, armed, taking, left, seen>>

\* key_agent_timeout_seconds: the daemon gives up, the helper works on.
FetchTimeout ==
    /\ job["daemon"].pc = "waiting" /\ left.crashes > 0
    /\ Ends("daemon")
    /\ left' = [left EXCEPT !.crashes = @ - 1]
    /\ UNCHANGED <<traffic, disk, key, renewing, clock, pcr, tokens, armed, taking, seen>>

DaemonExit ==
    /\ job["daemon"].pc = "serving"
    /\ Refuses("daemon")
    /\ UNCHANGED <<traffic, key, renewing, clock, pcr, tokens, armed, taking, left>>

--------------------------------------------------------------------------
(* The key agent. *)

\* The armed file is replaced by rename.
WriteArmed(code, pass) == armed' = [code |-> code, pass |-> pass]

\* y2q-keyarm, as root.
Arm ==
    /\ traffic.mode = "agent" /\ left.arms < MaxArms
    /\ \E code \in Codes, pass \in traffic.passes : WriteArmed(code, pass)
    /\ left' = [left EXCEPT !.arms = @ + 1]
    /\ UNCHANGED <<traffic, disk, key, renewing, clock, pcr, tokens, flock, reglock, job, taking, seen>>

\* The helper's answer is an error; the daemon that waits for it gives up with it.
HelperFails(h) ==
    LET waits == job["daemon"].pc = "waiting" /\ job["daemon"].on = h IN
    /\ job' = [job EXCEPT ![h] = Idle, !["daemon"] = IF waits THEN Idle ELSE @]
    /\ flock' = IF waits THEN Nil ELSE flock

TakeRename(h) ==
    /\ job[h].pc = "take"
    /\ IF armed = Nil
       THEN HelperFails(h) /\ UNCHANGED <<armed, taking>>
       ELSE /\ taking' = armed /\ armed' = Nil
            /\ job' = [job EXCEPT ![h] = [pc |-> "read"]]
            /\ UNCHANGED flock
    /\ UNCHANGED <<traffic, disk, key, renewing, clock, pcr, tokens, reglock, left, seen>>

\* read_taking: whatever the file of that name holds now.
TakeRead(h) ==
    /\ job[h].pc = "read"
    /\ job' = [job EXCEPT ![h] = [pc |-> "erase", arm |-> taking]]
    /\ UNCHANGED <<traffic, disk, key, renewing, clock, pcr, tokens, flock, reglock, armed, taking, left, seen>>

\* The fetch does not go on unless this helper erased the file it had read.
TakeErase(h) ==
    /\ job[h].pc = "erase"
    /\ taking' = Nil
    /\ IF taking = Nil \/ job[h].arm = Nil
       THEN HelperFails(h)
       ELSE job' = [job EXCEPT ![h].pc = "want"] /\ UNCHANGED flock
    /\ UNCHANGED <<traffic, disk, key, renewing, clock, pcr, tokens, reglock, armed, left, seen>>

\* unlock_for_fetch: a busy registry is an error, and the authorization is spent.
HelperLoad(h) ==
    /\ job[h].pc = "want"
    /\ IF reglock # Nil \/ disk = Nil
       THEN HelperFails(h) /\ UNCHANGED reglock
       ELSE /\ reglock' = h
            /\ job' = [job EXCEPT ![h] = Loaded("fetch") @@ [arm |-> job[h].arm]]
            /\ UNCHANGED flock
    /\ UNCHANGED <<traffic, disk, key, renewing, clock, pcr, tokens, armed, taking, left, seen>>

\* The node key goes out once, whether or not the daemon still listens.
HelperReply(h) ==
    LET waits == job["daemon"].pc = "waiting" /\ job["daemon"].on = h
        used  == Used(job[h].auth)
    IN
    /\ job[h].pc = "opened"
    /\ seen' = [used EXCEPT !.fetches = @ + 1]
    /\ LET fine == waits /\ job[h].reg.nk.key = key IN
       /\ job' = [job EXCEPT ![h] = Idle,
                             !["daemon"] = IF fine THEN [pc |-> "serving", master |-> FALSE] ELSE IF waits THEN Idle ELSE @]
       /\ flock' = IF waits /\ ~fine THEN Nil ELSE flock
    /\ UNCHANGED <<traffic, disk, key, renewing, clock, pcr, tokens, reglock, armed, taking, left>>

\* A helper whose unlock failed has ended; the daemon reads its error.
HelperGone ==
    /\ job["daemon"].pc = "waiting" /\ job[job["daemon"].on] = Idle
    /\ Refuses("daemon")
    /\ UNCHANGED <<traffic, key, renewing, clock, pcr, tokens, armed, taking, left>>

--------------------------------------------------------------------------
(* y2qd --key-sweep. *)

\* Mutant: the sweep does not wait for the lock.
TimerLoadUnlocked ==
    /\ "timer" \in traffic.procs
    /\ job["timer"] = Idle /\ disk # Nil
    /\ job' = [job EXCEPT !["timer"] = [Loaded("sweep") EXCEPT !.pc = "sweep"]]
    /\ UNCHANGED <<traffic, disk, key, renewing, clock, pcr, tokens, flock, reglock, armed, taking, left, seen>>

TimerLoad ==
    /\ "timer" \in traffic.procs
    /\ job["timer"] = Idle /\ reglock = Nil /\ disk # Nil
    /\ reglock' = "timer"
    /\ job' = [job EXCEPT !["timer"] = [Loaded("sweep") EXCEPT !.pc = "sweep"]]
    /\ UNCHANGED <<traffic, disk, key, renewing, clock, pcr, tokens, flock, armed, taking, left, seen>>

TimerSave ==
    /\ job["timer"].pc = "sweep"
    /\ \E env \in Envs({Nil}, {FALSE}) : MaybePersist(unlock_home(job["timer"].reg, env).save)
    /\ Ends("timer")
    /\ UNCHANGED <<traffic, key, renewing, clock, pcr, tokens, armed, taking, left>>

--------------------------------------------------------------------------
(* y2q admin device. *)

\* Both locks, then the registry is read. repair-state does not unlock it.
CliOpen(op) ==
    /\ op \in traffic.ops /\ left.cmds > 0
    /\ job["cli"] = Idle /\ flock = Nil /\ reglock = Nil
    /\ (op = "init") = (disk = Nil)
    /\ flock' = "cli" /\ reglock' = "cli"
    /\ left' = [left EXCEPT !.cmds = @ - 1]
    /\ job' = [job EXCEPT !["cli"] = [Loaded(op) EXCEPT !.pc = IF op \in {"init", "repair"} THEN op ELSE "loaded"]]
    /\ UNCHANGED <<traffic, disk, key, renewing, clock, pcr, tokens, armed, taking, seen>>

Fresh(ids) == ids \ (seen.gone \cup Ids(job["cli"].reg))

\* A command's change to the registry in memory.
Enrolled(op, reg, auth, env) ==
    LET permanent == Homes(reg) = {} IN
    {IF ~MayEnroll(reg, auth) THEN Nil
     ELSE enroll_device(reg, IF op = "add_tpm" THEN NewHome(id, pcr) ELSE NewAway(id, tokens[id], permanent), env.time)
       : id \in Fresh(IF op = "add_tpm" THEN HomeIds ELSE AwayIds)}

Removed(reg, auth) == {remove_device(reg, i, auth) : i \in DOMAIN reg.devs}
Resealed(reg, auth, env) == {reseal_device(reg, i, auth, env) : i \in Homes(reg)}
Factored(reg, auth, env) == {set_home_factor(reg, i, f, auth, env) : i \in Homes(reg), f \in {Nil, Passcode} \cup AwayIds}
Refresh(reg, auth, env) == {refresh_grants(reg, auth, env.time)}
Rescheduled(reg, auth, env) == {set_grant_period(reg, secs, auth, env.time) : secs \in Periods}

Changed(op, reg, auth, env) ==
    CASE op = "remove"     -> Removed(reg, auth)
      [] op = "reseal"     -> Resealed(reg, auth, env)
      [] op = "set_factor" -> Factored(reg, auth, env)
      [] op = "refresh"    -> Refresh(reg, auth, env)
      [] op = "set_period" -> Rescheduled(reg, auth, env)
      [] OTHER             -> Enrolled(op, reg, auth, env)

\* One change, one persist; a refused command has still spent the code that opened the registry.
CliCommand ==
    LET j == job["cli"] IN
    /\ j.pc = "opened"
    /\ \E env \in Envs({Nil}, {TRUE}) : \E new \in Changed(j.op, j.reg, j.auth, env) :
        LET save == [pc |-> "save", new |-> new] IN
        IF new = Nil THEN Ends("cli") ELSE job' = [job EXCEPT !["cli"] = save] /\ UNCHANGED <<flock, reglock>>
    /\ seen' = Used(j.auth)
    /\ UNCHANGED <<traffic, disk, key, renewing, clock, pcr, tokens, armed, taking, left>>

CliSave ==
    /\ job["cli"].pc = "save"
    /\ Persist(job["cli"].new)
    /\ Ends("cli")
    /\ UNCHANGED <<traffic, key, renewing, clock, pcr, tokens, armed, taking, left>>

\* provision::init: a first home, or a first away device that holds a permanent wrap.
FirstDevice(id) == IF id \in HomeIds THEN NewHome(id, pcr) ELSE NewAway(id, tokens[id], TRUE)

\* Under both locks the file cannot have appeared since it was looked for.
InitRegistry ==
    /\ job["cli"].pc = "init"
    /\ \E id \in HomeIds \cup AwayIds, secs \in Periods : Persist(init_registry(FirstDevice(id), secs, key))
    /\ Ends("cli")
    /\ UNCHANGED <<traffic, key, renewing, clock, pcr, tokens, armed, taking, left>>

RepairState ==
    /\ job["cli"].pc = "repair"
    /\ \E env \in Envs(Codes, {TRUE}), allow \in BOOLEAN :
        MaybePersist(repair_state_entry(job["cli"].reg, allow, env, IF renewing = Nil THEN key ELSE Nil))
    /\ Ends("cli")
    /\ UNCHANGED <<traffic, key, renewing, clock, pcr, tokens, armed, taking, left>>

--------------------------------------------------------------------------
(* y2qd --rotate-node-key over a registry: the keystore flock only. *)

RotateOpen ==
    /\ "rotate" \in traffic.procs
    /\ job["rotate"] = Idle /\ flock = Nil /\ disk # Nil
    /\ renewing # Nil \/ left.cmds > 0
    /\ flock' = "rotate"
    /\ left' = [left EXCEPT !.cmds = IF renewing = Nil THEN @ - 1 ELSE @]
    /\ job' = [job EXCEPT !["rotate"] = Loaded("rotate")]
    /\ UNCHANGED <<traffic, disk, key, renewing, clock, pcr, tokens, reglock, armed, taking, seen>>

\* The journal decides whether to start, to resume the migration, or only to finish.
RotateGuard ==
    LET j   == job["rotate"]
        to  == IF renewing = Nil THEN (IF key = "k1" THEN "k2" ELSE "k1") ELSE renewing
        may == j.auth.by # "Away" \/ Homes(j.reg) = {}
        go(pc) == job' = [job EXCEPT !["rotate"] = [j EXCEPT !.pc = pc]] /\ renewing' = to /\ UNCHANGED <<flock, reglock>>
    IN
    /\ j.pc = "opened"
    /\ IF may /\ j.reg.nk.key = key THEN go("migrate")
       ELSE IF may /\ renewing # Nil /\ j.reg.nk.key = to THEN go("finish")
       ELSE Ends("rotate") /\ UNCHANGED renewing
    /\ seen' = Used(j.auth)
    /\ UNCHANGED <<traffic, disk, key, clock, pcr, tokens, armed, taking, left>>

\* After the tree and the user store: nk_wrap is rewritten in the copy read at the start.
RotateRewrite ==
    /\ job["rotate"].pc = "migrate"
    /\ Persist(rewrite_nk_wrap(job["rotate"].reg, renewing))
    /\ job' = [job EXCEPT !["rotate"].pc = "finish"]
    /\ UNCHANGED <<traffic, key, renewing, clock, pcr, tokens, flock, reglock, armed, taking, left>>

RotateFinish ==
    /\ job["rotate"].pc = "finish"
    /\ key' = renewing /\ renewing' = Nil
    /\ Ends("rotate")
    /\ UNCHANGED <<traffic, disk, clock, pcr, tokens, armed, taking, left, seen>>

--------------------------------------------------------------------------
(* The world. *)

Tick ==
    /\ clock < traffic.clock
    /\ clock' = clock + 1
    /\ UNCHANGED <<traffic, disk, key, renewing, pcr, tokens, flock, reglock, job, armed, taking, left, seen>>

\* A changed boot chain.
PcrChange ==
    /\ "pcr" \in traffic.faults /\ pcr = 1
    /\ pcr' = 2
    /\ UNCHANGED <<traffic, disk, key, renewing, clock, tokens, flock, reglock, job, armed, taking, left, seen>>

\* A token whose counter is behind (another token with the same credential).
TokenLags ==
    /\ "token" \in traffic.faults
    /\ \E a \in AwayIds : tokens[a] > 1 /\ tokens' = [tokens EXCEPT ![a] = 1]
    /\ UNCHANGED <<traffic, disk, key, renewing, clock, pcr, flock, reglock, job, armed, taking, left, seen>>

\* A file that no longer matches its MAC: a slot, a counter or a deadline is not what was written.
Damaged(reg) ==
    {[reg EXCEPT !.slots[s] = TRUE] : s \in Slots}
        \cup {[reg EXCEPT !.devs[i].count = 0] : i \in Aways(reg)}
        \cup {[reg EXCEPT !.devs[i].grant = Nil] : i \in Aways(reg)}

FileDamage ==
    /\ "damage" \in traffic.faults /\ disk # Nil /\ disk.mac
    /\ \E reg \in Damaged(disk) : reg # disk /\ disk' = [reg EXCEPT !.mac = FALSE]
    /\ left.crashes > 0 /\ left' = [left EXCEPT !.crashes = @ - 1]
    /\ UNCHANGED <<traffic, key, renewing, clock, pcr, tokens, flock, reglock, job, armed, taking, seen>>

DevNext ==
    \/ \E p \in Procs : Unlock(p) \/ Crash(p)
    \/ DaemonBoot \/ DaemonServe \/ SweepLoad \/ SweepSave \/ DaemonExit
    \/ \E h \in Helpers : DaemonFetch(h) \/ TakeRename(h) \/ TakeRead(h) \/ TakeErase(h) \/ HelperLoad(h) \/ HelperReply(h)
    \/ FetchTimeout \/ HelperGone \/ Arm
    \/ TimerLoad \/ TimerSave
    \/ \E op \in traffic.ops : CliOpen(op)
    \/ CliCommand \/ CliSave \/ InitRegistry \/ RepairState
    \/ RotateOpen \/ RotateGuard \/ RotateRewrite \/ RotateFinish
    \/ Tick \/ PcrChange \/ TokenLags \/ FileDamage

--------------------------------------------------------------------------
(* Properties. *)

\* A printed code opens the node once, whatever crashes, times out or runs at the same time.
CodeOnce == \A s \in Slots : seen.uses[s] <= 1

\* An away device opens the node only within a grant period, plus the lag of attested time, of the
\* moment some home authority last minted its grant.
GrantWindow == seen.away # Nil => seen.away.at <= seen.minted[seen.away.id] + Slack

\* Whatever is written authenticates and opens again: with the boot chain it was sealed to, the
\* passcode, every token and the time, a device opens it, and it holds the keystore's key.
Reopens ==
    disk # Nil /\ disk.mac /\ flock # "rotate" /\ renewing = Nil =>
        LET env == [time |-> clock, code |-> Nil, pass |-> TRUE, plugged |-> AwayIds, pcr |-> pcr,
                    count |-> [a \in AwayIds |-> MaxCount + 1]]
            out == unlock(disk, env)
        IN /\ disk.nk.key = key
           /\ (\A i \in Homes(disk) : disk.devs[i].pcr = pcr) => out.auth # Nil
           /\ \A i \in Aways(disk) : disk.devs[i].grant # Nil => AwayOpens(disk, disk.devs[i])

\* No command builds a registry that persist refuses, short of one record too many.
PersistAccepts == ~seen.refused

\* The helpers let the node key out at most as often as root armed the agent, although they share one name for the file
\* they take.  (Not: once per armed file.  Three helpers that overlap may serve one file twice and another never.)
FetchesArmed == seen.fetches <= left.arms

\* What was given out for one use opens the node once: an emergency code, an arming of the agent.
OpensOnce == CodeOnce /\ FetchesArmed

\* The registry never locks its owner out: what is written opens again, and what a command builds is accepted.
WrittenReopens == Reopens /\ PersistAccepts

\* No write takes back or widens what must stay.  A burned slot stays burned, a removed record stays away, and
\* the last counter accepted from a token never goes back: no writer overwrites what another wrote (registry.rs,
\* try_lock_registry).  Under an emergency code a command only narrows: no record and no grant appears, the period
\* does not grow.
NoLostUpdate ==
    [][/\ disk # Nil /\ disk.mac /\ disk'.mac =>
            /\ \A s \in Slots : disk.slots[s] => disk'.slots[s]
            /\ Ids(disk') \cap seen.gone = {}
            /\ \A i \in DOMAIN disk.devs, j \in DOMAIN disk'.devs :
                disk.devs[i].id = disk'.devs[j].id => disk.devs[i].count <= disk'.devs[j].count
       /\ job["cli"].pc = "opened" /\ job["cli"].auth.by = "Emergency" /\ job'["cli"].pc = "save" =>
            LET old == job["cli"].reg
                new == job'["cli"].new
            IN /\ Ids(new) \subseteq Ids(old)
               /\ new.secs <= old.secs
               /\ \A j \in Aways(new) : new.devs[j].grant # Nil =>
                    \E i \in Aways(old) : old.devs[i].id = new.devs[j].id /\ old.devs[i].grant = new.devs[j].grant]_devVars

=============================================================================
