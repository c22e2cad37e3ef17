--------------------------- MODULE DeviceRegistry ---------------------------
(***************************************************************************)
(* The device registry (devices.json) as a value, and every function of    *)
(* crypto/devices that reads or rewrites it. A wrap is modelled by what it *)
(* is sealed under: it opens exactly when the key and the associated data  *)
(* it is opened with are the ones it was made with. The registry master    *)
(* key never changes, so it does not appear.                               *)
(***************************************************************************)
EXTENDS Integers, SequencesExt

CONSTANTS
    Slots,       \* emergency slots
    Periods,     \* MIN_AWAY_GRANT_SECONDS..MAX_AWAY_GRANT_SECONDS
    MAX_DEVICES, \* the most records a registry holds
    Passcode,    \* the passcode factor; the other factors are ids of away records
    Malformed,   \* a text that is no emergency code
    Wrong,       \* a code of another registry
    Nil

--------------------------------------------------------------------------
(* Records. *)

\* The secret a record's KEK is derived from and the factor byte its wrap is bound to.
Kek(d) == [gen |-> d.gen, factor |-> d.factor]

IsHome(d) == d.kind = "Tpm2"
IsAway(d) == d.kind = "Fido2"

Homes(reg) == {i \in DOMAIN reg.devs : IsHome(reg.devs[i])}
Aways(reg) == {i \in DOMAIN reg.devs : IsAway(reg.devs[i])}
Ids(reg) == {reg.devs[i].id : i \in DOMAIN reg.devs}

home_count(reg) == Cardinality(Homes(reg))

\* The records with f applied to each.
MapDevs(reg, f(_)) == [reg EXCEPT !.devs = [i \in DOMAIN @ |-> f(@[i])]]

check_home_factor(reg, factor) ==
    \/ factor \in {Nil, Passcode}
    \/ \E i \in Aways(reg) : reg.devs[i].id = factor

\* The structural rules that load and persist enforce.
Check(reg) ==
    /\ reg.secs \in Periods
    /\ Len(reg.devs) <= MAX_DEVICES
    /\ Cardinality(Ids(reg)) = Len(reg.devs)
    /\ \A i \in Homes(reg) :
        LET d == reg.devs[i] IN d.wrap # Nil /\ d.grant = Nil /\ check_home_factor(reg, d.factor)
    /\ \A i \in Aways(reg) :
        LET d == reg.devs[i] IN
        /\ d.factor = Nil
        /\ ~(d.wrap # Nil /\ d.grant # Nil)
        /\ d.wrap # Nil => reg.perm
        /\ d.grant # Nil => Homes(reg) # {}
        /\ reg.perm => d.wrap # Nil
    /\ reg.perm = (reg.devs # <<>> /\ Homes(reg) = {})

\* What persist leaves on disk: the state MAC is recomputed over whatever is written.
Signed(reg) == [reg EXCEPT !.mac = TRUE]

--------------------------------------------------------------------------
(* Grants. *)

sweep_grants(reg, now) ==
    MapDevs(reg, LAMBDA d : IF d.grant # Nil /\ d.grant.not_after < now THEN [d EXCEPT !.grant = Nil] ELSE d)

Mintable(reg) == IF reg.perm THEN {} ELSE {i \in Aways(reg) : reg.devs[i].wrap = Nil}

\* Mutant: the period is counted twice.
MintTwice(reg, now) ==
    [reg EXCEPT !.devs = [i \in DOMAIN @ |->
        IF i \in Mintable(reg)
        THEN [@[i] EXCEPT !.grant = [not_after |-> now + 2 * reg.secs, issued_at |-> now, secs |-> reg.secs]]
        ELSE @[i]]]

mint_grants(reg, now) ==
    [reg EXCEPT !.devs = [i \in DOMAIN @ |->
        IF i \in Mintable(reg)
        THEN [@[i] EXCEPT !.grant = [not_after |-> now + reg.secs, issued_at |-> now, secs |-> reg.secs]]
        ELSE @[i]]]

DropGrants(reg) == MapDevs(reg, LAMBDA d : [d EXCEPT !.grant = Nil])

\* An attested home unlock: sweep, then mint for every away record.
Refreshed(reg, now) == mint_grants(sweep_grants(reg, now), now)

--------------------------------------------------------------------------
(* Unlocking. env holds what the attempt is given: the attested time (Nil  *)
(* when it cannot be attested), an emergency code, whether the passcode is *)
(* known, the attached tokens, their counters and the host's PCR value.    *)

open_nk(reg) == reg.nk.secs = reg.secs

rmk_from_permanent(d) == d.wrap # Nil /\ d.wrap = Kek(d)

\* tpm2::unseal and the second factor.
home_device_secret(reg, d, env) ==
    /\ d.pcr = env.pcr
    /\ \/ d.factor = Nil
       \/ d.factor = Passcode /\ env.pass
       \/ d.factor \in env.plugged /\ \E i \in Aways(reg) : reg.devs[i].id = d.factor

\* An outcome: the registry in memory, the one written (Nil when none is), who opened it,
\* whether the attempt is over, the tokens that were asked for an assertion.
Outcome(reg, save, auth, over, tried) == [reg |-> reg, save |-> save, auth |-> auth, over |-> over, tried |-> tried]

Going(reg) == Outcome(reg, Nil, Nil, FALSE, {})
Fatal(reg) == Outcome(reg, Nil, Nil, TRUE, {})

Authority(by, id, deadline) == [by |-> by, id |-> id, deadline |-> deadline]

\* Mutant: the key is served and the burn is left to a later write.
EmergencyServesFirst(reg, env) ==
    IF env.code \notin Slots \/ reg.slots[env.code] \/ ~reg.mac THEN Going(reg)
    ELSE Outcome([reg EXCEPT !.slots[env.code] = TRUE], Nil, Authority("Emergency", env.code, Nil), TRUE, {})

emergency_unlock(reg, env) ==
    IF env.code = Nil THEN Going(reg)
    ELSE IF env.code = Malformed THEN Fatal(reg)
    ELSE IF env.code = Wrong \/ reg.slots[env.code] THEN Going(reg)
    ELSE IF ~reg.mac \/ ~open_nk(reg) THEN Fatal(reg)
    ELSE LET burned == Signed([reg EXCEPT !.slots[env.code] = TRUE])
         IN Outcome(burned, burned, Authority("Emergency", env.code, Nil), TRUE, {})

\* The first home record that opens decides.
try_home_records(reg, env) ==
    LET opens == {i \in Homes(reg) : home_device_secret(reg, reg.devs[i], env) /\ rmk_from_permanent(reg.devs[i])}
    IN IF opens = {} THEN Going(reg)
       ELSE IF ~reg.mac \/ ~open_nk(reg) THEN Fatal(reg)
       ELSE LET d    == reg.devs[CHOOSE i \in opens : \A j \in opens : i <= j]
                now  == env.time
                swept == IF now = Nil THEN reg ELSE sweep_grants(reg, now)
                new  == IF now = Nil THEN reg ELSE mint_grants(swept, now)
                save == now # Nil /\ (swept # reg \/ Mintable(swept) # {})
            IN Outcome(new, IF save THEN Signed(new) ELSE Nil, Authority("Home", d.id, Nil), TRUE, {})

\* The grant's associated data holds the registry's period.
AwayOpens(reg, d) == IF d.wrap # Nil THEN rmk_from_permanent(d) ELSE d.grant.secs = reg.secs

\* One away record, after the records before it. A grant found expired is erased on disk.
unlock_with_away(acc, i, env) ==
    LET reg   == acc.reg
        d     == reg.devs[i]
        tried == acc.tried \cup {d.id}
        swept == IF d.wrap = Nil THEN sweep_grants(reg, env.time) ELSE reg
        done  == Signed([swept EXCEPT !.devs[i].count = env.count[d.id]])
    IN IF acc.over \/ (d.wrap = Nil /\ d.grant = Nil) \/ d.id \notin env.plugged THEN acc
       ELSE IF ~AwayOpens(reg, d) THEN [acc EXCEPT !.tried = tried]
       ELSE IF ~reg.mac THEN [acc EXCEPT !.tried = tried, !.over = TRUE]
       ELSE IF d.wrap = Nil /\ env.time = Nil THEN [acc EXCEPT !.tried = tried]
       ELSE IF d.wrap = Nil /\ env.time > d.grant.not_after
            THEN Outcome(Signed(swept), Signed(swept), Nil, FALSE, tried)
       ELSE IF env.count[d.id] <= d.count THEN [acc EXCEPT !.reg = swept, !.tried = tried]
       ELSE IF ~open_nk(reg) THEN [acc EXCEPT !.tried = tried, !.over = TRUE]
       ELSE Outcome(done, done, Authority("Away", d.id, IF d.wrap = Nil THEN d.grant.not_after ELSE Nil), TRUE, tried)

try_away_records(reg, env) ==
    FoldLeft(LAMBDA acc, i : IF IsAway(acc.reg.devs[i]) THEN unlock_with_away(acc, i, env) ELSE acc,
             Going(reg), [i \in DOMAIN reg.devs |-> i])

\* Emergency code, then each home record, then each away record.
unlock(reg, env) ==
    LET e == emergency_unlock(reg, env)
        h == try_home_records(reg, env)
    IN IF e.over THEN e ELSE IF h.over THEN h ELSE try_away_records(reg, env)

\* The unattended sweep: home records only, no passcode, no PIN, no code.
unlock_home(reg, env) == try_home_records(reg, [env EXCEPT !.pass = FALSE, !.plugged = {}])

\* The daemon's own sweep. It holds the state key, and the master key after a home unlock.
sweep_now(reg, master, now) ==
    LET swept == sweep_grants(reg, now)
        new   == IF master THEN mint_grants(swept, now) ELSE swept
    IN IF ~reg.mac \/ now = Nil THEN Nil
       ELSE IF swept # reg \/ (master /\ Mintable(swept) # {}) THEN Signed(new) ELSE Nil

--------------------------------------------------------------------------
(* Commands: the registry in memory after the command, Nil when refused.   *)

NewHome(id, pcr) == [id |-> id, kind |-> "Tpm2", pcr |-> pcr, gen |-> 1, factor |-> Nil,
                     wrap |-> [gen |-> 1, factor |-> Nil], grant |-> Nil, count |-> 0]
NewAway(id, count, permanent) == [id |-> id, kind |-> "Fido2", pcr |-> 0, gen |-> 0, factor |-> Nil,
                     wrap |-> IF permanent THEN [gen |-> 0, factor |-> Nil] ELSE Nil, grant |-> Nil, count |-> count]

init_registry(first, secs, key) ==
    [devs |-> <<first>>, slots |-> [s \in Slots |-> FALSE], secs |-> secs, perm |-> IsAway(first),
     nk |-> [key |-> key, secs |-> secs], mac |-> TRUE]

\* Home authority, or an away device where there is no home; never an emergency code.
MayEnroll(reg, auth) == auth.by = "Home" \/ (auth.by = "Away" /\ Homes(reg) = {})

\* The first home over away records strips their permanent wraps.
enroll_device(reg, new, now) ==
    LET added    == [reg EXCEPT !.devs = Append(@, new), !.perm = ~IsHome(new) /\ Homes(reg) = {}]
        stripped == MapDevs(added, LAMBDA d : IF IsAway(d) THEN [d EXCEPT !.wrap = Nil] ELSE d)
    IN IF ~(IsHome(new) /\ Homes(reg) = {} /\ Aways(reg) # {}) THEN added
       ELSE IF now = Nil THEN stripped ELSE mint_grants(stripped, now)

remove_device(reg, i, auth) ==
    LET d    == reg.devs[i]
        left == [reg EXCEPT !.devs = RemoveAt(@, i)]
    IN IF \/ auth.by = "Away"
          \/ Len(reg.devs) = 1
          \/ IsHome(d) /\ home_count(reg) = 1
          \/ IsAway(d) /\ \E h \in Homes(reg) : reg.devs[h].factor = d.id
       THEN Nil
       ELSE [left EXCEPT !.perm = Homes(left) = {}]

refresh_grants(reg, auth, now) == IF auth.by # "Home" \/ now = Nil THEN Nil ELSE Refreshed(reg, now)

\* Mutants: the node key stays wrapped under the old period; an emergency code mints grants.
SetPeriodKeepsWrap(reg, secs, auth, now) ==
    IF auth.by # "Home" THEN Nil ELSE DropGrants([reg EXCEPT !.secs = secs])

set_grant_period(reg, secs, auth, now) ==
    LET new == DropGrants([reg EXCEPT !.secs = secs, !.nk.secs = secs])
    IN IF auth.by = "Away" \/ (auth.by = "Emergency" /\ secs >= reg.secs) THEN Nil
       ELSE IF auth.by = "Home" /\ now # Nil THEN mint_grants(new, now) ELSE new

\* A fresh secret sealed to the present PCR value; the factor stays and is asked for again.
reseal_device(reg, i, auth, env) ==
    LET d     == reg.devs[i]
        fresh == [d EXCEPT !.pcr = env.pcr, !.gen = 3 - @]
    IN IF auth.by = "Away" \/ ~IsHome(d) \/ ~home_device_secret(reg, fresh, env) THEN Nil
       ELSE [reg EXCEPT !.devs[i] = [fresh EXCEPT !.wrap = Kek(fresh)]]

set_home_factor(reg, i, factor, auth, env) ==
    LET d == reg.devs[i]
        f == [d EXCEPT !.factor = factor]
    IN IF \/ auth.by = "Away" \/ ~IsHome(d) \/ d.pcr # env.pcr
          \/ ~check_home_factor(reg, factor)
          \/ factor \notin {Nil, Passcode} /\ factor \notin env.plugged
       THEN Nil
       ELSE [reg EXCEPT !.devs[i] = [f EXCEPT !.wrap = Kek(f)]]

\* Who may re-sign a registry whose MAC does not verify: a home record, an away record of a
\* registry without homes when that is allowed, then an emergency code.
repair_authority(reg, allow_away, env) ==
    LET opens == {i \in DOMAIN reg.devs :
                    /\ rmk_from_permanent(reg.devs[i])
                    /\ IF IsHome(reg.devs[i]) THEN home_device_secret(reg, reg.devs[i], env)
                       ELSE Homes(reg) = {} /\ allow_away /\ reg.devs[i].id \in env.plugged}
    IN IF opens # {} THEN "device"
       ELSE IF env.code \in Slots /\ ~reg.slots[env.code] THEN "code" ELSE "nobody"

\* The MAC is checked on the registry as loaded; the burn is written with the repair or not at all.
repair_state_entry(reg, allow_away, env, expected) ==
    LET who    == repair_authority(reg, allow_away, env)
        burned == IF who = "code" THEN [reg EXCEPT !.slots[env.code] = TRUE] ELSE reg
    IN IF who = "nobody" \/ ~open_nk(reg) \/ (expected # Nil /\ reg.nk.key # expected) \/ reg.mac THEN Nil
       ELSE DropGrants(burned)

rewrite_nk_wrap(reg, key) == [reg EXCEPT !.nk = [key |-> key, secs |-> reg.secs]]
=============================================================================
