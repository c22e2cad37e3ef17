----------------------------- MODULE MCDevices ------------------------------
(* Traffic for Devices: who unlocks, what the operator runs, what fails.   *)
EXTENDS Devices

\* The daemon unlocks in process, sweeps, crashes; a token may lag; the operator adds a device.
Legacy == [name |-> "legacy", mode |-> "inprocess", procs |-> {}, start |-> "both", ops |-> {"refresh", "remove"}, codes |-> {1}, passes |-> {TRUE},
           cmds |-> 1, crashes |-> 1, clock |-> 4, faults |-> {"token", "pcr"}]
\* Devices come and go.
Members == [Legacy EXCEPT !.name = "members", !.mode = "none", !.start = "away", !.ops = {"add_tpm", "add_fido2", "remove", "refresh"},
                          !.cmds = 3, !.crashes = 1, !.clock = 1, !.faults = {}]
\* A registry is made and its policy changed; the boot chain changes.
Policy == [Members EXCEPT !.name = "policy", !.start = "none", !.ops = {"init", "add_fido2", "set_period", "set_factor", "reseal"},
                          !.cmds = 4, !.crashes = 0, !.clock = 0, !.faults = {"pcr"}]
\* The policy of a registry with grants changes while time goes on.
Period == [Members EXCEPT !.name = "period", !.start = "both", !.ops = {"refresh", "set_period", "set_factor", "remove"}, !.cmds = 2, !.crashes = 0, !.clock = 3]
\* The key agent: two helpers, the timer, a daemon that gives up and comes back.
Agent == [Legacy EXCEPT !.name = "agent", !.mode = "agent", !.procs = {"timer"}, !.ops = {}, !.crashes = 1, !.clock = 1, !.faults = {}]
\* The file is damaged and repaired.
Repair == [Legacy EXCEPT !.name = "repair", !.ops = {"repair", "refresh"}, !.cmds = 2, !.crashes = 2, !.clock = 0, !.faults = {"damage", "pcr"}, !.codes = {1, Wrong, Malformed}]
\* The node key is rotated, with crashes, and the daemon boots in between.
Rotation == [Legacy EXCEPT !.name = "rotation", !.procs = {"rotate"}, !.ops = {}, !.cmds = 2, !.crashes = 2, !.clock = 0, !.faults = {"pcr"}]
PassingMixes == {Legacy, Members, Policy, Period, Agent, Repair, Rotation}
=============================================================================
