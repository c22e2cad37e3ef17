------------------------- MODULE MCEncryptedBackend -------------------------
(* Instances of EncryptedBackend.  A run has several scenarios, one per    *)
(* behaviour: what is at the path first, which faults strike, how many     *)
(* opens and calls there are.                                              *)
EXTENDS EncryptedBackend

CONSTANT Scenarios
VARIABLE scenario

FileScenarios == {[start |-> "foreign", faults |-> {}, opens |-> 2, ops |-> 3]}
FaultScenarios ==
    {[start |-> "empty", faults |-> {"kill", "power", "tear", "short"}, opens |-> 3, ops |-> 2],
     [start |-> "empty", faults |-> {"kill", "error"}, opens |-> 4, ops |-> 2],
     [start |-> "legacy", faults |-> {"kill", "error"}, opens |-> 4, ops |-> 1]}
NoScenario == [start |-> "empty", faults |-> {}, opens |-> 0, ops |-> 0]

MCInit == scenario \in Scenarios /\ InitFrom(scenario.start)
MCNext ==
    /\ Operation \/ Fault(scenario.faults)
    /\ opens' <= scenario.opens /\ ops' <= scenario.ops
    /\ UNCHANGED scenario
=============================================================================
