------------------------------ MODULE MCNode ------------------------------
(* The life of a node's keys in three parts, each checked by itself: setup,
   the device registry, and the rotation of the node key.                  *)
EXTENDS MCNodeKeyRotation, MCSetup, MCDevices

VARIABLE part
nodeVars == <<mcvars, setupVars, devVars, part>>

PartSet == {"rotation", "setup", "devices"}

NodeInit ==
    /\ part \in PartSet
    /\ MCInit /\ (part # "rotation" => mode = "operator" /\ manifest = k1 /\ ~resumable)
    /\ IF part = "setup" THEN \E m \in DOMAIN SetupMixes : SetupInit(SetupMixes[m]) ELSE SetupInit(SetupMixes.fresh)
    /\ DevInit /\ (part # "devices" => traffic = Policy)

NodeNext ==
    \/ part = "rotation" /\ MCNext /\ UNCHANGED <<setupVars, devVars, part>>
    \/ part = "setup" /\ SetupNext /\ UNCHANGED <<mcvars, devVars, part>>
    \/ part = "devices" /\ DevNext /\ UNCHANGED <<mcvars, setupVars, part>>

Rotating(A) == part = "rotation" /\ A /\ UNCHANGED <<setupVars, devVars, part>>
NodeSpec ==
    /\ NodeInit /\ [][NodeNext]_nodeVars
    /\ WF_mcvars(Rotating(RotationStep /\ UNCHANGED resumable))
    /\ WF_mcvars(Rotating(Rerun))
=============================================================================
