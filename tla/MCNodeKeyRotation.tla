------------------------- MODULE MCNodeKeyRotation -------------------------
(***************************************************************************)
(* NodeKeyRotation on a small deployment, in operator and in device mode.  *)
(* The variable resumable, chosen once, says whether rotations are stopped *)
(* anywhere or only where a re-run can go on.                              *)
(***************************************************************************)
EXTENDS NodeKeyRotation, TLC

CONSTANTS k1, k2, k3, b1, b2, b3, o1, o2

(* One bucket with two objects, one with one, one registered and empty. *)
HoldsDef == b1 :> {o1, o2} @@ b2 :> {o1} @@ b3 :> {}

VARIABLE resumable
mcvars == <<vars, resumable>>

(* The three windows in which a stop leaves a rotation that cannot be resumed:
   the journal exists but is not written; a bucket still under its old name
   holds a file of the new key; the verifier has flipped in operator mode. *)
InWindow ==
    \/ rot.pc = "write"
    \/ rot.bucket # None /\ \E f \in files[rot.bucket] : f[2] = rot.new
    \/ rot.pc = "delete" /\ mode = "operator"

MCInit == Init /\ resumable \in BOOLEAN
MCNext ==
    /\ CarefulNext
    /\ UNCHANGED resumable
    /\ (resumable /\ InWindow) => stops' = stops

(* A process runs on until it is stopped, and the operator re-runs a rotation
   that has a journal, with the same pair of keys. *)
Rerun ==
    /\ journal # None
    /\ \E old, new \in NodeKeys : RotateStart(old, new)
    /\ UNCHANGED resumable

MCSpec ==
    /\ MCInit /\ [][MCNext]_mcvars
    /\ WF_mcvars(RotationStep /\ UNCHANGED resumable)
    /\ WF_mcvars(Rerun)

(* Stops, boots and losses of the index anywhere. *)
MCAnySpec == MCInit /\ [][Next /\ UNCHANGED resumable]_mcvars

(* A journalled rotation that is stopped outside those windows, any number of
   times, is finished by re-running it. *)
Resumes == (resumable /\ journal # None) ~> (journal = None)
=============================================================================
