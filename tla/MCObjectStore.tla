---------------------------- MODULE MCObjectStore ----------------------------
(* Model values and symmetry for the instances of ObjectStore.              *)
EXTENDS ObjectStore, TLC

\* Keys and requests of one kind are interchangeable.
Symmetry ==
    UNION {Permutations(S) : S \in {Keys, Streamers, Putters, Deleters, Labelers, Readers}}
=============================================================================
