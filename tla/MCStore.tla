------------------------------ MODULE MCStore ------------------------------
(* The store in two parts, each checked by itself: requests on objects, and
   the encrypted file under the index.                                     *)
EXTENDS MCObjectStore, MCEncryptedBackend

VARIABLE focus
storeVars == <<vars, backendVars, scenario, focus>>

PartSet == {"store", "backend"}
BackendRest == scenario = NoScenario /\ InitFrom("empty")

StoreInit ==
    /\ focus \in PartSet /\ Init
    /\ IF focus = "backend" THEN MCInit ELSE BackendRest
StoreNext ==
    \/ focus = "store" /\ Next /\ UNCHANGED <<backendVars, scenario, focus>>
    \/ focus = "backend" /\ MCNext /\ UNCHANGED <<vars, focus>>
StoreSpec == StoreInit /\ [][StoreNext]_storeVars
StoreFairSpec == StoreSpec /\ WF_vars(focus = "store" /\ RebuildStep /\ UNCHANGED <<backendVars, scenario, focus>>)
=============================================================================
