----------------------------- MODULE MCDeployment -----------------------------
(* The three stages of a deployment, each run by itself: identities are       *)
(* enrolled, processes load the pre-shared key, the server holds sessions, of *)
(* nodes that ask for one role and any device, or for any role and one device *)
(* at a time.                                                                 *)
EXTENDS MCSessions, Provisioning, DevicePsk

CONSTANTS p1, p2

TwoProcesses == {p1, p2}

StageSymmetry == Symmetry \union Permutations(Processes)

VARIABLE stage

OneRole == \A s \in Sids : pending_handshakes'[s] # "sensor"

OneName ==
    Cardinality(({device'[s] : s \in Sids} \union {served'[s] : s \in Sids})
                   \ {NoOne}) <= 1

StagesInit ==
    /\ stage \in {"enrol", "load", "serve devices", "serve roles"}
    /\ Init /\ ProvisionInit /\ PskInit

StagesNext ==
    /\ UNCHANGED stage
    /\ \/ stage = "serve devices" /\ Next /\ OneRole
          /\ UNCHANGED <<provisionVars, pskVars>>
       \/ stage = "serve roles" /\ Next /\ OneName
          /\ UNCHANGED <<provisionVars, pskVars>>
       \/ stage = "enrol" /\ Provision /\ UNCHANGED <<vars, pskVars>>
       \/ stage = "load" /\ PskNext /\ UNCHANGED <<vars, provisionVars>>

StagesSpec ==
    StagesInit /\ [][StagesNext]_<<stage, vars, provisionVars, pskVars>>
===============================================================================
