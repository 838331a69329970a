--------------------------- MODULE MCLogicSolver ---------------------------
(* Small instances of LogicSolver for TLC.  "stage", chosen in the first     *)
(* state and kept, says which parts of the environment are at work: each     *)
(* stage stresses one promise, and the bounds of the others stay small.      *)
EXTENDS LogicSolver, FiniteSets, TLC

CONSTANTS w1, w2, a1, a2, n1, n2, NaN

MCWorkers  == {w1, w2}
MCNonces   == {n1, n2}
MCEnrolled == {"operator-01", "sensor-01"}
MCSigners  == {"operator-01"}

(* Just under and on the setpoint. *)
MCTemps  == {79, 80}

(* From 80, with steps of 15 in 60 .. 100: one step up and one down, one more
   than a step down, and from there one past each bound. *)
MCValues == {59, 64, 65, 95, 101, NaN}

MCDrift  == {-1, 0, 1}

Symmetry == Permutations(MCNonces) \union Permutations(MCWorkers)

VARIABLE stage

Commands  == [actions |-> {"RESET", "BYPASS_ON"}, commands |-> 2,
              actuators |-> 0, clock |-> 0, restarts |-> 1, trips |-> TRUE]
Sessions  == [actions |-> {"RESET"}, commands |-> 1,
              actuators |-> 2, clock |-> 0, restarts |-> 0, trips |-> TRUE]
Clocks    == [actions |-> {"RESET", "BYPASS_OFF"}, commands |-> 1,
              actuators |-> 0, clock |-> MaxClock, restarts |-> 1,
              trips |-> FALSE]
Setpoints == [actions |-> {"SET_SETPOINT"}, commands |-> 2,
              actuators |-> 0, clock |-> 0, restarts |-> 0, trips |-> FALSE]

MCInit == Init /\ stage \in {Commands, Sessions, Clocks, Setpoints}

Within ==
    /\ \A c \in network' : c.action \in stage.actions
    /\ Cardinality(network') <= stage.commands
    /\ Cardinality(actuator_keys') <= stage.actuators
    /\ clock' <= stage.clock
    /\ restarts' <= stage.restarts
    /\ trip_state' = "HEALTHY" \/ stage.trips

MCNext == Next /\ UNCHANGED stage /\ Within

MCSpec == MCInit /\ [][MCNext]_<<vars, stage>>
=============================================================================
