------------------------- MODULE LogicSolverProofs -------------------------
(***************************************************************************)
(* Proofs about LogicSolver for any number of threads and every set of     *)
(* identities, commands, readings, setpoints and actuators, every clamp,   *)
(* step, skew and tick, any number of restarts and any length of run.      *)
(***************************************************************************)
EXTENDS LogicSolver, TLAPS

-----------------------------------------------------------------------------
(* The steps of the solver.                                                  *)

(* A step of Next is one of these: telemetry and a manual trip come to the
   same decision, or to nothing. *)
LEMMA Steps ==
    ASSUME [Next]_vars
    PROVE  \/ UNCHANGED vars
           \/ \E w \in Workers :
                 \/ DecideTrip(w) \/ LatchTrip(w)
                 \/ \E valve \in {"OPEN", "CLOSED"} : RelayActuatorUi(w, valve)
                 \/ \E c \in network, intact \in BOOLEAN, f \in 0 .. Ticks - 1 :
                       HandleOperatorCommand(w, c, intact, f)
                 \/ \E a \in Actuators, tr \in Transports, same \in BOOLEAN :
                       ActuatorHandshake(w, a, tr, same)
                 \/ SyncActuatorState(w) \/ SendActuatorCommand(w)
                 \/ \E a \in Actuators : Dispatch(w, a)
                 \/ VerifyAndBurn(w) \/ ApplyOperatorAction(w)
                 \/ ClearTrip(w) \/ MoveSetpoint(w)
           \/ \E id \in Signers, action \in OPERATOR_ACTIONS,
                 value \in Values \union {NoValue}, n \in Nonces, d \in Drift :
                    BuildCommand(id, action, value, n, d)
           \/ \E a \in Actuators : ActuatorDisconnect(a)
           \/ Tick
           \/ Restart
<1>1. ASSUME NEW w \in Workers, NEW t \in Temperatures, NEW lane \in BOOLEAN,
             ProcessTelemetry(w, t, lane)
      PROVE  UNCHANGED vars \/ DecideTrip(w)
  BY <1>1 DEF ProcessTelemetry
<1>2. ASSUME NEW w \in Workers, ManualTrip(w) PROVE DecideTrip(w)
  BY <1>2 DEF ManualTrip
<1>3. QED
  BY <1>1, <1>2, Zenon DEF Next, Event, Step

(* What threads carry: one that handles a command has it from the network,
   and has burnt its nonce once it acts; one that moves the setpoint has
   looked at the range; only one that sends has actuators left. *)
Verified == {"apply", "clear", "move"}

ThreadsOK ==
    \A w \in Workers :
        /\ at[w] \in Holding => given[w] \in network
        /\ at[w] \in Verified => given[w].nonce \in operator_nonces
        /\ at[w] = "move" => InRange(given[w].value)
        /\ at[w] \notin {"send", "resync"} => rest[w] = {}

TypeInv == TypeOK /\ ThreadsOK

(* A thread that begins is typed. *)
LEMMA BeginTyped ==
    ASSUME TypeOK, NEW w \in Workers,
           NEW place \in Places, NEW c \in Command \union {NoCommand},
           NEW o \in {"none", "TRIP", "RESET"}, NEW s \in SUBSET Actuators,
           Begin(w, place, c, o, s)
    PROVE  /\ at' \in [Workers -> Places]
           /\ given' \in [Workers -> Command \union {NoCommand}]
           /\ since' \in [Workers -> Int]
           /\ order' \in [Workers -> {"none", "TRIP", "RESET"}]
           /\ rest' \in [Workers -> SUBSET Actuators]
<1>1. clock \in Int
  BY DEF TypeOK
<1>2. QED
  BY <1>1 DEF Begin, Go, TypeOK

(* ... and so is one that goes on. *)
LEMMA GoTyped ==
    ASSUME TypeOK, NEW w \in Workers, NEW place \in Places, Go(w, place)
    PROVE  at' \in [Workers -> Places]
BY DEF Go, TypeOK

(* Every command that Next may build is a Command. *)
LEMMA BuildTyped ==
    ASSUME TypeOK,
           NEW id \in Signers, NEW action \in OPERATOR_ACTIONS,
           NEW value \in Values \union {NoValue}, NEW n \in Nonces,
           NEW d \in Drift, BuildCommand(id, action, value, n, d)
    PROVE  network' \subseteq Command
<1> DEFINE second == (clock + d) \div Ticks
<1>1. second \in Int
  BY LogicSolverAssumption DEF TypeOK
<1>2. network' = network \union
         {[operator_id |-> id, action |-> action, value |-> value, nonce |-> n,
           timestamp |-> second]}
  BY DEF BuildCommand
<1> HIDE DEF second
<1>3. [operator_id |-> id, action |-> action, value |-> value, nonce |-> n,
       timestamp |-> second] \in Command
  BY <1>1 DEF Command
<1>4. QED
  BY <1>2, <1>3 DEF TypeOK

(* What a verified command does to the history of its nonce. *)
LEMMA RecordTyped ==
    ASSUME TypeOK, NEW c \in network, NEW time \in Int, Record(c, time)
    PROVE  /\ applied' \in [Nonces -> Use]
           /\ c.nonce \in Nonces
           /\ applied'[c.nonce].count = applied[c.nonce].count + 1
           /\ applied'[c.nonce].last = time
           /\ applied'[c.nonce].first =
                 IF applied[c.nonce].count = 0 THEN time
                 ELSE applied[c.nonce].first
           /\ \A n \in Nonces \ {c.nonce} : applied'[n] = applied[n]
<1>1. c.nonce \in Nonces
  BY DEF TypeOK, Command
<1> DEFINE u == applied[c.nonce]
           v == [count |-> u.count + 1,
                 first |-> IF u.count = 0 THEN time ELSE u.first,
                 last  |-> time]
<1>3. u \in Use
  BY <1>1 DEF TypeOK
<1>4. v \in Use
  BY <1>3 DEF Use
<1>5. applied' = [applied EXCEPT ![c.nonce] = v]
  BY <1>1 DEF Record, TypeOK
<1>6. QED
  BY <1>1, <1>4, <1>5 DEF TypeOK

(* A thread that verifies a command holds one of the network. *)
LEMMA VerifyTyped ==
    ASSUME TypeInv, NEW w \in Workers, VerifyAndBurn(w)
    PROVE  /\ given[w] \in network /\ given[w].nonce \in Nonces
           /\ since[w] \in Int
           /\ applied' \in [Nonces -> Use]
           /\ operator_nonces' \subseteq Nonces
<1>1. at[w] \in Holding
  BY DEF VerifyAndBurn, Holding
<1>2. given[w] \in network
  BY <1>1 DEF TypeInv, ThreadsOK
<1>3. given[w].nonce \in Nonces /\ since[w] \in Int
  BY <1>2 DEF TypeInv, TypeOK, Command
<1>4. operator_nonces' \subseteq Nonces
  BY <1>3 DEF VerifyAndBurn, Burn, TypeInv, TypeOK
<1>5. CASE at[w] = "sound"
  BY <1>2, <1>3, <1>4, <1>5, RecordTyped DEF VerifyAndBurn, TypeInv
<1>6. CASE at[w] # "sound"
  BY <1>2, <1>3, <1>4, <1>6 DEF VerifyAndBurn, TypeInv, TypeOK
<1>7. QED
  BY <1>5, <1>6

-----------------------------------------------------------------------------
(* The solver's state is always well formed: in particular the latch has two
   values, agreed keys belong to live sessions, and no setpoint that a thread
   is about to write is anything but a number in range. *)
LEMMA TypeStep == TypeInv /\ [Next]_vars => TypeOK'
<1> SUFFICES ASSUME TypeInv, [Next]_vars
             PROVE  TypeOK'
  OBVIOUS
<1> USE DEF Places, Holding
<1>t. TypeOK
  BY DEF TypeInv
<1>0. CASE UNCHANGED vars
  BY <1>0, <1>t DEF TypeOK, vars, solver, links, threads, world, history
<1>1. ASSUME NEW w \in Workers, DecideTrip(w)
      PROVE  TypeOK'
  <2>1. Begin(w, "latch", NoCommand, "TRIP", {})
    BY <1>1 DEF DecideTrip
  <2>2. /\ at' \in [Workers -> Places]
        /\ given' \in [Workers -> Command \union {NoCommand}]
        /\ since' \in [Workers -> Int]
        /\ order' \in [Workers -> {"none", "TRIP", "RESET"}]
        /\ rest' \in [Workers -> SUBSET Actuators]
    BY <1>t, <2>1, BeginTyped
  <2>3. QED
    BY <1>1, <1>t, <2>2
       DEF DecideTrip, TypeOK, solver, links, world, history
<1>2. ASSUME NEW w \in Workers, LatchTrip(w)
      PROVE  TypeOK'
  <2>1. at' \in [Workers -> Places]
    BY <1>2, <1>t, GoTyped DEF LatchTrip
  <2>2. reported' \in BOOLEAN
    BY <1>2, <1>t DEF LatchTrip, TypeOK
  <2>3. QED
    BY <1>2, <1>t, <2>1, <2>2 DEF LatchTrip, TypeOK, links, world
<1>3. ASSUME NEW w \in Workers, NEW valve \in {"OPEN", "CLOSED"},
             RelayActuatorUi(w, valve)
      PROVE  TypeOK'
  <2>1. Begin(w, "latch", NoCommand, "none", {})
    BY <1>3 DEF RelayActuatorUi
  <2>2. /\ at' \in [Workers -> Places]
        /\ given' \in [Workers -> Command \union {NoCommand}]
        /\ since' \in [Workers -> Int]
        /\ order' \in [Workers -> {"none", "TRIP", "RESET"}]
        /\ rest' \in [Workers -> SUBSET Actuators]
    BY <1>t, <2>1, BeginTyped
  <2>3. QED
    BY <1>3, <1>t, <2>2
       DEF RelayActuatorUi, TypeOK, solver, links, world, history
<1>4. ASSUME NEW w \in Workers, NEW c \in network, NEW intact \in BOOLEAN,
             NEW f \in 0 .. Ticks - 1, HandleOperatorCommand(w, c, intact, f)
      PROVE  TypeOK'
  <2>1. c \in Command /\ c.nonce \in Nonces
    BY <1>t DEF TypeOK, Command
  <2>2. raced' \subseteq Nonces
    BY <1>4, <1>t, <2>1 DEF HandleOperatorCommand, TypeOK
  <2>3. PICK place \in {"sound", "garbled"} : Begin(w, place, c, "none", {})
    BY <1>4 DEF HandleOperatorCommand
  <2>4. /\ at' \in [Workers -> Places]
        /\ given' \in [Workers -> Command \union {NoCommand}]
        /\ since' \in [Workers -> Int]
        /\ order' \in [Workers -> {"none", "TRIP", "RESET"}]
        /\ rest' \in [Workers -> SUBSET Actuators]
    BY <1>t, <2>1, <2>3, BeginTyped
  <2>5. QED
    BY <1>4, <1>t, <2>2, <2>4
       DEF HandleOperatorCommand, TypeOK, solver, links, world
<1>5. ASSUME NEW w \in Workers, NEW a \in Actuators, NEW tr \in Transports,
             NEW same \in BOOLEAN, ActuatorHandshake(w, a, tr, same)
      PROVE  TypeOK'
  <2>1. /\ at' \in [Workers -> Places]
        /\ given' \in [Workers -> Command \union {NoCommand}]
        /\ since' \in [Workers -> Int]
        /\ order' \in [Workers -> {"none", "TRIP", "RESET"}]
        /\ rest' \in [Workers -> SUBSET Actuators]
    <3>1. CASE Begin(w, "resync", NoCommand, "none", {a})
      BY <1>t, <3>1, BeginTyped
    <3>2. CASE UNCHANGED threads
      BY <1>t, <3>2 DEF threads, TypeOK
    <3>3. QED
      BY <1>5, <3>1, <3>2 DEF ActuatorHandshake
  <2>2. /\ agreed' \subseteq actuator_keys' /\ actuator_keys' \subseteq Actuators
        /\ over_mqtt' \subseteq Actuators /\ late' \subseteq Actuators
    BY <1>5, <1>t DEF ActuatorHandshake, TypeOK
  <2>3. dispatched' \in [Actuators -> {"none", "TRIP", "RESET"}]
    BY <1>5, <1>t DEF ActuatorHandshake, TypeOK
  <2>4. UNCHANGED <<solver, operator_nonces, world, applied, raced, moves,
                    reported>>
    BY <1>5, Zenon DEF ActuatorHandshake
  <2>5. QED
    BY <1>t, <2>1, <2>2, <2>3, <2>4 DEF TypeOK, solver, world
<1>6. ASSUME NEW w \in Workers, SyncActuatorState(w)
      PROVE  TypeOK'
  <2>1. at' \in [Workers -> Places]
    BY <1>6, <1>t, GoTyped DEF SyncActuatorState
  <2>2. order' \in [Workers -> {"none", "TRIP", "RESET"}]
    BY <1>6, <1>t DEF SyncActuatorState, SyncCommand, TypeOK
  <2>3. QED
    BY <1>6, <1>t, <2>1, <2>2
       DEF SyncActuatorState, TypeOK, solver, links, world, history
<1>7. ASSUME NEW w \in Workers, SendActuatorCommand(w)
      PROVE  TypeOK'
  <2>1. at' \in [Workers -> Places]
    BY <1>7, <1>t, GoTyped DEF SendActuatorCommand
  <2>2. rest' \in [Workers -> SUBSET Actuators]
    BY <1>7, <1>t DEF SendActuatorCommand, Recipients, TypeOK
  <2>3. QED
    BY <1>7, <1>t, <2>1, <2>2
       DEF SendActuatorCommand, TypeOK, solver, links, world, history
<1>8. ASSUME NEW w \in Workers, NEW a \in Actuators, Dispatch(w, a)
      PROVE  TypeOK'
  <2>1. at' \in [Workers -> Places]
    BY <1>8, <1>t, GoTyped DEF Dispatch
  <2>2. rest' \in [Workers -> SUBSET Actuators] /\ late' \subseteq Actuators
    BY <1>8, <1>t DEF Dispatch, TypeOK
  <2>3. dispatched' \in [Actuators -> {"none", "TRIP", "RESET"}]
    BY <1>8, <1>t DEF Dispatch, TypeOK
  <2>4. QED
    BY <1>8, <1>t, <2>1, <2>2, <2>3 DEF Dispatch, TypeOK, solver, links, world
<1>9. ASSUME NEW w \in Workers, VerifyAndBurn(w)
      PROVE  TypeOK'
  <2>1. at' \in [Workers -> Places]
    BY <1>9, <1>t, GoTyped DEF VerifyAndBurn
  <2>2. applied' \in [Nonces -> Use] /\ operator_nonces' \subseteq Nonces
    BY <1>9, VerifyTyped
  <2>3. QED
    BY <1>9, <1>t, <2>1, <2>2 DEF VerifyAndBurn, TypeOK, solver, links, world
<1>10. ASSUME NEW w \in Workers, ApplyOperatorAction(w)
       PROVE  TypeOK'
  <2>1. at' \in [Workers -> Places]
    BY <1>10, <1>t, GoTyped DEF ApplyOperatorAction
  <2>2. bypass' \in BOOLEAN
    BY <1>10, <1>t DEF ApplyOperatorAction, TypeOK
  <2>3. QED
    BY <1>10, <1>t, <2>1, <2>2
       DEF ApplyOperatorAction, TypeOK, links, world, history
<1>11. ASSUME NEW w \in Workers, ClearTrip(w)
       PROVE  TypeOK'
  <2>1. at' \in [Workers -> Places]
    BY <1>11, <1>t, GoTyped DEF ClearTrip
  <2>2. QED
    BY <1>11, <1>t, <2>1 DEF ClearTrip, TypeOK, links, world
<1>12. ASSUME NEW w \in Workers, MoveSetpoint(w)
       PROVE  TypeOK'
  <2>1. at' \in [Workers -> Places]
    BY <1>12, <1>t, GoTyped DEF MoveSetpoint
  <2>2. given[w] \in network /\ InRange(given[w].value)
    BY <1>12 DEF MoveSetpoint, TypeInv, ThreadsOK
  <2>3. given[w].value \in Int
    BY <1>t, <2>2, LogicSolverAssumption DEF InRange, TypeOK, Command, NoValue
  <2>4. moves' \in Nat
    BY <1>12, <1>t DEF MoveSetpoint, TypeOK
  <2>5. QED
    BY <1>12, <1>t, <2>1, <2>3, <2>4 DEF MoveSetpoint, TypeOK, links, world
<1>13. ASSUME NEW id \in Signers, NEW action \in OPERATOR_ACTIONS,
              NEW value \in Values \union {NoValue}, NEW n \in Nonces,
              NEW d \in Drift, BuildCommand(id, action, value, n, d)
       PROVE  TypeOK'
  <2>1. network' \subseteq Command
    BY <1>13, <1>t, BuildTyped
  <2>2. UNCHANGED <<solver, operator_nonces, links, dispatched, threads, clock,
                    restarts, history>>
    BY <1>13, Zenon DEF BuildCommand
  <2>3. QED
    BY <1>t, <2>1, <2>2 DEF TypeOK, solver, links, threads, history
<1>14. ASSUME NEW a \in Actuators, ActuatorDisconnect(a)
       PROVE  TypeOK'
  <2>1. at' \in [Workers -> Places] /\ rest' \in [Workers -> SUBSET Actuators]
    BY <1>14, <1>t DEF ActuatorDisconnect, TypeOK
  <2>2. /\ dispatched' \in [Actuators -> {"none", "TRIP", "RESET"}]
        /\ late' \subseteq Actuators /\ over_mqtt' \subseteq Actuators
        /\ agreed' \subseteq actuator_keys' /\ actuator_keys' \subseteq Actuators
    BY <1>14, <1>t DEF ActuatorDisconnect, TypeOK
  <2>3. QED
    BY <1>14, <1>t, <2>1, <2>2 DEF ActuatorDisconnect, TypeOK, solver, world
<1>15. CASE Tick
  <2>1. clock' \in 0 .. MaxClock
    BY <1>15, <1>t, LogicSolverAssumption DEF Tick, TypeOK
  <2>2. QED
    BY <1>15, <1>t, <2>1 DEF Tick, TypeOK, solver, links, threads, history
<1>16. CASE Restart
  <2>1. restarts' \in 0 .. MaxRestarts /\ trip_setpoint' \in Int
        /\ moves' \in Nat
    BY <1>16, <1>t, LogicSolverAssumption DEF Restart, TypeOK
  <2>2. dispatched' \in [Actuators -> {"none", "TRIP", "RESET"}]
    BY <1>16 DEF Restart
  <2>3. /\ at' \in [Workers -> Places]
        /\ given' \in [Workers -> Command \union {NoCommand}]
        /\ since' \in [Workers -> Int]
        /\ order' \in [Workers -> {"none", "TRIP", "RESET"}]
        /\ rest' \in [Workers -> SUBSET Actuators]
    BY <1>16 DEF Restart
  <2>4. /\ trip_state' \in {"HEALTHY", "TRIPPED"} /\ bypass' \in BOOLEAN
        /\ reported' \in BOOLEAN
    BY <1>16 DEF Restart
  <2>6. /\ agreed' = {} /\ actuator_keys' = {} /\ over_mqtt' = {}
        /\ late' = {} /\ operator_nonces' = {}
    BY <1>16, Zenon DEF Restart
  <2>5. /\ clock' \in 0 .. MaxClock /\ network' \subseteq Command
        /\ applied' \in [Nonces -> Use] /\ raced' \subseteq Nonces
    BY <1>16, <1>t DEF Restart, TypeOK
  <2>7. QED
    BY <2>1, <2>2, <2>3, <2>4, <2>5, <2>6 DEF TypeOK
<1>17. QED
  BY <1>0, <1>1, <1>2, <1>3, <1>4, <1>5, <1>6, <1>7, <1>8, <1>9, <1>10, <1>11,
     <1>12, <1>13, <1>14, <1>15, <1>16, Steps, Zenon

(* A step that is none of handle_operator_command's looks, verifications and
   restarts leaves the nonces and their history alone, and no thread comes to
   hold a command, or goes back on its way with one. *)
Calm(w) ==
    /\ at'[w] \in Holding => at[w] \in Holding /\ given'[w] = given[w]
    /\ at'[w] \in {"sound", "garbled"} =>
          at'[w] = at[w] /\ since'[w] = since[w]
    /\ at'[w] \in Verified => at[w] \in Verified

CalmStep ==
    /\ UNCHANGED <<operator_nonces, applied, raced, restarts>>
    /\ network \subseteq network'
    /\ \A w \in Workers : Calm(w)

(* Beginning at a place where no command is handled is calm ... *)
LEMMA BeginCalm ==
    ASSUME TypeOK, NEW w \in Workers, NEW c, NEW o, NEW s,
           NEW place \in {"latch", "resync"}, Begin(w, place, c, o, s),
           NEW v \in Workers
    PROVE  Calm(v)
<1>1. CASE v = w
  <2>1. at'[v] = place
    BY <1>1 DEF Begin, Go, TypeOK
  <2>2. QED
    BY <2>1 DEF Calm, Holding, Verified
<1>2. CASE v # w
  BY <1>2 DEF Begin, Go, TypeOK, Calm
<1>3. QED
  BY <1>1, <1>2

(* ... and so is going on to such a place. *)
LEMMA GoCalm ==
    ASSUME TypeOK, NEW w \in Workers, NEW place \in Places, Go(w, place),
           place \notin Holding \/ (at[w] = "apply" /\ place \in Verified),
           UNCHANGED <<given, since>>, NEW v \in Workers
    PROVE  Calm(v)
<1>1. CASE v = w
  <2>1. at'[v] = place
    BY <1>1 DEF Go, TypeOK
  <2>2. QED
    BY <1>1, <2>1 DEF Calm, Holding, Verified
<1>2. CASE v # w
  BY <1>2 DEF Go, TypeOK, Calm
<1>3. QED
  BY <1>1, <1>2

LEMMA OthersCalm ==
    ASSUME TypeOK, [Next]_vars
    PROVE  \/ CalmStep
           \/ \E w \in Workers :
                 \/ \E c \in network, intact \in BOOLEAN, f \in 0 .. Ticks - 1 :
                       HandleOperatorCommand(w, c, intact, f)
                 \/ VerifyAndBurn(w)
           \/ Restart
<1>0. CASE UNCHANGED vars
  <2>1. UNCHANGED <<operator_nonces, applied, raced, restarts, network, at,
                    given, since>>
    BY <1>0, Zenon DEF vars, threads, world, history
  <2>2. QED
    BY <2>1, Zenon DEF CalmStep, Calm
<1>1. ASSUME NEW w \in Workers, DecideTrip(w)
      PROVE  CalmStep
  <2>1. Begin(w, "latch", NoCommand, "TRIP", {})
    BY <1>1 DEF DecideTrip
  <2>2. \A v \in Workers : Calm(v)
    BY <2>1, BeginCalm
  <2>3. QED
    BY <1>1, <2>2 DEF DecideTrip, CalmStep, world, history
<1>2. ASSUME NEW w \in Workers, LatchTrip(w)
      PROVE  CalmStep
  <2>1. \A v \in Workers : Calm(v)
    <3>1. PICK place \in {"collect", "idle"} : Go(w, place)
      BY <1>2 DEF LatchTrip
    <3>2. place \in Places /\ place \notin Holding
      BY DEF Places, Holding
    <3>3. UNCHANGED <<given, since>>
      BY <1>2 DEF LatchTrip
    <3>4. QED
      BY <3>1, <3>2, <3>3, GoCalm
  <2>2. QED
    BY <1>2, <2>1 DEF LatchTrip, CalmStep, world
<1>3. ASSUME NEW w \in Workers, NEW valve \in {"OPEN", "CLOSED"},
             RelayActuatorUi(w, valve)
      PROVE  CalmStep
  <2>1. Begin(w, "latch", NoCommand, "none", {})
    BY <1>3 DEF RelayActuatorUi
  <2>2. \A v \in Workers : Calm(v)
    BY <2>1, BeginCalm
  <2>3. QED
    BY <1>3, <2>2 DEF RelayActuatorUi, CalmStep, world, history
<1>5. ASSUME NEW w \in Workers, NEW a \in Actuators, NEW tr \in Transports,
             NEW same \in BOOLEAN, ActuatorHandshake(w, a, tr, same)
      PROVE  CalmStep
  <2>1. \A v \in Workers : Calm(v)
    <3>1. CASE Begin(w, "resync", NoCommand, "none", {a})
      BY <3>1, BeginCalm
    <3>2. CASE UNCHANGED threads
      BY <3>2 DEF threads, Calm
    <3>3. QED
      BY <1>5, <3>1, <3>2 DEF ActuatorHandshake
  <2>2. UNCHANGED <<operator_nonces, applied, raced, world>>
    BY <1>5, Zenon DEF ActuatorHandshake
  <2>3. QED
    BY <2>1, <2>2 DEF CalmStep, world
<1>6. ASSUME NEW w \in Workers, SyncActuatorState(w)
      PROVE  CalmStep
  <2>1. "send" \in Places /\ "send" \notin Holding
    BY DEF Places, Holding
  <2>2. Go(w, "send") /\ UNCHANGED <<given, since>>
    BY <1>6 DEF SyncActuatorState
  <2>3. \A v \in Workers : Calm(v)
    BY <2>1, <2>2, GoCalm
  <2>4. QED
    BY <1>6, <2>3 DEF SyncActuatorState, CalmStep, world, history
<1>7. ASSUME NEW w \in Workers, SendActuatorCommand(w)
      PROVE  CalmStep
  <2>1. PICK place \in {"idle", "send"} : Go(w, place)
    BY <1>7 DEF SendActuatorCommand
  <2>2. place \in Places /\ place \notin Holding
    BY DEF Places, Holding
  <2>3. UNCHANGED <<given, since>>
    BY <1>7 DEF SendActuatorCommand
  <2>4. \A v \in Workers : Calm(v)
    BY <2>1, <2>2, <2>3, GoCalm
  <2>5. QED
    BY <1>7, <2>4 DEF SendActuatorCommand, CalmStep, world, history
<1>8. ASSUME NEW w \in Workers, NEW a \in Actuators, Dispatch(w, a)
      PROVE  CalmStep
  <2>1. PICK place \in {"idle", "send"} : Go(w, place)
    BY <1>8 DEF Dispatch
  <2>2. place \in Places /\ place \notin Holding
    BY DEF Places, Holding
  <2>3. UNCHANGED <<given, since>>
    BY <1>8 DEF Dispatch
  <2>4. \A v \in Workers : Calm(v)
    BY <2>1, <2>2, <2>3, GoCalm
  <2>5. QED
    BY <1>8, <2>4 DEF Dispatch, CalmStep, world
<1>10. ASSUME NEW w \in Workers, ApplyOperatorAction(w)
       PROVE  CalmStep
  <2>1. PICK place \in {"idle", "clear", "move"} : Go(w, place)
    BY <1>10 DEF ApplyOperatorAction
  <2>2. /\ place \in Places /\ at[w] = "apply"
        /\ place \notin Holding \/ place \in Verified
    BY <1>10 DEF ApplyOperatorAction, Places, Holding, Verified
  <2>3. UNCHANGED <<given, since>>
    BY <1>10 DEF ApplyOperatorAction
  <2>4. \A v \in Workers : Calm(v)
    BY <2>1, <2>2, <2>3, GoCalm
  <2>5. QED
    BY <1>10, <2>4 DEF ApplyOperatorAction, CalmStep, world, history
<1>11. ASSUME NEW w \in Workers, ClearTrip(w)
       PROVE  CalmStep
  <2>1. "collect" \in Places /\ "collect" \notin Holding
    BY DEF Places, Holding
  <2>2. Go(w, "collect") /\ UNCHANGED <<given, since>>
    BY <1>11 DEF ClearTrip
  <2>3. \A v \in Workers : Calm(v)
    BY <2>1, <2>2, GoCalm
  <2>4. QED
    BY <1>11, <2>3 DEF ClearTrip, CalmStep, world
<1>12. ASSUME NEW w \in Workers, MoveSetpoint(w)
       PROVE  CalmStep
  <2>1. "idle" \in Places /\ "idle" \notin Holding
    BY DEF Places, Holding
  <2>2. Go(w, "idle") /\ UNCHANGED <<given, since>>
    BY <1>12 DEF MoveSetpoint
  <2>3. \A v \in Workers : Calm(v)
    BY <2>1, <2>2, GoCalm
  <2>4. QED
    BY <1>12, <2>3 DEF MoveSetpoint, CalmStep, world
<1>13. ASSUME NEW id \in Signers, NEW action \in OPERATOR_ACTIONS,
              NEW value \in Values \union {NoValue}, NEW n \in Nonces,
              NEW d \in Drift, BuildCommand(id, action, value, n, d)
       PROVE  CalmStep
  <2>1. /\ UNCHANGED <<operator_nonces, threads, restarts, history>>
        /\ network \subseteq network'
    BY <1>13 DEF BuildCommand
  <2>2. UNCHANGED <<at, given, since, applied, raced>>
    BY <2>1 DEF threads, history
  <2>3. QED
    BY <2>1, <2>2 DEF CalmStep, Calm
<1>14. ASSUME NEW a \in Actuators, ActuatorDisconnect(a)
       PROVE  CalmStep
  <2>1. \A v \in Workers : at'[v] = at[v] \/ at'[v] = "idle"
    BY <1>14 DEF ActuatorDisconnect, TypeOK
  <2>2. UNCHANGED <<given, since>>
    BY <1>14 DEF ActuatorDisconnect
  <2>3. \A v \in Workers : Calm(v)
    BY <2>1, <2>2 DEF Calm, Holding, Verified
  <2>4. QED
    BY <1>14, <2>3 DEF ActuatorDisconnect, CalmStep, world
<1>15. CASE Tick
  BY <1>15 DEF Tick, CalmStep, Calm, threads, history
<1>17. QED
  BY <1>0, <1>1, <1>2, <1>3, <1>5, <1>6, <1>7, <1>8, <1>10, <1>11, <1>12,
     <1>13, <1>14, <1>15, Steps, Zenon

-----------------------------------------------------------------------------
(* What threads carry is kept. *)
Ranged(v) ==
    /\ at[v] = "move" => InRange(given[v].value)
    /\ at[v] \notin {"send", "resync"} => rest[v] = {}

(* A value that is to be written was in range when it was looked at, and only
   a thread that sends has actuators left. *)
LEMMA RangedStep ==
    ASSUME TypeInv, [Next]_vars, NEW v \in Workers
    PROVE  Ranged(v)'
<1>t. TypeOK /\ Ranged(v)
  BY DEF TypeInv, ThreadsOK, Ranged
<1> USE DEF Ranged
<1>0. CASE UNCHANGED vars
  BY <1>0, <1>t DEF vars, threads
<1>1. ASSUME NEW w \in Workers, DecideTrip(w)
      PROVE  Ranged(v)'
  BY <1>1, <1>t DEF DecideTrip, Begin, Go, TypeOK
<1>2. ASSUME NEW w \in Workers, LatchTrip(w)
      PROVE  Ranged(v)'
  BY <1>2, <1>t DEF LatchTrip, Go, TypeOK
<1>3. ASSUME NEW w \in Workers, NEW valve \in {"OPEN", "CLOSED"},
             RelayActuatorUi(w, valve)
      PROVE  Ranged(v)'
  BY <1>3, <1>t DEF RelayActuatorUi, Begin, Go, TypeOK
<1>4. ASSUME NEW w \in Workers, NEW c \in network, NEW intact \in BOOLEAN,
             NEW f \in 0 .. Ticks - 1, HandleOperatorCommand(w, c, intact, f)
      PROVE  Ranged(v)'
  <2>1. PICK place \in {"sound", "garbled"} : Begin(w, place, c, "none", {})
    BY <1>4 DEF HandleOperatorCommand
  <2>2. QED
    BY <2>1, <1>t DEF Begin, Go, TypeOK
<1>5. ASSUME NEW w \in Workers, NEW a \in Actuators, NEW tr \in Transports,
             NEW same \in BOOLEAN, ActuatorHandshake(w, a, tr, same)
      PROVE  Ranged(v)'
  <2>1. CASE Begin(w, "resync", NoCommand, "none", {a})
    BY <1>t, <2>1 DEF Begin, Go, TypeOK
  <2>2. CASE UNCHANGED threads
    BY <1>t, <2>2 DEF threads
  <2>3. QED
    BY <1>5, <2>1, <2>2 DEF ActuatorHandshake
<1>6. ASSUME NEW w \in Workers, SyncActuatorState(w)
      PROVE  Ranged(v)'
  BY <1>6, <1>t DEF SyncActuatorState, Go, TypeOK
<1>7. ASSUME NEW w \in Workers, SendActuatorCommand(w)
      PROVE  Ranged(v)'
  BY <1>7, <1>t DEF SendActuatorCommand, Go, TypeOK
<1>8. ASSUME NEW w \in Workers, NEW a \in Actuators, Dispatch(w, a)
      PROVE  Ranged(v)'
  BY <1>8, <1>t DEF Dispatch, Go, TypeOK
<1>9. ASSUME NEW w \in Workers, VerifyAndBurn(w)
      PROVE  Ranged(v)'
  BY <1>9, <1>t DEF VerifyAndBurn, Go, TypeOK
<1>10. ASSUME NEW w \in Workers, ApplyOperatorAction(w)
       PROVE  Ranged(v)'
  BY <1>10, <1>t DEF ApplyOperatorAction, Go, TypeOK
<1>11. ASSUME NEW w \in Workers, ClearTrip(w)
       PROVE  Ranged(v)'
  BY <1>11, <1>t DEF ClearTrip, Go, TypeOK
<1>12. ASSUME NEW w \in Workers, MoveSetpoint(w)
       PROVE  Ranged(v)'
  BY <1>12, <1>t DEF MoveSetpoint, Go, TypeOK
<1>13. ASSUME NEW id \in Signers, NEW action \in OPERATOR_ACTIONS,
              NEW value \in Values \union {NoValue}, NEW n \in Nonces,
              NEW d \in Drift, BuildCommand(id, action, value, n, d)
       PROVE  Ranged(v)'
  <2>1. UNCHANGED threads
    BY <1>13, Zenon DEF BuildCommand
  <2>2. QED
    BY <2>1, <1>t DEF threads
<1>14. ASSUME NEW a \in Actuators, ActuatorDisconnect(a)
       PROVE  Ranged(v)'
  BY <1>14, <1>t DEF ActuatorDisconnect, TypeOK
<1>15. CASE Tick
  BY <1>15, <1>t DEF Tick, threads
<1>16. CASE Restart
  BY <1>16 DEF Restart
<1>17. QED
  BY <1>0, <1>1, <1>2, <1>3, <1>4, <1>5, <1>6, <1>7, <1>8, <1>9, <1>10, <1>11,
     <1>12, <1>13, <1>14, <1>15, <1>16, Steps, Zenon

(* A thread that looked at a command, verified it or died still carries one
   of the network, whose nonce is burnt once it acts. *)
LEMMA ThreadsStep == TypeInv /\ [Next]_vars => ThreadsOK'
<1> SUFFICES ASSUME TypeInv, [Next]_vars, NEW v \in Workers
             PROVE  /\ at'[v] \in Holding => given'[v] \in network'
                    /\ at'[v] \in Verified =>
                          given'[v].nonce \in operator_nonces'
  BY RangedStep DEF ThreadsOK, Ranged
<1>t. TypeOK /\ ThreadsOK
  BY DEF TypeInv
<1>1. CASE CalmStep
  <2>1. Calm(v)
    BY <1>1 DEF CalmStep
  <2>2. at[v] \in Verified => at[v] \in Holding
    BY DEF Verified, Holding
  <2>3. at'[v] \in Verified => at'[v] \in Holding
    BY DEF Verified, Holding
  <2>4. QED
    BY <1>1, <1>t, <2>1, <2>2, <2>3 DEF CalmStep, Calm, ThreadsOK
<1>2. ASSUME NEW w \in Workers, NEW c \in network, NEW intact \in BOOLEAN,
             NEW f \in 0 .. Ticks - 1, HandleOperatorCommand(w, c, intact, f)
      PROVE  /\ at'[v] \in Holding => given'[v] \in network'
             /\ at'[v] \in Verified => given'[v].nonce \in operator_nonces'
  <2>1. PICK place \in {"sound", "garbled"} : Begin(w, place, c, "none", {})
    BY <1>2 DEF HandleOperatorCommand
  <2>2. network' = network /\ operator_nonces' = operator_nonces
    BY <1>2 DEF HandleOperatorCommand, world
  <2>3. CASE v = w
    BY <1>t, <2>1, <2>2, <2>3 DEF Begin, Go, TypeOK, Verified
  <2>4. CASE v # w
    BY <1>t, <2>1, <2>2, <2>4 DEF Begin, Go, TypeOK, ThreadsOK
  <2>5. QED
    BY <2>3, <2>4
<1>3. ASSUME NEW w \in Workers, VerifyAndBurn(w)
      PROVE  /\ at'[v] \in Holding => given'[v] \in network'
             /\ at'[v] \in Verified => given'[v].nonce \in operator_nonces'
  <2>1. /\ given[w] \in network /\ operator_nonces \subseteq operator_nonces'
        /\ network' = network /\ given' = given
    BY <1>3, VerifyTyped DEF VerifyAndBurn, world, Burn
  <2>2. CASE v = w
    <3>1. CASE at[w] = "sound"
      BY <1>3, <2>1, <2>2, <3>1 DEF VerifyAndBurn, Burn
    <3>2. CASE at[w] # "sound"
      BY <1>3, <1>t, <2>1, <2>2, <3>2
         DEF VerifyAndBurn, Go, TypeOK, Verified, Holding
    <3>3. QED
      BY <3>1, <3>2
  <2>3. CASE v # w
    <3>1. at'[v] = at[v]
      BY <1>3, <1>t, <2>3 DEF VerifyAndBurn, Go, TypeOK
    <3>2. QED
      BY <1>t, <2>1, <3>1 DEF ThreadsOK
  <2>4. QED
    BY <2>2, <2>3
<1>4. CASE Restart
  <2>1. at'[v] = "idle"
    BY <1>4 DEF Restart
  <2>2. QED
    BY <2>1 DEF Holding, Verified
<1>5. QED
  BY <1>t, <1>1, <1>2, <1>3, <1>4, OthersCalm, Zenon

LEMMA InitTyped == Init => TypeInv
<1> SUFFICES ASSUME Init PROVE TypeInv
  OBVIOUS
<1>1. trip_setpoint \in Int /\ clock \in 0 .. MaxClock
      /\ restarts \in 0 .. MaxRestarts /\ moves \in Nat
  BY LogicSolverAssumption DEF Init, InitSolver
<1>2. applied \in [Nonces -> Use]
  BY DEF Init, Use
<1>3. dispatched \in [Actuators -> {"none", "TRIP", "RESET"}]
  BY DEF Init
<1>4. /\ at \in [Workers -> Places]
      /\ given \in [Workers -> Command \union {NoCommand}]
      /\ since \in [Workers -> Int]
      /\ order \in [Workers -> {"none", "TRIP", "RESET"}]
      /\ rest \in [Workers -> SUBSET Actuators]
  BY DEF Init, InitThreads, Places
<1>5. TypeOK
  BY <1>1, <1>2, <1>3, <1>4 DEF Init, InitSolver, TypeOK
<1>6. ThreadsOK
  BY DEF Init, InitThreads, ThreadsOK, Holding, Verified
<1>7. QED
  BY <1>5, <1>6 DEF TypeInv

LEMMA SolverInvariant == Spec => []TypeInv
<1>1. TypeInv /\ [Next]_vars => TypeInv'
  BY TypeStep, ThreadsStep DEF TypeInv
<1>2. QED
  BY <1>1, InitTyped, PTL DEF Spec

(* The state of the solver and of its threads is well formed in every
   reachable state. *)
THEOREM SolverTyped == Spec => []TypeOK
<1>1. TypeInv => TypeOK
  BY DEF TypeInv
<1>2. QED
  BY <1>1, SolverInvariant, PTL

-----------------------------------------------------------------------------
(* The replay window.  The inductive invariant ties each look at the clock,  *)
(* and so each use of a nonce, to the second the one command that carries it *)
(* was signed for.                                                           *)

(* Nonces tell commands apart: os.urandom never gives the same one twice. *)
UniqueNonces == \A c, d \in network : c.nonce = d.nonce => c = d

(* A look at the clock that found some fraction of the second fresh. *)
Fits(time, second) ==
    \E f \in 0 .. Ticks - 1 :
       Distance(time, second * Ticks + f) <= OPERATOR_MAX_SKEW_S * Ticks

InWindow(a, b) == Distance(a, b) < (2 * OPERATOR_MAX_SKEW_S + 1) * Ticks

(* Two such looks are within twice the skew and a second of each other. *)
LEMMA FitsBound ==
    ASSUME NEW a \in Int, NEW b \in Int, NEW t \in Int, Fits(a, t), Fits(b, t)
    PROVE  InWindow(a, b)
<1>1. PICK f \in 0 .. Ticks - 1 :
         Distance(a, t * Ticks + f) <= OPERATOR_MAX_SKEW_S * Ticks
  BY DEF Fits
<1>2. PICK g \in 0 .. Ticks - 1 :
         Distance(b, t * Ticks + g) <= OPERATOR_MAX_SKEW_S * Ticks
  BY DEF Fits
<1> DEFINE p == t * Ticks
           q == OPERATOR_MAX_SKEW_S * Ticks
<1>3. /\ p \in Int /\ q \in Int /\ Ticks \in Int
      /\ (2 * OPERATOR_MAX_SKEW_S + 1) * Ticks = 2 * q + Ticks
  BY LogicSolverAssumption
<1>4. Distance(a, p + f) <= q /\ Distance(b, p + g) <= q
  BY <1>1, <1>2
<1> HIDE DEF p, q
<1>5. Distance(a, b) < 2 * q + Ticks
  BY <1>3, <1>4 DEF Distance
<1>6. QED
  BY <1>3, <1>5 DEF InWindow

Used(c) ==
    applied[c.nonce].count > 0 =>
        /\ Fits(applied[c.nonce].first, c.timestamp)
        /\ Fits(applied[c.nonce].last, c.timestamp)

Signed(n) ==
    IF applied[n].count > 0
    THEN \E c \in network : c.nonce = n
    ELSE applied[n].first = 0 /\ applied[n].last = 0

WindowInv ==
    /\ UniqueNonces
    /\ \A w \in Workers :
          at[w] \in {"sound", "garbled"} => Fits(since[w], given[w].timestamp)
    /\ \A c \in network : Used(c)
    /\ \A n \in Nonces : Signed(n)

(* A new command brings a new nonce, which nothing has used. *)
LEMMA BuildWindow ==
    ASSUME TypeInv, WindowInv,
           NEW id \in Signers, NEW action \in OPERATOR_ACTIONS,
           NEW value \in Values \union {NoValue}, NEW n \in Nonces,
           NEW d \in Drift, BuildCommand(id, action, value, n, d)
    PROVE  WindowInv'
<1> DEFINE c == [operator_id |-> id, action |-> action, value |-> value,
                 nonce |-> n, timestamp |-> (clock + d) \div Ticks]
<1>1. /\ network' = network \union {c}
      /\ \A e \in network : e.nonce # n
      /\ UNCHANGED <<applied, at, given, since>>
  BY DEF BuildCommand, threads, history
<1>2. c.nonce = n
  OBVIOUS
<1> HIDE DEF c
<1>3. UniqueNonces'
  BY <1>1, <1>2 DEF WindowInv, UniqueNonces
<1>4. ~(applied[n].count > 0)
  BY <1>1 DEF WindowInv, Signed
<1>5. \A e \in network' : Used(e)'
  BY <1>1, <1>2, <1>4 DEF WindowInv, Used
<1>6. \A m \in Nonces : Signed(m)'
  BY <1>1 DEF WindowInv, Signed
<1>7. \A w \in Workers :
         at'[w] \in {"sound", "garbled"} => Fits(since'[w], given'[w].timestamp)
  BY <1>1 DEF WindowInv
<1>8. QED
  BY <1>3, <1>5, <1>6, <1>7 DEF WindowInv, Fits

(* Only BuildCommand adds to the network. *)
LEMMA NetworkStep ==
    ASSUME [Next]_vars
    PROVE  \/ network' = network
           \/ \E id \in Signers, action \in OPERATOR_ACTIONS,
                 value \in Values \union {NoValue}, n \in Nonces, d \in Drift :
                    BuildCommand(id, action, value, n, d)
BY Steps
   DEF DecideTrip, LatchTrip, RelayActuatorUi, HandleOperatorCommand,
       ActuatorHandshake, SyncActuatorState, SendActuatorCommand, Dispatch,
       VerifyAndBurn, ApplyOperatorAction, ClearTrip, MoveSetpoint,
       ActuatorDisconnect, Tick, Restart, vars, world

LEMMA WindowStep == TypeInv /\ WindowInv /\ [Next]_vars => WindowInv'
<1> SUFFICES ASSUME TypeInv, WindowInv, [Next]_vars PROVE WindowInv'
  OBVIOUS
<1>t. TypeOK /\ ThreadsOK
  BY DEF TypeInv
<1>0. CASE network' # network
  BY <1>0, NetworkStep, BuildWindow
<1> SUFFICES ASSUME network' = network PROVE WindowInv'
  BY <1>0
<1>u. UniqueNonces'
  BY DEF WindowInv, UniqueNonces
<1> DEFINE Looked(v) == at[v] \in {"sound", "garbled"} =>
                           Fits(since[v], given[v].timestamp)
<1>1. CASE CalmStep
  <2>1. ASSUME NEW v \in Workers PROVE Looked(v)'
    <3>1. Calm(v)
      BY <1>1 DEF CalmStep
    <3>2. at'[v] \in {"sound", "garbled"} => at'[v] \in Holding
      BY DEF Holding
    <3>3. Looked(v)
      BY DEF WindowInv
    <3>4. QED
      BY <3>1, <3>2, <3>3 DEF Calm, Fits
  <2>2. applied' = applied
    BY <1>1 DEF CalmStep
  <2>3. (\A c \in network : Used(c))' /\ (\A n \in Nonces : Signed(n))'
    BY <2>2 DEF WindowInv, Used, Signed, Fits
  <2>4. QED
    BY <1>u, <2>1, <2>3 DEF WindowInv
<1>2. ASSUME NEW w \in Workers, NEW c \in network, NEW intact \in BOOLEAN,
             NEW f \in 0 .. Ticks - 1, HandleOperatorCommand(w, c, intact, f)
      PROVE  WindowInv'
  <2>1. PICK place \in {"sound", "garbled"} : Begin(w, place, c, "none", {})
    BY <1>2 DEF HandleOperatorCommand
  <2>2. Fits(clock, c.timestamp) /\ applied' = applied
    BY <1>2 DEF HandleOperatorCommand, Fresh, Fits
  <2>3. ASSUME NEW v \in Workers PROVE Looked(v)'
    <3>1. CASE v = w
      <4>1. since'[v] = clock /\ given'[v] = c
        BY <1>t, <2>1, <3>1 DEF Begin, TypeOK
      <4>2. QED
        BY <2>2, <4>1 DEF Fits
    <3>2. CASE v # w
      <4>1. at'[v] = at[v] /\ since'[v] = since[v] /\ given'[v] = given[v]
        BY <1>t, <2>1, <3>2 DEF Begin, Go, TypeOK
      <4>2. QED
        BY <4>1 DEF WindowInv, Fits
    <3>3. QED
      BY <3>1, <3>2
  <2>4. (\A e \in network : Used(e))' /\ (\A n \in Nonces : Signed(n))'
    BY <2>2 DEF WindowInv, Used, Signed, Fits
  <2>5. QED
    BY <1>u, <2>3, <2>4 DEF WindowInv
<1>3. ASSUME NEW w \in Workers, VerifyAndBurn(w)
      PROVE  WindowInv'
  <2>1. UNCHANGED <<given, since>>
    BY <1>3 DEF VerifyAndBurn
  <2>2. ASSUME NEW v \in Workers PROVE Looked(v)'
    <3>1. at'[v] \in {"sound", "garbled"} => at'[v] = at[v]
      BY <1>3, <1>t DEF VerifyAndBurn, Go, TypeOK
    <3>2. QED
      BY <2>1, <3>1 DEF WindowInv, Fits
  <2>3. CASE at[w] = "sound"
    <3>0. PICK c \in network : c = given[w]
      BY <1>3, VerifyTyped
    <3>1. since[w] \in Int /\ c.nonce \in Nonces
      BY <1>3, <3>0, VerifyTyped
    <3>2. Record(c, since[w]) /\ Fits(since[w], c.timestamp)
      BY <1>3, <2>3, <3>0 DEF VerifyAndBurn, WindowInv
    <3>3. /\ applied'[c.nonce].count = applied[c.nonce].count + 1
          /\ applied'[c.nonce].last = since[w]
          /\ applied'[c.nonce].first =
                IF applied[c.nonce].count = 0 THEN since[w]
                ELSE applied[c.nonce].first
          /\ \A n \in Nonces \ {c.nonce} : applied'[n] = applied[n]
      BY <1>t, <3>1, <3>2, RecordTyped
    <3>4. applied[c.nonce].count \in Nat
      BY <1>t, <3>1 DEF TypeOK, Use
    <3>5. Used(c)'
      <4>1. Fits(applied'[c.nonce].last, c.timestamp)
        BY <3>2, <3>3
      <4>2. CASE applied[c.nonce].count = 0
        BY <3>2, <3>3, <4>1, <4>2 DEF Used, Fits
      <4>3. CASE applied[c.nonce].count > 0
        <5>1. Fits(applied[c.nonce].first, c.timestamp)
          BY <3>1, <4>3 DEF WindowInv, Used
        <5>2. applied'[c.nonce].first = applied[c.nonce].first
          BY <3>3, <4>3
        <5>3. QED
          BY <4>1, <5>1, <5>2 DEF Used, Fits
      <4>4. QED
        BY <3>4, <4>2, <4>3
    <3>6. ASSUME NEW e \in network PROVE Used(e)'
      <4>1. CASE e = c
        BY <3>5, <4>1
      <4>2. CASE e # c
        <5>1. e.nonce \in Nonces \ {c.nonce}
          BY <1>t, <3>1, <4>2 DEF WindowInv, UniqueNonces, TypeOK, Command
        <5>2. applied'[e.nonce] = applied[e.nonce]
          BY <3>3, <5>1
        <5>3. QED
          BY <5>2 DEF Used, WindowInv, Fits
      <4>3. QED
        BY <4>1, <4>2
    <3>7. ASSUME NEW n \in Nonces PROVE Signed(n)'
      <4>1. CASE n = c.nonce
        BY <3>1, <3>3, <3>4, <4>1 DEF Signed
      <4>2. CASE n # c.nonce
        BY <3>3, <4>2 DEF Signed, WindowInv
      <4>3. QED
        BY <4>1, <4>2
    <3>8. QED
      BY <1>u, <2>2, <3>6, <3>7 DEF WindowInv
  <2>4. CASE at[w] # "sound"
    <3>1. applied' = applied
      BY <1>3, <2>4 DEF VerifyAndBurn
    <3>2. (\A e \in network : Used(e))' /\ (\A n \in Nonces : Signed(n))'
      BY <3>1 DEF WindowInv, Used, Signed, Fits
    <3>3. QED
      BY <1>u, <2>2, <3>2 DEF WindowInv
  <2>5. QED
    BY <2>3, <2>4
<1>4. CASE Restart
  <2>1. applied' = applied /\ \A v \in Workers : at'[v] = "idle"
    BY <1>4 DEF Restart
  <2>2. (\A e \in network : Used(e))' /\ (\A n \in Nonces : Signed(n))'
    BY <2>1 DEF WindowInv, Used, Signed, Fits
  <2>3. QED
    BY <1>u, <2>1, <2>2 DEF WindowInv
<1>5. QED
  BY <1>t, <1>1, <1>2, <1>3, <1>4, OthersCalm, Zenon

(* Whatever the operator clocks, whatever fraction of the second a copy
   claims, however many threads take copies and however often the server
   restarts, a signed command that acts again passed the clock within twice
   the permitted skew, and the second the signature leaves open, of the first
   time. *)
THEOREM ReplayWindowHolds == Spec => []ReplayWindow
<1>1. Init => WindowInv
  BY DEF Init, InitThreads, WindowInv, UniqueNonces, Used, Signed
<1>2. TypeInv /\ WindowInv => ReplayWindow
  <2> SUFFICES ASSUME TypeOK, WindowInv, NEW n \in Nonces
               PROVE  InWindow(applied[n].first, applied[n].last)
    BY DEF ReplayWindow, InWindow, TypeInv
  <2>1. applied[n].first \in Int /\ applied[n].last \in Int
    BY DEF TypeOK, Use
  <2>2. CASE applied[n].count > 0
    <3>1. PICK c \in network : c.nonce = n
      BY <2>2 DEF WindowInv, Signed
    <3>2. c.timestamp \in Int
      BY DEF TypeOK, Command
    <3>3. /\ Fits(applied[n].first, c.timestamp)
          /\ Fits(applied[n].last, c.timestamp)
      BY <2>2, <3>1 DEF WindowInv, Used
    <3>4. QED
      BY <2>1, <3>2, <3>3, FitsBound
  <2>3. CASE ~(applied[n].count > 0)
    <3>1. applied[n].first = 0 /\ applied[n].last = 0
      BY <2>3 DEF WindowInv, Signed
    <3>2. 0 < (2 * OPERATOR_MAX_SKEW_S + 1) * Ticks
      <4> DEFINE q == OPERATOR_MAX_SKEW_S * Ticks
      <4>1. /\ q \in Nat /\ Ticks \in Nat \ {0}
            /\ (2 * OPERATOR_MAX_SKEW_S + 1) * Ticks = 2 * q + Ticks
        BY LogicSolverAssumption
      <4> HIDE DEF q
      <4>2. QED
        BY <4>1
    <3>3. QED
      BY <3>1, <3>2 DEF InWindow, Distance
  <2>4. QED
    BY <2>2, <2>3
<1>3. QED
  BY <1>1, <1>2, WindowStep, SolverInvariant, PTL DEF Spec

-----------------------------------------------------------------------------
(* Single use.  A nonce that never raced is carried by one verifying thread  *)
(* at most, and only until it is burnt; it is burnt in this process if it    *)
(* was applied in it, and every earlier process applied it at most once.     *)
Carries(w, n) == at[w] = "sound" /\ given[w].nonce = n

Once(n) ==
    /\ \A v, w \in Workers : Carries(v, n) /\ Carries(w, n) => v = w
    /\ \A w \in Workers : Carries(w, n) => n \notin operator_nonces
    /\ applied[n].count <= restarts + 1
    /\ applied[n].count = restarts + 1 => n \in operator_nonces

OnceInv == \A n \in Nonces \ raced : Once(n)

LEMMA OnceStep == TypeInv /\ OnceInv /\ [Next]_vars => OnceInv'
<1> SUFFICES ASSUME TypeInv, OnceInv, [Next]_vars, NEW n \in Nonces,
                    n \notin raced'
             PROVE  Once(n)'
  BY DEF OnceInv
<1>t. TypeOK /\ ThreadsOK
  BY DEF TypeInv
<1>c. applied[n].count \in Nat /\ restarts \in Nat
  BY <1>t DEF TypeOK, Use
<1>1. CASE CalmStep
  <2>1. Once(n)
    BY <1>1 DEF CalmStep, OnceInv
  <2>2. ASSUME NEW v \in Workers, Carries(v, n)' PROVE Carries(v, n)
    BY <1>1, <2>2 DEF CalmStep, Calm, Carries, Holding
  <2>3. QED
    BY <1>1, <2>1, <2>2 DEF CalmStep, Once
<1>2. ASSUME NEW w \in Workers, NEW c \in network, NEW intact \in BOOLEAN,
             NEW f \in 0 .. Ticks - 1, HandleOperatorCommand(w, c, intact, f)
      PROVE  Once(n)'
  <2>1. PICK place \in {"sound", "garbled"} :
           Begin(w, place, c, "none", {}) /\ (place = "sound" <=> intact)
    BY <1>2 DEF HandleOperatorCommand
  <2>2. /\ UNCHANGED <<operator_nonces, applied, restarts>>
        /\ c.nonce \notin operator_nonces
        /\ raced \subseteq raced'
        /\ intact /\ (\E v \in Workers : Carries(v, c.nonce))
              => c.nonce \in raced'
    BY <1>2 DEF HandleOperatorCommand, Fresh, world, Carries
  <2>3. Once(n)
    BY <2>2 DEF OnceInv
  <2>4. ASSUME NEW v \in Workers, v # w PROVE Carries(v, n)' <=> Carries(v, n)
    BY <1>t, <2>1, <2>4 DEF Begin, Go, TypeOK, Carries
  <2>5. Carries(w, n)' => intact /\ n = c.nonce /\ ~Carries(w, n)
    BY <1>t, <2>1 DEF Begin, Go, TypeOK, Carries
  <2>6. ASSUME NEW v \in Workers, NEW u \in Workers,
               Carries(v, n)', Carries(u, n)'
        PROVE  v = u
    <3>1. CASE v # w /\ u # w
      BY <2>3, <2>4, <2>6, <3>1 DEF Once
    <3>2. CASE v = w /\ u # w
      BY <2>2, <2>4, <2>5, <2>6, <3>2
    <3>3. CASE u = w /\ v # w
      BY <2>2, <2>4, <2>5, <2>6, <3>3
    <3>4. QED
      BY <3>1, <3>2, <3>3
  <2>7. ASSUME NEW v \in Workers, Carries(v, n)' PROVE n \notin operator_nonces
    BY <2>2, <2>3, <2>4, <2>5, <2>7 DEF Once
  <2>8. QED
    BY <2>2, <2>3, <2>6, <2>7 DEF Once
<1>3. ASSUME NEW w \in Workers, VerifyAndBurn(w)
      PROVE  Once(n)'
  <2>1. /\ given' = given /\ restarts' = restarts
        /\ n \notin raced
    BY <1>3 DEF VerifyAndBurn, world
  <2>2. Once(n)
    BY <2>1 DEF OnceInv
  <2>3. ASSUME NEW v \in Workers, Carries(v, n)' PROVE v # w /\ Carries(v, n)
    BY <1>3, <1>t, <2>1, <2>3 DEF VerifyAndBurn, Go, TypeOK, Carries
  <2>4. CASE Carries(w, n)
    <3>0. PICK c \in network : c = given[w]
      BY <1>3, VerifyTyped
    <3>1. /\ at[w] = "sound" /\ c.nonce = n /\ since[w] \in Int
          /\ Record(c, since[w])
          /\ operator_nonces' = operator_nonces \union {n}
      BY <1>3, <2>4, <3>0, VerifyTyped DEF VerifyAndBurn, Carries, Burn
    <3>2. applied'[n].count = applied[n].count + 1
      BY <1>t, <3>1, RecordTyped
    <3>3. applied[n].count <= restarts
      BY <1>c, <2>2, <2>4 DEF Once
    <3>4. ASSUME NEW v \in Workers PROVE ~Carries(v, n)'
      BY <2>2, <2>3, <2>4, <3>4 DEF Once
    <3>5. QED
      BY <1>c, <2>1, <3>1, <3>2, <3>3, <3>4 DEF Once
  <2>5. CASE ~Carries(w, n)
    <3>1. applied'[n] = applied[n]
          /\ (n \in operator_nonces' <=> n \in operator_nonces)
      <4>1. CASE at[w] = "sound"
        <5>0. PICK c \in network : c = given[w]
          BY <1>3, VerifyTyped
        <5>1. /\ c.nonce # n /\ since[w] \in Int
              /\ Record(c, since[w])
              /\ operator_nonces' = operator_nonces \union {c.nonce}
          BY <1>3, <2>5, <4>1, <5>0, VerifyTyped
             DEF VerifyAndBurn, Carries, Burn
        <5>2. QED
          BY <1>t, <5>1, RecordTyped
      <4>2. CASE at[w] # "sound"
        BY <1>3, <4>2 DEF VerifyAndBurn, Burn
      <4>3. QED
        BY <4>1, <4>2
    <3>2. QED
      BY <2>1, <2>2, <2>3, <3>1 DEF Once
  <2>6. QED
    BY <2>4, <2>5
<1>4. CASE Restart
  <2>1. /\ applied' = applied /\ restarts' = restarts + 1
        /\ operator_nonces' = {} /\ raced' = raced
        /\ \A w \in Workers : at'[w] = "idle"
    BY <1>4 DEF Restart
  <2>2. Once(n)
    BY <2>1 DEF OnceInv
  <2>3. \A w \in Workers : ~Carries(w, n)'
    BY <2>1 DEF Carries
  <2>4. QED
    BY <1>c, <2>1, <2>2, <2>3 DEF Once
<1>5. QED
  BY <1>t, <1>1, <1>2, <1>3, <1>4, OthersCalm, Zenon

(* A process obeys each signed command at most once, however many threads
   handle deliveries of it, over any number of restarts, unless two of them
   looked before either burnt the nonce. *)
THEOREM SingleUseHolds == Spec => []SingleUse
<1>1. Init => OnceInv
  BY DEF Init, InitThreads, OnceInv, Once, Carries
<1>2. OnceInv => SingleUse
  BY DEF OnceInv, Once, SingleUse
<1>3. QED
  BY <1>1, <1>2, OnceStep, SolverInvariant, PTL DEF Spec

(* A garbled copy never burns a nonce: every burnt nonce was applied. *)
THEOREM GarbageHolds == Spec => []GarbageBurnsNothing
<1>1. Init => GarbageBurnsNothing
  BY DEF Init, GarbageBurnsNothing
<1>2. TypeInv /\ GarbageBurnsNothing /\ [Next]_vars => GarbageBurnsNothing'
  <2> SUFFICES ASSUME TypeInv, GarbageBurnsNothing, [Next]_vars
               PROVE  GarbageBurnsNothing'
    OBVIOUS
  <2>t. TypeOK
    BY DEF TypeInv
  <2>1. CASE UNCHANGED <<operator_nonces, applied>>
    BY <2>1 DEF GarbageBurnsNothing
  <2>2. ASSUME NEW w \in Workers, VerifyAndBurn(w), at[w] = "sound"
        PROVE  GarbageBurnsNothing'
    <3>0. PICK c \in network : c = given[w]
      BY <2>2, VerifyTyped
    <3>1. /\ since[w] \in Int /\ Record(c, since[w])
          /\ operator_nonces' = operator_nonces \union {c.nonce}
      BY <2>2, <3>0, VerifyTyped DEF VerifyAndBurn, Burn
    <3>2. /\ c.nonce \in Nonces
          /\ applied'[c.nonce].count = applied[c.nonce].count + 1
          /\ \A n \in Nonces \ {c.nonce} : applied'[n] = applied[n]
      BY <2>t, <3>1, RecordTyped
    <3>3. applied'[c.nonce].count > 0
      BY <2>t, <3>2 DEF TypeOK, Use
    <3>4. QED
      BY <2>t, <3>1, <3>2, <3>3 DEF GarbageBurnsNothing, TypeOK
  <2>3. ASSUME NEW w \in Workers, VerifyAndBurn(w), at[w] # "sound"
        PROVE  UNCHANGED <<operator_nonces, applied>>
    BY <2>3 DEF VerifyAndBurn, Burn
  <2>4. CASE Restart
    BY <2>4 DEF Restart, GarbageBurnsNothing
  <2>5. ASSUME NEW w \in Workers, NEW c \in network, NEW intact \in BOOLEAN,
               NEW f \in 0 .. Ticks - 1, HandleOperatorCommand(w, c, intact, f)
        PROVE  UNCHANGED <<operator_nonces, applied>>
    BY <2>5 DEF HandleOperatorCommand
  <2>6. CASE CalmStep
    BY <2>1, <2>6 DEF CalmStep
  <2>7. QED
    BY <2>t, <2>1, <2>2, <2>3, <2>4, <2>5, <2>6, OthersCalm, Zenon
<1>3. QED
  BY <1>1, <1>2, SolverInvariant, PTL DEF Spec

-----------------------------------------------------------------------------
(* The setpoint.  A value about to be written is a step per change, its own  *)
(* counted, from where the setpoint started.                                 *)
Walked(value, changes) ==
    Distance(value, TRIP_SETPOINT_C) <= changes * SETPOINT_MAX_STEP_C

(* One more change of the setpoint goes one more step limit. *)
LEMMA OneMoreStep ==
    ASSUME NEW v \in Int, NEW s \in Int, NEW m \in Nat,
           Distance(v, s) <= SETPOINT_MAX_STEP_C, Walked(s, m)
    PROVE  Walked(v, m + 1)
<1>1. /\ SETPOINT_MAX_STEP_C \in Nat /\ TRIP_SETPOINT_C \in Int
  BY LogicSolverAssumption
<1> DEFINE p == m * SETPOINT_MAX_STEP_C
<1>2. /\ p \in Nat
      /\ (m + 1) * SETPOINT_MAX_STEP_C = p + SETPOINT_MAX_STEP_C
  BY <1>1
<1>3. Distance(s, TRIP_SETPOINT_C) <= p
  BY DEF Walked
<1> HIDE DEF p
<1>4. Distance(v, TRIP_SETPOINT_C) <= p + SETPOINT_MAX_STEP_C
  BY <1>1, <1>2, <1>3 DEF Distance
<1>5. QED
  BY <1>2, <1>4 DEF Walked

(* What was within reach stays so when there are more changes. *)
LEMMA WalkedOn ==
    ASSUME NEW v \in Int, NEW m \in Nat, Walked(v, m)
    PROVE  Walked(v, m + 1)
<1>1. Distance(v, v) <= SETPOINT_MAX_STEP_C
  BY LogicSolverAssumption DEF Distance
<1>2. QED
  BY <1>1, OneMoreStep

WalkInv ==
    /\ SETPOINT_MIN_C <= trip_setpoint /\ trip_setpoint <= SETPOINT_MAX_C
    /\ Walked(trip_setpoint, moves)
    /\ \A w \in Workers : at[w] = "move" => Walked(given[w].value, moves + 1)

(* A thread comes to write a setpoint only from having looked at it. *)
LEMMA MoversStep ==
    ASSUME TypeInv, [Next]_vars, NEW v \in Workers, at'[v] = "move"
    PROVE  /\ given'[v] = given[v]
           /\ \/ at[v] = "move"
              \/ /\ at[v] = "apply" /\ ApplyOperatorAction(v)
                 /\ SmallStep(given[v].value)
<1>t. TypeOK
  BY DEF TypeInv
<1>0. CASE UNCHANGED vars
  BY <1>0 DEF vars, threads
<1>1. ASSUME NEW w \in Workers, DecideTrip(w) \/ LatchTrip(w)
                 \/ SyncActuatorState(w) \/ SendActuatorCommand(w)
                 \/ VerifyAndBurn(w) \/ ClearTrip(w) \/ MoveSetpoint(w)
      PROVE  at[v] = "move" /\ given'[v] = given[v]
  BY <1>1, <1>t
     DEF DecideTrip, LatchTrip, SyncActuatorState, SendActuatorCommand,
         VerifyAndBurn, ClearTrip, MoveSetpoint, Begin, Go, TypeOK
<1>2. ASSUME NEW w \in Workers, NEW valve \in {"OPEN", "CLOSED"},
             RelayActuatorUi(w, valve)
      PROVE  at[v] = "move" /\ given'[v] = given[v]
  BY <1>2, <1>t DEF RelayActuatorUi, Begin, Go, TypeOK
<1>3. ASSUME NEW w \in Workers, NEW c \in network, NEW intact \in BOOLEAN,
             NEW f \in 0 .. Ticks - 1, HandleOperatorCommand(w, c, intact, f)
      PROVE  at[v] = "move" /\ given'[v] = given[v]
  <2>1. PICK place \in {"sound", "garbled"} : Begin(w, place, c, "none", {})
    BY <1>3 DEF HandleOperatorCommand
  <2>2. QED
    BY <1>t, <2>1 DEF Begin, Go, TypeOK
<1>4. ASSUME NEW w \in Workers, NEW a \in Actuators, NEW tr \in Transports,
             NEW same \in BOOLEAN, ActuatorHandshake(w, a, tr, same)
      PROVE  at[v] = "move" /\ given'[v] = given[v]
  <2>1. CASE Begin(w, "resync", NoCommand, "none", {a})
    BY <1>t, <2>1 DEF Begin, Go, TypeOK
  <2>2. CASE UNCHANGED threads
    BY <2>2 DEF threads
  <2>3. QED
    BY <1>4, <2>1, <2>2 DEF ActuatorHandshake
<1>5. ASSUME NEW w \in Workers, NEW a \in Actuators, Dispatch(w, a)
      PROVE  at[v] = "move" /\ given'[v] = given[v]
  BY <1>5, <1>t DEF Dispatch, Go, TypeOK
<1>6. ASSUME NEW w \in Workers, ApplyOperatorAction(w)
      PROVE  /\ given'[v] = given[v]
             /\ \/ at[v] = "move"
                \/ /\ at[v] = "apply" /\ ApplyOperatorAction(v)
                   /\ SmallStep(given[v].value)
  <2>1. CASE v = w
    BY <1>6, <1>t, <2>1 DEF ApplyOperatorAction, Go, TypeOK
  <2>2. CASE v # w
    BY <1>6, <1>t, <2>2 DEF ApplyOperatorAction, Go, TypeOK
  <2>3. QED
    BY <2>1, <2>2
<1>7. ASSUME NEW id \in Signers, NEW action \in OPERATOR_ACTIONS,
             NEW value \in Values \union {NoValue}, NEW n \in Nonces,
             NEW d \in Drift, BuildCommand(id, action, value, n, d)
      PROVE  at[v] = "move" /\ given'[v] = given[v]
  <2>1. UNCHANGED threads
    BY <1>7, Zenon DEF BuildCommand
  <2>2. QED
    BY <2>1 DEF threads
<1>8. ASSUME NEW a \in Actuators, ActuatorDisconnect(a)
      PROVE  at[v] = "move" /\ given'[v] = given[v]
  BY <1>8, <1>t DEF ActuatorDisconnect, TypeOK
<1>9. CASE Tick
  BY <1>9 DEF Tick, threads
<1>10. ~Restart
  BY DEF Restart
<1>11. QED
  BY <1>0, <1>1, <1>2, <1>3, <1>4, <1>5, <1>6, <1>7, <1>8, <1>9, <1>10, Steps,
     Zenon

(* Only a thread that has come so far, or a restart, changes the setpoint. *)
LEMMA SetpointStep ==
    ASSUME [Next]_vars
    PROVE  \/ UNCHANGED <<trip_setpoint, moves>>
           \/ \E w \in Workers : MoveSetpoint(w)
           \/ Restart
BY Steps
   DEF DecideTrip, LatchTrip, RelayActuatorUi, HandleOperatorCommand,
       ActuatorHandshake, SyncActuatorState, SendActuatorCommand, Dispatch,
       VerifyAndBurn, ApplyOperatorAction, ClearTrip, BuildCommand,
       ActuatorDisconnect, Tick, vars, solver, history

LEMMA WalkStep == TypeInv /\ WalkInv /\ [Next]_vars => WalkInv'
<1> SUFFICES ASSUME TypeInv, WalkInv, [Next]_vars PROVE WalkInv'
  OBVIOUS
<1>t. TypeOK /\ ThreadsOK
  BY DEF TypeInv
<1>r. ASSUME NEW v \in Workers, at[v] \in Holding,
             InRange(given[v].value) \/ at[v] = "move"
      PROVE  given[v].value \in Int
  <2>1. given[v] \in network /\ InRange(given[v].value)
    BY <1>t, <1>r DEF ThreadsOK
  <2>2. QED
    BY <1>t, <2>1, LogicSolverAssumption DEF InRange, TypeOK, Command, NoValue
<1>1. CASE UNCHANGED <<trip_setpoint, moves>>
  <2>1. ASSUME NEW v \in Workers, at'[v] = "move"
        PROVE  Walked(given'[v].value, moves + 1)
    <3>1. CASE at[v] = "move"
      BY <2>1, <3>1, MoversStep DEF WalkInv
    <3>2. CASE /\ at[v] = "apply" /\ ApplyOperatorAction(v)
               /\ SmallStep(given[v].value)
      <4>1. at[v] \in Holding /\ given'[v] = given[v]
        BY <2>1, <3>2, MoversStep DEF Holding
      <4>2. ThreadsOK'
        BY ThreadsStep
      <4>3. InRange(given[v].value)'
        BY <2>1, <4>2 DEF ThreadsOK
      <4>4. InRange(given[v].value)
        BY <4>1, <4>3 DEF InRange
      <4>5. given[v].value \in Int
        BY <1>r, <4>1, <4>4
      <4>6. Walked(given[v].value, moves + 1)
        BY <1>t, <3>2, <4>5, OneMoreStep DEF SmallStep, WalkInv, TypeOK
      <4>7. QED
        BY <4>1, <4>6
    <3>3. QED
      BY <2>1, <3>1, <3>2, MoversStep
  <2>2. QED
    BY <1>1, <2>1 DEF WalkInv, Walked, Distance
<1>2. ASSUME NEW w \in Workers, MoveSetpoint(w)
      PROVE  WalkInv'
  <2>1. /\ at[w] = "move" /\ trip_setpoint' = given[w].value
        /\ moves' = moves + 1 /\ given' = given
    BY <1>2 DEF MoveSetpoint
  <2>2. InRange(given[w].value) /\ Walked(given[w].value, moves + 1)
    BY <1>t, <2>1 DEF ThreadsOK, WalkInv
  <2>3. ASSUME NEW v \in Workers, at'[v] = "move"
        PROVE  Walked(given[v].value, moves + 2)
    <3>1. at[v] = "move"
      BY <1>2, <1>t, <2>3 DEF MoveSetpoint, Go, TypeOK
    <3>2. given[v].value \in Int /\ moves + 1 \in Nat
      BY <1>t, <1>r, <3>1 DEF Holding, TypeOK
    <3>3. Walked(given[v].value, moves + 1)
      BY <3>1 DEF WalkInv
    <3>4. Walked(given[v].value, (moves + 1) + 1)
      BY <3>2, <3>3, WalkedOn
    <3>5. (moves + 1) + 1 = moves + 2
      BY <1>t DEF TypeOK
    <3>6. QED
      BY <3>4, <3>5
  <2>4. moves' + 1 = moves + 2
    BY <1>t, <2>1 DEF TypeOK
  <2>5. Walked(trip_setpoint, moves)'
    BY <2>1, <2>2 DEF Walked, Distance
  <2>6. (\A v \in Workers : at[v] = "move" => Walked(given[v].value, moves + 1))'
    BY <2>1, <2>3, <2>4 DEF Walked, Distance
  <2>7. QED
    BY <2>1, <2>2, <2>5, <2>6 DEF WalkInv, InRange
<1>3. CASE Restart
  <2>1. /\ trip_setpoint' = TRIP_SETPOINT_C /\ moves' = 0
        /\ \A w \in Workers : at'[w] = "idle"
    BY <1>3 DEF Restart
  <2>2. Distance(TRIP_SETPOINT_C, TRIP_SETPOINT_C) <= 0 * SETPOINT_MAX_STEP_C
    BY LogicSolverAssumption DEF Distance
  <2>3. QED
    BY <2>1, <2>2, LogicSolverAssumption DEF WalkInv, Walked, Distance
<1>4. QED
  BY <1>1, <1>2, <1>3, SetpointStep

(* Whatever sequence of correctly signed changes arrives, and however the
   threads that check and write them interleave, the trip setpoint stays
   inside the clamp and drifts at most one permitted step per change. *)
THEOREM SetpointWalkHolds == Spec => []SetpointWalk
<1>1. Init => WalkInv
  <2> SUFFICES ASSUME Init PROVE WalkInv
    OBVIOUS
  <2>1. /\ trip_setpoint = TRIP_SETPOINT_C /\ moves = 0
        /\ \A w \in Workers : at[w] = "idle"
    BY DEF Init, InitSolver, InitThreads
  <2>2. Distance(TRIP_SETPOINT_C, TRIP_SETPOINT_C) <= 0 * SETPOINT_MAX_STEP_C
    BY LogicSolverAssumption DEF Distance
  <2>3. QED
    BY <2>1, <2>2, LogicSolverAssumption DEF WalkInv, Walked
<1>2. WalkInv => SetpointWalk
  BY DEF WalkInv, Walked, SetpointWalk
<1>3. QED
  BY <1>1, <1>2, WalkStep, SolverInvariant, PTL DEF Spec

-----------------------------------------------------------------------------
(* The latch.  Held is what the refinement mapping says each thread has      *)
(* taken.                                                                    *)
Ticket(w) == IF at[w] \in Holding THEN {given[w].nonce} ELSE {}

Held == [w \in Workers |-> Ticket(w)]

(* A thread that moves leaves what the others have taken. *)
LEMMA HeldStep ==
    ASSUME NEW w \in Workers,
           \A v \in Workers \ {w} : Ticket(v)' = Ticket(v)
    PROVE  Held' = [Held EXCEPT ![w] = Ticket(w)']
BY DEF Held

LEMMA HeldSame ==
    ASSUME \A v \in Workers : Ticket(v)' = Ticket(v)
    PROVE  Held' = Held
BY DEF Held

(* What a thread takes changes only for a thread that moves. *)
LEMMA GoTicket ==
    ASSUME TypeOK, NEW w \in Workers, NEW place, Go(w, place),
           given' = given
    PROVE  /\ \A v \in Workers \ {w} : Ticket(v)' = Ticket(v)
           /\ Ticket(w)' = IF place \in Holding THEN {given[w].nonce} ELSE {}
BY DEF Go, TypeOK, Ticket, Holding

LEMMA BeginTicket ==
    ASSUME TypeOK, NEW w \in Workers, NEW place, NEW c, NEW o, NEW s,
           Begin(w, place, c, o, s)
    PROVE  /\ \A v \in Workers \ {w} : Ticket(v)' = Ticket(v)
           /\ Ticket(w)' = IF place \in Holding THEN {c.nonce} ELSE {}
           /\ Ticket(w) = {}
BY DEF Begin, Go, TypeOK, Ticket, Holding

LatchVars == <<trip_state = "TRIPPED", operator_nonces, Held>>

LEMMA LatchStep ==
    TypeInv /\ [Next]_vars => Latch!Next \/ UNCHANGED LatchVars
<1> SUFFICES ASSUME TypeInv, [Next]_vars
             PROVE  Latch!Next \/ UNCHANGED LatchVars
  OBVIOUS
<1>t. TypeOK /\ ThreadsOK
  BY DEF TypeInv
<1> USE DEF LatchVars
<1>0. CASE UNCHANGED vars
  <2>1. UNCHANGED <<trip_state, operator_nonces, at, given>>
    BY <1>0, Zenon DEF vars, solver, threads
  <2>2. Held' = Held
    BY <2>1, HeldSame DEF Ticket
  <2>3. QED
    BY <2>1, <2>2
<1>1. ASSUME NEW w \in Workers, DecideTrip(w)
      PROVE  UNCHANGED LatchVars
  <2>1. /\ Begin(w, "latch", NoCommand, "TRIP", {})
        /\ UNCHANGED <<trip_state, operator_nonces>>
    BY <1>1 DEF DecideTrip, solver
  <2>2. \A v \in Workers : Ticket(v)' = Ticket(v)
    BY <1>t, <2>1, BeginTicket DEF Holding
  <2>3. QED
    BY <2>1, <2>2, HeldSame
<1>2. ASSUME NEW w \in Workers, LatchTrip(w)
      PROVE  Latch!Next
  <2>1. PICK place \in {"collect", "idle"} : Go(w, place)
    BY <1>2 DEF LatchTrip
  <2>2. /\ at[w] = "latch" /\ given' = given /\ trip_state' = "TRIPPED"
        /\ operator_nonces' = operator_nonces
    BY <1>2 DEF LatchTrip
  <2>3. Ticket(w) = {}
    BY <2>2 DEF Ticket, Holding
  <2>4. \A v \in Workers : Ticket(v)' = Ticket(v)
    BY <1>t, <2>1, <2>2, <2>3, GoTicket DEF Holding
  <2>5. Held' = Held
    BY <2>4, HeldSame
  <2>6. QED
    BY <2>2, <2>5 DEF Latch!Next, Latch!Trip, Held, Ticket
<1>3. ASSUME NEW w \in Workers, NEW valve \in {"OPEN", "CLOSED"},
             RelayActuatorUi(w, valve)
      PROVE  UNCHANGED LatchVars
  <2>1. /\ Begin(w, "latch", NoCommand, "none", {})
        /\ UNCHANGED <<trip_state, operator_nonces>>
    BY <1>3 DEF RelayActuatorUi, solver
  <2>2. \A v \in Workers : Ticket(v)' = Ticket(v)
    BY <1>t, <2>1, BeginTicket DEF Holding
  <2>3. QED
    BY <2>1, <2>2, HeldSame
<1>4. ASSUME NEW w \in Workers, NEW c \in network, NEW intact \in BOOLEAN,
             NEW f \in 0 .. Ticks - 1, HandleOperatorCommand(w, c, intact, f)
      PROVE  Latch!Next
  <2>1. PICK place \in {"sound", "garbled"} : Begin(w, place, c, "none", {})
    BY <1>4 DEF HandleOperatorCommand
  <2>2. /\ UNCHANGED <<trip_state, operator_nonces>>
        /\ c.nonce \in Nonces \ operator_nonces
    BY <1>4, <1>t DEF HandleOperatorCommand, Fresh, solver, TypeOK, Command
  <2>3. /\ \A v \in Workers \ {w} : Ticket(v)' = Ticket(v)
        /\ Ticket(w)' = {c.nonce} /\ Ticket(w) = {}
    BY <1>t, <2>1, BeginTicket DEF Holding
  <2>4. Held' = [Held EXCEPT ![w] = {c.nonce}] /\ Held[w] = {}
    BY <2>3, HeldStep DEF Held
  <2>5. QED
    BY <2>2, <2>4 DEF Latch!Next, Latch!Take, Held, Ticket
<1>5. ASSUME NEW w \in Workers, NEW a \in Actuators, NEW tr \in Transports,
             NEW same \in BOOLEAN, ActuatorHandshake(w, a, tr, same)
      PROVE  UNCHANGED LatchVars
  <2>1. UNCHANGED <<trip_state, operator_nonces>>
    BY <1>5, Zenon DEF ActuatorHandshake, solver
  <2>2. \A v \in Workers : Ticket(v)' = Ticket(v)
    <3>1. CASE Begin(w, "resync", NoCommand, "none", {a})
      BY <1>t, <3>1, BeginTicket DEF Holding
    <3>2. CASE UNCHANGED threads
      BY <3>2 DEF threads, Ticket
    <3>3. QED
      BY <1>5, <3>1, <3>2 DEF ActuatorHandshake
  <2>3. QED
    BY <2>1, <2>2, HeldSame
<1>6. ASSUME NEW w \in Workers, NEW place,
             at[w] \notin Holding, Go(w, place), place \notin Holding,
             UNCHANGED <<trip_state, operator_nonces, given>>
      PROVE  UNCHANGED LatchVars
  <2>1. Ticket(w) = {}
    BY <1>6 DEF Ticket
  <2>2. \A v \in Workers : Ticket(v)' = Ticket(v)
    BY <1>t, <1>6, <2>1, GoTicket
  <2>3. QED
    BY <1>6, <2>2, HeldSame
<1>7. ASSUME NEW w \in Workers, SyncActuatorState(w)
      PROVE  UNCHANGED LatchVars
  BY <1>6, <1>7 DEF SyncActuatorState, Holding, solver
<1>8. ASSUME NEW w \in Workers, SendActuatorCommand(w)
      PROVE  UNCHANGED LatchVars
  <2>1. PICK place \in {"idle", "send"} : Go(w, place)
    BY <1>8 DEF SendActuatorCommand
  <2>2. QED
    BY <1>6, <1>8, <2>1 DEF SendActuatorCommand, Holding, solver
<1>9. ASSUME NEW w \in Workers, NEW a \in Actuators, Dispatch(w, a)
      PROVE  UNCHANGED LatchVars
  <2>1. PICK place \in {"idle", "send"} : Go(w, place)
    BY <1>9 DEF Dispatch
  <2>2. QED
    BY <1>6, <1>9, <2>1 DEF Dispatch, Holding, solver
<1>10. ASSUME NEW w \in Workers, at[w] \in Holding, Go(w, "idle"),
              UNCHANGED <<trip_state, operator_nonces, given>>
       PROVE  Latch!Next
  <2>1. /\ \A v \in Workers \ {w} : Ticket(v)' = Ticket(v)
        /\ Ticket(w)' = {}
    BY <1>t, <1>10, GoTicket DEF Holding
  <2>2. Held' = [Held EXCEPT ![w] = {}]
    BY <2>1, HeldStep
  <2>3. QED
    BY <1>10, <2>2 DEF Latch!Next, Latch!Drop, Held, Ticket
<1>11. ASSUME NEW w \in Workers, VerifyAndBurn(w)
       PROVE  Latch!Next
  <2>1. CASE at[w] = "sound"
    <3>1. /\ Go(w, "apply") /\ UNCHANGED <<trip_state, given>>
          /\ operator_nonces' = operator_nonces \union {given[w].nonce}
      BY <1>11, <2>1 DEF VerifyAndBurn, Burn, solver
    <3>2. Ticket(w) = {given[w].nonce} /\ Held[w] = {given[w].nonce}
      BY <2>1 DEF Ticket, Holding, Held
    <3>3. \A v \in Workers : Ticket(v)' = Ticket(v)
      BY <1>t, <3>1, <3>2, GoTicket DEF Holding
    <3>4. Held' = Held
      BY <3>3, HeldSame
    <3>5. QED
      BY <3>1, <3>2, <3>4 DEF Latch!Next, Latch!Spend, Held, Ticket
  <2>2. CASE at[w] # "sound"
    <3>1. /\ at[w] \in Holding /\ Go(w, "idle")
          /\ UNCHANGED <<trip_state, operator_nonces, given>>
      BY <1>11, <2>2 DEF VerifyAndBurn, Burn, solver, Holding
    <3>2. QED
      BY <1>10, <3>1
  <2>3. QED
    BY <2>1, <2>2
<1>12. ASSUME NEW w \in Workers, ApplyOperatorAction(w)
       PROVE  Latch!Next \/ UNCHANGED LatchVars
  <2>1. /\ at[w] = "apply" /\ at[w] \in Holding
        /\ UNCHANGED <<trip_state, operator_nonces, given>>
    BY <1>12 DEF ApplyOperatorAction, Holding
  <2>2. PICK place \in {"idle", "clear", "move"} : Go(w, place)
    BY <1>12 DEF ApplyOperatorAction
  <2>3. CASE place = "idle"
    BY <1>10, <2>1, <2>2, <2>3
  <2>4. CASE place # "idle"
    <3>1. Ticket(w) = {given[w].nonce} /\ place \in Holding
      BY <2>1, <2>4 DEF Ticket, Holding
    <3>2. \A v \in Workers : Ticket(v)' = Ticket(v)
      BY <1>t, <2>1, <2>2, <3>1, GoTicket
    <3>3. QED
      BY <2>1, <3>2, HeldSame
  <2>5. QED
    BY <2>3, <2>4
<1>13. ASSUME NEW w \in Workers, ClearTrip(w)
       PROVE  Latch!Next
  <2>1. /\ at[w] = "clear" /\ Go(w, "collect") /\ given' = given
        /\ trip_state' = "HEALTHY" /\ operator_nonces' = operator_nonces
    BY <1>13 DEF ClearTrip
  <2>2. given[w].nonce \in operator_nonces
    BY <1>t, <2>1 DEF ThreadsOK, Verified
  <2>3. Held[w] = {given[w].nonce}
    BY <2>1 DEF Ticket, Holding, Held
  <2>4. /\ \A v \in Workers \ {w} : Ticket(v)' = Ticket(v)
        /\ Ticket(w)' = {}
    BY <1>t, <2>1, GoTicket DEF Holding
  <2>5. Held' = [Held EXCEPT ![w] = {}]
    BY <2>4, HeldStep
  <2>6. QED
    BY <2>1, <2>2, <2>3, <2>5 DEF Latch!Next, Latch!Clear, Held, Ticket
<1>14. ASSUME NEW w \in Workers, MoveSetpoint(w)
       PROVE  Latch!Next
  BY <1>10, <1>14 DEF MoveSetpoint, Holding
<1>15. ASSUME NEW id \in Signers, NEW action \in OPERATOR_ACTIONS,
              NEW value \in Values \union {NoValue}, NEW n \in Nonces,
              NEW d \in Drift, BuildCommand(id, action, value, n, d)
       PROVE  UNCHANGED LatchVars
  <2>1. UNCHANGED <<solver, operator_nonces, threads>>
    BY <1>15, Zenon DEF BuildCommand
  <2>2. UNCHANGED <<trip_state, operator_nonces, at, given>>
    BY <2>1 DEF solver, threads
  <2>3. Held' = Held
    BY <2>2, HeldSame DEF Ticket
  <2>4. QED
    BY <2>2, <2>3
<1>16. ASSUME NEW a \in Actuators, ActuatorDisconnect(a)
       PROVE  UNCHANGED LatchVars
  <2>1. UNCHANGED <<trip_state, operator_nonces, given>>
    BY <1>16 DEF ActuatorDisconnect, solver
  <2>2. ASSUME NEW v \in Workers PROVE Ticket(v)' = Ticket(v)
    <3>1. at[v] \in Holding => rest[v] # {a}
      BY <1>t DEF ThreadsOK, Holding
    <3>2. at'[v] = IF rest[v] = {a} THEN "idle" ELSE at[v]
      BY <1>16 DEF ActuatorDisconnect
    <3>3. QED
      BY <2>1, <3>1, <3>2 DEF Ticket, Holding
  <2>3. QED
    BY <2>1, <2>2, HeldSame
<1>17. CASE Tick
  <2>1. UNCHANGED <<trip_state, operator_nonces, at, given>>
    BY <1>17 DEF Tick, solver, threads
  <2>2. Held' = Held
    BY <2>1, HeldSame DEF Ticket
  <2>3. QED
    BY <2>1, <2>2
<1>18. CASE Restart
  <2>1. /\ trip_state' = "HEALTHY" /\ operator_nonces' = {}
        /\ \A v \in Workers : at'[v] = "idle"
    BY <1>18 DEF Restart
  <2>2. Held' = [v \in Workers |-> {}]
    BY <2>1 DEF Held, Ticket, Holding
  <2>3. QED
    BY <2>1, <2>2 DEF Latch!Next, Latch!Forget, Latch!Free, Held, Ticket
<1>19. QED
  BY <1>0, <1>1, <1>2, <1>3, <1>4, <1>5, <1>7, <1>8, <1>9, <1>11, <1>12, <1>13,
     <1>14, <1>15, <1>16, <1>17, <1>18, Steps, Zenon

(* The solver implements the abstract latch: a trip, however it was raised, is
   left only by a thread with a RESET that verifies, whose nonce no command of
   this process had used when it looked, and which is used up before the trip
   clears, once; or by a restart. *)
THEOREM LatchImplemented == Spec => LatchSpec
<1>1. Init => Latch!Init
  BY DEF Init, InitSolver, InitThreads, Latch!Init, Latch!Free, Holding
<1>2. UNCHANGED LatchVars => UNCHANGED Latch!vars
  BY DEF LatchVars, Latch!vars, Held, Ticket
<1>3. TypeInv /\ [Next]_vars => [Latch!Next]_(Latch!vars)
  BY <1>2, LatchStep
<1>4. QED
  BY <1>1, <1>3, SolverInvariant, PTL DEF Spec, LatchSpec, Latch!Spec

-----------------------------------------------------------------------------
(* Commands to the final element.  An actuator that was not told what the    *)
(* latch says is about to be, by a thread that has not looked for sessions   *)
(* yet or has this one left.                                                 *)
Told(a) ==
    \/ dispatched[a] = SyncCommand
    \/ a \in late
    \/ a \in over_mqtt /\ dispatched[a] = "none"
    \/ trip_state = "TRIPPED" /\ reported

Awaits(w, a) ==
    \/ at[w] = "collect"
    \/ at[w] \in {"send", "resync"} /\ a \in rest[w]

InStepInv == \A a \in agreed : Told(a) \/ \E w \in Workers : Awaits(w, a)

(* A thread that is not about to send may begin or go on. *)
LEMMA AwaitsKept ==
    ASSUME TypeOK, NEW w \in Workers, NEW a,
           at[w] \notin {"collect", "send", "resync"},
           \A v \in Workers \ {w} : at'[v] = at[v] /\ rest'[v] = rest[v]
    PROVE  (\E v \in Workers : Awaits(v, a)) =>
              (\E v \in Workers : Awaits(v, a))'
<1> SUFFICES ASSUME NEW v \in Workers, Awaits(v, a)
             PROVE  Awaits(v, a)'
  OBVIOUS
<1>1. v # w
  BY DEF Awaits
<1>2. QED
  BY <1>1 DEF Awaits

LEMMA BeginOthers ==
    ASSUME TypeOK, NEW w \in Workers, NEW place, NEW c, NEW o, NEW s,
           Begin(w, place, c, o, s)
    PROVE  /\ at[w] = "idle" /\ at'[w] = place /\ rest'[w] = s
           /\ \A v \in Workers \ {w} : at'[v] = at[v] /\ rest'[v] = rest[v]
BY DEF Begin, Go, TypeOK

LEMMA GoOthers ==
    ASSUME TypeOK, NEW w \in Workers, NEW place, Go(w, place)
    PROVE  at'[w] = place /\ \A v \in Workers \ {w} : at'[v] = at[v]
BY DEF Go, TypeOK

LEMMA InStepStep == TypeInv /\ InStepInv /\ [Next]_vars => InStepInv'
<1> SUFFICES ASSUME TypeInv, InStepInv, [Next]_vars PROVE InStepInv'
  OBVIOUS
<1>t. TypeOK /\ ThreadsOK
  BY DEF TypeInv
<1> DEFINE Told0 == <<trip_state, agreed, over_mqtt, dispatched, reported, late>>
(* A thread that is not about to send moves, and no one is told otherwise. *)
<1>a. ASSUME NEW w \in Workers, at[w] \notin {"collect", "send", "resync"},
             \A v \in Workers \ {w} : at'[v] = at[v] /\ rest'[v] = rest[v],
             UNCHANGED Told0
      PROVE  InStepInv'
  <2>1. \A a \in agreed : Told(a) => Told(a)'
    BY <1>a DEF Told, SyncCommand
  <2>2. \A a : (\E v \in Workers : Awaits(v, a)) =>
                  (\E v \in Workers : Awaits(v, a))'
    BY <1>t, <1>a, AwaitsKept
  <2>3. QED
    BY <1>a, <2>1, <2>2 DEF InStepInv
(* No one moves, and no one is told otherwise. *)
<1>b. ASSUME UNCHANGED Told0, UNCHANGED <<at, rest>>
      PROVE  InStepInv'
  BY <1>b DEF InStepInv, Told, SyncCommand, Awaits
(* Someone is about to look for sessions. *)
<1>c. ASSUME NEW w \in Workers, at'[w] = "collect"
      PROVE  InStepInv'
  BY <1>c DEF InStepInv, Awaits
<1>0. CASE UNCHANGED vars
  BY <1>0, <1>b DEF vars, solver, links, threads, history
<1>1. ASSUME NEW w \in Workers, DecideTrip(w)
      PROVE  InStepInv'
  <2>1. Begin(w, "latch", NoCommand, "TRIP", {}) /\ UNCHANGED Told0
    BY <1>1 DEF DecideTrip, solver, links, history
  <2>2. QED
    BY <1>a, <1>t, <2>1, BeginOthers
<1>2. ASSUME NEW w \in Workers, LatchTrip(w)
      PROVE  InStepInv'
  <2>1. CASE order[w] = "TRIP"
    <3>1. Go(w, "collect")
      BY <1>2, <2>1 DEF LatchTrip
    <3>2. QED
      BY <1>c, <1>t, <3>1, GoOthers
  <2>2. CASE order[w] # "TRIP"
    <3>1. /\ at[w] = "latch" /\ Go(w, "idle") /\ rest' = rest
          /\ trip_state' = "TRIPPED"
          /\ reported' = (reported \/ trip_state = "HEALTHY")
          /\ UNCHANGED <<agreed, over_mqtt, dispatched, late>>
      BY <1>2, <2>2 DEF LatchTrip, links
    <3>2. \A v \in Workers \ {w} : at'[v] = at[v] /\ rest'[v] = rest[v]
      BY <1>t, <3>1, GoOthers
    <3>3. CASE trip_state = "HEALTHY"
      BY <3>1, <3>3 DEF InStepInv, Told
    <3>4. CASE trip_state = "TRIPPED"
      <4>1. \A a \in agreed : Told(a) => Told(a)'
        BY <3>1, <3>4 DEF Told, SyncCommand
      <4>2. \A a : (\E v \in Workers : Awaits(v, a)) =>
                      (\E v \in Workers : Awaits(v, a))'
        BY <1>t, <3>1, <3>2, AwaitsKept
      <4>3. QED
        BY <3>1, <4>1, <4>2 DEF InStepInv
    <3>5. QED
      BY <1>t, <3>3, <3>4 DEF TypeOK
  <2>3. QED
    BY <2>1, <2>2
<1>3. ASSUME NEW w \in Workers, NEW valve \in {"OPEN", "CLOSED"},
             RelayActuatorUi(w, valve)
      PROVE  InStepInv'
  <2>1. Begin(w, "latch", NoCommand, "none", {}) /\ UNCHANGED Told0
    BY <1>3 DEF RelayActuatorUi, solver, links, history
  <2>2. QED
    BY <1>a, <1>t, <2>1, BeginOthers
<1>4. ASSUME NEW w \in Workers, NEW c \in network, NEW intact \in BOOLEAN,
             NEW f \in 0 .. Ticks - 1, HandleOperatorCommand(w, c, intact, f)
      PROVE  InStepInv'
  <2>1. PICK place \in {"sound", "garbled"} : Begin(w, place, c, "none", {})
    BY <1>4 DEF HandleOperatorCommand
  <2>2. UNCHANGED Told0
    BY <1>4 DEF HandleOperatorCommand, solver, links
  <2>3. QED
    BY <1>a, <1>t, <2>1, <2>2, BeginOthers
<1>5. ASSUME NEW w \in Workers, NEW a \in Actuators, NEW tr \in Transports,
             NEW same \in BOOLEAN, ActuatorHandshake(w, a, tr, same)
      PROVE  InStepInv'
  <2>1. /\ a \notin agreed
        /\ agreed' = (IF same THEN agreed \union {a} ELSE agreed)
        /\ over_mqtt' = (IF tr = "mqtt" THEN over_mqtt \union {a}
                         ELSE over_mqtt \ {a})
        /\ dispatched' = [dispatched EXCEPT ![a] = "none"]
        /\ late' = late \ {a}
        /\ UNCHANGED <<trip_state, reported>>
    BY <1>5, <1>t DEF ActuatorHandshake, TypeOK, solver
  <2>2. \A b \in agreed : Told(b) => Told(b)'
    BY <1>t, <2>1 DEF Told, SyncCommand, TypeOK
  <2>3. \A v \in Workers, b \in Actuators : Awaits(v, b) => Awaits(v, b)'
    <3>1. CASE Begin(w, "resync", NoCommand, "none", {a})
      <4>1. /\ at[w] = "idle"
            /\ \A v \in Workers \ {w} : at'[v] = at[v] /\ rest'[v] = rest[v]
        BY <1>t, <3>1, BeginOthers
      <4>2. QED
        BY <4>1 DEF Awaits
    <3>2. CASE UNCHANGED threads
      BY <3>2 DEF threads, Awaits
    <3>3. QED
      BY <1>5, <3>1, <3>2 DEF ActuatorHandshake
  <2>4. ASSUME same PROVE Told(a)' \/ \E v \in Workers : Awaits(v, a)'
    <3>1. CASE tr = "socketio"
      <4>1. Begin(w, "resync", NoCommand, "none", {a})
        BY <1>5, <2>4, <3>1 DEF ActuatorHandshake
      <4>2. at'[w] = "resync" /\ rest'[w] = {a}
        BY <1>t, <4>1, BeginOthers
      <4>3. QED
        BY <4>2 DEF Awaits
    <3>2. CASE tr = "mqtt"
      BY <1>t, <2>1, <3>2 DEF Told, TypeOK
    <3>3. QED
      BY <3>1, <3>2, LogicSolverAssumption
  <2>5. agreed \subseteq Actuators
    BY <1>t DEF TypeOK
  <2>6. ASSUME NEW b \in agreed' PROVE Told(b)' \/ \E v \in Workers : Awaits(v, b)'
    <3>1. CASE b = a
      BY <2>1, <2>4, <2>6, <3>1
    <3>2. CASE b # a
      <4>1. b \in agreed /\ b \in Actuators
        BY <2>1, <2>5, <2>6, <3>2
      <4>2. QED
        BY <2>2, <2>3, <4>1 DEF InStepInv
    <3>3. QED
      BY <3>1, <3>2
  <2>7. QED
    BY <2>6 DEF InStepInv
<1>6. ASSUME NEW w \in Workers, SyncActuatorState(w)
      PROVE  InStepInv'
  <2>1. /\ at[w] = "resync" /\ Go(w, "send") /\ rest' = rest /\ UNCHANGED Told0
    BY <1>6 DEF SyncActuatorState, solver, links, history
  <2>2. at'[w] = "send" /\ \A v \in Workers \ {w} : at'[v] = at[v]
    BY <1>t, <2>1, GoOthers
  <2>3. \A a \in agreed : Told(a) => Told(a)'
    BY <2>1 DEF Told, SyncCommand
  <2>4. \A v \in Workers, a \in agreed : Awaits(v, a) => Awaits(v, a)'
    BY <2>1, <2>2 DEF Awaits
  <2>5. QED
    BY <2>1, <2>3, <2>4 DEF InStepInv
<1>7. ASSUME NEW w \in Workers, SendActuatorCommand(w)
      PROVE  InStepInv'
  <2>1. /\ rest' = [rest EXCEPT ![w] = actuator_keys] /\ UNCHANGED Told0
        /\ Go(w, IF actuator_keys = {} THEN "idle" ELSE "send")
    BY <1>7 DEF SendActuatorCommand, Recipients, solver, links, history
  <2>2. ASSUME NEW a \in agreed PROVE Awaits(w, a)'
    <3>1. a \in actuator_keys
      BY <1>t DEF TypeOK
    <3>2. at'[w] = "send"
      BY <1>t, <2>1, <3>1, GoOthers
    <3>3. a \in rest'[w]
      BY <1>t, <2>1, <3>1 DEF TypeOK
    <3>4. QED
      BY <3>2, <3>3 DEF Awaits
  <2>3. QED
    BY <2>1, <2>2 DEF InStepInv
<1>8. ASSUME NEW w \in Workers, NEW a \in Actuators, Dispatch(w, a)
      PROVE  InStepInv'
  <2>1. /\ at[w] = "send" /\ rest' = [rest EXCEPT ![w] = @ \ {a}]
        /\ dispatched' = [dispatched EXCEPT ![a] = order[w]]
        /\ late' = (IF order[w] = SyncCommand THEN late \ {a}
                    ELSE late \union {a})
        /\ Go(w, IF rest[w] = {a} THEN "idle" ELSE "send")
        /\ UNCHANGED <<trip_state, agreed, over_mqtt, reported>>
    BY <1>8 DEF Dispatch, solver, links
  <2>2. Told(a)'
    BY <1>t, <2>1 DEF Told, SyncCommand, TypeOK
  <2>3. ASSUME NEW b \in agreed, b # a, Told(b) PROVE Told(b)'
    BY <1>t, <2>1, <2>3 DEF Told, SyncCommand, TypeOK
  <2>4. ASSUME NEW b \in agreed, b # a, NEW v \in Workers, Awaits(v, b)
        PROVE  Awaits(v, b)'
    <3>1. CASE v = w
      <4>1. b \in rest[w] /\ b \in rest'[w]
        BY <1>t, <2>1, <2>4, <3>1 DEF Awaits, TypeOK
      <4>2. at'[w] = "send"
        BY <1>t, <2>1, <2>4, <4>1, GoOthers
      <4>3. QED
        BY <3>1, <4>1, <4>2 DEF Awaits
    <3>2. CASE v # w
      <4>1. at'[v] = at[v] /\ rest'[v] = rest[v]
        BY <1>t, <2>1, <3>2, GoOthers DEF TypeOK
      <4>2. QED
        BY <2>4, <4>1 DEF Awaits
    <3>3. QED
      BY <3>1, <3>2
  <2>5. QED
    BY <2>1, <2>2, <2>3, <2>4 DEF InStepInv
<1>9. ASSUME NEW w \in Workers, VerifyAndBurn(w)
      PROVE  InStepInv'
  <2>1. PICK place \in {"apply", "idle"} : Go(w, place)
    BY <1>9 DEF VerifyAndBurn
  <2>2. /\ at[w] \notin {"collect", "send", "resync"} /\ UNCHANGED Told0
        /\ rest' = rest
    BY <1>9 DEF VerifyAndBurn, solver, links
  <2>3. QED
    BY <1>a, <1>t, <2>1, <2>2, GoOthers
<1>10. ASSUME NEW w \in Workers, ApplyOperatorAction(w)
       PROVE  InStepInv'
  <2>1. PICK place \in {"idle", "clear", "move"} : Go(w, place)
    BY <1>10 DEF ApplyOperatorAction
  <2>2. /\ at[w] \notin {"collect", "send", "resync"} /\ UNCHANGED Told0
        /\ rest' = rest
    BY <1>10 DEF ApplyOperatorAction, links, history
  <2>3. QED
    BY <1>a, <1>t, <2>1, <2>2, GoOthers
<1>11. ASSUME NEW w \in Workers, ClearTrip(w)
       PROVE  InStepInv'
  <2>1. Go(w, "collect")
    BY <1>11 DEF ClearTrip
  <2>2. QED
    BY <1>c, <1>t, <2>1, GoOthers
<1>12. ASSUME NEW w \in Workers, MoveSetpoint(w)
       PROVE  InStepInv'
  <2>1. /\ Go(w, "idle") /\ at[w] \notin {"collect", "send", "resync"}
        /\ UNCHANGED Told0 /\ rest' = rest
    BY <1>12 DEF MoveSetpoint, links
  <2>2. QED
    BY <1>a, <1>t, <2>1, GoOthers
<1>13. ASSUME NEW id \in Signers, NEW action \in OPERATOR_ACTIONS,
              NEW value \in Values \union {NoValue}, NEW n \in Nonces,
              NEW d \in Drift, BuildCommand(id, action, value, n, d)
       PROVE  InStepInv'
  <2>1. UNCHANGED <<solver, links, dispatched, threads, history>>
    BY <1>13, Zenon DEF BuildCommand
  <2>2. QED
    BY <1>b, <2>1 DEF solver, links, threads, history
<1>14. ASSUME NEW a \in Actuators, ActuatorDisconnect(a)
       PROVE  InStepInv'
  <2>1. /\ agreed' = agreed \ {a} /\ over_mqtt' = over_mqtt \ {a}
        /\ dispatched' = [dispatched EXCEPT ![a] = "none"]
        /\ late' = late \ {a}
        /\ UNCHANGED <<trip_state, reported>>
    BY <1>14 DEF ActuatorDisconnect, solver
  <2>2. ASSUME NEW b \in agreed, b # a, Told(b) PROVE Told(b)'
    BY <1>t, <2>1, <2>2 DEF Told, SyncCommand, TypeOK
  <2>3. ASSUME NEW b \in agreed, b # a, NEW v \in Workers, Awaits(v, b)
        PROVE  Awaits(v, b)'
    <3>1. /\ rest'[v] = rest[v] \ {a}
          /\ at'[v] = IF rest[v] = {a} THEN "idle" ELSE at[v]
      BY <1>14 DEF ActuatorDisconnect
    <3>2. at[v] = "collect" => rest[v] = {}
      BY <1>t DEF ThreadsOK
    <3>3. QED
      BY <2>3, <3>1, <3>2 DEF Awaits
  <2>4. QED
    BY <2>1, <2>2, <2>3 DEF InStepInv
<1>15. CASE Tick
  BY <1>15, <1>b DEF Tick, solver, links, threads, history
<1>16. CASE Restart
  <2>1. agreed' = {}
    BY <1>16 DEF Restart
  <2>2. QED
    BY <2>1 DEF InStepInv
<1>17. QED
  BY <1>0, <1>1, <1>2, <1>3, <1>4, <1>5, <1>6, <1>7, <1>8, <1>9, <1>10, <1>11,
     <1>12, <1>13, <1>14, <1>15, <1>16, Steps, Zenon

(* Over any interleaving of handshakes, disconnects, trips, resets, reports and
   restarts, in threads that act on what they read, an actuator that shares a
   key with the server was last told what the latch says, unless that command
   left late, none has left on MQTT, or the trip was only reported. *)
THEOREM CommandInStepHolds == Spec => []CommandInStep
<1>1. Init => InStepInv
  BY DEF Init, InStepInv
<1>2. InStepInv => CommandInStep
  <2> SUFFICES ASSUME InStepInv, Rest, NEW a \in agreed PROVE Told(a)
    BY DEF CommandInStep, Told
  <2>1. \A w \in Workers : ~Awaits(w, a)
    BY DEF Rest, Awaits
  <2>2. QED
    BY <2>1 DEF InStepInv
<1>3. QED
  BY <1>1, <1>2, InStepStep, SolverInvariant, PTL DEF Spec
=============================================================================
