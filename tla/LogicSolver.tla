---------------------------- MODULE LogicSolver ----------------------------
(***************************************************************************)
(* The logic solver of SIS-01: the trip latch, the maintenance bypass, the *)
(* trip setpoint and the signed operator commands of app/server.py, with   *)
(* the last command it dispatched to each actuator that holds a session.   *)
(*                                                                         *)
(* Socket.IO runs every event in a thread of its own and the handlers hold *)
(* no lock: a thread ("at" is the line it has come to) reads the state in  *)
(* one step and acts on what it read in a later one, and others run in     *)
(* between.                                                                *)
(*                                                                         *)
(* Time passes in ticks, a fraction of a second: the server reads its      *)
(* clock and a claimed timestamp as floats, a signature covers the second. *)
(*                                                                         *)
(* Operator commands live in "network" from the moment the console builds  *)
(* them: the network may deliver one late, twice, or garbled, which is     *)
(* what the nonce, the timestamp and the signature are there for.          *)
(***************************************************************************)
EXTENDS Integers

CONSTANTS
    Workers,                \* threads that run handlers
    NoCommand,              \* a thread that handles none
    Enrolled,               \* identities in identities.json, devices included
    Signers,                \* whose commands reach the server
    Nonces,                 \* bound: operator commands ever built
    Values,                 \* setpoints an operator may ask for
    NotANumber,             \* a requested setpoint float() refuses
    Temperatures,           \* readings
    Actuators,              \* actuator session ids
    Transports,             \* how an actuator may hold its session
    TRIP_SETPOINT_C, SETPOINT_MIN_C, SETPOINT_MAX_C, SETPOINT_MAX_STEP_C,
    OPERATOR_MAX_SKEW_S,
    Ticks,                  \* in a second
    Drift,                  \* operator clock minus server clock, when signing
    MaxClock,               \* bound: ticks of the run
    MaxRestarts             \* bound: server restarts

ASSUME LogicSolverAssumption ==
    /\ Values \subseteq Int \union {NotANumber}
    /\ Temperatures \subseteq Int
    /\ Transports \subseteq {"socketio", "mqtt"}
    /\ SETPOINT_MIN_C \in Int /\ SETPOINT_MAX_C \in Int
    /\ TRIP_SETPOINT_C \in SETPOINT_MIN_C .. SETPOINT_MAX_C
    /\ SETPOINT_MAX_STEP_C \in Nat
    /\ OPERATOR_MAX_SKEW_S \in Nat
    /\ Ticks \in Nat \ {0}
    /\ Drift \subseteq Int
    /\ MaxClock \in Nat /\ MaxRestarts \in Nat

VARIABLES
    trip_state,             \* "HEALTHY" or "TRIPPED"
    bypass,                 \* the maintenance bypass
    trip_setpoint,
    operator_nonces,        \* nonces burnt since this process started
    actuator_keys,          \* actuators that hold a session
    agreed,                 \* those whose key the server derived too
    over_mqtt,              \* those on the MQTT bridge
    dispatched,             \* the last command sealed for each actuator
    at,                     \* what each thread does next
    given,                  \* the operator command it handles
    since,                  \* when it looked at the clock
    order,                  \* the command it sends, "none" to send none
    rest,                   \* the actuators it has still to send it to
    clock,                  \* time.time()
    restarts,               \* server restarts so far
    network,                \* operator commands built so far
    applied,                \* history: per nonce, when commands that were
                            \*   obeyed passed the clock first and last, and
                            \*   how many did
    raced,                  \* history: nonces two threads found unburnt
    moves,                  \* history: setpoint changes since start
    reported,               \* history: the latch was last set by a report
    late                    \* history: actuators last sent what the latch no
                            \*   longer called for

solver == <<trip_state, bypass, trip_setpoint>>
links == <<actuator_keys, agreed, over_mqtt>>
threads == <<at, given, since, order, rest>>
world == <<clock, restarts, network>>
history == <<applied, raced, moves, reported, late>>
vars == <<solver, operator_nonces, links, dispatched, threads, world, history>>

-----------------------------------------------------------------------------
OPERATOR_ACTIONS == {"SET_SETPOINT", "RESET", "BYPASS_ON", "BYPASS_OFF"}

NoValue == NotANumber       \* "value": null, which no action but
                            \* SET_SETPOINT looks at

Command == [operator_id : Signers, action : OPERATOR_ACTIONS,
            value : Values \union {NoValue}, nonce : Nonces, timestamp : Int]

Use == [count : Nat, first : Int, last : Int]

Distance(a, b) == IF a >= b THEN a - b ELSE b - a

(* A thread that handles a signed command, by the line it has come to. *)
Holding == {"sound", "garbled", "apply", "clear", "move"}

Places == {"idle", "latch", "collect", "resync", "send"} \union Holding

TypeOK ==
    /\ trip_state \in {"HEALTHY", "TRIPPED"}
    /\ bypass \in BOOLEAN
    /\ trip_setpoint \in Int
    /\ operator_nonces \subseteq Nonces
    /\ actuator_keys \subseteq Actuators
    /\ agreed \subseteq actuator_keys /\ over_mqtt \subseteq Actuators
    /\ dispatched \in [Actuators -> {"none", "TRIP", "RESET"}]
    /\ at \in [Workers -> Places]
    /\ given \in [Workers -> Command \union {NoCommand}]
    /\ since \in [Workers -> Int]
    /\ order \in [Workers -> {"none", "TRIP", "RESET"}]
    /\ rest \in [Workers -> SUBSET Actuators]
    /\ clock \in 0 .. MaxClock
    /\ restarts \in 0 .. MaxRestarts
    /\ network \subseteq Command
    /\ applied \in [Nonces -> Use]
    /\ raced \subseteq Nonces
    /\ moves \in Nat
    /\ reported \in BOOLEAN
    /\ late \subseteq Actuators

InitSolver ==
    /\ trip_state = "HEALTHY"
    /\ bypass = FALSE
    /\ trip_setpoint = TRIP_SETPOINT_C

InitThreads ==
    /\ at = [w \in Workers |-> "idle"]
    /\ given = [w \in Workers |-> NoCommand]
    /\ since = [w \in Workers |-> 0]
    /\ order = [w \in Workers |-> "none"]
    /\ rest = [w \in Workers |-> {}]

Init ==
    /\ InitSolver
    /\ InitThreads
    /\ operator_nonces = {}
    /\ actuator_keys = {} /\ agreed = {} /\ over_mqtt = {}
    /\ dispatched = [a \in Actuators |-> "none"]
    /\ clock = 0
    /\ restarts = 0
    /\ network = {}
    /\ applied = [n \in Nonces |-> [count |-> 0, first |-> 0, last |-> 0]]
    /\ raced = {}
    /\ moves = 0
    /\ reported = FALSE
    /\ late = {}

-----------------------------------------------------------------------------
(* Threads. *)

Go(w, place) == at' = [at EXCEPT ![w] = place]

(* A thread begins with what it was called with. *)
Begin(w, place, c, o, actuators) ==
    /\ at[w] = "idle"
    /\ Go(w, place)
    /\ given' = [given EXCEPT ![w] = c]
    /\ since' = [since EXCEPT ![w] = clock]
    /\ order' = [order EXCEPT ![w] = o]
    /\ rest' = [rest EXCEPT ![w] = actuators]

-----------------------------------------------------------------------------
(* Commands to the final element. *)

SyncCommand == IF trip_state = "TRIPPED" THEN "TRIP" ELSE "RESET"

(* With a bug: only one of them. *)
FirstRecipient ==
    IF actuator_keys = {} THEN {} ELSE {CHOOSE a \in actuator_keys : TRUE}

Recipients == actuator_keys

(* send_actuator_command takes a copy of the sessions there are ... *)
SendActuatorCommand(w) ==
    /\ at[w] = "collect"
    /\ rest' = [rest EXCEPT ![w] = Recipients]
    /\ Go(w, IF Recipients = {} THEN "idle" ELSE "send")
    /\ UNCHANGED <<solver, operator_nonces, links, dispatched, given, since,
                   order, world, history>>

(* ... and seals and sends to one after another. *)
Dispatch(w, a) ==
    /\ at[w] = "send" /\ a \in rest[w]
    /\ dispatched' = [dispatched EXCEPT ![a] = order[w]]
    /\ late' = IF order[w] = SyncCommand THEN late \ {a} ELSE late \union {a}
    /\ rest' = [rest EXCEPT ![w] = @ \ {a}]
    /\ Go(w, IF rest[w] = {a} THEN "idle" ELSE "send")
    /\ UNCHANGED <<solver, operator_nonces, links, given, since, order, world,
                   applied, raced, moves, reported>>

(* A handshake stores the key; over Socket.IO it ends in sync_actuator_state
   when both sides derived the same one.  The MQTT bridge never calls it. *)
ActuatorHandshake(w, a, transport, same_key) ==
    /\ a \notin actuator_keys
    /\ actuator_keys' = actuator_keys \union {a}
    /\ agreed' = IF same_key THEN agreed \union {a} ELSE agreed
    /\ over_mqtt' = IF transport = "mqtt" THEN over_mqtt \union {a}
                    ELSE over_mqtt \ {a}
    /\ dispatched' = [dispatched EXCEPT ![a] = "none"]
    /\ late' = late \ {a}
    /\ IF transport = "socketio" /\ same_key
       THEN Begin(w, "resync", NoCommand, "none", {a})
       ELSE UNCHANGED threads
    /\ UNCHANGED <<solver, operator_nonces, world, applied, raced, moves,
                   reported>>

(* sync_actuator_state reads the latch, and sends what it read later. *)
SyncActuatorState(w) ==
    /\ at[w] = "resync"
    /\ order' = [order EXCEPT ![w] = SyncCommand]
    /\ Go(w, "send")
    /\ UNCHANGED <<solver, operator_nonces, links, dispatched, given, since,
                   rest, world, history>>

(* forget(sid); what is still to be sent to it goes nowhere. *)
ActuatorDisconnect(a) ==
    /\ a \in actuator_keys
    /\ actuator_keys' = actuator_keys \ {a}
    /\ agreed' = agreed \ {a}
    /\ over_mqtt' = over_mqtt \ {a}
    /\ dispatched' = [dispatched EXCEPT ![a] = "none"]
    /\ late' = late \ {a}
    /\ rest' = [w \in Workers |-> rest[w] \ {a}]
    /\ at' = [w \in Workers |-> IF rest[w] = {a} THEN "idle" ELSE at[w]]
    /\ UNCHANGED <<solver, operator_nonces, given, since, order, world,
                   applied, raced, moves, reported>>

-----------------------------------------------------------------------------
(* The trip. *)

(* What decide_trip looks at: not under bypass, at or over the setpoint, not
   tripped already. *)
Demands(temperature) ==
    /\ ~bypass
    /\ temperature >= trip_setpoint
    /\ trip_state # "TRIPPED"

DecideTrip(w) ==
    /\ Begin(w, "latch", NoCommand, "TRIP", {})
    /\ UNCHANGED <<solver, operator_nonces, links, dispatched, world, history>>

(* Telemetry from the safety lane decides; telemetry from a board on the
   provisioned key is displayed only, and a reading that demands nothing
   changes nothing. *)
ProcessTelemetry(w, temperature, safety_relevant) ==
    IF safety_relevant /\ Demands(temperature)
    THEN DecideTrip(w)
    ELSE UNCHANGED vars

ManualTrip(w) == trip_state # "TRIPPED" /\ DecideTrip(w)

ValvePosition == IF trip_state = "TRIPPED" THEN "CLOSED" ELSE "OPEN"

(* With a bug: the actuator is trusted in both directions. *)
RelayTrustsBoth(w, valve) ==
    /\ valve # ValvePosition
    /\ trip_state' = "HEALTHY"
    /\ UNCHANGED <<bypass, trip_setpoint, operator_nonces, links, dispatched,
                   threads, world, history>>

(* relay_actuator_ui: a disagreeing CLOSED will latch the trip, a disagreeing
   OPEN is logged. Nothing is sent either way. *)
RelayActuatorUi(w, valve) ==
    /\ valve # ValvePosition
    /\ valve = "CLOSED"
    /\ Begin(w, "latch", NoCommand, "none", {})
    /\ UNCHANGED <<solver, operator_nonces, links, dispatched, world, history>>

(* The latch is set, by a decision that goes on to send or by a report. *)
LatchTrip(w) ==
    /\ at[w] = "latch"
    /\ trip_state' = "TRIPPED"
    /\ reported' = IF order[w] = "TRIP" THEN FALSE
                   ELSE reported \/ trip_state = "HEALTHY"
    /\ Go(w, IF order[w] = "TRIP" THEN "collect" ELSE "idle")
    /\ UNCHANGED <<bypass, trip_setpoint, operator_nonces, links, dispatched,
                   given, since, order, rest, world, applied, raced, moves,
                   late>>

-----------------------------------------------------------------------------
(* Operator commands. *)

(* The console signs one action with a new nonce and the second of its own
   clock. *)
BuildCommand(id, action, value, nonce, drift) ==
    /\ \A c \in network : c.nonce # nonce
    /\ (action # "SET_SETPOINT") => (value = NoValue)
    /\ network' = network \union
          {[operator_id |-> id, action |-> action, value |-> value,
            nonce |-> nonce, timestamp |-> (clock + drift) \div Ticks]}
    /\ UNCHANGED <<solver, operator_nonces, links, dispatched, threads, clock,
                   restarts, history>>

(* With a bug: the timestamp is not looked at. *)
FreshAtAnyAge(c, fraction) ==
    /\ c.action \in OPERATOR_ACTIONS
    /\ c.operator_id \in Enrolled
    /\ c.nonce \notin operator_nonces

(* Everything handle_operator_command looks at before the signature, which
   covers the second the command claims and not the fraction of it. *)
Fresh(c, fraction) ==
    /\ c.action \in OPERATOR_ACTIONS
    /\ c.operator_id \in Enrolled
    /\ Distance(clock, c.timestamp * Ticks + fraction)
          <= OPERATOR_MAX_SKEW_S * Ticks
    /\ c.nonce \notin operator_nonces

(* A delivery of c: the original, late or repeated, when intact; a copy whose
   signature will not verify otherwise.  A refusal changes nothing. *)
HandleOperatorCommand(w, c, intact, fraction) ==
    /\ Fresh(c, fraction)
    /\ Begin(w, IF intact THEN "sound" ELSE "garbled", c, "none", {})
    /\ raced' = IF intact /\ \E v \in Workers : at[v] = "sound"
                                              /\ given[v].nonce = c.nonce
                THEN raced \union {c.nonce} ELSE raced
    /\ UNCHANGED <<solver, operator_nonces, links, dispatched, world, applied,
                   moves, reported, late>>

(* With a bug: before the signature is verified; or never. *)
BurnBeforeVerify(c, intact) == operator_nonces \union {c.nonce}
BurnNever(c, intact) == operator_nonces

(* The nonce is burnt only once the signature checks out. *)
Burn(c, intact) == IF intact THEN operator_nonces \union {c.nonce}
                   ELSE operator_nonces

Record(c, time) ==
    applied' = [applied EXCEPT ![c.nonce] =
                   [count |-> @.count + 1,
                    first |-> IF @.count = 0 THEN time ELSE @.first,
                    last  |-> time]]

(* The signature is verified, and the nonce burnt. *)
VerifyAndBurn(w) ==
    /\ at[w] \in {"sound", "garbled"}
    /\ operator_nonces' = Burn(given[w], at[w] = "sound")
    /\ IF at[w] = "sound"
       THEN Go(w, "apply") /\ Record(given[w], since[w])
       ELSE Go(w, "idle") /\ UNCHANGED applied
    /\ UNCHANGED <<solver, links, dispatched, given, since, order, rest, world,
                   raced, moves, reported, late>>

InRange(value) ==
    /\ value # NotANumber
    /\ SETPOINT_MIN_C <= value
    /\ value <= SETPOINT_MAX_C

(* With a bug: the step is not an absolute value. *)
StepUpwardsOnly(value) == value - trip_setpoint <= SETPOINT_MAX_STEP_C

SmallStep(value) == Distance(value, trip_setpoint) <= SETPOINT_MAX_STEP_C

(* clear_trip and _apply_setpoint look at the state first: a RESET is ignored
   unless tripped, a setpoint refused out of range or a step too far.  The
   bypass is just written. *)
ApplyOperatorAction(w) ==
    /\ at[w] = "apply"
    /\ \/ /\ given[w].action = "RESET"
          /\ Go(w, IF trip_state = "TRIPPED" THEN "clear" ELSE "idle")
          /\ UNCHANGED bypass
       \/ /\ given[w].action \in {"BYPASS_ON", "BYPASS_OFF"}
          /\ bypass' = (given[w].action = "BYPASS_ON")
          /\ Go(w, "idle")
       \/ /\ given[w].action = "SET_SETPOINT"
          /\ Go(w, IF InRange(given[w].value) /\ SmallStep(given[w].value)
                   THEN "move" ELSE "idle")
          /\ UNCHANGED bypass
    /\ UNCHANGED <<trip_state, trip_setpoint, operator_nonces, links,
                   dispatched, given, since, order, rest, world, history>>

ClearTrip(w) ==
    /\ at[w] = "clear"
    /\ trip_state' = "HEALTHY"
    /\ reported' = FALSE
    /\ order' = [order EXCEPT ![w] = "RESET"]
    /\ Go(w, "collect")
    /\ UNCHANGED <<bypass, trip_setpoint, operator_nonces, links, dispatched,
                   given, since, rest, world, applied, raced, moves, late>>

MoveSetpoint(w) ==
    /\ at[w] = "move"
    /\ trip_setpoint' = given[w].value
    /\ moves' = moves + 1
    /\ Go(w, "idle")
    /\ UNCHANGED <<trip_state, bypass, operator_nonces, links, dispatched,
                   given, since, order, rest, world, applied, raced, reported,
                   late>>

-----------------------------------------------------------------------------
Tick ==
    /\ clock < MaxClock
    /\ clock' = clock + 1
    /\ UNCHANGED <<solver, operator_nonces, links, dispatched, threads,
                   restarts, network, history>>

(* The process dies and starts again: its threads are gone, CentralServer() is
   built anew, and nothing it held was on disk. *)
Restart ==
    /\ restarts < MaxRestarts
    /\ restarts' = restarts + 1
    /\ trip_state' = "HEALTHY"
    /\ bypass' = FALSE
    /\ trip_setpoint' = TRIP_SETPOINT_C
    /\ operator_nonces' = {}
    /\ actuator_keys' = {} /\ agreed' = {} /\ over_mqtt' = {}
    /\ dispatched' = [a \in Actuators |-> "none"]
    /\ at' = [w \in Workers |-> "idle"]
    /\ given' = [w \in Workers |-> NoCommand]
    /\ since' = [w \in Workers |-> 0]
    /\ order' = [w \in Workers |-> "none"]
    /\ rest' = [w \in Workers |-> {}]
    /\ moves' = 0
    /\ reported' = FALSE
    /\ late' = {}
    /\ UNCHANGED <<clock, network, applied, raced>>

(* An event starts a thread ... *)
Event(w) ==
    \/ \E t \in Temperatures, lane \in BOOLEAN : ProcessTelemetry(w, t, lane)
    \/ ManualTrip(w)
    \/ \E valve \in {"OPEN", "CLOSED"} : RelayActuatorUi(w, valve)
    \/ \E c \in network, intact \in BOOLEAN, f \in 0 .. Ticks - 1 :
          HandleOperatorCommand(w, c, intact, f)
    \/ \E a \in Actuators, tr \in Transports, same \in BOOLEAN :
          ActuatorHandshake(w, a, tr, same)

(* ... and the thread goes on. *)
Step(w) ==
    \/ LatchTrip(w) \/ SyncActuatorState(w) \/ SendActuatorCommand(w)
    \/ \E a \in Actuators : Dispatch(w, a)
    \/ VerifyAndBurn(w) \/ ApplyOperatorAction(w)
    \/ ClearTrip(w) \/ MoveSetpoint(w)

Next ==
    \/ \E w \in Workers : Event(w) \/ Step(w)
    \/ \E id \in Signers, action \in OPERATOR_ACTIONS,
          value \in Values \union {NoValue}, n \in Nonces, d \in Drift :
             BuildCommand(id, action, value, n, d)
    \/ \E a \in Actuators : ActuatorDisconnect(a)
    \/ Tick
    \/ Restart

Spec == Init /\ [][Next]_vars
-----------------------------------------------------------------------------
(* Properties. *)

(* The solver implements the abstract latch: once tripped, the plant stays
   tripped until a thread resets it that verified a signed command no thread
   had consumed when it looked, and consumed it (README.md:96-98), or the
   process is restarted, whatever telemetry, reports, garbled or repeated
   commands come in between.  A thread resets it once. *)
Latch == INSTANCE TripLatch WITH
            Tickets <- Nonces,
            Threads <- Workers,
            latched <- (trip_state = "TRIPPED"),
            spent   <- operator_nonces,
            held    <- [w \in Workers |-> IF at[w] \in Holding
                                         THEN {given[w].nonce} ELSE {}]
LatchSpec == Latch!Spec

Rest == \A w \in Workers : at[w] = "idle"

(* With no handler running, an actuator that shares a key with the server was
   last told what the latch says: a trip and a handshake that cross miss
   nobody, for one sets the latch before it looks for sessions and the other
   stores its session before it looks at the latch.  The exceptions are named:
   a command that left late, when the latch had moved on since the thread
   looked (server.py:375-378), an actuator on MQTT not told anything yet, and a
   trip the actuator reported itself. *)
CommandInStep ==
    Rest => \A a \in agreed :
               \/ dispatched[a] = SyncCommand
               \/ a \in late
               \/ a \in over_mqtt /\ dispatched[a] = "none"
               \/ trip_state = "TRIPPED" /\ reported

(* A signed command acts at most once in the life of the process
   (server.py:55-57), and again only after a restart, once for each: unless two
   copies of it both came past the look at the burnt nonces before either burnt
   its own (server.py:865, 877). *)
SingleUse == \A n \in Nonces \ raced : applied[n].count <= restarts + 1

(* The timestamp bounds how long a captured command stays valid
   (identity.py:66-68), over restarts that forget its nonce too: two copies
   that act passed the clock within twice the skew of each other, and the
   second the signature leaves open (identity.py:76, server.py:858). *)
ReplayWindow ==
    \A n \in Nonces : Distance(applied[n].first, applied[n].last)
                         < (2 * OPERATOR_MAX_SKEW_S + 1) * Ticks

(* A nonce is only ever burnt by the command that was signed with it: a
   garbled copy arriving first cannot spend it (server.py:875-876). *)
GarbageBurnsNothing == \A n \in operator_nonces : applied[n].count > 0

(* However many signed changes are accepted, and though one may be checked
   against a setpoint that another has moved since, the trip setpoint stays in
   the safe range and within one step per change of where it started
   (config.py:62-67): no sequence of legal commands jumps. *)
SetpointWalk ==
    /\ SETPOINT_MIN_C <= trip_setpoint /\ trip_setpoint <= SETPOINT_MAX_C
    /\ Distance(trip_setpoint, TRIP_SETPOINT_C) <= moves * SETPOINT_MAX_STEP_C
=============================================================================
