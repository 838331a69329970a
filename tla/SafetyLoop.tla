----------------------------- MODULE SafetyLoop -----------------------------
(***************************************************************************)
(* The safety loop: the logic solver of app/server.py and the actuator     *)
(* node of app/nodes/actuator.py (module FinalElement) over one Socket.IO  *)
(* connection at a time, with what the server decides, what it sends and   *)
(* what the valve does kept apart.                                         *)
(*                                                                         *)
(* Signed RESETs are taken as given here (module LogicSolver says which    *)
(* are accepted).  A connection is its number: it is the Socket.IO sid and *)
(* names the session key agreed over it.                                   *)
(***************************************************************************)
EXTENDS FinalElement, Sequences, SequencesExt

CONSTANTS
    HEARTBEAT_PERIOD_S,
    PingTimeout,            \* seconds until a dead peer is noticed
    MaxConnections,         \* bound: connections ever made
    MaxCommands,            \* bound: the commands of any setting; a handshake
                            \*   seals one more
    MaxCuts,                \* bound: times the network falls silent
    MaxDownlink,            \* bound: packets replayed while others wait, or
                            \*   answers to them
    Settings,               \* [faults, waits, commands, seconds]: what may go
                            \*   wrong, whether a RESET is only signed once
                            \*   all is quiet, the bound on commands (no trip
                            \*   or reset once as many were sealed), and the
                            \*   bound on the seconds of the run
    Prompt                  \* a healthy link delivers within a second

ASSUME SafetyLoopAssumption ==
    /\ MaxConnections \in Nat /\ MaxCommands \in Nat
    /\ Keys = 1 .. MaxConnections /\ NoKey = 0
    /\ Nonces = 0 .. MaxCommands + MaxConnections
    /\ HEARTBEAT_PERIOD_S \in Nat \ {0}
    /\ HEARTBEAT_PERIOD_S < HEARTBEAT_TIMEOUT_S
    /\ PingTimeout \in Nat /\ PingTimeout > HEARTBEAT_TIMEOUT_S + 1
    /\ Settings \subseteq
          [faults : SUBSET {"cut", "sever", "crash", "power", "replay",
                            "inject"},
           waits : BOOLEAN, commands : 0 .. MaxCommands, seconds : Nat]

VARIABLES
    setting,                \* the one of Settings this behaviour runs in
    alive,                  \* the server process runs
    trip_state,
    heartbeat_seq,
    severed,                \* time.time() < heartbeat_severed_until
    session,                \* the sid in actuator_keys, 0 for none
    outbox,                 \* commands decided and not yet sealed and sent
    last_command_packet,
    sealed,                 \* commands sealed so far: their nonces
    beat_timer,             \* seconds to the next beat, Never before the
                            \*   first actuator handshake
    conn,                   \* the latest connection
    served,                 \* the server's end of it is open
    linked,                 \* the network carries packets
    silent,                 \* seconds it has not
    cuts,
    downlink, uplink,       \* events in flight on that connection, in the
                            \*   order sent: to the node [event, packet], to
                            \*   the server a name, or the position reported
    stopped,                \* the node was refused and ended
    clock,
    demand,                 \* history: the solver itself latched the trip
    late,                   \* history: the last command sealed was no longer
                            \*   what the latch called for
    missed,                 \* history: a beat never counted was refused
    deserted                \* history: since its last handshake the node was
                            \*   told that the server's end is closed

loopHistory == <<demand, late, missed, deserted>>
solver == <<trip_state, severed, last_command_packet, sealed>>
beats == <<heartbeat_seq, beat_timer>>
link == <<conn, served, linked, silent, cuts>>
vars == <<elementVars, alive, solver, beats, session, outbox, link,
          downlink, uplink, stopped, clock, loopHistory>>

-----------------------------------------------------------------------------
NoPacket == [command |-> "NONE", key |-> NoKey, nonce |-> 0, seq |-> 0,
             respelt |-> FALSE]
Command(c) == [command |-> c, key |-> session, nonce |-> sealed + 1, seq |-> 0,
               respelt |-> FALSE]
Beat(s) == [command |-> "HEARTBEAT", key |-> session, nonce |-> 0, seq |-> s,
            respelt |-> FALSE]
Event(name, p) == [event |-> name, packet |-> p]
Respelt(p) == [p EXCEPT !.respelt = TRUE]

InitServer ==
    /\ trip_state = "HEALTHY"
    /\ heartbeat_seq = 0
    /\ severed = FALSE
    /\ session = 0
    /\ outbox = <<>>
    /\ last_command_packet = NoPacket
    /\ beat_timer = Never

Init ==
    /\ setting \in Settings
    /\ ElementInit
    /\ InitServer
    /\ alive = TRUE
    /\ sealed = 0
    /\ conn = 0 /\ served = FALSE
    /\ linked = TRUE /\ silent = 0 /\ cuts = 0
    /\ downlink = <<>> /\ uplink = <<>>
    /\ stopped = FALSE
    /\ clock = 0
    /\ demand = FALSE /\ late = FALSE /\ missed = FALSE /\ deserted = FALSE

-----------------------------------------------------------------------------
(* The link.  Within a connection nothing is lost; what is in flight when    *)
(* the connection ends is.                                                   *)

(* The node takes events in the order they were sent (its threads are the
   matter of ElementThreads); the server takes them in any order, a thread for
   each, and what a handler decides leaves in a step of its own. *)
First(queue) == {1} \intersect DOMAIN queue

Received == DOMAIN uplink

(* emit(..., to=sid) reaches the node only over the live connection. *)
ToNode(sid, events) == IF sid = conn /\ served THEN downlink \o events
                       ELSE downlink

FromNode(event) == IF connected THEN Append(uplink, event) ELSE uplink

(* The client connects, or its reconnection loop succeeds; on_connect says
   hello at once. *)
OnConnect ==
    /\ ~connected /\ ~stopped /\ alive /\ linked
    /\ conn < MaxConnections
    /\ SetConnected(TRUE)
    /\ conn' = conn + 1
    /\ served' = TRUE
    /\ downlink' = <<>>
    /\ uplink' = <<"pqc_hello">>
    /\ UNCHANGED <<alive, solver, beats, session, outbox, linked, silent, cuts,
                   stopped, clock, loopHistory>>

(* The client notices that the connection is gone: at once when the peer
   closed it, after a ping timeout when the network fell silent. *)
ClientNoticesClose ==
    /\ connected
    /\ \/ linked /\ ~served
       \/ silent = PingTimeout
    /\ SetConnected(FALSE)
    /\ deserted' = (deserted \/ (linked /\ ~served))
    /\ UNCHANGED <<alive, solver, beats, session, outbox, link,
                   downlink, uplink, stopped, clock, demand, late, missed>>

(* handle_disconnect: forget(sid) for the current connection ... *)
OnDisconnect ==
    /\ alive /\ served
    /\ \/ linked /\ ~connected
       \/ silent = PingTimeout
    /\ served' = FALSE
    /\ session' = IF session = conn THEN 0 ELSE session
    /\ UNCHANGED <<elementVars, alive, solver, beats, outbox, conn, linked,
                   silent, cuts, downlink, uplink, stopped, clock, loopHistory>>

(* ... or for an earlier one, noticed only now. *)
OnLateDisconnect ==
    /\ alive /\ session \notin {0, conn}
    /\ session' = 0
    /\ UNCHANGED <<elementVars, alive, solver, beats, outbox, link,
                   downlink, uplink, stopped, clock, loopHistory>>

-----------------------------------------------------------------------------
(* The server's handlers. *)

Receive(event, i) ==
    /\ alive /\ served /\ linked
    /\ i \in Received
    /\ uplink[i] = event
    /\ uplink' = RemoveAt(uplink, i)

(* handle_pqc_hello: a handshake is pending on this connection from here to
   the ciphertext that answers it. *)
HandleHello ==
    /\ \E i \in DOMAIN uplink : Receive("pqc_hello", i)
    /\ downlink' = ToNode(conn, <<Event("pqc_public_key", NoPacket)>>)
    /\ UNCHANGED <<elementVars, alive, solver, beats, session, outbox, link,
                   stopped, clock, loopHistory>>

(* With a bug: every handshake reopens the valve. *)
SyncReopens == "RESET"

SyncCommand == IF trip_state = "TRIPPED" THEN "TRIP" ELSE "RESET"

(* With a bug: the valve is not brought into step after a handshake. *)
AfterHandshakeSilent == outbox

AfterHandshake == Append(outbox, SyncCommand)

(* With a bug: the heartbeat is not started by a handshake. *)
HeartbeatNotStarted == beat_timer

HeartbeatStarted == IF beat_timer = Never THEN HEARTBEAT_PERIOD_S
                    ELSE beat_timer

(* handle_pqc_encapsulation: refused while another connection holds the
   identity; accepted, it starts the heartbeat once and ends in
   sync_actuator_state. *)
HandleEncapsulation ==
    /\ \E i \in DOMAIN uplink : Receive("pqc_encapsulation", i)
    /\ IF session \in {0, conn}
       THEN /\ session' = conn
            /\ beat_timer' = HeartbeatStarted
            /\ downlink' = ToNode(conn, <<Event("pqc_established", NoPacket)>>)
            /\ outbox' = AfterHandshake
       ELSE /\ downlink' = ToNode(conn, <<Event("pqc_refused", NoPacket)>>)
            /\ UNCHANGED <<session, beat_timer, outbox>>
    /\ UNCHANGED <<elementVars, alive, solver, heartbeat_seq, link, stopped,
                   clock, loopHistory>>

(* send_actuator_command and _dispatch_to_actuator: one decided command is
   sealed under the session of that moment, if there is one, and sent. *)
Dispatch ==
    /\ alive
    /\ \E i \in DOMAIN outbox :
          /\ outbox' = RemoveAt(outbox, i)
          /\ IF session = 0
             THEN UNCHANGED <<sealed, last_command_packet, late, downlink>>
             ELSE /\ sealed' = sealed + 1
                  /\ late' = (outbox[i] # SyncCommand)
                  /\ last_command_packet' = Command(outbox[i])
                  /\ downlink' = ToNode(session,
                        <<Event("execute_actuator_command",
                                Command(outbox[i]))>>)
    /\ UNCHANGED <<elementVars, alive, trip_state, severed, beats, session,
                   link, uplink, stopped, clock, demand, missed, deserted>>

CommandsLeft == sealed + Len(outbox) < setting.commands

(* decide_trip on a reading at or over the setpoint, or handle_manual_trip. *)
Trip ==
    /\ alive /\ CommandsLeft
    /\ trip_state = "HEALTHY"
    /\ trip_state' = "TRIPPED"
    /\ outbox' = IF session # 0 THEN Append(outbox, "TRIP") ELSE outbox
    /\ demand' = TRUE
    /\ UNCHANGED <<elementVars, alive, severed, last_command_packet, sealed,
                   beats, session, link, downlink, uplink, stopped,
                   clock, late, missed, deserted>>

(* Nothing is in flight between the server and a node in session. *)
Quiet ==
    /\ alive /\ connected /\ served /\ linked
    /\ session = conn /\ key_b = conn
    /\ outbox = <<>> /\ downlink = <<>> /\ uplink = <<>>

(* clear_trip, reached by a signed RESET. *)
ClearTrip ==
    /\ alive /\ CommandsLeft
    /\ setting.waits => Quiet
    /\ trip_state = "TRIPPED"
    /\ trip_state' = "HEALTHY"
    /\ outbox' = Append(outbox, "RESET")
    /\ demand' = FALSE
    /\ UNCHANGED <<elementVars, alive, severed, last_command_packet, sealed,
                   beats, session, link, downlink, uplink, stopped,
                   clock, late, missed, deserted>>

(* With a bug: a report is never believed. *)
LatchAfterIgnored(valve) == trip_state

LatchAfter(valve) == IF valve = "CLOSED" THEN "TRIPPED" ELSE trip_state

(* handle_relay_actuator_ui: a CLOSED the server did not expect latches the
   trip; an OPEN it did not expect is logged. *)
HandleReport ==
    \E valve \in {"OPEN", "CLOSED"} :
       /\ \E i \in DOMAIN uplink : Receive(valve, i)
       /\ trip_state' = LatchAfter(valve)
       /\ UNCHANGED <<elementVars, alive, severed, last_command_packet, sealed,
                      beats, session, outbox, link, downlink, stopped,
                      clock, loopHistory>>

(* One turn of heartbeat_loop. *)
HeartbeatPass ==
    /\ alive /\ beat_timer = 0
    /\ beat_timer' = HEARTBEAT_PERIOD_S
    /\ IF severed \/ session = 0
       THEN UNCHANGED <<heartbeat_seq, downlink>>
       ELSE /\ heartbeat_seq < MaxSeq
            /\ heartbeat_seq' = heartbeat_seq + 1
            /\ downlink' = ToNode(session, <<Event("sis_heartbeat",
                                                   Beat(heartbeat_seq + 1))>>)
    /\ UNCHANGED <<elementVars, alive, solver, session, outbox, link,
                   uplink, stopped, clock, loopHistory>>

-----------------------------------------------------------------------------
(* The node's handlers. *)

Handle(name, i) ==
    /\ connected /\ linked
    /\ i \in First(downlink)
    /\ downlink[i].event = name
    /\ downlink' = RemoveAt(downlink, i)

serverSide == <<alive, solver, beats, session, outbox, link>>

OnPublicKey ==
    /\ \E i \in DOMAIN downlink : Handle("pqc_public_key", i)
    /\ EstablishSession(conn)
    /\ uplink' = FromNode("pqc_encapsulation")
    /\ UNCHANGED <<serverSide, stopped, clock, loopHistory>>

OnSessionEstablished ==
    /\ \E i \in DOMAIN downlink : Handle("pqc_established", i)
    /\ OnEstablished
    /\ deserted' = FALSE
    /\ UNCHANGED <<serverSide, uplink, stopped, clock, demand, late, missed>>

(* on_refused: the node disconnects by itself, which ends reconnection and,
   through sio.wait, the process with its threads. *)
OnRefused ==
    /\ \E i \in DOMAIN downlink : Handle("pqc_refused", i)
    /\ stopped' = TRUE
    /\ connected' = FALSE
    /\ watchdogs' = 0 /\ due' = 0
    /\ UNCHANGED <<node, serverSide, uplink, clock, loopHistory>>

(* on_actuator_command: a command that was carried out is reported. *)
OnActuatorCommand ==
    /\ \E i \in DOMAIN downlink :
          /\ Handle("execute_actuator_command", i)
          /\ ProcessCommand(downlink[i].packet)
          /\ uplink' = IF Obeyable(downlink[i].packet)
                       THEN FromNode(ValveAfter(downlink[i].packet))
                       ELSE uplink
    /\ UNCHANGED <<serverSide, stopped, clock, loopHistory>>

OnHeartbeat ==
    /\ \E i \in DOMAIN downlink :
          /\ Handle("sis_heartbeat", i)
          /\ AcceptHeartbeat(downlink[i].packet)
          /\ missed' = \/ missed
                       \/ /\ downlink[i].packet.key = key_b
                          /\ ~Counts(downlink[i].packet)
    /\ UNCHANGED <<serverSide, uplink, stopped, clock, demand, late,
                   deserted>>

(* A watchdog pass; a trip is reported. *)
Watchdog ==
    /\ WatchdogPass
    /\ uplink' = IF WatchdogTrips THEN FromNode("CLOSED") ELSE uplink
    /\ UNCHANGED <<serverSide, downlink, stopped, clock, loopHistory>>

-----------------------------------------------------------------------------
(* Time and faults. *)

Delivered == uplink = <<>> /\ downlink = <<>> /\ outbox = <<>>

(* A second: every loop that is due has run, and on a link that keeps up
   every event has been handled. *)
Tick ==
    /\ clock < setting.seconds
    /\ clock' = clock + 1
    /\ Second
    /\ beat_timer # 0
    /\ (Prompt /\ linked /\ connected /\ served) => Delivered
    /\ beat_timer' = IF beat_timer = Never THEN Never ELSE beat_timer - 1
    /\ silent' = IF linked \/ silent = PingTimeout THEN silent ELSE silent + 1
    /\ UNCHANGED <<alive, solver, heartbeat_seq, session, outbox,
                   conn, served, linked, cuts, downlink, uplink, stopped,
                   loopHistory>>

(* The cable is pulled: neither end is told. *)
Cut ==
    /\ "cut" \in setting.faults /\ linked /\ cuts < MaxCuts
    /\ conn < MaxConnections
    /\ linked' = FALSE
    /\ cuts' = cuts + 1
    /\ UNCHANGED <<elementVars, alive, solver, beats, session, outbox,
                   conn, served, silent, downlink, uplink, stopped, clock,
                   loopHistory>>

Heal ==
    /\ ~linked
    /\ linked' = TRUE
    /\ silent' = 0
    /\ UNCHANGED <<elementVars, alive, solver, beats, session, outbox,
                   conn, served, cuts, downlink, uplink, stopped, clock,
                   loopHistory>>

(* _attack_sever_heartbeat, and the end of the time it asked for. *)
Sever ==
    /\ "sever" \in setting.faults /\ alive
    /\ severed' = ~severed
    /\ UNCHANGED <<elementVars, alive, trip_state, last_command_packet, sealed,
                   beats, session, outbox, link, downlink, uplink,
                   stopped, clock, loopHistory>>

(* _attack_capture_and_replay: the last packet again, to whoever holds the
   session now. *)
Replay ==
    /\ "replay" \in setting.faults /\ alive
    /\ last_command_packet # NoPacket /\ session # 0
    /\ Len(downlink) < MaxDownlink
    /\ downlink' = ToNode(session, <<Event("execute_actuator_command",
                                           last_command_packet)>>)
    /\ UNCHANGED <<elementVars, alive, solver, beats, session, outbox,
                   link, uplink, stopped, clock, loopHistory>>

(* mitm_inject delivers what it is given (deliver_raw_to_actuators): here the
   last packet, spelt anew. *)
Inject ==
    /\ "inject" \in setting.faults /\ alive
    /\ last_command_packet # NoPacket /\ session # 0
    /\ Len(downlink) < MaxDownlink /\ Len(uplink) < MaxDownlink
    /\ downlink' = ToNode(session,
                      <<Event("execute_actuator_command",
                              Respelt(last_command_packet))>>)
    /\ UNCHANGED <<elementVars, alive, solver, beats, session, outbox,
                   link, uplink, stopped, clock, loopHistory>>

(* The server process dies; its host closes the connection. *)
Crash ==
    /\ "crash" \in setting.faults /\ alive
    /\ conn < MaxConnections
    /\ alive' = FALSE
    /\ served' = FALSE
    /\ trip_state' = "HEALTHY"
    /\ heartbeat_seq' = 0
    /\ severed' = FALSE
    /\ session' = 0
    /\ outbox' = <<>>
    /\ last_command_packet' = NoPacket
    /\ beat_timer' = Never
    /\ demand' = FALSE /\ late' = FALSE
    /\ UNCHANGED <<elementVars, sealed, conn, linked, silent, cuts, downlink,
                   uplink, stopped, clock, missed, deserted>>

Start ==
    /\ ~alive
    /\ alive' = TRUE
    /\ UNCHANGED <<elementVars, solver, beats, session, outbox, link,
                   downlink, uplink, stopped, clock, loopHistory>>

(* The node loses power and starts again; the server finds out later.  "obeyed"
   counts on over the lives of the node, the other histories are of one life. *)
PowerCycle ==
    /\ "power" \in setting.faults
    /\ conn \in 1 .. MaxConnections - 1
    /\ connected' = FALSE
    /\ key_b' = NoKey
    /\ valve_state' = "OPEN"
    /\ last_heartbeat' = Never
    /\ last_seq' = 0
    /\ tripped_by_watchdog' = FALSE
    /\ seen_command_nonces' = {}
    /\ watchdogs' = 0 /\ due' = 0
    /\ heard' = [s \in 0 .. MaxSeq |-> 0]
    /\ unheard' = Never /\ exposed' = 0
    /\ stopped' = FALSE
    /\ deserted' = FALSE
    /\ UNCHANGED <<obeyed, serverSide, downlink, uplink, clock,
                   demand, late, missed>>

-----------------------------------------------------------------------------
ServerHandler ==
    \/ OnDisconnect \/ OnLateDisconnect
    \/ HandleHello \/ HandleEncapsulation \/ HandleReport \/ HeartbeatPass

NodeHandler ==
    \/ OnConnect \/ ClientNoticesClose
    \/ OnPublicKey \/ OnSessionEstablished \/ OnRefused
    \/ OnActuatorCommand \/ OnHeartbeat \/ Watchdog

Environment ==
    \/ Trip \/ ClearTrip
    \/ Cut \/ Sever \/ Replay \/ Inject \/ Crash \/ PowerCycle

Next ==
    \/ ServerHandler \/ Dispatch \/ NodeHandler
    \/ Environment \/ Tick \/ Heal \/ Start

Spec == Init /\ [][Next /\ UNCHANGED setting]_<<vars, setting>>

(* Threads that have something to do run, a silent network comes back, and a
   dead server is started again. *)
FairSpec ==
    /\ Spec
    /\ WF_vars(ServerHandler) /\ WF_vars(Dispatch) /\ WF_vars(NodeHandler)
    /\ WF_vars(Heal) /\ WF_vars(Start)

-----------------------------------------------------------------------------
(* Properties. *)

(* Losing the network closes the valve (README.md:99-104): the valve never
   stays OPEN through two passes of the watchdog with nothing heard for too
   long.  The code does not keep this: the watchdog ends with its connection. *)
SilenceCloses == exposed <= 1

(* What the code does keep, whatever is cut, replayed, killed or delayed: the
   valve stays OPEN in silence only if the node was told, since its last
   handshake, that the server's end is closed ("while sio.connected",
   actuator.py:220).  A connection that just falls silent is given up after the
   watchdog has tripped. *)
SilenceClosesUnlessDeserted == exposed > 1 => deserted

(* With nothing in flight the server's latch and the valve agree, "XV-101 as
   the actuator holds it" (server.py:296), unless the last command was late:
   sync_actuator_state reads the latch (server.py:375) and sends (378) in a
   thread of its own, clear_trip (335-337) in another, and nothing keeps a trip
   from coming in between. *)
LatchAgreesInOrder ==
    Quiet /\ ~late => (valve_state = "CLOSED" <=> trip_state = "TRIPPED")

(* The half of it that needs no patience of anyone: with nothing in flight, a
   server that reports the plant HEALTHY has the valve OPEN. *)
HealthyMeansOpen == Quiet /\ trip_state = "HEALTHY" => valve_state = "OPEN"

(* Nothing is cut, severed, replayed or killed, and operators wait for quiet. *)
Calm == setting.faults \subseteq {"power"} /\ setting.waits

(* In calm it does hold, over trips, resets and power cycles. *)
CalmLatchAgrees == Calm => LatchAgreesInOrder

(* "Returns False for a beat we have already counted" (actuator.py:95), and
   for no other: while the server does not start again, a beat sealed for this
   session that was never counted is. *)
FreshBeatsCount == "crash" \notin setting.faults => ~missed

(* The watchdog trips only when something stopped the beats. *)
NoSpuriousTrip == Calm => ~tripped_by_watchdog

(* A trip the solver decided, and never reset, ends with the valve CLOSED for
   good, over lost links and reconnections (decide_trip, server.py:300-328, and
   sync_actuator_state), unless the node was turned away and gave up, a RESET
   was sent late, or packets come spelt anew. *)
DemandClosesValve ==
    "inject" \notin setting.faults =>
       (<>[](demand /\ ~stopped /\ ~late) => <>[](valve_state = "CLOSED"))
=============================================================================
