---------------------------- MODULE FinalElement ----------------------------
(***************************************************************************)
(* XV-101: the actuator node of app/nodes/actuator.py.  It holds the       *)
(* emergency shutdown valve, obeys sealed commands, counts sealed          *)
(* heartbeats, and closes the valve by itself when they stop.              *)
(*                                                                         *)
(* Alone, the module lets any packet arrive at any moment, sealed under    *)
(* any key, fresh or repeated: what it guarantees, it guarantees whatever  *)
(* the network does.  SafetyLoop puts a server and a link around it.       *)
(*                                                                         *)
(* The node opens the bytes of a nonce and remembers its hex text, and     *)
(* bytes.fromhex takes capitals and blanks: a copy may be spelt as none    *)
(* before it was ("respelt"), and no later copy meets what it leaves in    *)
(* the store.                                                              *)
(*                                                                         *)
(* Handlers run one after another here (ElementThreads has their steps).   *)
(*                                                                         *)
(* Time passes in seconds.  Every watchdog loop sleeps one second between  *)
(* passes, so each runs once between two seconds ("due" counts those that  *)
(* have not run yet).                                                      *)
(***************************************************************************)
EXTENDS Integers

CONSTANTS
    Keys,                   \* session keys
    NoKey,                  \* key_b is None
    Nonces,                 \* nonces of sealed packets
    HEARTBEAT_TIMEOUT_S,
    MaxSeq,                 \* bound: heartbeats ever sealed
    MaxWatchdogs            \* bound: watchdog loops running at once

ASSUME FinalElementAssumption ==
    /\ NoKey \notin Keys
    /\ HEARTBEAT_TIMEOUT_S \in Nat \ {0}
    /\ MaxSeq \in Nat
    /\ MaxWatchdogs \in Nat \ {0}

VARIABLES
    connected,              \* sio.connected
    key_b,
    valve_state,            \* "OPEN" or "CLOSED"
    last_heartbeat,         \* seconds since then, or Never
    last_seq,
    tripped_by_watchdog,
    seen_command_nonces,
    watchdogs,              \* watchdog_loop tasks alive
    due,                    \* those still to run in this second
    obeyed,                 \* history: times each command, spelt as it was
                            \*   sealed, moved the valve
    heard,                  \* history: times each beat was counted
    unheard,                \* history: seconds since a beat was first heard,
                            \*   or since the session began, or Never
    exposed                 \* history: seconds the valve has now stayed OPEN
                            \*   with nothing heard for too long, 2 for more

counters == <<obeyed, heard, unheard, exposed>>
node == <<key_b, valve_state, last_heartbeat, last_seq, tripped_by_watchdog,
          seen_command_nonces, counters>>
tasks == <<watchdogs, due>>
elementVars == <<connected, node, tasks>>

-----------------------------------------------------------------------------
Never == -1

(* Ages past the timeout look alike. *)
AgeCap == HEARTBEAT_TIMEOUT_S + 1

Packet == [command : {"TRIP", "RESET", "HEARTBEAT"}, key : Keys,
           nonce : Nonces, seq : 0 .. MaxSeq, respelt : BOOLEAN]

ElementTypeOK ==
    /\ connected \in BOOLEAN
    /\ key_b \in Keys \union {NoKey}
    /\ valve_state \in {"OPEN", "CLOSED"}
    /\ last_heartbeat \in Never .. AgeCap
    /\ last_seq \in 0 .. MaxSeq
    /\ tripped_by_watchdog \in BOOLEAN
    /\ seen_command_nonces \subseteq Nonces
    /\ watchdogs \in 0 .. MaxWatchdogs
    /\ due \in 0 .. MaxWatchdogs
    /\ obeyed \in [Nonces -> 0 .. 2]
    /\ heard \in [0 .. MaxSeq -> 0 .. 2]
    /\ unheard \in Never .. AgeCap
    /\ exposed \in 0 .. 2

(* SimulatedActuatorNode(): a process that just started holds the valve OPEN
   and has no deadline yet. *)
ElementInit ==
    /\ connected = FALSE
    /\ key_b = NoKey
    /\ valve_state = "OPEN"
    /\ last_heartbeat = Never
    /\ last_seq = 0
    /\ tripped_by_watchdog = FALSE
    /\ seen_command_nonces = {}
    /\ watchdogs = 0
    /\ due = 0
    /\ obeyed = [n \in Nonces |-> 0]
    /\ heard = [s \in 0 .. MaxSeq |-> 0]
    /\ unheard = Never
    /\ exposed = 0

Once(k) == IF k = 0 THEN 1 ELSE 2       \* one more, 2 for many

-----------------------------------------------------------------------------
(* Handshake. *)

(* on_public_key: the new key replaces the old one before the server has
   accepted anything. *)
EstablishSession(key) ==
    /\ key_b' = key
    /\ UNCHANGED <<connected, valve_state, last_heartbeat, last_seq,
                   tripped_by_watchdog, seen_command_nonces, counters, tasks>>

(* With a bug: the deadline is left to the first beat. *)
SeedNothing == last_heartbeat

SeedDeadline == 0

(* on_established: seeds the deadline and starts one more watchdog; last_seq
   and the watchdogs already running are left alone. The server answers a
   ciphertext, so the key is there. *)
OnEstablished ==
    /\ key_b # NoKey
    /\ watchdogs < MaxWatchdogs
    /\ last_heartbeat' = SeedDeadline
    /\ watchdogs' = watchdogs + 1
    /\ unheard' = 0
    /\ exposed' = 0
    /\ UNCHANGED <<connected, key_b, valve_state, last_seq,
                   tripped_by_watchdog, seen_command_nonces, due, obeyed,
                   heard>>

-----------------------------------------------------------------------------
(* Commands. *)

(* The packet opens under the session key, and the text of its nonce was not
   seen before. *)
Obeyable(p) ==
    /\ key_b # NoKey
    /\ p.key = key_b
    /\ p.respelt \/ p.nonce \notin seen_command_nonces

(* With a bug: the nonce store is looked at but never filled. *)
RememberNothing(p) == seen_command_nonces

Remember(p) == IF p.respelt THEN seen_command_nonces
               ELSE seen_command_nonces \union {p.nonce}

FlagAfter(p) == IF p.command = "RESET" THEN FALSE ELSE tripped_by_watchdog

ValveAfter(p) ==
    IF p.command = "TRIP" THEN "CLOSED"
    ELSE IF p.command = "RESET" THEN "OPEN"
    ELSE valve_state

(* process_command: a packet under another key fails its tag, a repeated one
   is refused, and an unknown command spends its nonce and moves nothing. *)
ProcessCommand(p) ==
    IF Obeyable(p)
    THEN /\ seen_command_nonces' = Remember(p)
         /\ valve_state' = ValveAfter(p)
         /\ tripped_by_watchdog' = FlagAfter(p)
         /\ obeyed' = IF p.command = "HEARTBEAT" \/ p.respelt THEN obeyed
                      ELSE [obeyed EXCEPT ![p.nonce] = Once(@)]
         /\ exposed' = IF p.command = "TRIP" THEN 0 ELSE exposed
         /\ UNCHANGED <<connected, key_b, last_heartbeat, last_seq, heard,
                        unheard, tasks>>
    ELSE UNCHANGED elementVars

-----------------------------------------------------------------------------
(* Heartbeats. *)

(* With a bug: every second beat is taken for a repeated one. *)
CountsFromNext(p) ==
    /\ key_b # NoKey
    /\ p.key = key_b
    /\ p.command = "HEARTBEAT"
    /\ p.seq > last_seq + 1

Counts(p) ==
    /\ key_b # NoKey
    /\ p.key = key_b
    /\ p.command = "HEARTBEAT"
    /\ p.seq > last_seq

(* accept_heartbeat. *)
AcceptHeartbeat(p) ==
    IF Counts(p)
    THEN /\ last_seq' = p.seq
         /\ last_heartbeat' = 0
         /\ heard' = [heard EXCEPT ![p.seq] = Once(@)]
         /\ unheard' = IF heard[p.seq] = 0 THEN 0 ELSE unheard
         /\ UNCHANGED <<connected, key_b, valve_state, tripped_by_watchdog,
                        seen_command_nonces, obeyed, exposed, tasks>>
    ELSE UNCHANGED elementVars

-----------------------------------------------------------------------------
(* The dead-man watchdog. *)

HeartbeatOverdue ==
    last_heartbeat # Never /\ last_heartbeat > HEARTBEAT_TIMEOUT_S

(* With a bug: the deadline is only looked at before the first RESET. *)
TripsBeforeAnyCommand ==
    /\ key_b # NoKey
    /\ ~tripped_by_watchdog
    /\ HeartbeatOverdue
    /\ seen_command_nonces = {}

WatchdogTrips ==
    /\ key_b # NoKey
    /\ ~tripped_by_watchdog
    /\ HeartbeatOverdue

(* One turn of watchdog_loop: the body, then "while sio.connected". *)
WatchdogPass ==
    /\ due > 0
    /\ due' = due - 1
    /\ watchdogs' = IF connected THEN watchdogs ELSE watchdogs - 1
    /\ IF WatchdogTrips
       THEN /\ tripped_by_watchdog' = TRUE
            /\ valve_state' = "CLOSED"
            /\ exposed' = 0
       ELSE UNCHANGED <<tripped_by_watchdog, valve_state, exposed>>
    /\ UNCHANGED <<connected, key_b, last_heartbeat, last_seq,
                   seen_command_nonces, obeyed, heard, unheard>>

TooLongUnheard == unheard # Never /\ unheard > HEARTBEAT_TIMEOUT_S

Older(age) == IF age \in {Never, AgeCap} THEN age ELSE age + 1

(* A second passes once every watchdog has run. *)
Second ==
    /\ due = 0
    /\ due' = watchdogs
    /\ last_heartbeat' = Older(last_heartbeat)
    /\ unheard' = Older(unheard)
    /\ exposed' = IF valve_state = "OPEN" /\ TooLongUnheard
                  THEN Once(exposed) ELSE 0
    /\ UNCHANGED <<connected, key_b, valve_state, last_seq,
                   tripped_by_watchdog, seen_command_nonces, watchdogs,
                   obeyed, heard>>

(* The Socket.IO client gains or loses its connection. *)
SetConnected(value) ==
    /\ connected' = value
    /\ UNCHANGED <<node, tasks>>

-----------------------------------------------------------------------------
ElementNext ==
    \/ \E k \in Keys : EstablishSession(k)
    \/ OnEstablished
    \/ \E p \in Packet : ProcessCommand(p) \/ AcceptHeartbeat(p)
    \/ WatchdogPass
    \/ Second
    \/ SetConnected(~connected)

ElementSpec == ElementInit /\ [][ElementNext]_elementVars

-----------------------------------------------------------------------------
(* Properties. *)

(* A RESET and the watchdog write the valve and the flag in two places: the
   flag never survives with the valve OPEN, or the watchdog would be blind
   from then on (actuator.py:81-85, 222). *)
WatchdogNotBlind == tripped_by_watchdog => valve_state = "CLOSED"

(* "a genuine command is single-use" (actuator.py:70-71), as far as the code
   goes: spelt as it was sealed no command moves the valve twice, however it is
   replayed and across sessions.  Spelt anew it does: the set compares text
   (actuator.py:73), AES-GCM the bytes (64). *)
ObeyedOnce == \A n \in Nonces : obeyed[n] <= 1

(* "A replayed heartbeat must not be able to hold the watchdog open"
   (actuator.py:95-97): no beat is counted twice, in this session or a later
   one. *)
BeatCountedOnce == \A s \in 0 .. MaxSeq : heard[s] <= 1

(* While a watchdog is alive the valve is never OPEN through two of its passes
   with nothing heard for too long, whatever is replayed to it: a RESET may
   reopen it, and the next pass closes it (actuator.py:81-83, 216-218). *)
WatchedValveCloses == watchdogs > 0 => exposed <= 1
=============================================================================
