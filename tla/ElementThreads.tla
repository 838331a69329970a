--------------------------- MODULE ElementThreads ---------------------------
(***************************************************************************)
(* The actuator node of app/nodes/actuator.py one statement at a time.     *)
(* python-socketio runs every received event in a thread of its own and    *)
(* every watchdog_loop in another, and nothing locks the node: each thread *)
(* reads and writes its fields between the steps of the others.            *)
(* FinalElement takes each handler whole; this module says which of its    *)
(* guarantees survive without a lock.                                      *)
(*                                                                         *)
(* Every packet here opens under the session key; a packet that does not   *)
(* touches nothing.  The node opens the bytes of a nonce and remembers its *)
(* hex text: bytes.fromhex takes capitals and blanks, so one nonce has more *)
(* texts than can be used up, and a copy may always be spelt as none before *)
(* it was ("anew").  What such a copy leaves in the store no later copy    *)
(* meets, and it is left out.                                              *)
(***************************************************************************)
EXTENDS Naturals, FiniteSets

CONSTANTS
    Handlers,               \* threads that run received events
    Watchdogs,              \* watchdog_loop tasks
    Trips, Resets,          \* nonces of sealed TRIP and RESET commands
    MaxSeq                  \* bound: heartbeats ever sealed

ASSUME ElementThreadsAssumption ==
    /\ Trips \intersect Resets = {}
    /\ MaxSeq \in Nat
    /\ IsFiniteSet(Handlers)

VARIABLES
    valve_state,
    tripped_by_watchdog,
    seen_command_nonces,
    last_seq,
    overdue,                \* heartbeat_overdue()
    at,                     \* where each handler is
    packet,                 \* the nonce or the beat it was given
    anew,                   \* whether the nonce is spelt as none before
    watch,                  \* where each watchdog is
    obeyed                  \* history: times each command, spelt as it was
                            \*   sealed, moved the valve

fields == <<valve_state, tripped_by_watchdog, seen_command_nonces, last_seq,
            overdue>>
threads == <<at, packet, anew, watch>>
vars == <<fields, threads, obeyed>>

Nonces == Trips \union Resets
Beats == 1 .. MaxSeq
Idle == 0                   \* no packet

Steps == {"idle", "check", "remember", "act", "second", "seq", "count",
          "stamp"}

TypeOK ==
    /\ valve_state \in {"OPEN", "CLOSED"}
    /\ tripped_by_watchdog \in BOOLEAN
    /\ seen_command_nonces \subseteq Nonces
    /\ last_seq \in 0 .. MaxSeq
    /\ overdue \in BOOLEAN
    /\ at \in [Handlers -> Steps]
    /\ packet \in [Handlers -> Nonces \union Beats \union {Idle}]
    /\ anew \in [Handlers -> BOOLEAN]
    /\ \A h \in Handlers :
          /\ at[h] \in {"check", "remember", "act"} => packet[h] \in Nonces
          /\ at[h] = "second" => packet[h] \in Resets
          /\ at[h] \in {"seq", "count", "stamp"} => packet[h] \in Beats
    /\ watch \in [Watchdogs -> {"sleep", "late", "flag", "close"}]
    /\ obeyed \in [Nonces -> Nat]

Init ==
    /\ valve_state = "OPEN"
    /\ tripped_by_watchdog = FALSE
    /\ seen_command_nonces = {}
    /\ last_seq = 0
    /\ overdue = FALSE
    /\ at = [h \in Handlers |-> "idle"]
    /\ packet = [h \in Handlers |-> Idle]
    /\ anew = [h \in Handlers |-> FALSE]
    /\ watch = [w \in Watchdogs |-> "sleep"]
    /\ obeyed = [n \in Nonces |-> 0]

Step(h, from, to) == at[h] = from /\ at' = [at EXCEPT ![h] = to]

-----------------------------------------------------------------------------
(* process_command. *)

(* A command arrives, or a copy of one, in the spelling it was sealed with or
   another. *)
DeliverCommand(h, n, respelt) ==
    /\ Step(h, "idle", "check")
    /\ packet' = [packet EXCEPT ![h] = n]
    /\ anew' = [anew EXCEPT ![h] = respelt]
    /\ UNCHANGED <<fields, watch, obeyed>>

(* The text is looked up, not the bytes. *)
Known(h) == ~anew[h] /\ packet[h] \in seen_command_nonces

CheckNonce(h) ==
    /\ Step(h, "check", IF Known(h) THEN "idle" ELSE "remember")
    /\ UNCHANGED <<fields, packet, anew, watch, obeyed>>

(* With a bug: the nonce is forgotten. *)
RememberNothing(h) ==
    /\ Step(h, "remember", "act")
    /\ UNCHANGED <<fields, packet, anew, watch, obeyed>>

RememberNonce(h) ==
    /\ Step(h, "remember", "act")
    /\ seen_command_nonces' = IF anew[h] THEN seen_command_nonces
                              ELSE seen_command_nonces \union {packet[h]}
    /\ UNCHANGED <<valve_state, tripped_by_watchdog, last_seq, overdue, packet,
                   anew, watch, obeyed>>

Moves(h) == obeyed' = IF anew[h] THEN obeyed
                      ELSE [obeyed EXCEPT ![packet[h]] = @ + 1]

Close(h) ==
    /\ packet[h] \in Trips
    /\ Step(h, "act", "idle")
    /\ valve_state' = "CLOSED"
    /\ Moves(h)
    /\ UNCHANGED <<tripped_by_watchdog, seen_command_nonces, last_seq, overdue,
                   packet, anew, watch>>

(* A RESET writes two fields, one after the other. *)
OpenValve == valve_state' = "OPEN" /\ UNCHANGED tripped_by_watchdog
ClearFlag == tripped_by_watchdog' = FALSE /\ UNCHANGED valve_state

(* With a bug: the two writes of a RESET change places. *)
ResetSwapped(k) == IF k = 1 THEN ClearFlag ELSE OpenValve

ResetWrite(k) == IF k = 1 THEN OpenValve ELSE ClearFlag

ResetFirst(h) ==
    /\ packet[h] \in Resets
    /\ Step(h, "act", "second")
    /\ ResetWrite(1)
    /\ Moves(h)
    /\ UNCHANGED <<seen_command_nonces, last_seq, overdue, packet,
                   anew, watch>>

ResetSecond(h) ==
    /\ Step(h, "second", "idle")
    /\ ResetWrite(2)
    /\ UNCHANGED <<seen_command_nonces, last_seq, overdue, packet,
                   anew, watch, obeyed>>

-----------------------------------------------------------------------------
(* accept_heartbeat. *)

DeliverBeat(h, s) ==
    /\ Step(h, "idle", "seq")
    /\ packet' = [packet EXCEPT ![h] = s]
    /\ anew' = [anew EXCEPT ![h] = FALSE]
    /\ UNCHANGED <<fields, watch, obeyed>>

(* With a bug: the last beat counts again. *)
CheckSeqAgain(h) ==
    /\ Step(h, "seq", IF packet[h] < last_seq THEN "idle" ELSE "count")
    /\ UNCHANGED <<fields, packet, anew, watch, obeyed>>

CheckSeq(h) ==
    /\ Step(h, "seq", IF packet[h] <= last_seq THEN "idle" ELSE "count")
    /\ UNCHANGED <<fields, packet, anew, watch, obeyed>>

CountBeat(h) ==
    /\ Step(h, "count", "stamp")
    /\ last_seq' = packet[h]
    /\ UNCHANGED <<valve_state, tripped_by_watchdog, seen_command_nonces,
                   overdue, packet, anew, watch, obeyed>>

StampBeat(h) ==
    /\ Step(h, "stamp", "idle")
    /\ overdue' = FALSE
    /\ UNCHANGED <<valve_state, tripped_by_watchdog, seen_command_nonces,
                   last_seq, packet, anew, watch, obeyed>>

-----------------------------------------------------------------------------
(* watchdog_loop: two reads, then two writes. *)

Watch(w, from, to) ==
    /\ watch[w] = from
    /\ watch' = [watch EXCEPT ![w] = to]
    /\ UNCHANGED <<at, packet, anew, obeyed>>

ReadFlag(w) ==
    /\ ~tripped_by_watchdog
    /\ Watch(w, "sleep", "late")
    /\ UNCHANGED fields

ReadDeadline(w) ==
    /\ Watch(w, "late", IF overdue THEN "flag" ELSE "sleep")
    /\ UNCHANGED fields

RaiseFlag(w) ==
    /\ Watch(w, "flag", "close")
    /\ tripped_by_watchdog' = TRUE
    /\ UNCHANGED <<valve_state, seen_command_nonces, last_seq, overdue>>

CloseValve(w) ==
    /\ Watch(w, "close", "sleep")
    /\ valve_state' = "CLOSED"
    /\ UNCHANGED <<tripped_by_watchdog, seen_command_nonces, last_seq,
                   overdue>>

(* HEARTBEAT_TIMEOUT_S passes without a beat. *)
BecomeOverdue ==
    /\ ~overdue
    /\ overdue' = TRUE
    /\ UNCHANGED <<valve_state, tripped_by_watchdog, seen_command_nonces,
                   last_seq, threads, obeyed>>

-----------------------------------------------------------------------------
HandlerStep(h) ==
    \/ CheckNonce(h) \/ RememberNonce(h) \/ Close(h)
    \/ ResetFirst(h) \/ ResetSecond(h)
    \/ CheckSeq(h) \/ CountBeat(h) \/ StampBeat(h)

WatchdogStep(w) ==
    ReadFlag(w) \/ ReadDeadline(w) \/ RaiseFlag(w) \/ CloseValve(w)

Next ==
    \/ \E h \in Handlers :
          \/ \E n \in Nonces, respelt \in BOOLEAN :
                DeliverCommand(h, n, respelt)
          \/ \E s \in Beats : DeliverBeat(h, s)
          \/ HandlerStep(h)
    \/ \E w \in Watchdogs : WatchdogStep(w)
    \/ BecomeOverdue

Spec == Init /\ [][Next]_vars

(* Every thread that can run is run, and time passes. *)
FairSpec ==
    /\ Spec
    /\ \A h \in Handlers : WF_vars(HandlerStep(h))
    /\ \A w \in Watchdogs : WF_vars(WatchdogStep(w))
    /\ WF_vars(BecomeOverdue)

-----------------------------------------------------------------------------
(* Properties. *)

Rest == /\ \A h \in Handlers : at[h] = "idle"
        /\ \A w \in Watchdogs : watch[w] = "sleep"

(* However RESETs and watchdogs interleave, once all threads are done the flag
   does not stand over an OPEN valve: it would blind every later watchdog pass
   (the order of the writes at actuator.py:84-85 and 226-227). *)
NeverBlindAtRest == Rest => ~(tripped_by_watchdog /\ valve_state = "OPEN")

(* What is left of "a genuine command is single-use" (actuator.py:70-71)
   without a lock and for copies spelt as they were sealed: the check and the
   record of a nonce are two steps, so copies in the hands of several threads at
   once may all act, but however many copies come, one acts at most once per
   thread.  A copy spelt anew acts again, which the count leaves out. *)
CopiesNeedARace == \A n \in Nonces : obeyed[n] <= Cardinality(Handlers)

Respelt(h) == at[h] \in {"check", "remember", "act", "second"} /\ anew[h]

(* "A replayed heartbeat must not be able to hold the watchdog open"
   (actuator.py:95-97).  Once the server seals nothing new, whatever is
   replayed for ever, in any spelling: the node is overdue for good, and the
   valve is never OPEN for good; a RESET spelt anew opens it, and a watchdog
   closes it (actuator.py:81-83).  If copies come as they were sealed from some
   time on, it is CLOSED for good. *)
ReplaysHoldNothingOpen ==
    /\ <>[]overdue /\ []<>(valve_state = "CLOSED")
    /\ <>[](\A h \in Handlers : ~Respelt(h)) => <>[](valve_state = "CLOSED")
=============================================================================
