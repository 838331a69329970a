--------------------------- MODULE SafetyLoopProofs ---------------------------
(***************************************************************************)
(* Proofs about SafetyLoop: what holds of the server, the link and the     *)
(* valve for every timeout, any number of connections and commands, and    *)
(* whatever is cut, severed, replayed, killed or powered down.             *)
(*                                                                         *)
(* The first part is about FinalElement alone, under arbitrary packets.    *)
(***************************************************************************)
EXTENDS SafetyLoop, SequenceTheorems, TLAPS

(* The inductive invariant, in named parts. *)

(* Only living watchdogs are still to run. *)
DueAlive == due <= watchdogs

(* Whatever moved the valve is in the nonce store. *)
SpentNonces == \A n \in Nonces : obeyed[n] > 0 => n \in seen_command_nonces

(* Whatever beat was counted is not above last_seq. *)
CountedBeats == \A s \in 0 .. MaxSeq : heard[s] > 0 => s <= last_seq

(* The node's own deadline is the time since it first heard a beat. *)
DeadlineHonest == unheard = last_heartbeat

(* A deadline is only ever set under a key. *)
DeadlineHasKey == last_heartbeat # Never => key_b # NoKey

ExposedIsOpen == exposed > 0 => valve_state = "OPEN"

(* An exposed valve has a watchdog pass coming before the next second. *)
PassComing == watchdogs > 0 /\ exposed > 0 /\ TooLongUnheard => due > 0

Typed == ElementTypeOK /\ DueAlive
Nonced == SpentNonces /\ ObeyedOnce
Counted == CountedBeats /\ BeatCountedOnce /\ DeadlineHonest
Watched ==
    /\ DeadlineHasKey
    /\ WatchdogNotBlind
    /\ ExposedIsOpen
    /\ PassComing
    /\ WatchedValveCloses

IInv == Typed /\ Nonced /\ Counted /\ Watched

-----------------------------------------------------------------------------
(* The inductive invariant holds in a node that just started. *)
LEMMA InitInv == ElementInit => IInv
<1> SUFFICES ASSUME ElementInit PROVE IInv
  OBVIOUS
<1>1. Typed
  <2>1. /\ obeyed \in [Nonces -> 0 .. 2]
        /\ heard \in [0 .. MaxSeq -> 0 .. 2]
    BY DEF ElementInit
  <2>2. Never \in Never .. AgeCap /\ 0 \in 0 .. MaxSeq
        /\ 0 \in 0 .. MaxWatchdogs
    BY FinalElementAssumption DEF Never, AgeCap
  <2>3. QED
    <3>1. ElementTypeOK
      BY <2>1, <2>2 DEF ElementInit, ElementTypeOK
    <3>2. due <= watchdogs
      BY DEF ElementInit
    <3>3. QED
      BY <3>1, <3>2 DEF Typed, DueAlive
<1>2. Nonced
  BY DEF ElementInit, Nonced, SpentNonces, ObeyedOnce
<1>3. Counted
  BY DEF ElementInit, Counted, CountedBeats, BeatCountedOnce, DeadlineHonest
<1>4. Watched
  BY DEF ElementInit, Watched, DeadlineHasKey, WatchdogNotBlind,
         ExposedIsOpen, PassComing, WatchedValveCloses, Never
<1>5. QED
  BY <1>1, <1>2, <1>3, <1>4 DEF IInv

-----------------------------------------------------------------------------
(* A second older is still an age. *)
LEMMA OlderTyped ==
    ASSUME NEW age \in Never .. AgeCap
    PROVE  Older(age) \in Never .. AgeCap
BY FinalElementAssumption DEF Older, Never, AgeCap

(* Every state of the node is well formed, and no more watchdogs are due than
   are alive. *)
LEMMA TypedStep == Typed /\ [ElementNext]_elementVars => Typed'
<1> SUFFICES ASSUME Typed, [ElementNext]_elementVars PROVE Typed'
  OBVIOUS
<1> USE DEF Typed, DueAlive
<1>0. Never .. AgeCap = -1 .. HEARTBEAT_TIMEOUT_S + 1 /\ 0 \in Never .. AgeCap
  BY FinalElementAssumption DEF Never, AgeCap
<1>1. CASE UNCHANGED elementVars
  BY <1>1 DEF ElementTypeOK, elementVars, node, counters, tasks
<1>2. ASSUME NEW k \in Keys, EstablishSession(k)
      PROVE  Typed'
  BY <1>2 DEF EstablishSession, ElementTypeOK, counters, tasks
<1>3. CASE OnEstablished
  BY <1>0, <1>3, FinalElementAssumption
     DEF OnEstablished, SeedDeadline, ElementTypeOK
<1>4. ASSUME NEW p \in Packet, ProcessCommand(p)
      PROVE  Typed'
  <2>1. CASE ~Obeyable(p)
    BY <1>1, <1>4, <2>1 DEF ProcessCommand
  <2>2. CASE Obeyable(p)
    <3>1. p.nonce \in Nonces /\ p.command \in {"TRIP", "RESET", "HEARTBEAT"}
      BY DEF Packet
    <3>2. ValveAfter(p) \in {"OPEN", "CLOSED"} /\ FlagAfter(p) \in BOOLEAN
      BY <3>1 DEF ValveAfter, FlagAfter, ElementTypeOK
    <3>3. obeyed' \in [Nonces -> 0 .. 2]
      BY <1>4, <2>2, <3>1 DEF ProcessCommand, Once, ElementTypeOK
    <3>4. QED
      BY <1>4, <2>2, <3>1, <3>2, <3>3
         DEF ProcessCommand, Remember, ElementTypeOK, tasks
  <2>3. QED
    BY <2>1, <2>2
<1>5. ASSUME NEW p \in Packet, AcceptHeartbeat(p)
      PROVE  Typed'
  <2>1. CASE ~Counts(p)
    BY <1>1, <1>5, <2>1 DEF AcceptHeartbeat
  <2>2. CASE Counts(p)
    <3>1. p.seq \in 0 .. MaxSeq
      BY DEF Packet
    <3>2. heard' \in [0 .. MaxSeq -> 0 .. 2]
      BY <1>5, <2>2, <3>1 DEF AcceptHeartbeat, Once, ElementTypeOK
    <3>3. QED
      BY <1>0, <1>5, <2>2, <3>1, <3>2
         DEF AcceptHeartbeat, ElementTypeOK, tasks
  <2>3. QED
    BY <2>1, <2>2
<1>6. CASE WatchdogPass
  <2>1. due' \in 0 .. MaxWatchdogs /\ watchdogs' \in 0 .. MaxWatchdogs
    BY <1>6, FinalElementAssumption DEF WatchdogPass, ElementTypeOK
  <2>2. due' <= watchdogs'
    BY <1>6, FinalElementAssumption DEF WatchdogPass, ElementTypeOK
  <2>3. /\ tripped_by_watchdog' \in BOOLEAN
        /\ valve_state' \in {"OPEN", "CLOSED"}
        /\ exposed' \in 0 .. 2
    <3>1. CASE WatchdogTrips
      BY <1>6, <3>1 DEF WatchdogPass
    <3>2. CASE ~WatchdogTrips
      BY <1>6, <3>2 DEF WatchdogPass, ElementTypeOK
    <3>3. QED
      BY <3>1, <3>2
  <2>4. UNCHANGED <<connected, key_b, last_heartbeat, last_seq,
                    seen_command_nonces, obeyed, heard, unheard>>
    BY <1>6 DEF WatchdogPass
  <2>5. QED
    <3>1. ElementTypeOK'
      <4>1. UNCHANGED <<Never, AgeCap>>
        BY DEF Never, AgeCap
      <4>2. QED
        BY <2>1, <2>3, <2>4, <4>1 DEF ElementTypeOK
    <3>2. QED
      BY <2>2, <3>1
<1>7. CASE Second
  BY <1>7, OlderTyped, FinalElementAssumption DEF Second, Once, ElementTypeOK
<1>8. CASE SetConnected(~connected)
  BY <1>8 DEF SetConnected, ElementTypeOK, node, counters, tasks
<1>9. QED
  BY <1>1, <1>2, <1>3, <1>4, <1>5, <1>6, <1>7, <1>8 DEF ElementNext

-----------------------------------------------------------------------------
(* Only process_command spends a nonce, and only one that was not spent. *)
LEMMA NoncedStep ==
    Typed /\ Nonced /\ [ElementNext]_elementVars => Nonced'
<1> SUFFICES ASSUME Typed, Nonced, [ElementNext]_elementVars PROVE Nonced'
  OBVIOUS
<1> USE DEF Nonced, SpentNonces, ObeyedOnce
<1>1. ASSUME UNCHANGED <<obeyed, seen_command_nonces>>
      PROVE  Nonced'
  BY <1>1
<1>2. ASSUME NEW p \in Packet, ProcessCommand(p), Obeyable(p)
      PROVE  Nonced'
  <2>1. p.nonce \in Nonces /\ obeyed \in [Nonces -> 0 .. 2]
    BY DEF Packet, Typed, ElementTypeOK
  <2>3. CASE p.respelt
    BY <1>1, <1>2, <2>3 DEF ProcessCommand, Remember
  <2>4. CASE ~p.respelt
    <3>1. obeyed[p.nonce] = 0
      BY <1>2, <2>1, <2>4 DEF Obeyable
    <3>2. /\ seen_command_nonces' = seen_command_nonces \union {p.nonce}
          /\ \/ obeyed' = obeyed
             \/ obeyed' = [obeyed EXCEPT ![p.nonce] = 1]
      BY <1>2, <2>1, <2>4, <3>1 DEF ProcessCommand, Remember, Once
    <3>3. QED
      BY <2>1, <3>2
  <2>5. QED
    BY <2>3, <2>4
<1>3. QED
  BY <1>1, <1>2
     DEF ElementNext, EstablishSession, OnEstablished, ProcessCommand,
         AcceptHeartbeat, WatchdogPass, Second, SetConnected, elementVars,
         node, counters

(* Only accept_heartbeat counts a beat, and only one above all before it; so
   the node's deadline starts again exactly when a beat is first heard. *)
LEMMA CountedStep ==
    Typed /\ Counted /\ [ElementNext]_elementVars => Counted'
<1> SUFFICES ASSUME Typed, Counted, [ElementNext]_elementVars PROVE Counted'
  OBVIOUS
<1> USE DEF Counted, CountedBeats, BeatCountedOnce, DeadlineHonest
<1>1. ASSUME UNCHANGED <<heard, last_seq, unheard, last_heartbeat>>
      PROVE  Counted'
  BY <1>1
<1>2. ASSUME UNCHANGED <<heard, last_seq>>, unheard' = last_heartbeat'
      PROVE  Counted'
  BY <1>2
<1>3. CASE OnEstablished
  BY <1>2, <1>3 DEF OnEstablished, SeedDeadline
<1>4. CASE Second
  BY <1>2, <1>4 DEF Second
<1>5. ASSUME NEW p \in Packet, AcceptHeartbeat(p), Counts(p)
      PROVE  Counted'
  <2>1. /\ p.seq \in 0 .. MaxSeq /\ last_seq \in 0 .. MaxSeq
        /\ heard \in [0 .. MaxSeq -> 0 .. 2]
    BY DEF Packet, Typed, ElementTypeOK
  <2>2. p.seq > last_seq /\ heard[p.seq] = 0
    BY <1>5, <2>1, FinalElementAssumption DEF Counts
  <2>3. /\ last_seq' = p.seq
        /\ heard' = [heard EXCEPT ![p.seq] = 1]
        /\ unheard' = 0 /\ last_heartbeat' = 0
    BY <1>5, <2>1, <2>2 DEF AcceptHeartbeat, Once
  <2>4. QED
    BY <2>1, <2>2, <2>3, FinalElementAssumption
<1>6. QED
  BY <1>1, <1>3, <1>4, <1>5
     DEF ElementNext, EstablishSession, ProcessCommand, AcceptHeartbeat,
         WatchdogPass, SetConnected, elementVars, node, counters

-----------------------------------------------------------------------------
(* The watchdog's part: every pass finds the flag down when the valve is OPEN
   and closes a valve that is overdue, and a second waits for the passes. *)
LEMMA WatchedStep ==
    Typed /\ Counted /\ Watched /\ [ElementNext]_elementVars => Watched'
<1> SUFFICES ASSUME Typed, Counted, Watched, [ElementNext]_elementVars
             PROVE  Watched'
  OBVIOUS
<1> USE DEF Watched, DeadlineHasKey, WatchdogNotBlind, ExposedIsOpen,
            PassComing, WatchedValveCloses
<1>0. /\ watchdogs \in Nat /\ due \in Nat /\ due <= watchdogs
      /\ exposed \in 0 .. 2 /\ tripped_by_watchdog \in BOOLEAN
      /\ valve_state \in {"OPEN", "CLOSED"}
      /\ unheard = last_heartbeat
      /\ unheard \in Int
  BY DEF Typed, ElementTypeOK, DueAlive, Counted, DeadlineHonest, Never,
         AgeCap
<1>1. CASE UNCHANGED elementVars
  BY <1>1 DEF TooLongUnheard, elementVars, node, counters, tasks
<1>2. ASSUME NEW k \in Keys, EstablishSession(k)
      PROVE  Watched'
  BY <1>2, FinalElementAssumption
     DEF EstablishSession, TooLongUnheard, counters, tasks
<1>3. CASE OnEstablished
  BY <1>0, <1>3 DEF OnEstablished, SeedDeadline
<1>4. ASSUME NEW p \in Packet, ProcessCommand(p)
      PROVE  Watched'
  <2>1. CASE ~Obeyable(p)
    BY <1>1, <1>4, <2>1 DEF ProcessCommand
  <2>2. CASE Obeyable(p)
    <3>1. p.command \in {"TRIP", "RESET", "HEARTBEAT"}
      BY DEF Packet
    <3>2. UNCHANGED <<key_b, last_heartbeat, unheard, watchdogs, due>>
      BY <1>4, <2>2 DEF ProcessCommand, tasks
    <3>3. \/ valve_state' = "CLOSED" /\ exposed' = 0
          \/ valve_state' = "OPEN" /\ ~tripped_by_watchdog'
             /\ exposed' = exposed
          \/ UNCHANGED <<valve_state, tripped_by_watchdog, exposed>>
      BY <1>4, <2>2, <3>1 DEF ProcessCommand, ValveAfter, FlagAfter
    <3>4. QED
      BY <1>0, <3>2, <3>3 DEF TooLongUnheard
  <2>3. QED
    BY <2>1, <2>2
<1>5. ASSUME NEW p \in Packet, AcceptHeartbeat(p)
      PROVE  Watched'
  <2>1. CASE ~Counts(p)
    BY <1>1, <1>5, <2>1 DEF AcceptHeartbeat
  <2>2. CASE Counts(p)
    <3>1. UNCHANGED <<key_b, valve_state, tripped_by_watchdog, exposed,
                      watchdogs, due>>
      BY <1>5, <2>2 DEF AcceptHeartbeat, tasks
    <3>2. key_b # NoKey
      BY <2>2 DEF Counts
    <3>3. TooLongUnheard' => TooLongUnheard
      BY <1>0, <1>5, <2>2, FinalElementAssumption
         DEF AcceptHeartbeat, TooLongUnheard
    <3>4. QED
      BY <3>1, <3>2, <3>3
  <2>3. QED
    BY <2>1, <2>2
<1>6. CASE WatchdogPass
  <2>1. UNCHANGED <<key_b, last_heartbeat, unheard>>
    BY <1>6 DEF WatchdogPass
  <2>2. watchdogs' > 0 => watchdogs > 0
    BY <1>0, <1>6 DEF WatchdogPass
  <2>3. CASE WatchdogTrips
    BY <1>6, <2>1, <2>3 DEF WatchdogPass
  <2>4. CASE ~WatchdogTrips
    <3>1. UNCHANGED <<tripped_by_watchdog, valve_state, exposed>>
      BY <1>6, <2>4 DEF WatchdogPass
    <3>2. exposed > 0 => ~TooLongUnheard
      BY <1>0, <2>4
         DEF WatchdogTrips, HeartbeatOverdue, TooLongUnheard
    <3>3. QED
      BY <2>1, <2>2, <3>1, <3>2 DEF TooLongUnheard
  <2>5. QED
    BY <2>3, <2>4
<1>7. CASE Second
  <2>1. /\ UNCHANGED <<key_b, valve_state, tripped_by_watchdog, watchdogs>>
        /\ due = 0 /\ due' = watchdogs
        /\ last_heartbeat' = Older(last_heartbeat)
        /\ exposed' = IF valve_state = "OPEN" /\ TooLongUnheard
                      THEN Once(exposed) ELSE 0
    BY <1>7 DEF Second
  <2>2. last_heartbeat' # Never => last_heartbeat # Never
    BY <2>1 DEF Older
  <2>3. exposed' > 0 => valve_state' = "OPEN"
    BY <2>1
  <2>4. watchdogs > 0 => exposed' <= 1
    BY <1>0, <2>1 DEF Once
  <2>5. QED
    BY <2>1, <2>2, <2>3, <2>4
<1>8. CASE SetConnected(~connected)
  BY <1>8 DEF SetConnected, TooLongUnheard, node, counters, tasks
<1>9. QED
  BY <1>1, <1>2, <1>3, <1>4, <1>5, <1>6, <1>7, <1>8 DEF ElementNext

-----------------------------------------------------------------------------
(* Every handler and every pass of the watchdog keeps the invariant. *)
LEMMA InvStep == IInv /\ [ElementNext]_elementVars => IInv'
BY TypedStep, NoncedStep, CountedStep, WatchedStep DEF IInv

(* The inductive invariant holds in every reachable state. *)
LEMMA InvHolds == ElementSpec => []IInv
BY InitInv, InvStep, PTL DEF ElementSpec

(* The node's state is well formed, whatever packets reach it. *)
THEOREM ElementTyped == ElementSpec => []ElementTypeOK
<1>1. IInv => ElementTypeOK
  BY DEF IInv, Typed
<1>2. QED
  BY <1>1, InvHolds, PTL

(* A captured command, spelt as it was sealed, is worth nothing after it was
   obeyed once, for any number of sessions and any traffic, by handlers of the
   node that run one after another. *)
THEOREM CommandsObeyedOnce == ElementSpec => []ObeyedOnce
<1>1. IInv => ObeyedOnce
  BY DEF IInv, Nonced
<1>2. QED
  BY <1>1, InvHolds, PTL

(* No beat is counted twice, for any number of sessions and any traffic, by
   handlers of the node that run one after another. *)
THEOREM BeatsCountedOnce == ElementSpec => []BeatCountedOnce
<1>1. IInv => BeatCountedOnce
  BY DEF IInv, Counted
<1>2. QED
  BY <1>1, InvHolds, PTL

(* The watchdog's flag is never up over an OPEN valve. *)
THEOREM NeverBlind == ElementSpec => []WatchdogNotBlind
<1>1. IInv => WatchdogNotBlind
  BY DEF IInv, Watched
<1>2. QED
  BY <1>1, InvHolds, PTL

(* The fail-safe direction: while any watchdog is alive, silence closes the
   valve at the next pass, whatever is replayed, and however many watchdogs
   reconnections have started. *)
THEOREM SilenceClosesWatchedValve == ElementSpec => []WatchedValveCloses
<1>1. IInv => WatchedValveCloses
  BY DEF IInv, Watched
<1>2. QED
  BY <1>1, InvHolds, PTL

-----------------------------------------------------------------------------
(* The loop. *)

(* The packets the server seals, and the events in flight. *)
CommandPacket == [command : {"TRIP", "RESET"}, key : Keys, nonce : Nonces,
                  seq : {0}, respelt : BOOLEAN]
BeatPacket == [command : {"HEARTBEAT"}, key : Keys, nonce : {0},
               seq : 1 .. MaxSeq, respelt : {FALSE}]

PublicKey == Event("pqc_public_key", NoPacket)
Established == Event("pqc_established", NoPacket)
Refused == Event("pqc_refused", NoPacket)
Signals == {PublicKey, Established, Refused}

Commands == {Event("execute_actuator_command", p) : p \in CommandPacket}
Beats == {Event("sis_heartbeat", p) : p \in BeatPacket}
Traffic == Commands \union Beats

HandshakeUp == {"pqc_hello", "pqc_encapsulation"}
Decisions == {"TRIP", "RESET"}
DownEvents == Signals \union Traffic
UpEvents == HandshakeUp \union {"OPEN", "CLOSED"}

Offered(events) == Range(downlink) \intersect events # {}
Sent(events) == Range(uplink) \intersect events # {}

(* Every state is well formed. *)
LoopTypeOK ==
    /\ setting \in Settings
    /\ alive \in BOOLEAN /\ served \in BOOLEAN /\ linked \in BOOLEAN
    /\ severed \in BOOLEAN /\ stopped \in BOOLEAN
    /\ demand \in BOOLEAN /\ late \in BOOLEAN
    /\ missed \in BOOLEAN /\ deserted \in BOOLEAN
    /\ trip_state \in {"HEALTHY", "TRIPPED"}
    /\ heartbeat_seq \in 0 .. MaxSeq
    /\ conn \in 0 .. MaxConnections
    /\ session \in 0 .. conn
    /\ key_b \in 0 .. conn
    /\ outbox \in Seq(Decisions)
    /\ last_command_packet \in CommandPacket \union {NoPacket}
    /\ sealed \in Nat
    /\ beat_timer \in Never .. HEARTBEAT_PERIOD_S
    /\ silent \in 0 .. PingTimeout
    /\ downlink \in Seq(DownEvents) /\ uplink \in Seq(UpEvents)
    /\ clock \in Nat /\ cuts \in Nat

-----------------------------------------------------------------------------
(* Queues. *)

(* What is appended comes last. *)
LEMMA AppendQueue ==
    ASSUME NEW S, NEW q \in Seq(S), NEW e \in S
    PROVE  /\ Append(q, e) \in Seq(S)
           /\ Append(q, e) = q \o <<e>>
           /\ Len(Append(q, e)) = Len(q) + 1
           /\ \A k \in 1 .. Len(q) : Append(q, e)[k] = q[k]
           /\ Append(q, e)[Len(q) + 1] = e
<1>1. /\ Append(q, e) \in Seq(S)
      /\ Len(Append(q, e)) = Len(q) + 1
      /\ \A k \in 1 .. Len(q) : Append(q, e)[k] = q[k]
      /\ Append(q, e)[Len(q) + 1] = e
  BY AppendProperties
<1>2. Append(q, e) = q \o <<e>>
  BY AppendIsConcat
<1>3. QED
  BY <1>1, <1>2

LEMMA AppendRange ==
    ASSUME NEW S, NEW q \in Seq(S), NEW e \in S
    PROVE  Range(Append(q, e)) = Range(q) \union {e}
<1>1. /\ Len(Append(q, e)) = Len(q) + 1
      /\ \A k \in 1 .. Len(q) : Append(q, e)[k] = q[k]
      /\ Append(q, e)[Len(q) + 1] = e
  BY AppendQueue
<1>2. Len(q) \in Nat /\ DOMAIN q = 1 .. Len(q)
      /\ DOMAIN Append(q, e) = 1 .. Len(q) + 1
  BY <1>1, LenProperties, AppendQueue
<1>3. 1 .. Len(q) + 1 = (1 .. Len(q)) \union {Len(q) + 1}
  BY <1>2
<1>4. QED
  BY <1>1, <1>2, <1>3 DEF Range

(* The first is taken, the others follow in order. *)
LEMMA TailQueue ==
    ASSUME NEW S, NEW q \in Seq(S), q # <<>>
    PROVE  /\ Tail(q) \in Seq(S)
           /\ Len(q) \in Nat /\ Len(q) >= 1
           /\ Len(Tail(q)) = Len(q) - 1
           /\ \A k \in 1 .. Len(q) - 1 : Tail(q)[k] = q[k + 1]
           /\ q[1] \in S
<1>1. /\ Tail(q) \in Seq(S) /\ Len(Tail(q)) = Len(q) - 1
      /\ \A k \in 1 .. Len(Tail(q)) : Tail(q)[k] = q[k + 1]
  BY HeadTailProperties
<1>2. Len(q) \in Nat /\ Len(q) >= 1
  BY <1>1, LenProperties, EmptySeq
<1>3. q[1] \in S
  BY <1>2, ElementOfSeq
<1>4. QED
  BY <1>1, <1>2, <1>3

(* One is taken out of the middle. *)
LEMMA RemoveQueue ==
    ASSUME NEW S, NEW q \in Seq(S), NEW i \in 1 .. Len(q)
    PROVE  /\ RemoveAt(q, i) \in Seq(S)
           /\ Len(q) \in Nat
           /\ Len(RemoveAt(q, i)) = Len(q) - 1
           /\ \A k \in 1 .. Len(q) - 1 :
                 RemoveAt(q, i)[k] = IF k < i THEN q[k] ELSE q[k + 1]
           /\ q[i] \in S
<1> DEFINE a == SubSeq(q, 1, i - 1)
           b == SubSeq(q, i + 1, Len(q))
<1>0. Len(q) \in Int /\ i \in Int /\ 1 <= i /\ i <= Len(q)
  BY LenProperties
<1>1. Len(q) \in Nat /\ i \in Int /\ DOMAIN q = 1 .. Len(q)
      /\ \A k \in 1 .. Len(q) : q[k] \in S
  BY LenProperties, ElementOfSeq
<1>2. a \in Seq(S) /\ Len(a) = i - 1 /\ \A k \in 1 .. i - 1 : a[k] = q[k]
  <2>1. \A k \in 1 .. i - 1 : q[k] \in S
    BY <1>1
  <2>2. i - 1 \in Int
    BY <1>1
  <2>3. /\ a \in Seq(S)
        /\ Len(a) = IF 1 <= i - 1 THEN i - 1 - 1 + 1 ELSE 0
        /\ \A k \in 1 .. i - 1 - 1 + 1 : a[k] = q[1 + k - 1]
    BY <2>1, <2>2, SubSeqProperties
  <2>4. i - 1 - 1 + 1 = i - 1 /\ i - 1 >= 0 /\ (~(1 <= i - 1) => i - 1 = 0)
    BY <1>1
  <2>5. Len(a) = i - 1
    BY <2>3, <2>4
  <2>6. \A k \in 1 .. i - 1 : a[k] = q[1 + k - 1]
    BY <2>3, <2>4
  <2>7. \A k \in 1 .. i - 1 : 1 + k - 1 = k
    OBVIOUS
  <2>8. \A k \in 1 .. i - 1 : a[k] = q[k]
    BY <2>6, <2>7
  <2>9. QED
    BY <2>3, <2>5, <2>8
<1>3. b \in Seq(S) /\ Len(b) = Len(q) - i
      /\ \A k \in 1 .. Len(q) - i : b[k] = q[i + k]
  <2>1. \A k \in i + 1 .. Len(q) : q[k] \in S
    BY <1>1
  <2>2. i + 1 \in Int
    BY <1>1
  <2>3. /\ b \in Seq(S)
        /\ Len(b) = IF i + 1 <= Len(q) THEN Len(q) - (i + 1) + 1 ELSE 0
        /\ \A k \in 1 .. Len(q) - (i + 1) + 1 : b[k] = q[i + 1 + k - 1]
    BY <1>1, <2>1, <2>2, SubSeqProperties
  <2>4. /\ Len(q) - (i + 1) + 1 = Len(q) - i
        /\ ~(i + 1 <= Len(q)) => Len(q) - i = 0
    BY <1>0
  <2>5. Len(b) = Len(q) - i
    BY <2>3, <2>4
  <2>6. \A k \in 1 .. Len(q) - i : b[k] = q[i + 1 + k - 1]
    BY <2>3, <2>4
  <2>7. \A k \in 1 .. Len(q) - i : i + 1 + k - 1 = i + k
    BY <1>1
  <2>8. \A k \in 1 .. Len(q) - i : b[k] = q[i + k]
    BY <2>6, <2>7
  <2>9. QED
    BY <2>3, <2>5, <2>8
<1>4. RemoveAt(q, i) = a \o b
  BY DEF RemoveAt
<1>5. /\ a \o b \in Seq(S) /\ Len(a \o b) = Len(a) + Len(b)
      /\ \A k \in 1 .. Len(a) + Len(b) :
            (a \o b)[k] = IF k <= Len(a) THEN a[k] ELSE b[k - Len(a)]
  BY <1>2, <1>3, ConcatProperties
<1> HIDE DEF a, b
<1>6. /\ RemoveAt(q, i) \in Seq(S) /\ Len(RemoveAt(q, i)) = Len(q) - 1
      /\ \A k \in 1 .. Len(q) - 1 :
            RemoveAt(q, i)[k] = IF k < i THEN q[k] ELSE q[k + 1]
  BY <1>1, <1>2, <1>3, <1>4, <1>5
<1>7. QED
  BY <1>1, <1>6

LEMMA RemoveRange ==
    ASSUME NEW S, NEW q \in Seq(S), NEW i \in 1 .. Len(q)
    PROVE  Range(q) = {q[i]} \union Range(RemoveAt(q, i))
<1>1. /\ RemoveAt(q, i) \in Seq(S) /\ Len(RemoveAt(q, i)) = Len(q) - 1
      /\ \A k \in 1 .. Len(q) - 1 :
            RemoveAt(q, i)[k] = IF k < i THEN q[k] ELSE q[k + 1]
  BY RemoveQueue
<1>2. Len(q) \in Nat /\ i \in Int /\ DOMAIN q = 1 .. Len(q)
      /\ DOMAIN RemoveAt(q, i) = 1 .. Len(q) - 1
  BY <1>1, LenProperties
<1>3. \A k \in 1 .. Len(q) :
         \/ k = i
         \/ k \in 1 .. Len(q) - 1 /\ q[k] = RemoveAt(q, i)[k]
         \/ k - 1 \in 1 .. Len(q) - 1 /\ q[k] = RemoveAt(q, i)[k - 1]
  BY <1>1, <1>2
<1>4. \A k \in 1 .. Len(q) - 1 :
         \E j \in 1 .. Len(q) : RemoveAt(q, i)[k] = q[j]
  BY <1>1, <1>2
<1>5. Range(q) \subseteq {q[i]} \union Range(RemoveAt(q, i))
  BY <1>2, <1>3 DEF Range
<1>6. {q[i]} \union Range(RemoveAt(q, i)) \subseteq Range(q)
  BY <1>2, <1>4 DEF Range
<1>7. QED
  BY <1>5, <1>6

-----------------------------------------------------------------------------
(* One handshake at a time. *)

AtMostOne(q, events) ==
    \A i, j \in DOMAIN q : q[i] \in events /\ q[j] \in events => i = j

(* pqc_established goes before whatever is sealed under its key. *)
EstablishedFirst(q) ==
    \A i, j \in DOMAIN q : q[i] \in Traffic /\ q[j] = Established => j < i

Queued ==
    /\ AtMostOne(uplink, HandshakeUp)
    /\ AtMostOne(downlink, Signals)
    /\ EstablishedFirst(downlink)

(* The three kinds of events are told apart by their names. *)
LEMMA EventKinds ==
    /\ \A e \in Signals :
          /\ e.packet = NoPacket
          /\ e.event \in {"pqc_public_key", "pqc_established", "pqc_refused"}
          /\ e.event = "pqc_public_key" => e = PublicKey
          /\ e.event = "pqc_established" => e = Established
          /\ e.event = "pqc_refused" => e = Refused
    /\ \A e \in Commands :
          e.event = "execute_actuator_command" /\ e.packet \in CommandPacket
    /\ \A e \in Beats : e.event = "sis_heartbeat" /\ e.packet \in BeatPacket
    /\ Signals \intersect Traffic = {}
    /\ Commands \intersect Beats = {}
    /\ PublicKey # Established /\ PublicKey # Refused /\ Established # Refused
BY DEF Signals, Commands, Beats, Traffic, PublicKey, Established, Refused,
       Event

(* What the server seals is a packet of the node's alphabet. *)
LEMMA PacketKinds ==
    /\ \A p \in CommandPacket :
          /\ p \in Packet
          /\ p.command \in {"TRIP", "RESET"} /\ p.key \in Keys
          /\ p.nonce \in Nonces /\ p.seq = 0
    /\ \A p \in BeatPacket :
          /\ p \in Packet
          /\ p.command = "HEARTBEAT" /\ p.key \in Keys
          /\ p.nonce = 0 /\ p.seq \in 1 .. MaxSeq
    /\ NoPacket \notin CommandPacket
<1>1. 0 \in Nonces /\ 0 \in 0 .. MaxSeq /\ 1 .. MaxSeq \subseteq 0 .. MaxSeq
  BY SafetyLoopAssumption, FinalElementAssumption
<1>2. QED
  BY <1>1 DEF CommandPacket, BeatPacket, Packet, NoPacket

-----------------------------------------------------------------------------
(* What a step does to the queues. *)

(* The server takes one event off the uplink. *)
LEMMA Receives ==
    ASSUME uplink \in Seq(UpEvents), AtMostOne(uplink, HandshakeUp),
           NEW e, NEW i, Receive(e, i)
    PROVE  /\ alive /\ served /\ linked
           /\ e \in UpEvents
           /\ uplink' \in Seq(UpEvents)
           /\ Range(uplink) = {e} \union Range(uplink')
           /\ AtMostOne(uplink', HandshakeUp)
           /\ e \in HandshakeUp => Range(uplink') \intersect HandshakeUp = {}
<1>1. /\ i \in 1 .. Len(uplink) /\ uplink[i] = e
      /\ uplink' = RemoveAt(uplink, i)
      /\ alive /\ served /\ linked
  BY LenProperties DEF Receive, Received, First
<1> DEFINE n == Len(uplink)
<1>2. /\ uplink' \in Seq(UpEvents)
      /\ n \in Nat /\ Len(uplink') = n - 1
      /\ \A k \in 1 .. n - 1 :
            uplink'[k] = IF k < i THEN uplink[k] ELSE uplink[k + 1]
      /\ e \in UpEvents
      /\ Range(uplink) = {e} \union Range(uplink')
  <2>1. /\ RemoveAt(uplink, i) \in Seq(UpEvents)
        /\ Len(uplink) \in Nat
        /\ Len(RemoveAt(uplink, i)) = Len(uplink) - 1
        /\ \A k \in 1 .. Len(uplink) - 1 :
              RemoveAt(uplink, i)[k] =
                 IF k < i THEN uplink[k] ELSE uplink[k + 1]
        /\ uplink[i] \in UpEvents
    BY <1>1, RemoveQueue
  <2>2. Range(uplink) = {uplink[i]} \union Range(RemoveAt(uplink, i))
    BY <1>1, RemoveRange
  <2>3. QED
    BY <1>1, <2>1, <2>2
<1>3. DOMAIN uplink = 1 .. n /\ DOMAIN uplink' = 1 .. n - 1
  BY <1>2, LenProperties
<1> HIDE DEF n
<1>4. AtMostOne(uplink', HandshakeUp)
  <2> SUFFICES ASSUME NEW k \in 1 .. n - 1, NEW l \in 1 .. n - 1,
                      uplink'[k] \in HandshakeUp, uplink'[l] \in HandshakeUp
               PROVE  k = l
    BY <1>3 DEF AtMostOne
  <2> DEFINE k1 == IF k < i THEN k ELSE k + 1
             l1 == IF l < i THEN l ELSE l + 1
  <2>1. k1 \in 1 .. n /\ l1 \in 1 .. n
    BY <1>1, <1>2 DEF n
  <2>2. uplink[k1] \in HandshakeUp /\ uplink[l1] \in HandshakeUp
    BY <1>2
  <2>3. k1 = l1
    BY <1>3, <2>1, <2>2 DEF AtMostOne
  <2>4. QED
    BY <1>1, <1>2, <2>3 DEF n
<1>5. ASSUME e \in HandshakeUp
      PROVE  Range(uplink') \intersect HandshakeUp = {}
  <2> SUFFICES ASSUME NEW k \in 1 .. n - 1, uplink'[k] \in HandshakeUp
               PROVE  FALSE
    BY <1>3 DEF Range
  <2> DEFINE k1 == IF k < i THEN k ELSE k + 1
  <2>1. k1 \in 1 .. n /\ k1 # i /\ i \in 1 .. n
    BY <1>1, <1>2 DEF n
  <2>2. uplink[k1] \in HandshakeUp /\ uplink[i] \in HandshakeUp
    BY <1>1, <1>2, <1>5
  <2>3. QED
    BY <1>3, <2>1, <2>2 DEF AtMostOne
<1>6. QED
  BY <1>1, <1>2, <1>4, <1>5

(* The node takes the first event off the downlink. *)
LEMMA Handles ==
    ASSUME downlink \in Seq(DownEvents), Queued,
           NEW name, NEW i, Handle(name, i)
    PROVE  /\ connected /\ linked /\ i = 1
           /\ downlink # <<>> /\ downlink' = Tail(downlink)
           /\ downlink[1] \in DownEvents /\ downlink[1].event = name
           /\ downlink' \in Seq(DownEvents)
           /\ Range(downlink) = {downlink[1]} \union Range(downlink')
           /\ AtMostOne(downlink', Signals)
           /\ EstablishedFirst(downlink')
           /\ downlink[1] \in Signals => Range(downlink') \intersect Signals = {}
           /\ downlink[1] \in Traffic => Established \notin Range(downlink)
<1>1. /\ connected /\ linked /\ i = 1 /\ 1 \in DOMAIN downlink
      /\ downlink[1].event = name
      /\ downlink' = RemoveAt(downlink, 1)
  BY DEF Handle, First
<1>2. downlink # <<>> /\ 1 \in 1 .. Len(downlink)
  BY <1>1, LenProperties, EmptySeq
<1> DEFINE n == Len(downlink)
<1>3. /\ downlink' \in Seq(DownEvents)
      /\ n \in Nat /\ n >= 1 /\ Len(downlink') = n - 1
      /\ \A k \in 1 .. n - 1 : downlink'[k] = downlink[k + 1]
      /\ downlink[1] \in DownEvents
      /\ Range(downlink) = {downlink[1]} \union Range(downlink')
  <2>1. /\ downlink' \in Seq(DownEvents)
        /\ n \in Nat /\ Len(downlink') = n - 1
        /\ \A k \in 1 .. n - 1 :
              downlink'[k] = IF k < 1 THEN downlink[k] ELSE downlink[k + 1]
        /\ downlink[1] \in DownEvents
        /\ Range(downlink) = {downlink[1]} \union Range(downlink')
    <3>1. /\ RemoveAt(downlink, 1) \in Seq(DownEvents)
          /\ Len(downlink) \in Nat
          /\ Len(RemoveAt(downlink, 1)) = Len(downlink) - 1
          /\ \A k \in 1 .. Len(downlink) - 1 :
                RemoveAt(downlink, 1)[k] =
                   IF k < 1 THEN downlink[k] ELSE downlink[k + 1]
          /\ downlink[1] \in DownEvents
      BY <1>2, RemoveQueue
    <3>2. Range(downlink) = {downlink[1]} \union Range(RemoveAt(downlink, 1))
      BY <1>2, RemoveRange
    <3>3. QED
      BY <1>1, <3>1, <3>2
  <2>2. \A k \in 1 .. n - 1 : ~(k < 1)
    OBVIOUS
  <2>3. n >= 1
    BY <1>2, <2>1
  <2>4. QED
    BY <2>1, <2>2, <2>3
<1>4. downlink' = Tail(downlink)
  <2>1. /\ Tail(downlink) \in Seq(DownEvents) /\ Len(Tail(downlink)) = n - 1
        /\ \A k \in 1 .. n - 1 : Tail(downlink)[k] = downlink[k + 1]
    BY <1>2, TailQueue
  <2>2. Len(downlink') = Len(Tail(downlink))
        /\ \A k \in 1 .. Len(downlink') : downlink'[k] = Tail(downlink)[k]
    BY <1>3, <2>1
  <2>3. QED
    BY <1>3, <2>1, <2>2, SeqEqual
<1>5. DOMAIN downlink = 1 .. n /\ DOMAIN downlink' = 1 .. n - 1
  BY <1>3, LenProperties
<1> HIDE DEF n
<1>6. \A k \in 1 .. n - 1 :
         k + 1 \in 1 .. n /\ k + 1 # 1 /\ downlink'[k] = downlink[k + 1]
  BY <1>3
<1>7. AtMostOne(downlink', Signals)
  <2> SUFFICES ASSUME NEW k \in 1 .. n - 1, NEW l \in 1 .. n - 1,
                      downlink'[k] \in Signals, downlink'[l] \in Signals
               PROVE  k = l
    BY <1>5 DEF AtMostOne
  <2>1. k + 1 = l + 1
    BY <1>5, <1>6 DEF AtMostOne, Queued
  <2>2. QED
    BY <2>1
<1>8. EstablishedFirst(downlink')
  <2> SUFFICES ASSUME NEW k \in 1 .. n - 1, NEW l \in 1 .. n - 1,
                      downlink'[k] \in Traffic, downlink'[l] = Established
               PROVE  l < k
    BY <1>5 DEF EstablishedFirst
  <2>1. l + 1 < k + 1
    BY <1>5, <1>6 DEF EstablishedFirst, Queued
  <2>2. QED
    BY <2>1
<1>9. downlink[1] \in Signals => Range(downlink') \intersect Signals = {}
  <2> SUFFICES ASSUME downlink[1] \in Signals, NEW k \in 1 .. n - 1,
                      downlink'[k] \in Signals
               PROVE  FALSE
    BY <1>5 DEF Range
  <2>1. k + 1 = 1
    BY <1>1, <1>5, <1>6 DEF AtMostOne, Queued
  <2>2. QED
    BY <1>6, <2>1
<1>10. downlink[1] \in Traffic => Established \notin Range(downlink)
  <2> SUFFICES ASSUME downlink[1] \in Traffic, NEW k \in 1 .. n,
                      downlink[k] = Established
               PROVE  FALSE
    BY <1>5 DEF Range
  <2>1. k < 1
    BY <1>1, <1>5 DEF EstablishedFirst, Queued
  <2>2. QED
    BY <2>1
<1>11. QED
  BY <1>1, <1>2, <1>3, <1>4, <1>7, <1>8, <1>9, <1>10

(* The server emits an event to the connection of a session. *)
LEMMA Emits ==
    ASSUME downlink \in Seq(DownEvents), Queued, NEW e \in DownEvents, NEW sid
    PROVE  /\ ToNode(sid, <<e>>) =
                 IF sid = conn /\ served THEN Append(downlink, e) ELSE downlink
           /\ Append(downlink, e) \in Seq(DownEvents)
           /\ Range(Append(downlink, e)) = Range(downlink) \union {e}
           /\ e \in Traffic \/ ~Offered(Signals) =>
                 AtMostOne(Append(downlink, e), Signals)
           /\ e # Established \/ ~Offered(Traffic) =>
                 EstablishedFirst(Append(downlink, e))
<1> DEFINE n == Len(downlink)
           q == Append(downlink, e)
<1>1. /\ q \in Seq(DownEvents) /\ q = downlink \o <<e>>
      /\ Len(q) = n + 1
      /\ \A k \in 1 .. n : q[k] = downlink[k]
      /\ q[n + 1] = e
      /\ Range(q) = Range(downlink) \union {e}
  <2>1. Range(Append(downlink, e)) = Range(downlink) \union {e}
    BY AppendRange
  <2>2. QED
    BY <2>1, AppendQueue
<1>2. n \in Nat /\ DOMAIN downlink = 1 .. n /\ DOMAIN q = 1 .. n + 1
  BY <1>1, LenProperties
<1> HIDE DEF n, q
<1>3. \A k \in 1 .. n + 1 :
         \/ k \in 1 .. n /\ q[k] = downlink[k] /\ downlink[k] \in Range(downlink)
         \/ k = n + 1 /\ q[k] = e
  BY <1>1, <1>2 DEF Range
<1>4. ASSUME e \in Traffic \/ ~Offered(Signals)
      PROVE  AtMostOne(q, Signals)
  <2> SUFFICES ASSUME NEW k \in 1 .. n + 1, NEW l \in 1 .. n + 1,
                      q[k] \in Signals, q[l] \in Signals
               PROVE  k = l
    BY <1>2 DEF AtMostOne
  <2>1. CASE e \in Traffic
    BY <1>2, <1>3, <2>1, EventKinds DEF AtMostOne, Queued
  <2>2. CASE ~Offered(Signals)
    BY <1>3, <2>2 DEF Offered
  <2>3. QED
    BY <1>4, <2>1, <2>2
<1>5. ASSUME e # Established \/ ~Offered(Traffic)
      PROVE  EstablishedFirst(q)
  <2> SUFFICES ASSUME NEW k \in 1 .. n + 1, NEW l \in 1 .. n + 1,
                      q[k] \in Traffic, q[l] = Established
               PROVE  l < k
    BY <1>2 DEF EstablishedFirst
  <2>0. Established \notin Traffic
    BY EventKinds DEF Signals
  <2>1. CASE e # Established
    <3>1. l \in 1 .. n /\ downlink[l] = Established
      BY <1>3, <2>1
    <3>2. CASE k = n + 1
      BY <1>2, <3>1, <3>2
    <3>3. CASE k \in 1 .. n
      BY <1>2, <1>3, <3>1, <3>3 DEF EstablishedFirst, Queued
    <3>4. QED
      BY <1>3, <3>2, <3>3
  <2>2. CASE ~Offered(Traffic)
    <3>1. k = n + 1 /\ e \in Traffic
      BY <1>3, <2>2 DEF Offered
    <3>2. l \in 1 .. n
      BY <1>3, <2>0, <3>1
    <3>3. QED
      BY <1>2, <3>1, <3>2
  <2>3. QED
    BY <1>5, <2>1, <2>2
<1>6. QED
  BY <1>1, <1>4, <1>5 DEF ToNode, q

(* The node emits an event, which fails when it is not connected. *)
LEMMA Answers ==
    ASSUME uplink \in Seq(UpEvents), AtMostOne(uplink, HandshakeUp),
           NEW e \in UpEvents
    PROVE  /\ FromNode(e) = IF connected THEN Append(uplink, e) ELSE uplink
           /\ Append(uplink, e) \in Seq(UpEvents)
           /\ Range(Append(uplink, e)) = Range(uplink) \union {e}
           /\ e \notin HandshakeUp \/ ~Sent(HandshakeUp) =>
                 AtMostOne(Append(uplink, e), HandshakeUp)
<1> DEFINE n == Len(uplink)
           q == Append(uplink, e)
<1>1. /\ q \in Seq(UpEvents)
      /\ Len(q) = n + 1
      /\ \A k \in 1 .. n : q[k] = uplink[k]
      /\ q[n + 1] = e
      /\ Range(q) = Range(uplink) \union {e}
  <2>1. Range(Append(uplink, e)) = Range(uplink) \union {e}
    BY AppendRange
  <2>2. QED
    BY <2>1, AppendQueue
<1>2. n \in Nat /\ DOMAIN uplink = 1 .. n /\ DOMAIN q = 1 .. n + 1
  BY <1>1, LenProperties
<1> HIDE DEF n, q
<1>3. \A k \in 1 .. n + 1 :
         \/ k \in 1 .. n /\ q[k] = uplink[k] /\ uplink[k] \in Range(uplink)
         \/ k = n + 1 /\ q[k] = e
  BY <1>1, <1>2 DEF Range
<1>4. ASSUME e \notin HandshakeUp \/ ~Sent(HandshakeUp)
      PROVE  AtMostOne(q, HandshakeUp)
  <2> SUFFICES ASSUME NEW k \in 1 .. n + 1, NEW l \in 1 .. n + 1,
                      q[k] \in HandshakeUp, q[l] \in HandshakeUp
               PROVE  k = l
    BY <1>2 DEF AtMostOne
  <2>1. CASE e \notin HandshakeUp
    BY <1>2, <1>3, <2>1 DEF AtMostOne
  <2>2. CASE ~Sent(HandshakeUp)
    BY <1>3, <2>2 DEF Sent
  <2>3. QED
    BY <1>4, <2>1, <2>2
<1>5. QED
  BY <1>1, <1>4 DEF FromNode, q

-----------------------------------------------------------------------------
(* The handshake of the connection there is. *)

HandshakeOpen == Offered(Signals) \/ Sent(HandshakeUp)

(* The server has not accepted the handshake, or has refused it. *)
Unsettled == Offered({PublicKey, Refused}) \/ Sent(HandshakeUp)

OneHandshake == Queued /\ ~(Offered(Signals) /\ Sent(HandshakeUp))

Numbered == connected \/ served \/ HandshakeOpen => conn >= 1

(* Until it is accepted the connection carries nothing that is sealed. *)
Settled == Unsettled => session # conn /\ ~Offered(Traffic)

(* The node had its key before the server accepts. *)
KeyAgreed ==
    /\ connected
    /\ Sent({"pqc_encapsulation"}) \/ Offered({Established}) \/ session = conn
    => key_b = conn

(* Where packets can arrive a watchdog runs. *)
Guarded ==
    connected /\ (Offered(Traffic) \/ session = conn)
              /\ ~Offered({Established})
    => watchdogs > 0

HandshakeInv == OneHandshake /\ Numbered /\ Settled /\ KeyAgreed /\ Guarded

channel == <<connected, key_b, watchdogs, conn, served, session,
             downlink, uplink>>

(* Deciding, failing and waiting leave the connection and its queues alone. *)
LEMMA ChannelFrame ==
    ASSUME \/ Trip \/ ClearTrip \/ Cut \/ Sever \/ Tick \/ Heal \/ Start
           \/ UNCHANGED <<vars, setting>>
    PROVE  UNCHANGED channel
BY DEF Trip, ClearTrip, Cut, Sever, Tick, Heal, Start, vars, Second,
       elementVars, node, tasks, link, channel

LEMMA HandshakeFrame ==
    ASSUME HandshakeInv, UNCHANGED channel
    PROVE  HandshakeInv'
BY DEF channel, HandshakeInv, OneHandshake, Queued, AtMostOne,
       EstablishedFirst, Numbered, Settled, KeyAgreed, Guarded,
       HandshakeOpen, Unsettled, Offered, Sent

LEMMA HandshakeInit == Init => HandshakeInv
<1> SUFFICES ASSUME Init PROVE HandshakeInv
  OBVIOUS
<1>1. downlink = <<>> /\ uplink = <<>> /\ ~connected /\ ~served
  BY DEF Init, ElementInit
<1>2. DOMAIN downlink = {} /\ DOMAIN uplink = {}
  BY <1>1
<1>3. Range(downlink) = {} /\ Range(uplink) = {}
  BY <1>2 DEF Range
<1>4. QED
  BY <1>1, <1>2, <1>3
     DEF HandshakeInv, OneHandshake, Queued, AtMostOne, EstablishedFirst,
         Numbered, Settled, KeyAgreed, Guarded, HandshakeOpen, Unsettled,
         Offered, Sent

(* The queues of a connection that was just made. *)
LEMMA FreshQueues ==
    ASSUME downlink' = <<>>, uplink' = <<"pqc_hello">>
    PROVE  /\ Queued' /\ ~Offered(Signals)' /\ ~Offered(Traffic)'
           /\ ~Offered({PublicKey, Refused})' /\ ~Offered({Established})'
           /\ ~Sent({"pqc_encapsulation"})'
           /\ downlink' \in Seq(DownEvents) /\ uplink' \in Seq(UpEvents)
<1>1. DOMAIN downlink' = {} /\ DOMAIN uplink' = {1} /\ uplink'[1] = "pqc_hello"
  OBVIOUS
<1>2. Range(downlink') = {} /\ Range(uplink') = {"pqc_hello"}
  BY <1>1 DEF Range
<1>3. Queued'
  BY <1>1 DEF Queued, AtMostOne, EstablishedFirst
<1>4. downlink' \in Seq(DownEvents) /\ uplink' \in Seq(UpEvents)
  BY DEF UpEvents, HandshakeUp
<1>5. QED
  BY <1>2, <1>3, <1>4 DEF Offered, Sent

-----------------------------------------------------------------------------
(* The bound on nonces is enough: every trip or reset leaves room, and so does
   every connection for the command its handshake ends in. *)

Pending == Offered({PublicKey}) \/ Sent(HandshakeUp)

Affordable ==
    sealed + Len(outbox) + (IF Pending THEN 1 ELSE 0) <= MaxCommands + conn

(* What is sealed next is a packet. *)
LEMMA SealsPackets ==
    ASSUME LoopTypeOK, Affordable, session # 0
    PROVE  /\ \A i \in DOMAIN outbox :
                 /\ Command(outbox[i]) \in CommandPacket
                 /\ Event("execute_actuator_command", Command(outbox[i]))
                       \in Commands
           /\ heartbeat_seq < MaxSeq =>
                 Event("sis_heartbeat", Beat(heartbeat_seq + 1)) \in Beats
           /\ last_command_packet # NoPacket =>
                 /\ Event("execute_actuator_command", last_command_packet)
                       \in Commands
                 /\ Event("execute_actuator_command",
                          Respelt(last_command_packet)) \in Commands
<1>1. session \in Keys
  BY SafetyLoopAssumption DEF LoopTypeOK
<1>2. ASSUME NEW i \in DOMAIN outbox
      PROVE  Command(outbox[i]) \in CommandPacket
  <2>1. outbox \in Seq(Decisions) /\ DOMAIN outbox = 1 .. Len(outbox)
        /\ Len(outbox) \in Nat
    BY LenProperties DEF LoopTypeOK
  <2>2. Len(outbox) >= 1 /\ outbox[i] \in Decisions
    BY <2>1, ElementOfSeq
  <2>3. sealed + 1 <= MaxCommands + conn /\ sealed \in Nat
        /\ conn <= MaxConnections
    BY <2>1, <2>2, SafetyLoopAssumption DEF Affordable, LoopTypeOK
  <2>4. sealed + 1 \in Nonces
    BY <2>3, SafetyLoopAssumption DEF LoopTypeOK
  <2>5. QED
    BY <1>1, <2>2, <2>4 DEF Command, CommandPacket, Decisions
<1>3. ASSUME heartbeat_seq < MaxSeq
      PROVE  Beat(heartbeat_seq + 1) \in BeatPacket
  <2>1. heartbeat_seq + 1 \in 1 .. MaxSeq
    BY <1>3, FinalElementAssumption DEF LoopTypeOK
  <2>2. QED
    BY <1>1, <2>1 DEF Beat, BeatPacket
<1>4. last_command_packet # NoPacket =>
         /\ last_command_packet \in CommandPacket
         /\ Respelt(last_command_packet) \in CommandPacket
  BY DEF LoopTypeOK, CommandPacket, Respelt
<1>5. QED
  BY <1>2, <1>3, <1>4 DEF Commands, Beats

(* Every step keeps the handshake in order: it goes hello, public key,
   ciphertext, answer, and nothing is sealed before the answer. *)
LEMMA HandshakeStep ==
    ASSUME LoopTypeOK, Typed, Affordable, HandshakeInv,
           [Next]_<<vars, setting>>
    PROVE  HandshakeInv'
<1> USE DEF HandshakeInv, OneHandshake
<1>0. /\ downlink \in Seq(DownEvents) /\ uplink \in Seq(UpEvents)
      /\ conn \in Nat /\ session \in Nat /\ key_b \in Nat
      /\ session <= conn /\ key_b <= conn
      /\ watchdogs \in Nat /\ due \in Nat /\ due <= watchdogs
      /\ connected \in BOOLEAN /\ served \in BOOLEAN
      /\ AtMostOne(uplink, HandshakeUp) /\ Queued
  BY SafetyLoopAssumption, FinalElementAssumption
     DEF LoopTypeOK, Typed, ElementTypeOK, DueAlive, Queued
<1> DEFINE D == Range(downlink)
           U == Range(uplink)
<1>a. /\ "pqc_hello" \in HandshakeUp /\ "pqc_encapsulation" \in HandshakeUp
      /\ "OPEN" \notin HandshakeUp /\ "CLOSED" \notin HandshakeUp
      /\ HandshakeUp \subseteq UpEvents /\ {"OPEN", "CLOSED"} \subseteq UpEvents
  BY DEF HandshakeUp, UpEvents
<1>b. /\ {PublicKey, Established, Refused} = Signals
      /\ Signals \subseteq DownEvents /\ Traffic \subseteq DownEvents
      /\ Signals \intersect Traffic = {}
      /\ DownEvents = Signals \union Traffic
      /\ PublicKey # Established /\ PublicKey # Refused
      /\ Established # Refused
  BY EventKinds DEF Signals, DownEvents
<1> USE DEF Numbered, Settled, KeyAgreed, Guarded, HandshakeOpen, Unsettled,
            Offered, Sent
<1>1. CASE OnConnect
  <2>1. /\ Queued' /\ ~Offered(Signals)' /\ ~Offered(Traffic)'
        /\ ~Offered({PublicKey, Refused})' /\ ~Offered({Established})'
        /\ ~Sent({"pqc_encapsulation"})'
    BY <1>1, FreshQueues DEF OnConnect
  <2>2. conn' = conn + 1 /\ session' = session
    BY <1>1 DEF OnConnect
  <2>3. QED
    BY <1>0, <2>1, <2>2
<1>2. CASE ClientNoticesClose
  BY <1>0, <1>2 DEF ClientNoticesClose, SetConnected, node, tasks, link, Queued,
                    AtMostOne, EstablishedFirst
<1>3. CASE OnDisconnect
  BY <1>0, <1>3 DEF OnDisconnect, elementVars, node, tasks, Queued, AtMostOne,
                    EstablishedFirst
<1>4. CASE OnLateDisconnect
  BY <1>0, <1>4 DEF OnLateDisconnect, elementVars, node, tasks, link, Queued,
                    AtMostOne, EstablishedFirst
<1>5. CASE HandleHello
  <2>1. PICK i : Receive("pqc_hello", i)
    BY <1>5 DEF HandleHello
  <2>2. /\ served /\ AtMostOne(uplink', HandshakeUp)
        /\ U = {"pqc_hello"} \union Range(uplink')
        /\ Range(uplink') \intersect HandshakeUp = {}
    BY <1>0, <1>a, <2>1, Receives
  <2>3. downlink' = Append(downlink, PublicKey)
    BY <1>0, <1>5, <1>b, <2>2, Emits DEF HandleHello, PublicKey
  <2>4. ~Offered(Signals)
    BY <1>a, <2>2
  <2>5. /\ Range(downlink') = D \union {PublicKey}
        /\ AtMostOne(downlink', Signals) /\ EstablishedFirst(downlink')
    BY <1>0, <1>b, <2>3, <2>4, Emits
  <2>6. UNCHANGED <<connected, key_b, watchdogs, conn, served, session>>
    BY <1>5 DEF HandleHello, elementVars, node, tasks, link
  <2>7. QED
    BY <1>0, <1>a, <1>b, <2>2, <2>4, <2>5, <2>6 DEF Queued
<1>6. CASE HandleEncapsulation
  <2>1. PICK i : Receive("pqc_encapsulation", i)
    BY <1>6 DEF HandleEncapsulation
  <2>2. /\ served /\ AtMostOne(uplink', HandshakeUp)
        /\ U = {"pqc_encapsulation"} \union Range(uplink')
        /\ Range(uplink') \intersect HandshakeUp = {}
    BY <1>0, <1>a, <2>1, Receives
  <2>3. ~Offered(Signals) /\ ~Offered(Traffic)
    BY <1>a, <2>2
  <2>4. UNCHANGED <<connected, key_b, watchdogs, conn, served>>
    BY <1>6 DEF HandleEncapsulation, elementVars, node, tasks, link
  <2>5. CASE session \in {0, conn}
    <3>1. downlink' = Append(downlink, Established) /\ session' = conn
      BY <1>0, <1>6, <1>b, <2>2, <2>5, Emits
         DEF HandleEncapsulation, Established
    <3>2. /\ Range(downlink') = D \union {Established}
          /\ AtMostOne(downlink', Signals) /\ EstablishedFirst(downlink')
      BY <1>0, <1>b, <2>3, <3>1, Emits
    <3>3. QED
      BY <1>0, <1>a, <1>b, <2>2, <2>3, <2>4, <3>1, <3>2 DEF Queued
  <2>6. CASE session \notin {0, conn}
    <3>1. downlink' = Append(downlink, Refused) /\ session' = session
      BY <1>0, <1>6, <1>b, <2>2, <2>6, Emits DEF HandleEncapsulation, Refused
    <3>2. /\ Range(downlink') = D \union {Refused}
          /\ AtMostOne(downlink', Signals) /\ EstablishedFirst(downlink')
      BY <1>0, <1>b, <2>3, <3>1, Emits
    <3>3. QED
      BY <1>0, <1>a, <1>b, <2>2, <2>3, <2>4, <2>6, <3>1, <3>2 DEF Queued
  <2>7. QED
    BY <2>5, <2>6
(* A sealed event goes out under the session. *)
<1>s. ASSUME NEW e \in Traffic, session # 0, downlink' = ToNode(session, <<e>>),
             UNCHANGED <<connected, key_b, watchdogs, conn, served, session,
                         uplink>>
      PROVE  HandshakeInv'
  <2>1. CASE session = conn /\ served
    <3>1. downlink' = Append(downlink, e)
      BY <1>0, <1>b, <1>s, <2>1, Emits
    <3>2. /\ Range(downlink') = D \union {e}
          /\ AtMostOne(downlink', Signals) /\ EstablishedFirst(downlink')
      BY <1>0, <1>b, <3>1, Emits
    <3>3. QED
      BY <1>0, <1>b, <1>s, <2>1, <3>2 DEF Queued
  <2>2. CASE ~(session = conn /\ served)
    <3>1. UNCHANGED channel
      BY <1>0, <1>b, <1>s, <2>2, Emits DEF channel
    <3>2. QED
      BY <3>1, HandshakeFrame
  <2>3. QED
    BY <2>1, <2>2
<1>7. CASE Dispatch
  <2>1. UNCHANGED <<connected, key_b, watchdogs, conn, served, session, uplink>>
    BY <1>7 DEF Dispatch, elementVars, node, tasks, link
  <2>2. PICK i \in DOMAIN outbox :
           IF session = 0 THEN UNCHANGED downlink
           ELSE downlink' = ToNode(session, <<Event("execute_actuator_command",
                                                    Command(outbox[i]))>>)
    BY <1>7 DEF Dispatch
  <2>3. CASE session = 0
    BY <2>1, <2>2, <2>3, HandshakeFrame DEF channel
  <2>4. CASE session # 0
    BY <1>s, <2>1, <2>2, <2>4, SealsPackets DEF Traffic
  <2>5. QED
    BY <2>3, <2>4
<1>8. CASE HandleReport
  <2>1. PICK valve \in {"OPEN", "CLOSED"} : \E i : Receive(valve, i)
    BY <1>8 DEF HandleReport
  <2>2. /\ AtMostOne(uplink', HandshakeUp)
        /\ U = {valve} \union Range(uplink')
    BY <1>0, <1>a, <2>1, Receives
  <2>3. UNCHANGED <<connected, key_b, watchdogs, conn, served, session,
                    downlink>>
    BY <1>8 DEF HandleReport, elementVars, node, tasks, link
  <2>4. QED
    BY <1>0, <1>a, <2>2, <2>3 DEF Queued
<1>9. CASE HeartbeatPass
  <2>1. UNCHANGED <<connected, key_b, watchdogs, conn, served, session, uplink>>
    BY <1>9 DEF HeartbeatPass, elementVars, node, tasks, link
  <2>2. CASE severed \/ session = 0
    BY <1>9, <2>1, <2>2, HandshakeFrame DEF channel, HeartbeatPass
  <2>3. CASE ~(severed \/ session = 0)
    BY <1>9, <1>s, <2>1, <2>3, SealsPackets DEF HeartbeatPass, Traffic
  <2>4. QED
    BY <2>2, <2>3
<1>20. CASE Replay \/ Inject
  <2>1. UNCHANGED <<connected, key_b, watchdogs, conn, served, session, uplink>>
    BY <1>20 DEF Replay, Inject, elementVars, node, tasks, link
  <2>2. QED
    BY <1>20, <1>s, <2>1, SealsPackets DEF Replay, Inject, Traffic
<1>10. CASE OnPublicKey
  <2>1. PICK i : Handle("pqc_public_key", i)
    BY <1>10 DEF OnPublicKey
  <2>2. /\ connected /\ downlink[1] \in DownEvents
        /\ downlink[1].event = "pqc_public_key"
        /\ D = {downlink[1]} \union Range(downlink')
        /\ AtMostOne(downlink', Signals) /\ EstablishedFirst(downlink')
        /\ downlink[1] \in Signals =>
              Range(downlink') \intersect Signals = {}
    BY <1>0, <2>1, Handles
  <2>3. downlink[1] = PublicKey
    BY <1>b, <2>2, EventKinds DEF Traffic
  <2>4. ~Sent(HandshakeUp)
    BY <1>b, <2>2, <2>3
  <2>5. uplink' = Append(uplink, "pqc_encapsulation")
    BY <1>0, <1>a, <1>10, <2>2, Answers DEF OnPublicKey
  <2>6. /\ Range(uplink') = U \union {"pqc_encapsulation"}
        /\ AtMostOne(uplink', HandshakeUp)
    BY <1>0, <1>a, <2>4, <2>5, Answers
  <2>7. key_b' = conn /\ UNCHANGED <<connected, watchdogs, conn, served, session>>
    BY <1>10 DEF OnPublicKey, EstablishSession, serverSide, link, tasks
  <2>8. QED
    BY <1>0, <1>a, <1>b, <2>2, <2>3, <2>4, <2>6, <2>7 DEF Queued
<1>11. CASE OnSessionEstablished
  <2>1. PICK i : Handle("pqc_established", i)
    BY <1>11 DEF OnSessionEstablished
  <2>2. /\ connected /\ downlink[1] \in DownEvents
        /\ downlink[1].event = "pqc_established"
        /\ D = {downlink[1]} \union Range(downlink')
        /\ AtMostOne(downlink', Signals) /\ EstablishedFirst(downlink')
        /\ downlink[1] \in Signals =>
              Range(downlink') \intersect Signals = {}
    BY <1>0, <2>1, Handles
  <2>3. downlink[1] = Established
    BY <1>b, <2>2, EventKinds DEF Traffic
  <2>4. watchdogs' = watchdogs + 1
        /\ UNCHANGED <<connected, key_b, conn, served, session, uplink>>
    BY <1>11 DEF OnSessionEstablished, OnEstablished, serverSide, link
  <2>5. QED
    BY <1>0, <1>a, <1>b, <2>2, <2>3, <2>4 DEF Queued
<1>12. CASE OnRefused
  <2>1. PICK i : Handle("pqc_refused", i)
    BY <1>12 DEF OnRefused
  <2>2. /\ connected
        /\ D = {downlink[1]} \union Range(downlink')
        /\ AtMostOne(downlink', Signals) /\ EstablishedFirst(downlink')
    BY <1>0, <2>1, Handles
  <2>3. ~connected' /\ UNCHANGED <<key_b, conn, served, session, uplink>>
    BY <1>12 DEF OnRefused, serverSide, link, node
  <2>4. QED
    BY <1>0, <1>a, <1>b, <2>2, <2>3 DEF Queued
(* The node takes a sealed event. *)
<1>t. ASSUME NEW name, NEW i, Handle(name, i),
             name \in {"execute_actuator_command", "sis_heartbeat"},
             UNCHANGED <<connected, key_b, watchdogs, conn, served, session>>,
             \/ uplink' = uplink
             \/ uplink' = FromNode("OPEN") \/ uplink' = FromNode("CLOSED")
      PROVE  HandshakeInv'
  <2>2. /\ connected /\ downlink[1] \in DownEvents
        /\ downlink[1].event = name
        /\ D = {downlink[1]} \union Range(downlink')
        /\ AtMostOne(downlink', Signals) /\ EstablishedFirst(downlink')
        /\ downlink[1] \in Traffic => Established \notin D
    BY <1>0, <1>t, Handles
  <2>3. downlink[1] \in Traffic
    BY <1>b, <1>t, <2>2, EventKinds
  <2>4. /\ AtMostOne(uplink', HandshakeUp)
        /\ Range(uplink') \intersect HandshakeUp = U \intersect HandshakeUp
    <3>1. ASSUME NEW e \in {"OPEN", "CLOSED"}, uplink' = FromNode(e)
          PROVE  /\ AtMostOne(uplink', HandshakeUp)
                 /\ Range(uplink') \intersect HandshakeUp
                       = U \intersect HandshakeUp
      <4>1. e \in UpEvents /\ e \notin HandshakeUp
        BY <1>a
      <4>2. uplink' = Append(uplink, e)
        BY <1>0, <2>2, <3>1, <4>1, Answers
      <4>3. /\ Range(uplink') = U \union {e}
            /\ AtMostOne(uplink', HandshakeUp)
        BY <1>0, <4>1, <4>2, Answers
      <4>4. QED
        BY <4>1, <4>3
    <3>2. QED
      BY <1>0, <1>t, <3>1
  <2>5. QED
    BY <1>0, <1>a, <1>b, <1>t, <2>2, <2>3, <2>4 DEF Queued
<1>13. CASE OnActuatorCommand
  <2>1. PICK i :
           /\ Handle("execute_actuator_command", i)
           /\ ProcessCommand(downlink[i].packet)
           /\ uplink' = IF Obeyable(downlink[i].packet)
                        THEN FromNode(ValveAfter(downlink[i].packet))
                        ELSE uplink
    BY <1>13 DEF OnActuatorCommand
  <2>2. UNCHANGED <<connected, key_b, watchdogs, conn, served, session>>
    BY <1>13, <2>1
       DEF OnActuatorCommand, ProcessCommand, serverSide, link, elementVars,
           node, tasks
  <2>3. ValveAfter(downlink[i].packet) \in {"OPEN", "CLOSED"}
    BY DEF ValveAfter, Typed, ElementTypeOK
  <2>4. QED
    BY <1>t, <2>1, <2>2, <2>3
<1>14. CASE OnHeartbeat
  <2>1. PICK i : /\ Handle("sis_heartbeat", i)
                 /\ AcceptHeartbeat(downlink[i].packet)
    BY <1>14 DEF OnHeartbeat
  <2>2. UNCHANGED <<connected, key_b, watchdogs, conn, served, session, uplink>>
    BY <1>14, <2>1
       DEF OnHeartbeat, AcceptHeartbeat, serverSide, link, elementVars, node,
           tasks
  <2>3. QED
    BY <1>t, <2>1, <2>2
<1>15. CASE Watchdog
  <2>1. /\ watchdogs' = IF connected THEN watchdogs ELSE watchdogs - 1
        /\ UNCHANGED <<connected, key_b, conn, served, session, downlink>>
    BY <1>15 DEF Watchdog, WatchdogPass, serverSide, link
  <2>2. /\ AtMostOne(uplink', HandshakeUp)
        /\ Range(uplink') \intersect HandshakeUp = U \intersect HandshakeUp
    <3>1. CASE WatchdogTrips /\ connected
      <4>1. uplink' = Append(uplink, "CLOSED")
        BY <1>0, <1>a, <1>15, <3>1, Answers DEF Watchdog
      <4>2. /\ Range(uplink') = U \union {"CLOSED"}
            /\ AtMostOne(uplink', HandshakeUp)
        BY <1>0, <1>a, <4>1, Answers
      <4>3. QED
        BY <1>a, <4>2
    <3>2. CASE ~(WatchdogTrips /\ connected)
      <4>1. uplink' = uplink
        BY <1>15, <3>2 DEF Watchdog, FromNode
      <4>2. QED
        BY <1>0, <4>1
    <3>3. QED
      BY <3>1, <3>2
  <2>3. QED
    BY <1>0, <1>a, <2>1, <2>2 DEF Queued, AtMostOne, EstablishedFirst
<1>16. CASE Crash
  <2>1. /\ ~served' /\ session' = 0
        /\ UNCHANGED <<connected, key_b, watchdogs, conn, downlink, uplink>>
    BY <1>16 DEF Crash, elementVars, node, tasks
  <2>2. QED
    BY <1>0, <2>1 DEF Queued, AtMostOne, EstablishedFirst
<1>17. CASE PowerCycle
  <2>1. /\ ~connected'
        /\ UNCHANGED <<conn, served, session, downlink, uplink>>
    BY <1>17 DEF PowerCycle, serverSide, link
  <2>2. QED
    BY <1>0, <2>1 DEF Queued, AtMostOne, EstablishedFirst
<1>18. CASE \/ Trip \/ ClearTrip \/ Cut \/ Sever \/ Tick \/ Heal \/ Start
            \/ UNCHANGED <<vars, setting>>
  BY <1>18, ChannelFrame, HandshakeFrame
<1>19. QED
  BY <1>1, <1>2, <1>3, <1>4, <1>5, <1>6, <1>7, <1>8, <1>9, <1>10, <1>11,
     <1>12, <1>13, <1>14, <1>15, <1>16, <1>17, <1>18, <1>20
     DEF Next, ServerHandler, NodeHandler, Environment

-----------------------------------------------------------------------------
(* The node inside the loop takes the steps it takes alone, and two more: it
   is refused, or loses its power. *)
LEMMA ElementSteps ==
    ASSUME LoopTypeOK, HandshakeInv, Affordable, [Next]_<<vars, setting>>
    PROVE  [ElementNext]_elementVars \/ OnRefused \/ PowerCycle
<1>0. downlink \in Seq(DownEvents) /\ Queued
  BY DEF LoopTypeOK, HandshakeInv, OneHandshake
<1>1. CASE OnConnect
  BY <1>1 DEF OnConnect, ElementNext
<1>2. CASE ClientNoticesClose
  BY <1>2 DEF ClientNoticesClose, ElementNext
<1>3. CASE OnPublicKey
  <2>1. connected /\ EstablishSession(conn)
    BY <1>3 DEF OnPublicKey, Handle
  <2>2. conn \in Keys
    BY <2>1, SafetyLoopAssumption DEF LoopTypeOK, HandshakeInv, Numbered
  <2>3. QED
    BY <2>1, <2>2 DEF ElementNext
<1>4. CASE OnSessionEstablished
  BY <1>4 DEF OnSessionEstablished, ElementNext
<1>5. CASE OnActuatorCommand
  <2>1. PICK i : /\ Handle("execute_actuator_command", i)
                 /\ ProcessCommand(downlink[i].packet)
    BY <1>5 DEF OnActuatorCommand
  <2>2. i = 1 /\ downlink[1] \in DownEvents
        /\ downlink[1].event = "execute_actuator_command"
    BY <1>0, <2>1, Handles
  <2>3. downlink[1].packet \in Packet
    BY <2>2, EventKinds, PacketKinds DEF DownEvents, Traffic
  <2>4. QED
    BY <2>1, <2>2, <2>3 DEF ElementNext
<1>6. CASE OnHeartbeat
  <2>1. PICK i : /\ Handle("sis_heartbeat", i)
                 /\ AcceptHeartbeat(downlink[i].packet)
    BY <1>6 DEF OnHeartbeat
  <2>2. i = 1 /\ downlink[1] \in DownEvents
        /\ downlink[1].event = "sis_heartbeat"
    BY <1>0, <2>1, Handles
  <2>3. downlink[1].packet \in Packet
    BY <2>2, EventKinds, PacketKinds DEF DownEvents, Traffic
  <2>4. QED
    BY <2>1, <2>2, <2>3 DEF ElementNext
<1>7. CASE Watchdog
  BY <1>7 DEF Watchdog, ElementNext
<1>8. CASE Tick
  BY <1>8 DEF Tick, ElementNext
<1>9. CASE OnRefused \/ PowerCycle
  BY <1>9
<1>10. CASE OnDisconnect \/ OnLateDisconnect \/ HandleHello
            \/ HandleEncapsulation \/ Dispatch \/ HandleReport
            \/ HeartbeatPass
  BY <1>10 DEF OnDisconnect, OnLateDisconnect, HandleHello,
               HandleEncapsulation, Dispatch, HandleReport, HeartbeatPass
<1>11. CASE Trip \/ ClearTrip \/ Cut \/ Sever \/ Replay \/ Inject \/ Crash \/ Heal
            \/ Start \/ UNCHANGED <<vars, setting>>
  BY <1>11 DEF Trip, ClearTrip, Cut, Sever, Replay, Inject, Crash, Heal, Start, vars
<1>12. QED
  BY <1>1, <1>2, <1>3, <1>4, <1>5, <1>6, <1>7, <1>8, <1>9, <1>10, <1>11
     DEF Next, ServerHandler, NodeHandler, Environment

(* What holds of the node alone holds of it in the loop, except that the nonce
   store does not outlive its process. *)
LEMMA ElementStep ==
    ASSUME LoopTypeOK, HandshakeInv, Affordable, Typed, Counted, Watched,
           [Next]_<<vars, setting>>
    PROVE  Typed' /\ Counted' /\ Watched'
<1>1. CASE [ElementNext]_elementVars
  BY <1>1, TypedStep, CountedStep, WatchedStep
<1>2. CASE OnRefused
  <2>1. /\ connected' = FALSE /\ watchdogs' = 0 /\ due' = 0
        /\ UNCHANGED <<key_b, valve_state, last_heartbeat, last_seq,
                       tripped_by_watchdog, seen_command_nonces, obeyed,
                       heard, unheard, exposed>>
    BY <1>2 DEF OnRefused, node, counters
  <2>2. UNCHANGED <<Never, AgeCap>> /\ 0 \in 0 .. MaxWatchdogs
    BY FinalElementAssumption DEF Never, AgeCap
  <2>3. Typed'
    <3>1. ElementTypeOK'
      BY <2>1, <2>2 DEF Typed, ElementTypeOK
    <3>2. due' <= watchdogs'
      BY <2>1
    <3>3. QED
      BY <3>1, <3>2 DEF Typed, DueAlive
  <2>4. Counted'
    BY <2>1 DEF Counted, CountedBeats, BeatCountedOnce, DeadlineHonest
  <2>5. Watched'
    BY <2>1, <2>2
       DEF Watched, DeadlineHasKey, WatchdogNotBlind, ExposedIsOpen,
           PassComing, WatchedValveCloses, TooLongUnheard
  <2>6. QED
    BY <2>3, <2>4, <2>5
<1>3. CASE PowerCycle
  <2>1. /\ connected' = FALSE /\ key_b' = NoKey /\ valve_state' = "OPEN"
        /\ last_heartbeat' = Never /\ last_seq' = 0
        /\ tripped_by_watchdog' = FALSE /\ seen_command_nonces' = {}
        /\ watchdogs' = 0 /\ due' = 0
        /\ heard' = [s \in 0 .. MaxSeq |-> 0]
        /\ unheard' = Never /\ exposed' = 0
        /\ obeyed' = obeyed
    BY <1>3 DEF PowerCycle
  <2>2. /\ UNCHANGED <<Never, AgeCap>> /\ 0 \in 0 .. MaxWatchdogs
        /\ Never \in Never .. AgeCap /\ 0 \in 0 .. MaxSeq
    BY FinalElementAssumption DEF Never, AgeCap
  <2>3. Typed'
    <3>1. heard' \in [0 .. MaxSeq -> 0 .. 2]
      BY <2>1
    <3>2. obeyed' \in [Nonces -> 0 .. 2] /\ 0 \in 0 .. 2
      BY <2>1 DEF Typed, ElementTypeOK
    <3>3. ElementTypeOK'
      BY <2>1, <2>2, <3>1, <3>2 DEF ElementTypeOK
    <3>4. due' <= watchdogs'
      BY <2>1
    <3>5. QED
      BY <3>3, <3>4 DEF Typed, DueAlive
  <2>4. Counted'
    BY <2>1 DEF Counted, CountedBeats, BeatCountedOnce, DeadlineHonest
  <2>5. Watched'
    BY <2>1, <2>2
       DEF Watched, DeadlineHasKey, WatchdogNotBlind, ExposedIsOpen,
           PassComing, WatchedValveCloses, TooLongUnheard
  <2>6. QED
    BY <2>3, <2>4, <2>5
<1>4. QED
  BY <1>1, <1>2, <1>3, ElementSteps

-----------------------------------------------------------------------------
(* Who puts an event in flight, and who takes it out. *)

(* The server sends e, to the connection there is. *)
Sends(e) ==
    /\ served /\ alive
    /\ \/ HandleHello /\ e = PublicKey
       \/ HandleEncapsulation /\ e \in {Established, Refused}
       \/ /\ Dispatch /\ session = conn /\ session # 0
          /\ \E i \in DOMAIN outbox :
                /\ e = Event("execute_actuator_command", Command(outbox[i]))
                /\ sealed' = sealed + 1
                /\ last_command_packet' = Command(outbox[i])
                /\ outbox' = RemoveAt(outbox, i)
       \/ /\ HeartbeatPass /\ session = conn /\ session # 0 /\ ~severed
          /\ e = Event("sis_heartbeat", Beat(heartbeat_seq + 1))
       \/ /\ Replay /\ session = conn /\ session # 0
          /\ e = Event("execute_actuator_command", last_command_packet)
       \/ /\ Inject /\ session = conn /\ session # 0
          /\ e = Event("execute_actuator_command",
                       Respelt(last_command_packet))

(* The node handles e. *)
Takes(e) ==
    /\ connected /\ linked
    /\ \/ OnPublicKey /\ e = PublicKey
       \/ OnSessionEstablished /\ e = Established
       \/ OnRefused /\ e = Refused
       \/ OnActuatorCommand /\ e \in Commands
       \/ OnHeartbeat /\ e \in Beats

(* Events are appended by the server and taken in order by the node; what is
   left over is lost with its connection. *)
LEMMA DownlinkSteps ==
    ASSUME LoopTypeOK, Affordable, HandshakeInv, [Next]_<<vars, setting>>
    PROVE  \/ downlink' = downlink
           \/ OnConnect /\ downlink' = <<>>
           \/ /\ downlink # <<>> /\ downlink' = Tail(downlink)
              /\ downlink[1] \in DownEvents
              /\ Range(downlink) = {downlink[1]} \union Range(downlink')
              /\ Takes(downlink[1])
           \/ \E e \in DownEvents :
                 downlink' = Append(downlink, e) /\ Sends(e)
<1>0. downlink \in Seq(DownEvents) /\ Queued
  BY DEF LoopTypeOK, HandshakeInv, OneHandshake
<1>a. /\ PublicKey \in DownEvents /\ Established \in DownEvents
      /\ Refused \in DownEvents /\ Traffic \subseteq DownEvents
  BY DEF DownEvents, Signals
<1>d. ASSUME NEW e \in DownEvents, NEW sid, downlink' = ToNode(sid, <<e>>)
      PROVE  \/ downlink' = downlink
             \/ served /\ sid = conn /\ downlink' = Append(downlink, e)
  BY <1>0, <1>d, Emits
<1>h. ASSUME NEW name, NEW i, Handle(name, i)
      PROVE  /\ connected /\ linked
             /\ downlink # <<>> /\ downlink' = Tail(downlink)
             /\ downlink[1] \in DownEvents /\ downlink[1].event = name
             /\ Range(downlink) = {downlink[1]} \union Range(downlink')
  BY <1>0, <1>h, Handles
<1>k. ASSUME NEW e \in DownEvents
      PROVE  /\ e.event = "pqc_public_key" => e = PublicKey
             /\ e.event = "pqc_established" => e = Established
             /\ e.event = "pqc_refused" => e = Refused
             /\ e.event = "execute_actuator_command" => e \in Commands
             /\ e.event = "sis_heartbeat" => e \in Beats
  <2>1. CASE e \in Signals
    BY <2>1, EventKinds
  <2>2. CASE e \in Commands
    BY <2>2, EventKinds
  <2>3. CASE e \in Beats
    BY <2>3, EventKinds
  <2>4. QED
    BY <1>k, <2>1, <2>2, <2>3 DEF DownEvents, Traffic
<1>1. CASE OnConnect
  BY <1>1 DEF OnConnect
<1>2. CASE HandleHello
  <2>1. downlink' = ToNode(conn, <<PublicKey>>) /\ alive
    BY <1>2 DEF HandleHello, PublicKey, Receive
  <2>2. QED
    BY <1>2, <1>a, <1>d, <2>1 DEF Sends
<1>3. CASE HandleEncapsulation
  <2>1. PICK e \in {Established, Refused} : downlink' = ToNode(conn, <<e>>)
    BY <1>3 DEF HandleEncapsulation, Established, Refused
  <2>2. alive
    BY <1>3 DEF HandleEncapsulation, Receive
  <2>3. QED
    BY <1>3, <1>a, <1>d, <2>1, <2>2 DEF Sends
<1>4. CASE Dispatch
  <2>1. PICK i \in DOMAIN outbox :
           /\ outbox' = RemoveAt(outbox, i)
           /\ IF session = 0 THEN UNCHANGED downlink
              ELSE /\ sealed' = sealed + 1
                   /\ last_command_packet' = Command(outbox[i])
                   /\ downlink' = ToNode(session,
                                     <<Event("execute_actuator_command",
                                             Command(outbox[i]))>>)
    BY <1>4 DEF Dispatch
  <2>2. CASE session = 0
    BY <2>1, <2>2
  <2>3. CASE session # 0
    <3>1. PICK e : e = Event("execute_actuator_command", Command(outbox[i]))
      OBVIOUS
    <3>2. e \in DownEvents
      BY <1>a, <2>3, <3>1, SealsPackets DEF Traffic
    <3>3. \/ downlink' = downlink
          \/ served /\ session = conn /\ downlink' = Append(downlink, e)
      BY <1>d, <2>1, <2>3, <3>1, <3>2
    <3>4. alive
      BY <1>4 DEF Dispatch
    <3>5. served /\ session = conn => Sends(e)
      BY <1>4, <2>1, <2>3, <3>1, <3>4 DEF Sends
    <3>6. QED
      BY <3>2, <3>3, <3>5
  <2>4. QED
    BY <2>2, <2>3
<1>5. CASE HeartbeatPass
  <2>1. CASE severed \/ session = 0
    BY <1>5, <2>1 DEF HeartbeatPass
  <2>2. CASE ~(severed \/ session = 0)
    <3>1. /\ heartbeat_seq < MaxSeq /\ alive
          /\ downlink' = ToNode(session, <<Event("sis_heartbeat",
                                                 Beat(heartbeat_seq + 1))>>)
      BY <1>5, <2>2 DEF HeartbeatPass
    <3>2. Event("sis_heartbeat", Beat(heartbeat_seq + 1)) \in DownEvents
      BY <1>a, <2>2, <3>1, SealsPackets DEF Traffic
    <3>3. QED
      BY <1>5, <1>d, <2>2, <3>1, <3>2 DEF Sends
  <2>3. QED
    BY <2>1, <2>2
<1>6. CASE Replay
  <2>1. /\ last_command_packet # NoPacket /\ session # 0 /\ alive
        /\ downlink' = ToNode(session, <<Event("execute_actuator_command",
                                               last_command_packet)>>)
    BY <1>6 DEF Replay
  <2>2. Event("execute_actuator_command", last_command_packet) \in DownEvents
    BY <1>a, <2>1, SealsPackets DEF Traffic
  <2>3. QED
    BY <1>6, <1>d, <2>1, <2>2 DEF Sends
<1>i. CASE Inject
  <2>1. PICK e : e = Event("execute_actuator_command",
                           Respelt(last_command_packet))
    OBVIOUS
  <2>2. /\ last_command_packet # NoPacket /\ session # 0 /\ alive
        /\ downlink' = ToNode(session, <<e>>)
    BY <1>i, <2>1 DEF Inject
  <2>3. e \in DownEvents
    BY <1>a, <2>1, <2>2, SealsPackets DEF Traffic
  <2>4. QED
    BY <1>i, <1>d, <2>1, <2>2, <2>3 DEF Sends
<1>7. CASE OnPublicKey
  BY <1>7, <1>h, <1>k DEF OnPublicKey, Takes
<1>8. CASE OnSessionEstablished
  BY <1>8, <1>h, <1>k DEF OnSessionEstablished, Takes
<1>9. CASE OnRefused
  BY <1>9, <1>h, <1>k DEF OnRefused, Takes
<1>10. CASE OnActuatorCommand
  BY <1>10, <1>h, <1>k DEF OnActuatorCommand, Takes
<1>11. CASE OnHeartbeat
  BY <1>11, <1>h, <1>k DEF OnHeartbeat, Takes
<1>12. CASE \/ ClientNoticesClose \/ OnDisconnect \/ OnLateDisconnect
            \/ HandleReport \/ Watchdog \/ Trip \/ ClearTrip
  BY <1>12 DEF ClientNoticesClose, OnDisconnect, OnLateDisconnect,
               HandleReport, Watchdog, Trip, ClearTrip
<1>13. CASE \/ Cut \/ Sever \/ Crash \/ PowerCycle \/ Tick \/ Heal \/ Start
            \/ UNCHANGED <<vars, setting>>
  BY <1>13 DEF Cut, Sever, Crash, PowerCycle, Tick, Heal, Start, vars
<1>14. QED
  BY <1>1, <1>2, <1>3, <1>4, <1>5, <1>6, <1>i, <1>7, <1>8, <1>9, <1>10, <1>11,
     <1>12, <1>13 DEF Next, ServerHandler, NodeHandler, Environment

(* What is new on the downlink was sent, what is gone was handled or lost. *)
LEMMA DownlinkFlow ==
    ASSUME LoopTypeOK, Affordable, HandshakeInv, [Next]_<<vars, setting>>
    PROVE  /\ \A e \in Range(downlink') \ Range(downlink) : Sends(e)
           /\ \A e \in Range(downlink) \ Range(downlink') :
                 OnConnect \/ (Takes(e) /\ e = downlink[1])
<1>0. downlink \in Seq(DownEvents)
  BY DEF LoopTypeOK
<1>1. CASE downlink' = downlink
  BY <1>1
<1>2. CASE OnConnect /\ downlink' = <<>>
  <2>1. DOMAIN downlink' = {}
    BY <1>2
  <2>2. Range(downlink') = {}
    BY <2>1 DEF Range
  <2>3. QED
    BY <1>2, <2>2
<1>3. CASE /\ Range(downlink) = {downlink[1]} \union Range(downlink')
           /\ Takes(downlink[1])
  BY <1>3
<1>4. ASSUME NEW e \in DownEvents, downlink' = Append(downlink, e), Sends(e)
      PROVE  /\ \A x \in Range(downlink') \ Range(downlink) : Sends(x)
             /\ Range(downlink) \ Range(downlink') = {}
  <2>1. Range(Append(downlink, e)) = Range(downlink) \union {e}
    BY <1>0, AppendRange
  <2>2. QED
    BY <1>4, <2>1
<1>5. QED
  BY <1>1, <1>2, <1>3, <1>4, DownlinkSteps

-----------------------------------------------------------------------------
(* What is in flight, and what is decided, is always well formed. *)
LEMMA QueuesStep ==
    ASSUME LoopTypeOK, Typed, Affordable, HandshakeInv,
           [Next]_<<vars, setting>>
    PROVE  /\ downlink' \in Seq(DownEvents) /\ uplink' \in Seq(UpEvents)
           /\ outbox' \in Seq(Decisions)
<1>0. /\ downlink \in Seq(DownEvents) /\ uplink \in Seq(UpEvents)
      /\ outbox \in Seq(Decisions) /\ Queued
      /\ AtMostOne(uplink, HandshakeUp)
  BY DEF LoopTypeOK, HandshakeInv, OneHandshake, Queued
<1>a. /\ "pqc_encapsulation" \in UpEvents
      /\ "OPEN" \in UpEvents /\ "CLOSED" \in UpEvents
  BY DEF UpEvents, HandshakeUp
<1>r. ASSUME NEW e, NEW i, Receive(e, i)
      PROVE  uplink' \in Seq(UpEvents)
  BY <1>0, <1>r, Receives
<1>f. ASSUME NEW e \in UpEvents, uplink' = FromNode(e)
      PROVE  uplink' \in Seq(UpEvents)
  BY <1>0, <1>f, Answers
<1>o. ASSUME NEW c \in Decisions, outbox' = Append(outbox, c)
      PROVE  outbox' \in Seq(Decisions)
  BY <1>0, <1>o, AppendQueue
<1>1. downlink' \in Seq(DownEvents)
  <2>1. <<>> \in Seq(DownEvents)
    OBVIOUS
  <2>2. ASSUME downlink # <<>>
        PROVE  Tail(downlink) \in Seq(DownEvents)
    BY <1>0, <2>2, TailQueue
  <2>3. ASSUME NEW x \in DownEvents
        PROVE  Append(downlink, x) \in Seq(DownEvents)
    BY <1>0, AppendQueue
  <2>4. QED
    BY <1>0, <2>1, <2>2, <2>3, DownlinkSteps
<1>2. uplink' \in Seq(UpEvents)
  <2>1. CASE OnConnect
    BY <2>1, FreshQueues DEF OnConnect
  <2>2. CASE HandleHello \/ HandleEncapsulation \/ HandleReport
    BY <1>r, <2>2 DEF HandleHello, HandleEncapsulation, HandleReport
  <2>3. CASE OnPublicKey
    BY <1>a, <1>f, <2>3 DEF OnPublicKey
  <2>4. CASE OnActuatorCommand
    <3>1. PICK i : uplink' = IF Obeyable(downlink[i].packet)
                             THEN FromNode(ValveAfter(downlink[i].packet))
                             ELSE uplink
      BY <2>4 DEF OnActuatorCommand
    <3>2. ValveAfter(downlink[i].packet) \in UpEvents
      BY <1>a DEF ValveAfter, Typed, ElementTypeOK
    <3>3. QED
      BY <1>0, <1>f, <3>1, <3>2
  <2>5. CASE Watchdog
    BY <1>0, <1>a, <1>f, <2>5 DEF Watchdog
  <2>6. CASE \/ ClientNoticesClose \/ OnDisconnect \/ OnLateDisconnect
             \/ Dispatch \/ HeartbeatPass \/ OnSessionEstablished
             \/ OnRefused \/ OnHeartbeat \/ Trip \/ ClearTrip \/ Replay \/ Inject
    BY <1>0, <2>6 DEF ClientNoticesClose, OnDisconnect, OnLateDisconnect,
                      Dispatch, HeartbeatPass, OnSessionEstablished,
                      OnRefused, OnHeartbeat, Trip, ClearTrip, Replay,
                      Inject
  <2>7. CASE \/ Cut \/ Sever \/ Crash \/ PowerCycle \/ Tick \/ Heal \/ Start
             \/ UNCHANGED <<vars, setting>>
    BY <1>0, <2>7 DEF Cut, Sever, Crash, PowerCycle, Tick, Heal, Start, vars
  <2>8. QED
    BY <2>1, <2>2, <2>3, <2>4, <2>5, <2>6, <2>7
       DEF Next, ServerHandler, NodeHandler, Environment
<1>3. outbox' \in Seq(Decisions)
  <2>1. CASE HandleEncapsulation
    <3>1. SyncCommand \in Decisions
      BY DEF SyncCommand, Decisions
    <3>2. QED
      BY <1>0, <1>o, <2>1, <3>1 DEF HandleEncapsulation, AfterHandshake
  <2>2. CASE Dispatch
    <3>1. PICK i \in DOMAIN outbox : outbox' = RemoveAt(outbox, i)
      BY <2>2 DEF Dispatch
    <3>2. i \in 1 .. Len(outbox)
      BY <1>0, <3>1, LenProperties
    <3>3. QED
      BY <1>0, <3>1, <3>2, RemoveQueue
  <2>3. CASE Trip \/ ClearTrip
    BY <1>0, <1>o, <2>3 DEF Trip, ClearTrip, Decisions
  <2>4. CASE Crash
    BY <2>4 DEF Crash
  <2>5. CASE \/ OnConnect \/ ClientNoticesClose \/ OnDisconnect
             \/ OnLateDisconnect \/ HandleHello \/ HandleReport
             \/ HeartbeatPass
    BY <1>0, <2>5 DEF OnConnect, ClientNoticesClose, OnDisconnect,
                      OnLateDisconnect, HandleHello, HandleReport,
                      HeartbeatPass
  <2>6. CASE \/ OnPublicKey \/ OnSessionEstablished \/ OnRefused
             \/ OnActuatorCommand \/ OnHeartbeat \/ Watchdog \/ PowerCycle
    BY <1>0, <2>6 DEF OnPublicKey, OnSessionEstablished, OnRefused,
                      OnActuatorCommand, OnHeartbeat, Watchdog, PowerCycle,
                      serverSide
  <2>7. CASE \/ Cut \/ Sever \/ Replay \/ Inject \/ Tick \/ Heal \/ Start
             \/ UNCHANGED <<vars, setting>>
    BY <1>0, <2>7 DEF Cut, Sever, Replay, Inject, Tick, Heal, Start, vars
  <2>8. QED
    BY <2>1, <2>2, <2>3, <2>4, <2>5, <2>6, <2>7
       DEF Next, ServerHandler, NodeHandler, Environment
<1>4. QED
  BY <1>1, <1>2, <1>3

(* Every state is well formed. *)
LEMMA LoopTypedStep ==
    ASSUME LoopTypeOK, Typed, Affordable, HandshakeInv,
           [Next]_<<vars, setting>>, setting' = setting
    PROVE  LoopTypeOK'
<1>0. /\ downlink' \in Seq(DownEvents) /\ uplink' \in Seq(UpEvents)
      /\ outbox' \in Seq(Decisions)
  BY QueuesStep
<1>a. /\ MaxConnections \in Nat /\ MaxSeq \in Nat /\ PingTimeout \in Nat
      /\ HEARTBEAT_PERIOD_S \in Nat /\ HEARTBEAT_PERIOD_S > 0
      /\ Never = -1 /\ NoKey = 0
  BY SafetyLoopAssumption, FinalElementAssumption DEF Never
<1> USE DEF LoopTypeOK
<1>1. CASE OnConnect
  BY <1>0, <1>1, <1>a DEF OnConnect, SetConnected, node, solver, beats,
                          loopHistory
<1>2. CASE ClientNoticesClose
  BY <1>0, <1>2, <1>a DEF ClientNoticesClose, SetConnected, node, solver,
                          beats, link
<1>3. CASE OnDisconnect
  <2>1. session' \in 0 .. conn /\ served' = FALSE
    BY <1>3, <1>a DEF OnDisconnect
  <2>2. UNCHANGED <<elementVars, alive, solver, beats, conn, linked, silent,
                    cuts, stopped, clock, loopHistory>>
    BY <1>3 DEF OnDisconnect
  <2>3. QED
    BY <1>0, <1>a, <2>1, <2>2
       DEF elementVars, node, solver, beats, loopHistory, Never
<1>4. CASE OnLateDisconnect
  BY <1>0, <1>4, <1>a DEF OnLateDisconnect, elementVars, node, solver, beats,
                          link, loopHistory
<1>5. CASE HandleHello
  BY <1>0, <1>5, <1>a DEF HandleHello, elementVars, node, solver, beats,
                          link, loopHistory
<1>6. CASE HandleEncapsulation
  <2>1. session' \in 0 .. conn /\ conn' = conn
    BY <1>6, <1>a DEF HandleEncapsulation, link
  <2>2. beat_timer' \in Never .. HEARTBEAT_PERIOD_S
    BY <1>6, <1>a DEF HandleEncapsulation, HeartbeatStarted
  <2>3. UNCHANGED <<elementVars, alive, solver, heartbeat_seq, link, stopped,
                    clock, loopHistory>>
    BY <1>6 DEF HandleEncapsulation
  <2>4. QED
    BY <1>0, <1>a, <2>1, <2>2, <2>3
       DEF elementVars, node, solver, link, loopHistory, Never
<1>7. CASE Dispatch
  <2>1. UNCHANGED <<elementVars, alive, trip_state, severed, beats, session,
                    link, uplink, stopped, clock, demand, missed, deserted>>
    BY <1>7 DEF Dispatch
  <2>l. late' \in BOOLEAN
    BY <1>0, <1>7 DEF Dispatch, LoopTypeOK
  <2>2. PICK i \in DOMAIN outbox :
           IF session = 0 THEN UNCHANGED <<sealed, last_command_packet>>
           ELSE /\ sealed' = sealed + 1
                /\ last_command_packet' = Command(outbox[i])
    BY <1>7 DEF Dispatch
  <2>3. session # 0 => Command(outbox[i]) \in CommandPacket
    BY SealsPackets
  <2>4. /\ sealed' \in Nat
        /\ last_command_packet' \in CommandPacket \union {NoPacket}
    BY <2>2, <2>3
  <2>5. QED
    BY <1>0, <1>a, <2>1, <2>l, <2>4
       DEF elementVars, node, beats, link, loopHistory, Never
<1>8. CASE HandleReport
  <2>1. trip_state' \in {"HEALTHY", "TRIPPED"}
    BY <1>8 DEF HandleReport, LatchAfter
  <2>2. UNCHANGED <<elementVars, alive, severed, last_command_packet, sealed,
                    beats, session, link, stopped, clock, loopHistory>>
    BY <1>8 DEF HandleReport
  <2>3. QED
    BY <1>0, <1>a, <2>1, <2>2
       DEF elementVars, node, beats, link, loopHistory, Never
<1>9. CASE HeartbeatPass
  <2>1. heartbeat_seq' \in 0 .. MaxSeq
    BY <1>9, <1>a DEF HeartbeatPass
  <2>2. /\ beat_timer' = HEARTBEAT_PERIOD_S
        /\ UNCHANGED <<elementVars, alive, solver, session, link, stopped,
                       clock, loopHistory>>
    BY <1>9 DEF HeartbeatPass
  <2>3. QED
    BY <1>0, <1>a, <2>1, <2>2
       DEF elementVars, node, solver, link, loopHistory, Never
<1>10. CASE OnPublicKey
  BY <1>0, <1>10, <1>a DEF OnPublicKey, EstablishSession, serverSide, solver,
                           beats, link, loopHistory
<1>11. CASE OnSessionEstablished
  BY <1>0, <1>11, <1>a DEF OnSessionEstablished, OnEstablished, serverSide,
                           solver, beats, link
<1>12. CASE OnRefused
  BY <1>0, <1>12, <1>a DEF OnRefused, node, serverSide, solver, beats, link,
                           loopHistory
<1>13. CASE OnActuatorCommand
  <2>1. key_b' = key_b
    BY <1>13 DEF OnActuatorCommand, ProcessCommand, elementVars, node
  <2>2. UNCHANGED <<serverSide, stopped, clock, loopHistory>>
    BY <1>13 DEF OnActuatorCommand
  <2>3. QED
    BY <1>0, <1>a, <2>1, <2>2
       DEF serverSide, solver, beats, link, loopHistory, Never
<1>14. CASE OnHeartbeat
  <2>1. key_b' = key_b
    BY <1>14 DEF OnHeartbeat, AcceptHeartbeat, elementVars, node
  <2>2. missed' \in BOOLEAN
    BY <1>14 DEF OnHeartbeat
  <2>3. UNCHANGED <<serverSide, stopped, clock, demand, late, deserted>>
    BY <1>14 DEF OnHeartbeat
  <2>4. QED
    BY <1>0, <1>a, <2>1, <2>2, <2>3 DEF serverSide, solver, beats, link, Never
<1>15. CASE Watchdog
  BY <1>0, <1>15, <1>a DEF Watchdog, WatchdogPass, serverSide, solver, beats,
                           link, loopHistory
<1>16. CASE Trip
  BY <1>0, <1>16, <1>a DEF Trip, elementVars, node, beats, link
<1>17. CASE ClearTrip
  BY <1>0, <1>17, <1>a DEF ClearTrip, elementVars, node, beats, link
<1>18. CASE Cut \/ Heal
  <2>1. linked' \in BOOLEAN /\ silent' \in 0 .. PingTimeout /\ cuts' \in Nat
    <3>1. CASE Cut
      <4>1. linked' = FALSE
        BY <3>1 DEF Cut
      <4>2. silent' = silent /\ cuts' = cuts + 1
        BY <3>1 DEF Cut
      <4>3. linked' \in BOOLEAN
        BY <4>1
      <4>4. QED
        BY <4>2, <4>3
    <3>2. CASE Heal
      BY <1>a, <3>2 DEF Heal
    <3>3. QED
      BY <1>18, <3>1, <3>2
  <2>2. UNCHANGED <<elementVars, alive, solver, beats, session, conn, served,
                    stopped, clock, loopHistory>>
    BY <1>18 DEF Cut, Heal
  <2>3. QED
    BY <1>0, <1>a, <2>1, <2>2
       DEF elementVars, node, solver, beats, loopHistory, Never
<1>19. CASE Sever
  BY <1>0, <1>19, <1>a DEF Sever, elementVars, node, solver, beats, link,
                           loopHistory
<1>s. CASE Start
  BY <1>0, <1>s, <1>a DEF Start, elementVars, node, solver, beats, link,
                          loopHistory
<1>20. CASE Replay \/ Inject
  BY <1>0, <1>20, <1>a DEF Replay, Inject, elementVars, node, solver, beats,
                           link, loopHistory
<1>21. CASE Crash
  <2>1. /\ UNCHANGED <<elementVars, sealed, conn, linked, silent, cuts,
                       stopped, clock, missed, deserted>>
        /\ alive' = FALSE /\ served' = FALSE /\ severed' = FALSE
        /\ demand' = FALSE /\ late' = FALSE /\ trip_state' = "HEALTHY"
        /\ heartbeat_seq' = 0 /\ session' = 0 /\ beat_timer' = Never
        /\ last_command_packet' = NoPacket
    BY <1>21 DEF Crash
  <2>2. /\ NoPacket \in CommandPacket \union {NoPacket}
        /\ 0 \in 0 .. MaxSeq /\ 0 \in 0 .. conn /\ Never' = Never
    BY <1>a DEF Never
  <2>3. /\ alive' \in BOOLEAN /\ served' \in BOOLEAN /\ severed' \in BOOLEAN
        /\ demand' \in BOOLEAN /\ late' \in BOOLEAN
    BY <2>1
  <2>4. key_b' \in 0 .. conn' /\ session' \in 0 .. conn'
    BY <1>a, <2>1, <2>2 DEF elementVars, node
  <2>5. /\ last_command_packet' \in CommandPacket \union {NoPacket}
        /\ beat_timer' \in Never .. HEARTBEAT_PERIOD_S
    BY <1>a, <2>1, <2>2
  <2>6. QED
    BY <1>0, <2>1, <2>2, <2>3, <2>4, <2>5
<1>22. CASE PowerCycle
  <2>1. /\ key_b' = NoKey /\ stopped' = FALSE /\ deserted' = FALSE
        /\ UNCHANGED <<serverSide, clock, demand, late, missed>>
    BY <1>22 DEF PowerCycle
  <2>2. stopped' \in BOOLEAN /\ deserted' \in BOOLEAN
    BY <2>1
  <2>3. key_b' \in 0 .. conn
    BY <1>a, <2>1
  <2>4. QED
    BY <1>0, <2>1, <2>2, <2>3 DEF serverSide, solver, beats, link, Never
<1>23. CASE Tick
  <2>1. key_b' = key_b
    BY <1>23 DEF Tick, Second
  <2>2. beat_timer' \in Never .. HEARTBEAT_PERIOD_S /\ silent' \in 0 .. PingTimeout
        /\ clock' \in Nat
    BY <1>23, <1>a DEF Tick
  <2>3. UNCHANGED <<alive, solver, heartbeat_seq, session, conn, served,
                    linked, cuts, stopped, loopHistory>>
    BY <1>23 DEF Tick
  <2>4. QED
    BY <1>0, <1>a, <2>1, <2>2, <2>3 DEF solver, loopHistory, Never
<1>24. CASE UNCHANGED <<vars, setting>>
  BY <1>0, <1>24, <1>a DEF vars, elementVars, node, solver, beats, link,
                           loopHistory
<1>25. QED
  BY <1>1, <1>2, <1>3, <1>4, <1>5, <1>6, <1>7, <1>8, <1>9, <1>10, <1>11,
     <1>12, <1>13, <1>14, <1>15, <1>16, <1>17, <1>18, <1>19, <1>s, <1>20,
     <1>21, <1>22, <1>23, <1>24 DEF Next, ServerHandler, NodeHandler, Environment

(* An event is new on the uplink when the connected node sends it. *)
LEMMA UplinkGrows ==
    ASSUME LoopTypeOK, Typed, HandshakeInv, [Next]_<<vars, setting>>,
           NEW e \in Range(uplink'), e \notin Range(uplink)
    PROVE  \/ OnConnect /\ e = "pqc_hello"
           \/ OnPublicKey /\ e = "pqc_encapsulation"
           \/ /\ OnActuatorCommand /\ connected
              /\ \E p : /\ downlink # <<>> /\ downlink[1] \in Commands
                        /\ p = downlink[1].packet
                        /\ Obeyable(p) /\ e = ValveAfter(p)
           \/ Watchdog /\ connected /\ WatchdogTrips /\ e = "CLOSED"
<1>0. /\ downlink \in Seq(DownEvents) /\ uplink \in Seq(UpEvents) /\ Queued
      /\ AtMostOne(uplink, HandshakeUp)
  BY DEF LoopTypeOK, HandshakeInv, OneHandshake, Queued
<1>a. /\ "pqc_encapsulation" \in UpEvents
      /\ "OPEN" \in UpEvents /\ "CLOSED" \in UpEvents
  BY DEF UpEvents, HandshakeUp
<1>f. ASSUME NEW x \in UpEvents, uplink' = FromNode(x)
      PROVE  connected /\ e = x
  <2>1. uplink' # uplink
    OBVIOUS
  <2>2. /\ FromNode(x) = IF connected THEN Append(uplink, x) ELSE uplink
        /\ Range(Append(uplink, x)) = Range(uplink) \union {x}
    BY <1>0, Answers
  <2>3. connected /\ uplink' = Append(uplink, x)
    BY <1>f, <2>1, <2>2
  <2>4. QED
    BY <2>2, <2>3
<1>r. ASSUME NEW x, NEW i, Receive(x, i)
      PROVE  FALSE
  BY <1>0, <1>r, Receives
<1>1. CASE OnConnect
  <2>1. uplink' = <<"pqc_hello">>
    BY <1>1 DEF OnConnect
  <2>2. DOMAIN uplink' = {1} /\ uplink'[1] = "pqc_hello"
    BY <2>1
  <2>3. e = "pqc_hello"
    BY <2>2 DEF Range
  <2>4. QED
    BY <1>1, <2>3
<1>2. CASE OnPublicKey
  BY <1>2, <1>a, <1>f DEF OnPublicKey
<1>3. CASE OnActuatorCommand
  <2>1. PICK i : /\ Handle("execute_actuator_command", i)
                 /\ uplink' = IF Obeyable(downlink[i].packet)
                              THEN FromNode(ValveAfter(downlink[i].packet))
                              ELSE uplink
    BY <1>3 DEF OnActuatorCommand
  <2>2. /\ i = 1 /\ downlink # <<>> /\ downlink[1] \in DownEvents
        /\ downlink[1].event = "execute_actuator_command"
    BY <1>0, <2>1, Handles
  <2>3. downlink[1] \in Commands
    BY <2>2, EventKinds DEF DownEvents, Traffic
  <2>4. ValveAfter(downlink[1].packet) \in UpEvents
    BY <1>a DEF ValveAfter, Typed, ElementTypeOK
  <2>5. Obeyable(downlink[1].packet)
    BY <2>1, <2>2
  <2>6. connected /\ e = ValveAfter(downlink[1].packet)
    BY <1>f, <2>1, <2>2, <2>4, <2>5
  <2>7. QED
    BY <1>3, <2>2, <2>3, <2>5, <2>6
<1>4. CASE Watchdog
  BY <1>4, <1>a, <1>f DEF Watchdog
<1>5. CASE HandleHello \/ HandleEncapsulation \/ HandleReport
  BY <1>5, <1>r DEF HandleHello, HandleEncapsulation, HandleReport
<1>6. CASE \/ ClientNoticesClose \/ OnDisconnect \/ OnLateDisconnect
           \/ Dispatch \/ HeartbeatPass \/ OnSessionEstablished
           \/ OnRefused \/ OnHeartbeat \/ Trip \/ ClearTrip \/ Replay \/ Inject
  BY <1>6 DEF ClientNoticesClose, OnDisconnect, OnLateDisconnect,
              Dispatch, HeartbeatPass, OnSessionEstablished,
              OnRefused, OnHeartbeat, Trip, ClearTrip, Replay, Inject
<1>7. CASE \/ Cut \/ Sever \/ Crash \/ PowerCycle \/ Tick \/ Heal \/ Start
           \/ UNCHANGED <<vars, setting>>
  BY <1>7 DEF Cut, Sever, Crash, PowerCycle, Tick, Heal, Start, vars
<1>8. QED
  BY <1>1, <1>2, <1>3, <1>4, <1>5, <1>6, <1>7
     DEF Next, ServerHandler, NodeHandler, Environment

(* An event leaves the uplink when the server handles it, or with its
   connection. *)
LEMMA UplinkShrinks ==
    ASSUME LoopTypeOK, Typed, HandshakeInv, [Next]_<<vars, setting>>,
           NEW e \in Range(uplink), e \notin Range(uplink')
    PROVE  \/ OnConnect
           \/ HandleHello /\ e = "pqc_hello"
           \/ HandleEncapsulation /\ e = "pqc_encapsulation"
           \/ /\ HandleReport /\ e \in {"OPEN", "CLOSED"}
              /\ trip_state' = LatchAfter(e)
<1>0. /\ uplink \in Seq(UpEvents) /\ AtMostOne(uplink, HandshakeUp)
  BY DEF LoopTypeOK, HandshakeInv, OneHandshake, Queued
<1>a. /\ "pqc_encapsulation" \in UpEvents
      /\ "OPEN" \in UpEvents /\ "CLOSED" \in UpEvents
  BY DEF UpEvents, HandshakeUp
<1>f. ASSUME NEW x \in UpEvents, uplink' = FromNode(x)
      PROVE  FALSE
  <2>1. /\ FromNode(x) = IF connected THEN Append(uplink, x) ELSE uplink
        /\ Range(Append(uplink, x)) = Range(uplink) \union {x}
    BY <1>0, Answers
  <2>2. QED
    BY <1>f, <2>1
<1>r. ASSUME NEW x, NEW i, Receive(x, i)
      PROVE  e = x
  BY <1>0, <1>r, Receives
<1>2. CASE OnPublicKey
  BY <1>2, <1>a, <1>f DEF OnPublicKey
<1>3. CASE OnActuatorCommand
  <2>1. PICK i : uplink' = IF Obeyable(downlink[i].packet)
                           THEN FromNode(ValveAfter(downlink[i].packet))
                           ELSE uplink
    BY <1>3 DEF OnActuatorCommand
  <2>2. ValveAfter(downlink[i].packet) \in UpEvents
    BY <1>a DEF ValveAfter, Typed, ElementTypeOK
  <2>3. QED
    BY <1>f, <2>1, <2>2
<1>4. CASE Watchdog
  BY <1>4, <1>a, <1>f DEF Watchdog
<1>5. CASE HandleHello
  BY <1>5, <1>r DEF HandleHello
<1>6. CASE HandleEncapsulation
  BY <1>6, <1>r DEF HandleEncapsulation
<1>7. CASE HandleReport
  <2>1. PICK valve \in {"OPEN", "CLOSED"} : \E i :
           Receive(valve, i) /\ trip_state' = LatchAfter(valve)
    BY <1>7 DEF HandleReport
  <2>2. e = valve
    BY <1>r, <2>1
  <2>3. QED
    BY <1>7, <2>1, <2>2
<1>8. CASE \/ ClientNoticesClose \/ OnDisconnect \/ OnLateDisconnect
           \/ Dispatch \/ HeartbeatPass \/ OnSessionEstablished
           \/ OnRefused \/ OnHeartbeat \/ Trip \/ ClearTrip \/ Replay \/ Inject
  BY <1>8 DEF ClientNoticesClose, OnDisconnect, OnLateDisconnect,
              Dispatch, HeartbeatPass, OnSessionEstablished,
              OnRefused, OnHeartbeat, Trip, ClearTrip, Replay, Inject
<1>9. CASE \/ Cut \/ Sever \/ Crash \/ PowerCycle \/ Tick \/ Heal \/ Start
           \/ UNCHANGED <<vars, setting>>
  BY <1>9 DEF Cut, Sever, Crash, PowerCycle, Tick, Heal, Start, vars
<1>10. QED
  BY <1>2, <1>3, <1>4, <1>5, <1>6, <1>7, <1>8, <1>9
     DEF Next, ServerHandler, NodeHandler, Environment

-----------------------------------------------------------------------------
(* The handshake in progress is the one the connection began with. *)
LEMMA PendingStep ==
    ASSUME LoopTypeOK, Typed, Affordable, HandshakeInv,
           [Next]_<<vars, setting>>
    PROVE  /\ Pending' => Pending \/ OnConnect
           /\ HandleEncapsulation => Pending /\ ~Pending'
<1>0. /\ downlink \in Seq(DownEvents) /\ uplink \in Seq(UpEvents) /\ Queued
      /\ AtMostOne(uplink, HandshakeUp)
  BY DEF LoopTypeOK, HandshakeInv, OneHandshake, Queued
<1>a. /\ "pqc_hello" \in HandshakeUp /\ "pqc_encapsulation" \in HandshakeUp
      /\ "OPEN" \notin HandshakeUp /\ "CLOSED" \notin HandshakeUp
  BY DEF HandshakeUp
<1>b. /\ PublicKey \notin Traffic
      /\ PublicKey \in Signals
      /\ PublicKey # Established /\ PublicKey # Refused
  BY EventKinds DEF Signals
<1>k. /\ \A p : Event("execute_actuator_command", p) # PublicKey
      /\ \A p : Event("sis_heartbeat", p) # PublicKey
  BY DEF Event, PublicKey
<1>1. ASSUME NEW x, NEW i, Receive(x, i), x \in HandshakeUp
      PROVE  Pending /\ Range(uplink') \intersect HandshakeUp = {}
  BY <1>0, <1>1, Receives DEF Pending, Sent
<1>2. HandleHello \/ HandleEncapsulation => Pending
  BY <1>1, <1>a DEF HandleHello, HandleEncapsulation
<1>3. OnPublicKey => Pending
  <2> SUFFICES ASSUME OnPublicKey PROVE Pending
    OBVIOUS
  <2>1. PICK i : Handle("pqc_public_key", i)
    BY DEF OnPublicKey
  <2>2. /\ downlink[1] \in DownEvents /\ downlink[1].event = "pqc_public_key"
        /\ downlink[1] \in Range(downlink)
    BY <1>0, <2>1, Handles
  <2>3. downlink[1] = PublicKey
    BY <2>2, EventKinds DEF DownEvents, Traffic
  <2>4. QED
    BY <2>2, <2>3 DEF Pending, Offered
<1>4. ASSUME Pending', ~OnConnect
      PROVE  Pending
  <2>1. CASE PublicKey \in Range(downlink')
    <3>1. CASE PublicKey \in Range(downlink)
      BY <3>1 DEF Pending, Offered
    <3>2. CASE PublicKey \notin Range(downlink)
      <4>1. HandleHello
        BY <1>b, <1>k, <2>1, <3>2, DownlinkFlow DEF Sends
      <4>2. QED
        BY <1>2, <4>1
    <3>3. QED
      BY <3>1, <3>2
  <2>2. CASE Sent(HandshakeUp)'
    <3>1. PICK e \in HandshakeUp : e \in Range(uplink')
      BY <2>2 DEF Sent
    <3>2. CASE e \in Range(uplink)
      BY <3>2 DEF Pending, Sent
    <3>3. CASE e \notin Range(uplink)
      <4>1. \/ OnPublicKey
            \/ \E p : e = ValveAfter(p)
            \/ e = "CLOSED"
        BY <1>4, <3>1, <3>3, UplinkGrows
      <4>2. \A p : ValveAfter(p) \in {"OPEN", "CLOSED"}
        BY DEF ValveAfter, Typed, ElementTypeOK
      <4>3. QED
        BY <1>3, <1>a, <4>1, <4>2
    <3>4. QED
      BY <3>2, <3>3
  <2>3. QED
    BY <1>4, <2>1, <2>2 DEF Pending, Offered
<1>5. ASSUME HandleEncapsulation
      PROVE  ~Pending'
  <2>1. Range(uplink') \intersect HandshakeUp = {} /\ Sent(HandshakeUp)
    <3>1. PICK i : Receive("pqc_encapsulation", i)
      BY <1>5 DEF HandleEncapsulation
    <3>2. QED
      BY <1>0, <1>a, <3>1, Receives DEF Sent
  <2>2. PublicKey \notin Range(downlink)
    BY <1>b, <2>1 DEF HandshakeInv, OneHandshake, Offered
  <2>3. PublicKey \notin Range(downlink')
    <3> SUFFICES ASSUME PublicKey \in Range(downlink') PROVE FALSE
      OBVIOUS
    <3>1. HandleHello
      BY <1>b, <1>k, <2>2, DownlinkFlow DEF Sends
    <3>2. PICK i : Receive("pqc_hello", i)
      BY <3>1 DEF HandleHello
    <3>3. downlink' = ToNode(conn, <<PublicKey>>)
      BY <3>1 DEF HandleHello, PublicKey
    <3>4. PICK x \in {Established, Refused} : downlink' = ToNode(conn, <<x>>)
      BY <1>5 DEF HandleEncapsulation, Established, Refused
    <3>5. x \in DownEvents
      BY DEF DownEvents, Signals
    <3>6. /\ ToNode(conn, <<x>>) = IF conn = conn /\ served
                                   THEN Append(downlink, x) ELSE downlink
          /\ Range(Append(downlink, x)) = Range(downlink) \union {x}
      BY <1>0, <3>5, Emits
    <3>7. QED
      BY <1>b, <2>2, <3>4, <3>6
  <2>4. QED
    BY <2>1, <2>3 DEF Pending, Offered, Sent
<1>6. QED
  BY <1>2, <1>4, <1>5

(* The bound on nonces stays enough. *)
LEMMA AffordableStep ==
    ASSUME LoopTypeOK, Typed, Affordable, HandshakeInv,
           [Next]_<<vars, setting>>
    PROVE  Affordable'
<1> DEFINE P == IF Pending THEN 1 ELSE 0
           Q == IF Pending' THEN 1 ELSE 0
           n == Len(outbox)
           m == Len(outbox')
<1>0. /\ outbox \in Seq(Decisions) /\ n \in Nat /\ sealed \in Nat
      /\ conn \in Nat /\ MaxCommands \in Nat
      /\ sealed + n + P <= MaxCommands + conn
      /\ P \in {0, 1} /\ Q \in {0, 1}
  BY SafetyLoopAssumption, LenProperties DEF LoopTypeOK, Affordable
<1>a. ASSUME NEW c \in Decisions, outbox' = Append(outbox, c)
      PROVE  m = n + 1
  BY <1>0, <1>a, AppendQueue
<1>b. Affordable' <=> sealed' + m + Q <= MaxCommands + conn'
  BY DEF Affordable
<1>c. Pending => conn >= 1
  BY DEF HandshakeInv, Numbered, HandshakeOpen, Pending, Offered, Signals, Sent
<1>d. ~OnConnect => Q <= P
  BY PendingStep
<1>e. ASSUME conn' = conn
      PROVE  ~OnConnect
  <2> SUFFICES ASSUME OnConnect PROVE FALSE
    OBVIOUS
  <2>1. conn' = conn + 1
    BY DEF OnConnect
  <2>2. QED
    BY <1>0, <1>e, <2>1
<1> HIDE DEF P, Q, n, m
<1>1. CASE OnConnect
  <2>1. conn' = conn + 1 /\ sealed' = sealed /\ outbox' = outbox
    BY <1>1 DEF OnConnect, solver
  <2>2. m = n
    BY <2>1 DEF m, n
  <2>3. QED
    BY <1>0, <1>b, <2>1, <2>2
<1>2. ASSUME UNCHANGED <<conn, sealed, outbox>>, ~OnConnect
      PROVE  Affordable'
  <2>1. m = n
    BY <1>2 DEF m, n
  <2>2. QED
    BY <1>0, <1>2, <1>b, <1>d, <2>1
<1>3. CASE HandleEncapsulation
  <2>1. P = 1 /\ Q = 0
    BY <1>3, PendingStep DEF P, Q
  <2>2. conn' = conn /\ sealed' = sealed
    BY <1>3 DEF HandleEncapsulation, link, solver
  <2>3. m <= n + 1
    <3>1. SyncCommand \in Decisions
      BY DEF SyncCommand, Decisions
    <3>2. CASE outbox' = outbox
      BY <1>0, <3>2 DEF m, n
    <3>3. CASE outbox' = Append(outbox, SyncCommand)
      BY <1>0, <1>a, <3>1, <3>3
    <3>4. QED
      BY <1>3, <3>2, <3>3 DEF HandleEncapsulation, AfterHandshake
  <2>4. m \in Nat
    BY LenProperties, QueuesStep DEF m
  <2>5. QED
    BY <1>0, <1>b, <2>1, <2>2, <2>3, <2>4
<1>4. CASE Dispatch
  <2>1. PICK i \in DOMAIN outbox : outbox' = RemoveAt(outbox, i)
    BY <1>4 DEF Dispatch
  <2>2. i \in 1 .. Len(outbox)
    BY <1>0, <2>1, LenProperties
  <2>3. m = n - 1
    BY <1>0, <2>1, <2>2, RemoveQueue DEF m, n
  <2>4. conn' = conn /\ (sealed' = sealed \/ sealed' = sealed + 1)
    BY <1>4 DEF Dispatch, link
  <2>5. ~OnConnect
    BY <1>e, <2>4
  <2>6. QED
    BY <1>0, <1>b, <1>d, <2>3, <2>4, <2>5
<1>5. CASE Trip \/ ClearTrip
  <2>1. /\ sealed + n < setting.commands /\ conn' = conn /\ sealed' = sealed
    BY <1>5 DEF Trip, ClearTrip, CommandsLeft, link, n
  <2>2. m <= n + 1
    <3>1. CASE outbox' = outbox
      BY <1>0, <3>1 DEF m, n
    <3>2. CASE outbox' # outbox
      BY <1>0, <1>5, <1>a, <3>2 DEF Trip, ClearTrip, Decisions
    <3>3. QED
      BY <3>1, <3>2
  <2>3. m \in Nat
    BY LenProperties, QueuesStep DEF m
  <2>4. setting.commands \in 0 .. MaxCommands
    BY SafetyLoopAssumption DEF LoopTypeOK
  <2>5. ~OnConnect
    BY <1>e, <2>1
  <2>6. P = 0 \/ conn >= 1
    BY <1>c DEF P
  <2>7. QED
    BY <1>0, <1>b, <1>d, <2>1, <2>2, <2>3, <2>4, <2>5, <2>6
<1>6. CASE Crash
  <2>1. outbox' = <<>> /\ sealed' = sealed /\ conn' = conn
    BY <1>6 DEF Crash
  <2>2. m = 0
    BY <2>1, EmptySeq DEF m
  <2>3. ~OnConnect
    BY <1>e, <2>1
  <2>4. QED
    BY <1>0, <1>b, <1>d, <2>1, <2>2, <2>3
<1>7. CASE \/ ClientNoticesClose \/ OnDisconnect \/ OnLateDisconnect
           \/ HandleHello \/ HandleReport \/ HeartbeatPass
  <2>1. UNCHANGED <<conn, sealed, outbox>>
    BY <1>7 DEF ClientNoticesClose, OnDisconnect, OnLateDisconnect,
                HandleHello, HandleReport, HeartbeatPass, link, solver
  <2>2. ~OnConnect
    BY <1>e, <2>1
  <2>3. QED
    BY <1>2, <2>1, <2>2
<1>8. CASE \/ OnPublicKey \/ OnSessionEstablished \/ OnRefused
           \/ OnActuatorCommand \/ OnHeartbeat \/ Watchdog \/ PowerCycle
  <2>1. UNCHANGED <<conn, sealed, outbox>>
    BY <1>8 DEF OnPublicKey, OnSessionEstablished, OnRefused,
                OnActuatorCommand, OnHeartbeat, Watchdog, PowerCycle,
                serverSide, link, solver
  <2>2. ~OnConnect
    BY <1>e, <2>1
  <2>3. QED
    BY <1>2, <2>1, <2>2
<1>9. CASE \/ Cut \/ Sever \/ Replay \/ Inject \/ Tick \/ Heal \/ Start
           \/ UNCHANGED <<vars, setting>>
  <2>1. UNCHANGED <<conn, sealed, outbox>>
    BY <1>9 DEF Cut, Sever, Replay, Inject, Tick, Heal, Start, vars, link, solver
  <2>2. ~OnConnect
    BY <1>e, <2>1
  <2>3. QED
    BY <1>2, <2>1, <2>2
<1>10. QED
  BY <1>1, <1>3, <1>4, <1>5, <1>6, <1>7, <1>8, <1>9
     DEF Next, ServerHandler, NodeHandler, Environment

-----------------------------------------------------------------------------
(* What all the properties rest on. *)
LoopCore ==
    LoopTypeOK /\ Typed /\ Counted /\ Watched /\ Affordable /\ HandshakeInv

LEMMA CoreInit == Init => LoopCore
<1> SUFFICES ASSUME Init PROVE LoopCore
  OBVIOUS
<1>1. Typed /\ Counted /\ Watched
  BY InitInv DEF Init, IInv
<1>2. HandshakeInv
  BY HandshakeInit
<1>3. downlink = <<>> /\ uplink = <<>> /\ outbox = <<>>
  BY DEF Init, InitServer
<1>4. /\ downlink \in Seq(DownEvents) /\ uplink \in Seq(UpEvents)
      /\ outbox \in Seq(Decisions) /\ Len(outbox) = 0
  BY <1>3
<1>5. ~Pending
  <2>1. DOMAIN downlink = {} /\ DOMAIN uplink = {}
    BY <1>3
  <2>2. QED
    BY <2>1 DEF Pending, Offered, Sent, Range
<1>6. /\ MaxConnections \in Nat /\ MaxSeq \in Nat /\ PingTimeout \in Nat
      /\ MaxCommands \in Nat /\ HEARTBEAT_PERIOD_S \in Nat
      /\ Never = -1 /\ NoKey = 0
  BY SafetyLoopAssumption, FinalElementAssumption DEF Never
<1>7. Affordable
  BY <1>4, <1>5, <1>6 DEF Affordable, Init
<1>8. LoopTypeOK
  <2>1. /\ setting \in Settings /\ alive \in BOOLEAN /\ served \in BOOLEAN
        /\ linked \in BOOLEAN /\ severed \in BOOLEAN /\ stopped \in BOOLEAN
        /\ demand \in BOOLEAN /\ late \in BOOLEAN
        /\ missed \in BOOLEAN /\ deserted \in BOOLEAN
        /\ trip_state \in {"HEALTHY", "TRIPPED"}
        /\ last_command_packet \in CommandPacket \union {NoPacket}
    BY DEF Init, InitServer
  <2>2. /\ heartbeat_seq \in 0 .. MaxSeq
        /\ conn \in 0 .. MaxConnections /\ session \in 0 .. conn
        /\ key_b \in 0 .. conn /\ sealed \in Nat
        /\ beat_timer \in Never .. HEARTBEAT_PERIOD_S
        /\ silent \in 0 .. PingTimeout /\ clock \in Nat /\ cuts \in Nat
    BY <1>6 DEF Init, InitServer, ElementInit
  <2>3. QED
    BY <1>4, <2>1, <2>2 DEF LoopTypeOK
<1>9. QED
  BY <1>1, <1>2, <1>7, <1>8 DEF LoopCore

LEMMA CoreStep ==
    ASSUME LoopCore, [Next]_<<vars, setting>>, setting' = setting
    PROVE  LoopCore'
BY HandshakeStep, ElementStep, LoopTypedStep, AffordableStep DEF LoopCore

(* The key and the connection: a lost connection never comes back, and the
   node's key is the one of the connection it last heard a public key on. *)
LEMMA ConnectionSteps ==
    ASSUME LoopCore, [Next]_<<vars, setting>>
    PROVE  /\ conn \in Nat /\ key_b \in Nat /\ key_b <= conn
           /\ \/ /\ OnConnect /\ ~connected /\ connected'
                 /\ conn' = conn + 1 /\ key_b' = key_b
              \/ /\ ~OnConnect
                 /\ conn' = conn
                 /\ connected' => connected
                 /\ \/ key_b' = key_b
                    \/ OnPublicKey /\ connected /\ key_b' = conn
                    \/ PowerCycle /\ key_b' = NoKey /\ ~connected'
<1>0. conn \in Nat /\ key_b \in Nat /\ key_b <= conn
  BY SafetyLoopAssumption DEF LoopCore, LoopTypeOK
<1>1. CASE OnConnect
  BY <1>0, <1>1 DEF OnConnect, SetConnected, node
<1>e. ASSUME conn' = conn
      PROVE  ~OnConnect
  <2> SUFFICES ASSUME OnConnect PROVE FALSE
    OBVIOUS
  <2>1. conn' = conn + 1
    BY DEF OnConnect
  <2>2. QED
    BY <1>0, <1>e, <2>1
<1>2. ASSUME conn' = conn, connected' => connected, key_b' = key_b
      PROVE  conn' = conn + 1 => FALSE
  BY <1>0, <1>2
<1>3. CASE OnPublicKey
  <2>1. conn' = conn /\ connected /\ connected' = connected /\ key_b' = conn
    BY <1>3 DEF OnPublicKey, EstablishSession, Handle, serverSide, link
  <2>2. QED
    BY <1>0, <1>3, <1>e, <2>1
<1>4. CASE PowerCycle
  <2>1. conn' = conn /\ ~connected' /\ key_b' = NoKey
    BY <1>4 DEF PowerCycle, serverSide, link
  <2>2. QED
    BY <1>0, <1>4, <1>e, <2>1
<1>5. CASE ClientNoticesClose \/ OnRefused
  <2>1. conn' = conn /\ ~connected' /\ key_b' = key_b
    BY <1>5 DEF ClientNoticesClose, OnRefused, SetConnected, node, serverSide,
                link
  <2>2. QED
    BY <1>0, <1>e, <2>1
<1>6. CASE \/ OnSessionEstablished \/ OnActuatorCommand \/ OnHeartbeat
           \/ Watchdog
  <2>1. conn' = conn /\ connected' = connected /\ key_b' = key_b
    BY <1>6 DEF OnSessionEstablished, OnActuatorCommand, OnHeartbeat, Watchdog,
                OnEstablished, ProcessCommand, AcceptHeartbeat, WatchdogPass,
                elementVars, node, serverSide, link
  <2>2. QED
    BY <1>0, <1>e, <2>1
<1>7. CASE \/ OnDisconnect \/ OnLateDisconnect \/ HandleHello
           \/ HandleEncapsulation \/ Dispatch \/ HandleReport
           \/ HeartbeatPass \/ Trip \/ ClearTrip
  <2>1. conn' = conn /\ connected' = connected /\ key_b' = key_b
    BY <1>7 DEF OnDisconnect, OnLateDisconnect, HandleHello,
                HandleEncapsulation, Dispatch, HandleReport, HeartbeatPass,
                Trip, ClearTrip, elementVars, node, link
  <2>2. QED
    BY <1>0, <1>e, <2>1
<1>8. CASE \/ Cut \/ Sever \/ Replay \/ Inject \/ Crash \/ Tick \/ Heal \/ Start
           \/ UNCHANGED <<vars, setting>>
  <2>1. conn' = conn /\ connected' = connected /\ key_b' = key_b
    BY <1>8 DEF Cut, Sever, Replay, Inject, Crash, Tick, Heal, Start, Second, vars,
                elementVars, node, link
  <2>2. QED
    BY <1>0, <1>e, <2>1
<1>9. QED
  BY <1>1, <1>3, <1>4, <1>5, <1>6, <1>7, <1>8
     DEF Next, ServerHandler, NodeHandler, Environment

-----------------------------------------------------------------------------
(* Single use: a command is obeyed once, over sessions and power cycles. *)

(* Commands spelt as they were sealed ... *)
AsSealed == {e \in Commands : ~e.packet.respelt}

(* ... that may still arrive. *)
Issued == {e.packet : e \in Range(downlink) \intersect AsSealed}
          \union ({last_command_packet} \ {NoPacket})

(* No session of the node will ever open this again. *)
Dead(p) == p.key # key_b /\ (p.key < conn \/ ~connected)

Spent(p) == obeyed[p.nonce] > 0 => p.nonce \in seen_command_nonces \/ Dead(p)

SingleUse ==
    /\ ObeyedOnce
    /\ \A n \in Nonces :
          obeyed[n] > 0 \/ n \in seen_command_nonces => n <= sealed
    /\ \A p \in Issued : p.key <= conn /\ p.nonce <= sealed /\ Spent(p)

(* Packets enter circulation only when they are sealed, under the next nonce. *)
LEMMA IssuedSteps ==
    ASSUME LoopCore, [Next]_<<vars, setting>>
    PROVE  /\ sealed \in Nat /\ sealed' \in {sealed, sealed + 1}
           /\ Issued \subseteq CommandPacket
           /\ \A p \in Issued' \ Issued :
                 /\ p \in CommandPacket
                 /\ Dispatch /\ session # 0 /\ sealed' = sealed + 1
                 /\ p.key = session /\ p.nonce = sealed + 1
<1>0. LoopTypeOK /\ Affordable /\ HandshakeInv /\ sealed \in Nat
  BY DEF LoopCore, LoopTypeOK
<1>1. Issued \subseteq CommandPacket
  <2>1. \A e \in Commands : e.packet \in CommandPacket
    BY EventKinds
  <2>2. last_command_packet \in CommandPacket \union {NoPacket}
    BY <1>0 DEF LoopTypeOK
  <2>3. QED
    BY <2>1, <2>2 DEF Issued, AsSealed
<1>2. sealed' \in {sealed, sealed + 1}
  <2>1. CASE Dispatch
    BY <2>1 DEF Dispatch
  <2>2. CASE \/ OnConnect \/ ClientNoticesClose \/ OnDisconnect
             \/ OnLateDisconnect \/ HandleHello \/ HandleEncapsulation
             \/ HandleReport \/ HeartbeatPass \/ Trip \/ ClearTrip
    BY <2>2 DEF OnConnect, ClientNoticesClose, OnDisconnect, OnLateDisconnect,
                HandleHello, HandleEncapsulation, HandleReport, HeartbeatPass,
                Trip, ClearTrip, solver
  <2>3. CASE \/ OnPublicKey \/ OnSessionEstablished \/ OnRefused
             \/ OnActuatorCommand \/ OnHeartbeat \/ Watchdog
             \/ Crash \/ PowerCycle
    BY <2>3 DEF OnPublicKey, OnSessionEstablished, OnRefused,
                OnActuatorCommand, OnHeartbeat, Watchdog, Crash, PowerCycle,
                serverSide, solver
  <2>4. CASE \/ Cut \/ Sever \/ Replay \/ Inject \/ Tick \/ Heal \/ Start
             \/ UNCHANGED <<vars, setting>>
    BY <2>4 DEF Cut, Sever, Replay, Inject, Tick, Heal, Start, vars, solver
  <2>5. QED
    BY <2>1, <2>2, <2>3, <2>4 DEF Next, ServerHandler, NodeHandler, Environment
<1>k. \A p : Event("execute_actuator_command", p).packet = p
  BY DEF Event
<1>c. AsSealed \subseteq Commands /\ AsSealed' = AsSealed
  BY DEF AsSealed, Commands, CommandPacket, Event
<1>3. ASSUME NEW e \in Range(downlink') \intersect AsSealed,
             e \notin Range(downlink)
      PROVE  \/ e.packet \in Issued
             \/ /\ Dispatch /\ session # 0 /\ sealed' = sealed + 1
                /\ \E i \in DOMAIN outbox : e.packet = Command(outbox[i])
  <2>1. \/ /\ Dispatch /\ session # 0
           /\ \E i \in DOMAIN outbox :
                 /\ e = Event("execute_actuator_command", Command(outbox[i]))
                 /\ sealed' = sealed + 1
        \/ /\ Replay /\ session # 0
           /\ e = Event("execute_actuator_command", last_command_packet)
        \/ /\ Inject
           /\ e = Event("execute_actuator_command",
                        Respelt(last_command_packet))
        \/ e \in Signals
        \/ e = Event("sis_heartbeat", Beat(heartbeat_seq + 1))
    BY <1>0, <1>3, DownlinkFlow DEF Signals, Sends
  <2>2. e \notin Signals /\ e # Event("sis_heartbeat", Beat(heartbeat_seq + 1))
    <3>1. e.event = "execute_actuator_command"
      BY <1>c, EventKinds
    <3>2. Event("sis_heartbeat", Beat(heartbeat_seq + 1)).event
             = "sis_heartbeat"
      BY DEF Event
    <3>3. QED
      BY <3>1, <3>2, EventKinds
  <2>3. Replay => last_command_packet # NoPacket
    BY DEF Replay
  <2>i. ~(Inject /\ e = Event("execute_actuator_command",
                              Respelt(last_command_packet)))
    <3> SUFFICES ASSUME Inject, e = Event("execute_actuator_command",
                                          Respelt(last_command_packet))
                 PROVE  FALSE
      OBVIOUS
    <3>1. last_command_packet \in CommandPacket
      BY <1>0 DEF Inject, LoopTypeOK
    <3>2. Respelt(last_command_packet).respelt = TRUE
      BY <3>1 DEF Respelt, CommandPacket
    <3>3. e.packet.respelt = TRUE
      BY <1>k, <3>2
    <3>4. QED
      BY <3>3 DEF AsSealed
  <2>4. QED
    BY <1>k, <2>1, <2>2, <2>3, <2>i DEF Issued
<1>4. ASSUME last_command_packet' # last_command_packet,
             last_command_packet' # NoPacket
      PROVE  /\ Dispatch /\ session # 0 /\ sealed' = sealed + 1
             /\ \E i \in DOMAIN outbox :
                   last_command_packet' = Command(outbox[i])
  <2>1. CASE Dispatch
    BY <1>4, <2>1 DEF Dispatch
  <2>2. CASE \/ OnConnect \/ ClientNoticesClose \/ OnDisconnect
             \/ OnLateDisconnect \/ HandleHello \/ HandleEncapsulation
             \/ HandleReport \/ HeartbeatPass \/ Trip \/ ClearTrip
    BY <1>4, <2>2
       DEF OnConnect, ClientNoticesClose, OnDisconnect, OnLateDisconnect,
           HandleHello, HandleEncapsulation, HandleReport, HeartbeatPass,
           Trip, ClearTrip, solver
  <2>3. CASE \/ OnPublicKey \/ OnSessionEstablished \/ OnRefused
             \/ OnActuatorCommand \/ OnHeartbeat \/ Watchdog
             \/ Crash \/ PowerCycle
    BY <1>4, <2>3
       DEF OnPublicKey, OnSessionEstablished, OnRefused,
           OnActuatorCommand, OnHeartbeat, Watchdog, Crash, PowerCycle,
           serverSide, solver
  <2>4. CASE \/ Cut \/ Sever \/ Replay \/ Inject \/ Tick \/ Heal \/ Start
             \/ UNCHANGED <<vars, setting>>
    BY <1>4, <2>4
       DEF Cut, Sever, Replay, Inject, Tick, Heal, Start, vars, solver
  <2>5. QED
    BY <2>1, <2>2, <2>3, <2>4 DEF Next, ServerHandler, NodeHandler, Environment
<1>5. ASSUME NEW p \in Issued', p \notin Issued
      PROVE  /\ p \in CommandPacket
             /\ Dispatch /\ session # 0 /\ sealed' = sealed + 1
             /\ p.key = session /\ p.nonce = sealed + 1
  <2>1. \/ \E e \in Range(downlink') \intersect AsSealed :
              e.packet = p /\ e \notin Range(downlink)
        \/ /\ p = last_command_packet' /\ p # NoPacket
           /\ p # last_command_packet
    BY <1>5, <1>c DEF Issued
  <2>2. /\ Dispatch /\ session # 0 /\ sealed' = sealed + 1
        /\ \E i \in DOMAIN outbox : p = Command(outbox[i])
    BY <1>3, <1>4, <1>5, <2>1
  <2>3. PICK i \in DOMAIN outbox : p = Command(outbox[i])
    BY <2>2
  <2>4. p \in CommandPacket /\ p.key = session /\ p.nonce = sealed + 1
    BY <1>0, <2>2, <2>3, SealsPackets DEF Command
  <2>5. QED
    BY <2>2, <2>4
<1>6. QED
  BY <1>0, <1>1, <1>2, <1>5

(* Only a command that is obeyed fills the nonce store, and only a restart of
   the node empties it. *)
LEMMA StoreSteps ==
    ASSUME LoopCore, [Next]_<<vars, setting>>
    PROVE  \/ UNCHANGED <<obeyed, seen_command_nonces>>
           \/ /\ PowerCycle /\ obeyed' = obeyed /\ seen_command_nonces' = {}
              /\ key_b' = NoKey /\ ~connected'
           \/ /\ OnActuatorCommand /\ connected
              /\ \E p \in Issued :
                    /\ p = downlink[1].packet /\ downlink[1] \in Commands
                    /\ Obeyable(p) /\ ~p.respelt
                    /\ seen_command_nonces'
                          = seen_command_nonces \union {p.nonce}
                    /\ obeyed' = [obeyed EXCEPT ![p.nonce] = Once(@)]
<1>0. downlink \in Seq(DownEvents) /\ Queued
  BY DEF LoopCore, LoopTypeOK, HandshakeInv, OneHandshake
<1>1. CASE OnActuatorCommand
  <2>1. PICK i : /\ Handle("execute_actuator_command", i)
                 /\ ProcessCommand(downlink[i].packet)
    BY <1>1 DEF OnActuatorCommand
  <2>2. /\ i = 1 /\ connected /\ downlink[1] \in DownEvents
        /\ downlink[1].event = "execute_actuator_command"
        /\ downlink[1] \in Range(downlink)
    BY <1>0, <2>1, Handles
  <2>3. downlink[1] \in Commands
    BY <2>2, EventKinds DEF DownEvents, Traffic
  <2>4. ~downlink[1].packet.respelt => downlink[1].packet \in Issued
    BY <2>2, <2>3 DEF Issued, AsSealed
  <2>5. downlink[1].packet.command # "HEARTBEAT"
    BY <2>3, EventKinds, PacketKinds
  <2>6. CASE Obeyable(downlink[1].packet)
    BY <1>1, <2>1, <2>2, <2>3, <2>4, <2>5, <2>6 DEF ProcessCommand, Remember
  <2>7. CASE ~Obeyable(downlink[1].packet)
    BY <2>1, <2>2, <2>7 DEF ProcessCommand, elementVars, node, counters
  <2>8. QED
    BY <2>6, <2>7
<1>2. CASE PowerCycle
  BY <1>2 DEF PowerCycle
<1>3. CASE \/ OnPublicKey \/ OnSessionEstablished \/ OnRefused \/ OnHeartbeat
           \/ Watchdog \/ OnConnect \/ ClientNoticesClose \/ Tick
  BY <1>3 DEF OnPublicKey, OnSessionEstablished, OnRefused, OnHeartbeat,
              Watchdog, OnConnect, ClientNoticesClose, Tick, EstablishSession,
              OnEstablished, AcceptHeartbeat, WatchdogPass, SetConnected,
              Second, elementVars, node, counters
<1>4. CASE \/ OnDisconnect \/ OnLateDisconnect \/ HandleHello
           \/ HandleEncapsulation \/ Dispatch \/ HandleReport
           \/ HeartbeatPass \/ Trip \/ ClearTrip
  BY <1>4 DEF OnDisconnect, OnLateDisconnect, HandleHello, HandleEncapsulation,
              Dispatch, HandleReport, HeartbeatPass, Trip, ClearTrip,
              elementVars, node, counters
<1>5. CASE \/ Cut \/ Sever \/ Replay \/ Inject \/ Crash \/ Heal \/ Start
           \/ UNCHANGED <<vars, setting>>
  BY <1>5 DEF Cut, Sever, Replay, Inject, Crash, Heal, Start, vars, elementVars, node,
              counters
<1>6. QED
  BY <1>1, <1>2, <1>3, <1>4, <1>5 DEF Next, ServerHandler, NodeHandler, Environment

(* No step makes a command work twice: the nonce store is lost with the
   process, and so is the session its packets were sealed for. *)
LEMMA SingleUseStep ==
    ASSUME LoopCore, SingleUse, [Next]_<<vars, setting>>
    PROVE  SingleUse'
<1>0. /\ conn \in Nat /\ key_b \in Nat /\ key_b <= conn /\ conn' \in Nat
      /\ conn <= conn'
      /\ session \in Nat /\ session <= conn
      /\ sealed \in Nat /\ sealed' \in Nat /\ sealed <= sealed'
      /\ NoKey = 0 /\ Keys \subseteq Nat /\ 0 \notin Keys
      /\ Nonces \subseteq Nat
      /\ obeyed \in [Nonces -> 0 .. 2]
  <2>1. conn \in Nat /\ key_b \in Nat /\ key_b <= conn /\ conn' \in Nat
        /\ conn <= conn'
    BY ConnectionSteps
  <2>2. sealed \in Nat /\ sealed' \in Nat /\ sealed <= sealed'
    BY IssuedSteps
  <2>3. session \in Nat /\ session <= conn /\ obeyed \in [Nonces -> 0 .. 2]
    BY <2>1 DEF LoopCore, LoopTypeOK, Typed, ElementTypeOK
  <2>4. NoKey = 0 /\ Keys \subseteq Nat /\ 0 \notin Keys /\ Nonces \subseteq Nat
    BY SafetyLoopAssumption
  <2>5. QED
    BY <2>1, <2>2, <2>3, <2>4
<1>a. \A p \in Issued : /\ p.key \in Keys /\ p.nonce \in Nonces
                        /\ p.key <= conn /\ p.nonce <= sealed /\ Spent(p)
  BY IssuedSteps, PacketKinds DEF SingleUse
<1>b. \A n \in Nonces :
         obeyed[n] > 0 \/ n \in seen_command_nonces => n <= sealed
  BY DEF SingleUse
<1>1. \/ UNCHANGED <<obeyed, seen_command_nonces>>
      \/ /\ PowerCycle /\ obeyed' = obeyed /\ seen_command_nonces' = {}
         /\ key_b' = NoKey /\ ~connected'
      \/ \E p \in Issued :
            /\ Obeyable(p) /\ ~p.respelt
            /\ seen_command_nonces' = seen_command_nonces \union {p.nonce}
            /\ obeyed' = [obeyed EXCEPT ![p.nonce] = Once(@)]
  BY StoreSteps
<1>2. ASSUME NEW p \in Issued, Obeyable(p), ~p.respelt
      PROVE  obeyed[p.nonce] = 0
  <2>1. p.nonce \notin seen_command_nonces /\ p.key = key_b
    BY <1>2 DEF Obeyable
  <2>2. ~(obeyed[p.nonce] > 0)
    BY <1>a, <2>1 DEF Spent, Dead
  <2>3. obeyed[p.nonce] \in 0 .. 2
    BY <1>0, <1>a
  <2>4. QED
    BY <2>2, <2>3
<1>3. ObeyedOnce'
  <2>1. CASE obeyed' = obeyed
    BY <2>1 DEF SingleUse, ObeyedOnce
  <2>2. ASSUME NEW p \in Issued, Obeyable(p), ~p.respelt,
               obeyed' = [obeyed EXCEPT ![p.nonce] = Once(@)]
        PROVE  ObeyedOnce'
    <3>1. obeyed[p.nonce] = 0
      BY <1>2, <2>2
    <3>2. obeyed' = [obeyed EXCEPT ![p.nonce] = 1]
      BY <2>2, <3>1 DEF Once
    <3>3. QED
      BY <1>0, <3>2 DEF SingleUse, ObeyedOnce
  <2>3. QED
    BY <1>1, <2>1, <2>2
<1>4. ASSUME NEW n \in Nonces, obeyed'[n] > 0 \/ n \in seen_command_nonces'
      PROVE  n <= sealed'
  <2>1. n \in Nat
    BY <1>0
  <2>2. CASE obeyed[n] > 0 \/ n \in seen_command_nonces
    BY <1>0, <1>b, <2>1, <2>2
  <2>3. CASE \E p \in Issued : n = p.nonce
    BY <1>0, <1>a, <2>1, <2>3
  <2>4. obeyed[n] > 0 \/ n \in seen_command_nonces
        \/ \E p \in Issued : n = p.nonce
    BY <1>0, <1>1, <1>4
  <2>5. QED
    BY <2>2, <2>3, <2>4
<1>5. ASSUME NEW p \in Issued'
      PROVE  p.key <= conn' /\ p.nonce <= sealed' /\ Spent(p)'
  <2>1. CASE p \notin Issued
    <3>1. /\ p \in CommandPacket /\ Dispatch /\ sealed' = sealed + 1
          /\ p.key = session /\ p.nonce = sealed + 1
      BY <1>5, <2>1, IssuedSteps
    <3>2. p.key <= conn' /\ p.nonce <= sealed'
      BY <1>0, <3>1
    <3>3. p.nonce \in Nonces
      BY <3>1, PacketKinds
    <3>4. ~(obeyed[p.nonce] > 0)
      BY <1>0, <1>b, <3>1, <3>3
    <3>5. obeyed' = obeyed
      BY <3>1 DEF Dispatch, elementVars, node, counters
    <3>6. QED
      BY <3>2, <3>4, <3>5 DEF Spent
  <2>2. CASE p \in Issued
    <3>1. /\ p.key \in Keys /\ p.nonce \in Nonces
          /\ p.key <= conn /\ p.nonce <= sealed /\ Spent(p)
      BY <1>a, <2>2
    <3>0. p.key \in Nat /\ p.nonce \in Nat /\ p.key # NoKey
      BY <1>0, <3>1
    <3>2. p.key <= conn' /\ p.nonce <= sealed'
      BY <1>0, <3>0, <3>1
    <3>3. Dead(p) => Dead(p)'
      <4> SUFFICES ASSUME Dead(p) PROVE Dead(p)'
        OBVIOUS
      <4>1. CASE conn' = conn + 1 /\ key_b' = key_b
        BY <1>0, <3>0, <3>1, <4>1 DEF Dead
      <4>2. CASE conn' = conn /\ (connected' => connected) /\ key_b' = key_b
        BY <4>2 DEF Dead
      <4>3. CASE conn' = conn /\ connected /\ key_b' = conn
        BY <1>0, <3>0, <4>3 DEF Dead
      <4>4. CASE conn' = conn /\ key_b' = NoKey /\ ~connected'
        BY <3>0, <4>4 DEF Dead
      <4>5. QED
        BY <4>1, <4>2, <4>3, <4>4, ConnectionSteps
    <3>4. Spent(p)'
      <4> SUFFICES ASSUME obeyed'[p.nonce] > 0
                   PROVE  p.nonce \in seen_command_nonces' \/ Dead(p)'
        BY DEF Spent
      <4>1. CASE UNCHANGED <<obeyed, seen_command_nonces>>
        BY <3>1, <3>3, <4>1 DEF Spent
      <4>2. CASE key_b' = NoKey /\ ~connected'
        BY <1>0, <3>1, <4>2 DEF Dead
      <4>3. ASSUME NEW q \in Issued,
                   seen_command_nonces' = seen_command_nonces \union {q.nonce},
                   obeyed' = [obeyed EXCEPT ![q.nonce] = Once(@)]
            PROVE  p.nonce \in seen_command_nonces' \/ Dead(p)'
        <5>1. CASE p.nonce = q.nonce
          BY <4>3, <5>1
        <5>2. CASE p.nonce # q.nonce
          <6>1. obeyed'[p.nonce] = obeyed[p.nonce]
            BY <1>0, <3>1, <4>3, <5>2
          <6>2. QED
            BY <3>1, <3>3, <4>3, <6>1 DEF Spent
        <5>3. QED
          BY <5>1, <5>2
      <4>4. QED
        BY <1>1, <4>1, <4>2, <4>3
    <3>5. QED
      BY <3>2, <3>4
  <2>3. QED
    BY <2>1, <2>2
<1>6. QED
  BY <1>3, <1>4, <1>5 DEF SingleUse

LEMMA SingleUseInit == Init => SingleUse
<1> SUFFICES ASSUME Init PROVE SingleUse
  OBVIOUS
<1>1. Issued = {}
  <2>1. DOMAIN downlink = {}
    BY DEF Init
  <2>2. QED
    BY <2>1 DEF Init, InitServer, Issued, Range
<1>2. \A n \in Nonces : obeyed[n] = 0 /\ n \notin seen_command_nonces
  BY DEF Init, ElementInit
<1>3. QED
  BY <1>1, <1>2 DEF SingleUse, ObeyedOnce

-----------------------------------------------------------------------------
(* Silence closes the valve, unless the node was told the server is gone. *)

Silence ==
    /\ linked => silent = 0
    /\ unheard # Never => unheard = AgeCap \/ unheard >= silent

(* A node that holds the valve OPEN and had a session is still guarding it. *)
Kept ==
    ~deserted /\ valve_state = "OPEN" /\ unheard # Never
    => connected /\ watchdogs > 0 /\ ~HandshakeOpen

(* It is not in silence for longer than the pass that will notice takes. *)
InTime ==
    /\ ~deserted /\ valve_state = "OPEN" /\ unheard # Never
    /\ silent > HEARTBEAT_TIMEOUT_S
    => silent = HEARTBEAT_TIMEOUT_S + 1 /\ due > 0

ExposedHeard == exposed > 0 => unheard # Never

SilenceInv == Silence /\ Kept /\ InTime /\ ExposedHeard

(* A handshake is only ever opened by connecting. *)
LEMMA HandshakeOpenStep ==
    ASSUME LoopCore, [Next]_<<vars, setting>>, HandshakeOpen', ~OnConnect
    PROVE  HandshakeOpen
<1>0. /\ LoopTypeOK /\ Typed /\ Affordable /\ HandshakeInv
      /\ downlink \in Seq(DownEvents) /\ uplink \in Seq(UpEvents) /\ Queued
      /\ AtMostOne(uplink, HandshakeUp)
  BY DEF LoopCore, LoopTypeOK, HandshakeInv, OneHandshake, Queued
<1>a. /\ "pqc_hello" \in HandshakeUp /\ "pqc_encapsulation" \in HandshakeUp
      /\ "OPEN" \notin HandshakeUp /\ "CLOSED" \notin HandshakeUp
  BY DEF HandshakeUp
<1>1. ASSUME NEW x, NEW i, Receive(x, i), x \in HandshakeUp
      PROVE  HandshakeOpen
  BY <1>0, <1>1, Receives DEF HandshakeOpen, Sent
<1>2. HandleHello \/ HandleEncapsulation => HandshakeOpen
  BY <1>1, <1>a DEF HandleHello, HandleEncapsulation
<1>3. OnPublicKey => HandshakeOpen
  <2> SUFFICES ASSUME OnPublicKey PROVE HandshakeOpen
    OBVIOUS
  <2>1. PICK i : Handle("pqc_public_key", i)
    BY DEF OnPublicKey
  <2>2. /\ downlink[1] \in DownEvents /\ downlink[1].event = "pqc_public_key"
        /\ downlink[1] \in Range(downlink)
    BY <1>0, <2>1, Handles
  <2>3. downlink[1] \in Signals
    BY <2>2, EventKinds DEF DownEvents, Traffic
  <2>4. QED
    BY <2>2, <2>3 DEF HandshakeOpen, Offered
<1>k. \A p : /\ Event("execute_actuator_command", p) \notin Signals
             /\ Event("sis_heartbeat", p) \notin Signals
  <2>1. \A p : /\ Event("execute_actuator_command", p).event
                     = "execute_actuator_command"
               /\ Event("sis_heartbeat", p).event = "sis_heartbeat"
    BY DEF Event
  <2>2. QED
    BY <2>1, EventKinds
<1>4. CASE Offered(Signals)'
  <2>1. PICK e \in Signals : e \in Range(downlink')
    BY <1>4 DEF Offered
  <2>2. CASE e \in Range(downlink)
    BY <2>2 DEF HandshakeOpen, Offered
  <2>3. CASE e \notin Range(downlink)
    <3>1. HandleHello \/ HandleEncapsulation
      BY <1>0, <1>k, <2>1, <2>3, DownlinkFlow DEF Sends
    <3>2. QED
      BY <1>2, <3>1
  <2>4. QED
    BY <2>2, <2>3
<1>5. CASE Sent(HandshakeUp)'
  <2>1. PICK e \in HandshakeUp : e \in Range(uplink')
    BY <1>5 DEF Sent
  <2>2. CASE e \in Range(uplink)
    BY <2>2 DEF HandshakeOpen, Sent
  <2>3. CASE e \notin Range(uplink)
    <3>1. \/ OnPublicKey
          \/ \E p : e = ValveAfter(p)
          \/ e = "CLOSED"
      BY <1>0, <2>1, <2>3, UplinkGrows
    <3>2. \A p : ValveAfter(p) \in {"OPEN", "CLOSED"}
      BY <1>0 DEF ValveAfter, Typed, ElementTypeOK
    <3>3. QED
      BY <1>3, <1>a, <3>1, <3>2
  <2>4. QED
    BY <2>2, <2>3
<1>6. QED
  BY <1>4, <1>5 DEF HandshakeOpen

(* A node that takes something sealed off a link is guarding the valve. *)
LEMMA TrafficGuarded ==
    ASSUME LoopCore, NEW name, NEW i, Handle(name, i),
           name \in {"execute_actuator_command", "sis_heartbeat"}
    PROVE  connected /\ linked /\ watchdogs > 0 /\ ~HandshakeOpen
<1>0. downlink \in Seq(DownEvents) /\ Queued
  BY DEF LoopCore, LoopTypeOK, HandshakeInv, OneHandshake
<1>1. /\ connected /\ linked /\ downlink[1] \in DownEvents
      /\ downlink[1].event = name /\ downlink[1] \in Range(downlink)
      /\ downlink[1] \in Traffic => Established \notin Range(downlink)
  BY <1>0, Handles
<1>2. downlink[1] \in Traffic
  BY <1>1, EventKinds DEF DownEvents
<1>3. Offered(Traffic) /\ ~Offered({Established})
  BY <1>1, <1>2 DEF Offered
<1>4. ~Unsettled /\ watchdogs > 0
  BY <1>1, <1>3 DEF LoopCore, HandshakeInv, Settled, Guarded
<1>5. ~HandshakeOpen
  BY <1>3, <1>4 DEF Unsettled, HandshakeOpen, Offered, Signals
<1>6. QED
  BY <1>1, <1>4, <1>5

LEMMA SilenceStep ==
    ASSUME LoopCore, SilenceInv, [Next]_<<vars, setting>>
    PROVE  SilenceInv'
<1>0. /\ HEARTBEAT_TIMEOUT_S \in Nat /\ HEARTBEAT_TIMEOUT_S > 0
      /\ PingTimeout \in Nat /\ PingTimeout > HEARTBEAT_TIMEOUT_S + 1
      /\ Never = -1 /\ AgeCap = HEARTBEAT_TIMEOUT_S + 1
      /\ unheard \in Int /\ unheard >= -1
      /\ silent \in Nat /\ silent <= PingTimeout
      /\ watchdogs \in Nat /\ due \in Nat /\ due <= watchdogs
      /\ unheard = last_heartbeat
  BY SafetyLoopAssumption, FinalElementAssumption
     DEF LoopCore, LoopTypeOK, Typed, ElementTypeOK, DueAlive, Never, AgeCap,
         Counted, DeadlineHonest
<1>u. /\ Never' = Never /\ AgeCap' = AgeCap
  BY DEF Never, AgeCap
<1> USE DEF SilenceInv, Silence, Kept, InTime, ExposedHeard
<1>1. ASSUME UNCHANGED <<connected, valve_state, unheard, watchdogs, due,
                         exposed, silent, linked, deserted>>,
             HandshakeOpen' => HandshakeOpen
      PROVE  SilenceInv'
  BY <1>1, <1>u
<1>2. CASE OnConnect
  <2>1. /\ ~connected
        /\ UNCHANGED <<valve_state, unheard, watchdogs, due, exposed, silent,
                       linked, deserted>>
    BY <1>2 DEF OnConnect, SetConnected, node, counters, tasks, loopHistory
  <2>2. QED
    BY <1>u, <2>1
<1>3. CASE ClientNoticesClose
  <2>1. /\ UNCHANGED <<valve_state, unheard, watchdogs, due, exposed, silent,
                       linked>>
        /\ deserted' = (deserted \/ (linked /\ ~served))
        /\ (linked /\ ~served) \/ silent = PingTimeout
    BY <1>3 DEF ClientNoticesClose, SetConnected, node, counters, tasks, link
  <2>2. CASE linked /\ ~served
    <3>1. deserted'
      BY <2>1, <2>2
    <3>2. QED
      BY <1>u, <2>1, <3>1
  <2>3. CASE silent = PingTimeout
    <3>1. ~deserted /\ valve_state = "OPEN" /\ unheard # Never => FALSE
      BY <1>0, <2>3
    <3>2. deserted => deserted'
      BY <2>1
    <3>3. QED
      BY <1>u, <2>1, <3>1, <3>2
  <2>4. QED
    BY <2>1, <2>2, <2>3
<1>4. CASE OnSessionEstablished
  <2>1. PICK i : Handle("pqc_established", i)
    BY <1>4 DEF OnSessionEstablished
  <2>2. /\ watchdogs' = watchdogs + 1 /\ unheard' = 0 /\ exposed' = 0
        /\ UNCHANGED <<connected, valve_state, due, silent, linked, uplink>>
    BY <1>4 DEF OnSessionEstablished, OnEstablished, serverSide, link
  <2>3. connected /\ linked /\ ~HandshakeOpen'
    <3>1. downlink \in Seq(DownEvents) /\ Queued
      BY DEF LoopCore, LoopTypeOK, HandshakeInv, OneHandshake
    <3>2. /\ connected /\ linked /\ downlink[1] \in DownEvents
          /\ downlink[1].event = "pqc_established"
          /\ downlink[1] \in Range(downlink)
          /\ downlink[1] \in Signals => Range(downlink') \intersect Signals = {}
      BY <2>1, <3>1, Handles
    <3>3. downlink[1] \in Signals
      BY <3>2, EventKinds DEF DownEvents, Traffic
    <3>4. ~Sent(HandshakeUp)
      BY <3>2, <3>3 DEF LoopCore, HandshakeInv, OneHandshake, Offered
    <3>5. QED
      BY <2>2, <3>2, <3>3, <3>4 DEF HandshakeOpen, Offered, Sent
  <2>4. QED
    BY <1>0, <1>u, <2>2, <2>3
<1>5. CASE OnRefused
  <2>1. PICK i : Handle("pqc_refused", i)
    BY <1>5 DEF OnRefused
  <2>2. UNCHANGED <<valve_state, unheard, exposed, silent, linked, deserted>>
    BY <1>5 DEF OnRefused, node, counters, serverSide, link, loopHistory
  <2>3. linked /\ HandshakeOpen
    <3>1. downlink \in Seq(DownEvents) /\ Queued
      BY DEF LoopCore, LoopTypeOK, HandshakeInv, OneHandshake
    <3>2. /\ linked /\ downlink[1] \in DownEvents
          /\ downlink[1].event = "pqc_refused"
          /\ downlink[1] \in Range(downlink)
      BY <2>1, <3>1, Handles
    <3>3. downlink[1] \in Signals
      BY <3>2, EventKinds DEF DownEvents, Traffic
    <3>4. QED
      BY <3>2, <3>3 DEF HandshakeOpen, Offered
  <2>4. QED
    BY <1>u, <2>2, <2>3
<1>6. CASE OnActuatorCommand
  <2>1. PICK i : /\ Handle("execute_actuator_command", i)
                 /\ ProcessCommand(downlink[i].packet)
    BY <1>6 DEF OnActuatorCommand
  <2>2. /\ UNCHANGED <<connected, unheard, watchdogs, due, silent, linked,
                       deserted>>
        /\ exposed' = exposed \/ exposed' = 0
    BY <1>6, <2>1
       DEF OnActuatorCommand, ProcessCommand, elementVars, node, counters,
           tasks, serverSide, link, loopHistory
  <2>3. connected /\ linked /\ watchdogs > 0 /\ ~HandshakeOpen
    BY <2>1, TrafficGuarded
  <2>4. ~HandshakeOpen'
    <3>1. ~OnConnect
      BY <2>3 DEF OnConnect
    <3>2. QED
      BY <2>3, <3>1, HandshakeOpenStep
  <2>5. QED
    BY <1>0, <1>u, <2>2, <2>3, <2>4
<1>7. CASE OnHeartbeat
  <2>1. PICK i : /\ Handle("sis_heartbeat", i)
                 /\ AcceptHeartbeat(downlink[i].packet)
    BY <1>7 DEF OnHeartbeat
  <2>2. /\ UNCHANGED <<connected, valve_state, watchdogs, due, exposed, silent,
                       linked, deserted>>
        /\ unheard' = unheard \/ unheard' = 0
    BY <1>7, <2>1
       DEF OnHeartbeat, AcceptHeartbeat, elementVars, node, counters,
           tasks, serverSide, link
  <2>3. connected /\ linked /\ watchdogs > 0 /\ ~HandshakeOpen
    BY <2>1, TrafficGuarded
  <2>4. ~HandshakeOpen'
    <3>1. ~OnConnect
      BY <2>3 DEF OnConnect
    <3>2. QED
      BY <2>3, <3>1, HandshakeOpenStep
  <2>5. QED
    BY <1>0, <1>u, <2>2, <2>3, <2>4
<1>8. CASE Watchdog
  <2>1. /\ UNCHANGED <<connected, unheard, silent, linked, deserted>>
        /\ watchdogs' = IF connected THEN watchdogs ELSE watchdogs - 1
        /\ due' = due - 1 /\ due > 0
        /\ IF WatchdogTrips THEN valve_state' = "CLOSED" /\ exposed' = 0
           ELSE UNCHANGED <<valve_state, exposed>>
    BY <1>8 DEF Watchdog, WatchdogPass, serverSide, link, loopHistory
  <2>2. HandshakeOpen' => HandshakeOpen
    <3>1. ~OnConnect
      <4>1. conn' = conn
        BY <1>8 DEF Watchdog, serverSide, link
      <4>2. QED
        BY <4>1, ConnectionSteps
    <3>2. QED
      BY <3>1, HandshakeOpenStep
  <2>3. CASE WatchdogTrips
    <3>1. valve_state' # "OPEN" /\ exposed' = 0
      BY <2>1, <2>3
    <3>2. QED
      BY <1>u, <2>1, <3>1
  <2>4. CASE ~WatchdogTrips
    <3>1. valve_state = "OPEN" /\ unheard # Never
          => ~(unheard > HEARTBEAT_TIMEOUT_S)
      BY <1>0, <2>4
         DEF WatchdogTrips, HeartbeatOverdue, LoopCore, Watched,
             DeadlineHasKey, WatchdogNotBlind
    <3>2. valve_state = "OPEN" /\ unheard # Never
          => ~(silent > HEARTBEAT_TIMEOUT_S)
      BY <1>0, <3>1
    <3>3. Silence' /\ ExposedHeard'
      BY <1>u, <2>1, <2>4
    <3>4. Kept'
      BY <1>u, <2>1, <2>2, <2>4
    <3>5. InTime'
      BY <1>u, <2>1, <2>4, <3>2
    <3>6. QED
      BY <3>3, <3>4, <3>5
  <2>5. QED
    BY <2>3, <2>4
<1>9. CASE Cut \/ Heal
  <2>1. /\ UNCHANGED <<connected, valve_state, unheard, watchdogs, due,
                       exposed, deserted, downlink, uplink>>
        /\ \/ ~linked' /\ silent' = silent
           \/ silent' = 0
    BY <1>9 DEF Cut, Heal, elementVars, node, counters, tasks, loopHistory
  <2>2. HandshakeOpen' <=> HandshakeOpen
    BY <2>1 DEF HandshakeOpen, Offered, Sent
  <2>3. QED
    BY <1>0, <1>u, <2>1, <2>2
<1>10. CASE PowerCycle
  <2>1. /\ unheard' = Never /\ exposed' = 0
        /\ UNCHANGED <<silent, linked>>
    BY <1>10 DEF PowerCycle, serverSide, link
  <2>2. QED
    BY <1>u, <2>1
<1>11. CASE Tick
  <2>1. /\ UNCHANGED <<connected, valve_state, watchdogs, linked, deserted,
                       downlink, uplink>>
        /\ due = 0 /\ due' = watchdogs
        /\ unheard' = Older(unheard)
        /\ exposed' = IF valve_state = "OPEN" /\ TooLongUnheard
                      THEN Once(exposed) ELSE 0
        /\ silent' = IF linked \/ silent = PingTimeout THEN silent
                     ELSE silent + 1
    BY <1>11 DEF Tick, Second, loopHistory
  <2>2. HandshakeOpen' <=> HandshakeOpen
    BY <2>1 DEF HandshakeOpen, Offered, Sent
  <2>3. unheard' # Never => unheard # Never
    BY <2>1 DEF Older
  <2>4. Silence'
    <3>1. linked' => silent' = 0
      BY <2>1
    <3>2. ASSUME unheard' # Never
          PROVE  unheard' = AgeCap \/ unheard' >= silent'
      <4>1. unheard # Never
        BY <2>3, <3>2
      <4>2. unheard' = IF unheard = AgeCap THEN AgeCap ELSE unheard + 1
        BY <2>1, <4>1 DEF Older
      <4>3. silent' = silent \/ silent' = silent + 1
        BY <2>1
      <4>4. QED
        BY <1>0, <4>1, <4>2, <4>3
    <3>3. QED
      BY <1>u, <3>1, <3>2
  <2>5. Kept'
    BY <1>u, <2>1, <2>2, <2>3
  <2>6. InTime'
    <3> SUFFICES ASSUME ~deserted, valve_state = "OPEN", unheard # Never,
                        silent' > HEARTBEAT_TIMEOUT_S
                 PROVE  silent' = HEARTBEAT_TIMEOUT_S + 1 /\ due' > 0
      BY <1>u, <2>1, <2>3
    <3>1. ~(silent > HEARTBEAT_TIMEOUT_S)
      BY <1>0, <2>1
    <3>2. silent' = HEARTBEAT_TIMEOUT_S + 1
      BY <1>0, <2>1, <3>1
    <3>3. watchdogs > 0
      OBVIOUS
    <3>4. QED
      BY <2>1, <3>2, <3>3
  <2>7. ExposedHeard'
    <3>1. TooLongUnheard => unheard' # Never
      BY <1>0, <2>1 DEF TooLongUnheard, Older
    <3>2. QED
      BY <1>u, <2>1, <3>1
  <2>8. QED
    BY <2>4, <2>5, <2>6, <2>7
<1>12. CASE \/ OnDisconnect \/ OnLateDisconnect \/ HandleHello
            \/ HandleEncapsulation \/ Dispatch \/ HandleReport
            \/ HeartbeatPass \/ OnPublicKey
  <2>1. UNCHANGED <<connected, valve_state, unheard, watchdogs, due, exposed,
                    silent, linked, deserted, conn>>
    BY <1>12
       DEF OnDisconnect, OnLateDisconnect, HandleHello, HandleEncapsulation,
           Dispatch, HandleReport, HeartbeatPass, OnPublicKey,
           EstablishSession, elementVars, node, counters, tasks, serverSide,
           link, loopHistory
  <2>2. ~OnConnect
    BY <2>1, ConnectionSteps
  <2>3. QED
    BY <1>1, <2>1, <2>2, HandshakeOpenStep
<1>13. CASE \/ Trip \/ ClearTrip \/ Sever \/ Replay \/ Inject \/ Crash \/ Start
            \/ UNCHANGED <<vars, setting>>
  <2>1. UNCHANGED <<connected, valve_state, unheard, watchdogs, due, exposed,
                    silent, linked, deserted, conn>>
    BY <1>13
       DEF Trip, ClearTrip, Sever, Replay, Inject, Crash, Start, vars, elementVars,
           node, counters, tasks, link, loopHistory
  <2>2. ~OnConnect
    BY <2>1, ConnectionSteps
  <2>3. QED
    BY <1>1, <2>1, <2>2, HandshakeOpenStep
<1>14. QED
  BY <1>2, <1>3, <1>4, <1>5, <1>6, <1>7, <1>8, <1>9, <1>10, <1>11, <1>12,
     <1>13 DEF Next, ServerHandler, NodeHandler, Environment

LEMMA SilenceInit == Init => SilenceInv
BY DEF Init, ElementInit, SilenceInv, Silence, Kept, InTime, ExposedHeard

LEMMA SilenceImplies ==
    ASSUME LoopCore, SilenceInv
    PROVE  SilenceClosesUnlessDeserted
<1>1. exposed \in Nat /\ watchdogs \in Nat
  BY DEF LoopCore, Typed, ElementTypeOK
<1>2. QED
  BY <1>1 DEF SilenceClosesUnlessDeserted, LoopCore, Watched, ExposedIsOpen,
              WatchedValveCloses, SilenceInv, Kept, ExposedHeard

-----------------------------------------------------------------------------
(* A HEALTHY server has the valve OPEN, or something in flight about it. *)

(* The node will obey this, as it was sealed, on the connection there is. *)
Opens(p) ==
    p.key = conn /\ ~p.respelt /\ p.nonce \notin seen_command_nonces

InSession == connected /\ served /\ session = conn

Reopens ==
    InSession /\ trip_state = "HEALTHY" /\ valve_state = "CLOSED"
    => \/ outbox # <<>>
       \/ \E e \in Range(downlink) \intersect Commands : Opens(e.packet)
       \/ "CLOSED" \in Range(uplink)

(* A node in session has the key the server seals with. *)
LEMMA SessionKey ==
    ASSUME LoopCore, InSession
    PROVE  conn \in Keys /\ conn # 0 /\ key_b = conn /\ key_b # NoKey
BY SafetyLoopAssumption
   DEF LoopCore, LoopTypeOK, HandshakeInv, Numbered, KeyAgreed, InSession

LEMMA ReopensStep ==
    ASSUME LoopCore, SingleUse, Reopens, [Next]_<<vars, setting>>
    PROVE  Reopens'
<1> SUFFICES ASSUME InSession', trip_state' = "HEALTHY",
                    valve_state' = "CLOSED"
             PROVE  \/ outbox' # <<>>
                    \/ \E e \in Range(downlink') \intersect Commands :
                          Opens(e.packet)'
                    \/ "CLOSED" \in Range(uplink')
  BY DEF Reopens
<1>0. /\ LoopTypeOK /\ Typed /\ Affordable /\ HandshakeInv
      /\ downlink \in Seq(DownEvents) /\ uplink \in Seq(UpEvents) /\ Queued
      /\ AtMostOne(uplink, HandshakeUp)
      /\ outbox \in Seq(Decisions)
      /\ conn \in Nat /\ session \in Nat /\ session <= conn
  BY SafetyLoopAssumption
     DEF LoopCore, LoopTypeOK, HandshakeInv, OneHandshake, Queued
<1>a. /\ connected' /\ served' /\ session' = conn'
  BY DEF InSession
<1>b. conn # 0 \/ OnConnect
  <2>1. connected \/ OnConnect
    BY <1>a, ConnectionSteps
  <2>2. QED
    BY <1>0, <2>1 DEF HandshakeInv, Numbered
<1>1. ASSUME UNCHANGED <<connected, served, session, conn, valve_state,
                         trip_state, outbox, seen_command_nonces>>
      PROVE  \/ outbox' # <<>>
             \/ \E e \in Range(downlink') \intersect Commands :
                   Opens(e.packet)'
             \/ "CLOSED" \in Range(uplink')
  <2>1. InSession /\ trip_state = "HEALTHY" /\ valve_state = "CLOSED"
    BY <1>1, <1>a DEF InSession
  <2>2. ~OnConnect
    BY <1>1, ConnectionSteps
  <2>3. CASE outbox # <<>>
    BY <1>1, <2>3
  <2>4. ASSUME NEW e \in Range(downlink) \intersect Commands, Opens(e.packet)
        PROVE  e \in Range(downlink') /\ Opens(e.packet)'
    <3>1. e \notin Beats /\ e # PublicKey /\ e # Established /\ e # Refused
      BY EventKinds DEF Signals, Traffic
    <3>2. e \in Range(downlink')
      <4> SUFFICES ASSUME e \notin Range(downlink') PROVE FALSE
        OBVIOUS
      <4>1. OnActuatorCommand /\ e = downlink[1]
        BY <1>0, <2>2, <3>1, DownlinkFlow DEF Takes
      <4>2. PICK i : /\ Handle("execute_actuator_command", i)
                     /\ ProcessCommand(downlink[i].packet)
        BY <4>1 DEF OnActuatorCommand
      <4>3. ProcessCommand(e.packet)
        BY <1>0, <4>1, <4>2, Handles
      <4>4. Obeyable(e.packet)
        BY <2>1, <2>4, SessionKey DEF Opens, Obeyable
      <4>5. e.packet.nonce \in seen_command_nonces'
        BY <2>4, <4>3, <4>4 DEF ProcessCommand, Remember, Opens
      <4>6. QED
        BY <1>1, <2>4, <4>5 DEF Opens
    <3>3. QED
      BY <1>1, <2>4, <3>2 DEF Opens
  <2>5. CASE "CLOSED" \in Range(uplink)
    <3> SUFFICES ASSUME "CLOSED" \notin Range(uplink') PROVE FALSE
      OBVIOUS
    <3>1. trip_state' = LatchAfter("CLOSED")
      BY <1>0, <2>2, <2>5, UplinkShrinks
    <3>2. QED
      BY <3>1 DEF LatchAfter
  <2>6. QED
    BY <2>1, <2>3, <2>4, <2>5 DEF Reopens
<1>2. CASE OnConnect
  <2>1. session' = session /\ conn' = conn + 1
    BY <1>2 DEF OnConnect
  <2>2. session = conn + 1
    BY <1>a, <2>1
  <2>3. QED
    BY <1>0, <2>2
<1>3. CASE ClientNoticesClose \/ OnRefused \/ PowerCycle
  BY <1>3, <1>a DEF ClientNoticesClose, OnRefused, PowerCycle, SetConnected
<1>4. CASE OnDisconnect \/ Crash
  BY <1>4, <1>a DEF OnDisconnect, Crash
<1>5. CASE OnLateDisconnect
  <2>1. session' = 0 /\ conn' = conn
    BY <1>5 DEF OnLateDisconnect, link
  <2>2. ~OnConnect
    BY <2>1, ConnectionSteps
  <2>3. QED
    BY <1>a, <1>b, <2>1, <2>2
<1>6. CASE HandleEncapsulation
  <2>1. \/ session \in {0, conn} /\ outbox' = Append(outbox, SyncCommand)
        \/ session \notin {0, conn} /\ session' = session /\ conn' = conn
    BY <1>6 DEF HandleEncapsulation, AfterHandshake, link
  <2>2. SyncCommand \in Decisions
    BY DEF SyncCommand, Decisions
  <2>3. Append(outbox, SyncCommand) # <<>>
    BY <1>0, <2>2, AppendProperties
  <2>4. QED
    BY <1>a, <2>1, <2>3
<1>7. CASE Trip
  BY <1>7 DEF Trip
<1>8. CASE ClearTrip
  <2>1. outbox' = Append(outbox, "RESET") /\ "RESET" \in Decisions
    BY <1>8 DEF ClearTrip, Decisions
  <2>2. QED
    BY <1>0, <2>1, AppendProperties
<1>9. CASE Dispatch
  <2>1. UNCHANGED <<connected, served, session, conn, valve_state, trip_state,
                    seen_command_nonces>>
    BY <1>9 DEF Dispatch, elementVars, node, link
  <2>2. session = conn /\ served /\ InSession
    BY <1>a, <2>1 DEF InSession
  <2>3. session # 0
    BY <2>2, SessionKey
  <2>4. PICK i \in DOMAIN outbox :
           /\ sealed' = sealed + 1
           /\ downlink' = ToNode(session,
                             <<Event("execute_actuator_command",
                                     Command(outbox[i]))>>)
    BY <1>9, <2>3 DEF Dispatch
  <2>e. PICK e : e = Event("execute_actuator_command", Command(outbox[i]))
    OBVIOUS
  <2>5. e \in Commands /\ Command(outbox[i]) \in CommandPacket
    BY <1>0, <2>3, <2>e, SealsPackets
  <2>6. e.packet = Command(outbox[i])
    BY <2>e DEF Event
  <2>7. /\ Command(outbox[i]).key = conn
        /\ Command(outbox[i]).nonce = sealed + 1
        /\ ~Command(outbox[i]).respelt
    BY <2>2 DEF Command
  <2>8. sealed + 1 \notin seen_command_nonces
    <3>1. sealed + 1 \in Nonces /\ sealed \in Nat
      BY <1>0, <2>5, <2>7, PacketKinds DEF LoopTypeOK
    <3>2. QED
      BY <3>1 DEF SingleUse
  <2>9. e \in Range(downlink')
    <3>1. e \in DownEvents
      BY <2>5 DEF DownEvents, Traffic
    <3>2. downlink' = ToNode(session, <<e>>)
      BY <2>4, <2>e
    <3>3. QED
      BY <1>0, <2>2, <3>1, <3>2, Emits
  <2>10. Opens(e.packet)'
    BY <2>1, <2>6, <2>7, <2>8 DEF Opens
  <2>11. QED
    BY <2>5, <2>9, <2>10
<1>10. CASE HandleReport
  <2>1. PICK valve \in {"OPEN", "CLOSED"} : trip_state' = LatchAfter(valve)
    BY <1>10 DEF HandleReport
  <2>2. trip_state' = trip_state
    BY <2>1 DEF LatchAfter
  <2>3. UNCHANGED <<connected, served, session, conn, valve_state, outbox,
                    seen_command_nonces>>
    BY <1>10 DEF HandleReport, elementVars, node, link
  <2>4. QED
    BY <1>1, <2>2, <2>3
<1>11. CASE OnPublicKey
  <2>1. PICK i : Handle("pqc_public_key", i)
    BY <1>11 DEF OnPublicKey
  <2>2. /\ downlink[1] \in DownEvents /\ downlink[1].event = "pqc_public_key"
        /\ downlink[1] \in Range(downlink)
    BY <1>0, <2>1, Handles
  <2>3. downlink[1] = PublicKey
    BY <2>2, EventKinds DEF DownEvents, Traffic
  <2>4. session # conn
    BY <1>0, <2>2, <2>3 DEF HandshakeInv, Settled, Unsettled, Offered
  <2>5. session' = session /\ conn' = conn
    BY <1>11 DEF OnPublicKey, serverSide, link
  <2>6. QED
    BY <1>a, <2>4, <2>5
<1>12. CASE OnActuatorCommand
  <2>1. PICK i :
           /\ Handle("execute_actuator_command", i)
           /\ ProcessCommand(downlink[i].packet)
           /\ uplink' = IF Obeyable(downlink[i].packet)
                        THEN FromNode(ValveAfter(downlink[i].packet))
                        ELSE uplink
    BY <1>12 DEF OnActuatorCommand
  <2>2. UNCHANGED <<served, session, conn, trip_state, outbox>>
    BY <1>12 DEF OnActuatorCommand, serverSide, link, solver
  <2>3. CASE ~Obeyable(downlink[i].packet)
    <3>1. UNCHANGED <<connected, valve_state, seen_command_nonces>>
      BY <2>1, <2>3 DEF ProcessCommand, elementVars, node
    <3>2. QED
      BY <1>1, <2>2, <3>1
  <2>4. CASE Obeyable(downlink[i].packet)
    <3>1. valve_state' = ValveAfter(downlink[i].packet) /\ connected
      BY <1>0, <2>1, <2>4, Handles DEF ProcessCommand
    <3>2. uplink' = Append(uplink, "CLOSED")
      BY <2>1, <2>4, <3>1 DEF FromNode
    <3>3. "CLOSED" \in UpEvents
      BY DEF UpEvents
    <3>4. QED
      BY <1>0, <3>2, <3>3, Answers
  <2>5. QED
    BY <2>3, <2>4
<1>13. CASE Watchdog
  <2>1. UNCHANGED <<connected, served, session, conn, trip_state, outbox,
                    seen_command_nonces>>
    BY <1>13 DEF Watchdog, WatchdogPass, serverSide, link, solver
  <2>2. CASE WatchdogTrips
    <3>1. uplink' = Append(uplink, "CLOSED")
      BY <1>13, <1>a, <2>1, <2>2 DEF Watchdog, FromNode
    <3>2. "CLOSED" \in UpEvents
      BY DEF UpEvents
    <3>3. QED
      BY <1>0, <3>1, <3>2, Answers
  <2>3. CASE ~WatchdogTrips
    <3>1. valve_state' = valve_state
      BY <1>13, <2>3 DEF Watchdog, WatchdogPass
    <3>2. QED
      BY <1>1, <2>1, <3>1
  <2>4. QED
    BY <2>2, <2>3
<1>14. CASE \/ HandleHello \/ HeartbeatPass \/ OnSessionEstablished
            \/ OnHeartbeat
  <2>1. UNCHANGED <<connected, served, session, conn, valve_state, trip_state,
                    outbox, seen_command_nonces>>
    BY <1>14 DEF HandleHello, HeartbeatPass, OnSessionEstablished, OnHeartbeat,
                 OnEstablished, AcceptHeartbeat, elementVars, node, serverSide,
                 link, solver
  <2>2. QED
    BY <1>1, <2>1
<1>15. CASE \/ Cut \/ Sever \/ Replay \/ Inject \/ Tick \/ Heal \/ Start
            \/ UNCHANGED <<vars, setting>>
  <2>1. UNCHANGED <<connected, served, session, conn, valve_state, trip_state,
                    outbox, seen_command_nonces>>
    BY <1>15 DEF Cut, Sever, Replay, Inject, Tick, Heal, Start, Second, vars,
                 elementVars, node, link, solver
  <2>2. QED
    BY <1>1, <2>1
<1>16. QED
  BY <1>2, <1>3, <1>4, <1>5, <1>6, <1>7, <1>8, <1>9, <1>10, <1>11, <1>12,
     <1>13, <1>14, <1>15 DEF Next, ServerHandler, NodeHandler, Environment

LEMMA ReopensImplies ==
    ASSUME LoopCore, Reopens
    PROVE  HealthyMeansOpen
<1> SUFFICES ASSUME Quiet, trip_state = "HEALTHY", valve_state = "CLOSED"
             PROVE  FALSE
  BY DEF HealthyMeansOpen, LoopCore, Typed, ElementTypeOK
<1>1. InSession /\ outbox = <<>> /\ downlink = <<>> /\ uplink = <<>>
  BY DEF Quiet, InSession
<1>2. DOMAIN downlink = {} /\ DOMAIN uplink = {}
  BY <1>1
<1>3. Range(downlink) = {} /\ Range(uplink) = {}
  BY <1>2 DEF Range
<1>4. QED
  BY <1>1, <1>3 DEF Reopens

-----------------------------------------------------------------------------
(* Numbered events that are in flight in order. *)

BeatNumber == [e \in Beats |-> e.packet.seq]
NonceOf == [e \in Commands |-> e.packet.nonce]

(* The events of q that are numbered are above low, at most high, and rise. *)
Rising(q, number, low, high) ==
    \A i \in DOMAIN q : q[i] \in DOMAIN number =>
       /\ low < number[q[i]] /\ number[q[i]] <= high
       /\ \A j \in DOMAIN q :
             j < i /\ q[j] \in DOMAIN number => number[q[j]] < number[q[i]]

LEMMA NumberTypes ==
    /\ BeatNumber \in [Beats -> Nat] /\ NonceOf \in [Commands -> Nat]
    /\ \A e \in Beats : BeatNumber[e] = e.packet.seq /\ e \notin Commands
    /\ \A e \in Commands : NonceOf[e] = e.packet.nonce /\ e \notin Beats
<1>1. Nonces \subseteq Nat /\ 1 .. MaxSeq \subseteq Nat
  BY SafetyLoopAssumption, FinalElementAssumption
<1>2. \A e \in Beats : e.packet.seq \in Nat /\ e \notin Commands
  BY <1>1, EventKinds, PacketKinds
<1>3. \A e \in Commands : e.packet.nonce \in Nat /\ e \notin Beats
  BY <1>1, EventKinds, PacketKinds
<1>4. QED
  BY <1>2, <1>3 DEF BeatNumber, NonceOf

LEMMA RisingTail ==
    ASSUME NEW S, NEW q \in Seq(S), q # <<>>, NEW number, NEW low, NEW high,
           Rising(q, number, low, high)
    PROVE  /\ Rising(Tail(q), number, low, high)
           /\ q[1] \in DOMAIN number =>
                 /\ low < number[q[1]] /\ number[q[1]] <= high
                 /\ Rising(Tail(q), number, number[q[1]], high)
<1>1. /\ Tail(q) \in Seq(S)
      /\ Len(q) \in Nat /\ Len(q) >= 1
      /\ Len(Tail(q)) = Len(q) - 1
      /\ \A k \in 1 .. Len(q) - 1 : Tail(q)[k] = q[k + 1]
  BY TailQueue
<1>2. /\ DOMAIN q = 1 .. Len(q) /\ DOMAIN Tail(q) = 1 .. Len(q) - 1
      /\ 1 \in 1 .. Len(q)
      /\ \A k \in 1 .. Len(q) - 1 : k + 1 \in 1 .. Len(q) /\ 1 < k + 1
      /\ \A j, k \in 1 .. Len(q) - 1 : j < k => j + 1 < k + 1
  BY <1>1, LenProperties
<1>3. ASSUME NEW k \in DOMAIN Tail(q), Tail(q)[k] \in DOMAIN number
      PROVE  /\ low < number[Tail(q)[k]] /\ number[Tail(q)[k]] <= high
             /\ q[1] \in DOMAIN number => number[q[1]] < number[Tail(q)[k]]
             /\ \A j \in DOMAIN Tail(q) :
                   j < k /\ Tail(q)[j] \in DOMAIN number
                   => number[Tail(q)[j]] < number[Tail(q)[k]]
  <2>1. Tail(q)[k] = q[k + 1] /\ k + 1 \in DOMAIN q /\ 1 < k + 1 /\ 1 \in DOMAIN q
    BY <1>1, <1>2, <1>3
  <2>2. /\ low < number[q[k + 1]] /\ number[q[k + 1]] <= high
        /\ \A j \in DOMAIN q : j < k + 1 /\ q[j] \in DOMAIN number
                               => number[q[j]] < number[q[k + 1]]
    BY <1>3, <2>1 DEF Rising
  <2>3. ASSUME NEW j \in DOMAIN Tail(q), j < k, Tail(q)[j] \in DOMAIN number
        PROVE  number[Tail(q)[j]] < number[Tail(q)[k]]
    <3>1. Tail(q)[j] = q[j + 1] /\ j + 1 \in DOMAIN q /\ j + 1 < k + 1
      BY <1>1, <1>2, <2>3
    <3>2. QED
      BY <2>1, <2>2, <2>3, <3>1
  <2>4. QED
    BY <2>1, <2>2, <2>3
<1>4. q[1] \in DOMAIN number => low < number[q[1]] /\ number[q[1]] <= high
  BY <1>2 DEF Rising
<1>5. QED
  BY <1>3, <1>4 DEF Rising

LEMMA RisingAppend ==
    ASSUME NEW S, NEW q \in Seq(S), NEW e \in S,
           NEW D, NEW number \in [D -> Nat], NEW low \in Nat, NEW high \in Nat,
           Rising(q, number, low, high)
    PROVE  /\ e \notin D => Rising(Append(q, e), number, low, high)
           /\ e \in D /\ low <= high /\ high < number[e] =>
                 Rising(Append(q, e), number, low, number[e])
<1> DEFINE r == Append(q, e)
           n == Len(q)
<1>1. /\ Len(r) = n + 1
      /\ \A k \in 1 .. n : r[k] = q[k]
      /\ r[n + 1] = e
      /\ r \in Seq(S)
  BY AppendQueue
<1>2. n \in Nat /\ DOMAIN q = 1 .. n /\ DOMAIN r = 1 .. n + 1 /\ DOMAIN number = D
  BY <1>1, LenProperties
<1> HIDE DEF r, n
<1>3. \A k \in 1 .. n + 1 :
         (k \in 1 .. n /\ r[k] = q[k]) \/ (k = n + 1 /\ r[k] = e)
  BY <1>1, <1>2
<1>4. \A k \in 1 .. n : \A j \in 1 .. n + 1 : j < k => j \in 1 .. n
  BY <1>2
<1>5. ASSUME NEW k \in 1 .. n, q[k] \in D
      PROVE  /\ low < number[q[k]] /\ number[q[k]] <= high
             /\ \A j \in 1 .. n + 1 :
                   j < k /\ r[j] \in D => number[r[j]] < number[q[k]]
  BY <1>1, <1>2, <1>4, <1>5 DEF Rising
<1>6. ASSUME e \notin D
      PROVE  Rising(r, number, low, high)
  BY <1>2, <1>3, <1>5, <1>6 DEF Rising
<1>7. ASSUME e \in D, low <= high, high < number[e]
      PROVE  Rising(r, number, low, number[e])
  <2>1. \A x \in D : number[x] \in Nat
    OBVIOUS
  <2>2. ASSUME NEW k \in 1 .. n, q[k] \in D
        PROVE  number[q[k]] < number[e] /\ number[q[k]] <= number[e]
    BY <1>5, <1>7, <2>1, <2>2
  <2>3. low < number[e] /\ number[e] <= number[e]
    BY <1>7, <2>1
  <2>4. \A j \in 1 .. n + 1 : j < n + 1 => j \in 1 .. n
    BY <1>2
  <2>5. ASSUME NEW k \in 1 .. n + 1, r[k] \in D
        PROVE  /\ low < number[r[k]] /\ number[r[k]] <= number[e]
               /\ \A j \in 1 .. n + 1 :
                     j < k /\ r[j] \in D => number[r[j]] < number[r[k]]
    <3>1. CASE k \in 1 .. n /\ r[k] = q[k]
      BY <1>5, <2>2, <2>5, <3>1
    <3>2. CASE k = n + 1 /\ r[k] = e
      BY <1>1, <2>2, <2>3, <2>4, <3>2
    <3>3. QED
      BY <1>3, <3>1, <3>2
  <2>6. QED
    BY <1>2, <2>5 DEF Rising
<1>8. QED
  BY <1>6, <1>7 DEF r

LEMMA RisingWider ==
    ASSUME NEW S, NEW q \in Seq(S), NEW D, NEW number \in [D -> Nat],
           NEW low \in Nat, NEW high \in Nat, Rising(q, number, low, high),
           NEW lower \in Nat, lower <= low,
           NEW higher \in Nat, high <= higher
    PROVE  Rising(q, number, lower, higher)
<1>1. \A x \in D : number[x] \in Nat
  OBVIOUS
<1>2. QED
  BY <1>1 DEF Rising

LEMMA RisingEmpty ==
    ASSUME NEW q, q = <<>>, NEW number, NEW low, NEW high
    PROVE  Rising(q, number, low, high)
<1>1. DOMAIN q = {}
  OBVIOUS
<1>2. QED
  BY <1>1 DEF Rising

-----------------------------------------------------------------------------
(* Every fresh beat counts, as long as the server does not start again. *)

BeatsFresh ==
    "crash" \notin setting.faults =>
       /\ last_seq <= heartbeat_seq
       /\ Rising(downlink, BeatNumber, last_seq, heartbeat_seq)
       /\ ~missed

LEMMA BeatsFreshStep ==
    ASSUME LoopCore, BeatsFresh, [Next]_<<vars, setting>>, setting' = setting
    PROVE  BeatsFresh'
<1> SUFFICES ASSUME "crash" \notin setting.faults
             PROVE  /\ last_seq' <= heartbeat_seq'
                    /\ Rising(downlink', BeatNumber, last_seq', heartbeat_seq')
                    /\ ~missed'
  <2>1. BeatNumber' = BeatNumber
    BY DEF BeatNumber, Beats, BeatPacket, Event
  <2>2. QED
    BY <2>1 DEF BeatsFresh, Rising
<1>0. /\ LoopTypeOK /\ Affordable /\ HandshakeInv
      /\ downlink \in Seq(DownEvents) /\ Queued
      /\ last_seq \in Nat /\ heartbeat_seq \in Nat
  BY FinalElementAssumption
     DEF LoopCore, LoopTypeOK, HandshakeInv, OneHandshake, Typed, ElementTypeOK
<1>a. /\ last_seq <= heartbeat_seq
      /\ Rising(downlink, BeatNumber, last_seq, heartbeat_seq)
      /\ ~missed
  BY DEF BeatsFresh
<1>b. ~Crash
  BY DEF Crash
<1>1. ASSUME UNCHANGED <<last_seq, heartbeat_seq, missed>>,
             ~\E e \in Beats : downlink' = Append(downlink, e)
      PROVE  /\ last_seq' <= heartbeat_seq'
             /\ Rising(downlink', BeatNumber, last_seq', heartbeat_seq')
             /\ ~missed'
  <2>1. CASE downlink' = downlink
    BY <1>1, <1>a, <2>1
  <2>2. CASE downlink' = <<>>
    BY <1>1, <1>a, <2>2, RisingEmpty
  <2>3. CASE downlink # <<>> /\ downlink' = Tail(downlink)
    <3>1. Rising(Tail(downlink), BeatNumber, last_seq, heartbeat_seq)
      BY <1>0, <1>a, <2>3, RisingTail
    <3>2. QED
      BY <1>1, <1>a, <2>3, <3>1
  <2>4. CASE \E e \in DownEvents : downlink' = Append(downlink, e)
    <3>1. PICK e \in DownEvents : downlink' = Append(downlink, e)
      BY <2>4
    <3>2. e \notin Beats
      BY <1>1, <3>1
    <3>3. Rising(Append(downlink, e), BeatNumber, last_seq, heartbeat_seq)
      BY <1>0, <1>a, <3>2, RisingAppend, NumberTypes
    <3>4. QED
      BY <1>1, <1>a, <3>1, <3>3
  <2>5. QED
    BY <1>0, <2>1, <2>2, <2>3, <2>4, DownlinkSteps
<1>2. CASE HeartbeatPass
  <2>1. UNCHANGED <<last_seq, missed>>
    BY <1>2 DEF HeartbeatPass, elementVars, node, loopHistory
  <2>2. CASE severed \/ session = 0
    BY <1>2, <1>a, <2>1, <2>2 DEF HeartbeatPass
  <2>3. CASE ~(severed \/ session = 0)
    <3>1. PICK e : e = Event("sis_heartbeat", Beat(heartbeat_seq + 1))
      OBVIOUS
    <3>2. /\ heartbeat_seq' = heartbeat_seq + 1
          /\ downlink' = ToNode(session, <<e>>)
          /\ e \in Beats
      BY <1>0, <1>2, <2>3, <3>1, SealsPackets DEF HeartbeatPass
    <3>3. BeatNumber[e] = heartbeat_seq + 1
      BY <3>1, <3>2, NumberTypes DEF Event, Beat
    <3>4. e \in DownEvents
      BY <3>2 DEF DownEvents, Traffic
    <3>5. Rising(Append(downlink, e), BeatNumber, last_seq, heartbeat_seq + 1)
      <4>1. heartbeat_seq < heartbeat_seq + 1
        BY <1>0
      <4>2. QED
        BY <1>0, <1>a, <3>2, <3>3, <3>4, <4>1, RisingAppend, NumberTypes
    <3>6. Rising(downlink, BeatNumber, last_seq, heartbeat_seq + 1)
      <4>1. heartbeat_seq + 1 \in Nat /\ heartbeat_seq <= heartbeat_seq + 1
            /\ last_seq <= last_seq
        BY <1>0
      <4>2. QED
        BY <1>0, <1>a, <4>1, RisingWider, NumberTypes
    <3>7. downlink' = downlink \/ downlink' = Append(downlink, e)
      BY <1>0, <3>2, <3>4, Emits
    <3>8. last_seq <= heartbeat_seq + 1
      BY <1>0, <1>a
    <3>9. QED
      BY <1>a, <2>1, <3>2, <3>5, <3>6, <3>7, <3>8
  <2>4. QED
    BY <2>2, <2>3
<1>3. CASE OnHeartbeat
  <2>1. PICK i : /\ Handle("sis_heartbeat", i)
                 /\ AcceptHeartbeat(downlink[i].packet)
                 /\ missed' = \/ missed
                              \/ /\ downlink[i].packet.key = key_b
                                 /\ ~Counts(downlink[i].packet)
    BY <1>3 DEF OnHeartbeat
  <2>2. /\ i = 1 /\ downlink # <<>> /\ downlink' = Tail(downlink)
        /\ downlink[1] \in DownEvents /\ downlink[1].event = "sis_heartbeat"
    BY <1>0, <2>1, Handles
  <2>3. downlink[1] \in Beats
    BY <2>2, EventKinds DEF DownEvents, Traffic
  <2> DEFINE p == downlink[1].packet
  <2>4. /\ last_seq < BeatNumber[downlink[1]] /\ BeatNumber[downlink[1]] <= heartbeat_seq
        /\ Rising(Tail(downlink), BeatNumber, last_seq, heartbeat_seq)
        /\ Rising(Tail(downlink), BeatNumber, BeatNumber[downlink[1]], heartbeat_seq)
    BY <1>0, <1>a, <2>2, <2>3, RisingTail, NumberTypes
  <2>5. BeatNumber[downlink[1]] = p.seq /\ p.command = "HEARTBEAT" /\ p.key \in Keys
    BY <2>3, NumberTypes, EventKinds, PacketKinds
  <2>6. heartbeat_seq' = heartbeat_seq
    BY <1>3 DEF OnHeartbeat, serverSide, beats
  <2>7. p.key = key_b => Counts(p)
    <3>1. last_seq < p.seq /\ p.seq \in Nat
      BY <2>3, <2>4, <2>5, NumberTypes
    <3>2. QED
      BY <1>0, <2>5, <3>1, FinalElementAssumption DEF Counts
  <2>8. ~missed'
    BY <1>a, <2>1, <2>2, <2>7
  <2>9. last_seq' = last_seq \/ last_seq' = BeatNumber[downlink[1]]
    BY <2>1, <2>2, <2>5 DEF AcceptHeartbeat, elementVars, node
  <2>10. QED
    BY <1>a, <2>2, <2>4, <2>6, <2>8, <2>9
<1>4. CASE PowerCycle
  <2>1. /\ last_seq' = 0 /\ downlink' = downlink
        /\ UNCHANGED <<heartbeat_seq, missed>>
    BY <1>4 DEF PowerCycle, serverSide, beats
  <2>2. Rising(downlink, BeatNumber, 0, heartbeat_seq)
    <3>1. 0 \in Nat /\ 0 <= last_seq /\ heartbeat_seq <= heartbeat_seq
      BY <1>0
    <3>2. QED
      BY <1>0, <1>a, <3>1, RisingWider, NumberTypes
  <2>3. QED
    BY <1>0, <1>a, <2>1, <2>2
<1>5. CASE ~HeartbeatPass /\ ~OnHeartbeat /\ ~PowerCycle
  <2>1. UNCHANGED <<last_seq, heartbeat_seq, missed>>
    <3>1. CASE \/ OnConnect \/ ClientNoticesClose \/ OnDisconnect
               \/ OnLateDisconnect \/ HandleHello \/ HandleEncapsulation
               \/ Dispatch \/ HandleReport \/ Trip \/ ClearTrip
      BY <3>1 DEF OnConnect, ClientNoticesClose, OnDisconnect,
                  OnLateDisconnect, HandleHello, HandleEncapsulation,
                  Dispatch, HandleReport, Trip, ClearTrip, SetConnected,
                  elementVars, node, beats, loopHistory
    <3>2. CASE \/ OnPublicKey \/ OnSessionEstablished \/ OnRefused
               \/ OnActuatorCommand \/ Watchdog
      BY <3>2 DEF OnPublicKey, OnSessionEstablished, OnRefused,
                  OnActuatorCommand, Watchdog, EstablishSession,
                  OnEstablished, ProcessCommand, WatchdogPass, elementVars,
                  node, serverSide, beats, loopHistory
    <3>3. CASE \/ Cut \/ Sever \/ Replay \/ Inject \/ Tick \/ Heal \/ Start
               \/ UNCHANGED <<vars, setting>>
      BY <3>3 DEF Cut, Sever, Replay, Inject, Tick, Heal, Start, Second, vars,
                  elementVars, node, beats, loopHistory
    <3>4. QED
      BY <1>5, <1>b, <3>1, <3>2, <3>3 DEF Next, ServerHandler, NodeHandler, Environment
  <2>2. ASSUME NEW e \in Beats, downlink' = Append(downlink, e)
        PROVE  FALSE
    <3>1. e \in DownEvents
      BY DEF DownEvents, Traffic
    <3>2. /\ Len(downlink') = Len(downlink) + 1 /\ Len(downlink) \in Nat
      BY <1>0, <2>2, <3>1, AppendQueue, LenProperties
    <3>3. downlink' # downlink
      BY <3>2
    <3>4. downlink' # <<>>
      BY <3>2, EmptySeq
    <3>5. downlink # <<>> => downlink' # Tail(downlink)
      <4>1. downlink # <<>> => Len(Tail(downlink)) = Len(downlink) - 1
        BY <1>0, TailQueue
      <4>2. QED
        BY <3>2, <4>1
    <3>6. PICK x \in DownEvents : downlink' = Append(downlink, x) /\ Sends(x)
      BY <1>0, <3>3, <3>4, <3>5, DownlinkSteps
    <3>7. x = e
      <4>1. downlink'[Len(downlink) + 1] = e
        BY <1>0, <2>2, <3>1, AppendQueue
      <4>2. downlink'[Len(downlink) + 1] = x
        BY <1>0, <3>6, AppendQueue
      <4>3. QED
        BY <4>1, <4>2
    <3>8. e # PublicKey /\ e # Established /\ e # Refused
          /\ \A p : e # Event("execute_actuator_command", p)
      <4>1. e.event = "sis_heartbeat"
        BY EventKinds
      <4>2. QED
        BY <4>1 DEF PublicKey, Established, Refused, Event
    <3>9. QED
      BY <1>5, <3>6, <3>7, <3>8 DEF Sends
  <2>3. QED
    BY <1>1, <2>1, <2>2
<1>6. QED
  BY <1>2, <1>3, <1>4, <1>5

LEMMA BeatsFreshInit == Init => BeatsFresh
<1> SUFFICES ASSUME Init PROVE BeatsFresh
  OBVIOUS
<1>1. downlink = <<>> /\ last_seq = 0 /\ heartbeat_seq = 0 /\ missed = FALSE
  BY DEF Init, InitServer, ElementInit
<1>2. Rising(downlink, BeatNumber, last_seq, heartbeat_seq)
  BY <1>1, RisingEmpty
<1>3. QED
  BY <1>1, <1>2 DEF BeatsFresh

-----------------------------------------------------------------------------
(* Calm: nothing but the node's power fails, and operators wait. *)

(* Beats in flight are sealed for the connection they are on, and a server
   with a session has its heartbeat running. *)
BeatKeys == \A e \in Range(downlink) \intersect Beats : e.packet.key = conn

TimerRuns == session # 0 => beat_timer # Never

(* The link and the server's end of it hold. *)
CalmLink ==
    Calm => /\ alive /\ linked /\ ~severed /\ silent = 0
            /\ connected => served

(* Watchdogs are those of a node in session. *)
CalmWatch ==
    Calm => /\ watchdogs > 0 => connected
            /\ connected /\ (Offered({Established}) \/ watchdogs > 0)
               => session = conn

CalmInv == BeatKeys /\ TimerRuns /\ CalmLink /\ CalmWatch

LEMMA BeatKeysStep ==
    ASSUME LoopCore, BeatKeys, [Next]_<<vars, setting>>
    PROVE  BeatKeys'
<1>0. LoopTypeOK /\ Affordable /\ HandshakeInv
  BY DEF LoopCore
<1> SUFFICES ASSUME NEW e \in Range(downlink') \intersect Beats
             PROVE  e.packet.key = conn'
  <2>1. Beats' = Beats
    BY DEF Beats, BeatPacket, Event
  <2>2. QED
    BY <2>1 DEF BeatKeys
<1>1. CASE OnConnect
  <2>1. downlink' = <<>>
    BY <1>1 DEF OnConnect
  <2>2. DOMAIN downlink' = {}
    BY <2>1
  <2>3. QED
    BY <2>2 DEF Range
<1>2. CASE ~OnConnect
  <2>1. conn' = conn
    BY <1>2, ConnectionSteps
  <2>2. CASE e \in Range(downlink)
    BY <2>1, <2>2 DEF BeatKeys
  <2>3. CASE e \notin Range(downlink)
    <3>1. Sends(e)
      BY <1>0, <2>3, DownlinkFlow
    <3>2. e # PublicKey /\ e # Established /\ e # Refused
          /\ \A p : e # Event("execute_actuator_command", p)
      <4>1. e.event = "sis_heartbeat"
        BY EventKinds
      <4>2. QED
        BY <4>1 DEF PublicKey, Established, Refused, Event
    <3>3. session = conn /\ e = Event("sis_heartbeat", Beat(heartbeat_seq + 1))
      BY <3>1, <3>2 DEF Sends
    <3>4. e.packet = Beat(heartbeat_seq + 1)
      BY <3>3 DEF Event
    <3>5. e.packet.key = session
      BY <3>4 DEF Beat
    <3>6. QED
      BY <2>1, <3>3, <3>5
  <2>4. QED
    BY <2>2, <2>3
<1>3. QED
  BY <1>1, <1>2

LEMMA TimerRunsStep ==
    ASSUME LoopCore, TimerRuns, [Next]_<<vars, setting>>
    PROVE  TimerRuns'
<1>0. /\ HEARTBEAT_PERIOD_S \in Nat /\ Never = -1 /\ Never' = -1
      /\ beat_timer \in Int /\ beat_timer >= -1
  BY SafetyLoopAssumption DEF LoopCore, LoopTypeOK, Never
<1> USE DEF TimerRuns
<1>1. CASE HandleEncapsulation
  BY <1>0, <1>1 DEF HandleEncapsulation, HeartbeatStarted
<1>2. CASE HeartbeatPass
  BY <1>0, <1>2 DEF HeartbeatPass
<1>3. CASE Tick
  BY <1>0, <1>3 DEF Tick
<1>4. CASE OnDisconnect \/ OnLateDisconnect \/ Crash
  BY <1>0, <1>4 DEF OnDisconnect, OnLateDisconnect, Crash, beats
<1>5. CASE \/ OnConnect \/ ClientNoticesClose \/ HandleHello \/ Dispatch
           \/ HandleReport \/ Trip \/ ClearTrip
  BY <1>0, <1>5 DEF OnConnect, ClientNoticesClose, HandleHello, Dispatch,
                    HandleReport, Trip, ClearTrip, beats
<1>6. CASE \/ OnPublicKey \/ OnSessionEstablished \/ OnRefused
           \/ OnActuatorCommand \/ OnHeartbeat \/ Watchdog \/ PowerCycle
  BY <1>0, <1>6 DEF OnPublicKey, OnSessionEstablished, OnRefused,
                    OnActuatorCommand, OnHeartbeat, Watchdog, PowerCycle,
                    serverSide, beats
<1>7. CASE \/ Cut \/ Sever \/ Replay \/ Inject \/ Heal \/ Start
           \/ UNCHANGED <<vars, setting>>
  BY <1>0, <1>7 DEF Cut, Sever, Replay, Inject, Heal, Start, vars, beats
<1>8. QED
  BY <1>1, <1>2, <1>3, <1>4, <1>5, <1>6, <1>7
     DEF Next, ServerHandler, NodeHandler, Environment

(* In calm neither end gives the other up. *)
LEMMA CalmSteps ==
    ASSUME LoopCore, CalmLink, [Next]_<<vars, setting>>, Calm
    PROVE  /\ ~Cut /\ ~Sever /\ ~Replay /\ ~Inject /\ ~Crash
           /\ ~ClientNoticesClose /\ ~Heal /\ ~Start
           /\ OnDisconnect => ~connected
<1>1. alive /\ linked /\ silent = 0 /\ (connected => served)
  BY DEF CalmLink
<1>2. ~("cut" \in setting.faults) /\ ~("sever" \in setting.faults)
      /\ ~("replay" \in setting.faults) /\ ~("crash" \in setting.faults)
      /\ ~("inject" \in setting.faults)
  BY DEF Calm
<1>3. PingTimeout # 0
  BY SafetyLoopAssumption, FinalElementAssumption
<1>4. QED
  BY <1>1, <1>2, <1>3 DEF Cut, Sever, Replay, Inject, Crash, ClientNoticesClose,
                          Heal, Start, OnDisconnect

LEMMA CalmLinkStep ==
    ASSUME LoopCore, CalmLink, [Next]_<<vars, setting>>, setting' = setting
    PROVE  CalmLink'
<1> SUFFICES ASSUME Calm
             PROVE  alive' /\ linked' /\ ~severed' /\ silent' = 0
                    /\ (connected' => served')
  BY DEF CalmLink, Calm
<1>0. alive /\ linked /\ ~severed /\ silent = 0 /\ (connected => served)
  BY DEF CalmLink
<1>1. CASE OnConnect
  BY <1>0, <1>1 DEF OnConnect, solver
<1>2. CASE OnDisconnect
  <2>1. ~connected
    BY <1>2, CalmSteps
  <2>2. QED
    BY <1>0, <1>2, <2>1 DEF OnDisconnect, solver, elementVars
<1>3. CASE \/ OnLateDisconnect \/ HandleHello \/ HandleEncapsulation
           \/ Dispatch \/ HandleReport \/ HeartbeatPass \/ Trip \/ ClearTrip
  <2>1. UNCHANGED <<connected, alive, linked, severed, silent, served>>
    BY <1>3 DEF OnLateDisconnect, HandleHello, HandleEncapsulation,
                Dispatch, HandleReport, HeartbeatPass, Trip, ClearTrip,
                elementVars, solver, link
  <2>2. QED
    BY <1>0, <2>1
<1>4. CASE \/ OnPublicKey \/ OnSessionEstablished \/ OnRefused
           \/ OnActuatorCommand \/ OnHeartbeat \/ Watchdog \/ PowerCycle
  <2>1. UNCHANGED <<alive, linked, severed, silent, served>>
    BY <1>4 DEF OnPublicKey, OnSessionEstablished, OnRefused,
                OnActuatorCommand, OnHeartbeat, Watchdog, PowerCycle,
                serverSide, solver, link
  <2>2. connected' => connected \/ OnConnect
    BY ConnectionSteps
  <2>3. OnConnect => served'
    BY DEF OnConnect
  <2>4. QED
    BY <1>0, <2>1, <2>2, <2>3
<1>5. CASE Tick
  BY <1>0, <1>5 DEF Tick, Second, solver
<1>6. CASE UNCHANGED <<vars, setting>>
  BY <1>0, <1>6 DEF vars, elementVars, solver, link
<1>7. QED
  BY <1>1, <1>2, <1>3, <1>4, <1>5, <1>6, CalmSteps
     DEF Next, ServerHandler, NodeHandler, Environment

LEMMA CalmWatchStep ==
    ASSUME LoopCore, CalmLink, CalmWatch, [Next]_<<vars, setting>>,
           setting' = setting
    PROVE  CalmWatch'
<1> SUFFICES ASSUME Calm
             PROVE  /\ watchdogs' > 0 => connected'
                    /\ connected' /\ (Established \in Range(downlink')
                                      \/ watchdogs' > 0)
                       => session' = conn'
  BY DEF CalmWatch, Calm, Offered, Established, Event, NoPacket
<1>0. /\ watchdogs \in Nat
      /\ watchdogs > 0 => connected
      /\ connected /\ (Established \in Range(downlink) \/ watchdogs > 0)
         => session = conn
      /\ LoopTypeOK /\ Affordable /\ HandshakeInv
  BY DEF CalmWatch, Offered, LoopCore, Typed, ElementTypeOK
<1>k. \A p : /\ Event("execute_actuator_command", p) # Established
             /\ Event("sis_heartbeat", p) # Established
  BY DEF Event, Established
<1>e. ASSUME Established \in Range(downlink'), Established \notin Range(downlink)
      PROVE  HandleEncapsulation
  <2>1. Sends(Established)
    BY <1>0, <1>e, DownlinkFlow
  <2>2. Established # PublicKey
    BY EventKinds
  <2>3. QED
    BY <1>k, <2>1, <2>2 DEF Sends
<1>1. CASE OnConnect
  <2>1. downlink' = <<>> /\ ~connected /\ connected' /\ watchdogs' = watchdogs
    BY <1>1 DEF OnConnect, SetConnected, tasks
  <2>2. DOMAIN downlink' = {}
    BY <2>1
  <2>3. Range(downlink') = {}
    BY <2>2 DEF Range
  <2>4. QED
    BY <1>0, <2>1, <2>3
<1>2. CASE HandleEncapsulation
  <2>1. UNCHANGED <<connected, watchdogs, conn>>
    BY <1>2 DEF HandleEncapsulation, elementVars, tasks, link
  <2>2. CASE session \in {0, conn}
    BY <1>0, <1>2, <2>1, <2>2 DEF HandleEncapsulation
  <2>3. CASE session \notin {0, conn}
    <3>1. session' = session
      BY <1>2, <2>3 DEF HandleEncapsulation
    <3>2. ~connected \/ ~(watchdogs > 0)
      BY <1>0, <2>3
    <3>3. Established \notin Range(downlink')
      <4>1. downlink' = ToNode(conn, <<Refused>>)
        BY <1>2, <2>3 DEF HandleEncapsulation, Refused
      <4>2. downlink \in Seq(DownEvents) /\ Queued /\ Refused \in DownEvents
        BY <1>0 DEF LoopTypeOK, HandshakeInv, OneHandshake, DownEvents, Signals
      <4>3. Range(downlink') \subseteq Range(downlink) \union {Refused}
        BY <4>1, <4>2, Emits
      <4>4. Established \notin Range(downlink)
        <5>1. Sent(HandshakeUp)
          <6>1. uplink \in Seq(UpEvents) /\ AtMostOne(uplink, HandshakeUp)
            BY <1>0 DEF LoopTypeOK, HandshakeInv, OneHandshake, Queued
          <6>2. PICK i : Receive("pqc_encapsulation", i)
            BY <1>2 DEF HandleEncapsulation
          <6>3. "pqc_encapsulation" \in Range(uplink)
            BY <6>1, <6>2, Receives
          <6>4. QED
            BY <6>3 DEF Sent, HandshakeUp
        <5>2. QED
          BY <1>0, <5>1 DEF HandshakeInv, OneHandshake, Offered, Signals
      <4>5. QED
        BY <4>3, <4>4, EventKinds
    <3>4. QED
      BY <1>0, <2>1, <3>2, <3>3
  <2>4. QED
    BY <2>2, <2>3
<1>3. CASE OnSessionEstablished
  <2>1. PICK i : Handle("pqc_established", i)
    BY <1>3 DEF OnSessionEstablished
  <2>2. downlink \in Seq(DownEvents) /\ Queued
    BY <1>0 DEF LoopTypeOK, HandshakeInv, OneHandshake
  <2>3. /\ connected /\ downlink[1] \in DownEvents
        /\ downlink[1].event = "pqc_established"
        /\ downlink[1] \in Range(downlink)
    BY <2>1, <2>2, Handles
  <2>4. downlink[1] = Established
    BY <2>3, EventKinds DEF DownEvents, Traffic
  <2>5. UNCHANGED <<connected, session, conn>>
    BY <1>3 DEF OnSessionEstablished, OnEstablished, serverSide, link
  <2>6. QED
    BY <1>0, <2>3, <2>4, <2>5
<1>4. CASE OnRefused \/ PowerCycle
  BY <1>4 DEF OnRefused, PowerCycle
<1>5. CASE OnDisconnect
  <2>1. ~connected /\ UNCHANGED <<connected, watchdogs>>
    BY <1>5, CalmSteps DEF OnDisconnect, elementVars, tasks
  <2>2. QED
    BY <1>0, <2>1
<1>6. CASE OnLateDisconnect
  <2>1. UNCHANGED <<connected, watchdogs, downlink, conn>>
        /\ session # conn
    BY <1>6 DEF OnLateDisconnect, elementVars, tasks, link
  <2>2. QED
    BY <1>0, <2>1
<1>7. CASE Watchdog
  <2>1. /\ UNCHANGED <<connected, session, conn, downlink>>
        /\ watchdogs' = IF connected THEN watchdogs ELSE watchdogs - 1
    BY <1>7 DEF Watchdog, WatchdogPass, serverSide, link
  <2>2. QED
    BY <1>0, <2>1
<1>8. ASSUME UNCHANGED <<connected, watchdogs, session, conn>>,
             ~HandleEncapsulation
      PROVE  /\ watchdogs' > 0 => connected'
             /\ connected' /\ (Established \in Range(downlink')
                               \/ watchdogs' > 0)
                => session' = conn'
  BY <1>0, <1>8, <1>e
<1>9. CASE \/ HandleHello \/ Dispatch \/ HandleReport \/ HeartbeatPass
           \/ Trip \/ ClearTrip
  <2>1. UNCHANGED <<connected, watchdogs, session, conn>>
    BY <1>9 DEF HandleHello, Dispatch, HandleReport, HeartbeatPass, Trip,
                ClearTrip, elementVars, tasks, link
  <2>2. QED
    BY <1>2, <1>8, <2>1
<1>10. CASE OnPublicKey \/ OnActuatorCommand \/ OnHeartbeat
  <2>1. UNCHANGED <<connected, watchdogs, session, conn>>
    BY <1>10 DEF OnPublicKey, OnActuatorCommand, OnHeartbeat,
                 EstablishSession, ProcessCommand, AcceptHeartbeat,
                 elementVars, tasks, serverSide, link
  <2>2. QED
    BY <1>2, <1>8, <2>1
<1>11. CASE Tick \/ UNCHANGED <<vars, setting>>
  <2>1. UNCHANGED <<connected, watchdogs, session, conn>>
    BY <1>11 DEF Tick, Second, vars, elementVars, tasks, link
  <2>2. QED
    BY <1>2, <1>8, <2>1
<1>12. QED
  BY <1>1, <1>2, <1>3, <1>4, <1>5, <1>6, <1>7, <1>9, <1>10, <1>11, CalmSteps
     DEF Next, ServerHandler, NodeHandler, Environment

LEMMA CalmStep ==
    ASSUME LoopCore, CalmInv, [Next]_<<vars, setting>>, setting' = setting
    PROVE  CalmInv'
BY BeatKeysStep, TimerRunsStep, CalmLinkStep, CalmWatchStep DEF CalmInv

LEMMA CalmInit == Init => CalmInv
<1> SUFFICES ASSUME Init PROVE CalmInv
  OBVIOUS
<1>1. DOMAIN downlink = {}
  BY DEF Init
<1>2. Range(downlink) = {}
  BY <1>1 DEF Range
<1>3. BeatKeys
  BY <1>2 DEF BeatKeys
<1>4. TimerRuns /\ CalmLink /\ CalmWatch
  BY DEF Init, InitServer, ElementInit, TimerRuns, CalmLink, CalmWatch
<1>5. QED
  BY <1>3, <1>4 DEF CalmInv

-----------------------------------------------------------------------------
(* In calm, on a link that keeps up, the watchdog has no reason to trip. *)

(* The next beat is sent, or in flight, a period after the last one heard. *)
OnTime ==
    Calm /\ Prompt /\ watchdogs > 0 =>
       /\ last_heartbeat \in 0 .. HEARTBEAT_PERIOD_S
       /\ last_heartbeat + beat_timer <= HEARTBEAT_PERIOD_S \/ Offered(Beats)

PromptInv == OnTime /\ (Prompt => NoSpuriousTrip)

LEMMA OnTimeStep ==
    ASSUME LoopCore, CalmInv, BeatsFresh, OnTime, [Next]_<<vars, setting>>,
           setting' = setting
    PROVE  OnTime'
<1> SUFFICES ASSUME Calm, Prompt, watchdogs' > 0
             PROVE  /\ last_heartbeat' \in 0 .. HEARTBEAT_PERIOD_S
                    /\ \/ last_heartbeat' + beat_timer' <= HEARTBEAT_PERIOD_S
                       \/ Range(downlink') \intersect Beats # {}
  <2>1. Beats' = Beats
    BY DEF Beats, BeatPacket, Event
  <2>2. QED
    BY <2>1 DEF OnTime, Offered, Calm
<1>0. /\ LoopTypeOK /\ Affordable /\ HandshakeInv
      /\ watchdogs \in Nat
      /\ HEARTBEAT_PERIOD_S \in Nat /\ HEARTBEAT_PERIOD_S > 0
      /\ HEARTBEAT_TIMEOUT_S \in Nat
      /\ HEARTBEAT_PERIOD_S < HEARTBEAT_TIMEOUT_S
      /\ beat_timer \in Int /\ beat_timer >= -1
      /\ beat_timer <= HEARTBEAT_PERIOD_S
      /\ downlink \in Seq(DownEvents) /\ Queued
      /\ Never = -1 /\ AgeCap = HEARTBEAT_TIMEOUT_S + 1
  BY SafetyLoopAssumption, FinalElementAssumption
     DEF LoopCore, LoopTypeOK, Typed, ElementTypeOK, Never, AgeCap,
         HandshakeInv, OneHandshake
<1>a. /\ alive /\ linked /\ ~severed /\ (connected => served)
      /\ watchdogs > 0 => connected
      /\ connected /\ (Offered({Established}) \/ watchdogs > 0)
         => session = conn
  BY DEF CalmInv, CalmLink, CalmWatch
<1>b. watchdogs > 0 =>
         /\ last_heartbeat \in 0 .. HEARTBEAT_PERIOD_S
         /\ \/ last_heartbeat + beat_timer <= HEARTBEAT_PERIOD_S
            \/ Range(downlink) \intersect Beats # {}
  BY DEF OnTime, Offered
<1>c. connected => conn # 0
  BY <1>0, SafetyLoopAssumption DEF LoopTypeOK, HandshakeInv, Numbered
<1>d. watchdogs > 0 => InSession
  BY <1>a DEF InSession
<1>1. CASE OnSessionEstablished
  <2>1. last_heartbeat' = 0 /\ beat_timer' = beat_timer
    BY <1>1 DEF OnSessionEstablished, OnEstablished, SeedDeadline, serverSide,
                beats
  <2>2. QED
    BY <1>0, <2>1
<1>2. CASE OnHeartbeat
  <2>1. PICK i : /\ Handle("sis_heartbeat", i)
                 /\ AcceptHeartbeat(downlink[i].packet)
    BY <1>2 DEF OnHeartbeat
  <2>2. /\ i = 1 /\ downlink # <<>> /\ downlink[1] \in DownEvents
        /\ downlink[1].event = "sis_heartbeat"
        /\ downlink[1] \in Range(downlink)
    BY <1>0, <2>1, Handles
  <2>3. downlink[1] \in Beats
    BY <2>2, EventKinds DEF DownEvents, Traffic
  <2>4. watchdogs > 0
    BY <2>1, TrafficGuarded
  <2>5. downlink[1].packet.key = key_b /\ key_b # NoKey
    BY <1>d, <2>2, <2>3, <2>4, SessionKey DEF CalmInv, BeatKeys, InSession
  <2>6. Counts(downlink[1].packet)
    <3>1. "crash" \notin setting.faults
      BY DEF Calm
    <3>2. last_seq < BeatNumber[downlink[1]]
      BY <1>0, <2>2, <2>3, <3>1, RisingTail, NumberTypes DEF BeatsFresh
    <3>3. last_seq \in Nat /\ BeatNumber[downlink[1]] \in Nat
      BY <2>3, NumberTypes, FinalElementAssumption
         DEF LoopCore, Typed, ElementTypeOK
    <3>4. /\ BeatNumber[downlink[1]] = downlink[1].packet.seq
          /\ downlink[1].packet.command = "HEARTBEAT"
      BY <2>3, NumberTypes, EventKinds, PacketKinds
    <3>5. QED
      BY <2>5, <3>2, <3>3, <3>4 DEF Counts
  <2>7. last_heartbeat' = 0
    BY <2>1, <2>2, <2>6 DEF AcceptHeartbeat
  <2>8. beat_timer' = beat_timer
    BY <1>2 DEF OnHeartbeat, serverSide, beats
  <2>9. QED
    BY <1>0, <2>7, <2>8
<1>3. CASE HeartbeatPass
  <2>1. /\ UNCHANGED <<watchdogs, last_heartbeat>>
    BY <1>3 DEF HeartbeatPass, elementVars, node, tasks
  <2>2. session = conn /\ served /\ session # 0
    BY <1>a, <1>c, <2>1
  <2>3. PICK e : e = Event("sis_heartbeat", Beat(heartbeat_seq + 1))
    OBVIOUS
  <2>4. /\ heartbeat_seq < MaxSeq /\ downlink' = ToNode(session, <<e>>)
    BY <1>3, <1>a, <2>2, <2>3 DEF HeartbeatPass
  <2>5. e \in Beats /\ e \in DownEvents
    BY <1>0, <2>2, <2>3, <2>4, SealsPackets DEF DownEvents, Traffic
  <2>6. Range(downlink') = Range(downlink) \union {e}
    BY <1>0, <2>2, <2>4, <2>5, Emits
  <2>7. QED
    BY <1>b, <2>1, <2>5, <2>6
<1>4. CASE Tick
  <2>1. /\ watchdogs' = watchdogs
        /\ last_heartbeat' = Older(last_heartbeat)
        /\ beat_timer # 0
        /\ beat_timer' = IF beat_timer = Never THEN Never ELSE beat_timer - 1
        /\ linked /\ connected /\ served => Delivered
    BY <1>4 DEF Tick, Second
  <2>2. downlink = <<>>
    BY <1>a, <2>1 DEF Delivered
  <2>3. Range(downlink) = {}
    <3>1. DOMAIN downlink = {}
      BY <2>2
    <3>2. QED
      BY <3>1 DEF Range
  <2>4. /\ last_heartbeat \in 0 .. HEARTBEAT_PERIOD_S
        /\ last_heartbeat + beat_timer <= HEARTBEAT_PERIOD_S
    BY <1>b, <2>1, <2>3
  <2>5. beat_timer # Never
    BY <1>a, <1>c, <2>1 DEF CalmInv, TimerRuns
  <2>6. last_heartbeat' = last_heartbeat + 1
    BY <1>0, <2>1, <2>4 DEF Older
  <2>7. beat_timer' = beat_timer - 1 /\ beat_timer >= 1
    BY <1>0, <2>1, <2>5
  <2>8. QED
    BY <1>0, <2>4, <2>6, <2>7
<1>5. CASE OnConnect
  <2>1. ~connected /\ watchdogs' = watchdogs
    BY <1>5 DEF OnConnect, SetConnected, tasks
  <2>2. QED
    BY <1>a, <2>1
<1>6. CASE OnRefused \/ PowerCycle
  BY <1>6 DEF OnRefused, PowerCycle
(* Everything else leaves the deadline, the timer and the beats alone. *)
<1>7. ASSUME UNCHANGED <<last_heartbeat, beat_timer>>,
             watchdogs' > 0 => watchdogs > 0,
             ~OnConnect, ~OnHeartbeat
      PROVE  /\ last_heartbeat' \in 0 .. HEARTBEAT_PERIOD_S
             /\ \/ last_heartbeat' + beat_timer' <= HEARTBEAT_PERIOD_S
                \/ Range(downlink') \intersect Beats # {}
  <2>1. ASSUME NEW e \in Range(downlink) \intersect Beats
        PROVE  e \in Range(downlink')
    <3> SUFFICES ASSUME e \notin Range(downlink') PROVE FALSE
      OBVIOUS
    <3>1. Takes(e)
      BY <1>0, <1>7, DownlinkFlow
    <3>2. e # PublicKey /\ e # Established /\ e # Refused /\ e \notin Commands
      BY EventKinds, NumberTypes DEF Signals, Traffic
    <3>3. QED
      BY <1>7, <3>1, <3>2 DEF Takes
  <2>2. QED
    BY <1>7, <1>b, <2>1
<1>8. CASE HandleEncapsulation
  <2>1. UNCHANGED <<last_heartbeat, watchdogs, conn>>
    BY <1>8 DEF HandleEncapsulation, elementVars, node, tasks, link
  <2>2. watchdogs > 0 => session # 0
    BY <1>a, <1>c
  <2>3. beat_timer' = beat_timer
    <3>1. beat_timer # Never
      BY <2>1, <2>2 DEF CalmInv, TimerRuns
    <3>2. QED
      BY <1>8, <3>1 DEF HandleEncapsulation, HeartbeatStarted
  <2>4. ~OnConnect
    BY <2>1, ConnectionSteps
  <2>5. CASE OnHeartbeat
    BY <1>2, <2>5
  <2>6. CASE ~OnHeartbeat
    BY <1>7, <2>1, <2>3, <2>4, <2>6
  <2>7. QED
    BY <2>5, <2>6
<1>9. CASE /\ ~OnSessionEstablished /\ ~OnHeartbeat /\ ~HeartbeatPass /\ ~Tick
           /\ ~OnConnect /\ ~OnRefused /\ ~PowerCycle /\ ~HandleEncapsulation
  <2>1. UNCHANGED <<last_heartbeat, beat_timer>>
        /\ (watchdogs' > 0 => watchdogs > 0)
    <3>1. CASE \/ OnDisconnect \/ OnLateDisconnect \/ HandleHello
               \/ Dispatch \/ HandleReport \/ Trip \/ ClearTrip
      BY <3>1 DEF OnDisconnect, OnLateDisconnect, HandleHello, Dispatch,
                  HandleReport, Trip, ClearTrip, elementVars, node, tasks,
                  beats
    <3>2. CASE OnPublicKey \/ OnActuatorCommand
      BY <3>2 DEF OnPublicKey, OnActuatorCommand, EstablishSession,
                  ProcessCommand, elementVars, node, tasks, serverSide, beats
    <3>3. CASE Watchdog
      <4>1. /\ UNCHANGED <<last_heartbeat, beat_timer>>
            /\ watchdogs' = IF connected THEN watchdogs ELSE watchdogs - 1
        BY <3>3 DEF Watchdog, WatchdogPass, serverSide, beats
      <4>2. QED
        BY <1>0, <4>1
    <3>4. CASE UNCHANGED <<vars, setting>>
      BY <3>4 DEF vars, elementVars, node, tasks, beats
    <3>5. QED
      BY <1>9, <3>1, <3>2, <3>3, <3>4, CalmSteps
         DEF CalmInv, Next, ServerHandler, NodeHandler, Environment
  <2>2. QED
    BY <1>7, <1>9, <2>1
<1>10. QED
  BY <1>1, <1>2, <1>3, <1>4, <1>5, <1>6, <1>8, <1>9

LEMMA PromptStep ==
    ASSUME LoopCore, CalmInv, BeatsFresh, PromptInv, [Next]_<<vars, setting>>,
           setting' = setting
    PROVE  PromptInv'
<1>1. OnTime'
  BY OnTimeStep DEF PromptInv
<1>2. ASSUME Prompt, Calm
      PROVE  ~tripped_by_watchdog'
  <2>0. ~tripped_by_watchdog
    BY <1>2 DEF PromptInv, NoSpuriousTrip
  <2>1. CASE Watchdog
    <3>1. WatchdogPass /\ due > 0
      BY <2>1 DEF Watchdog, WatchdogPass
    <3>2. due \in Nat /\ watchdogs \in Nat /\ due <= watchdogs
      BY DEF LoopCore, Typed, ElementTypeOK, DueAlive
    <3>3. last_heartbeat \in 0 .. HEARTBEAT_PERIOD_S
      BY <1>2, <3>1, <3>2 DEF PromptInv, OnTime
    <3>4. ~WatchdogTrips
      BY <3>3, SafetyLoopAssumption, FinalElementAssumption
         DEF WatchdogTrips, HeartbeatOverdue
    <3>5. QED
      BY <2>0, <3>1, <3>4 DEF WatchdogPass
  <2>2. CASE OnActuatorCommand
    <3>1. PICK p : ProcessCommand(p)
      BY <2>2 DEF OnActuatorCommand
    <3>2. CASE Obeyable(p)
      BY <2>0, <3>1, <3>2 DEF ProcessCommand, FlagAfter
    <3>3. CASE ~Obeyable(p)
      BY <2>0, <3>1, <3>3 DEF ProcessCommand, elementVars, node
    <3>4. QED
      BY <3>2, <3>3
  <2>3. CASE OnHeartbeat
    BY <2>0, <2>3 DEF OnHeartbeat, AcceptHeartbeat, elementVars, node
  <2>4. CASE PowerCycle
    BY <2>4 DEF PowerCycle
  <2>5. CASE \/ OnConnect \/ ClientNoticesClose \/ OnDisconnect
             \/ OnLateDisconnect \/ HandleHello \/ HandleEncapsulation
             \/ Dispatch \/ HandleReport \/ HeartbeatPass \/ Trip
             \/ ClearTrip
    BY <2>0, <2>5
       DEF OnConnect, ClientNoticesClose, OnDisconnect, OnLateDisconnect,
           HandleHello, HandleEncapsulation, Dispatch, HandleReport,
           HeartbeatPass, Trip, ClearTrip, SetConnected, elementVars, node
  <2>6. CASE \/ OnPublicKey \/ OnSessionEstablished \/ OnRefused \/ Tick
             \/ UNCHANGED <<vars, setting>>
    BY <2>0, <2>6
       DEF OnPublicKey, OnSessionEstablished, OnRefused, Tick, Second, vars,
           EstablishSession, OnEstablished, elementVars, node
  <2>7. QED
    BY <1>2, <2>1, <2>2, <2>3, <2>4, <2>5, <2>6, CalmSteps
       DEF CalmInv, Next, ServerHandler, NodeHandler, Environment
<1>3. (Prompt => NoSpuriousTrip)'
  BY <1>2 DEF NoSpuriousTrip, Calm
<1>4. QED
  BY <1>1, <1>3 DEF PromptInv

LEMMA PromptInit == Init => PromptInv
BY DEF Init, ElementInit, PromptInv, OnTime, NoSpuriousTrip

-----------------------------------------------------------------------------
(* In calm the valve follows the latch: commands arrive in the order they are
   sealed, and each is obeyed. *)

Trips == {e \in Commands : e.packet.command = "TRIP"}
Resets == {e \in Commands : e.packet.command = "RESET"}

(* Commands in flight are for this connection, above all that were seen. *)
CalmOrder ==
    Calm => /\ \A e \in Range(downlink) \intersect Commands :
                  e.packet.key = conn
            /\ \E low \in Nat :
                  /\ low <= sealed
                  /\ \A n \in seen_command_nonces : n <= low
                  /\ Rising(downlink, NonceOf, low, sealed)

(* Nothing closes the valve that the server does not know of. *)
TripKnown ==
    /\ Calm /\ Prompt
    /\ "CLOSED" \in Range(uplink) \/ "TRIP" \in Range(outbox) \/ Offered(Trips)
    => trip_state = "TRIPPED"

(* No RESET comes after the last TRIP of q. *)
TripLast(q) ==
    \A j \in DOMAIN q :
       q[j] \in Resets => \E i \in DOMAIN q : j < i /\ q[i] \in Trips

(* Unless the last command came late, the valve is CLOSED or a TRIP is still
   to be sealed or on its way, and nothing after it undoes it. *)
Closes ==
    Calm /\ Prompt /\ ~late /\ InSession /\ trip_state = "TRIPPED"
    => \/ "TRIP" \in Range(outbox)
       \/ /\ TripLast(downlink)
          /\ valve_state = "CLOSED" \/ Offered(Trips)

LatchInv == CalmOrder /\ TripKnown /\ Closes

LEMMA TripLastTail ==
    ASSUME NEW S, NEW q \in Seq(S), q # <<>>, TripLast(q)
    PROVE  /\ TripLast(Tail(q))
           /\ q[1] \in Resets => Range(Tail(q)) \intersect Trips # {}
<1>1. /\ Len(q) \in Nat /\ Len(q) >= 1
      /\ Tail(q) \in Seq(S) /\ Len(Tail(q)) = Len(q) - 1
      /\ \A k \in 1 .. Len(q) - 1 : Tail(q)[k] = q[k + 1]
  BY TailQueue
<1>2. /\ DOMAIN q = 1 .. Len(q) /\ DOMAIN Tail(q) = 1 .. Len(q) - 1
  BY <1>1, LenProperties
<1>3. /\ 1 \in 1 .. Len(q)
      /\ \A k \in 1 .. Len(q) - 1 : k + 1 \in 1 .. Len(q)
      /\ \A i \in 1 .. Len(q) : 1 < i =>
            /\ i - 1 \in 1 .. Len(q) - 1
            /\ (i - 1) + 1 = i
            /\ \A j \in 1 .. Len(q) - 1 : j + 1 < i => j < i - 1
  BY <1>1
<1>4. ASSUME NEW i \in 1 .. Len(q), 1 < i, q[i] \in Trips
      PROVE  i - 1 \in DOMAIN Tail(q) /\ Tail(q)[i - 1] \in Trips
  <2>1. i - 1 \in 1 .. Len(q) - 1 /\ (i - 1) + 1 = i
    BY <1>3, <1>4
  <2>2. Tail(q)[i - 1] = q[i]
    BY <1>1, <2>1
  <2>3. QED
    BY <1>2, <1>4, <2>1, <2>2
<1>5. ASSUME NEW j \in DOMAIN Tail(q), Tail(q)[j] \in Resets
      PROVE  \E i \in DOMAIN Tail(q) : j < i /\ Tail(q)[i] \in Trips
  <2>1. Tail(q)[j] = q[j + 1] /\ j + 1 \in DOMAIN q /\ j \in 1 .. Len(q) - 1
    BY <1>1, <1>2, <1>3
  <2>2. PICK i \in DOMAIN q : j + 1 < i /\ q[i] \in Trips
    BY <1>5, <2>1 DEF TripLast
  <2>3. 1 < i /\ j < i - 1
    <3>1. 1 < i
      BY <1>1, <1>2, <2>1, <2>2
    <3>2. QED
      BY <1>2, <1>3, <2>1, <2>2, <3>1
  <2>4. QED
    BY <1>2, <1>4, <2>2, <2>3
<1>6. ASSUME q[1] \in Resets
      PROVE  Range(Tail(q)) \intersect Trips # {}
  <2>1. PICK i \in DOMAIN q : 1 < i /\ q[i] \in Trips
    BY <1>2, <1>3, <1>6 DEF TripLast
  <2>2. i - 1 \in DOMAIN Tail(q) /\ Tail(q)[i - 1] \in Trips
    BY <1>2, <1>4, <2>1
  <2>3. QED
    BY <2>2 DEF Range
<1>7. QED
  BY <1>5, <1>6 DEF TripLast

LEMMA TripLastAppend ==
    ASSUME NEW S, NEW q \in Seq(S), NEW e \in S
    PROVE  /\ e \in Trips => TripLast(Append(q, e))
           /\ TripLast(q) /\ e \notin Resets => TripLast(Append(q, e))
<1> DEFINE r == Append(q, e)
           n == Len(q)
<1>1. /\ Len(r) = n + 1 /\ r \in Seq(S)
      /\ \A k \in 1 .. n : r[k] = q[k]
      /\ r[n + 1] = e
  BY AppendQueue
<1>2. n \in Nat /\ DOMAIN q = 1 .. n /\ DOMAIN r = 1 .. n + 1
  BY <1>1, LenProperties
<1>3. \A x : ~(x \in Trips /\ x \in Resets)
  BY DEF Trips, Resets
<1> HIDE DEF r, n
<1>4. /\ n + 1 \in 1 .. n + 1
      /\ 1 .. n \subseteq 1 .. n + 1
      /\ \A k \in 1 .. n + 1 : (k \in 1 .. n /\ k < n + 1) \/ k = n + 1
  BY <1>2
<1>5. ASSUME e \in Trips
      PROVE  TripLast(r)
  BY <1>1, <1>2, <1>3, <1>4, <1>5 DEF TripLast
<1>6. ASSUME TripLast(q), e \notin Resets
      PROVE  TripLast(r)
  <2>1. ASSUME NEW j \in 1 .. n + 1, r[j] \in Resets
        PROVE  \E i \in 1 .. n + 1 : j < i /\ r[i] \in Trips
    <3>1. j \in 1 .. n /\ q[j] \in Resets
      BY <1>1, <1>4, <1>6, <2>1
    <3>2. PICK i \in 1 .. n : j < i /\ q[i] \in Trips
      BY <1>2, <1>6, <3>1 DEF TripLast
    <3>3. QED
      BY <1>1, <1>4, <3>2
  <2>2. QED
    BY <1>2, <2>1 DEF TripLast
<1>7. QED
  BY <1>5, <1>6 DEF r

LEMMA CalmOrderStep ==
    ASSUME LoopCore, SingleUse, CalmInv, CalmOrder, [Next]_<<vars, setting>>,
           setting' = setting
    PROVE  CalmOrder'
<1> SUFFICES ASSUME Calm
             PROVE  /\ \A e \in Range(downlink') \intersect Commands :
                          e.packet.key = conn'
                    /\ \E low \in Nat :
                          /\ low <= sealed'
                          /\ \A n \in seen_command_nonces' : n <= low
                          /\ Rising(downlink', NonceOf, low, sealed')
  <2>1. Commands' = Commands /\ NonceOf' = NonceOf
    BY DEF NonceOf, Commands, CommandPacket, Event
  <2>2. QED
    BY <2>1 DEF CalmOrder, Calm, Rising
<1>0. /\ LoopTypeOK /\ Affordable /\ HandshakeInv
      /\ downlink \in Seq(DownEvents) /\ Queued
      /\ sealed \in Nat /\ sealed' \in Nat /\ sealed <= sealed'
      /\ DOMAIN NonceOf = Commands
  BY IssuedSteps DEF LoopCore, LoopTypeOK, HandshakeInv, OneHandshake, NonceOf
<1>r. ~Replay /\ ~Inject
  BY CalmSteps DEF CalmInv
<1>a. \A e \in Range(downlink) \intersect Commands : e.packet.key = conn
  BY DEF CalmOrder
<1>b. PICK low \in Nat : /\ low <= sealed
                         /\ \A n \in seen_command_nonces : n <= low
                         /\ Rising(downlink, NonceOf, low, sealed)
  BY DEF CalmOrder
<1>s. \A n \in seen_command_nonces : n \in Nat
  BY SafetyLoopAssumption DEF LoopCore, Typed, ElementTypeOK
(* What is sent is sealed for this connection, under the next nonce. *)
<1>n. ASSUME NEW e \in Commands, Sends(e)
      PROVE  /\ Dispatch /\ sealed' = sealed + 1
             /\ e.packet.key = conn /\ NonceOf[e] = sealed + 1
  <2>1. e.event = "execute_actuator_command"
    BY EventKinds
  <2>2. e # PublicKey /\ e # Established /\ e # Refused
        /\ e # Event("sis_heartbeat", Beat(heartbeat_seq + 1))
    BY <2>1 DEF PublicKey, Established, Refused, Event
  <2>3. /\ Dispatch /\ session = conn
        /\ \E i \in DOMAIN outbox :
              /\ e = Event("execute_actuator_command", Command(outbox[i]))
              /\ sealed' = sealed + 1
    BY <1>n, <1>r, <2>2 DEF Sends
  <2>4. PICK i \in DOMAIN outbox :
           /\ e = Event("execute_actuator_command", Command(outbox[i]))
           /\ sealed' = sealed + 1
    BY <2>3
  <2>5. e.packet.key = session /\ e.packet.nonce = sealed + 1
    BY <2>4 DEF Event, Command
  <2>6. QED
    BY <2>3, <2>4, <2>5, NumberTypes
<1>1. ASSUME NEW e \in Range(downlink') \intersect Commands
      PROVE  e.packet.key = conn'
  <2>1. CASE OnConnect
    <3>1. downlink' = <<>>
      BY <2>1 DEF OnConnect
    <3>2. DOMAIN downlink' = {}
      BY <3>1
    <3>3. QED
      BY <3>2 DEF Range
  <2>2. CASE ~OnConnect
    <3>1. conn' = conn
      BY <2>2, ConnectionSteps
    <3>2. CASE e \in Range(downlink)
      BY <1>a, <3>1, <3>2
    <3>3. CASE e \notin Range(downlink)
      <4>1. Sends(e)
        BY <1>0, <3>3, DownlinkFlow
      <4>2. QED
        BY <1>n, <3>1, <4>1
    <3>4. QED
      BY <3>2, <3>3
  <2>3. QED
    BY <2>1, <2>2
(* The store and the queue move together. *)
<1>2. ASSUME \A n \in seen_command_nonces' : n \in seen_command_nonces
      PROVE  \E x \in Nat : /\ x <= sealed'
                            /\ \A n \in seen_command_nonces' : n <= x
                            /\ Rising(downlink', NonceOf, x, sealed')
  <2>0. low <= sealed' /\ low <= low /\ \A n \in seen_command_nonces' : n <= low
    BY <1>0, <1>b, <1>2
  <2>1. ASSUME NEW q, Rising(q, NonceOf, low, sealed), downlink' = q
        PROVE  Rising(downlink', NonceOf, low, sealed')
    <3>1. q \in Seq(DownEvents)
      BY <2>1, QueuesStep DEF LoopCore
    <3>2. QED
      BY <1>0, <2>0, <2>1, <3>1, RisingWider, NumberTypes
  <2>2. ASSUME downlink' = downlink
        PROVE  Rising(downlink', NonceOf, low, sealed')
    BY <1>b, <2>0, <2>1, <2>2
  <2>3. ASSUME downlink' = <<>>
        PROVE  Rising(downlink', NonceOf, low, sealed')
    BY <2>0, <2>3, RisingEmpty
  <2>4. ASSUME downlink # <<>>, downlink' = Tail(downlink)
        PROVE  Rising(downlink', NonceOf, low, sealed')
    <3>1. Rising(Tail(downlink), NonceOf, low, sealed)
      BY <1>0, <1>b, <2>4, RisingTail
    <3>2. QED
      BY <2>0, <2>1, <2>4, <3>1
  <2>5. ASSUME NEW e \in DownEvents, downlink' = Append(downlink, e), Sends(e)
        PROVE  Rising(downlink', NonceOf, low, sealed')
    <3>1. CASE e \notin Commands
      <4>1. Rising(Append(downlink, e), NonceOf, low, sealed)
        BY <1>0, <1>b, <3>1, RisingAppend, NumberTypes
      <4>2. QED
        BY <2>1, <2>5, <4>1
    <3>2. CASE e \in Commands
      <4>1. sealed' = sealed + 1 /\ NonceOf[e] = sealed + 1
        BY <1>n, <2>5, <3>2
      <4>2. sealed < NonceOf[e]
        BY <1>0, <4>1
      <4>3. Rising(Append(downlink, e), NonceOf, low, NonceOf[e])
        BY <1>0, <1>b, <3>2, <4>2, RisingAppend, NumberTypes
      <4>4. QED
        BY <2>5, <4>1, <4>3
    <3>3. QED
      BY <3>1, <3>2
  <2>6. Rising(downlink', NonceOf, low, sealed')
    <3>1. \/ downlink' = downlink
          \/ downlink' = <<>>
          \/ downlink # <<>> /\ downlink' = Tail(downlink)
          \/ \E e \in DownEvents :
                downlink' = Append(downlink, e) /\ Sends(e)
      BY <1>0, DownlinkSteps
    <3>2. QED
      BY <2>2, <2>3, <2>4, <2>5, <3>1
  <2>7. QED
    BY <2>0, <2>6
<1>3. CASE UNCHANGED seen_command_nonces \/ seen_command_nonces' = {}
  BY <1>1, <1>2, <1>3
<1>4. ASSUME OnActuatorCommand, downlink[1] \in Commands,
             seen_command_nonces'
                = seen_command_nonces \union {downlink[1].packet.nonce}
      PROVE  \E x \in Nat : /\ x <= sealed'
                            /\ \A n \in seen_command_nonces' : n <= x
                            /\ Rising(downlink', NonceOf, x, sealed')
  <2>1. PICK i : Handle("execute_actuator_command", i)
    BY <1>4 DEF OnActuatorCommand
  <2>2. downlink # <<>> /\ downlink' = Tail(downlink)
    BY <1>0, <2>1, Handles
  <2>3. sealed' = sealed
    BY <1>4 DEF OnActuatorCommand, serverSide, solver
  <2>4. PICK x : x = NonceOf[downlink[1]]
    OBVIOUS
  <2>5. x \in Nat /\ x = downlink[1].packet.nonce
    BY <1>4, <2>4, NumberTypes
  <2>6. low < x /\ x <= sealed /\ Rising(Tail(downlink), NonceOf, x, sealed)
    BY <1>0, <1>4, <1>b, <2>2, <2>4, RisingTail
  <2>7. ASSUME NEW n \in seen_command_nonces'
        PROVE  n <= x
    <3>1. CASE n \in seen_command_nonces
      <4>1. n \in Nat /\ n <= low
        BY <1>b, <1>s, <3>1
      <4>2. QED
        BY <2>5, <2>6, <4>1
    <3>2. CASE n = x
      BY <2>5, <3>2
    <3>3. QED
      BY <1>4, <2>5, <3>1, <3>2
  <2>8. QED
    BY <2>2, <2>3, <2>5, <2>6, <2>7
<1>5. \E x \in Nat : /\ x <= sealed'
                     /\ \A n \in seen_command_nonces' : n <= x
                     /\ Rising(downlink', NonceOf, x, sealed')
  BY <1>2, <1>4, StoreSteps
<1>6. QED
  BY <1>1, <1>5

LEMMA TripKnownStep ==
    ASSUME LoopCore, CalmInv, TripKnown, Prompt => NoSpuriousTrip',
           [Next]_<<vars, setting>>, setting' = setting
    PROVE  TripKnown'
<1> SUFFICES ASSUME Calm, Prompt,
                    \/ "CLOSED" \in Range(uplink')
                    \/ "TRIP" \in Range(outbox')
                    \/ Range(downlink') \intersect Trips # {}
             PROVE  trip_state' = "TRIPPED"
  <2>1. Trips' = Trips
    BY DEF Trips, Commands, CommandPacket, Event
  <2>2. QED
    BY <2>1 DEF TripKnown, Calm, Offered
<1>0. /\ LoopTypeOK /\ Typed /\ Affordable /\ HandshakeInv
      /\ outbox \in Seq(Decisions)
      /\ downlink \in Seq(DownEvents) /\ Queued
  BY DEF LoopCore, LoopTypeOK, HandshakeInv, OneHandshake
<1>c. /\ ~Cut /\ ~Sever /\ ~Replay /\ ~Inject /\ ~Crash
      /\ ~ClientNoticesClose /\ ~Heal /\ ~Start
  BY CalmSteps DEF CalmInv
<1>a. \/ "CLOSED" \in Range(uplink) \/ "TRIP" \in Range(outbox)
      \/ Range(downlink) \intersect Trips # {}
      => trip_state = "TRIPPED"
  BY DEF TripKnown, Offered
<1>k. "TRIP" \in Decisions /\ "RESET" \in Decisions /\ "TRIP" # "RESET"
  BY DEF Decisions
<1>1. CASE Trip
  BY <1>1 DEF Trip
<1>2. CASE ClearTrip
  <2>1. /\ uplink' = <<>> /\ downlink' = <<>>
        /\ outbox = <<>> /\ outbox' = Append(outbox, "RESET")
    BY <1>2 DEF ClearTrip, Quiet, Calm
  <2>2. DOMAIN uplink' = {} /\ DOMAIN downlink' = {} /\ DOMAIN outbox = {}
    BY <2>1
  <2>3. Range(uplink') = {} /\ Range(downlink') = {} /\ Range(outbox) = {}
    BY <2>2 DEF Range
  <2>4. Range(outbox') = Range(outbox) \union {"RESET"}
    <3>1. Range(Append(outbox, "RESET")) = Range(outbox) \union {"RESET"}
      BY <1>0, <1>k, AppendRange
    <3>2. QED
      BY <2>1, <3>1
  <2>5. QED
    BY <1>k, <2>3, <2>4
<1>3. CASE ~Trip /\ ~ClearTrip
  <2>1. trip_state' \in {trip_state, "TRIPPED"}
    <3>1. CASE \/ OnConnect \/ ClientNoticesClose \/ OnDisconnect
               \/ OnLateDisconnect \/ HandleHello \/ HandleEncapsulation
               \/ HandleReport \/ HeartbeatPass \/ Dispatch
      BY <3>1 DEF OnConnect, ClientNoticesClose, OnDisconnect,
                  OnLateDisconnect, HandleHello, HandleEncapsulation,
                  HandleReport, LatchAfter, HeartbeatPass, Dispatch, solver
    <3>2. CASE \/ OnPublicKey \/ OnSessionEstablished \/ OnRefused
               \/ OnActuatorCommand \/ OnHeartbeat \/ Watchdog \/ PowerCycle
      BY <3>2 DEF OnPublicKey, OnSessionEstablished, OnRefused,
                  OnActuatorCommand, OnHeartbeat, Watchdog, PowerCycle,
                  serverSide, solver
    <3>3. CASE Tick \/ UNCHANGED <<vars, setting>>
      BY <3>3 DEF Tick, vars, solver
    <3>4. QED
      BY <1>3, <1>c, <3>1, <3>2, <3>3 DEF Next, ServerHandler, NodeHandler, Environment
  <2>2. ASSUME "CLOSED" \in Range(uplink'), "CLOSED" \notin Range(uplink)
        PROVE  trip_state = "TRIPPED"
    <3>1. ~(Watchdog /\ WatchdogTrips)
      <4> SUFFICES ASSUME Watchdog, WatchdogTrips PROVE FALSE
        OBVIOUS
      <4>1. tripped_by_watchdog' = TRUE
        BY DEF Watchdog, WatchdogPass
      <4>2. QED
        BY <4>1 DEF NoSpuriousTrip, Calm
    <3>2. PICK p : /\ downlink # <<>> /\ downlink[1] \in Commands
                   /\ p = downlink[1].packet
                   /\ Obeyable(p) /\ "CLOSED" = ValveAfter(p)
      BY <1>0, <2>2, <3>1, UplinkGrows
    <3>3. p.command \in {"TRIP", "RESET"}
      BY <3>2, EventKinds, PacketKinds
    <3>4. p.command = "TRIP"
      BY <3>2, <3>3 DEF ValveAfter
    <3>5. downlink[1] \in Range(downlink) \intersect Trips
      <4>1. 1 \in DOMAIN downlink
        BY <1>0, <3>2, TailQueue, LenProperties
      <4>2. QED
        BY <3>2, <3>4, <4>1 DEF Trips, Range
    <3>6. QED
      BY <1>a, <3>5
  <2>3. ASSUME "TRIP" \in Range(outbox'), "TRIP" \notin Range(outbox)
        PROVE  trip_state = "TRIPPED"
    <3>1. CASE HandleEncapsulation
      <4>1. outbox' = outbox \/ outbox' = Append(outbox, SyncCommand)
        BY <3>1 DEF HandleEncapsulation, AfterHandshake
      <4>2. SyncCommand \in Decisions
        BY <1>k DEF SyncCommand
      <4>3. Range(Append(outbox, SyncCommand))
               = Range(outbox) \union {SyncCommand}
        BY <1>0, <4>2, AppendRange
      <4>4. SyncCommand = "TRIP"
        BY <2>3, <4>1, <4>3
      <4>5. QED
        BY <4>4 DEF SyncCommand
    <3>2. CASE Dispatch
      <4>1. PICK i \in DOMAIN outbox : outbox' = RemoveAt(outbox, i)
        BY <3>2 DEF Dispatch
      <4>2. i \in 1 .. Len(outbox)
        BY <1>0, <4>1, LenProperties
      <4>3. Range(outbox) = {outbox[i]} \union Range(outbox')
        BY <1>0, <4>1, <4>2, RemoveRange
      <4>4. QED
        BY <2>3, <4>3
    <3>3. CASE \/ OnConnect \/ OnDisconnect \/ OnLateDisconnect
               \/ HandleHello \/ HandleReport \/ HeartbeatPass
               \/ Tick \/ UNCHANGED <<vars, setting>>
      BY <2>3, <3>3 DEF OnConnect, OnDisconnect, OnLateDisconnect,
                        HandleHello, HandleReport, HeartbeatPass, Tick, vars
    <3>4. CASE \/ OnPublicKey \/ OnSessionEstablished \/ OnRefused
               \/ OnActuatorCommand \/ OnHeartbeat \/ Watchdog \/ PowerCycle
      BY <2>3, <3>4 DEF OnPublicKey, OnSessionEstablished, OnRefused,
                        OnActuatorCommand, OnHeartbeat, Watchdog, PowerCycle,
                        serverSide
    <3>5. QED
      BY <1>3, <1>c, <3>1, <3>2, <3>3, <3>4 DEF Next, ServerHandler, NodeHandler, Environment
  <2>4. ASSUME NEW e \in Range(downlink') \intersect Trips,
               e \notin Range(downlink)
        PROVE  trip_state = "TRIPPED"
    <3>1. Sends(e) /\ e \in Commands /\ e.packet.command = "TRIP"
      BY <1>0, <2>4, DownlinkFlow DEF Trips
    <3>2. e.event = "execute_actuator_command"
      BY <3>1, EventKinds
    <3>3. e # PublicKey /\ e # Established /\ e # Refused
          /\ e # Event("sis_heartbeat", Beat(heartbeat_seq + 1))
      BY <3>2 DEF PublicKey, Established, Refused, Event
    <3>4. PICK i \in DOMAIN outbox :
             e = Event("execute_actuator_command", Command(outbox[i]))
      BY <1>c, <3>1, <3>3 DEF Sends
    <3>5. e.packet.command = outbox[i]
      BY <3>4 DEF Event, Command
    <3>6. "TRIP" \in Range(outbox)
      BY <3>1, <3>5 DEF Range
    <3>7. QED
      BY <1>a, <3>6
  <2>5. QED
    BY <1>a, <2>1, <2>2, <2>3, <2>4
<1>4. QED
  BY <1>1, <1>2, <1>3

LEMMA ClosesStep ==
    ASSUME LoopCore, CalmInv, LatchInv, [Next]_<<vars, setting>>,
           setting' = setting
    PROVE  Closes'
<1> SUFFICES ASSUME Calm, Prompt, ~late', InSession',
                    trip_state' = "TRIPPED"
             PROVE  \/ "TRIP" \in Range(outbox')
                    \/ /\ TripLast(downlink')
                       /\ \/ valve_state' = "CLOSED"
                          \/ Range(downlink') \intersect Trips # {}
  <2>1. Trips' = Trips /\ Resets' = Resets
    BY DEF Trips, Resets, Commands, CommandPacket, Event
  <2>2. QED
    BY <2>1 DEF Closes, Calm, Offered, TripLast
<1>0. /\ LoopTypeOK /\ Typed /\ Affordable /\ HandshakeInv
      /\ outbox \in Seq(Decisions)
      /\ downlink \in Seq(DownEvents) /\ Queued
      /\ uplink \in Seq(UpEvents) /\ AtMostOne(uplink, HandshakeUp)
      /\ conn \in Nat /\ session \in Nat /\ session <= conn
      /\ trip_state \in {"HEALTHY", "TRIPPED"}
      /\ valve_state \in {"OPEN", "CLOSED"}
  BY LenProperties, SafetyLoopAssumption
     DEF LoopCore, LoopTypeOK, Typed, ElementTypeOK, HandshakeInv,
         OneHandshake, Queued, LatchInv
<1>c. /\ ~Cut /\ ~Sever /\ ~Replay /\ ~Inject /\ ~Crash
      /\ ~ClientNoticesClose /\ ~Heal /\ ~Start
  BY CalmSteps DEF CalmInv
<1>a. /\ connected' /\ served' /\ session' = conn'
  BY DEF InSession
<1>b. conn # 0 \/ OnConnect
  <2>1. connected \/ OnConnect
    BY <1>a, ConnectionSteps
  <2>2. QED
    BY <1>0, <2>1 DEF HandshakeInv, Numbered
<1>d. ~late /\ InSession /\ trip_state = "TRIPPED"
      => \/ "TRIP" \in Range(outbox)
         \/ /\ TripLast(downlink)
            /\ \/ valve_state = "CLOSED"
               \/ Range(downlink) \intersect Trips # {}
  BY DEF LatchInv, Closes, Offered
<1>t. ASSUME outbox' = Append(outbox, "TRIP")
      PROVE  "TRIP" \in Range(outbox')
  <2>1. Range(Append(outbox, "TRIP")) = Range(outbox) \union {"TRIP"}
    BY <1>0, AppendRange DEF Decisions
  <2>2. QED
    BY <1>t, <2>1
<1>1. CASE OnConnect
  <2>1. session' = session /\ conn' = conn + 1
    BY <1>1 DEF OnConnect
  <2>2. session = conn + 1
    BY <1>a, <2>1
  <2>3. QED
    BY <1>0, <2>2
<1>2. CASE OnRefused \/ PowerCycle \/ OnDisconnect
  BY <1>2, <1>a DEF OnRefused, PowerCycle, OnDisconnect
<1>3. CASE OnLateDisconnect
  <2>1. session' = 0 /\ conn' = conn
    BY <1>3 DEF OnLateDisconnect, link
  <2>2. ~OnConnect
    BY <2>1, ConnectionSteps
  <2>3. QED
    BY <1>a, <1>b, <2>1, <2>2
<1>4. CASE HandleEncapsulation
  <2>1. /\ trip_state' = trip_state /\ conn' = conn
        /\ \/ session \in {0, conn} /\ outbox' = Append(outbox, SyncCommand)
           \/ session \notin {0, conn} /\ session' = session
    BY <1>4 DEF HandleEncapsulation, AfterHandshake, link, solver
  <2>2. session \in {0, conn}
    BY <1>a, <2>1
  <2>3. SyncCommand = "TRIP"
    BY <2>1 DEF SyncCommand
  <2>4. QED
    BY <1>t, <2>1, <2>2, <2>3
<1>5. CASE Trip
  <2>1. /\ session' = session /\ conn' = conn
        /\ outbox' = IF session # 0 THEN Append(outbox, "TRIP") ELSE outbox
    BY <1>5 DEF Trip, link
  <2>2. ~OnConnect
    BY <2>1, ConnectionSteps
  <2>3. session # 0
    BY <1>a, <1>b, <2>1, <2>2
  <2>4. QED
    BY <1>t, <2>1, <2>3
<1>6. CASE ClearTrip
  BY <1>6 DEF ClearTrip
<1>7. CASE Dispatch
  <2>1. UNCHANGED <<connected, served, session, conn, valve_state, trip_state>>
    BY <1>7 DEF Dispatch, elementVars, node, link
  <2>2. InSession /\ trip_state = "TRIPPED" /\ session # 0
    <3>1. InSession
      BY <1>a, <2>1 DEF InSession
    <3>2. QED
      BY <2>1, <3>1, SessionKey DEF InSession
  <2>3. PICK i \in DOMAIN outbox :
           /\ late' = (outbox[i] # SyncCommand)
           /\ downlink' = ToNode(session,
                             <<Event("execute_actuator_command",
                                     Command(outbox[i]))>>)
    BY <1>7, <2>2 DEF Dispatch
  <2>6. outbox[i] = "TRIP"
    BY <2>2, <2>3 DEF SyncCommand
  <2>e. PICK e : e = Event("execute_actuator_command", Command(outbox[i]))
    OBVIOUS
  <2>8. e \in Commands /\ e \in DownEvents
    BY <1>0, <2>2, <2>e, SealsPackets DEF DownEvents, Traffic
  <2>9. e \in Trips
    <3>1. e.packet.command = "TRIP"
      BY <2>6, <2>e DEF Event, Command
    <3>2. QED
      BY <2>8, <3>1 DEF Trips
  <2>10. downlink' = Append(downlink, e)
    <3>1. downlink' = ToNode(session, <<e>>)
      BY <2>3, <2>e
    <3>2. QED
      BY <1>0, <2>2, <2>8, <3>1, Emits DEF InSession
  <2>11. TripLast(downlink')
    BY <1>0, <2>8, <2>9, <2>10, TripLastAppend
  <2>12. e \in Range(downlink')
    BY <1>0, <2>8, <2>10, AppendRange
  <2>13. QED
    BY <2>9, <2>11, <2>12
<1>8. CASE OnActuatorCommand
  <2>1. PICK i : /\ Handle("execute_actuator_command", i)
                 /\ ProcessCommand(downlink[i].packet)
    BY <1>8 DEF OnActuatorCommand
  <2>2. /\ i = 1 /\ connected /\ downlink # <<>> /\ downlink' = Tail(downlink)
        /\ downlink[1] \in DownEvents
        /\ downlink[1].event = "execute_actuator_command"
        /\ downlink[1] \in Range(downlink)
        /\ Range(downlink) = {downlink[1]} \union Range(downlink')
    BY <1>0, <2>1, Handles
  <2>3. downlink[1] \in Commands
    BY <2>2, EventKinds DEF DownEvents, Traffic
  <2>4. UNCHANGED <<served, session, conn, trip_state, outbox, late>>
    BY <1>8 DEF OnActuatorCommand, serverSide, link, solver, loopHistory
  <2>5. InSession /\ trip_state = "TRIPPED"
    BY <1>a, <2>2, <2>4 DEF InSession
  <2>6. CASE "TRIP" \in Range(outbox)
    BY <2>4, <2>6
  <2>7. CASE "TRIP" \notin Range(outbox)
    <3>0. /\ TripLast(downlink)
          /\ valve_state = "CLOSED" \/ Range(downlink) \intersect Trips # {}
      BY <1>d, <2>4, <2>5, <2>7
    <3>1. /\ TripLast(downlink')
          /\ downlink[1] \in Resets =>
                Range(downlink') \intersect Trips # {}
      BY <1>0, <2>2, <3>0, TripLastTail
    <3>2. downlink[1] \in Trips => valve_state' = "CLOSED"
      <4> SUFFICES ASSUME downlink[1] \in Trips PROVE valve_state' = "CLOSED"
        OBVIOUS
      <4>1. Obeyable(downlink[1].packet)
        <5>1. downlink[1].packet.key = key_b /\ key_b # NoKey
          BY <2>2, <2>3, <2>5, SessionKey DEF LatchInv, CalmOrder
        <5>2. PICK low \in Nat : /\ \A n \in seen_command_nonces : n <= low
                                 /\ Rising(downlink, NonceOf, low, sealed)
          BY DEF LatchInv, CalmOrder
        <5>3. low < NonceOf[downlink[1]]
          BY <1>0, <2>2, <2>3, <5>2, RisingTail, NumberTypes
        <5>4. /\ NonceOf[downlink[1]] = downlink[1].packet.nonce
              /\ NonceOf[downlink[1]] \in Nat
          BY <2>3, NumberTypes
        <5>5. downlink[1].packet.nonce \notin seen_command_nonces
          BY <5>2, <5>3, <5>4
        <5>6. QED
          BY <5>1, <5>5 DEF Obeyable
      <4>2. valve_state' = ValveAfter(downlink[1].packet)
        BY <2>1, <2>2, <4>1 DEF ProcessCommand
      <4>3. QED
        BY <4>2 DEF Trips, ValveAfter
    <3>3. CASE downlink[1] \in Resets
      BY <3>0, <3>1, <3>3
    <3>4. CASE downlink[1] \in Trips
      BY <3>0, <3>1, <3>2, <3>4
    <3>5. downlink[1] \in Trips \/ downlink[1] \in Resets
      BY <2>3, EventKinds, PacketKinds DEF Trips, Resets
    <3>6. QED
      BY <3>3, <3>4, <3>5
  <2>8. QED
    BY <2>6, <2>7
(* Everything else leaves the commands alone, and does not open the valve. *)
<1>9. ASSUME InSession, trip_state = "TRIPPED", outbox' = outbox, ~late,
             valve_state' \in {valve_state, "CLOSED"},
             ~OnConnect, ~OnActuatorCommand, ~Dispatch
      PROVE  \/ "TRIP" \in Range(outbox')
             \/ /\ TripLast(downlink')
                /\ \/ valve_state' = "CLOSED"
                   \/ Range(downlink') \intersect Trips # {}
  <2> SUFFICES ASSUME "TRIP" \notin Range(outbox)
               PROVE  /\ TripLast(downlink')
                      /\ \/ valve_state' = "CLOSED"
                         \/ Range(downlink') \intersect Trips # {}
    BY <1>9
  <2>1. /\ TripLast(downlink)
        /\ valve_state = "CLOSED" \/ Range(downlink) \intersect Trips # {}
    BY <1>d, <1>9
  <2>2. ASSUME NEW e \in Commands
        PROVE  ~Takes(e) /\ ~Sends(e)
    <3>1. e \notin Beats /\ e # PublicKey /\ e # Established /\ e # Refused
      BY EventKinds DEF Signals, Traffic
    <3>2. e # Event("sis_heartbeat", Beat(heartbeat_seq + 1))
      <4>1. e.event = "execute_actuator_command"
        BY EventKinds
      <4>2. QED
        BY <4>1 DEF Event
    <3>3. QED
      BY <1>9, <1>c, <3>1, <3>2 DEF Takes, Sends
  <2>3. Trips \subseteq Commands /\ Resets \subseteq Commands
    BY DEF Trips, Resets
  <2>4. TripLast(downlink')
    <3>1. CASE downlink # <<>> /\ downlink' = Tail(downlink)
      BY <1>0, <2>1, <3>1, TripLastTail
    <3>2. ASSUME NEW e \in DownEvents, downlink' = Append(downlink, e), Sends(e)
          PROVE  TripLast(downlink')
      BY <1>0, <2>1, <2>2, <2>3, <3>2, TripLastAppend
    <3>3. QED
      BY <1>0, <1>9, <2>1, <3>1, <3>2, DownlinkSteps
  <2>5. Range(downlink) \intersect Trips \subseteq Range(downlink')
    BY <1>0, <1>9, <2>2, <2>3, DownlinkFlow
  <2>6. QED
    BY <1>9, <2>1, <2>4, <2>5
<1>10. CASE HandleReport
  <2>1. PICK valve \in {"OPEN", "CLOSED"} : \E i :
           Receive(valve, i) /\ trip_state' = LatchAfter(valve)
    BY <1>10 DEF HandleReport
  <2>2. valve \in Range(uplink)
    BY <1>0, <2>1, Receives
  <2>3. trip_state = "TRIPPED"
    BY <1>0, <2>1, <2>2 DEF LatchInv, TripKnown, LatchAfter
  <2>4. UNCHANGED <<connected, served, session, conn, valve_state, outbox,
                    late>>
    BY <1>10 DEF HandleReport, elementVars, node, link, loopHistory
  <2>5. InSession
    BY <1>a, <2>4 DEF InSession
  <2>6. QED
    BY <1>1, <1>7, <1>8, <1>9, <2>3, <2>4, <2>5
<1>11. CASE \/ HandleHello \/ HeartbeatPass \/ OnPublicKey
            \/ OnSessionEstablished \/ OnHeartbeat \/ Watchdog
            \/ Tick \/ UNCHANGED <<vars, setting>>
  <2>1. /\ UNCHANGED <<connected, served, session, conn, trip_state, outbox,
                       late>>
        /\ valve_state' \in {valve_state, "CLOSED"}
    <3>1. CASE \/ HandleHello \/ HeartbeatPass \/ Tick
               \/ UNCHANGED <<vars, setting>>
      BY <3>1 DEF HandleHello, HeartbeatPass, Tick, Second, vars, elementVars,
                  node, link, solver, loopHistory
    <3>2. CASE \/ OnPublicKey \/ OnSessionEstablished \/ OnHeartbeat
      BY <3>2 DEF OnPublicKey, OnSessionEstablished, OnHeartbeat,
                  EstablishSession, OnEstablished, AcceptHeartbeat,
                  elementVars, node, serverSide, link, solver, loopHistory
    <3>3. CASE Watchdog
      BY <3>3 DEF Watchdog, WatchdogPass, serverSide, link, solver, loopHistory
    <3>4. QED
      BY <1>11, <3>1, <3>2, <3>3
  <2>2. InSession /\ trip_state = "TRIPPED"
    BY <1>a, <2>1 DEF InSession
  <2>3. QED
    BY <1>1, <1>7, <1>8, <1>9, <2>1, <2>2
<1>12. QED
  BY <1>1, <1>2, <1>3, <1>4, <1>5, <1>6, <1>7, <1>8, <1>10, <1>11, <1>c
     DEF Next, ServerHandler, NodeHandler, Environment

LEMMA LatchStep ==
    ASSUME LoopCore, SingleUse, CalmInv, LatchInv, Prompt => NoSpuriousTrip',
           [Next]_<<vars, setting>>, setting' = setting
    PROVE  LatchInv'
BY CalmOrderStep, TripKnownStep, ClosesStep DEF LatchInv

LEMMA LatchInit == Init => LatchInv
<1> SUFFICES ASSUME Init PROVE LatchInv
  OBVIOUS
<1>1. /\ downlink = <<>> /\ uplink = <<>> /\ outbox = <<>>
      /\ seen_command_nonces = {} /\ sealed = 0 /\ ~connected
      /\ trip_state = "HEALTHY"
  BY DEF Init, InitServer, ElementInit
<1>2. DOMAIN downlink = {} /\ DOMAIN uplink = {} /\ DOMAIN outbox = {}
      /\ Len(outbox) = 0
  BY <1>1
<1>3. Range(downlink) = {} /\ Range(uplink) = {} /\ Range(outbox) = {}
  BY <1>2 DEF Range
<1>4. CalmOrder
  <2>1. Rising(downlink, NonceOf, 0, sealed)
    BY <1>1, RisingEmpty
  <2>2. 0 \in Nat /\ 0 <= sealed /\ \A n \in seen_command_nonces : n <= 0
    BY <1>1
  <2>3. QED
    BY <1>3, <2>1, <2>2 DEF CalmOrder
<1>5. TripKnown /\ Closes
  BY <1>1, <1>2, <1>3 DEF TripKnown, Offered, Closes, InSession
<1>6. QED
  BY <1>4, <1>5 DEF LatchInv

LEMMA ReopensInit == Init => Reopens
BY DEF Init, ElementInit, Reopens, InSession

LEMMA LatchImplies ==
    ASSUME LoopCore, Reopens, LatchInv, Prompt
    PROVE  CalmLatchAgrees
<1> SUFFICES ASSUME Calm, Quiet, ~late
             PROVE  valve_state = "CLOSED" <=> trip_state = "TRIPPED"
  BY DEF CalmLatchAgrees, LatchAgreesInOrder
<1>1. InSession /\ outbox = <<>> /\ downlink = <<>>
  BY DEF Quiet, InSession
<1>2. DOMAIN outbox = {} /\ DOMAIN downlink = {}
  BY <1>1
<1>3. Range(outbox) = {} /\ Range(downlink) = {}
  BY <1>2 DEF Range
<1>4. trip_state = "TRIPPED" => valve_state = "CLOSED"
  BY <1>1, <1>3 DEF LatchInv, Closes, Offered
<1>5. trip_state = "HEALTHY" => valve_state = "OPEN"
  BY ReopensImplies DEF HealthyMeansOpen
<1>6. QED
  BY <1>4, <1>5 DEF LoopCore, LoopTypeOK

-----------------------------------------------------------------------------
(* The inductive invariant, and what follows from it. *)

LoopInv ==
    /\ LoopCore /\ SingleUse /\ SilenceInv /\ Reopens /\ BeatsFresh
    /\ CalmInv /\ PromptInv /\ LatchInv

LEMMA LoopInvInit == Init => LoopInv
BY CoreInit, SingleUseInit, SilenceInit, ReopensInit, BeatsFreshInit, CalmInit,
   PromptInit, LatchInit DEF LoopInv

LEMMA LoopInvStep ==
    ASSUME LoopInv, [Next /\ UNCHANGED setting]_<<vars, setting>>
    PROVE  LoopInv'
<1>1. [Next]_<<vars, setting>> /\ setting' = setting
  OBVIOUS
<1>2. LoopCore' /\ SingleUse' /\ SilenceInv' /\ Reopens'
  BY <1>1, CoreStep, SingleUseStep, SilenceStep, ReopensStep DEF LoopInv
<1>3. BeatsFresh' /\ CalmInv'
  BY <1>1, BeatsFreshStep, CalmStep DEF LoopInv
<1>4. PromptInv'
  BY <1>1, PromptStep DEF LoopInv
<1>5. Prompt => NoSpuriousTrip'
  BY <1>4 DEF PromptInv
<1>6. LatchInv'
  BY <1>1, <1>5, LatchStep DEF LoopInv
<1>7. QED
  BY <1>2, <1>3, <1>4, <1>6 DEF LoopInv

LEMMA LoopInvHolds == Spec => []LoopInv
<1>1. LoopInv /\ [Next /\ UNCHANGED setting]_<<vars, setting>> => LoopInv'
  BY LoopInvStep
<1>2. QED
  BY <1>1, LoopInvInit, PTL DEF Spec

(* Every reachable state of server, link and node is well formed: no counter
   leaves its range, no queue holds anything but what the handlers expect. *)
THEOREM LoopTyped == Spec => [](LoopTypeOK /\ ElementTypeOK)
<1>1. LoopInv => LoopTypeOK /\ ElementTypeOK
  BY DEF LoopInv, LoopCore, Typed
<1>2. QED
  BY <1>1, LoopInvHolds, PTL

(* Spelt as it was sealed a command is obeyed once over all lives of the node,
   though its nonce store is lost with its power: the session it was sealed for
   is lost as well (actuator.py:70-76). *)
THEOREM ObeyedOnceOverRestarts == Spec => []ObeyedOnce
<1>1. LoopInv => ObeyedOnce
  BY DEF LoopInv, SingleUse
<1>2. QED
  BY <1>1, LoopInvHolds, PTL

(* While a watchdog runs, the valve is not OPEN through two of its passes in
   silence, whatever happens to the server and the link. *)
THEOREM WatchedValveClosesInLoop == Spec => []WatchedValveCloses
<1>1. LoopInv => WatchedValveCloses
  BY DEF LoopInv, LoopCore, Watched
<1>2. QED
  BY <1>1, LoopInvHolds, PTL

(* Silence closes the valve of a node that was not told, since its last
   handshake, that the server's end is closed: a watchdog always outlives the
   silence that the ping timeout waits for. *)
THEOREM SilenceClosesValve == Spec => []SilenceClosesUnlessDeserted
<1>1. LoopInv => SilenceClosesUnlessDeserted
  BY SilenceImplies DEF LoopInv
<1>2. QED
  BY <1>1, LoopInvHolds, PTL

(* With nothing in flight a HEALTHY server has the valve OPEN, over overlapping
   handlers, lost links, replays and restarts of either side. *)
THEOREM HealthyHasValveOpen == Spec => []HealthyMeansOpen
<1>1. LoopInv => HealthyMeansOpen
  BY ReopensImplies DEF LoopInv
<1>2. QED
  BY <1>1, LoopInvHolds, PTL

(* A beat of this session that was never counted is not refused, unless the
   server was started again and numbers its beats from 1. *)
THEOREM EveryFreshBeatCounts == Spec => []FreshBeatsCount
<1>1. LoopInv => FreshBeatsCount
  BY DEF LoopInv, BeatsFresh, FreshBeatsCount
<1>2. QED
  BY <1>1, LoopInvHolds, PTL

(* On a link that keeps up, with nothing stopping the beats, no watchdog
   trips: one of them always comes before the deadline. *)
THEOREM WatchdogHasCause ==
    ASSUME Prompt
    PROVE  Spec => []NoSpuriousTrip
<1>1. LoopInv => NoSpuriousTrip
  BY DEF LoopInv, PromptInv
<1>2. QED
  BY <1>1, LoopInvHolds, PTL

(* On such a link, with an operator who waits, the latch and the valve agree
   whenever nothing is in flight, over trips, resets, reconnections and power
   cycles of the node and whatever handlers overlap, unless the last command
   left late: after a trip or a reset came between its decision and its
   sending. *)
THEOREM LatchFollowsValve ==
    ASSUME Prompt
    PROVE  Spec => []CalmLatchAgrees
<1>1. LoopInv => CalmLatchAgrees
  BY LatchImplies DEF LoopInv
<1>2. QED
  BY <1>1, LoopInvHolds, PTL
=============================================================================
