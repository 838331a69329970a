------------------------ MODULE ElementThreadsProofs ------------------------
(***************************************************************************)
(* Proofs about ElementThreads for any number of handler threads and       *)
(* watchdogs and any set of commands.                                      *)
(***************************************************************************)
EXTENDS ElementThreads, FiniteSetTheorems, TLAPS

(* While the flag stands over an OPEN valve, some thread is between its two
   writes, and the second write will end it. *)
BlindCovered ==
    tripped_by_watchdog /\ valve_state = "OPEN" =>
        \/ \E h \in Handlers : at[h] = "second"
        \/ \E w \in Watchdogs : watch[w] = "close"

Inv == TypeOK /\ BlindCovered

(* The invariant holds before any thread has run. *)
LEMMA InitInv == Init => Inv
<1> SUFFICES ASSUME Init PROVE Inv
  OBVIOUS
<1>1. TypeOK
  <2>1. /\ obeyed \in [Nonces -> Nat]
        /\ at \in [Handlers -> Steps]
        /\ packet \in [Handlers -> Nonces \union Beats \union {Idle}]
        /\ watch \in [Watchdogs -> {"sleep", "late", "flag", "close"}]
        /\ anew \in [Handlers -> BOOLEAN]
    BY DEF Init, Steps
  <2>2. \A h \in Handlers : at[h] = "idle"
    BY DEF Init
  <2>3. 0 \in 0 .. MaxSeq
    BY ElementThreadsAssumption
  <2>4. QED
    BY <2>1, <2>2, <2>3 DEF Init, TypeOK
<1>2. BlindCovered
  BY DEF Init, BlindCovered
<1>3. QED
  BY <1>1, <1>2 DEF Inv

-----------------------------------------------------------------------------
(* A handler's step leaves every field in its type. *)
LEMMA HandlerTyped ==
    ASSUME TypeOK, NEW h \in Handlers, HandlerStep(h)
    PROVE  TypeOK'
<1> USE DEF TypeOK, Step, Steps, fields
<1>1. CASE CheckNonce(h)
  BY <1>1 DEF CheckNonce
<1>2. CASE RememberNonce(h)
  <2>1. packet[h] \in Nonces
    BY <1>2 DEF RememberNonce
  <2>2. /\ at' \in [Handlers -> Steps] /\ at'[h] = "act"
        /\ \A g \in Handlers \ {h} : at'[g] = at[g]
    BY <1>2 DEF RememberNonce
  <2>3. seen_command_nonces' \subseteq Nonces
    BY <1>2, <2>1 DEF RememberNonce
  <2>4. UNCHANGED <<valve_state, tripped_by_watchdog, last_seq, overdue,
                    packet, anew, watch, obeyed>>
    BY <1>2 DEF RememberNonce
  <2>5. QED
    BY <2>1, <2>2, <2>3, <2>4
<1>3. ASSUME Moves(h), packet[h] \in Nonces
      PROVE  obeyed' \in [Nonces -> Nat]
  <2>1. \/ obeyed' = obeyed
        \/ obeyed' = [obeyed EXCEPT ![packet[h]] = @ + 1]
    BY <1>3 DEF Moves
  <2>2. QED
    BY <1>3, <2>1
<1>4. CASE Close(h)
  <2>1. obeyed' \in [Nonces -> Nat]
    BY <1>3, <1>4 DEF Close
  <2>2. /\ at' \in [Handlers -> Steps] /\ at'[h] = "idle"
        /\ \A g \in Handlers \ {h} : at'[g] = at[g]
    BY <1>4 DEF Close
  <2>3. valve_state' = "CLOSED"
    BY <1>4 DEF Close
  <2>4. UNCHANGED <<tripped_by_watchdog, seen_command_nonces, last_seq,
                    overdue, packet, anew, watch>>
    BY <1>4 DEF Close
  <2>5. QED
    BY <2>1, <2>2, <2>3, <2>4
<1>5. CASE ResetFirst(h)
  <2>1. obeyed' \in [Nonces -> Nat]
    BY <1>3, <1>5 DEF ResetFirst
  <2>2. /\ at' \in [Handlers -> Steps] /\ at'[h] = "second"
        /\ \A g \in Handlers \ {h} : at'[g] = at[g]
        /\ packet[h] \in Resets
    BY <1>5 DEF ResetFirst
  <2>3. valve_state' = "OPEN" /\ tripped_by_watchdog' = tripped_by_watchdog
    BY <1>5 DEF ResetFirst, ResetWrite, OpenValve
  <2>4. UNCHANGED <<seen_command_nonces, last_seq, overdue, packet, anew,
                    watch>>
    BY <1>5 DEF ResetFirst
  <2>5. QED
    BY <2>1, <2>2, <2>3, <2>4
<1>6. CASE ResetSecond(h)
  <2>1. /\ at' \in [Handlers -> Steps] /\ at'[h] = "idle"
        /\ \A g \in Handlers \ {h} : at'[g] = at[g]
    BY <1>6 DEF ResetSecond
  <2>2. ClearFlag
    <3>1. ResetWrite(2)
      BY <1>6 DEF ResetSecond
    <3>2. 2 # 1
      OBVIOUS
    <3>3. QED
      BY <3>1, <3>2 DEF ResetWrite
  <2>3. UNCHANGED <<seen_command_nonces, last_seq, overdue, packet, anew,
                    watch, obeyed>>
    BY <1>6 DEF ResetSecond
  <2>4. tripped_by_watchdog' \in BOOLEAN /\ valve_state' = valve_state
    BY <2>2 DEF ClearFlag
  <2>5. QED
    BY <2>1, <2>3, <2>4
<1>7. CASE CheckSeq(h)
  <2>1. /\ at' \in [Handlers -> Steps] /\ at'[h] \in {"idle", "count"}
        /\ \A g \in Handlers \ {h} : at'[g] = at[g]
        /\ packet[h] \in Beats
    BY <1>7 DEF CheckSeq
  <2>2. QED
    BY <1>7, <2>1 DEF CheckSeq
<1>8. CASE CountBeat(h)
  <2>1. packet[h] \in Beats
    BY <1>8 DEF CountBeat
  <2>2. /\ at' \in [Handlers -> Steps] /\ at'[h] = "stamp"
        /\ \A g \in Handlers \ {h} : at'[g] = at[g]
    BY <1>8 DEF CountBeat
  <2>3. last_seq' \in 0 .. MaxSeq
    BY <1>8, <2>1, ElementThreadsAssumption DEF CountBeat, Beats
  <2>4. UNCHANGED <<valve_state, tripped_by_watchdog, seen_command_nonces,
                    overdue, packet, anew, watch, obeyed>>
    BY <1>8 DEF CountBeat
  <2>5. QED
    BY <2>1, <2>2, <2>3, <2>4
<1>9. CASE StampBeat(h)
  BY <1>9 DEF StampBeat
<1>10. QED
  BY <1>1, <1>2, <1>4, <1>5, <1>6, <1>7, <1>8, <1>9 DEF HandlerStep

(* A statement of any thread keeps the types. *)
LEMMA TypeStep == TypeOK /\ [Next]_vars => TypeOK'
<1> SUFFICES ASSUME TypeOK, [Next]_vars PROVE TypeOK'
  OBVIOUS
<1> USE DEF TypeOK
<1>1. CASE UNCHANGED vars
  BY <1>1 DEF vars, fields, threads
<1>2. ASSUME NEW h \in Handlers, NEW n \in Nonces, NEW respelt \in BOOLEAN,
             DeliverCommand(h, n, respelt)
      PROVE  TypeOK'
  BY <1>2 DEF DeliverCommand, Step, Steps, fields
<1>3. ASSUME NEW h \in Handlers, NEW s \in Beats, DeliverBeat(h, s)
      PROVE  TypeOK'
  BY <1>3 DEF DeliverBeat, Step, Steps, fields
<1>4. ASSUME NEW h \in Handlers, HandlerStep(h)
      PROVE  TypeOK'
  BY <1>4, HandlerTyped
<1>5. ASSUME NEW w \in Watchdogs, WatchdogStep(w)
      PROVE  TypeOK'
  BY <1>5 DEF WatchdogStep, ReadFlag, ReadDeadline, RaiseFlag, CloseValve,
              Watch, fields
<1>6. CASE BecomeOverdue
  BY <1>6 DEF BecomeOverdue, threads
<1>7. QED
  BY <1>1, <1>2, <1>3, <1>4, <1>5, <1>6 DEF Next

-----------------------------------------------------------------------------
(* Only the first write of a pair can raise the flag over an OPEN valve, and
   only the second write of a pair takes its thread away. *)
LEMMA CoveredStep == TypeOK /\ BlindCovered /\ [Next]_vars => BlindCovered'
<1> SUFFICES ASSUME TypeOK, BlindCovered, [Next]_vars PROVE BlindCovered'
  OBVIOUS
<1>0. /\ DOMAIN at = Handlers /\ DOMAIN watch = Watchdogs
      /\ at \in [Handlers -> Steps]
      /\ watch \in [Watchdogs -> {"sleep", "late", "flag", "close"}]
  BY DEF TypeOK
(* No write, and no thread leaves the place between its writes. *)
<1>1. ASSUME UNCHANGED <<tripped_by_watchdog, valve_state>>,
             \A h \in Handlers : at[h] = "second" => at'[h] = "second",
             \A w \in Watchdogs : watch[w] = "close" => watch'[w] = "close"
      PROVE  BlindCovered'
  BY <1>1 DEF BlindCovered
<1>2. CASE UNCHANGED vars
  BY <1>1, <1>2 DEF vars, fields, threads
<1>3. ASSUME NEW h \in Handlers, NEW n \in Nonces, NEW respelt \in BOOLEAN,
             DeliverCommand(h, n, respelt)
      PROVE  BlindCovered'
  BY <1>0, <1>1, <1>3 DEF DeliverCommand, Step, fields
<1>4. ASSUME NEW h \in Handlers, NEW s \in Beats, DeliverBeat(h, s)
      PROVE  BlindCovered'
  BY <1>0, <1>1, <1>4 DEF DeliverBeat, Step, fields
<1>5. ASSUME NEW h \in Handlers, HandlerStep(h)
      PROVE  BlindCovered'
  <2>1. CASE CheckNonce(h) \/ RememberNonce(h)
    BY <1>0, <1>1, <2>1 DEF CheckNonce, RememberNonce, Step, fields
  <2>2. CASE CheckSeq(h) \/ CountBeat(h) \/ StampBeat(h)
    BY <1>0, <1>1, <2>2 DEF CheckSeq, CountBeat, StampBeat, Step, fields
  <2>3. CASE Close(h)
    BY <2>3 DEF Close, BlindCovered
  <2>4. CASE ResetFirst(h)
    BY <1>0, <2>4 DEF ResetFirst, Step, BlindCovered
  <2>5. CASE ResetSecond(h)
    BY <2>5 DEF ResetSecond, ResetWrite, ClearFlag, BlindCovered
  <2>6. QED
    BY <1>5, <2>1, <2>2, <2>3, <2>4, <2>5 DEF HandlerStep
<1>6. ASSUME NEW w \in Watchdogs, WatchdogStep(w)
      PROVE  BlindCovered'
  <2>1. CASE ReadFlag(w) \/ ReadDeadline(w)
    BY <1>0, <1>1, <2>1 DEF ReadFlag, ReadDeadline, Watch, fields
  <2>2. CASE RaiseFlag(w)
    BY <1>0, <2>2 DEF RaiseFlag, Watch, BlindCovered
  <2>3. CASE CloseValve(w)
    BY <2>3 DEF CloseValve, BlindCovered
  <2>4. QED
    BY <1>6, <2>1, <2>2, <2>3 DEF WatchdogStep
<1>7. CASE BecomeOverdue
  BY <1>1, <1>7 DEF BecomeOverdue, threads
<1>8. QED
  BY <1>2, <1>3, <1>4, <1>5, <1>6, <1>7 DEF Next

-----------------------------------------------------------------------------
(* The invariant holds in every reachable state. *)
LEMMA InvHolds == Spec => []Inv
<1>1. Inv /\ [Next]_vars => Inv'
  BY TypeStep, CoveredStep DEF Inv
<1>2. QED
  BY <1>1, InitInv, PTL DEF Spec

(* Every thread always holds a packet of the kind its place calls for. *)
THEOREM ThreadsTyped == Spec => []TypeOK
<1>1. Inv => TypeOK
  BY DEF Inv
<1>2. QED
  BY <1>1, InvHolds, PTL

(* The order of the writes at actuator.py:84-85 and 226-227 is enough: without
   a lock, and for any number of threads, the node never comes to rest with
   its watchdog blind. *)
THEOREM RestIsNeverBlind == Spec => []NeverBlindAtRest
<1>1. Inv => NeverBlindAtRest
  BY DEF Inv, BlindCovered, NeverBlindAtRest, Rest
<1>2. QED
  BY <1>1, InvHolds, PTL

-----------------------------------------------------------------------------
(* The race between the check of a nonce and its record. *)

Holding(n) ==
    {h \in Handlers : /\ at[h] \in {"remember", "act"}
                      /\ packet[h] = n /\ ~anew[h]}

(* Before a nonce is recorded nothing was carried out under it as it was spelt,
   and from then on only the threads that passed the check before are left to
   do so. *)
Raced ==
    /\ \A h \in Handlers :
          at[h] = "act" /\ ~anew[h] => packet[h] \in seen_command_nonces
    /\ \A n \in Nonces :
          /\ n \notin seen_command_nonces => obeyed[n] = 0
          /\ obeyed[n] + Cardinality(Holding(n)) <= Cardinality(Handlers)

(* No more handlers hold a command than there are handlers. *)
LEMMA HoldingFinite ==
    ASSUME NEW n
    PROVE  /\ IsFiniteSet(Holding(n))
           /\ Cardinality(Holding(n)) \in Nat
           /\ Cardinality(Handlers) \in Nat
           /\ Cardinality(Holding(n)) <= Cardinality(Handlers)
<1>1. Holding(n) \subseteq Handlers
  BY DEF Holding
<1>2. QED
  BY <1>1, ElementThreadsAssumption, FS_Subset, FS_CardinalityType

(* Before any thread has run no command has been obeyed. *)
LEMMA InitRaced == Init => Raced
<1> SUFFICES ASSUME Init PROVE Raced
  OBVIOUS
<1>1. \A h \in Handlers : at[h] = "idle"
  BY DEF Init
<1>2. ASSUME NEW n \in Nonces
      PROVE  /\ obeyed[n] = 0
             /\ obeyed[n] + Cardinality(Holding(n)) <= Cardinality(Handlers)
  <2>1. obeyed[n] = 0
    BY DEF Init
  <2>2. QED
    BY <2>1, HoldingFinite
<1>3. QED
  BY <1>1, <1>2 DEF Raced

(* A step that carries nothing out and lets no thread past the check. *)
LEMMA RacedKept ==
    ASSUME TypeOK, Raced, obeyed' = obeyed,
           seen_command_nonces \subseteq seen_command_nonces',
           \A h \in Handlers :
              at'[h] = "act" /\ ~anew'[h] =>
                 packet'[h] \in seen_command_nonces',
           \A h \in Handlers :
              at'[h] \in {"remember", "act"} =>
                 /\ at[h] \in {"remember", "act"}
                 /\ packet'[h] = packet[h] /\ anew'[h] = anew[h]
    PROVE  Raced'
<1>1. ASSUME NEW n \in Nonces
      PROVE  /\ n \notin seen_command_nonces' => obeyed'[n] = 0
             /\ obeyed'[n] + Cardinality(Holding(n)') <= Cardinality(Handlers)
  <2>1. Holding(n)' \subseteq Holding(n)
    BY DEF Holding
  <2>2. /\ Cardinality(Holding(n)') \in Nat
        /\ Cardinality(Holding(n)') <= Cardinality(Holding(n))
    BY <2>1, HoldingFinite, FS_Subset, FS_CardinalityType
  <2>3. obeyed[n] \in Nat
    BY DEF TypeOK
  <2>4. QED
    BY <2>2, <2>3, HoldingFinite DEF Raced
<1>2. QED
  BY <1>1 DEF Raced

(* A thread passes the check: nothing was carried out yet, or it goes idle. *)
LEMMA RacedCheck ==
    ASSUME TypeOK, Raced, NEW h \in Handlers, CheckNonce(h)
    PROVE  Raced'
<1>1. /\ at' = [at EXCEPT ![h] = IF Known(h) THEN "idle" ELSE "remember"]
      /\ at[h] = "check" /\ at \in [Handlers -> Steps]
      /\ packet' = packet /\ anew' = anew /\ obeyed' = obeyed
      /\ seen_command_nonces' = seen_command_nonces
  BY DEF CheckNonce, Step, TypeOK, fields
<1>2. CASE Known(h)
  <2>1. \A g \in Handlers : at'[g] = IF g = h THEN "idle" ELSE at[g]
    BY <1>1, <1>2
  <2>2. QED
    BY <1>1, <2>1, RacedKept DEF Raced
<1>3. CASE ~Known(h)
  <2>1. \A g \in Handlers : at'[g] = IF g = h THEN "remember" ELSE at[g]
    BY <1>1, <1>3
  <2>2. ASSUME NEW n \in Nonces
        PROVE  obeyed'[n] + Cardinality(Holding(n)') <= Cardinality(Handlers)
    <3>1. /\ IsFiniteSet(Holding(n)')
          /\ Cardinality(Holding(n)') \in Nat
          /\ Cardinality(Holding(n)') <= Cardinality(Handlers)
      <4>1. Holding(n)' \subseteq Handlers
        BY DEF Holding
      <4>2. QED
        BY <4>1, ElementThreadsAssumption, FS_Subset, FS_CardinalityType
    <3>2. CASE n = packet[h] /\ ~anew[h]
      <4>1. obeyed'[n] = 0
        BY <1>1, <1>3, <3>2 DEF Raced, Known
      <4>2. QED
        BY <3>1, <4>1
    <3>3. CASE n # packet[h] \/ anew[h]
      <4>1. Holding(n)' = Holding(n)
        BY <1>1, <2>1, <3>3 DEF Holding
      <4>2. QED
        BY <1>1, <4>1 DEF Raced
    <3>4. QED
      BY <3>2, <3>3
  <2>3. QED
    BY <1>1, <2>1, <2>2 DEF Raced
<1>4. QED
  BY <1>2, <1>3

(* A command is carried out: its thread is one of those that hold it, and
   lets it go. *)
LEMMA RacedAct ==
    ASSUME TypeOK, Raced, NEW h \in Handlers, NEW to \in {"idle", "second"},
           Step(h, "act", to), Moves(h), packet[h] \in Nonces,
           UNCHANGED <<packet, anew, seen_command_nonces>>
    PROVE  Raced'
<1>0. CASE anew[h]
  <2>1. /\ obeyed' = obeyed /\ at[h] = "act"
        /\ \A g \in Handlers : at'[g] = IF g = h THEN to ELSE at[g]
    BY <1>0 DEF Step, TypeOK, Moves
  <2>2. QED
    BY <2>1, RacedKept DEF Raced
<1> SUFFICES ASSUME ~anew[h] PROVE Raced'
  BY <1>0
<1>1. /\ at[h] = "act"
      /\ \A g \in Handlers : at'[g] = IF g = h THEN to ELSE at[g]
      /\ packet' = packet /\ seen_command_nonces' = seen_command_nonces
      /\ anew' = anew
  BY DEF Step, TypeOK
<1>2. /\ obeyed \in [Nonces -> Nat]
      /\ obeyed' = [obeyed EXCEPT ![packet[h]] = @ + 1]
  BY DEF Moves, TypeOK
<1>3. packet[h] \in seen_command_nonces
  BY <1>1 DEF Raced
<1>4. ASSUME NEW n \in Nonces
      PROVE  /\ n \notin seen_command_nonces' => obeyed'[n] = 0
             /\ obeyed'[n] + Cardinality(Holding(n)') <= Cardinality(Handlers)
  <2>1. CASE n = packet[h]
    <3>1. h \in Holding(n) /\ Holding(n)' = Holding(n) \ {h}
      BY <1>1, <2>1 DEF Holding
    <3>2. Cardinality(Holding(n)') = Cardinality(Holding(n)) - 1
      BY <3>1, HoldingFinite, FS_RemoveElement
    <3>3. obeyed'[n] = obeyed[n] + 1 /\ obeyed[n] \in Nat
      BY <1>2, <2>1
    <3>4. QED
      BY <1>1, <1>3, <2>1, <3>2, <3>3, HoldingFinite DEF Raced
  <2>2. CASE n # packet[h]
    <3>1. Holding(n)' = Holding(n)
      BY <1>1, <2>2 DEF Holding
    <3>2. obeyed'[n] = obeyed[n]
      BY <1>2, <2>2
    <3>3. QED
      BY <1>1, <3>1, <3>2 DEF Raced
  <2>3. QED
    BY <2>1, <2>2
<1>5. QED
  BY <1>1, <1>4 DEF Raced

(* A statement of any thread keeps the count of what a command has done. *)
LEMMA RacedStep == TypeOK /\ Raced /\ [Next]_vars => Raced'
<1> SUFFICES ASSUME TypeOK, Raced, [Next]_vars PROVE Raced'
  OBVIOUS
<1>0. /\ at \in [Handlers -> Steps] /\ anew \in [Handlers -> BOOLEAN]
      /\ packet \in [Handlers -> Nonces \union Beats \union {Idle}]
  BY DEF TypeOK
(* The threads and the nonces are left alone. *)
<1>1. ASSUME UNCHANGED <<at, packet, anew, seen_command_nonces, obeyed>>
      PROVE  Raced'
  BY <1>1, RacedKept DEF Raced
<1>2. CASE UNCHANGED vars
  BY <1>1, <1>2 DEF vars, fields, threads
<1>3. ASSUME NEW h \in Handlers, NEW n \in Nonces, NEW respelt \in BOOLEAN,
             DeliverCommand(h, n, respelt)
      PROVE  Raced'
  <2>1. /\ at[h] = "idle" /\ UNCHANGED <<obeyed, seen_command_nonces>>
        /\ \A g \in Handlers : /\ at'[g] = IF g = h THEN "check" ELSE at[g]
                               /\ g # h => /\ packet'[g] = packet[g]
                                           /\ anew'[g] = anew[g]
    BY <1>0, <1>3 DEF DeliverCommand, Step, fields
  <2>2. QED
    BY <2>1, RacedKept DEF Raced
<1>4. ASSUME NEW h \in Handlers, NEW s \in Beats, DeliverBeat(h, s)
      PROVE  Raced'
  <2>1. /\ at[h] = "idle" /\ UNCHANGED <<obeyed, seen_command_nonces>>
        /\ \A g \in Handlers : /\ at'[g] = IF g = h THEN "seq" ELSE at[g]
                               /\ g # h => /\ packet'[g] = packet[g]
                                           /\ anew'[g] = anew[g]
    BY <1>0, <1>4 DEF DeliverBeat, Step, fields
  <2>2. QED
    BY <2>1, RacedKept DEF Raced
<1>5. ASSUME NEW h \in Handlers, HandlerStep(h)
      PROVE  Raced'
  <2>1. CASE CheckNonce(h)
    BY <2>1, RacedCheck
  <2>2. CASE RememberNonce(h)
    <3>1. /\ at[h] = "remember" /\ UNCHANGED <<obeyed, packet, anew>>
          /\ \A g \in Handlers : at'[g] = IF g = h THEN "act" ELSE at[g]
          /\ seen_command_nonces \subseteq seen_command_nonces'
          /\ ~anew[h] => packet[h] \in seen_command_nonces'
      BY <1>0, <2>2 DEF RememberNonce, Step
    <3>2. QED
      BY <3>1, RacedKept DEF Raced
  <2>3. CASE Close(h)
    <3>1. packet[h] \in Nonces
      BY <2>3 DEF Close, Nonces
    <3>2. QED
      BY <2>3, <3>1, RacedAct DEF Close
  <2>4. CASE ResetFirst(h)
    <3>1. packet[h] \in Nonces
      BY <2>4 DEF ResetFirst, Nonces
    <3>2. QED
      BY <2>4, <3>1, RacedAct DEF ResetFirst
  <2>5. CASE ResetSecond(h)
    <3>1. /\ UNCHANGED <<obeyed, packet, anew, seen_command_nonces>>
          /\ \A g \in Handlers : at'[g] = IF g = h THEN "idle" ELSE at[g]
      BY <1>0, <2>5 DEF ResetSecond, Step
    <3>2. QED
      BY <3>1, RacedKept DEF Raced
  <2>6. CASE CheckSeq(h)
    <3>1. /\ UNCHANGED <<obeyed, packet, anew, seen_command_nonces>>
          /\ \A g \in Handlers : /\ g # h => at'[g] = at[g]
                                 /\ at'[h] \in {"idle", "count"}
      BY <1>0, <2>6 DEF CheckSeq, Step, fields
    <3>2. QED
      BY <3>1, RacedKept DEF Raced
  <2>7. CASE CountBeat(h)
    <3>1. /\ UNCHANGED <<obeyed, packet, anew, seen_command_nonces>>
          /\ \A g \in Handlers : at'[g] = IF g = h THEN "stamp" ELSE at[g]
      BY <1>0, <2>7 DEF CountBeat, Step
    <3>2. QED
      BY <3>1, RacedKept DEF Raced
  <2>8. CASE StampBeat(h)
    <3>1. /\ UNCHANGED <<obeyed, packet, anew, seen_command_nonces>>
          /\ \A g \in Handlers : at'[g] = IF g = h THEN "idle" ELSE at[g]
      BY <1>0, <2>8 DEF StampBeat, Step
    <3>2. QED
      BY <3>1, RacedKept DEF Raced
  <2>9. QED
    BY <1>5, <2>1, <2>2, <2>3, <2>4, <2>5, <2>6, <2>7, <2>8 DEF HandlerStep
<1>6. ASSUME NEW w \in Watchdogs, WatchdogStep(w)
      PROVE  Raced'
  BY <1>1, <1>6 DEF WatchdogStep, ReadFlag, ReadDeadline, RaiseFlag,
                    CloseValve, Watch, fields
<1>7. CASE BecomeOverdue
  BY <1>1, <1>7 DEF BecomeOverdue, threads
<1>8. QED
  BY <1>2, <1>3, <1>4, <1>5, <1>6, <1>7 DEF Next

(* However many copies of a command are delivered, and however the threads
   that handle them interleave, it is carried out at most once per thread in
   the spelling it was sealed with: the check at actuator.py:73 stops every
   such copy that comes later.  Copies spelt anew are not counted: each acts. *)
THEOREM CopiesAreBounded == Spec => []CopiesNeedARace
<1>1. TypeOK /\ Raced => CopiesNeedARace
  <2> SUFFICES ASSUME TypeOK, Raced, NEW n \in Nonces
               PROVE  obeyed[n] <= Cardinality(Handlers)
    BY DEF CopiesNeedARace
  <2>1. obeyed[n] \in Nat
    BY DEF TypeOK
  <2>2. QED
    BY <2>1, HoldingFinite DEF Raced
<1>2. Inv => TypeOK
  BY DEF Inv
<1>3. QED
  BY <1>1, <1>2, InvHolds, InitRaced, RacedStep, PTL DEF Spec
=============================================================================
