--------------------------- MODULE BoardLinkProofs ---------------------------
(***************************************************************************)
(* Proofs about BoardLink for any number of boards, threads, packets,      *)
(* handshakes and faults.                                                  *)
(***************************************************************************)
EXTENDS BoardLink, FiniteSetTheorems, TLAPS

(* An answer is to a board that waits for it, whose key the server holds. *)
AnswersFit ==
    \A r \in answers :
       /\ step[r.board] = "waiting" /\ offer[r.board] = r.handshake
       /\ http_sessions[r.board] = r.handshake \/ r.board \in behind \union orphaned

(* Where a packet comes from decides its key, and the scope of its nonce. *)
PacketsFit ==
    \A n \in DOMAIN packets :
       packets[n].key = DEVICE_PSK <=> packets[n].scope = PSK

HeldFit ==
    \A w \in Workers : \A f \in worker[w] :
       /\ f.good
       /\ f.entry.text.nonce \in DOMAIN packets
       /\ f.entry.scope = packets[f.entry.text.nonce].scope

EntriesFit ==
    \A i \in DOMAIN entries :
       /\ entries[i].text.nonce \in DOMAIN packets
       /\ entries[i].scope = packets[entries[i].text.nonce].scope

Fit == AnswersFit /\ PacketsFit /\ HeldFit /\ EntriesFit

(* Steps of the handshake leave the readings alone, and the other way round. *)
HandshakeStep ==
    \/ \E b \in Boards :
          Hello(b) \/ Encapsulate(b) \/ Retry(b) \/ TimeOut(b) \/ Reboot(b)
    \/ \E r \in requests : ServeEncapsulate(r) \/ RefuseEncapsulate(r)
    \/ \E r \in answers : Established(r)

ReadingStep ==
    \/ \E b \in Boards : Seal(b)
    \/ SealWithPsk
    \/ \E w \in Workers, t \in Texts, garbled \in BOOLEAN :
          Telemetry(w, t, garbled)
    \/ \E w \in Workers : \E f \in worker[w] : Accept(w, f)

(* A step is one of the handshake, one of a reading, or a restart. *)
LEMMA Split == Next => HandshakeStep \/ ReadingStep \/ Restart
BY DEF Next, HandshakeStep, ReadingStep

(* The handshake leaves the nonce stores and the packets alone. *)
LEMMA HandshakeFrame == HandshakeStep => UNCHANGED <<intake, packets>>
BY DEF HandshakeStep, Hello, Encapsulate, Retry, TimeOut, Reboot,
       ServeEncapsulate, RefuseEncapsulate, Established

(* Readings leave the handshake alone. *)
LEMMA ReadingFrame ==
    ReadingStep => UNCHANGED <<server, board, network, history, faults, past>>
BY DEF ReadingStep, Seal, SealWithPsk, SealUnder, Telemetry, Accept, intake

-----------------------------------------------------------------------------
(* Types. *)

(* A server and boards that just started are well formed. *)
LEMMA InitTyped == Init => TypeOK /\ Fit
<1> SUFFICES ASSUME Init PROVE TypeOK /\ Fit
  OBVIOUS
<1>1. /\ NoKey \in Handshakes \union {NoKey}
      /\ 0 \in 0..MaxFaults /\ Len(packets) <= MaxPackets
      /\ packets \in Seq(Packets) /\ entries \in Seq(Entries)
      /\ DOMAIN packets = {} /\ DOMAIN entries = {}
  BY BoardLinkAssumption DEF Init
<1>2. TypeOK
  BY <1>1 DEF Init, TypeOK
<1>3. Fit
  BY <1>1 DEF Init, Fit, AnswersFit, PacketsFit, HeldFit, EntriesFit
<1>4. QED
  BY <1>2, <1>3

HandshakeTyped ==
    /\ http_sessions \in [Boards -> Handshakes \union {NoKey}]
    /\ http_pending \subseteq Handshakes
    /\ g_session_key \in [Boards -> Handshakes \union {NoKey}]
    /\ step \in [Boards -> {"hello", "offered", "waiting", "ready"}]
    /\ offer \in [Boards -> Handshakes \union {NoKey}]
    /\ \A b \in Boards :
          /\ step[b] # "hello" => offer[b] # NoKey
          /\ step[b] \in {"waiting", "ready"} => g_session_key[b] = offer[b]
    /\ requests \subseteq Posts /\ answers \subseteq Posts
    /\ faults \in 0..MaxFaults

ReadingsTyped ==
    /\ seen_nonces \in [Scopes -> SUBSET Texts]
    /\ worker \in [Workers -> SUBSET [entry : Entries, good : BOOLEAN]]
    /\ packets \in Seq(Packets) /\ Len(packets) <= MaxPackets
    /\ entries \in Seq(Entries)
    /\ past \subseteq DOMAIN packets /\ raced \subseteq Texts

(* The type invariant is that of the handshake and that of the readings. *)
LEMMA TypeParts == TypeOK <=> HandshakeTyped /\ ReadingsTyped
BY DEF TypeOK, HandshakeTyped, ReadingsTyped

(* The faults that are counted stay within their bound. *)
LEMMA FaultTyped ==
    ASSUME faults \in 0..MaxFaults, Fault PROVE faults' \in 0..MaxFaults
BY BoardLinkAssumption DEF Fault

(* The handlers and the task of the handshake keep its types. *)
LEMMA HandshakeStepTyped ==
    ASSUME HandshakeTyped, AnswersFit, HandshakeStep
    PROVE  HandshakeTyped'
<1> USE DEF HandshakeTyped
<1>1. ASSUME NEW b \in Boards, Hello(b) PROVE HandshakeTyped'
  <2>1. PICK h \in Handshakes : /\ offer' = [offer EXCEPT ![b] = h]
                                /\ http_pending' = http_pending \union {h}
    BY <1>1 DEF Hello
  <2>2. h # NoKey
    BY BoardLinkAssumption DEF Handshakes, NoKey
  <2>3. QED
    BY <1>1, <2>1, <2>2 DEF Hello, network
<1>2. ASSUME NEW b \in Boards, Encapsulate(b) PROVE HandshakeTyped'
  <2>1. offer[b] \in Handshakes
    BY <1>2 DEF Encapsulate
  <2>2. requests' \subseteq Posts
    BY <1>2, <2>1 DEF Encapsulate, Posts
  <2>3. QED
    BY <1>2, <2>1, <2>2 DEF Encapsulate, server
<1>3. ASSUME NEW b \in Boards, Retry(b) PROVE HandshakeTyped'
  BY <1>3 DEF Retry, FromTheStart, server, network
<1>4. ASSUME NEW b \in Boards, TimeOut(b) PROVE HandshakeTyped'
  <2>1. faults' \in 0..MaxFaults
    BY <1>4, FaultTyped DEF TimeOut
  <2>2. QED
    BY <1>4, <2>1 DEF TimeOut, FromTheStart, server
<1>5. ASSUME NEW b \in Boards, Reboot(b) PROVE HandshakeTyped'
  <2>1. faults' \in 0..MaxFaults
    BY <1>5, FaultTyped DEF Reboot
  <2>2. QED
    BY <1>5, <2>1 DEF Reboot, server
<1>6. ASSUME NEW r \in requests, ServeEncapsulate(r) PROVE HandshakeTyped'
  <2>1. r.board \in Boards /\ r.handshake \in Handshakes /\ r \in Posts
    BY DEF Posts
  <2>2. QED
    BY <1>6, <2>1 DEF ServeEncapsulate, Take, StoreKey, board
<1>7. ASSUME NEW r \in requests, RefuseEncapsulate(r) PROVE HandshakeTyped'
  <2>1. faults' \in 0..MaxFaults
    BY <1>7, FaultTyped DEF RefuseEncapsulate
  <2>2. QED
    BY <1>7, <2>1 DEF RefuseEncapsulate, Take, board
<1>8. ASSUME NEW r \in answers, Established(r) PROVE HandshakeTyped'
  <2>1. r.board \in Boards /\ step[r.board] = "waiting"
    BY DEF Posts, AnswersFit
  <2>2. QED
    BY <1>8, <2>1 DEF Established, server
<1>9. QED
  BY <1>1, <1>2, <1>3, <1>4, <1>5, <1>6, <1>7, <1>8 DEF HandshakeStep

(* What a thread holds is a reading of some scope and nonce. *)
LEMMA HeldTyped ==
    ASSUME TypeOK, NEW w \in Workers, NEW f \in worker[w]
    PROVE  /\ f.entry \in Entries /\ f.good \in BOOLEAN
           /\ f.entry.scope \in Scopes /\ f.entry.text \in Texts
           /\ f.entry = [scope |-> f.entry.scope, text |-> f.entry.text]
BY DEF TypeOK, Entries

(* What was taken is a reading of some scope and nonce. *)
LEMMA EntryTyped ==
    ASSUME TypeOK, NEW i \in DOMAIN entries
    PROVE  /\ i \in 1..Len(entries) /\ Len(entries) \in Nat
           /\ entries[i] \in Entries
           /\ entries[i].scope \in Scopes /\ entries[i].text \in Texts
<1>1. /\ i \in 1..Len(entries) /\ Len(entries) \in Nat
      /\ entries[i] \in Entries
  BY DEF TypeOK
<1>2. QED
  BY <1>1 DEF Entries

(* A sealed packet has a scope and a key. *)
LEMMA PacketTyped ==
    ASSUME TypeOK, NEW n \in DOMAIN packets
    PROVE  /\ n \in Nonces /\ n \in 1..Len(packets)
           /\ packets[n].scope \in Scopes
           /\ packets[n].key \in Keys \ {NoKey}
<1>1. /\ n \in 1..Len(packets) /\ Len(packets) \in Nat
      /\ Len(packets) <= MaxPackets /\ packets[n] \in Packets
  BY DEF TypeOK
<1>2. n \in Nonces
  BY <1>1, BoardLinkAssumption DEF Nonces
<1>3. QED
  BY <1>1, <1>2 DEF Packets

(* A packet that opens was sealed for the scope it is tried in. *)
LEMMA ScopeIsOrigin ==
    ASSUME TypeOK, PacketsFit, NEW t \in Texts, t.nonce \in DOMAIN packets,
           NEW garbled \in BOOLEAN, Decrypts(t.nonce, garbled)
    PROVE  /\ Found(t) = [scope |-> packets[t.nonce].scope, text |-> t]
           /\ Found(t) \in Entries
           /\ packets[t.nonce].scope # PSK =>
                 http_sessions[packets[t.nonce].scope] = packets[t.nonce].key
<1> DEFINE n == t.nonce
<1>1. packets[n].scope \in Scopes
  BY PacketTyped
<1>2. CASE packets[n].scope = PSK
  BY <1>1, <1>2 DEF Found, ScopeFor, HasSession, Entries
<1>3. CASE packets[n].scope # PSK
  <2>1. packets[n].key # DEVICE_PSK
    BY <1>3 DEF PacketsFit
  <2>2. HasSession(packets[n].scope)
    BY <2>1 DEF Decrypts, KeyFor
  <2>3. QED
    BY <1>1, <1>3, <2>2 DEF Found, ScopeFor, Decrypts, KeyFor, Entries
<1>4. QED
  BY <1>2, <1>3

(* A board that seals a reading adds a packet that fits its scope. *)
LEMMA SealTyped ==
    ASSUME TypeOK, Fit, NEW scope \in Scopes, NEW key \in Keys \ {NoKey},
           key = DEVICE_PSK <=> scope = PSK, SealUnder(scope, key)
    PROVE  ReadingsTyped' /\ PacketsFit' /\ HeldFit' /\ EntriesFit'
<1>1. /\ Len(packets) < MaxPackets /\ Len(packets) \in Nat
      /\ packets \in Seq(Packets)
      /\ packets' = Append(packets, [scope |-> scope, key |-> key])
      /\ [scope |-> scope, key |-> key] \in Packets
      /\ UNCHANGED <<seen_nonces, worker, entries, past, raced>>
  BY DEF SealUnder, TypeOK, Packets, intake
<1>2. /\ packets' \in Seq(Packets) /\ Len(packets') = Len(packets) + 1
      /\ DOMAIN packets' = DOMAIN packets \union {Len(packets) + 1}
      /\ \A n \in DOMAIN packets : packets'[n] = packets[n]
      /\ packets'[Len(packets) + 1] = [scope |-> scope, key |-> key]
  BY <1>1
<1>3. Len(packets') <= MaxPackets
  BY <1>1, <1>2, BoardLinkAssumption
<1>4. ReadingsTyped'
  BY <1>1, <1>2, <1>3 DEF TypeOK, ReadingsTyped
<1>5. PacketsFit'
  BY <1>2 DEF Fit, PacketsFit
<1>6. HeldFit'
  BY <1>1, <1>2 DEF Fit, HeldFit
<1>7. EntriesFit'
  BY <1>1, <1>2 DEF Fit, EntriesFit
<1>8. QED
  BY <1>4, <1>5, <1>6, <1>7

(* accept_nonce writes one nonce, into a store that may be emptied first. *)
LEMMA WriteTyped ==
    ASSUME NEW seen \in SUBSET Texts, NEW t \in Texts
    PROVE  /\ Write(seen, t) \in SUBSET Texts
           /\ Write(seen, t) \subseteq seen \union {t}
BY DEF Write

(* Sealing, looking up and taking a reading keep the types and the fit. *)
LEMMA ReadingStepTyped ==
    ASSUME TypeOK, Fit, ReadingStep
    PROVE  ReadingsTyped' /\ PacketsFit' /\ HeldFit' /\ EntriesFit'
<1>1. ASSUME NEW b \in Boards, Seal(b)
      PROVE  ReadingsTyped' /\ PacketsFit' /\ HeldFit' /\ EntriesFit'
  <2>1. /\ b \in Scopes /\ b # PSK
        /\ g_session_key[b] \in Handshakes /\ SealUnder(b, g_session_key[b])
    BY <1>1, BoardLinkAssumption DEF Seal, TypeOK, Scopes
  <2>2. /\ g_session_key[b] \in Keys \ {NoKey}
        /\ g_session_key[b] # DEVICE_PSK
    BY <2>1, BoardLinkAssumption DEF Handshakes, Keys, NoKey, DEVICE_PSK
  <2>3. QED
    BY <2>1, <2>2, SealTyped
<1>2. CASE SealWithPsk
  <2>1. PSK \in Scopes /\ DEVICE_PSK \in Keys \ {NoKey}
    BY BoardLinkAssumption DEF Scopes, Keys, NoKey, DEVICE_PSK
  <2>2. QED
    BY <1>2, <2>1, SealTyped DEF SealWithPsk
<1>3. ASSUME NEW w \in Workers, NEW t \in Texts,
             NEW garbled \in BOOLEAN, Telemetry(w, t, garbled)
      PROVE  ReadingsTyped' /\ PacketsFit' /\ HeldFit' /\ EntriesFit'
  <2>1. t.nonce \in DOMAIN packets /\ Decrypts(t.nonce, garbled)
    BY <1>3 DEF Telemetry, Passes
  <2>2. /\ Found(t) = [scope |-> packets[t.nonce].scope, text |-> t]
        /\ Found(t) \in Entries
    BY <2>1, ScopeIsOrigin DEF Fit
  <2>3. worker' = [worker EXCEPT ![w] = {[entry |-> Found(t), good |-> TRUE]}]
    <3>1. Decrypts(t.nonce, garbled) = TRUE
      BY <2>1 DEF Decrypts
    <3>2. QED
      BY <1>3, <3>1 DEF Telemetry
  <2>4. raced' \subseteq Texts
    BY <1>3 DEF Telemetry, TypeOK
  <2>5. UNCHANGED <<seen_nonces, entries, past, packets>>
    BY <1>3 DEF Telemetry
  <2>6. worker \in [Workers -> SUBSET [entry : Entries, good : BOOLEAN]]
    BY DEF TypeOK
  <2>7. /\ worker' \in [Workers -> SUBSET [entry : Entries, good : BOOLEAN]]
        /\ worker'[w] = {[entry |-> Found(t), good |-> TRUE]}
        /\ \A x \in Workers \ {w} : worker'[x] = worker[x]
    BY <2>2, <2>3, <2>6
  <2>8. ReadingsTyped'
    BY <2>4, <2>5, <2>7 DEF TypeOK, ReadingsTyped
  <2>9. HeldFit'
    <3> SUFFICES ASSUME NEW x \in Workers, NEW f \in worker'[x]
                 PROVE  /\ f.good
                        /\ f.entry.text.nonce \in DOMAIN packets'
                        /\ f.entry.scope = packets'[f.entry.text.nonce].scope
      BY DEF HeldFit
    <3>1. CASE x = w
      <4>1. f = [entry |-> Found(t), good |-> TRUE]
        BY <2>7, <3>1
      <4>2. f.entry = Found(t) /\ f.good
        BY <4>1
      <4>3. f.entry.scope = packets[t.nonce].scope /\ f.entry.text = t
        BY <2>2, <4>2
      <4>4. QED
        BY <2>1, <2>5, <4>2, <4>3
    <3>2. CASE x # w
      BY <2>5, <2>7, <3>2 DEF Fit, HeldFit
    <3>3. QED
      BY <3>1, <3>2
  <2>10. QED
    BY <2>5, <2>8, <2>9 DEF Fit, PacketsFit, EntriesFit
<1>4. ASSUME NEW w \in Workers, NEW f \in worker[w], Accept(w, f)
      PROVE  ReadingsTyped' /\ PacketsFit' /\ HeldFit' /\ EntriesFit'
  <2>1. /\ f.entry \in Entries /\ f.good
        /\ f.entry.scope \in Scopes /\ f.entry.text \in Texts
        /\ f.entry.text.nonce \in DOMAIN packets
        /\ f.entry.scope = packets[f.entry.text.nonce].scope
    BY HeldTyped DEF Fit, HeldFit
  <2>2. seen_nonces' \in [Scopes -> SUBSET Texts]
    <3>1. seen_nonces[f.entry.scope] \in SUBSET Texts
      BY <2>1 DEF TypeOK
    <3>2. Write(seen_nonces[f.entry.scope], f.entry.text) \in SUBSET Texts
      BY <2>1, <3>1, WriteTyped
    <3>3. QED
      BY <1>4, <3>2 DEF Accept, TypeOK
  <2>3. /\ worker' = [worker EXCEPT ![w] = {}]
        /\ entries' = Append(entries, f.entry)
        /\ UNCHANGED <<past, raced, packets>>
    BY <1>4, <2>1 DEF Accept
  <2>4. /\ entries' \in Seq(Entries)
        /\ DOMAIN entries' = DOMAIN entries \union {Len(entries) + 1}
        /\ \A i \in DOMAIN entries : entries'[i] = entries[i]
        /\ entries'[Len(entries) + 1] = f.entry
    BY <2>1, <2>3 DEF TypeOK
  <2>5. /\ worker' \in [Workers -> SUBSET [entry : Entries, good : BOOLEAN]]
        /\ \A x \in Workers : worker'[x] \subseteq worker[x]
    BY <2>3 DEF TypeOK
  <2>6. ReadingsTyped'
    BY <2>2, <2>3, <2>4, <2>5 DEF TypeOK, ReadingsTyped
  <2>7. HeldFit'
    BY <2>3, <2>5 DEF Fit, HeldFit
  <2>8. EntriesFit'
    BY <2>1, <2>3, <2>4 DEF Fit, EntriesFit
  <2>9. QED
    BY <2>3, <2>6, <2>7, <2>8 DEF Fit, PacketsFit
<1>5. QED
  BY <1>1, <1>2, <1>3, <1>4 DEF ReadingStep

(* A restart of the server leaves a well-formed state. *)
LEMMA RestartTyped == ASSUME TypeOK, Fit, Restart PROVE TypeOK' /\ Fit'
<1>1. /\ faults' \in 0..MaxFaults
      /\ http_sessions' \in [Boards -> Handshakes \union {NoKey}]
      /\ seen_nonces' \in [Scopes -> SUBSET Texts]
      /\ worker' \in [Workers -> SUBSET [entry : Entries, good : BOOLEAN]]
      /\ \A w \in Workers : worker'[w] = {}
  BY FaultTyped DEF Restart, DropSessions, TypeOK
<1>2. /\ http_pending' = {} /\ requests' = {} /\ answers' = {}
      /\ entries' = <<>> /\ raced' = {}
      /\ UNCHANGED <<g_session_key, step, offer, packets>>
  BY DEF Restart, board
<1>3. past' \subseteq DOMAIN packets
  BY DEF Restart, TypeOK, Fit, EntriesFit
<1>4. TypeOK'
  <2>1. entries' \in Seq(Entries)
    BY <1>2
  <2>2. QED
    BY <1>1, <1>2, <1>3, <2>1 DEF TypeOK
<1>5. Fit'
  BY <1>1, <1>2 DEF Fit, AnswersFit, PacketsFit, HeldFit, EntriesFit
<1>6. QED
  BY <1>4, <1>5

-----------------------------------------------------------------------------
(* Keys in step. *)

(* A step of the handshake keeps board and server in step. *)
LEMMA HandshakeInStep ==
    ASSUME TypeOK, AnswersFit, InStep, HandshakeStep
    PROVE  AnswersFit' /\ InStep'
<1> USE DEF AnswersFit, InStep
<1>1. ASSUME NEW b \in Boards, Hello(b) PROVE AnswersFit' /\ InStep'
  <2>1. \A r \in answers : r.board \in Boards /\ r.board # b
    BY <1>1 DEF Hello, TypeOK, Posts
  <2>2. QED
    BY <1>1, <2>1 DEF Hello, network, history, TypeOK
<1>2. ASSUME NEW b \in Boards, Encapsulate(b) PROVE AnswersFit' /\ InStep'
  <2>1. \A r \in answers : r.board \in Boards /\ r.board # b
    BY <1>2 DEF Encapsulate, TypeOK, Posts
  <2>2. QED
    BY <1>2, <2>1 DEF Encapsulate, server, history, TypeOK
<1>3. ASSUME NEW b \in Boards, Retry(b) PROVE AnswersFit' /\ InStep'
  <2>1. \A r \in answers : r.board \in Boards /\ r.board # b
    <3> SUFFICES ASSUME NEW r \in answers, r.board = b PROVE FALSE
      BY DEF TypeOK, Posts
    <3>1. r = [board |-> b, handshake |-> offer[b]]
      BY DEF TypeOK, Posts
    <3>2. QED
      BY <1>3, <3>1 DEF Retry
  <2>2. QED
    BY <1>3, <2>1 DEF Retry, FromTheStart, server, network, history, TypeOK
<1>4. ASSUME NEW b \in Boards, TimeOut(b) PROVE AnswersFit' /\ InStep'
  <2>1. \A r \in answers : r.board \in Boards
    BY DEF TypeOK, Posts
  <2>2. QED
    BY <1>4, <2>1 DEF TimeOut, FromTheStart, server, history, TypeOK
<1>5. ASSUME NEW b \in Boards, Reboot(b) PROVE AnswersFit' /\ InStep'
  <2>1. \A r \in answers : r.board \in Boards
    BY DEF TypeOK, Posts
  <2>2. QED
    BY <1>5, <2>1 DEF Reboot, server, history, TypeOK
<1>6. ASSUME NEW r \in requests, ServeEncapsulate(r)
      PROVE  AnswersFit' /\ InStep'
  <2>1. /\ r.board \in Boards
        /\ \A a \in answers : a.board \in Boards
    BY DEF TypeOK, Posts
  <2>2. /\ http_sessions' = [http_sessions EXCEPT ![r.board] = r.handshake]
        /\ answers' \subseteq answers \union {r}
        /\ r \in answers' \ answers => ~GivenUp(r)
        /\ GivenUp(r) => r.board \in behind'
        /\ \A b \in Boards \ {r.board} :
              b \in behind \union orphaned => b \in behind' \union orphaned'
        /\ UNCHANGED <<g_session_key, step, offer>>
    BY <1>6 DEF ServeEncapsulate, StoreKey, board
  <2>3. http_sessions'[r.board] = r.handshake
    BY <2>1, <2>2 DEF TypeOK
  <2>4. \A b \in Boards \ {r.board} : http_sessions'[b] = http_sessions[b]
    BY <2>1, <2>2 DEF TypeOK
  <2>5. ASSUME NEW a \in answers' PROVE
           /\ step'[a.board] = "waiting" /\ offer'[a.board] = a.handshake
           /\ \/ http_sessions'[a.board] = a.handshake
              \/ a.board \in behind' \union orphaned'
    <3>1. CASE a \in answers /\ a.board = r.board
      BY <2>2, <2>3, <3>1 DEF GivenUp
    <3>2. CASE a \in answers /\ a.board # r.board
      BY <2>1, <2>2, <2>4, <3>2
    <3>3. CASE a \notin answers
      BY <2>2, <2>3, <3>3 DEF GivenUp
    <3>4. QED
      BY <3>1, <3>2, <3>3
  <2>6. ASSUME NEW b \in Boards, step'[b] = "ready"
        PROVE  \/ http_sessions'[b] = g_session_key'[b]
               \/ b \in behind' \union orphaned'
    <3>1. CASE b = r.board
      BY <2>2, <2>6, <3>1 DEF GivenUp
    <3>2. CASE b # r.board
      BY <2>2, <2>4, <2>6, <3>2
    <3>3. QED
      BY <3>1, <3>2
  <2>7. QED
    BY <2>5, <2>6
<1>7. ASSUME NEW r \in requests, RefuseEncapsulate(r)
      PROVE  AnswersFit' /\ InStep'
  BY <1>7 DEF RefuseEncapsulate, board, history
<1>8. ASSUME NEW r \in answers, Established(r) PROVE AnswersFit' /\ InStep'
  <2>1. /\ r \in Posts /\ r.board \in Boards
        /\ \A a \in answers : a \in Posts /\ a.board \in Boards
        /\ g_session_key[r.board] = r.handshake
    BY DEF TypeOK, Posts
  <2>2. \A a \in answers' : a \in answers /\ a.board # r.board
    <3>1. ASSUME NEW a \in answers, a.board = r.board PROVE a = r
      BY <2>1, <3>1 DEF Posts
    <3>2. QED
      BY <1>8, <3>1 DEF Established
  <2>3. QED
    BY <1>8, <2>1, <2>2 DEF Established, server, history, TypeOK
<1>9. QED
  BY <1>1, <1>2, <1>3, <1>4, <1>5, <1>6, <1>7, <1>8 DEF HandshakeStep

(* A restart serves nobody, so that nobody is out of step. *)
LEMMA RestartInStep == ASSUME TypeOK, Restart PROVE InStep'
BY DEF Restart, InStep

(* What the handshake needs, of one step. *)
TypedInv == TypeOK /\ Fit /\ InStep

(* Every step keeps the types, the fit and the boards in step. *)
LEMMA TypedStep == ASSUME TypedInv, [Next]_vars PROVE TypedInv'
<1> USE DEF TypedInv
<1>1. CASE HandshakeStep
  <2>1. UNCHANGED <<seen_nonces, worker, entries, past, raced, packets>>
    BY <1>1, HandshakeFrame DEF intake
  <2>2. AnswersFit' /\ InStep'
    BY <1>1, HandshakeInStep DEF Fit
  <2>3. HandshakeTyped'
    BY <1>1, HandshakeStepTyped, TypeParts DEF Fit
  <2>4. TypeOK'
    BY <2>1, <2>3 DEF TypeOK, HandshakeTyped
  <2>5. QED
    BY <2>1, <2>2, <2>4 DEF Fit, PacketsFit, HeldFit, EntriesFit
<1>2. CASE ReadingStep
  <2>1. UNCHANGED <<http_sessions, http_pending, g_session_key, step, offer,
                    requests, answers, behind, orphaned, faults>>
    BY <1>2, ReadingFrame DEF server, board, network, history
  <2>2. ReadingsTyped' /\ PacketsFit' /\ HeldFit' /\ EntriesFit'
    BY <1>2, ReadingStepTyped
  <2>3. TypeOK'
    BY <2>1, <2>2 DEF TypeOK, ReadingsTyped
  <2>4. AnswersFit' /\ InStep'
    BY <2>1 DEF Fit, AnswersFit, InStep
  <2>5. QED
    BY <2>2, <2>3, <2>4 DEF Fit
<1>3. CASE Restart
  BY <1>3, RestartTyped, RestartInStep
<1>4. CASE UNCHANGED vars
  BY <1>4 DEF vars, server, intake, board, network, history, TypeOK, Fit,
              AnswersFit, PacketsFit, HeldFit, EntriesFit, InStep
<1>5. QED
  BY <1>1, <1>2, <1>3, <1>4, Split

(* Boards that have not been served are in step. *)
LEMMA InitInStep == Init => InStep
BY DEF Init, InStep

-----------------------------------------------------------------------------
(* Readings of the past. *)

(* The key of a packet that was used before a restart is dead: it is neither
   in use nor on offer, and no later offer is for it. *)
DeadKeys ==
    \A n \in past :
       packets[n].scope # PSK =>
          /\ packets[n].key \notin http_pending
          /\ \A b \in Boards : packets[n].key # http_sessions[b]

HeldIsNew ==
    \A w \in Workers : \A f \in worker[w] :
       f.entry.text.nonce \in past => f.entry.scope = PSK

PastInv == DeadKeys /\ HeldIsNew /\ PastStaysPast

(* A handshake never brings back a key of a former process. *)
LEMMA HandshakePast ==
    ASSUME TypeOK, PastInv, HandshakeStep PROVE PastInv'
<1>1. UNCHANGED <<worker, entries, past, packets>>
  BY HandshakeFrame DEF intake
<1>2. /\ \A h \in http_pending' : h \in http_pending \/ Fresh(h)
      /\ \A b \in Boards : \/ http_sessions'[b] = http_sessions[b]
                         \/ http_sessions'[b] \in http_pending
  <2>1. ASSUME NEW b \in Boards, Hello(b)
        PROVE  /\ \A h \in http_pending' : h \in http_pending \/ Fresh(h)
               /\ UNCHANGED http_sessions
    BY <2>1 DEF Hello
  <2>2. ASSUME NEW b \in Boards,
               Encapsulate(b) \/ Retry(b) \/ TimeOut(b) \/ Reboot(b)
        PROVE  UNCHANGED <<http_pending, http_sessions>>
    BY <2>2 DEF Encapsulate, Retry, TimeOut, Reboot, server
  <2>3. ASSUME NEW r \in requests, ServeEncapsulate(r)
        PROVE  /\ http_pending' \subseteq http_pending
               /\ \A b \in Boards : \/ http_sessions'[b] = http_sessions[b]
                                  \/ http_sessions'[b] \in http_pending
    BY <2>3 DEF ServeEncapsulate, Take, StoreKey, TypeOK
  <2>4. ASSUME NEW r \in requests, RefuseEncapsulate(r)
        PROVE  http_pending' \subseteq http_pending /\ UNCHANGED http_sessions
    BY <2>4 DEF RefuseEncapsulate, Take
  <2>5. ASSUME NEW r \in answers, Established(r)
        PROVE  UNCHANGED <<http_pending, http_sessions>>
    BY <2>5 DEF Established, server
  <2>6. QED
    BY <2>1, <2>2, <2>3, <2>4, <2>5 DEF HandshakeStep
<1>3. DeadKeys'
  <2> SUFFICES ASSUME NEW n \in past, packets[n].scope # PSK
               PROVE  /\ packets[n].key \notin http_pending'
                      /\ \A b \in Boards : packets[n].key # http_sessions'[b]
    BY <1>1 DEF DeadKeys
  <2>1. /\ n \in DOMAIN packets
        /\ packets[n].key \notin http_pending
        /\ \A b \in Boards : packets[n].key # http_sessions[b]
    BY DEF PastInv, DeadKeys, TypeOK
  <2>2. ~Fresh(packets[n].key)
    BY <2>1 DEF Fresh
  <2>3. QED
    BY <1>2, <2>1, <2>2
<1>4. QED
  BY <1>1, <1>3 DEF PastInv, HeldIsNew, PastStaysPast

(* A reading of a former process is not taken again. *)
LEMMA ReadingPast ==
    ASSUME TypeOK, Fit, PastInv, ReadingStep PROVE PastInv'
<1>1. UNCHANGED <<http_pending, http_sessions, past>>
  BY ReadingFrame DEF server
<1>2. \A n \in DOMAIN packets : packets'[n] = packets[n]
  <2>1. ASSUME NEW scope, NEW key, SealUnder(scope, key)
        PROVE  \A n \in DOMAIN packets : packets'[n] = packets[n]
    BY <2>1 DEF SealUnder, TypeOK
  <2>2. ASSUME NEW w \in Workers, NEW t \in Texts,
               NEW garbled \in BOOLEAN, Telemetry(w, t, garbled)
        PROVE  UNCHANGED packets
    BY <2>2 DEF Telemetry
  <2>3. ASSUME NEW w \in Workers, NEW f \in worker[w], Accept(w, f)
        PROVE  UNCHANGED packets
    BY <2>3 DEF Accept
  <2>4. QED
    BY <2>1, <2>2, <2>3 DEF ReadingStep, Seal, SealWithPsk
<1>3. DeadKeys'
  BY <1>1, <1>2 DEF PastInv, DeadKeys, TypeOK
<1>4. HeldIsNew' /\ PastStaysPast'
  <2>1. ASSUME NEW scope, NEW key, SealUnder(scope, key)
        PROVE  HeldIsNew' /\ PastStaysPast'
    BY <1>1, <2>1 DEF SealUnder, intake, PastInv, HeldIsNew, PastStaysPast
  <2>2. ASSUME NEW w \in Workers, NEW t \in Texts,
               NEW garbled \in BOOLEAN, Telemetry(w, t, garbled)
        PROVE  HeldIsNew' /\ PastStaysPast'
    <3>1. t.nonce \in DOMAIN packets /\ Decrypts(t.nonce, garbled)
      BY <2>2 DEF Telemetry, Passes
    <3>2. /\ Found(t) = [scope |-> packets[t.nonce].scope, text |-> t]
          /\ packets[t.nonce].scope # PSK =>
                http_sessions[packets[t.nonce].scope] = packets[t.nonce].key
      BY <3>1, ScopeIsOrigin DEF Fit
    <3>3. t.nonce \in past => packets[t.nonce].scope = PSK
      <4>1. packets[t.nonce].scope \in Scopes
        BY <3>1, PacketTyped
      <4>2. \A n \in past : packets[n].scope # PSK =>
               \A b \in Boards : packets[n].key # http_sessions[b]
        BY DEF PastInv, DeadKeys
      <4>3. packets[t.nonce].scope # PSK => packets[t.nonce].scope \in Boards
        BY <4>1 DEF Scopes
      <4>4. packets[t.nonce].scope # PSK =>
               http_sessions[packets[t.nonce].scope] = packets[t.nonce].key
        BY <3>2
      <4>5. QED
        BY <4>2, <4>3, <4>4
    <3>4. /\ worker' = [worker EXCEPT ![w] =
                {[entry |-> Found(t), good |-> Decrypts(t.nonce, garbled)]}]
          /\ worker \in [Workers -> SUBSET [entry : Entries, good : BOOLEAN]]
      BY <2>2 DEF Telemetry, TypeOK
    <3>5. \A x \in Workers : \A f \in worker'[x] :
             f \in worker[x] \/ f.entry = Found(t)
      BY <3>4
    <3>6. HeldIsNew'
      <4>1. Found(t).scope = packets[t.nonce].scope /\ Found(t).text = t
        BY <3>2
      <4>2. QED
        BY <1>1, <3>3, <3>5, <4>1 DEF PastInv, HeldIsNew
    <3>7. UNCHANGED entries
      BY <2>2 DEF Telemetry
    <3>8. QED
      BY <1>1, <3>6, <3>7 DEF PastInv, PastStaysPast
  <2>3. ASSUME NEW w \in Workers, NEW f \in worker[w], Accept(w, f)
        PROVE  HeldIsNew' /\ PastStaysPast'
    <3>1. /\ \A x \in Workers : worker'[x] \subseteq worker[x]
          /\ entries' = Append(entries, f.entry)
      BY <2>3 DEF Accept, TypeOK, Fit, HeldFit
    <3>2. /\ DOMAIN entries' = DOMAIN entries \union {Len(entries) + 1}
          /\ \A i \in DOMAIN entries : entries'[i] = entries[i]
          /\ entries'[Len(entries) + 1] = f.entry
      BY <3>1, HeldTyped DEF TypeOK
    <3>3. QED
      BY <1>1, <3>1, <3>2 DEF PastInv, HeldIsNew, PastStaysPast
  <2>4. QED
    BY <2>1, <2>2, <2>3 DEF ReadingStep, Seal, SealWithPsk
<1>5. QED
  BY <1>3, <1>4 DEF PastInv

(* A restart makes the keys of all readings taken so far dead. *)
LEMMA RestartPast ==
    ASSUME TypeOK, Fit, PastInv, Restart PROVE PastInv'
<1>1. /\ http_pending' = {} /\ \A b \in Boards : http_sessions'[b] = NoKey
      /\ \A w \in Workers : worker'[w] = {}
      /\ entries' = <<>> /\ UNCHANGED packets
      /\ past' \subseteq DOMAIN packets
  BY DEF Restart, DropSessions, TypeOK, Fit, EntriesFit
<1>2. \A n \in DOMAIN packets : packets[n].key # NoKey
  BY PacketTyped
<1>3. QED
  BY <1>1, <1>2 DEF PastInv, DeadKeys, HeldIsNew, PastStaysPast

-----------------------------------------------------------------------------
(* Nonces are spent by readings, and a reading is used once. *)

Taken(s) == {k \in DOMAIN entries : entries[k].scope = s}

(* A store is no larger than the number of readings taken in its scope. *)
StoreSmall ==
    \A s \in Scopes :
       /\ IsFiniteSet(seen_nonces[s]) /\ IsFiniteSet(Taken(s))
       /\ Cardinality(seen_nonces[s]) <= Cardinality(Taken(s))

Overflown(s) == Cardinality(Taken(s)) > Limit + 1

(* A reading that was taken is on record, unless its store was emptied. *)
OnRecord ==
    \A i \in DOMAIN entries :
       \/ entries[i].text \in seen_nonces[entries[i].scope]
       \/ entries[i].text \in raced
       \/ Overflown(entries[i].scope)

(* So is what a thread found new, and it alone found it. *)
HeldOnce ==
    \A w \in Workers : \A f \in worker[w] :
       \/ f.entry.text \in raced
       \/ /\ \A x \in Workers \ {w} : \A g \in worker[x] :
                g.entry.text # f.entry.text
          /\ \/ \A i \in DOMAIN entries : entries[i].text # f.entry.text
             \/ Overflown(f.entry.scope)

UsedInv == GenuineHeard /\ StoreSmall /\ OnRecord /\ HeldOnce /\ UsedOnce

(* Steps that leave the stores alone keep what was used known. *)
LEMMA UsedFrame ==
    ASSUME UsedInv,
           UNCHANGED <<seen_nonces, worker, entries, raced>>
    PROVE  UsedInv'
<1>1. \A s : Taken(s)' = Taken(s) /\ (Overflown(s)' <=> Overflown(s))
  BY DEF Taken, Overflown
<1>2. GenuineHeard' /\ UsedOnce'
  BY DEF UsedInv, GenuineHeard, UsedOnce, Repeats
<1>3. StoreSmall'
  BY <1>1 DEF UsedInv, StoreSmall
<1>4. OnRecord'
  BY <1>1 DEF UsedInv, OnRecord
<1>5. HeldOnce'
  BY <1>1 DEF UsedInv, HeldOnce
<1>6. QED
  BY <1>2, <1>3, <1>4, <1>5 DEF UsedInv

(* A thread that finds a nonce new holds one not yet taken, or races. *)
LEMMA TelemetryUsed ==
    ASSUME TypeOK, Fit, UsedInv, NEW w \in Workers, NEW t \in Texts,
           NEW garbled \in BOOLEAN, Telemetry(w, t, garbled)
    PROVE  UsedInv'
<1>1. t.nonce \in DOMAIN packets /\ Decrypts(t.nonce, garbled)
  BY DEF Telemetry, Passes
<1>2. Found(t) = [scope |-> packets[t.nonce].scope, text |-> t]
  BY <1>1, ScopeIsOrigin DEF Fit
<1>3. /\ t \notin seen_nonces[packets[t.nonce].scope]
      /\ raced \subseteq raced'
      /\ t \notin raced' =>
            \A x \in Workers : \A f \in worker[x] : f.entry.text # t
      /\ UNCHANGED <<seen_nonces, entries>>
  BY <1>2 DEF Telemetry
<1>4. /\ worker' = [worker EXCEPT ![w] =
            {[entry |-> Found(t), good |-> Decrypts(t.nonce, garbled)]}]
      /\ worker \in [Workers -> SUBSET [entry : Entries, good : BOOLEAN]]
  BY DEF Telemetry, TypeOK
<1>5. /\ \A x \in Workers \ {w} : worker'[x] = worker[x]
      /\ \A f \in worker'[w] : f.entry = Found(t)
  BY <1>4
<1>6. \A s : Taken(s)' = Taken(s) /\ (Overflown(s)' <=> Overflown(s))
  BY <1>3 DEF Taken, Overflown
<1>7. t \notin raced =>
         \/ \A i \in DOMAIN entries : entries[i].text # t
         \/ Overflown(packets[t.nonce].scope)
  BY <1>3 DEF UsedInv, OnRecord, Fit, EntriesFit
<1>8. HeldOnce'
  <2> SUFFICES ASSUME NEW x \in Workers, NEW f \in worker'[x],
                      f.entry.text \notin raced'
               PROVE  /\ \A y \in Workers \ {x} : \A g \in worker'[y] :
                            g.entry.text # f.entry.text
                      /\ \/ \A i \in DOMAIN entries :
                               entries[i].text # f.entry.text
                         \/ Overflown(f.entry.scope)
    BY <1>3, <1>6 DEF HeldOnce
  <2>1. CASE x = w
    BY <1>2, <1>3, <1>5, <1>7, <2>1
  <2>2. CASE x # w
    <3>1. f \in worker[x] /\ f.entry.text \notin raced
      BY <1>3, <1>5, <2>2
    <3>2. f.entry.text # t
      BY <1>3, <3>1
    <3>3. QED
      BY <1>2, <1>5, <2>2, <3>1, <3>2 DEF UsedInv, HeldOnce
  <2>3. QED
    BY <2>1, <2>2
<1>9. GenuineHeard' /\ StoreSmall'
  BY <1>3, <1>6 DEF UsedInv, GenuineHeard, StoreSmall
<1>10. OnRecord'
  BY <1>3, <1>6 DEF UsedInv, OnRecord
<1>11. UsedOnce'
  BY <1>3 DEF UsedInv, UsedOnce, Repeats
<1>12. QED
  BY <1>8, <1>9, <1>10, <1>11 DEF UsedInv

(* A thread that writes its nonce down keeps what was used known. *)
LEMMA AcceptUsed ==
    ASSUME TypeOK, Fit, UsedInv, NEW w \in Workers, NEW f \in worker[w],
           Accept(w, f)
    PROVE  UsedInv'
<1> DEFINE s == f.entry.scope
           u == f.entry.text
           last == Len(entries) + 1
<1>1. /\ s \in Scopes /\ u \in Texts /\ f.entry \in Entries /\ f.good
      /\ f.entry = [scope |-> s, text |-> u]
  BY HeldTyped DEF Fit, HeldFit, Entries
<1>2. /\ entries' = Append(entries, f.entry)
      /\ Len(entries) \in Nat /\ DOMAIN entries = 1..Len(entries)
      /\ DOMAIN entries' = DOMAIN entries \union {last}
      /\ last \notin DOMAIN entries /\ last = Len(entries) + 1
      /\ \A i \in DOMAIN entries : entries'[i] = entries[i]
      /\ entries'[last] = f.entry
  BY <1>1 DEF Accept, TypeOK
<1>3. /\ seen_nonces'[s] = Write(seen_nonces[s], u)
      /\ \A t \in Scopes \ {s} : seen_nonces'[t] = seen_nonces[t]
      /\ seen_nonces[s] \in SUBSET Texts
  BY <1>1 DEF Accept, TypeOK
<1>4. /\ worker'[w] = {} /\ UNCHANGED raced
      /\ \A x \in Workers \ {w} : worker'[x] = worker[x]
  BY DEF Accept, TypeOK
<1>5. /\ Taken(s)' = Taken(s) \union {last}
      /\ \A t : t # s => Taken(t)' = Taken(t)
      /\ last \notin Taken(s)
  BY <1>2 DEF Taken
<1>6. /\ IsFiniteSet(Taken(s)) /\ IsFiniteSet(Taken(s)')
      /\ Cardinality(Taken(s)) \in Nat
      /\ Cardinality(Taken(s)') = Cardinality(Taken(s)) + 1
  BY <1>1, <1>5, FS_AddElement, FS_CardinalityType DEF UsedInv, StoreSmall
<1>7. Limit \in Nat
  BY BoardLinkAssumption
<1>8. \A t : Overflown(t) => Overflown(t)'
  <2>1. Overflown(s) => Overflown(s)'
    BY <1>6, <1>7 DEF Overflown
  <2>2. \A t : t # s => (Overflown(t) => Overflown(t)')
    BY <1>5 DEF Overflown
  <2>3. QED
    BY <2>1, <2>2
<1>9. /\ IsFiniteSet(seen_nonces[s]) /\ Cardinality(seen_nonces[s]) \in Nat
      /\ Cardinality(seen_nonces[s]) <= Cardinality(Taken(s))
  BY <1>1, FS_CardinalityType DEF UsedInv, StoreSmall
<1>10. GenuineHeard'
  <2> SUFFICES ASSUME NEW t \in Scopes, NEW m \in seen_nonces'[t]
               PROVE  \E i \in DOMAIN entries' :
                         entries'[i] = [scope |-> t, text |-> m]
    BY DEF GenuineHeard
  <2>1. CASE t = s /\ m = u
    BY <1>1, <1>2, <2>1
  <2>2. CASE m \in seen_nonces[t]
    BY <1>2, <2>2 DEF UsedInv, GenuineHeard
  <2>3. QED
    BY <1>3, <2>1, <2>2 DEF Write
<1>11. StoreSmall'
  <2>1. /\ IsFiniteSet(seen_nonces'[s])
        /\ Cardinality(seen_nonces'[s]) <= Cardinality(Taken(s)) + 1
    <3>1. CASE Cardinality(seen_nonces[s]) > Limit
      <4>1. seen_nonces'[s] = {u}
        BY <1>3, <3>1 DEF Write
      <4>2. IsFiniteSet({u}) /\ Cardinality({u}) = 1
        BY FS_Singleton
      <4>3. QED
        BY <1>6, <4>1, <4>2
    <3>2. CASE ~(Cardinality(seen_nonces[s]) > Limit)
      <4>1. seen_nonces'[s] = seen_nonces[s] \union {u}
        BY <1>3, <3>2 DEF Write
      <4>2. /\ IsFiniteSet(seen_nonces[s] \union {u})
            /\ \/ Cardinality(seen_nonces[s] \union {u})
                    = Cardinality(seen_nonces[s])
               \/ Cardinality(seen_nonces[s] \union {u})
                    = Cardinality(seen_nonces[s]) + 1
        BY <1>9, FS_AddElement
      <4>3. QED
        BY <1>6, <1>9, <4>1, <4>2
    <3>3. QED
      BY <3>1, <3>2
  <2>2. QED
    BY <1>3, <1>5, <1>6, <2>1 DEF UsedInv, StoreSmall
<1>12. OnRecord'
  <2> SUFFICES ASSUME NEW i \in DOMAIN entries', NEW t, t = entries'[i].scope
               PROVE  \/ entries'[i].text \in seen_nonces'[t]
                      \/ entries'[i].text \in raced
                      \/ Overflown(t)'
    BY <1>4 DEF OnRecord, Overflown, Taken
  <2>1. CASE i = last
    BY <1>2, <1>3, <2>1 DEF Write
  <2>2. CASE i \in DOMAIN entries /\ entries[i].scope # s
    <3>1. entries[i].scope \in Scopes
      BY <2>2, EntryTyped
    <3>2. QED
      BY <1>2, <1>3, <1>8, <2>2, <3>1 DEF UsedInv, OnRecord
  <2>3. CASE i \in DOMAIN entries /\ entries[i].scope = s
    <3>1. CASE Cardinality(seen_nonces[s]) > Limit
      <4>1. Overflown(s)'
        BY <1>6, <1>7, <1>9, <3>1 DEF Overflown
      <4>2. QED
        BY <1>2, <2>3, <4>1
    <3>2. CASE ~(Cardinality(seen_nonces[s]) > Limit)
      <4>1. seen_nonces[s] \subseteq seen_nonces'[s]
        BY <1>3, <3>2 DEF Write
      <4>2. QED
        BY <1>2, <1>8, <2>3, <4>1 DEF UsedInv, OnRecord
    <3>3. QED
      BY <3>1, <3>2
  <2>4. QED
    BY <1>2, <2>1, <2>2, <2>3
<1>13. HeldOnce'
  <2> SUFFICES ASSUME NEW x \in Workers, NEW g \in worker'[x],
                      g.entry.text \notin raced
               PROVE  /\ \A y \in Workers \ {x} : \A h \in worker'[y] :
                            h.entry.text # g.entry.text
                      /\ \/ \A i \in DOMAIN entries' :
                               entries'[i].text # g.entry.text
                         \/ Overflown(g.entry.scope)'
    BY <1>4 DEF HeldOnce, Overflown, Taken
  <2>1. x # w /\ g \in worker[x]
    BY <1>4
  <2>2. g.entry.text # u
    BY <2>1 DEF UsedInv, HeldOnce
  <2>3. \A y \in Workers \ {x} : \A h \in worker'[y] :
           h.entry.text # g.entry.text
    BY <1>4, <2>1 DEF UsedInv, HeldOnce
  <2>4. \/ \A i \in DOMAIN entries : entries[i].text # g.entry.text
        \/ Overflown(g.entry.scope)'
    BY <1>8, <2>1 DEF UsedInv, HeldOnce
  <2>5. QED
    BY <1>2, <2>2, <2>3, <2>4
<1>14. UsedOnce'
  <2> SUFFICES ASSUME NEW i \in DOMAIN entries', NEW j \in DOMAIN entries',
                      i < j, entries'[i].text = entries'[j].text,
                      entries'[j].text \notin raced
               PROVE  Cardinality({k \in 1..(j - 1) :
                         entries'[k].scope = entries'[j].scope}) > Limit + 1
    BY <1>4 DEF UsedOnce, Repeats
  <2>1. i \in DOMAIN entries
    BY <1>2
  <2>2. CASE j \in DOMAIN entries
    <3>1. {k \in 1..(j - 1) : entries'[k].scope = entries'[j].scope}
            = {k \in 1..(j - 1) : entries[k].scope = entries[j].scope}
      BY <1>2, <2>2
    <3>2. QED
      BY <1>2, <2>1, <2>2, <3>1 DEF UsedInv, UsedOnce, Repeats
  <2>3. CASE j = last
    <3>1. entries[i].text = u /\ u \notin raced
      BY <1>2, <2>1, <2>3
    <3>2. Overflown(s)
      BY <2>1, <3>1 DEF UsedInv, HeldOnce
    <3>3. {k \in 1..(j - 1) : entries'[k].scope = entries'[j].scope} = Taken(s)
      BY <1>2, <2>3 DEF Taken
    <3>4. QED
      BY <3>2, <3>3 DEF Overflown
  <2>4. QED
    BY <1>2, <2>2, <2>3
<1>15. QED
  BY <1>10, <1>11, <1>12, <1>13, <1>14 DEF UsedInv

(* Stores and threads that are empty have used nothing. *)
LEMMA EmptyUsed ==
    ASSUME seen_nonces = [s \in Scopes |-> {}],
           \A w \in Workers : worker[w] = {}, entries = <<>>
    PROVE  UsedInv
<1>1. DOMAIN entries = {} /\ \A s : Taken(s) = {}
  BY DEF Taken
<1>2. IsFiniteSet({}) /\ Cardinality({}) <= Cardinality({})
  BY FS_EmptySet
<1>3. StoreSmall
  BY <1>1, <1>2 DEF StoreSmall
<1>4. QED
  BY <1>1, <1>3 DEF UsedInv, GenuineHeard, OnRecord, HeldOnce, UsedOnce

(* Every step keeps what was used known. *)
LEMMA UsedStep == ASSUME TypedInv, UsedInv, [Next]_vars PROVE UsedInv'
<1>1. CASE HandshakeStep \/ UNCHANGED vars
  <2>1. UNCHANGED <<seen_nonces, worker, entries, raced>>
    BY <1>1, HandshakeFrame DEF vars, intake
  <2>2. QED
    BY <2>1, UsedFrame
<1>2. CASE ReadingStep
  <2>1. ASSUME NEW scope, NEW key, SealUnder(scope, key) PROVE UsedInv'
    BY <2>1, UsedFrame DEF SealUnder, intake
  <2>2. ASSUME NEW w \in Workers, NEW t \in Texts,
               NEW garbled \in BOOLEAN, Telemetry(w, t, garbled)
        PROVE  UsedInv'
    BY <2>2, TelemetryUsed DEF TypedInv
  <2>3. ASSUME NEW w \in Workers, NEW f \in worker[w], Accept(w, f)
        PROVE  UsedInv'
    BY <2>3, AcceptUsed DEF TypedInv
  <2>4. QED
    BY <1>2, <2>1, <2>2, <2>3 DEF ReadingStep, Seal, SealWithPsk
<1>3. CASE Restart
  <2>1. /\ (seen_nonces = [s \in Scopes |-> {}])'
        /\ (\A w \in Workers : worker[w] = {})' /\ (entries = <<>>)'
    BY <1>3 DEF Restart
  <2>2. QED
    BY <2>1, EmptyUsed, PTL
<1>4. QED
  BY <1>1, <1>2, <1>3, Split

(* Every step keeps the readings of former processes past. *)
LEMMA PastStep == ASSUME TypedInv, PastInv, [Next]_vars PROVE PastInv'
<1>1. CASE UNCHANGED vars
  BY <1>1 DEF vars, server, intake, PastInv, DeadKeys, HeldIsNew, PastStaysPast
<1>2. QED
  BY <1>1, Split, HandshakePast, ReadingPast, RestartPast DEF TypedInv

Inv == TypedInv /\ PastInv /\ UsedInv

(* The invariant holds at the start. *)
LEMMA InitInv == Init => Inv
<1> SUFFICES ASSUME Init PROVE Inv
  OBVIOUS
<1>1. TypedInv
  BY InitTyped, InitInStep DEF TypedInv
<1>2. PastInv
  BY DEF Init, PastInv, DeadKeys, HeldIsNew, PastStaysPast
<1>3. UsedInv
  BY EmptyUsed DEF Init
<1>4. QED
  BY <1>1, <1>2, <1>3 DEF Inv

(* The invariant is inductive. *)
LEMMA NextInv == Inv /\ [Next]_vars => Inv'
BY TypedStep, PastStep, UsedStep DEF Inv

(* The invariant holds in every reachable state. *)
LEMMA SpecInv == Spec => []Inv
BY InitInv, NextInv, PTL DEF Spec

-----------------------------------------------------------------------------
(* Every reachable state of the HTTP leg is typed. *)
THEOREM BoardTyped == Spec => []TypeOK
<1>1. Inv => TypeOK
  BY DEF Inv, TypedInv
<1>2. QED
  BY SpecInv, <1>1, PTL

(* A packet is taken twice in one spelling by one process only if two threads
   looked at it together, or if its store was full in between (accept_nonce). *)
THEOREM UsedOnceHolds == Spec => []UsedOnce
<1>1. Inv => UsedOnce
  BY DEF Inv, UsedInv
<1>2. QED
  BY SpecInv, <1>1, PTL

(* A reading of a former process is taken again only under the static key
   (http_telemetry after a restart). *)
THEOREM PastStaysPastHolds == Spec => []PastStaysPast
<1>1. Inv => PastStaysPast
  BY DEF Inv, PastInv
<1>2. QED
  BY SpecInv, <1>1, PTL

(* A text is only ever spent by the reading it came with (http_telemetry
   opens a packet before it looks at its nonce). *)
THEOREM GenuineHeardHolds == Spec => []GenuineHeard
<1>1. Inv => GenuineHeard
  BY DEF Inv, UsedInv
<1>2. QED
  BY SpecInv, <1>1, PTL

(* A board that posts readings holds the key the server expects, but for a
   restart of the server or a request served too late
   (http_pqc_encapsulate). *)
THEOREM InStepHolds == Spec => []InStep
<1>1. Inv => InStep
  BY DEF Inv, TypedInv
<1>2. QED
  BY SpecInv, <1>1, PTL
=============================================================================
