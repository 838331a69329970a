------------------------------ MODULE BoardLink ------------------------------
(***************************************************************************)
(* The HTTP leg: boards that shake hands with the server in two POSTs and  *)
(* then post readings sealed with the key they agreed                      *)
(* (firmware/sketch_pqc), boards that were never provisioned and seal with *)
(* the static DEVICE_PSK, and the server's nonce stores, by which a packet *)
(* counts once in each spelling: the stores hold the hex text of a nonce,  *)
(* and bytes.fromhex opens it in capitals or with blanks as well.          *)
(*                                                                         *)
(* A packet stays on the network for ever: it may come late, twice, spelt  *)
(* anew, garbled, or to a server that was restarted.                       *)
(* Requests run in threads: one that found a nonce new has yet to write it *)
(* down.  A key is known by the handshake it came from.                    *)
(***************************************************************************)
EXTENDS Integers, FiniteSets, Sequences

CONSTANTS
    Boards,                 \* enrolled boards with sketch_pqc, by device_id
    Threads,                \* bound: threads that serve /telemetry at a time
    Limit,                  \* a store of more nonces than this is emptied
    Spellings,              \* the texts of one nonce that come
    MaxPackets,             \* bound: packets sealed
    MaxEntries,             \* bound: readings a process takes
    MaxHandshakes,          \* bound: handshakes that matter at a time
    MaxFaults               \* bound: losses, timeouts, reboots and restarts

PSK == "device-psk"         \* the scope of the boards that only hold the PSK
Scopes == Boards \union {PSK}

Nonces == 1..MaxPackets
Workers == 1..Threads
Handshakes == 1..MaxHandshakes
NoKey == 0
DEVICE_PSK == MaxHandshakes + 1
Keys == 0..DEVICE_PSK

ASSUME BoardLinkAssumption ==
    /\ PSK \notin Boards
    /\ {Threads, Limit, MaxPackets, MaxEntries, MaxHandshakes, MaxFaults}
          \subseteq Nat

VARIABLES
    \* of the server
    http_sessions,          \* the key of each board, NoKey if it has none
    http_pending,           \* handshakes offered and not completed
    seen_nonces,            \* the texts accepted in each scope
    worker,                 \* what each thread found new and will write down
    \* of the boards
    g_session_key,
    step,                   \* where the handshake task is
    offer,                  \* the handshake it is at
    \* of the network
    requests, answers,      \* to and from /pqc/encapsulate
    packets,                \* the packets sealed so far, by nonce
    \* history
    entries,                \* the readings this process took, in order
    past,                   \* nonces of those that former processes took
    raced,                  \* texts that two threads held together
    behind,                 \* boards last served a request they had given up
    orphaned,               \* boards this process has not served
    faults

server == <<http_sessions, http_pending>>
intake == <<seen_nonces, worker, entries, past, raced>>
board == <<g_session_key, step, offer>>
network == <<requests, answers>>
history == <<behind, orphaned>>
vars == <<server, intake, board, network, packets, history, faults>>

Posts == [board : Boards, handshake : Handshakes]
Texts == [nonce : Nonces, spelling : Spellings]
Entries == [scope : Scopes, text : Texts]

Packets == [scope : Scopes, key : Keys \ {NoKey}]

TypeOK ==
    /\ http_sessions \in [Boards -> Handshakes \union {NoKey}]
    /\ http_pending \subseteq Handshakes
    /\ seen_nonces \in [Scopes -> SUBSET Texts]
    /\ worker \in [Workers -> SUBSET [entry : Entries, good : BOOLEAN]]
    /\ g_session_key \in [Boards -> Handshakes \union {NoKey}]
    /\ step \in [Boards -> {"hello", "offered", "waiting", "ready"}]
    /\ offer \in [Boards -> Handshakes \union {NoKey}]
    /\ \A b \in Boards :
          /\ step[b] # "hello" => offer[b] # NoKey
          /\ step[b] \in {"waiting", "ready"} => g_session_key[b] = offer[b]
    /\ requests \subseteq Posts /\ answers \subseteq Posts
    /\ packets \in Seq(Packets) /\ Len(packets) <= MaxPackets
    /\ entries \in Seq(Entries)
    /\ past \subseteq DOMAIN packets /\ raced \subseteq Texts
    /\ faults \in 0..MaxFaults

Init ==
    /\ http_sessions = [b \in Boards |-> NoKey]
    /\ http_pending = {}
    /\ seen_nonces = [s \in Scopes |-> {}]
    /\ worker = [w \in Workers |-> {}]
    /\ g_session_key = [b \in Boards |-> NoKey]
    /\ step = [b \in Boards |-> "hello"]
    /\ offer = [b \in Boards |-> NoKey]
    /\ requests = {} /\ answers = {}
    /\ packets = <<>>
    /\ entries = <<>> /\ past = {} /\ raced = {}
    /\ behind = {} /\ orphaned = Boards
    /\ faults = 0

Fault == faults < MaxFaults /\ faults' = faults + 1

-----------------------------------------------------------------------------
(* The handshake. *)

(* os.urandom and a key pair of its own: a handshake nobody has heard of. *)
Fresh(h) ==
    /\ h \notin http_pending
    /\ \A b \in Boards : h \notin {http_sessions[b], g_session_key[b], offer[b]}
    /\ \A r \in requests \union answers : h # r.handshake
    /\ \A n \in DOMAIN packets : h # packets[n].key

(* Step 1 of runHandshake, and http_pqc_hello.  A hello that fails changes
   nothing, and the task tries again. *)
Hello(b) ==
    /\ step[b] = "hello"
    /\ \E h \in Handshakes :
          /\ Fresh(h) /\ \A x \in 1..(h - 1) : ~Fresh(x)
          /\ offer' = [offer EXCEPT ![b] = h]
          /\ http_pending' = http_pending \union {h}
    /\ step' = [step EXCEPT ![b] = "offered"]
    /\ UNCHANGED <<http_sessions, intake, g_session_key, network, packets,
                   history, faults>>

(* Steps 2 to 5: the board has its key before the server knows of it. *)
Encapsulate(b) ==
    /\ step[b] = "offered"
    /\ g_session_key' = [g_session_key EXCEPT ![b] = offer[b]]
    /\ requests' = requests \union {[board |-> b, handshake |-> offer[b]]}
    /\ step' = [step EXCEPT ![b] = "waiting"]
    /\ UNCHANGED <<server, intake, offer, answers, packets, history, faults>>

(* With a bug: a board that has a key keeps it. *)
StoreOnce(b, h) ==
    http_sessions' = [http_sessions EXCEPT ![b] = IF @ = NoKey THEN h ELSE @]

StoreKey(b, h) == http_sessions' = [http_sessions EXCEPT ![b] = h]

GivenUp(r) == step[r.board] # "waiting" \/ offer[r.board] # r.handshake

(* http_pqc_encapsulate: the handshake is spent whether it ends well or not,
   and an answer goes to a board that still listens. *)
Take(r) ==
    /\ r \in requests
    /\ requests' = requests \ {r}
    /\ http_pending' = http_pending \ {r.handshake}

ServeEncapsulate(r) ==
    /\ Take(r)
    /\ r.handshake \in http_pending
    /\ StoreKey(r.board, r.handshake)
    /\ answers' = answers \union {x \in {r} : ~GivenUp(r)}
    /\ orphaned' = orphaned \ {r.board}
    /\ behind' = IF GivenUp(r) THEN behind \union {r.board}
                 ELSE behind \ {r.board}
    /\ UNCHANGED <<intake, board, packets, faults>>

(* No handshake in progress, or a signature that does not verify. *)
RefuseEncapsulate(r) ==
    /\ Take(r)
    /\ IF r.handshake \in http_pending THEN Fault ELSE UNCHANGED faults
    /\ UNCHANGED <<http_sessions, intake, board, answers, packets, history>>

(* The answer "established": g_have_key. *)
Established(r) ==
    /\ r \in answers
    /\ answers' = answers \ {r}
    /\ step' = [step EXCEPT ![r.board] = "ready"]
    /\ UNCHANGED <<server, intake, g_session_key, offer, requests, packets,
                   history, faults>>

(* With a bug: the offer of the first try is answered again. *)
FromTheOffer == "offered"

FromTheStart == "hello"

(* Refused, or a connection that broke: handshakeTask starts again. *)
Retry(b) ==
    /\ step[b] = "waiting"
    /\ [board |-> b, handshake |-> offer[b]] \notin requests \union answers
    /\ step' = [step EXCEPT ![b] = FromTheStart]
    /\ UNCHANGED <<server, intake, g_session_key, offer, network, packets,
                   history, faults>>

(* http.POST times out; the request may still be on its way, or lost. *)
TimeOut(b) ==
    /\ step[b] = "waiting"
    /\ Fault
    /\ answers' = {r \in answers : r.board # b}
    /\ step' = [step EXCEPT ![b] = FromTheStart]
    /\ UNCHANGED <<server, intake, g_session_key, offer, requests, packets,
                   history>>

(* A power cycle of the board. *)
Reboot(b) ==
    /\ step[b] # "hello"
    /\ Fault
    /\ g_session_key' = [g_session_key EXCEPT ![b] = NoKey]
    /\ step' = [step EXCEPT ![b] = "hello"]
    /\ answers' = {r \in answers : r.board # b}
    /\ UNCHANGED <<server, intake, offer, requests, packets, history>>

-----------------------------------------------------------------------------
(* Readings. *)

(* sealAndPost: a nonce of its own for every packet. *)
SealUnder(scope, key) ==
    /\ Len(packets) < MaxPackets
    /\ packets' = Append(packets, [scope |-> scope, key |-> key])
    /\ UNCHANGED <<server, intake, board, network, history, faults>>

Seal(b) == step[b] = "ready" /\ SealUnder(b, g_session_key[b])

SealWithPsk == SealUnder(PSK, DEVICE_PSK)

(* http_telemetry: the key, and the scope of the nonce, of the device_id. *)
HasSession(s) == s # PSK /\ http_sessions[s] # NoKey

KeyFor(s) == IF HasSession(s) THEN http_sessions[s] ELSE DEVICE_PSK

ScopeFor(s) == IF HasSession(s) THEN s ELSE PSK

Decrypts(n, garbled) == ~garbled /\ packets[n].key = KeyFor(packets[n].scope)

(* With a bug: the nonce is spent before the tag is looked at, as it is for a
   Socket.IO node. *)
Untested(n, garbled) == TRUE

Passes(n, garbled) == Decrypts(n, garbled)

Found(t) == [scope |-> ScopeFor(packets[t.nonce].scope), text |-> t]

(* A packet is tried, and the text of its nonce looked up by accept_nonce:
   known, it is answered "replay"; new, the thread goes on to write it down. *)
Telemetry(w, t, garbled) ==
    /\ worker[w] = {} /\ \A x \in 1..(w - 1) : worker[x] # {}
    /\ t.nonce \in DOMAIN packets
    /\ Passes(t.nonce, garbled)
    /\ t \notin seen_nonces[Found(t).scope]
    /\ worker' = [worker EXCEPT ![w] = {[entry |-> Found(t),
                                        good |-> Decrypts(t.nonce, garbled)]}]
    /\ raced' = IF \E x \in Workers : \E f \in worker[x] : f.entry.text = t
                THEN raced \union {t} ELSE raced
    /\ UNCHANGED <<server, seen_nonces, entries, past, board, network,
                   packets, history, faults>>

(* With a bug: emptied after the nonce is written down, which goes too. *)
WriteThenEmpty(seen, t) ==
    IF Cardinality(seen \union {t}) > Limit THEN {} ELSE seen \union {t}

Write(seen, t) == (IF Cardinality(seen) > Limit THEN {} ELSE seen) \union {t}

(* The rest of accept_nonce; process_telemetry takes the reading. *)
Accept(w, f) ==
    /\ f \in worker[w]
    /\ Len(entries) < MaxEntries
    /\ seen_nonces' = [seen_nonces EXCEPT ![f.entry.scope] =
                          Write(@, f.entry.text)]
    /\ worker' = [worker EXCEPT ![w] = {}]
    /\ entries' = IF f.good THEN Append(entries, f.entry) ELSE entries
    /\ UNCHANGED <<server, past, raced, board, network, packets, history,
                   faults>>

(* With a bug: the keys are kept on disk, the nonces are not. *)
KeepSessions == UNCHANGED http_sessions

DropSessions == http_sessions' = [b \in Boards |-> NoKey]

(* The server is restarted: all it knew of boards and packets is gone, and
   so are the connections. *)
Restart ==
    /\ Fault
    /\ DropSessions
    /\ http_pending' = {}
    /\ seen_nonces' = [s \in Scopes |-> {}]
    /\ worker' = [w \in Workers |-> {}]
    /\ requests' = {} /\ answers' = {}
    /\ past' = past \union {entries[i].text.nonce : i \in DOMAIN entries}
    /\ entries' = <<>> /\ raced' = {}
    /\ behind' = {} /\ orphaned' = Boards
    /\ UNCHANGED <<board, packets>>

-----------------------------------------------------------------------------
Next ==
    \/ \E b \in Boards :
          Hello(b) \/ Encapsulate(b) \/ Retry(b) \/ TimeOut(b) \/ Reboot(b)
             \/ Seal(b)
    \/ \E r \in requests : ServeEncapsulate(r) \/ RefuseEncapsulate(r)
    \/ \E r \in answers : Established(r)
    \/ SealWithPsk
    \/ \E w \in Workers, t \in Texts, garbled \in BOOLEAN :
          Telemetry(w, t, garbled)
    \/ \E w \in Workers : \E f \in worker[w] : Accept(w, f)
    \/ Restart

Spec == Init /\ [][Next]_vars

(* A board's task runs and tries again every 3 s; a request that the board
   waits for is served; an answer is read. *)
FairSpec ==
    /\ Spec
    /\ \A b \in Boards : WF_vars(Hello(b) \/ Encapsulate(b) \/ Retry(b))
    /\ \A r \in Posts :
          /\ WF_vars(/\ ~GivenUp(r)
                     /\ ServeEncapsulate(r) \/ RefuseEncapsulate(r))
          /\ WF_vars(Established(r))

-----------------------------------------------------------------------------
(* Properties. *)

Repeats(i, j) == i < j /\ entries[i].text = entries[j].text

(* "turns a captured packet into a single-use token" (server.py:119-121), as
   far as the code goes: a process takes a packet a second time in the same
   spelling only if two threads looked at it together, or if its store was full
   in between.  In another spelling it is another token: the store compares
   text (server.py:133), AES-GCM the bytes (157). *)
UsedOnce ==
    \A i, j \in DOMAIN entries :
       Repeats(i, j) =>
          \/ entries[j].text \in raced
          \/ Cardinality({k \in 1..(j - 1) :
                            entries[k].scope = entries[j].scope}) > Limit + 1

(* A reading that was taken before a restart is taken again only on the lane
   of the static key, which never moves the safety function. *)
PastStaysPast ==
    \A i \in DOMAIN entries :
       entries[i].text.nonce \in past => entries[i].scope = PSK

(* A nonce is spent only by its reading: nothing that comes before a genuine
   packet, garbled or under another key, has it refused as a replay. *)
GenuineHeard ==
    \A s \in Scopes : \A t \in seen_nonces[s] :
       \E i \in DOMAIN entries : entries[i] = [scope |-> s, text |-> t]

(* "derives the same AES-256-GCM session key the device just derived"
   (server.py:454): a board that posts readings holds the key the server
   expects of it, unless the server was restarted since or was late to serve
   a request the board had given up. *)
InStep ==
    \A b \in Boards :
       step[b] = "ready" =>
          \/ http_sessions[b] = g_session_key[b]
          \/ b \in behind \union orphaned

(* A board is ready in the end, whatever was lost, late or restarted on the
   way. *)
BoardsComeUp == \A b \in Boards : <>[](step[b] = "ready")
=============================================================================
