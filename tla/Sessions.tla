------------------------------ MODULE Sessions ------------------------------
(***************************************************************************)
(* Who holds a session: handshakes of enrolled devices with the server of  *)
(* app/server.py, the claim of a device's identity by one session, and the *)
(* release of all of it when a connection ends.                            *)
(*                                                                         *)
(* Flask-SocketIO runs every event in a thread of its own and nothing is   *)
(* locked, so a handshake is cut at each place where it reads what another *)
(* thread may write, and forget between the identities and the rest.       *)
(*                                                                         *)
(* A signature that verifies is taken as given: a device's key is in the   *)
(* hands of whoever connects.                                              *)
(***************************************************************************)
EXTENDS FiniteSets

CONSTANTS
    Sids,                   \* connections, each used once
    Devices,                \* enrolled identities
    NoOne

Roles == {"sensor", "actuator"}

ASSUME SessionsAssumption == NoOne \notin Sids \union Devices

VARIABLES
    link,                   \* the connection of each sid
    pending_handshakes,     \* the role each sid asked for, or NoOne
    active_devices,         \* the sid that holds each identity, or NoOne
    keys,                   \* sensor_keys and actuator_keys: sids by role
    worker,                 \* where the handshake handler of each sid is
    device,                 \* the device it names
    role,                   \* the role it completes
    served,                 \* history: the device each sid was keyed for
    raced,                  \* history: sids that found an identity free while
                            \*   another that had found it so was to claim it
    overtaken               \* history: sids released while a handshake of
                            \*   theirs was on its way

history == <<served, raced, overtaken>>
vars == <<link, pending_handshakes, active_devices, keys, worker, device, role,
          history>>

Init ==
    /\ link = [s \in Sids |-> "new"]
    /\ pending_handshakes = [s \in Sids |-> NoOne]
    /\ active_devices = [d \in Devices |-> NoOne]
    /\ keys = [r \in Roles |-> {}]
    /\ worker = [s \in Sids |-> "idle"]
    /\ device = [s \in Sids |-> NoOne]
    /\ role = [s \in Sids |-> NoOne]
    /\ served = [s \in Sids |-> NoOne]
    /\ raced = {}
    /\ overtaken = {}

-----------------------------------------------------------------------------
(* No handler is half way. *)
Quiet == \A s \in Sids : worker[s] = "idle" /\ link[s] # "forgetting"

(* The handshake handler may still claim or store something. *)
Shaking == {"read", "write", "pop", "store"}

At(s, from, to) == worker[s] = from /\ worker' = [worker EXCEPT ![s] = to]

(* What the handler was at is gone with its thread. *)
End(s) ==
    /\ device' = [device EXCEPT ![s] = NoOne]
    /\ role' = [role EXCEPT ![s] = NoOne]

Keyed(s) == \E r \in Roles : s \in keys[r]

Connect(s) ==
    /\ link[s] = "new"
    /\ link' = [link EXCEPT ![s] = "open"]
    /\ UNCHANGED <<pending_handshakes, active_devices, keys, worker, device,
                   role, history>>

Known(r) == r \in Roles

(* handle_pqc_hello; a second hello replaces the first. *)
Hello(s, r) ==
    /\ link[s] = "open"
    /\ Known(r)
    /\ pending_handshakes' = [pending_handshakes EXCEPT ![s] = r]
    /\ UNCHANGED <<link, active_devices, keys, worker, device, role, history>>

(* handle_pqc_encapsulation, up to the signature: a handshake that is not
   pending is dropped, a device that is not enrolled or a bad signature ends
   in forget.  Its thread may begin after the connection has ended.  A node
   sends one encapsulation for each offer, and waits. *)
Encapsulation(s, d, verified) ==
    /\ pending_handshakes[s] # NoOne
    /\ At(s, "idle", IF verified THEN "read" ELSE "forget")
    /\ device' = [device EXCEPT ![s] = d]
    /\ overtaken' = IF verified /\ link[s] = "forgetting"
                    THEN overtaken \union {s} ELSE overtaken
    /\ UNCHANGED <<link, pending_handshakes, active_devices, keys, role,
                   served, raced>>

(* With a bug: the last one to ask gets the identity. *)
Anyone(s) == TRUE

Free(s) == active_devices[device[s]] \in {NoOne, s}

(* Others that have found the identity free and not claimed it yet. *)
Rivals(s) ==
    {t \in Sids \ {s} : worker[t] = "write" /\ device[t] = device[s]}

(* claim_identity reads the holder ... *)
ReadHolder(s) ==
    /\ At(s, "read", IF Free(s) THEN "write" ELSE "forget")
    /\ raced' = IF Free(s) /\ Rivals(s) # {}
                THEN raced \union Rivals(s) \union {s} ELSE raced
    /\ UNCHANGED <<link, pending_handshakes, active_devices, keys, device,
                   role, served, overtaken>>

(* ... and then writes it. *)
WriteHolder(s) ==
    /\ At(s, "write", "pop")
    /\ active_devices' = [active_devices EXCEPT ![device[s]] = s]
    /\ UNCHANGED <<link, pending_handshakes, keys, device, role, history>>

(* With a bug: a failed handshake is logged and nothing else. *)
JustLogs == "idle"

AfterFailure == "forget"

(* complete_handshake takes the pending handshake, KeyError if it is gone ... *)
PopPending(s) ==
    /\ At(s, "pop", IF pending_handshakes[s] = NoOne THEN AfterFailure
                    ELSE "store")
    /\ role' = [role EXCEPT ![s] = pending_handshakes[s]]
    /\ pending_handshakes' = [pending_handshakes EXCEPT ![s] = NoOne]
    /\ UNCHANGED <<link, active_devices, keys, device, history>>

(* ... decapsulates, which a malformed ciphertext makes fail ... *)
FailDecapsulate(s) ==
    /\ At(s, "store", AfterFailure)
    /\ UNCHANGED <<link, pending_handshakes, active_devices, keys, device,
                   role, history>>

(* ... and stores the key. *)
StoreKey(s) ==
    /\ At(s, "store", "idle") /\ End(s)
    /\ keys' = [keys EXCEPT ![role[s]] = @ \union {s}]
    /\ served' = [served EXCEPT ![s] = device[s]]
    /\ UNCHANGED <<link, pending_handshakes, active_devices, raced, overtaken>>

-----------------------------------------------------------------------------
(* forget: releases the identities, then drops what belongs to the sid. *)

Release(s) ==
    active_devices' = [d \in Devices |-> IF active_devices[d] = s THEN NoOne
                                         ELSE active_devices[d]]

(* With a bug: a session that agreed a key for each role leaves one behind. *)
DropPending(s) ==
    /\ pending_handshakes' = [pending_handshakes EXCEPT ![s] = NoOne]
    /\ keys' = [keys EXCEPT !["sensor"] = @ \ {s}]

Drop(s) ==
    /\ pending_handshakes' = [pending_handshakes EXCEPT ![s] = NoOne]
    /\ keys' = [r \in Roles |-> keys[r] \ {s}]

(* forget, called by the handshake that failed or was refused. *)
WorkerReleases(s) ==
    /\ At(s, "forget", "drop")
    /\ Release(s)
    /\ UNCHANGED <<link, pending_handshakes, keys, device, role, history>>

WorkerDrops(s) ==
    /\ At(s, "drop", "idle") /\ End(s)
    /\ Drop(s)
    /\ UNCHANGED <<link, active_devices, history>>

(* The connection ends ... *)
Close(s) ==
    /\ link[s] = "open"
    /\ link' = [link EXCEPT ![s] = "closing"]
    /\ UNCHANGED <<pending_handshakes, active_devices, keys, worker, device,
                   role, history>>

(* ... and handle_disconnect runs forget. *)
DisconnectReleases(s) ==
    /\ link[s] = "closing"
    /\ link' = [link EXCEPT ![s] = "forgetting"]
    /\ Release(s)
    /\ overtaken' = IF worker[s] \in Shaking THEN overtaken \union {s}
                    ELSE overtaken
    /\ UNCHANGED <<pending_handshakes, keys, worker, device, role, served,
                   raced>>

DisconnectDrops(s) ==
    /\ link[s] = "forgetting"
    /\ link' = [link EXCEPT ![s] = "gone"]
    /\ Drop(s)
    /\ UNCHANGED <<active_devices, worker, device, role, history>>

-----------------------------------------------------------------------------
Next ==
    \E s \in Sids :
       \/ Connect(s) \/ Close(s)
       \/ \E r \in Roles \union {"unknown"} : Hello(s, r)
       \/ \E d \in Devices, verified \in BOOLEAN :
             Encapsulation(s, d, verified)
       \/ ReadHolder(s) \/ WriteHolder(s) \/ PopPending(s)
       \/ FailDecapsulate(s) \/ StoreKey(s)
       \/ WorkerReleases(s) \/ WorkerDrops(s)
       \/ DisconnectReleases(s) \/ DisconnectDrops(s)

Spec == Init /\ [][Next]_vars

-----------------------------------------------------------------------------
(* Properties. *)

(* A failed handshake is on its way to take back what the session has. *)
Leaving(s) == worker[s] = "drop"

Holders(d) ==
    {s \in Sids : link[s] = "open" /\ Keyed(s) /\ served[s] = d /\ ~Leaving(s)}

(* "One enrolled identity, one live session"
   (tests/test_duplicate_identity.py:1): however the handlers interleave, no
   two live connections are keyed for one device, but for connections whose
   handshakes found its identity free at once (server.py:288, 291). *)
OneLiveSession ==
    \A d \in Devices : \A s, t \in Holders(d) \ raced : s = t

(* "A node that drops must be able to reconnect, or one crash locks its own
   identity out until the server restarts"
   (tests/test_duplicate_identity.py:127-128): once every handler and every
   disconnect is done, an identity is only held by a session that is there,
   and has a key. *)
HeldInUse(d) ==
    active_devices[d] # NoOne =>
       /\ link[active_devices[d]] \in {"open", "closing"}
       /\ Keyed(active_devices[d])

IdentityReleased == Quiet => \A d \in Devices : HeldInUse(d)

(* What the code keeps of it: an identity is left with no one to use it only
   by a connection whose disconnect was handled while its handshake was.  No
   other interleaving, failure or refusal locks a device out. *)
LockoutNeedsARace ==
    Quiet => \A d \in Devices : active_devices[d] \in overtaken \/ HeldInUse(d)

(* Once every handler is done, no key outlives its connection, but that of such
   a handshake: decide_trip and heartbeat_loop take a key for a node that
   listens (server.py:321-325). *)
NoGhostKeys ==
    Quiet => \A s \in Sids \ overtaken :
                Keyed(s) => link[s] \in {"open", "closing"}
=============================================================================
