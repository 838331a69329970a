--------------------------- MODULE DeploymentProofs ---------------------------
(***************************************************************************)
(* The three stages of a deployment, each for any number of identities,    *)
(* processes and connections.  Provisioning, over commands that are killed *)
(* anywhere: a key in the field is only lost to --force.  Starting: all    *)
(* processes share one pre-shared key.  Serving, with handlers that        *)
(* interleave: an identity has one live session unless two claims raced,   *)
(* and is released with it and leaves no key behind unless a disconnect    *)
(* overtook the handshake; the run sessions_locked_out shows that case.    *)
(***************************************************************************)
EXTENDS Sessions, Provisioning, DevicePsk, TLAPS

-----------------------------------------------------------------------------
(* Sessions. *)

Places == {"idle", "read", "write", "pop", "store", "forget", "drop"}

SessionTyped ==
    /\ link \in [Sids -> {"new", "open", "closing", "forgetting", "gone"}]
    /\ pending_handshakes \in [Sids -> Roles \union {NoOne}]
    /\ active_devices \in [Devices -> Sids \union {NoOne}]
    /\ keys \in [Roles -> SUBSET Sids]
    /\ worker \in [Sids -> Places]
    /\ device \in [Sids -> Devices \union {NoOne}]
    /\ role \in [Sids -> Roles \union {NoOne}]
    /\ served \in [Sids -> Devices \union {NoOne}]
    /\ raced \subseteq Sids
    /\ overtaken \subseteq Sids

There(s) == link[s] \in {"open", "closing"}

(* A connection that is not open yet has nothing, and one that is gone has no
   handshake left to answer; a handshake on its way names a device and a role,
   and unless it was overtaken its connection is there. *)
ThreadInv ==
    \A s \in Sids :
       /\ link[s] = "new" =>
             worker[s] = "idle" /\ pending_handshakes[s] = NoOne /\ ~Keyed(s)
       /\ link[s] = "gone" => pending_handshakes[s] = NoOne
       /\ worker[s] \in Shaking => device[s] \in Devices
       /\ worker[s] = "store" => role[s] \in Roles
       /\ worker[s] \in Shaking /\ s \notin overtaken => There(s)

(* Two that are to claim one identity have raced, and what is about to be
   claimed is free, or held by one that raced. *)
RaceInv ==
    \A t \in Sids : worker[t] = "write" =>
       /\ active_devices[device[t]] \in {NoOne, t} \union raced
       /\ \A s \in Sids \ {t} :
             worker[s] = "write" /\ device[s] = device[t] => s \in raced

(* Unless it raced, a connection that is there holds the identity it claimed,
   and later the one it was keyed for. *)
ClaimInv ==
    \A s \in Sids \ raced : There(s) =>
       /\ worker[s] \in {"pop", "store"} => active_devices[device[s]] = s
       /\ Keyed(s) /\ ~Leaving(s) =>
             served[s] \in Devices /\ active_devices[served[s]] = s

(* Unless it was overtaken, a connection that holds an identity is there, and
   has a key or is getting one; and so does one that has a key. *)
HolderInv ==
    \A s \in Sids \ overtaken :
       /\ \A d \in Devices : active_devices[d] = s =>
             /\ There(s) /\ ~Leaving(s)
             /\ Keyed(s) \/ worker[s] \in {"pop", "store", "forget"}
       /\ Keyed(s) => There(s) \/ link[s] = "forgetting"

SessionInv == SessionTyped /\ ThreadInv /\ RaceInv /\ ClaimInv /\ HolderInv

-----------------------------------------------------------------------------
(* At the start nothing is held. *)
LEMMA SessionsStart == Init => SessionInv
<1> SUFFICES ASSUME Init PROVE SessionInv
  OBVIOUS
<1> USE SessionsAssumption DEF Init
<1>1. SessionTyped
  BY DEF SessionTyped, Places
<1>2. ThreadInv
  BY DEF ThreadInv, Keyed, Shaking
<1>3. RaceInv
  BY DEF RaceInv
<1>4. ClaimInv
  BY DEF ClaimInv, Keyed
<1>5. HolderInv
  BY DEF HolderInv, Keyed
<1> QED
  BY <1>1, <1>2, <1>3, <1>4, <1>5 DEF SessionInv

(* A step keeps the invariant: one lemma an action. *)

(* A connection that opens holds nothing yet. *)
LEMMA ConnectInv ==
    ASSUME SessionInv, NEW s \in Sids, Connect(s)
    PROVE  SessionInv'
<1> USE SessionsAssumption DEF SessionInv, Connect, history
<1>1. SessionTyped'
  BY DEF SessionTyped, Places
<1>2. ThreadInv'
  BY DEF SessionTyped, ThreadInv, Keyed, There, Shaking
<1>3. RaceInv'
  BY DEF SessionTyped, ThreadInv, RaceInv, Shaking
<1>4. ClaimInv'
  BY DEF SessionTyped, ThreadInv, RaceInv, ClaimInv, There, Keyed, Leaving, Shaking
<1>5. HolderInv'
  BY DEF SessionTyped, ThreadInv, HolderInv, There, Keyed, Leaving, Shaking
<1> QED
  BY <1>1, <1>2, <1>3, <1>4, <1>5

(* A connection that closes is still there: its handler releases what it holds. *)
LEMMA CloseInv ==
    ASSUME SessionInv, NEW s \in Sids, Close(s)
    PROVE  SessionInv'
<1> USE SessionsAssumption DEF SessionInv, Close, history
<1>1. SessionTyped'
  BY DEF SessionTyped, Places
<1>2. ThreadInv'
  BY DEF SessionTyped, ThreadInv, Keyed, There, Shaking
<1>3. RaceInv'
  BY DEF SessionTyped, ThreadInv, RaceInv, Shaking
<1>4. ClaimInv'
  BY DEF SessionTyped, ThreadInv, RaceInv, ClaimInv, There, Keyed, Leaving, Shaking
<1>5. HolderInv'
  BY DEF SessionTyped, ThreadInv, HolderInv, There, Keyed, Leaving, Shaking
<1> QED
  BY <1>1, <1>2, <1>3, <1>4, <1>5

(* A hello only notes the role. *)
LEMMA HelloInv ==
    ASSUME SessionInv, NEW s \in Sids, NEW r, Hello(s, r)
    PROVE  SessionInv'
<1> USE SessionsAssumption DEF SessionInv, Hello, Known, history
<1>1. SessionTyped'
  BY DEF SessionTyped, Places
<1>2. ThreadInv'
  BY DEF SessionTyped, ThreadInv, Keyed, There, Shaking
<1>3. RaceInv'
  BY DEF SessionTyped, ThreadInv, RaceInv, Shaking
<1>4. ClaimInv'
  BY DEF SessionTyped, ThreadInv, RaceInv, ClaimInv, There, Keyed, Leaving, Shaking
<1>5. HolderInv'
  BY DEF SessionTyped, ThreadInv, HolderInv, There, Keyed, Leaving, Shaking
<1> QED
  BY <1>1, <1>2, <1>3, <1>4, <1>5

(* A handshake that begins is there, or is noted as overtaken. *)
LEMMA EncapsulationInv ==
    ASSUME SessionInv, NEW s \in Sids, NEW d \in Devices, NEW verified \in BOOLEAN, Encapsulation(s, d, verified)
    PROVE  SessionInv'
<1> USE SessionsAssumption DEF SessionInv, Encapsulation, At, Shaking, history
<1>1. SessionTyped'
  BY DEF SessionTyped, Places
<1>2. ThreadInv'
  BY DEF SessionTyped, ThreadInv, Keyed, There, Shaking
<1>3. RaceInv'
  BY DEF SessionTyped, ThreadInv, RaceInv, Shaking
<1>4. ClaimInv'
  BY DEF SessionTyped, ThreadInv, RaceInv, ClaimInv, There, Keyed, Leaving, Shaking
<1>5. HolderInv'
  BY DEF SessionTyped, ThreadInv, HolderInv, There, Keyed, Leaving, Shaking
<1> QED
  BY <1>1, <1>2, <1>3, <1>4, <1>5

(* Whoever finds the identity free beside another is noted with it. *)
LEMMA ReadHolderInv ==
    ASSUME SessionInv, NEW s \in Sids, ReadHolder(s)
    PROVE  SessionInv'
<1> USE SessionsAssumption DEF SessionInv, ReadHolder, At, Free, Rivals, history
<1>1. SessionTyped'
  BY DEF SessionTyped, Places
<1>2. ThreadInv'
  BY DEF SessionTyped, ThreadInv, Keyed, There, Shaking
<1>3. RaceInv'
  BY DEF SessionTyped, ThreadInv, RaceInv, Shaking
<1>4. ClaimInv'
  BY DEF SessionTyped, ThreadInv, RaceInv, ClaimInv, There, Keyed, Leaving, Shaking
<1>5. HolderInv'
  BY DEF SessionTyped, ThreadInv, HolderInv, There, Keyed, Leaving, Shaking
<1> QED
  BY <1>1, <1>2, <1>3, <1>4, <1>5

(* So what is written over is no identity in use. *)
LEMMA WriteHolderInv ==
    ASSUME SessionInv, NEW s \in Sids, WriteHolder(s)
    PROVE  SessionInv'
<1> USE SessionsAssumption DEF SessionInv, WriteHolder, At, history
<1>1. SessionTyped'
  BY DEF SessionTyped, Places
<1>2. ThreadInv'
  BY DEF SessionTyped, ThreadInv, Keyed, There, Shaking
<1>3. RaceInv'
  BY DEF SessionTyped, ThreadInv, RaceInv, Shaking
<1>4. ClaimInv'
  BY DEF SessionTyped, ThreadInv, RaceInv, ClaimInv, There, Keyed, Leaving, Shaking
<1>5. HolderInv'
  BY DEF SessionTyped, ThreadInv, HolderInv, There, Keyed, Leaving, Shaking
<1> QED
  BY <1>1, <1>2, <1>3, <1>4, <1>5

(* A handshake that was pending leaves its role. *)
LEMMA PopPendingInv ==
    ASSUME SessionInv, NEW s \in Sids, PopPending(s)
    PROVE  SessionInv'
<1> USE SessionsAssumption DEF SessionInv, PopPending, At, AfterFailure, history
<1>1. SessionTyped'
  BY DEF SessionTyped, Places
<1>2. ThreadInv'
  BY DEF SessionTyped, ThreadInv, Keyed, There, Shaking
<1>3. RaceInv'
  BY DEF SessionTyped, ThreadInv, RaceInv, Shaking
<1>4. ClaimInv'
  BY DEF SessionTyped, ThreadInv, RaceInv, ClaimInv, There, Keyed, Leaving, Shaking
<1>5. HolderInv'
  BY DEF SessionTyped, ThreadInv, HolderInv, There, Keyed, Leaving, Shaking
<1> QED
  BY <1>1, <1>2, <1>3, <1>4, <1>5

(* What failed goes on to forget, with the identity it claimed. *)
LEMMA FailDecapsulateInv ==
    ASSUME SessionInv, NEW s \in Sids, FailDecapsulate(s)
    PROVE  SessionInv'
<1> USE SessionsAssumption DEF SessionInv, FailDecapsulate, At, AfterFailure, history
<1>1. SessionTyped'
  BY DEF SessionTyped, Places
<1>2. ThreadInv'
  BY DEF SessionTyped, ThreadInv, Keyed, There, Shaking
<1>3. RaceInv'
  BY DEF SessionTyped, ThreadInv, RaceInv, Shaking
<1>4. ClaimInv'
  BY DEF SessionTyped, ThreadInv, RaceInv, ClaimInv, There, Keyed, Leaving, Shaking
<1>5. HolderInv'
  BY DEF SessionTyped, ThreadInv, HolderInv, There, Keyed, Leaving, Shaking
<1> QED
  BY <1>1, <1>2, <1>3, <1>4, <1>5

(* The key goes with the identity the handler holds. *)
LEMMA StoreKeyInv ==
    ASSUME SessionInv, NEW s \in Sids, StoreKey(s)
    PROVE  SessionInv'
<1> USE SessionsAssumption DEF SessionInv, StoreKey, At, End, history
<1>1. SessionTyped'
  BY DEF SessionTyped, Places
<1>2. ThreadInv'
  BY DEF SessionTyped, ThreadInv, Keyed, There, Shaking
<1>3. RaceInv'
  BY DEF SessionTyped, ThreadInv, RaceInv, Shaking
<1>4. ClaimInv'
  BY DEF SessionTyped, ThreadInv, RaceInv, ClaimInv, There, Keyed, Leaving, Shaking
<1>5. HolderInv'
  BY DEF SessionTyped, ThreadInv, HolderInv, There, Keyed, Leaving, Shaking
<1> QED
  BY <1>1, <1>2, <1>3, <1>4, <1>5

(* No other session held what is released. *)
LEMMA WorkerReleasesInv ==
    ASSUME SessionInv, NEW s \in Sids, WorkerReleases(s)
    PROVE  SessionInv'
<1> USE SessionsAssumption DEF SessionInv, WorkerReleases, At, Release, history
<1>1. SessionTyped'
  BY DEF SessionTyped, Places
<1>2. ThreadInv'
  BY DEF SessionTyped, ThreadInv, Keyed, There, Shaking
<1>3. RaceInv'
  BY DEF SessionTyped, ThreadInv, RaceInv, Shaking
<1>4. ClaimInv'
  BY DEF SessionTyped, ThreadInv, RaceInv, ClaimInv, There, Keyed, Leaving, Shaking
<1>5. HolderInv'
  BY DEF SessionTyped, ThreadInv, HolderInv, There, Keyed, Leaving, Shaking
<1> QED
  BY <1>1, <1>2, <1>3, <1>4, <1>5

(* The keys go after the identities. *)
LEMMA WorkerDropsInv ==
    ASSUME SessionInv, NEW s \in Sids, WorkerDrops(s)
    PROVE  SessionInv'
<1> USE SessionsAssumption DEF SessionInv, WorkerDrops, At, Drop, End, history
<1>1. SessionTyped'
  BY DEF SessionTyped, Places
<1>2. ThreadInv'
  BY DEF SessionTyped, ThreadInv, Keyed, There, Shaking
<1>3. RaceInv'
  BY DEF SessionTyped, ThreadInv, RaceInv, Shaking
<1>4. ClaimInv'
  BY DEF SessionTyped, ThreadInv, RaceInv, ClaimInv, There, Keyed, Leaving, Shaking
<1>5. HolderInv'
  BY DEF SessionTyped, ThreadInv, HolderInv, There, Keyed, Leaving, Shaking
<1> QED
  BY <1>1, <1>2, <1>3, <1>4, <1>5

(* A disconnect that finds a handshake on its way overtakes it. *)
LEMMA DisconnectReleasesInv ==
    ASSUME SessionInv, NEW s \in Sids, DisconnectReleases(s)
    PROVE  SessionInv'
<1> USE SessionsAssumption DEF SessionInv, DisconnectReleases, Release, Shaking, history
<1>1. SessionTyped'
  BY DEF SessionTyped, Places
<1>2. ThreadInv'
  BY DEF SessionTyped, ThreadInv, Keyed, There, Shaking
<1>3. RaceInv'
  BY DEF SessionTyped, ThreadInv, RaceInv, Shaking
<1>4. ClaimInv'
  BY DEF SessionTyped, ThreadInv, RaceInv, ClaimInv, There, Keyed, Leaving, Shaking
<1>5. HolderInv'
  BY DEF SessionTyped, ThreadInv, HolderInv, There, Keyed, Leaving, Shaking
<1> QED
  BY <1>1, <1>2, <1>3, <1>4, <1>5

(* After it the connection has no key and no handshake pending. *)
LEMMA DisconnectDropsInv ==
    ASSUME SessionInv, NEW s \in Sids, DisconnectDrops(s)
    PROVE  SessionInv'
<1> USE SessionsAssumption DEF SessionInv, DisconnectDrops, Drop, history
<1>1. SessionTyped'
  BY DEF SessionTyped, Places
<1>2. ThreadInv'
  BY DEF SessionTyped, ThreadInv, Keyed, There, Shaking
<1>3. RaceInv'
  BY DEF SessionTyped, ThreadInv, RaceInv, Shaking
<1>4. ClaimInv'
  BY DEF SessionTyped, ThreadInv, RaceInv, ClaimInv, There, Keyed, Leaving, Shaking
<1>5. HolderInv'
  BY DEF SessionTyped, ThreadInv, HolderInv, There, Keyed, Leaving, Shaking
<1> QED
  BY <1>1, <1>2, <1>3, <1>4, <1>5

-----------------------------------------------------------------------------
(* Every step. *)
LEMMA SessionsStep ==
    ASSUME SessionInv, [Next]_vars
    PROVE  SessionInv'
<1>1. CASE Next
  <2>1. PICK s \in Sids :
           \/ Connect(s) \/ Close(s)
           \/ \E r \in Roles \union {"unknown"} : Hello(s, r)
           \/ \E d \in Devices, verified \in BOOLEAN :
                 Encapsulation(s, d, verified)
           \/ ReadHolder(s) \/ WriteHolder(s) \/ PopPending(s)
           \/ FailDecapsulate(s) \/ StoreKey(s)
           \/ WorkerReleases(s) \/ WorkerDrops(s)
           \/ DisconnectReleases(s) \/ DisconnectDrops(s)
    BY <1>1 DEF Next
  <2> QED
    BY <2>1, ConnectInv, CloseInv, HelloInv, EncapsulationInv, ReadHolderInv,
       WriteHolderInv, PopPendingInv, FailDecapsulateInv, StoreKeyInv,
       WorkerReleasesInv, WorkerDropsInv, DisconnectReleasesInv,
       DisconnectDropsInv
<1>2. CASE UNCHANGED vars
  <2> USE <1>2 DEF SessionInv, vars, history
  <2>1. SessionTyped'
    BY DEF SessionTyped
  <2>2. ThreadInv'
    BY DEF ThreadInv, Keyed, There
  <2>3. RaceInv'
    BY DEF RaceInv
  <2>4. ClaimInv'
    BY DEF ClaimInv, Keyed, There, Leaving
  <2>5. HolderInv'
    BY DEF HolderInv, Keyed, There, Leaving
  <2> QED
    BY <2>1, <2>2, <2>3, <2>4, <2>5
<1> QED
  BY <1>1, <1>2

(* However the handlers and disconnects of any number of connections
   interleave: a connection that did not race holds the identity it is keyed
   for, and what one that was not overtaken holds it uses. *)
THEOREM SessionsInvariant == Spec => []SessionInv
<1>1. Init => SessionInv
  BY SessionsStart
<1>2. SessionInv /\ [Next]_vars => SessionInv'
  BY SessionsStep
<1> QED
  BY <1>1, <1>2, PTL DEF Spec

(* No two live connections are keyed for one device, over any interleaving of
   their handshakes, unless they found it free at once: each would hold it. *)
THEOREM OneLiveSessionHolds == Spec => []OneLiveSession
<1>1. SessionInv => OneLiveSession
  <2> SUFFICES ASSUME SessionInv, NEW d \in Devices,
                      NEW s \in Holders(d) \ raced, NEW t \in Holders(d) \ raced
               PROVE  s = t
    BY DEF OneLiveSession
  <2>1. ASSUME NEW u \in Holders(d) \ raced PROVE active_devices[d] = u
    BY DEF Holders, SessionInv, ClaimInv, There
  <2> QED
    BY <2>1
<1> QED
  BY <1>1, SessionsInvariant, PTL

(* An identity that is held when no handler runs is held by a connection that
   is there and has a key, so that a node that drops can come back; or by one
   whose disconnect was handled while its handshake was. *)
THEOREM LockoutNeedsARaceHolds == Spec => []LockoutNeedsARace
<1>1. SessionInv => LockoutNeedsARace
  <2> SUFFICES ASSUME SessionInv, Quiet, NEW d \in Devices,
                      active_devices[d] \notin overtaken,
                      active_devices[d] # NoOne
               PROVE  /\ link[active_devices[d]] \in {"open", "closing"}
                      /\ Keyed(active_devices[d])
    BY DEF LockoutNeedsARace, HeldInUse
  <2>1. active_devices[d] \in Sids
    BY DEF SessionInv, SessionTyped
  <2>2. worker[active_devices[d]] = "idle"
    BY <2>1 DEF Quiet
  <2> QED
    BY <2>1, <2>2 DEF SessionInv, HolderInv, There
<1> QED
  BY <1>1, SessionsInvariant, PTL

(* A key that is left when no handler runs belongs to a connection that is
   there, or to one whose disconnect was handled while its handshake was. *)
THEOREM NoGhostKeysHolds == Spec => []NoGhostKeys
<1>1. SessionInv => NoGhostKeys
  BY DEF SessionInv, HolderInv, NoGhostKeys, Quiet, There
<1> QED
  BY <1>1, SessionsInvariant, PTL

-----------------------------------------------------------------------------
(* The pre-shared key. *)

(* One process writes, to a file that is empty until it has; whoever is up
   holds what was written. *)
PskInv ==
    /\ \A p \in Processes : loading[p] = "write" => pskFile = "empty"
    /\ \A p, q \in Processes :
          loading[p] = "write" /\ loading[q] = "write" => p = q
    /\ \A p \in Processes :
          loading[p] = "up" => pskFile = "whole" /\ own[p] = psk

PskTyped ==
    /\ loading \in [Processes -> {"off", "create", "read", "write", "up"}]
    /\ own \in [Processes -> Nat]
    /\ starts \in Nat /\ psk \in Nat

LEMMA PskStep ==
    ASSUME PskTyped, PskInv, [PskNext]_pskVars
    PROVE  PskTyped' /\ PskInv'
<1> USE DEF PskTyped, PskInv, Goes
<1>1. ASSUME NEW p \in Processes, StartLoading(p) PROVE PskTyped' /\ PskInv'
  BY <1>1 DEF StartLoading
<1>2. ASSUME NEW p \in Processes, CreateFile(p) PROVE PskTyped' /\ PskInv'
  BY <1>2 DEF CreateFile, FirstWriter, NoPsk
<1>3. ASSUME NEW p \in Processes, WriteFile(p) PROVE PskTyped' /\ PskInv'
  BY <1>3 DEF WriteFile
<1>4. ASSUME NEW p \in Processes, ReadFile(p) PROVE PskTyped' /\ PskInv'
  BY <1>4 DEF ReadFile
<1>5. ASSUME NEW p \in Processes, EndProcess(p) PROVE PskTyped' /\ PskInv'
  BY <1>5 DEF EndProcess, NoPsk
<1>6. CASE UNCHANGED pskVars
  BY <1>6 DEF pskVars
<1> QED BY <1>1, <1>2, <1>3, <1>4, <1>5, <1>6 DEF PskNext

(* Processes that are up hold one pre-shared key (config.py:42-43), for any
   number of them, started and ended in any order. *)
THEOREM OnePskHolds == PskSpec => []OnePsk
<1>1. PskInit => PskTyped /\ PskInv
  BY DEF PskInit, PskTyped, PskInv, NoPsk
<1>2. PskTyped /\ PskInv /\ [PskNext]_pskVars => PskTyped' /\ PskInv'
  BY PskStep
<1>3. PskInv => OnePsk
  BY DEF PskInv, OnePsk
<1> QED BY <1>1, <1>2, <1>3, PTL DEF PskSpec

-----------------------------------------------------------------------------
(* Enrolment.  What is left of a command tells how far it has come. *)

Ages == {"none", "old", "current"}

FileAges == Ages \union {"empty"}

Nothing     == <<>>
Loads       == <<"load">>
Dies        == <<"died">>
SavesAll    == <<"registry", "pub", "keys">>
SavesMore   == <<"registry", "keys">>
HandsOutAll == <<"pub", "keys">>
HandsOut    == <<"keys">>
MovesSecret == <<"destroy", "create", "empty", "registry">>
Moving      == <<"create", "empty", "registry">>
CopiesIn    == <<"destroy", "create">>
Copying     == <<"create">>
Scrubs      == <<"empty", "registry">>
SavesScrub  == <<"registry">>

BeforeSave  == {Bootstrap, SavesAll, EnrolMissing, SavesMore}
AfterSave   == {HandsOutAll, HandsOut}
BeforeScrub == {MovesSecret, CopiesIn, Moving, Copying}
Scrubbing   == {Scrubs, SavesScrub}

Todos == BeforeSave \union AfterSave \union BeforeScrub \union Scrubbing
             \union {Nothing, Loads, Dies}

ProvisionTyped ==
    /\ registry \in [is : {"absent", "empty", "whole"}, secret : Ages,
                     devices : SUBSET Identities]
    /\ pub \in FileAges
    /\ keyfile \in [Identities -> FileAges]
    /\ token \in Ages
    /\ held \in [Identities -> [key : FileAges, pub : FileAges]]
    /\ tool \in [cmd : {"none", "enroll", "force", "import", "scrub"},
                 hsm : BOOLEAN, wanted : SUBSET Identities, todo : Todos,
                 anew : BOOLEAN, secret : Ages, devices : SUBSET Identities,
                 left : SUBSET Identities, carried : Ages]
    /\ interrupted \in BOOLEAN /\ mixed \in BOOLEAN

(* What a command carries while it runs. *)
ToolInv ==
    /\ tool.todo = Loads => tool.cmd # "none"
    /\ tool.todo \in BeforeSave =>
          /\ tool.cmd \in {"enroll", "force"}
          /\ tool.devices = registry.devices \union tool.left
          /\ tool.cmd = "enroll" => tool.left \cap registry.devices = {}
          /\ tool.anew => tool.left = tool.wanted /\ tool.secret = "current"
    /\ tool.todo \in {Bootstrap, SavesAll} => tool.anew
    /\ tool.todo \in {EnrolMissing, SavesMore} => ~tool.anew
    /\ tool.todo \in AfterSave =>
          /\ tool.cmd \in {"enroll", "force"}
          /\ tool.devices = registry.devices
          /\ tool.left \subseteq registry.devices
    /\ tool.todo \in BeforeScrub \union {EnrolMissing, Scrubs} => registry.is = "whole"
    /\ tool.todo \in BeforeScrub \union Scrubbing =>
          /\ tool.cmd \in {"import", "scrub"}
          /\ ~tool.anew
          /\ tool.left = {}
          /\ tool.devices = registry.devices
          /\ tool.carried = registry.secret
          /\ tool.carried # "none"
          /\ tool.secret = "none"

(* A key in the field is the one of the file, and of the registry. *)
FieldInv ==
    /\ \A d \in Identities : held[d].key = "current" => keyfile[d] = "current"
    /\ \A d \in Identities : keyfile[d] = "current" => d \in registry.devices
    /\ registry.is = "absent" => registry.devices = {}
    /\ tool.todo \in AfterSave => \A d \in tool.left : keyfile[d] # "current"

(* The registry is there, or is about to be written again. *)
Lasting ==
    \/ registry.is = "whole"
    \/ tool.todo \in {SavesMore, SavesScrub}

FilesInv ==
    /\ ~interrupted => \A d \in registry.devices :
          keyfile[d] = "current" \/ (tool.todo \in AfterSave /\ d \in tool.left)
    /\ ~interrupted /\ Lasting /\ tool.todo # HandsOutAll => pub = "current"
    /\ tool.anew /\ tool.todo \in AfterSave =>
          \A d \in tool.wanted \ tool.left : keyfile[d] = "current"
    /\ tool.anew /\ tool.todo = HandsOut => pub = "current"

ServerInv ==
    ~mixed =>
       /\ Lasting => /\ registry.secret \in {"current", "none"}
                     /\ registry.secret = "current" \/ token = "current"
       /\ tool.todo \in BeforeSave /\ ~tool.anew =>
             tool.secret \in {"current", registry.secret}
       /\ tool.todo \in Scrubbing => token = "current"

ProvisionInv == ProvisionTyped /\ ToolInv /\ FieldInv /\ FilesInv /\ ServerInv

-----------------------------------------------------------------------------
(* The commands as lists: length and first write tell them apart. *)

LEMMA TodoLists ==
    /\ Len(Nothing) = 0
    /\ Len(Loads) = 1 /\ Head(Loads) = "load"
    /\ Len(Dies) = 1 /\ Head(Dies) = "died" /\ Tail(Dies) = Nothing
    /\ Len(Bootstrap) = 4 /\ Head(Bootstrap) = "empty" /\ Tail(Bootstrap) = SavesAll
    /\ Len(EnrolMissing) = 3 /\ Head(EnrolMissing) = "empty" /\ Tail(EnrolMissing) = SavesMore
    /\ Len(SavesAll) = 3 /\ Head(SavesAll) = "registry" /\ Tail(SavesAll) = HandsOutAll
    /\ Len(SavesMore) = 2 /\ Head(SavesMore) = "registry" /\ Tail(SavesMore) = HandsOut
    /\ Len(HandsOutAll) = 2 /\ Head(HandsOutAll) = "pub" /\ Tail(HandsOutAll) = HandsOut
    /\ Len(HandsOut) = 1 /\ Head(HandsOut) = "keys" /\ Tail(HandsOut) = Nothing
    /\ Len(MovesSecret) = 4 /\ Head(MovesSecret) = "destroy" /\ Tail(MovesSecret) = Moving
    /\ Len(Moving) = 3 /\ Head(Moving) = "create" /\ Tail(Moving) = Scrubs
    /\ Len(CopiesIn) = 2 /\ Head(CopiesIn) = "destroy" /\ Tail(CopiesIn) = Copying
    /\ Len(Copying) = 1 /\ Head(Copying) = "create" /\ Tail(Copying) = Nothing
    /\ Len(Scrubs) = 2 /\ Head(Scrubs) = "empty" /\ Tail(Scrubs) = SavesScrub
    /\ Len(SavesScrub) = 1 /\ Head(SavesScrub) = "registry" /\ Tail(SavesScrub) = Nothing
<1>1. /\ Len(Nothing) = 0
      /\ Len(Loads) = 1 /\ Head(Loads) = "load"
      /\ Len(Dies) = 1 /\ Head(Dies) = "died"
      /\ Tail(Dies) = Nothing
  BY DEF Nothing, Loads, Dies
<1>2. /\ Len(Bootstrap) = 4 /\ Head(Bootstrap) = "empty" /\ Tail(Bootstrap) = SavesAll
      /\ Len(EnrolMissing) = 3 /\ Head(EnrolMissing) = "empty" /\ Tail(EnrolMissing) = SavesMore
  BY DEF Bootstrap, EnrolMissing, SavesAll, SavesMore
<1>3. /\ Len(SavesAll) = 3 /\ Head(SavesAll) = "registry" /\ Tail(SavesAll) = HandsOutAll
      /\ Len(SavesMore) = 2 /\ Head(SavesMore) = "registry" /\ Tail(SavesMore) = HandsOut
  BY DEF SavesAll, SavesMore, HandsOutAll, HandsOut
<1>4. /\ Len(HandsOutAll) = 2 /\ Head(HandsOutAll) = "pub" /\ Tail(HandsOutAll) = HandsOut
      /\ Len(HandsOut) = 1 /\ Head(HandsOut) = "keys" /\ Tail(HandsOut) = Nothing
  BY DEF HandsOut, HandsOutAll, Nothing
<1>5. /\ Len(MovesSecret) = 4 /\ Head(MovesSecret) = "destroy" /\ Tail(MovesSecret) = Moving
      /\ Len(Moving) = 3 /\ Head(Moving) = "create" /\ Tail(Moving) = Scrubs
  BY DEF MovesSecret, Moving, Scrubs
<1>6. /\ Len(CopiesIn) = 2 /\ Head(CopiesIn) = "destroy" /\ Tail(CopiesIn) = Copying
      /\ Len(Copying) = 1 /\ Head(Copying) = "create" /\ Tail(Copying) = Nothing
  BY DEF CopiesIn, Copying, Nothing
<1>7. /\ Len(Scrubs) = 2 /\ Head(Scrubs) = "empty" /\ Tail(Scrubs) = SavesScrub
      /\ Len(SavesScrub) = 1 /\ Head(SavesScrub) = "registry" /\ Tail(SavesScrub) = Nothing
  BY DEF Scrubs, SavesScrub, Nothing
<1> QED BY <1>1, <1>2, <1>3, <1>4, <1>5, <1>6, <1>7

LEMMA ImportLists == Import(TRUE) = MovesSecret /\ Import(FALSE) = CopiesIn
  BY DEF Import, MovesSecret, CopiesIn

Rest == {Nothing, Loads, Dies}

(* What is left tells the kinds apart: by its length, or by its first write. *)
LEMMA OtherLengths ==
    /\ \A t \in {Bootstrap, EnrolMissing, SavesAll, SavesMore} : t \notin {Nothing, HandsOut}
    /\ Bootstrap # Scrubs /\ EnrolMissing # Scrubs
    /\ SavesAll # SavesScrub /\ SavesMore # SavesScrub
<1>1. Bootstrap # Nothing /\ Bootstrap # HandsOut /\ Bootstrap # Scrubs
  BY TodoLists
<1>2. EnrolMissing # Nothing /\ EnrolMissing # HandsOut /\ EnrolMissing # Scrubs
  BY TodoLists
<1>3. SavesAll # Nothing /\ SavesAll # HandsOut /\ SavesAll # SavesScrub
  BY TodoLists
<1>4. SavesMore # Nothing /\ SavesMore # HandsOut /\ SavesMore # SavesScrub
  BY TodoLists
<1> QED BY <1>1, <1>2, <1>3, <1>4

LEMMA OtherHeads ==
    /\ Head(Loads) = "load" /\ Head(Dies) = "died"
    /\ Head(Bootstrap) = "empty" /\ Head(EnrolMissing) = "empty"
    /\ Head(SavesAll) = "registry" /\ Head(SavesMore) = "registry"
    /\ Head(HandsOutAll) = "pub" /\ Head(HandsOut) = "keys"
    /\ Head(MovesSecret) = "destroy" /\ Head(CopiesIn) = "destroy"
    /\ Head(Moving) = "create" /\ Head(Copying) = "create"
    /\ Head(Scrubs) = "empty" /\ Head(SavesScrub) = "registry"
  BY TodoLists

LEMMA Apart ==
    /\ \A t \in BeforeSave  : t \notin AfterSave \union BeforeScrub \union Scrubbing \union Rest
    /\ \A t \in AfterSave   : t \notin BeforeScrub \union Scrubbing \union Rest
    /\ \A t \in BeforeScrub : t \notin Scrubbing \union Rest
    /\ \A t \in Scrubbing   : t \notin Rest
    /\ Loads \notin {Nothing, Dies} /\ HandsOut # HandsOutAll /\ Scrubs # SavesScrub
    /\ Bootstrap \notin {EnrolMissing, SavesAll, SavesMore}
    /\ SavesAll \notin {EnrolMissing, SavesMore} /\ SavesMore # EnrolMissing
<1>1. \A t \in BeforeSave : t \notin AfterSave \union BeforeScrub \union Scrubbing \union Rest
  <2>1. Bootstrap \notin AfterSave \union BeforeScrub \union Scrubbing \union Rest
    BY OtherLengths, OtherHeads, SMTT(30) DEF AfterSave, BeforeScrub, Scrubbing, Rest
  <2>2. EnrolMissing \notin AfterSave \union BeforeScrub \union Scrubbing \union Rest
    BY OtherLengths, OtherHeads, SMTT(30) DEF AfterSave, BeforeScrub, Scrubbing, Rest
  <2>3. SavesAll \notin AfterSave \union BeforeScrub \union Scrubbing \union Rest
    BY OtherLengths, OtherHeads, SMTT(30) DEF AfterSave, BeforeScrub, Scrubbing, Rest
  <2>4. SavesMore \notin AfterSave \union BeforeScrub \union Scrubbing \union Rest
    BY OtherLengths, OtherHeads, SMTT(30) DEF AfterSave, BeforeScrub, Scrubbing, Rest
  <2> QED BY <2>1, <2>2, <2>3, <2>4 DEF BeforeSave
<1>2. \A t \in AfterSave : t \notin BeforeScrub \union Scrubbing \union Rest
  BY TodoLists, SMTT(30) DEF AfterSave, BeforeScrub, Scrubbing, Rest
<1>3. \A t \in BeforeScrub : t \notin Scrubbing \union Rest
  BY TodoLists, SMTT(30) DEF BeforeScrub, Scrubbing, Rest
<1>4. \A t \in Scrubbing : t \notin Rest
  BY TodoLists, SMTT(30) DEF Scrubbing, Rest
<1>5. /\ Loads \notin {Nothing, Dies} /\ HandsOut # HandsOutAll /\ Scrubs # SavesScrub
      /\ Bootstrap \notin {EnrolMissing, SavesAll, SavesMore}
      /\ SavesAll \notin {EnrolMissing, SavesMore} /\ SavesMore # EnrolMissing
  BY TodoLists, SMTT(30)
<1> QED BY <1>1, <1>2, <1>3, <1>4, <1>5

LEMMA NextTodo ==
    ASSUME NEW t \in Todos, t # Nothing
    PROVE  /\ Head(t) = "empty" =>
                 \/ t = Bootstrap /\ Tail(t) = SavesAll
                 \/ t = EnrolMissing /\ Tail(t) = SavesMore
                 \/ t = Scrubs /\ Tail(t) = SavesScrub
           /\ Head(t) = "registry" =>
                 \/ t = SavesAll /\ Tail(t) = HandsOutAll
                 \/ t = SavesMore /\ Tail(t) = HandsOut
                 \/ t = SavesScrub /\ Tail(t) = Nothing
           /\ Head(t) = "pub" => t = HandsOutAll /\ Tail(t) = HandsOut
           /\ Head(t) = "keys" => t = HandsOut /\ Tail(t) = Nothing
           /\ Head(t) = "destroy" => t \in BeforeScrub /\ Tail(t) \in BeforeScrub
           /\ Head(t) = "create" =>
                 t \in BeforeScrub /\ Tail(t) \in {Scrubs, Nothing}
           /\ Head(t) = "load" => t = Loads
           /\ Head(t) = "died" => t = Dies /\ Tail(t) = Nothing
  BY TodoLists, SMTT(60) DEF Todos, BeforeSave, AfterSave, BeforeScrub, Scrubbing

LEMMA Kinds ==
    /\ {Bootstrap, SavesAll, EnrolMissing, SavesMore} = BeforeSave
    /\ {HandsOutAll, HandsOut} = AfterSave
    /\ {Scrubs, SavesScrub} = Scrubbing
    /\ {Nothing, Loads, Dies} = Rest
    /\ Todos = BeforeSave \union AfterSave \union BeforeScrub \union Scrubbing \union Rest
  BY DEF Todos, BeforeSave, AfterSave, Scrubbing, Rest

-----------------------------------------------------------------------------
(* Every step keeps the invariant. *)

(* A write goes to the next and changes nothing else of the command. *)
LEMMA WrittenFields ==
    ASSUME ProvisionTyped, ~ToolIdle, tool' = Written
    PROVE  /\ tool.todo \in Todos /\ tool.todo # Nothing
           /\ tool'.todo = Tail(tool.todo)
           /\ tool'.cmd = tool.cmd /\ tool'.wanted = tool.wanted
           /\ tool'.anew = tool.anew /\ tool'.secret = tool.secret
           /\ tool'.devices = tool.devices /\ tool'.left = tool.left
           /\ tool'.carried = tool.carried
           /\ tool'.todo \in Todos => tool' \in [
                 cmd : {"none", "enroll", "force", "import", "scrub"},
                 hsm : BOOLEAN, wanted : SUBSET Identities, todo : Todos,
                 anew : BOOLEAN, secret : Ages, devices : SUBSET Identities,
                 left : SUBSET Identities, carried : Ages]
  BY DEF ProvisionTyped, ToolIdle, Written, Nothing

LEMMA ExitKeeps ==
    ASSUME ProvisionInv, Exit PROVE ProvisionInv'
<1>1. ProvisionTyped /\ ToolInv /\ FieldInv /\ FilesInv /\ ServerInv
  BY DEF ProvisionInv
<1>2. tool.todo = Dies /\ tool'.todo = Nothing
  <2>1. ProvisionTyped /\ ~ToolIdle /\ tool' = Written /\ Head(tool.todo) = "died"
    BY DEF ProvisionInv, Exit, NextWrite
  <2> QED BY <2>1, WrittenFields, NextTodo
<1>3. tool.todo \in Rest /\ tool'.todo \in Rest
  BY <1>2, Kinds, Apart
<1>4. /\ tool'.cmd = tool.cmd /\ tool'.wanted = tool.wanted /\ tool'.anew = tool.anew
      /\ tool'.secret = tool.secret /\ tool'.devices = tool.devices
      /\ tool'.left = tool.left /\ tool'.carried = tool.carried
  BY <1>1, WrittenFields DEF Exit, NextWrite
<1>5. ProvisionTyped'
  <2>1. tool'.todo \in Todos
    BY <1>2, <1>3, Kinds
  <2> QED BY <1>1, <2>1, WrittenFields DEF ProvisionTyped, Ages, FileAges, Exit, NextWrite, files
<1>6. ToolInv'
  BY <1>1, <1>2, <1>3, <1>4, Apart, Kinds DEF ToolInv, ProvisionTyped, Exit, files
<1>7. FieldInv'
  BY <1>1, <1>2, <1>3, <1>4, Apart DEF FieldInv, ToolInv, ProvisionTyped, Exit, files
<1>8. FilesInv'
  BY <1>1, <1>2, <1>3, <1>4, Apart, Kinds DEF FilesInv, Lasting, ToolInv, FieldInv, ProvisionTyped, Exit, files
<1>9. ServerInv'
  BY <1>1, <1>2, <1>3, <1>4, Apart, Kinds DEF ServerInv, Lasting, ToolInv, ProvisionTyped, Exit, files
<1> QED BY <1>5, <1>6, <1>7, <1>8, <1>9 DEF ProvisionInv

LEMMA PubKeeps ==
    ASSUME ProvisionInv, WritePub PROVE ProvisionInv'
<1>1. ProvisionTyped /\ ToolInv /\ FieldInv /\ FilesInv /\ ServerInv
  BY DEF ProvisionInv
<1>2. tool.todo = HandsOutAll /\ tool'.todo = HandsOut
  <2>1. ProvisionTyped /\ ~ToolIdle /\ tool' = Written /\ Head(tool.todo) = "pub"
    BY DEF ProvisionInv, WritePub, NextWrite
  <2> QED BY <2>1, WrittenFields, NextTodo
<1>3. tool.todo \in AfterSave /\ tool'.todo \in AfterSave
  BY <1>2, Kinds, Apart
<1>4. /\ tool'.cmd = tool.cmd /\ tool'.wanted = tool.wanted /\ tool'.anew = tool.anew
      /\ tool'.secret = tool.secret /\ tool'.devices = tool.devices
      /\ tool'.left = tool.left /\ tool'.carried = tool.carried
  BY <1>1, WrittenFields DEF WritePub, NextWrite
<1>5. ProvisionTyped'
  <2>1. tool'.todo \in Todos
    BY <1>2, <1>3, Kinds
  <2> QED BY <1>1, <2>1, WrittenFields DEF ProvisionTyped, Ages, FileAges, WritePub, NextWrite
<1>6. ToolInv'
  BY <1>1, <1>2, <1>3, <1>4, Apart, Kinds DEF ToolInv, ProvisionTyped, WritePub
<1>7. FieldInv'
  BY <1>1, <1>2, <1>3, <1>4, Apart DEF FieldInv, ToolInv, ProvisionTyped, WritePub
<1>8. FilesInv'
  BY <1>1, <1>2, <1>3, <1>4, Apart, Kinds DEF FilesInv, Lasting, ToolInv, FieldInv, ProvisionTyped, WritePub
<1>9. ServerInv'
  BY <1>1, <1>2, <1>3, <1>4, Apart, Kinds DEF ServerInv, Lasting, ToolInv, ProvisionTyped, WritePub
<1> QED BY <1>5, <1>6, <1>7, <1>8, <1>9 DEF ProvisionInv

LEMMA DestroyKeeps ==
    ASSUME ProvisionInv, DestroySecret PROVE ProvisionInv'
<1>1. ProvisionTyped /\ ToolInv /\ FieldInv /\ FilesInv /\ ServerInv
  BY DEF ProvisionInv
<1>2. tool.todo \in BeforeScrub /\ tool'.todo \in BeforeScrub
  <2>1. ProvisionTyped /\ ~ToolIdle /\ tool' = Written /\ Head(tool.todo) = "destroy"
    BY DEF ProvisionInv, DestroySecret, NextWrite
  <2> QED BY <2>1, WrittenFields, NextTodo
<1>3. tool'.todo \notin BeforeSave \union AfterSave \union Scrubbing /\ tool.todo \notin BeforeSave \union AfterSave \union Scrubbing
  BY <1>2, Kinds, Apart
<1>4. /\ tool'.cmd = tool.cmd /\ tool'.wanted = tool.wanted /\ tool'.anew = tool.anew
      /\ tool'.secret = tool.secret /\ tool'.devices = tool.devices
      /\ tool'.left = tool.left /\ tool'.carried = tool.carried
  BY <1>1, WrittenFields DEF DestroySecret, NextWrite
<1>5. ProvisionTyped'
  <2>1. tool'.todo \in Todos
    BY <1>2, <1>3, Kinds
  <2> QED BY <1>1, <2>1, WrittenFields DEF ProvisionTyped, Ages, FileAges, DestroySecret, NextWrite
<1>6. ToolInv'
  BY <1>1, <1>2, <1>3, <1>4, Apart, Kinds DEF ToolInv, ProvisionTyped, DestroySecret
<1>7. FieldInv'
  BY <1>1, <1>2, <1>3, <1>4, Apart DEF FieldInv, ToolInv, ProvisionTyped, DestroySecret
<1>8. FilesInv'
  BY <1>1, <1>2, <1>3, <1>4, Apart, Kinds DEF FilesInv, Lasting, ToolInv, FieldInv, ProvisionTyped, DestroySecret
<1>9. ServerInv'
  BY <1>1, <1>2, <1>3, <1>4, Apart, Kinds DEF ServerInv, Lasting, ToolInv, ProvisionTyped, DestroySecret
<1> QED BY <1>5, <1>6, <1>7, <1>8, <1>9 DEF ProvisionInv

LEMMA CreateKeeps ==
    ASSUME ProvisionInv, CreateSecret PROVE ProvisionInv'
<1>1. ProvisionTyped /\ ToolInv /\ FieldInv /\ FilesInv /\ ServerInv
  BY DEF ProvisionInv
<1>2. tool.todo \in BeforeScrub /\ tool'.todo \in {Scrubs, Nothing}
  <2>1. ProvisionTyped /\ ~ToolIdle /\ tool' = Written /\ Head(tool.todo) = "create"
    BY DEF ProvisionInv, CreateSecret, NextWrite
  <2> QED BY <2>1, WrittenFields, NextTodo
<1>3. tool.todo \notin BeforeSave \union AfterSave \union Scrubbing /\ tool'.todo \in Scrubbing \union Rest
  BY <1>2, Kinds, Apart
<1>4. /\ tool'.cmd = tool.cmd /\ tool'.wanted = tool.wanted /\ tool'.anew = tool.anew
      /\ tool'.secret = tool.secret /\ tool'.devices = tool.devices
      /\ tool'.left = tool.left /\ tool'.carried = tool.carried
  BY <1>1, WrittenFields DEF CreateSecret, NextWrite
<1>5. ProvisionTyped'
  <2>1. tool'.todo \in Todos
    BY <1>2, <1>3, Kinds
  <2> QED BY <1>1, <2>1, WrittenFields DEF ProvisionTyped, Ages, FileAges, CreateSecret, NextWrite
<1>6. ToolInv'
  BY <1>1, <1>2, <1>3, <1>4, Apart, Kinds DEF ToolInv, ProvisionTyped, CreateSecret
<1>7. FieldInv'
  BY <1>1, <1>2, <1>3, <1>4, Apart DEF FieldInv, ToolInv, ProvisionTyped, CreateSecret
<1>8. FilesInv'
  BY <1>1, <1>2, <1>3, <1>4, Apart, Kinds DEF FilesInv, Lasting, ToolInv, FieldInv, ProvisionTyped, CreateSecret
<1>9. ServerInv'
  BY <1>1, <1>2, <1>3, <1>4, Apart, Kinds DEF ServerInv, Lasting, ToolInv, ProvisionTyped, CreateSecret
<1> QED BY <1>5, <1>6, <1>7, <1>8, <1>9 DEF ProvisionInv

LEMMA EmptyKeeps ==
    ASSUME ProvisionInv, EmptyRegistry PROVE ProvisionInv'
<1>1. ProvisionTyped /\ ToolInv /\ FieldInv /\ FilesInv /\ ServerInv
  BY DEF ProvisionInv
<1>2. \/ tool.todo = Bootstrap /\ tool'.todo = SavesAll
      \/ tool.todo = EnrolMissing /\ tool'.todo = SavesMore
      \/ tool.todo = Scrubs /\ tool'.todo = SavesScrub
  <2>1. ProvisionTyped /\ ~ToolIdle /\ tool' = Written /\ Head(tool.todo) = "empty"
    BY DEF ProvisionInv, EmptyRegistry, NextWrite
  <2> QED BY <2>1, WrittenFields, NextTodo
<1>3. \/ tool.todo \in BeforeSave /\ tool'.todo \in BeforeSave
      \/ tool.todo \in Scrubbing /\ tool'.todo \in Scrubbing
  BY <1>2, Kinds, Apart
<1>4. /\ tool'.cmd = tool.cmd /\ tool'.wanted = tool.wanted /\ tool'.anew = tool.anew
      /\ tool'.secret = tool.secret /\ tool'.devices = tool.devices
      /\ tool'.left = tool.left /\ tool'.carried = tool.carried
  BY <1>1, WrittenFields DEF EmptyRegistry, NextWrite
<1>5. ProvisionTyped'
  <2>1. tool'.todo \in Todos
    BY <1>2, <1>3, Kinds
  <2> QED BY <1>1, <2>1, WrittenFields DEF ProvisionTyped, Ages, FileAges, EmptyRegistry, NextWrite
<1>6. ToolInv'
  BY <1>1, <1>2, <1>3, <1>4, Apart, Kinds DEF ToolInv, ProvisionTyped, EmptyRegistry
<1>7. FieldInv'
  BY <1>1, <1>2, <1>3, <1>4, Apart DEF FieldInv, ToolInv, ProvisionTyped, EmptyRegistry
<1>8. FilesInv'
  BY <1>1, <1>2, <1>3, <1>4, Apart, Kinds DEF FilesInv, Lasting, ToolInv, FieldInv, ProvisionTyped, EmptyRegistry
<1>9. ServerInv'
  BY <1>1, <1>2, <1>3, <1>4, Apart, Kinds DEF ServerInv, Lasting, ToolInv, ProvisionTyped, EmptyRegistry
<1> QED BY <1>5, <1>6, <1>7, <1>8, <1>9 DEF ProvisionInv

LEMMA RegistryKeeps ==
    ASSUME ProvisionInv, WriteRegistry PROVE ProvisionInv'
<1>1. ProvisionTyped /\ ToolInv /\ FieldInv /\ FilesInv /\ ServerInv
  BY DEF ProvisionInv
<1>2. \/ tool.todo = SavesAll /\ tool'.todo = HandsOutAll
      \/ tool.todo = SavesMore /\ tool'.todo = HandsOut
      \/ tool.todo = SavesScrub /\ tool'.todo = Nothing
  <2>1. ProvisionTyped /\ ~ToolIdle /\ tool' = Written /\ Head(tool.todo) = "registry"
    BY DEF ProvisionInv, WriteRegistry, NextWrite
  <2> QED BY <2>1, WrittenFields, NextTodo
<1>3. \/ tool.todo \in BeforeSave /\ tool'.todo \in AfterSave
      \/ tool.todo \in Scrubbing /\ tool'.todo \in Rest
  BY <1>2, Kinds, Apart
<1>4. /\ tool'.cmd = tool.cmd /\ tool'.wanted = tool.wanted /\ tool'.anew = tool.anew
      /\ tool'.secret = tool.secret /\ tool'.devices = tool.devices
      /\ tool'.left = tool.left /\ tool'.carried = tool.carried
  BY <1>1, WrittenFields DEF WriteRegistry, NextWrite
<1>5. ProvisionTyped'
  <2>1. tool'.todo \in Todos
    BY <1>2, <1>3, Kinds
  <2> QED BY <1>1, <2>1, WrittenFields DEF ProvisionTyped, Ages, FileAges, WriteRegistry, NextWrite, Aged
<1>6. ToolInv'
  BY <1>1, <1>2, <1>3, <1>4, Apart, Kinds DEF ToolInv, ProvisionTyped, WriteRegistry, Aged
<1>7. FieldInv'
  BY <1>1, <1>2, <1>3, <1>4, Apart DEF FieldInv, ToolInv, ProvisionTyped, WriteRegistry, Aged
<1>8. FilesInv'
  BY <1>1, <1>2, <1>3, <1>4, Apart, Kinds DEF FilesInv, Lasting, ToolInv, FieldInv, ProvisionTyped, WriteRegistry, Aged
<1>9. ServerInv'
  BY <1>1, <1>2, <1>3, <1>4, Apart, Kinds DEF ServerInv, Lasting, ToolInv, ProvisionTyped, WriteRegistry, Aged
<1> QED BY <1>5, <1>6, <1>7, <1>8, <1>9 DEF ProvisionInv

LEMMA BeginKeeps ==
    ASSUME ProvisionInv, NEW cmd \in {"enroll", "force", "import", "scrub"},
           NEW hsm \in BOOLEAN, NEW wanted \in SUBSET Identities, Begin(cmd, hsm, wanted)
    PROVE  ProvisionInv'
<1>1. ProvisionTyped /\ ToolInv /\ FieldInv /\ FilesInv /\ ServerInv
  BY DEF ProvisionInv
<1>2. tool.todo = Nothing /\ tool'.todo = Loads
  BY DEF Begin, ToolIdle, NoTool, Nothing, Loads
<1>3. tool.todo \in Rest /\ tool'.todo \in Rest /\ tool'.todo \in Todos
  BY <1>2, Kinds
<1>4. /\ tool' = [cmd |-> cmd, hsm |-> hsm, wanted |-> wanted, todo |-> Loads,
                  anew |-> FALSE, secret |-> "none", devices |-> {}, left |-> {},
                  carried |-> "none"]
      /\ UNCHANGED <<registry, pub, keyfile, token, held, interrupted, mixed>>
  BY DEF Begin, NoTool, Loads, files
<1>5. ProvisionTyped'
  BY <1>1, <1>3, <1>4, Kinds DEF ProvisionTyped, Ages, FileAges
<1>6. ToolInv'
  BY <1>3, <1>4, Kinds, Apart DEF ToolInv
<1>7. FieldInv'
  BY <1>1, <1>3, <1>4, Apart DEF FieldInv
<1>8. FilesInv'
  BY <1>1, <1>2, <1>3, <1>4, Apart, Kinds DEF FilesInv, Lasting
<1>9. ServerInv'
  BY <1>1, <1>3, <1>4, Apart, Kinds DEF ServerInv, Lasting
<1> QED BY <1>5, <1>6, <1>7, <1>8, <1>9 DEF ProvisionInv

LEMMA EquipKeeps ==
    ASSUME ProvisionInv, NEW d \in Identities, Equip(d)
    PROVE  ProvisionInv'
<1>1. ProvisionTyped /\ ToolInv /\ FieldInv /\ FilesInv /\ ServerInv
  BY DEF ProvisionInv
<1>2. /\ UNCHANGED <<registry, pub, keyfile, token, tool, interrupted, mixed>>
      /\ held' = [held EXCEPT ![d] = [key |-> keyfile[d], pub |-> pub]]
  BY DEF Equip
<1>3. ProvisionTyped'
  BY <1>1, <1>2 DEF ProvisionTyped
<1>4. ToolInv' /\ FilesInv' /\ ServerInv'
  BY <1>1, <1>2 DEF ToolInv, FilesInv, ServerInv, Lasting
<1>5. FieldInv'
  BY <1>1, <1>2 DEF FieldInv, ProvisionTyped
<1> QED BY <1>3, <1>4, <1>5 DEF ProvisionInv

LEMMA KeyKeeps ==
    ASSUME ProvisionInv, NEW d \in Identities, WriteKey(d)
    PROVE  ProvisionInv'
<1>1. ProvisionTyped /\ ToolInv /\ FieldInv /\ FilesInv /\ ServerInv
  BY DEF ProvisionInv
<1>2. tool.todo = HandsOut /\ tool.todo \in AfterSave /\ Tail(tool.todo) = Nothing
  <2>1. tool.todo \in Todos /\ tool.todo # Nothing /\ Head(tool.todo) = "keys"
    BY <1>1 DEF WriteKey, NextWrite, ToolIdle, Nothing, ProvisionTyped
  <2> QED BY <2>1, NextTodo, Kinds
<1>3. /\ d \in tool.left
      /\ UNCHANGED <<registry, pub, token, held, mixed>>
      /\ keyfile' = [keyfile EXCEPT ![d] = "current"]
  BY DEF WriteKey
<1>4. \/ /\ tool.left = {d} /\ tool' = Written
         /\ interrupted' = (interrupted /\ ~(tool.anew /\ tool.devices \subseteq tool.wanted))
      \/ tool' = [tool EXCEPT !.left = @ \ {d}] /\ interrupted' = interrupted
  BY DEF WriteKey
<1>5. CASE /\ tool.left = {d} /\ tool' = Written
           /\ interrupted' = (interrupted /\ ~(tool.anew /\ tool.devices \subseteq tool.wanted))
  <2>1. ~ToolIdle
    BY DEF WriteKey, NextWrite
  <2>2. /\ tool'.todo = Nothing /\ tool'.todo \in Rest /\ tool'.todo \in Todos
    BY <1>1, <1>2, <1>5, <2>1, WrittenFields, Kinds
  <2>3. ProvisionTyped'
    BY <1>1, <1>3, <1>5, <2>1, <2>2, WrittenFields DEF ProvisionTyped, Ages, FileAges
  <2>4. ToolInv'
    BY <2>2, Kinds, Apart DEF ToolInv
  <2>5. FieldInv'
    BY <1>1, <1>2, <1>3, <2>2, Apart DEF FieldInv, ToolInv, ProvisionTyped
  <2>6. FilesInv'
    BY <1>1, <1>2, <1>3, <1>5, <2>2, Apart, Kinds DEF FilesInv, Lasting, ToolInv, ProvisionTyped
  <2>7. ServerInv'
    BY <1>1, <1>2, <1>3, <2>2, Apart, Kinds DEF ServerInv, Lasting
  <2> QED BY <2>3, <2>4, <2>5, <2>6, <2>7 DEF ProvisionInv
<1>6. CASE tool' = [tool EXCEPT !.left = @ \ {d}] /\ interrupted' = interrupted
  <2>1. /\ tool'.todo = tool.todo /\ tool'.cmd = tool.cmd /\ tool'.wanted = tool.wanted
        /\ tool'.anew = tool.anew /\ tool'.secret = tool.secret
        /\ tool'.devices = tool.devices /\ tool'.carried = tool.carried
        /\ tool'.left = tool.left \ {d}
    BY <1>1, <1>6 DEF ProvisionTyped
  <2>3. ProvisionTyped'
    BY <1>1, <1>3, <1>6 DEF ProvisionTyped, Ages, FileAges
  <2>4. ToolInv'
    BY <1>1, <1>2, <1>3, <2>1, Kinds, Apart DEF ToolInv
  <2>5. FieldInv'
    BY <1>1, <1>2, <1>3, <2>1, Apart DEF FieldInv, ToolInv, ProvisionTyped
  <2>6. FilesInv'
    BY <1>1, <1>2, <1>3, <1>6, <2>1, Apart, Kinds DEF FilesInv, Lasting, ToolInv, ProvisionTyped
  <2>7. ServerInv'
    BY <1>1, <1>2, <1>3, <2>1, Apart, Kinds DEF ServerInv, Lasting
  <2> QED BY <2>3, <2>4, <2>5, <2>6, <2>7 DEF ProvisionInv
<1> QED BY <1>4, <1>5, <1>6

LEMMA KillKeeps ==
    ASSUME ProvisionInv, Kill PROVE ProvisionInv'
<1>1. ProvisionTyped /\ ToolInv /\ FieldInv /\ FilesInv /\ ServerInv
  BY DEF ProvisionInv
<1>2. /\ tool' = [tool EXCEPT !.todo = <<>>]
      /\ interrupted' = (interrupted \/ tool.cmd \in {"enroll", "force"})
      /\ UNCHANGED <<registry, token, held, mixed>>
      /\ pub' = pub \/ (NextWrite("pub") /\ pub' = "empty")
      /\ \/ keyfile' = keyfile
         \/ NextWrite("keys") /\ \E d \in tool.left : keyfile' = [keyfile EXCEPT ![d] = "empty"]
  BY DEF Kill
<1>3. /\ tool'.todo = Nothing /\ tool'.cmd = tool.cmd
      /\ tool'.todo \in Rest /\ tool'.todo \in Todos
  BY <1>1, <1>2, Kinds DEF ProvisionTyped, Nothing
<1>4. /\ NextWrite("pub") => tool.todo = HandsOutAll
      /\ NextWrite("keys") => tool.todo = HandsOut
      /\ tool.todo # Nothing /\ tool.todo # Loads /\ tool.todo # Dies
  <2>1. tool.todo \in Todos /\ tool.todo # Nothing
    BY <1>1 DEF Kill, ToolIdle, Nothing, ProvisionTyped
  <2>2. tool.todo # Loads /\ tool.todo # Dies
    BY TodoLists DEF Kill
  <2> QED BY <2>1, <2>2, NextTodo DEF NextWrite
<1>5. tool.todo \in BeforeSave \union AfterSave => interrupted'
  BY <1>1, <1>2 DEF ToolInv
<1>6. tool.todo \in BeforeSave \union AfterSave \union BeforeScrub \union Scrubbing
  BY <1>1, <1>4, Kinds DEF ProvisionTyped
<1>7. ProvisionTyped'
  BY <1>1, <1>2, <1>3 DEF ProvisionTyped, FileAges
<1>8. ToolInv'
  BY <1>3, Kinds, Apart, TodoLists DEF ToolInv
<1>9. FieldInv'
  BY <1>1, <1>2, <1>3, <1>4, Kinds, Apart DEF FieldInv, ToolInv, ProvisionTyped
<1>10. FilesInv'
  BY <1>1, <1>2, <1>3, <1>4, <1>5, <1>6, Apart, Kinds DEF FilesInv, Lasting
<1>11. ServerInv'
  BY <1>1, <1>2, <1>3, <1>4, Apart, Kinds DEF ServerInv, Lasting
<1> QED BY <1>7, <1>8, <1>9, <1>10, <1>11 DEF ProvisionInv

LEMMA LoadKeeps ==
    ASSUME ProvisionInv, Load PROVE ProvisionInv'
<1> DEFINE imports == tool.cmd \in {"import", "scrub"}
           adds    == tool.cmd = "enroll" /\ registry.is = "whole"
           fails   == LoadFails(tool.hsm) \/ (imports /\ registry.is = "absent")
           proceed(writes, anew, secret, left) ==
               [tool EXCEPT !.todo = writes, !.anew = anew, !.secret = secret,
                            !.left = left, !.devices = registry.devices \union left,
                            !.carried = registry.secret]
<1>1. ProvisionTyped /\ ToolInv /\ FieldInv /\ FilesInv /\ ServerInv
  BY DEF ProvisionInv
<1>2. /\ tool' = CASE fails   -> [tool EXCEPT !.todo = <<"died">>]
                   [] ~fails /\ imports ->
                         proceed(IF registry.secret = "none" THEN <<>>
                                 ELSE Import(tool.cmd = "scrub"), FALSE, "none", {})
                   [] ~fails /\ adds ->
                         proceed(IF Missing = {} THEN <<>> ELSE EnrolMissing, FALSE,
                                 LoadedSecret(tool.hsm), Missing)
                   [] OTHER -> proceed(Bootstrap, TRUE, "current", tool.wanted)
      /\ mixed' = (mixed \/ (~fails /\ adds /\ Missing # {} /\ tool.hsm /\ token = "old"))
      /\ UNCHANGED <<registry, pub, keyfile, token, held, interrupted>>
  BY DEF Load, files
<1>3. tool.todo = Loads /\ tool.todo \in Rest
  <2>1. tool.todo \in Todos /\ tool.todo # Nothing /\ Head(tool.todo) = "load"
    BY <1>1 DEF Load, NextWrite, ToolIdle, Nothing, ProvisionTyped
  <2> QED BY <2>1, NextTodo, Kinds
<1>4. \/ fails /\ tool' = [tool EXCEPT !.todo = Dies]
      \/ ~fails /\ imports /\ registry.secret = "none" /\ tool' = proceed(Nothing, FALSE, "none", {})
      \/ /\ ~fails /\ imports /\ registry.secret # "none"
         /\ \E writes \in {MovesSecret, CopiesIn} : tool' = proceed(writes, FALSE, "none", {})
      \/ ~fails /\ adds /\ tool' = proceed(Nothing, FALSE, LoadedSecret(tool.hsm), Missing)
      \/ ~fails /\ adds /\ Missing # {}
            /\ tool' = proceed(EnrolMissing, FALSE, LoadedSecret(tool.hsm), Missing)
      \/ ~fails /\ ~imports /\ ~adds /\ tool' = proceed(Bootstrap, TRUE, "current", tool.wanted)
  <2> HIDE DEF fails, proceed
  <2>1. ~(imports /\ adds)
    OBVIOUS
  <2>2. Import(tool.cmd = "scrub") \in {MovesSecret, CopiesIn}
    BY ImportLists, tool.cmd = "scrub" \/ tool.cmd # "scrub"
  <2> QED BY <1>2, <2>1, <2>2 DEF Nothing, Dies
<1>5. ASSUME NEW writes \in Todos, NEW anew \in BOOLEAN, NEW secret \in Ages,
             NEW left \in SUBSET Identities, tool' = proceed(writes, anew, secret, left)
      PROVE  /\ tool'.todo = writes /\ tool'.anew = anew /\ tool'.secret = secret
             /\ tool'.left = left /\ tool'.devices = registry.devices \union left
             /\ tool'.carried = registry.secret
             /\ tool'.cmd = tool.cmd /\ tool'.wanted = tool.wanted
             /\ ProvisionTyped'
  <2>1. /\ tool'.todo = writes /\ tool'.anew = anew /\ tool'.secret = secret
        /\ tool'.left = left /\ tool'.devices = registry.devices \union left
        /\ tool'.carried = registry.secret
        /\ tool'.cmd = tool.cmd /\ tool'.wanted = tool.wanted
    BY <1>1, <1>5 DEF ProvisionTyped
  <2>2. tool' \in [cmd : {"none", "enroll", "force", "import", "scrub"},
                   hsm : BOOLEAN, wanted : SUBSET Identities, todo : Todos,
                   anew : BOOLEAN, secret : Ages, devices : SUBSET Identities,
                   left : SUBSET Identities, carried : Ages]
    BY <1>1, <1>5 DEF ProvisionTyped
  <2>3. mixed' \in BOOLEAN
    BY <1>1, <1>2 DEF ProvisionTyped
  <2> QED BY <1>1, <1>2, <2>1, <2>2, <2>3 DEF ProvisionTyped
<1> HIDE DEF proceed
<1>6. ASSUME tool'.todo \in {Nothing, Dies}, ProvisionTyped' PROVE ProvisionInv'
  <2>1. tool'.todo \in Rest
    BY <1>6, Kinds
  <2>2. ToolInv'
    BY <1>6, <2>1, Kinds, Apart DEF ToolInv
  <2>3. FieldInv'
    BY <1>1, <1>2, <1>3, <2>1, Apart DEF FieldInv
  <2>4. FilesInv'
    BY <1>1, <1>2, <1>3, <2>1, Kinds, Apart DEF FilesInv, Lasting
  <2>5. ServerInv'
    BY <1>1, <1>2, <1>3, <2>1, Kinds, Apart DEF ServerInv, Lasting
  <2> QED BY <1>6, <2>2, <2>3, <2>4, <2>5 DEF ProvisionInv
<1>7. CASE fails /\ tool' = [tool EXCEPT !.todo = Dies]
  <2>1. tool'.todo = Dies /\ Dies \in Todos
    BY <1>1, <1>7, Kinds DEF ProvisionTyped
  <2>2. mixed' \in BOOLEAN
    BY <1>1, <1>2 DEF ProvisionTyped
  <2>3. ProvisionTyped'
    BY <1>1, <1>2, <1>7, <2>1, <2>2 DEF ProvisionTyped
  <2> QED BY <1>6, <2>1, <2>3
<1>8. CASE ~fails /\ imports /\ registry.secret = "none" /\ tool' = proceed(Nothing, FALSE, "none", {})
  <2>1. /\ Nothing \in Todos /\ FALSE \in BOOLEAN /\ "none" \in Ages
        /\ {} \in SUBSET Identities
    BY Kinds DEF Ages
  <2>2. tool'.todo = Nothing /\ ProvisionTyped'
    BY <1>5, <1>8, <2>1, Zenon
  <2> QED BY <1>6, <2>2
<1>9. CASE /\ ~fails /\ imports /\ registry.secret # "none"
           /\ \E writes \in {MovesSecret, CopiesIn} : tool' = proceed(writes, FALSE, "none", {})
  <2>1. PICK writes \in {MovesSecret, CopiesIn} : tool' = proceed(writes, FALSE, "none", {})
    BY <1>9
  <2>2. /\ writes \in BeforeScrub /\ writes \in Todos /\ "none" \in Ages
        /\ FALSE \in BOOLEAN /\ {} \in SUBSET Identities
    BY Kinds DEF BeforeScrub, Ages
  <2>3. /\ tool'.todo \in BeforeScrub /\ ~tool'.anew /\ tool'.secret = "none"
        /\ tool'.left = {} /\ tool'.devices = registry.devices
        /\ tool'.carried = registry.secret /\ tool'.cmd = tool.cmd /\ ProvisionTyped'
    <3>1. /\ tool'.todo = writes /\ tool'.anew = FALSE /\ tool'.secret = "none"
          /\ tool'.left = {} /\ tool'.devices = registry.devices \union {}
          /\ tool'.carried = registry.secret /\ tool'.cmd = tool.cmd /\ ProvisionTyped'
      BY <1>5, <2>1, <2>2, Zenon
    <3> QED BY <2>2, <3>1
  <2>4. registry.is = "whole"
    BY <1>1, <1>9 DEF LoadFails, ProvisionTyped
  <2>5. ToolInv'
    BY <1>2, <1>3, <1>9, <2>3, <2>4, Kinds, Apart DEF ToolInv
  <2>6. FieldInv'
    BY <1>1, <1>2, <1>3, <2>3, Apart DEF FieldInv
  <2>7. FilesInv'
    BY <1>1, <1>2, <1>3, <2>3, Kinds, Apart DEF FilesInv, Lasting
  <2>8. ServerInv'
    BY <1>1, <1>2, <1>3, <2>3, Kinds, Apart DEF ServerInv, Lasting
  <2> QED BY <2>3, <2>5, <2>6, <2>7, <2>8 DEF ProvisionInv
<1>10. LoadedSecret(tool.hsm) \in Ages /\ Missing \in SUBSET Identities
  BY <1>1 DEF LoadedSecret, Missing, ProvisionTyped
<1>11. CASE ~fails /\ adds /\ tool' = proceed(Nothing, FALSE, LoadedSecret(tool.hsm), Missing)
  <2>1. tool'.todo = Nothing /\ ProvisionTyped'
    BY <1>5, <1>10, <1>11, Kinds
  <2> QED BY <1>6, <2>1
<1>12. CASE ~fails /\ adds /\ Missing # {}
               /\ tool' = proceed(EnrolMissing, FALSE, LoadedSecret(tool.hsm), Missing)
  <2>1. /\ tool'.todo = EnrolMissing /\ tool'.todo \in BeforeSave /\ ~tool'.anew
        /\ tool'.secret = LoadedSecret(tool.hsm) /\ tool'.left = Missing
        /\ tool'.devices = registry.devices \union Missing
        /\ tool'.cmd = "enroll" /\ ProvisionTyped'
    <3>1. EnrolMissing \in Todos /\ EnrolMissing \in BeforeSave /\ FALSE \in BOOLEAN
      BY Kinds
    <3>2. /\ tool'.todo = EnrolMissing /\ tool'.anew = FALSE
          /\ tool'.secret = LoadedSecret(tool.hsm) /\ tool'.left = Missing
          /\ tool'.devices = registry.devices \union Missing
          /\ tool'.cmd = tool.cmd /\ ProvisionTyped'
      BY <1>5, <1>10, <1>12, <3>1, Zenon
    <3> QED BY <1>12, <3>1, <3>2
  <2>2. ToolInv'
    BY <1>2, <1>12, <2>1, Kinds, Apart DEF ToolInv, Missing
  <2>3. FieldInv'
    BY <1>1, <1>2, <1>3, <2>1, Apart DEF FieldInv
  <2>4. FilesInv'
    BY <1>1, <1>2, <1>3, <2>1, Kinds, Apart DEF FilesInv, Lasting
  <2>5. ~mixed' => LoadedSecret(tool.hsm) \in {"current", registry.secret}
    BY <1>1, <1>2, <1>12 DEF LoadedSecret, LoadFails, ProvisionTyped, Ages
  <2>6. ServerInv'
    BY <1>1, <1>2, <1>3, <2>1, <2>5, Kinds, Apart DEF ServerInv, Lasting
  <2> QED BY <2>1, <2>2, <2>3, <2>4, <2>6 DEF ProvisionInv
<1>13. CASE ~fails /\ ~imports /\ ~adds /\ tool' = proceed(Bootstrap, TRUE, "current", tool.wanted)
  <2>1. /\ tool.wanted \in SUBSET Identities /\ Bootstrap \in Todos
        /\ Bootstrap \in BeforeSave /\ TRUE \in BOOLEAN /\ "current" \in Ages
    BY <1>1, Kinds DEF ProvisionTyped, Ages
  <2>2. /\ tool'.todo = Bootstrap /\ tool'.todo \in BeforeSave /\ tool'.anew
        /\ tool'.secret = "current" /\ tool'.left = tool.wanted
        /\ tool'.devices = registry.devices \union tool.wanted
        /\ tool'.wanted = tool.wanted /\ tool'.cmd = tool.cmd /\ ProvisionTyped'
    <3>1. PICK left \in SUBSET Identities : left = tool.wanted
      BY <2>1
    <3>2. tool' = proceed(Bootstrap, TRUE, "current", left)
      BY <1>13, <3>1
    <3>3. /\ tool'.todo = Bootstrap /\ tool'.anew = TRUE
          /\ tool'.secret = "current" /\ tool'.left = left
          /\ tool'.devices = registry.devices \union left
          /\ tool'.wanted = tool.wanted /\ tool'.cmd = tool.cmd /\ ProvisionTyped'
      BY <1>5, <2>1, <3>2, Zenon
    <3> QED BY <2>1, <3>1, <3>3
  <2>3. /\ tool.cmd \in {"enroll", "force"}
        /\ tool.cmd = "enroll" => registry.is = "absent"
    BY <1>1, <1>3, <1>13 DEF ToolInv, ProvisionTyped, LoadFails
  <2>4. ToolInv'
    BY <1>1, <1>2, <2>2, <2>3, Kinds, Apart DEF ToolInv, FieldInv
  <2>5. FieldInv'
    BY <1>1, <1>2, <1>3, <2>2, Apart DEF FieldInv
  <2>6. FilesInv'
    BY <1>1, <1>2, <1>3, <2>2, Kinds, Apart DEF FilesInv, Lasting
  <2>7. ServerInv'
    BY <1>1, <1>2, <1>3, <2>2, Kinds, Apart DEF ServerInv, Lasting
  <2> QED BY <2>2, <2>4, <2>5, <2>6, <2>7 DEF ProvisionInv
<1> QED BY <1>4, <1>7, <1>8, <1>9, <1>11, <1>12, <1>13

-----------------------------------------------------------------------------

LEMMA ProvisionStarts == ProvisionInit => ProvisionInv
<1> SUFFICES ASSUME ProvisionInit PROVE ProvisionInv
  OBVIOUS
<1>1. tool.todo = Nothing /\ tool.todo \in Rest /\ tool.todo \in Todos
  BY Kinds DEF ProvisionInit, NoTool, Nothing
<1>2. ProvisionTyped
  BY <1>1, ProvisioningAssumption
     DEF ProvisionInit, ProvisionTyped, NoTool, Absent, Ages, FileAges
<1>3. ToolInv
  BY <1>1, Kinds, Apart DEF ToolInv
<1>4. FieldInv
  BY <1>1, Apart DEF FieldInv, ProvisionInit, Absent
<1>5. FilesInv
  BY <1>1, Kinds, Apart DEF FilesInv, Lasting, ProvisionInit, Absent
<1>6. ServerInv
  BY <1>1, Kinds, Apart DEF ServerInv, Lasting, ProvisionInit, Absent
<1> QED BY <1>2, <1>3, <1>4, <1>5, <1>6 DEF ProvisionInv

LEMMA ProvisionStep ==
    ASSUME ProvisionInv, [Provision]_provisionVars PROVE ProvisionInv'
<1>1. CASE UNCHANGED provisionVars
  BY <1>1 DEF provisionVars, files, ProvisionInv, ProvisionTyped, ToolInv, FieldInv,
              FilesInv, ServerInv, Lasting
<1>2. ASSUME NEW hsm \in BOOLEAN, NEW wanted \in SUBSET Identities \ {{}},
             NEW cmd \in {"enroll", "force"}, Begin(cmd, hsm, wanted)
      PROVE  ProvisionInv'
  BY <1>2, BeginKeeps
<1>3. ASSUME NEW hsm \in BOOLEAN, NEW cmd \in {"import", "scrub"}, Begin(cmd, hsm, {})
      PROVE  ProvisionInv'
  BY <1>3, BeginKeeps
<1>4. ASSUME NEW d \in Identities, WriteKey(d) \/ Equip(d) PROVE ProvisionInv'
  BY <1>4, KeyKeeps, EquipKeeps
<1> QED
  BY <1>1, <1>2, <1>3, <1>4, LoadKeeps, EmptyKeeps, RegistryKeeps, PubKeeps,
     DestroyKeeps, CreateKeeps, ExitKeeps, KillKeeps DEF Provision

(* Every public key the registry has is matched by a secret, whatever commands
   were run and killed (enroll.py:70, keystore.py:59). *)
THEOREM KeysInPlaceHolds == ProvisionSpec => []KeysInPlace
<1>1. ProvisionInv /\ [Provision]_provisionVars => ProvisionInv'
  BY ProvisionStep
<1>2. ProvisionInv => KeysInPlace
  <2> SUFFICES ASSUME ProvisionInv, Settled PROVE KeysInPlace
    BY DEF KeysInPlace
  <2>1. tool.todo \in Rest /\ registry.is = "whole"
    BY Kinds DEF Settled, ToolIdle, Nothing
  <2>2. ~interrupted => FilesMatch
    BY <2>1, Kinds, Apart DEF ProvisionInv, FilesInv, FilesMatch, Lasting
  <2> QED BY <2>1, <2>2 DEF KeysInPlace, ProvisionInv, ServerInv, Lasting
<1> QED BY <1>1, <1>2, ProvisionStarts, PTL DEF ProvisionSpec

(* A device in the field only loses its key to --force (enroll.py:32), for any
   number of identities and commands, killed anywhere. *)
THEOREM FieldKeysKeptHolds == ProvisionSpec => FieldKeysKept
<1>1. ProvisionInv /\ [Provision]_provisionVars => ProvisionInv'
  BY ProvisionStep
<1>2. ProvisionInv /\ [Provision]_provisionVars =>
         [\A d \in Identities : held[d].key = "current" /\ held'[d].key # "current"
                                    => tool.cmd = "force"]_provisionVars
  <2> SUFFICES ASSUME ProvisionInv, Provision, NEW d \in Identities,
                      held[d].key = "current", held'[d].key # "current"
               PROVE  tool.cmd = "force"
    OBVIOUS
  <2>1. ProvisionTyped /\ ToolInv /\ FieldInv
    BY DEF ProvisionInv
  <2>2. CASE WriteRegistry
    <3>1. tool.todo \in {SavesAll, SavesMore, SavesScrub}
      <4>1. tool.todo \in Todos /\ tool.todo # Nothing /\ Head(tool.todo) = "registry"
        BY <2>1, <2>2 DEF WriteRegistry, NextWrite, ToolIdle, Nothing, ProvisionTyped
      <4> QED BY <4>1, NextTodo
    <3>2. d \in tool.left
      BY <2>1, <2>2 DEF WriteRegistry, Aged, ProvisionTyped
    <3>3. tool.todo \in BeforeSave
      BY <2>1, <3>1, <3>2, Kinds DEF ToolInv
    <3>4. d \in registry.devices
      BY <2>1 DEF FieldInv
    <3> QED BY <2>1, <3>2, <3>3, <3>4 DEF ToolInv
  <2>3. ASSUME NEW e \in Identities, Equip(e) PROVE tool.cmd = "force"
    BY <2>1, <2>3 DEF Equip, FieldInv, ProvisionTyped
  <2>4. ASSUME UNCHANGED held PROVE tool.cmd = "force"
    BY <2>4
  <2> QED
    BY <2>2, <2>3, <2>4 DEF Provision, Begin, Load, EmptyRegistry, WritePub, WriteKey,
       DestroySecret, CreateSecret, Exit, Kill, files
<1> QED BY <1>1, <1>2, ProvisionStarts, PTL DEF ProvisionSpec, FieldKeysKept
===============================================================================
