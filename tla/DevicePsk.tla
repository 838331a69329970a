------------------------------ MODULE DevicePsk ------------------------------
(***************************************************************************)
(* The key of the boards that only hold a pre-shared one: every process of *)
(* a deployment imports app/config.py, which reads identities/device.psk   *)
(* or makes it.  Processes come up side by side, and may end anywhere.     *)
(* One that has DEVICE_PSK in its environment does not touch the file.     *)
(***************************************************************************)
EXTENDS Naturals

CONSTANTS
    Processes,
    MaxStarts               \* bound: imports begun

ASSUME DevicePskAssumption == MaxStarts \in Nat

VARIABLES
    pskFile,                \* absent, empty or whole
    psk,                    \* the key it holds
    loading,                \* where the import of each process is
    own,                    \* the key each has made or read
    starts                  \* keys made so far: os.urandom gives no key twice

pskVars == <<pskFile, psk, loading, own, starts>>

NoPsk == 0

PskInit ==
    /\ pskFile = "absent" /\ psk = NoPsk
    /\ loading = [p \in Processes |-> "off"]
    /\ own = [p \in Processes |-> NoPsk]
    /\ starts = 0

Goes(p, to) == loading' = [loading EXCEPT ![p] = to]

(* The file is looked for; where there is none a key is made. *)
StartLoading(p) ==
    /\ loading[p] = "off" /\ starts < MaxStarts
    /\ starts' = starts + 1
    /\ IF pskFile = "absent"
       THEN Goes(p, "create") /\ own' = [own EXCEPT ![p] = starts']
       ELSE Goes(p, "read") /\ UNCHANGED own
    /\ UNCHANGED <<pskFile, psk>>

(* With a bug: the file is opened for writing, whoever was there first. *)
LastWriterWins == TRUE

FirstWriter == pskFile = "absent"

(* open(_PSK_PATH, "x"), which leaves the file empty, or FileExistsError. *)
CreateFile(p) ==
    /\ loading[p] = "create"
    /\ IF FirstWriter
       THEN Goes(p, "write") /\ pskFile' = "empty" /\ UNCHANGED own
       ELSE /\ Goes(p, "read")
            /\ own' = [own EXCEPT ![p] = NoPsk]
            /\ UNCHANGED pskFile
    /\ UNCHANGED <<psk, starts>>

WriteFile(p) ==
    /\ loading[p] = "write"
    /\ pskFile' = "whole" /\ psk' = own[p]
    /\ Goes(p, "up")
    /\ UNCHANGED <<own, starts>>

(* An empty file gives a key of no bytes, and the import fails. *)
ReadFile(p) ==
    /\ loading[p] = "read"
    /\ IF pskFile = "whole"
       THEN Goes(p, "up") /\ own' = [own EXCEPT ![p] = psk]
       ELSE Goes(p, "off") /\ UNCHANGED own
    /\ UNCHANGED <<pskFile, psk, starts>>

(* The process ends, or is killed before it was up. *)
EndProcess(p) ==
    /\ loading[p] # "off"
    /\ Goes(p, "off")
    /\ own' = [own EXCEPT ![p] = NoPsk]
    /\ UNCHANGED <<pskFile, psk, starts>>

PskNext ==
    \E p \in Processes :
        StartLoading(p) \/ CreateFile(p) \/ WriteFile(p) \/ ReadFile(p) \/ EndProcess(p)

PskSpec == PskInit /\ [][PskNext]_pskVars

(* "A concurrent import must not clobber the key another process already
   generated, or the two would seal with different keys" (config.py:42-43):
   processes that are up hold one key, whenever each of them was started. *)
OnePsk ==
    \A p, q \in Processes :
        loading[p] = "up" /\ loading[q] = "up" => own[p] = own[q]
=============================================================================
