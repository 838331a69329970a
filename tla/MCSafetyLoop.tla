---------------------------- MODULE MCSafetyLoop ----------------------------
(* Small instances of SafetyLoop for TLC. *)
EXTENDS SafetyLoop

MCKeys   == 1 .. MaxConnections
MCNonces == 0 .. MaxCommands + MaxConnections

Setting(faults, waits, commands, seconds) ==
    [faults |-> faults, waits |-> waits, commands |-> commands,
     seconds |-> seconds]

(* A short storm, and a cut long enough for both ends to give the connection
   up and for the silence after it to be seen. *)
MCSilence ==
    {Setting({"cut", "sever", "replay", "inject"}, FALSE, 2, 4),
     Setting({"cut"}, FALSE, 0, 8)}

MCStaleReport == {Setting({}, FALSE, 4, 5)}
MCServerDeath == {Setting({"crash"}, FALSE, 2, 5)}

(* Storms in which operators are impatient, and calm. *)
MCDemand ==
    {Setting({"cut", "crash", "replay"}, FALSE, 2, 4),
     Setting({"sever", "replay"}, FALSE, 2, 5),
     Setting({"power"}, TRUE, 4, 6)}
=============================================================================
