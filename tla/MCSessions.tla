----------------------------- MODULE MCSessions -----------------------------
(* Small instances of Sessions for TLC. *)
EXTENDS Sessions, TLC

CONSTANTS s1, s2, sensor_01, actuator_01

TwoSids   == {s1, s2}
MCDevices == {sensor_01, actuator_01}
OneDevice == {actuator_01}
Symmetry  == Permutations(Sids) \union Permutations(Devices)
=============================================================================
