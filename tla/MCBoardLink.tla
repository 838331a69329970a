----------------------------- MODULE MCBoardLink -----------------------------
(* Small instances of BoardLink for TLC. *)
EXTENDS BoardLink

CONSTANTS esp32_01

MCBoards == {esp32_01}
=============================================================================
