-------------------------- MODULE MCElementThreads --------------------------
(* A small instance of ElementThreads for TLC. *)
EXTENDS ElementThreads

CONSTANTS h1, h2, w1, w2, t1, r1

MCHandlers  == {h1, h2}
MCWatchdogs == {w1, w2}
MCTrips     == {t1}
MCResets    == {r1}
=============================================================================
