----------------------------- MODULE TripLatch -----------------------------
(***************************************************************************)
(* What the logic solver promises about the safety trip, and nothing of    *)
(* how it keeps the promise: the trip latches, anything may set it, and to *)
(* clear it a thread takes a signed operator command that nothing has      *)
(* consumed, consumes it, and clears the trip once (README.md "Trips       *)
(* latch", app/config.py:58-59).  Two threads may take the same command    *)
(* before either consumes it.  A process that dies takes the latch, its    *)
(* threads and the memory of what it consumed with it.                     *)
(***************************************************************************)
CONSTANTS
    Tickets,          \* the signed operator commands that may ever exist
    Threads

VARIABLES
    latched,          \* TRUE from a trip until an authorised reset
    spent,            \* the tickets already consumed
    held              \* the ticket each thread has taken, if any

vars == <<latched, spent, held>>

TypeOK ==
    /\ latched \in BOOLEAN
    /\ spent \subseteq Tickets
    /\ held \in [Threads -> SUBSET Tickets]

Free == [h \in Threads |-> {}]

Init == latched = FALSE /\ spent = {} /\ held = Free

(* A demand, a manual trip or a report from the final element. *)
Trip == latched' = TRUE /\ UNCHANGED <<spent, held>>

Take(h, t) ==
    /\ held[h] = {} /\ t \notin spent
    /\ held' = [held EXCEPT ![h] = {t}]
    /\ UNCHANGED <<latched, spent>>

Spend(h) == spent' = spent \union held[h] /\ UNCHANGED <<latched, held>>

(* The command is refused, or does not concern the latch. *)
Drop(h) == held' = [held EXCEPT ![h] = {}] /\ UNCHANGED <<latched, spent>>

(* The one way out of the trip. *)
Clear(h) ==
    /\ held[h] # {} /\ held[h] \subseteq spent
    /\ latched' = FALSE
    /\ held' = [held EXCEPT ![h] = {}]
    /\ UNCHANGED spent

Forget == latched' = FALSE /\ spent' = {} /\ held' = Free

Next ==
    \/ Trip \/ Forget
    \/ \E h \in Threads :
          \/ Spend(h) \/ Drop(h) \/ Clear(h)
          \/ \E t \in Tickets : Take(h, t)

Spec == Init /\ [][Next]_vars
=============================================================================
