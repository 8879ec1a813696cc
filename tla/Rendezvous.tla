----------------------------- MODULE Rendezvous -----------------------------
(***************************************************************************)
(* What one thread_barrier of performance/harness.h promises: the workers  *)
(* arrive one by one; the main thread meets them only once all of them     *)
(* have arrived, and lets them go after that; or it gives up without       *)
(* waiting, and lets go the ones that are there or still come.  No worker  *)
(* leaves before it is let go.                                             *)
(***************************************************************************)
CONSTANT Workers

VARIABLES arrived,   \* the workers that have arrived
          gate,      \* "closed", "met", "open" or "abandoned"
          gone       \* the workers that have left

vars == <<arrived, gate, gone>>

Init == arrived = {} /\ gate = "closed" /\ gone = {}

Arrive(w) ==
  /\ w \notin arrived
  /\ arrived' = arrived \cup {w}
  /\ UNCHANGED <<gate, gone>>

Meet ==
  /\ gate = "closed"
  /\ arrived = Workers
  /\ gate' = "met"
  /\ UNCHANGED <<arrived, gone>>

Open ==
  /\ gate = "met"
  /\ gate' = "open"
  /\ UNCHANGED <<arrived, gone>>

Abandon ==
  /\ gate = "closed"
  /\ gate' = "abandoned"
  /\ UNCHANGED <<arrived, gone>>

Leave(w) ==
  /\ gate \in {"open", "abandoned"}
  /\ w \in arrived \ gone
  /\ gone' = gone \cup {w}
  /\ UNCHANGED <<arrived, gate>>

Next == (\E w \in Workers : Arrive(w) \/ Leave(w)) \/ Meet \/ Open \/ Abandon

Spec == Init /\ [][Next]_vars

=============================================================================
