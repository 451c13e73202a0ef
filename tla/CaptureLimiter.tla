--------------------------- MODULE CaptureLimiter ---------------------------
(***************************************************************************)
(* What is_pid_recent promises its caller, with no buckets, chains or      *)
(* nodes in sight: a map from PIDs to the time each was last handled, and  *)
(* a verdict on every event that is decided by the PID's own entry alone.  *)
(* An event is dropped exactly if the entry is less than RECENT_SECS old;  *)
(* a dropped event leaves the map as it is, so that calls in quick         *)
(* succession do not push the next capture back; an event that is handled  *)
(* restamps its PID's entry and no other.  A PID without an entry may be   *)
(* left without one: there was no memory for it.                           *)
(***************************************************************************)
EXTENDS Integers

CONSTANTS PIDs, RECENT_SECS

VARIABLES
  now,
  last,     (* PID -> time it was last handled, Never without an entry     *)
  handled,  (* PID -> number of its events that were handled               *)
  dropped   (* PID -> number of its events that were dropped               *)

vars == <<now, last, handled, dropped>>

Never == -1

Init ==
  /\ now = 0
  /\ last = [p \in PIDs |-> Never]
  /\ handled = [p \in PIDs |-> 0]
  /\ dropped = [p \in PIDs |-> 0]

Recent(p) == last[p] # Never /\ now - last[p] < RECENT_SECS

Drop(p) ==
  /\ Recent(p)
  /\ dropped' = [dropped EXCEPT ![p] = @ + 1]
  /\ UNCHANGED <<now, last, handled>>

Handle(p) ==
  /\ ~ Recent(p)
  /\ \/ last' = [last EXCEPT ![p] = now]
     \/ last[p] = Never /\ UNCHANGED last
  /\ handled' = [handled EXCEPT ![p] = @ + 1]
  /\ UNCHANGED <<now, dropped>>

Tick == now' = now + 1 /\ UNCHANGED <<last, handled, dropped>>

Next == Tick \/ \E p \in PIDs : Drop(p) \/ Handle(p)

Spec == Init /\ [][Next]_vars
=============================================================================
