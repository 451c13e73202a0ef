------------------------------ MODULE PidTable ------------------------------
(***************************************************************************)
(* pid_table of the_main.c: for each PID seen, the time its execve was     *)
(* last handled.  Nodes are only ever freed by cleanup_pid_table, at exit. *)
(***************************************************************************)
EXTENDS HashTable

CONSTANT RECENT_SECS   (* how long a handled PID is ignored, 5            *)

ASSUME PidTableAssumption == RECENT_SECS \in Nat

PidEntry == [pid : PIDs, timestamp : Nat]

(* A comparison that lets a PID through one second early.                  *)
WithinOneLess(stamp, t) == t - stamp < RECENT_SECS - 1

Within(stamp, t) == t - stamp < RECENT_SECS

IsRecent(table, pid, t) ==
  /\ Known(table, pid)
  /\ Within(NodeOf(table, pid).timestamp, t)

(* The bookkeeping of a call that returns 0 and has (or gets) a node.      *)
StampedWithoutRefresh(table, pid, t) ==
  IF Known(table, pid) THEN table
  ELSE LinkFirst(table, [pid |-> pid, timestamp |-> t])

(* A new node whose timestamp is left as malloc gave it.                   *)
StampedUninitialised(table, pid, t) ==
  IF Known(table, pid) THEN Update(table, [pid |-> pid, timestamp |-> t])
  ELSE LinkFirst(table, [pid |-> pid, timestamp |-> -1])

Stamped(table, pid, t) ==
  LET node == [pid |-> pid, timestamp |-> t]
  IN  IF Known(table, pid) THEN Update(table, node) ELSE LinkFirst(table, node)
=============================================================================
