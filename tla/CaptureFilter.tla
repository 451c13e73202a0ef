---------------------------- MODULE CaptureFilter ----------------------------
(***************************************************************************)
(* is_pid_recent of the_main.c at work: the table of the PIDs handled in   *)
(* the last RECENT_SECS seconds, as execve events arrive and time passes.  *)
(* Only the main thread calls it, so every call is one step.               *)
(*                                                                         *)
(* passed and suppressed are history variables: the times at which an      *)
(* event of a PID was let through (and whether the table recorded it), and *)
(* how many events of a PID were dropped.                                  *)
(***************************************************************************)
EXTENDS PidTable

CONSTANTS
  MAX_TIME,    (* bound on the clock                                      *)
  MAX_EVENTS   (* bound on the number of events of one PID                *)

ASSUME CaptureFilterAssumption == MAX_TIME \in Nat /\ MAX_EVENTS \in Nat

VARIABLES pid_table, now, passed, suppressed

vars == <<pid_table, now, passed, suppressed>>

Init ==
  /\ pid_table = EmptyTable
  /\ now = 0
  /\ passed = [p \in PIDs |-> <<>>]
  /\ suppressed = [p \in PIDs |-> 0]

-----------------------------------------------------------------------------
(* An execve event of p reaches is_pid_recent.                             *)

MoreEvents(p) == Len(passed[p]) + suppressed[p] < MAX_EVENTS

LetThrough(p, recorded) ==
  /\ passed' = [passed EXCEPT ![p] = Append(@, [at |-> now, recorded |-> recorded])]
  /\ UNCHANGED <<now, suppressed>>

(* A suppressed event that restamps its entry all the same: the window     *)
(* slides with every execve of the process.                                *)
SuppressAndStamp(p) ==
  /\ MoreEvents(p)
  /\ IsRecent(pid_table, p, now)
  /\ pid_table' = Stamped(pid_table, p, now)
  /\ suppressed' = [suppressed EXCEPT ![p] = @ + 1]
  /\ UNCHANGED <<now, passed>>

(* Return 1: handled less than RECENT_SECS ago.                            *)
Suppress(p) ==
  /\ MoreEvents(p)
  /\ IsRecent(pid_table, p, now)
  /\ suppressed' = [suppressed EXCEPT ![p] = @ + 1]
  /\ UNCHANGED <<pid_table, now, passed>>

(* Return 0, the node of p stamped or a new one linked in.                 *)
Capture(p) ==
  /\ MoreEvents(p)
  /\ ~ IsRecent(pid_table, p, now)
  /\ pid_table' = Stamped(pid_table, p, now)
  /\ LetThrough(p, TRUE)

(* Return 0 although malloc gave no node for a new PID.                    *)
CaptureUnrecorded(p) ==
  /\ MoreEvents(p)
  /\ ~ Known(pid_table, p)
  /\ UNCHANGED pid_table
  /\ LetThrough(p, FALSE)

Tick ==
  /\ now < MAX_TIME
  /\ now' = now + 1
  /\ UNCHANGED <<pid_table, passed, suppressed>>

Next ==
  \/ Tick
  \/ \E p \in PIDs : Suppress(p) \/ Capture(p) \/ CaptureUnrecorded(p)

Spec == Init /\ [][Next]_vars

-----------------------------------------------------------------------------
TypeOK ==
  /\ pid_table \in [Buckets -> Seq(PidEntry)]
  /\ now \in Nat
  /\ passed \in [PIDs -> Seq([at : Nat, recorded : BOOLEAN])]
  /\ suppressed \in [PIDs -> Nat]

(* Hash collisions and restamping never give a PID two nodes in its chain  *)
(* or a node in another PID's bucket (is_pid_recent, the_main.c).          *)
UniqueNodes == WellFiled(pid_table)

(* The table and the history agree: p has a node iff some passage of p was *)
(* recorded, and the node carries the time of p's last passage.            *)
TableMatchesHistory ==
  \A p \in PIDs :
    IF Known(pid_table, p)
    THEN /\ passed[p] # <<>>
         /\ passed[p][Len(passed[p])] =
              [at |-> NodeOf(pid_table, p).timestamp, recorded |-> TRUE]
    ELSE \A i \in DOMAIN passed[p] : ~ passed[p][i].recorded

(* "Check whether the PID was handled within 5 seconds": two passages of   *)
(* one PID are RECENT_SECS or more apart, whatever other PIDs share its    *)
(* bucket, unless the first could not be recorded.                         *)
PassagesSpaced ==
  \A p \in PIDs : \A i \in 1 .. Len(passed[p]) - 1 :
    passed[p][i].recorded =>
      passed[p][i + 1].at - passed[p][i].at >= RECENT_SECS

(* The converse: an event is only dropped if an earlier event of the same  *)
(* PID was let through less than RECENT_SECS ago, so no process goes       *)
(* unmonitored because of a neighbour in its bucket.                       *)
NoFalseSuppression ==
  [][\A p \in PIDs :
       suppressed'[p] # suppressed[p] =>
         \E i \in DOMAIN passed[p] : now - passed[p][i].at < RECENT_SECS]_vars

(* The chained table implements the map of CaptureLimiter: whatever shares *)
(* its bucket, an event is decided by its own PID's entry, in both         *)
(* directions, and changes no other's; and a dropped event does not        *)
(* restamp the entry, so a process that calls execve without pause is      *)
(* captured again every RECENT_SECS seconds (is_pid_recent, the_main.c).   *)
LastOf(p) ==
  IF Known(pid_table, p) THEN NodeOf(pid_table, p).timestamp ELSE -1

Limiter == INSTANCE CaptureLimiter WITH
  last <- [p \in PIDs |-> LastOf(p)],
  handled <- [p \in PIDs |-> Len(passed[p])],
  dropped <- suppressed
LimiterSpec == Limiter!Spec
=============================================================================
