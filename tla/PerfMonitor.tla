----------------------------- MODULE PerfMonitor -----------------------------
(***************************************************************************)
(* perf_monitor.c of the training-data collector: a monitor object with a  *)
(* sampling thread that its owner starts, stops, saves and destroys.  A    *)
(* monitor belongs to one collecting thread t; nobody else calls its       *)
(* operations.  sampler is where the sampling thread is:                   *)
(*   none     never created                                                *)
(*   check    about to read running                                        *)
(*   append   with a measurement, about to lock data_mutex                 *)
(*   done     returned                                                     *)
(* Of the data points only their number is kept, and of the usage file a   *)
(* save writes only that it takes the mutex while it does.                 *)
(***************************************************************************)
EXTENDS Integers

CONSTANTS
  Threads,           (* the collecting threads that can exist             *)
  MAX_DATA_POINTS,   (* slots of a monitor's data array, 3600             *)
  FAULTS             (* calls that may fail in this instance              *)

ASSUME PerfMonitorAssumption ==
  /\ MAX_DATA_POINTS \in Nat \ {0}
  /\ FAULTS \subseteq {"spawn", "monitor", "sampler", "perf_open",
                        "csv", "read", "usage"}

VARIABLE monitors   (* thread -> its PerformanceMonitor                   *)

Fails(call) == call \in FAULTS

NoMonitor == [mem |-> "none", running |-> FALSE, data_count |-> 0,
              data_mutex |-> "free", sampler |-> "none"]

MonitorInit == monitors = [t \in Threads |-> NoMonitor]

-----------------------------------------------------------------------------
(* The owner's calls, as the monitor they leave behind.                    *)

(* perf_monitor_create.                                                    *)
Created == [NoMonitor EXCEPT !.mem = "live"]

(* perf_monitor_start: the thread runs, or cannot be created and running   *)
(* is taken back.                                                          *)
Started(m) ==
  {[m EXCEPT !.running = TRUE, !.sampler = "check"]}
  \cup IF Fails("sampler") THEN {m} ELSE {}

(* A stop that leaves the flag alone.                                      *)
StopForgotten(m) == m

(* perf_monitor_stop up to the join.                                       *)
Stopping(m) == [m EXCEPT !.running = FALSE]

Freed(m) == [NoMonitor EXCEPT !.mem = "freed", !.sampler = m.sampler]

(* perf_monitor_save_csv when the file cannot be opened: lock and unlock.  *)
SaveFailed(m) == m

(* A save that writes without the mutex.                                   *)
LockedNot(m) == m

Locked(m) == [m EXCEPT !.data_mutex = "owner"]

Unlocked(m) == [m EXCEPT !.data_mutex = "free"]

-----------------------------------------------------------------------------
(* monitor_thread_func.                                                    *)

Sampler(t, from, to) ==
  /\ monitors[t].sampler = from
  /\ monitors' = [monitors EXCEPT ![t].sampler = to]

CheckRunning(t) ==
  Sampler(t, "check", IF monitors[t].running THEN "append" ELSE "done")

(* The bound is off by one.                                                *)
AddPointTooMany(count) == IF count <= MAX_DATA_POINTS THEN count + 1 ELSE count

(* A point beyond the end of the array is dropped.                         *)
AddPoint(count) == IF count < MAX_DATA_POINTS THEN count + 1 ELSE count

(* The locked section, and the sleep up to the next interval.              *)
AppendPoint(t) ==
  /\ monitors[t].sampler = "append" /\ monitors[t].data_mutex = "free"
  /\ monitors' = [monitors EXCEPT ![t].data_count = AddPoint(@),
                                  ![t].sampler = "check"]

SamplerStep(t) == CheckRunning(t) \/ AppendPoint(t)
=============================================================================
