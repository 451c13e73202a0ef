----------------------------- MODULE GetFeature -----------------------------
(***************************************************************************)
(* get_feature.cpp: dumps a program that runs in a virtual machine.  main  *)
(* starts a PerformanceMonitor whose sampling thread watches the extractor *)
(* itself, looks the program up, and leaves the work to three threads that *)
(* keep apart only by the clock: thread 1 reads the counters ROUNDS times, *)
(* thread 2 dumps memory after DUMP_AT seconds, thread 3 prints what       *)
(* thread 1 has read after PRINT_AT.  They share PerfcSave and vmi without *)
(* a lock.                                                                 *)
(*                                                                         *)
(* The functions of head.h are not part of the repository.  MAX_CALL is    *)
(* what a reading of thread 1, its sleep apart, takes at most; nothing in  *)
(* the code bounds it, and whether the readings are in time depends on it. *)
(***************************************************************************)
EXTENDS Integers

CONSTANTS
  ROUNDS,       (* 13                                                      *)
  PERIOD,       (* seconds between two readings, 5                         *)
  DUMP_AT,      (* 30                                                      *)
  PRINT_AT,     (* 68                                                      *)
  MAX_CALL      (* of get_perf_message and what a sleep overruns           *)

ASSUME GetFeatureAssumption ==
  {ROUNDS, PERIOD, DUMP_AT, PRINT_AT} \subseteq Nat \ {0} /\ MAX_CALL \in Nat

Workers == 1 .. 3

VARIABLES
  pc,           (* the step of main that comes next                        *)
  outcome,      (* "running", "exited" or "aborted"                        *)
  vmi,          (* "none", "open" or "destroyed"                           *)
  running,      (* g_monitor.running                                       *)
  sampler,      (* its thread: "none", "first", "check", "measure", "done" *)
  worker,       (* "none", "asleep", "busy" or "done" for each of Workers  *)
  timer,        (* when a worker wakes, or has finished its reading        *)
  round,        (* readings begun                                          *)
  now           (* seconds                                                 *)

monitor == <<running, sampler>>
workers == <<worker, timer, round, now>>
vars == <<pc, outcome, vmi, monitor, workers>>

Init ==
  /\ pc = "start" /\ outcome = "running" /\ vmi = "none"
  /\ running = FALSE /\ sampler = "none"
  /\ worker = [w \in Workers |-> "none"] /\ timer = [w \in Workers |-> 0]
  /\ round = 0 /\ now = 0

Running == outcome = "running"

(* An exception nobody catches ends the process in std::terminate.         *)
Throw ==
  /\ outcome' = "aborted"
  /\ UNCHANGED <<pc, vmi, monitor, workers>>

-----------------------------------------------------------------------------
(* main.                                                                   *)

At(step) == Running /\ pc = step
Go(step) == pc' = step /\ UNCHANGED outcome

(* The return of main destroys g_monitor, and a thread object whose thread *)
(* has not been joined aborts the process.                                 *)
Joinable == pc # "return"

Return ==
  /\ outcome' = IF Joinable THEN "aborted" ELSE "exited"
  /\ UNCHANGED <<pc, monitor, workers>>

(* g_monitor.start(): reads the /proc files itself, then has the thread.   *)
Start ==
  /\ At("start")
  /\ \/ Throw
     \/ /\ running' = TRUE /\ sampler' = "first"
        /\ Go("args") /\ UNCHANGED <<vmi, workers>>

CheckArgs ==
  /\ At("args")
  /\ Go("init") \/ Return
  /\ UNCHANGED <<vmi, monitor, workers>>

InitVmi ==
  /\ At("init")
  /\ \/ Go("name") /\ vmi' = "open"
     \/ Return /\ UNCHANGED vmi
  /\ UNCHANGED <<monitor, workers>>

(* A name that does not tell the class returns with vmi open.              *)
CheckName ==
  /\ At("name")
  /\ Go("find") \/ Return
  /\ UNCHANGED <<vmi, monitor, workers>>

(* get_cr3_by_projectname and create_save_directory.                       *)
Find(step, next) ==
  /\ At(step)
  /\ \/ Go(next) /\ UNCHANGED vmi
     \/ Return /\ vmi' = "destroyed"
  /\ UNCHANGED <<monitor, workers>>

(* Thread 1 sleeps before a reading instead of after it.                   *)
SleepsFirst(w) ==
  CASE w = 1 -> now + PERIOD + MAX_CALL
    [] w = 2 -> now + DUMP_AT
    [] w = 3 -> now + PRINT_AT

FirstWake(w) ==
  CASE w = 1 -> now + MAX_CALL
    [] w = 2 -> now + DUMP_AT
    [] w = 3 -> now + PRINT_AT

(* The threads are created in order; thread 1 begins to read at once.      *)
Spawn(w) ==
  /\ At("spawn") /\ worker[w] = "none"
  /\ \A v \in 1 .. w - 1 : worker[v] # "none"
  /\ \/ Throw
     \/ /\ worker' = [worker EXCEPT ![w] = IF w = 1 THEN "busy" ELSE "asleep"]
        /\ timer' = [timer EXCEPT ![w] = FirstWake(w)]
        /\ round' = IF w = 1 THEN 1 ELSE round
        /\ Go(IF w = 3 THEN "join" ELSE "spawn")
        /\ UNCHANGED <<vmi, monitor, now>>

(* main waits for thread 1 only.                                           *)
JoinedFirst == {1}

(* The threads main waits for.                                             *)
Joined == Workers

(* The three joins, one after the other, are over when all have ended.     *)
Join ==
  /\ At("join") /\ \A w \in Joined : worker[w] = "done"
  /\ Go("destroy")
  /\ UNCHANGED <<vmi, monitor, workers>>

DestroyVmi ==
  /\ At("destroy") /\ vmi' = "destroyed" /\ Go("stop")
  /\ UNCHANGED <<monitor, workers>>

(* A stop that leaves the flag alone.                                      *)
FlagKept == running

FlagAfterStop == FALSE

(* g_monitor.stop(): the flag, then the join.                              *)
Stop ==
  /\ At("stop") /\ running' = FlagAfterStop /\ Go("wait")
  /\ UNCHANGED <<vmi, sampler, workers>>

(* A stop that does not wait for the thread.                               *)
Detached == TRUE

SamplerEnded == sampler = "done"

WaitForSampler ==
  /\ At("wait") /\ SamplerEnded /\ Go("save")
  /\ UNCHANGED <<vmi, monitor, workers>>

(* save_csv, whose localtime is the only one of the process.               *)
SaveCsv ==
  /\ At("save") /\ Go("return")
  /\ UNCHANGED <<vmi, monitor, workers>>

End ==
  /\ At("return") /\ Return
  /\ UNCHANGED vmi

Main ==
  \/ Start \/ CheckArgs \/ InitVmi \/ CheckName \/ Find("find", "directory")
  \/ Find("directory", "spawn") \/ Join \/ DestroyVmi
  \/ Stop \/ WaitForSampler \/ SaveCsv \/ End
  \/ \E w \in Workers : Spawn(w)

-----------------------------------------------------------------------------
(* The threads.                                                            *)

(* The /proc readers throw when a file is not as expected.                 *)
Measure ==
  /\ Running /\ sampler \in {"first", "measure"}
  /\ \/ Throw
     \/ /\ sampler' = "check"
        /\ UNCHANGED <<pc, outcome, vmi, running, workers>>

CheckRunning ==
  /\ Running /\ sampler = "check"
  /\ sampler' = IF running THEN "measure" ELSE "done"
  /\ UNCHANGED <<pc, outcome, vmi, running, workers>>

Sampler == Measure \/ CheckRunning

Becomes(w, state, time) ==
  /\ worker' = [worker EXCEPT ![w] = state]
  /\ timer' = [timer EXCEPT ![w] = time]
  /\ UNCHANGED <<pc, outcome, vmi, monitor, now>>

Awake(w) == Running /\ worker[w] = "asleep" /\ now = timer[w]

MoreRounds == round < ROUNDS

(* get_perf_message returns, and the thread sleeps.                        *)
HasRead ==
  /\ Running /\ worker[1] = "busy"
  /\ Becomes(1, "asleep", now + PERIOD)
  /\ UNCHANGED round

Read ==
  /\ Awake(1)
  /\ IF MoreRounds
     THEN Becomes(1, "busy", now + MAX_CALL) /\ round' = round + 1
     ELSE Becomes(1, "done", now) /\ UNCHANGED round

(* The dump (2) and the print (3) begin, and end at some time.             *)
Work(w) ==
  /\ Awake(w) /\ Becomes(w, "busy", now)
  /\ UNCHANGED round

HasWorked(w) ==
  /\ Running /\ worker[w] = "busy" /\ Becomes(w, "done", now)
  /\ UNCHANGED round

Worker(w) == IF w = 1 THEN HasRead \/ Read ELSE Work(w) \/ HasWorked(w)

(* Time stops for a thread that is due, and when nobody looks at it.       *)
Timed(w) == worker[w] = "asleep" \/ (w = 1 /\ worker[w] = "busy")

Tick ==
  /\ Running /\ \E w \in Workers : Timed(w)
  /\ \A w \in Workers : Timed(w) => now < timer[w]
  /\ now' = now + 1
  /\ UNCHANGED <<pc, outcome, vmi, monitor, worker, timer, round>>

Ended == ~ Running /\ UNCHANGED vars

Next == Main \/ Sampler \/ Tick \/ Ended \/ \E w \in Workers : Worker(w)

Spec == Init /\ [][Next]_vars

(* Every thread that can run runs, time passes, and what the workers call  *)
(* returns.                                                                *)
FairSpec ==
  /\ Spec /\ WF_vars(Main) /\ WF_vars(Sampler) /\ WF_vars(Tick)
  /\ \A w \in Workers : WF_vars(Worker(w))

-----------------------------------------------------------------------------
(* vmi_destroy (get_feature.cpp:324) waits for the thread that dumps       *)
(* through vmi, however long the dump takes.                               *)
VmiIsOpenWhenUsed == worker[2] = "busy" => vmi = "open"

(* The seconds after which thread 1 has made its k-th reading if every call *)
(* is as slow as can be, and whether it has made it.                       *)
Slowest(k) == (k - 1) * (PERIOD + MAX_CALL) + MAX_CALL
HasReading(k) == round > k \/ (round = k /\ worker[1] # "busy")

(* No lock keeps thread 3, which prints PerfcSave, behind thread 1, only   *)
(* the 68 seconds against 13 readings (get_feature.cpp:295, 313): every    *)
(* reading that even at its slowest is made before then is printed, so all *)
(* of them are if the last one is in time.                                 *)
PrintsWholeRecord ==
  worker[3] = "busy" =>
    \A k \in 1 .. ROUNDS : Slowest(k) < PRINT_AT => HasReading(k)

(* save_csv calls localtime, although its comment asks for localtime_r     *)
(* (get_feature.cpp:92): it may, because every other thread has ended.     *)
SavesAlone ==
  pc = "save" => sampler = "done" /\ \A w \in Workers : worker[w] = "done"

(* No join waits in vain, and the extractor ends in one of two ways: with  *)
(* its usage file saved and vmi destroyed, or aborted, as also by every    *)
(* early return of main, since g_monitor still has its thread              *)
(* (get_feature.cpp:246-291).                                              *)
EveryRunEnds ==
  <>(outcome = "aborted" \/ (outcome = "exited" /\ pc = "return" /\ vmi = "destroyed"))
=============================================================================
