-------------------------- MODULE GetFeatureProofs --------------------------
(***************************************************************************)
(* The three threads of the extractor, for every number of rounds and all  *)
(* times.  The invariant has two parts: where main is tells what the       *)
(* threads and vmi are (Control), and a bound on the time of thread 1,     *)
(* counted back from the time thread 3 will wake, with the readings that   *)
(* it leaves when thread 3 has woken (Timing).                             *)
(***************************************************************************)
EXTENDS GetFeature, TLAPS

Early == {"start", "args", "init", "name", "find", "directory"}
Late == {"destroy", "stop", "wait", "save", "return"}

Types ==
  /\ pc \in Early \cup {"spawn", "join"} \cup Late
  /\ worker \in [Workers -> {"none", "asleep", "busy", "done"}]
  /\ timer \in [Workers -> Nat]
  /\ round \in Nat
  /\ now \in Nat

Control ==
  /\ pc \in Early => \A w \in Workers : worker[w] = "none"
  /\ pc \in Late => \A w \in Workers : worker[w] = "done"
  /\ pc \in {"save", "return"} => sampler = "done"
  /\ pc \in {"name", "find", "directory"} /\ Running => vmi = "open"
  /\ pc \in {"spawn", "join"} => vmi = "open"

(* The time k rounds take at most.                                         *)
Rounds(k) == k * (PERIOD + MAX_CALL)

(* Thread 1 was created at this time or before.                            *)
Since == IF worker[3] = "none" THEN now ELSE timer[3] - PRINT_AT

InTime == \A k \in 1 .. ROUNDS : Slowest(k) < PRINT_AT => HasReading(k)

Timing ==
  /\ worker[1] = "none" => worker[3] = "none" /\ round = 0
  /\ worker[1] = "done" => round = ROUNDS
  /\ worker[1] \in {"asleep", "busy"} => round \in 1 .. ROUNDS /\ now <= timer[1]
  /\ worker[3] \in {"none", "asleep"} =>
       /\ worker[1] = "busy" => timer[1] <= Since + Rounds(round - 1) + MAX_CALL
       /\ worker[1] = "asleep" => timer[1] <= Since + Rounds(round)
  /\ worker[3] \in {"busy", "done"} => InTime

Inv == Types /\ Control /\ Timing

USE DEF Workers, Running

LEMMA RoundsGrow ==
  /\ \A k \in Nat : Rounds(k) \in Nat /\ Rounds(k + 1) = Rounds(k) + PERIOD + MAX_CALL
  /\ \A k \in Nat, m \in Nat : k <= m => Rounds(k) <= Rounds(m)
  /\ \A k \in 1 .. ROUNDS : Slowest(k) = Rounds(k - 1) + MAX_CALL
<1> DEFINE d == PERIOD + MAX_CALL
<1>1. d \in Nat
  BY GetFeatureAssumption
<1>2. \A k \in Nat : k * d \in Nat /\ (k + 1) * d = k * d + d
  BY <1>1
<1>3. \A k \in Nat, m \in Nat : k <= m => k * d <= m * d
  <2> SUFFICES ASSUME NEW k \in Nat, NEW m \in Nat, k <= m PROVE k * d <= m * d
    OBVIOUS
  <2>1. m * d = k * d + (m - k) * d
    BY <1>1
  <2>2. (m - k) * d \in Nat
    BY <1>1
  <2> QED
    BY <1>1, <1>2, <2>1, <2>2
<1>4. \A k : Rounds(k) = k * d
  BY DEF Rounds
<1>5. \A k : Slowest(k) = Rounds(k - 1) + MAX_CALL
  BY DEF Slowest, Rounds
<1>6. \A k \in Nat : Rounds(k) + d = Rounds(k) + PERIOD + MAX_CALL
  <2> HIDE DEF d
  <2>1. \A k \in Nat : Rounds(k) \in Nat
    BY <1>2, <1>4
  <2> QED
    BY <2>1, GetFeatureAssumption DEF d
<1> HIDE DEF d
<1> QED
  BY <1>2, <1>3, <1>4, <1>5, <1>6

(* No reading is taken back.                                               *)
LEMMA ReadingsStay ==
  ASSUME round \in Nat,
         \/ round' = round /\ (worker'[1] = worker[1] \/ worker'[1] # "busy")
         \/ round' = round + 1,
         InTime
  PROVE  InTime'
<1> SUFFICES ASSUME NEW k \in 1 .. ROUNDS, HasReading(k) PROVE HasReading(k)'
  BY DEF InTime, Slowest
<1>1. k \in Nat
  BY GetFeatureAssumption
<1> QED
  BY <1>1 DEF HasReading

LEMMA InitInv == Init => Inv
BY DEF Init, Inv, Types, Control, Timing, Early, Late

(* What only main's position, the outcome, vmi or the sampling thread      *)
(* changes leaves the times alone.                                         *)
LEMMA MainInv ==
  ASSUME Inv, Main, \A w \in Workers : ~ Spawn(w)
  PROVE  Inv'
<1>1. worker' = worker /\ timer' = timer /\ round' = round /\ now' = now
  BY DEF Main, Start, Throw, CheckArgs, Return, InitVmi, CheckName, Find, Join, DestroyVmi,
         Stop, WaitForSampler, SaveCsv, End, workers
<1>2. Timing'
  BY <1>1, ReadingsStay DEF Inv, Types, Timing, Since
<1>3. Types' /\ Control'
  <2> USE <1>1 DEF Inv, Types, Control, Early, Late, At, Go, Return, Throw
  <2>1. CASE Start
    BY <2>1 DEF Start
  <2>2. CASE CheckArgs \/ InitVmi \/ CheckName
    BY <2>2 DEF CheckArgs, InitVmi, CheckName
  <2>3. CASE Find("find", "directory") \/ Find("directory", "spawn")
    BY <2>3 DEF Find
  <2>4. CASE Join \/ DestroyVmi \/ Stop
    BY <2>4 DEF Join, Joined, DestroyVmi, Stop, FlagAfterStop
  <2>5. CASE WaitForSampler \/ SaveCsv \/ End
    BY <2>5 DEF WaitForSampler, SamplerEnded, SaveCsv, End, monitor
  <2> QED
    BY <2>1, <2>2, <2>3, <2>4, <2>5 DEF Main
<1> QED
  BY <1>2, <1>3 DEF Inv

(* A new thread 1 reads for the first time; a new thread 3 wakes PRINT_AT  *)
(* after a moment at which thread 1 existed.                               *)
LEMMA SpawnInv ==
  ASSUME Inv, NEW w \in Workers, Spawn(w)
  PROVE  Inv'
<1>1. CASE Throw
  BY <1>1, ReadingsStay
     DEF Throw, workers, monitor, Inv, Types, Control, Timing, Since, Early, Late
<1>2. CASE ~ Throw
  <2>1. /\ pc = "spawn" /\ worker[w] = "none" /\ Running
        /\ \A v \in 1 .. w - 1 : worker[v] # "none"
        /\ worker' = [worker EXCEPT ![w] = IF w = 1 THEN "busy" ELSE "asleep"]
        /\ timer' = [timer EXCEPT ![w] = FirstWake(w)]
        /\ round' = (IF w = 1 THEN 1 ELSE round)
        /\ pc' = (IF w = 3 THEN "join" ELSE "spawn")
        /\ vmi' = vmi /\ sampler' = sampler /\ outcome' = outcome /\ now' = now
    BY <1>2 DEF Spawn, At, Go, monitor
  <2>2. PERIOD \in Nat /\ MAX_CALL \in Nat /\ DUMP_AT \in Nat /\ PRINT_AT \in Nat
        /\ ROUNDS \in Nat \ {0}
    BY GetFeatureAssumption
  <2>3. FirstWake(w) \in Nat
    BY <2>2 DEF FirstWake, Inv, Types
  <2>4. Types' /\ Control'
    BY <2>1, <2>2, <2>3 DEF Inv, Types, Control, Early, Late
  <2>5. CASE w = 1
    <3>1. Rounds(0) = 0
      BY <2>2 DEF Rounds
    <3> QED
      BY <2>1, <2>2, <2>4, <2>5, <3>1 DEF Inv, Types, Timing, Since, FirstWake
  <2>6. CASE w = 2
    BY <2>1, <2>4, <2>6, ReadingsStay DEF Inv, Types, Timing, Since
  <2>7. CASE w = 3
    <3>1. timer'[3] - PRINT_AT = now /\ worker'[3] = "asleep" /\ Since = now
      BY <2>1, <2>2, <2>7 DEF FirstWake, Inv, Types, Since
    <3>2. Since' = Since
      BY <2>1, <2>7, <3>1 DEF Since
    <3>3. worker'[1] = worker[1] /\ timer'[1] = timer[1]
      BY <2>1, <2>7 DEF Inv, Types
    <3> QED
      BY <2>1, <2>4, <2>7, <3>1, <3>2, <3>3 DEF Inv, Timing, Rounds
  <2> QED
    BY <2>5, <2>6, <2>7
<1> QED
  BY <1>1, <1>2

LEMMA SamplerInv == Inv /\ Sampler => Inv'
BY ReadingsStay
   DEF Sampler, Measure, CheckRunning, Throw, workers, monitor, Inv, Types, Control, Timing,
       Since, Early, Late

(* A thread that exists and has not ended is there while main creates the  *)
(* threads or waits for them.                                              *)
LEMMA WorkerControl ==
  ASSUME Inv, NEW w \in Workers, worker[w] \in {"asleep", "busy"},
         NEW state \in {"asleep", "busy", "done"}, NEW time \in Nat,
         Becomes(w, state, time), round' \in Nat
  PROVE  Types' /\ Control'
BY DEF Becomes, monitor, Inv, Types, Control, Early, Late

(* Thread 1 keeps the pace its bound allows.                               *)
LEMMA ReaderInv == Inv /\ (HasRead \/ Read) => Inv'
<1>1. /\ PERIOD \in Nat /\ MAX_CALL \in Nat /\ PRINT_AT \in Nat /\ ROUNDS \in Nat
      /\ \A k \in 1 .. ROUNDS : k \in Nat /\ k - 1 \in Nat /\ (k - 1) + 1 = k
  BY GetFeatureAssumption
<1>2. ASSUME Inv, HasRead PROVE Inv'
  <2>1. worker[1] = "busy" /\ Becomes(1, "asleep", now + PERIOD) /\ round' = round
    BY <1>2 DEF HasRead
  <2>2. Types' /\ Control'
    BY <1>1, <1>2, <2>1, WorkerControl DEF Inv, Types
  <2>3. /\ worker' = [worker EXCEPT ![1] = "asleep"]
        /\ timer' = [timer EXCEPT ![1] = now + PERIOD] /\ now' = now
    BY <2>1 DEF Becomes
  <2>4. Since' = Since /\ Since \in Int
    BY <1>1, <1>2, <2>3 DEF Since, Inv, Types
  <2>5. round \in 1 .. ROUNDS /\ now <= timer[1]
    BY <1>2, <2>1 DEF Inv, Timing
  <2>6. Rounds(round - 1) \in Nat /\ Rounds(round) = Rounds(round - 1) + PERIOD + MAX_CALL
    <3>1. \A k \in Nat : Rounds(k) \in Nat /\ Rounds(k + 1) = Rounds(k) + PERIOD + MAX_CALL
      BY RoundsGrow
    <3> QED
      BY <1>1, <2>5, <3>1
  <2>7. worker[3] \in {"none", "asleep"} => now + PERIOD <= Since + Rounds(round)
    BY <1>1, <1>2, <2>1, <2>4, <2>5, <2>6 DEF Inv, Types, Timing
  <2>8. InTime => InTime'
    BY <1>2, <2>1, <2>3, ReadingsStay DEF Inv, Types
  <2>9. Timing'
    BY <1>1, <1>2, <2>1, <2>3, <2>4, <2>5, <2>7, <2>8 DEF Inv, Types, Timing, Rounds
  <2> QED
    BY <2>2, <2>9 DEF Inv
<1>3. ASSUME Inv, Read PROVE Inv'
  <2>1. worker[1] = "asleep" /\ now = timer[1] /\ round \in 1 .. ROUNDS
    BY <1>3 DEF Read, Awake, Inv, Timing
  <2>2. CASE MoreRounds
    <3>1. Becomes(1, "busy", now + MAX_CALL) /\ round' = round + 1 /\ round < ROUNDS
      BY <1>3, <2>2 DEF Read, MoreRounds
    <3>2. Types' /\ Control'
      BY <1>1, <1>3, <2>1, <3>1, WorkerControl DEF Inv, Types
    <3>3. /\ worker' = [worker EXCEPT ![1] = "busy"]
          /\ timer' = [timer EXCEPT ![1] = now + MAX_CALL] /\ now' = now
      BY <3>1 DEF Becomes
    <3>4. Since' = Since /\ Since \in Int /\ Rounds(round) \in Nat
      <4>1. Rounds(round) \in Nat
        BY <1>1, <2>1, RoundsGrow
      <4> QED
        BY <1>1, <1>3, <2>1, <3>3, <4>1 DEF Since, Inv, Types
    <3>5. worker[3] \in {"none", "asleep"} => now <= Since + Rounds(round)
      BY <1>1, <1>3, <2>1, <3>1 DEF Inv, Types, Timing
    <3>6. round' - 1 = round
      BY <2>1, <3>1
    <3>7. worker[3] \in {"none", "asleep"} =>
            now + MAX_CALL <= Since + Rounds(round) + MAX_CALL
      BY <1>1, <1>3, <3>4, <3>5 DEF Inv, Types
    <3>8. InTime => InTime'
      BY <1>3, <3>1, ReadingsStay DEF Inv, Types
    <3>9. Timing'
      BY <1>1, <1>3, <2>1, <3>1, <3>3, <3>4, <3>6, <3>7, <3>8 DEF Inv, Types, Timing, Rounds
    <3> QED
      BY <3>2, <3>9 DEF Inv
  <2>3. CASE ~ MoreRounds
    <3>1. Becomes(1, "done", now) /\ round' = round /\ round = ROUNDS
      BY <1>1, <1>3, <2>1, <2>3 DEF Read, MoreRounds
    <3>2. Types' /\ Control'
      BY <1>3, <2>1, <3>1, WorkerControl DEF Inv, Types
    <3>3. worker' = [worker EXCEPT ![1] = "done"] /\ now' = now
      BY <3>1 DEF Becomes
    <3>4. InTime => InTime'
      BY <1>3, <3>1, <3>3, ReadingsStay DEF Inv, Types
    <3>5. Timing'
      BY <1>1, <1>3, <2>1, <3>1, <3>3, <3>4 DEF Inv, Types, Timing
    <3> QED
      BY <3>2, <3>5 DEF Inv
  <2> QED
    BY <2>2, <2>3
<1> QED
  BY <1>2, <1>3

(* When thread 3 wakes, a reading that is in time is neither under way nor *)
(* to come: its bound would put it before that time.                       *)
LEMMA PrinterWakes ==
  ASSUME Inv, Awake(3), NEW k \in 1 .. ROUNDS, Slowest(k) < PRINT_AT
  PROVE  HasReading(k)
<1>1. /\ worker[3] = "asleep" /\ now = timer[3] /\ now \in Nat /\ timer[1] \in Nat
      /\ round \in Nat /\ worker[1] \in {"asleep", "busy", "done"}
  BY DEF Awake, Inv, Types, Timing
<1>2. PERIOD \in Nat /\ MAX_CALL \in Nat /\ PRINT_AT \in Nat /\ ROUNDS \in Nat
  BY GetFeatureAssumption
<1>3. Since = now - PRINT_AT
  BY <1>1 DEF Since
<1>4. Rounds(k - 1) \in Nat /\ Rounds(k - 1) + MAX_CALL < PRINT_AT
  BY <1>2, RoundsGrow
<1>5. CASE worker[1] = "busy"
  <2>1. round \in 1 .. ROUNDS /\ now <= now - PRINT_AT + Rounds(round - 1) + MAX_CALL
    <3>1. /\ round \in 1 .. ROUNDS /\ now <= timer[1]
          /\ timer[1] <= Since + Rounds(round - 1) + MAX_CALL
      BY <1>1, <1>5 DEF Inv, Timing
    <3>2. Rounds(round - 1) \in Nat
      BY <1>2, <3>1, RoundsGrow
    <3> QED
      BY <1>1, <1>2, <1>3, <3>1, <3>2
  <2>2. Rounds(round - 1) \in Nat /\ (round <= k => Rounds(round - 1) <= Rounds(k - 1))
    BY <1>2, <2>1, RoundsGrow
  <2> QED
    BY <1>1, <1>2, <1>4, <2>1, <2>2 DEF HasReading
<1>6. CASE worker[1] = "asleep"
  <2>1. round \in 1 .. ROUNDS /\ now <= now - PRINT_AT + Rounds(round)
    <3>1. round \in 1 .. ROUNDS /\ now <= timer[1] /\ timer[1] <= Since + Rounds(round)
      BY <1>1, <1>6 DEF Inv, Timing
    <3>2. Rounds(round) \in Nat
      BY <1>2, <3>1, RoundsGrow
    <3> QED
      BY <1>1, <1>2, <1>3, <3>1, <3>2
  <2>2. Rounds(round) \in Nat /\ (round < k => Rounds(round) <= Rounds(k - 1))
    BY <1>2, <2>1, RoundsGrow
  <2> QED
    BY <1>1, <1>2, <1>4, <1>6, <2>1, <2>2 DEF HasReading
<1>7. CASE worker[1] = "done"
  BY <1>1, <1>2, <1>7 DEF Inv, Timing, HasReading
<1> QED
  BY <1>1, <1>5, <1>6, <1>7

LEMMA WorkerInv ==
  ASSUME Inv, NEW w \in Workers, Worker(w)
  PROVE  Inv'
<1>1. CASE w = 1
  BY <1>1, ReaderInv DEF Worker
<1>2. CASE w \in {2, 3} /\ Work(w)
  <2>1. /\ worker[w] = "asleep" /\ Becomes(w, "busy", now) /\ round' = round
        /\ worker' = [worker EXCEPT ![w] = "busy"] /\ now' = now
        /\ timer' = [timer EXCEPT ![w] = now]
    BY <1>2 DEF Work, Awake, Becomes
  <2>2. Types' /\ Control'
    BY <2>1, WorkerControl DEF Inv, Types
  <2>3. CASE w = 2
    <3>1. worker'[1] = worker[1] /\ worker'[3] = worker[3] /\ timer'[1] = timer[1] /\ timer'[3] = timer[3]
      BY <2>1, <2>3 DEF Inv, Types
    <3>2. Since' = Since
      BY <2>1, <3>1 DEF Since
    <3>3. InTime => InTime'
      BY <2>1, <3>1, ReadingsStay DEF Inv, Types
    <3> QED
      BY <2>1, <2>2, <3>1, <3>2, <3>3 DEF Inv, Timing, Rounds
  <2>4. CASE w = 3
    <3>1. InTime
      BY <1>2, <2>4, PrinterWakes DEF Work, InTime
    <3>2. worker'[1] = worker[1] /\ timer'[1] = timer[1] /\ worker'[3] = "busy"
      BY <2>1, <2>4 DEF Inv, Types
    <3>3. InTime'
      BY <2>1, <3>1, <3>2, ReadingsStay DEF Inv, Types
    <3> QED
      BY <1>2, <2>1, <2>2, <2>4, <3>2, <3>3 DEF Inv, Types, Timing
  <2> QED
    BY <1>2, <2>3, <2>4
<1>3. CASE w \in {2, 3} /\ HasWorked(w)
  <2>1. /\ worker[w] = "busy" /\ Becomes(w, "done", now) /\ round' = round
        /\ worker' = [worker EXCEPT ![w] = "done"] /\ now' = now
        /\ timer' = [timer EXCEPT ![w] = now]
    BY <1>3 DEF HasWorked, Becomes
  <2>2. Types' /\ Control'
    BY <2>1, WorkerControl DEF Inv, Types
  <2> QED
    BY <1>3, <2>1, <2>2, ReadingsStay DEF Inv, Types, Timing, Since
<1> QED
  BY <1>1, <1>2, <1>3 DEF Worker

(* Time passes only up to the next thread that is due.                     *)
LEMMA TickInv == Inv /\ Tick => Inv'
<1> SUFFICES ASSUME Inv, Tick PROVE Inv'
  OBVIOUS
<1>1. /\ now' = now + 1 /\ pc' = pc /\ outcome' = outcome /\ vmi' = vmi
      /\ sampler' = sampler /\ worker' = worker /\ timer' = timer /\ round' = round
      /\ worker[1] \in {"asleep", "busy"} => now < timer[1]
  BY DEF Tick, Timed, monitor
<1>2. Types' /\ Control'
  BY <1>1 DEF Inv, Types, Control
<1>3. PRINT_AT \in Nat /\ MAX_CALL \in Nat
  BY GetFeatureAssumption
<1>4. Since \in Int /\ Since' \in Int /\ Since <= Since'
  BY <1>1, <1>3 DEF Since, Inv, Types
<1>5. round \in 1 .. ROUNDS => Rounds(round - 1) \in Nat /\ Rounds(round) \in Nat
  <2>1. ROUNDS \in Nat /\ \A k \in Nat : Rounds(k) \in Nat
    BY RoundsGrow, GetFeatureAssumption
  <2> QED
    BY <2>1
<1>6. InTime => InTime'
  BY <1>1, ReadingsStay DEF Inv, Types
<1>7. Timing'
  BY <1>1, <1>3, <1>4, <1>5, <1>6 DEF Inv, Types, Timing, Rounds
<1> QED
  BY <1>2, <1>7 DEF Inv

LEMMA NextInv == Inv /\ [Next]_vars => Inv'
<1>1. CASE UNCHANGED vars
  BY <1>1, ReadingsStay DEF vars, monitor, workers, Inv, Types, Control, Timing, Since
<1> QED
  BY <1>1, MainInv, SpawnInv, SamplerInv, WorkerInv, TickInv DEF Next, Ended

LEMMA Invariant == Spec => []Inv
BY InitInv, NextInv, PTL DEF Spec

(* However long the dump takes, vmi is destroyed after it.                 *)
THEOREM VmiOutlivesTheDump == Spec => []VmiIsOpenWhenUsed
<1>1. Inv => VmiIsOpenWhenUsed
  BY DEF Inv, Types, Control, VmiIsOpenWhenUsed, Early, Late
<1> QED
  BY <1>1, Invariant, PTL

(* Without a lock and whatever the numbers of rounds and seconds, what     *)
(* thread 3 prints has every reading that is made, at its slowest, before  *)
(* the time of the print.                                                  *)
THEOREM PrintsTheReadingsInTime == Spec => []PrintsWholeRecord
<1>1. Inv => PrintsWholeRecord
  BY DEF Inv, Timing, PrintsWholeRecord, InTime
<1> QED
  BY <1>1, Invariant, PTL

(* The usage file is written by the only thread left.                      *)
THEOREM SavesWithoutOthers == Spec => []SavesAlone
<1>1. Inv => SavesAlone
  BY DEF Inv, Control, SavesAlone, Late
<1> QED
  BY <1>1, Invariant, PTL
=============================================================================
