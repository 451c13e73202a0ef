-------------------------- MODULE CollectDataProofs --------------------------
(***************************************************************************)
(* Proofs about CollectData: a collecting thread, its monitor and the      *)
(* sampling thread agree at every step, for any number of threads and any  *)
(* of the calls failing.                                                   *)
(***************************************************************************)
EXTENDS CollectData, FiniteSetTheorems, TLAPS

PCs == {"create", "start", "open", "csv", "sample", "close", "save", "write",
        "destroy", "join", "free", "done"}

Thread == [pid : PIDs, pc : PCs, fds : Seq(FDs), sample : Nat,
           file : {"none", "alone", "shared"}, after : {"none", "save", "destroy"}]

PerformanceMonitor ==
  [mem : {"none", "live", "freed"}, running : BOOLEAN, data_count : Nat,
   data_mutex : {"free", "owner"}, sampler : {"none", "check", "append", "done"}]

Types ==
  /\ collectors \in Seq(Thread)
  /\ DOMAIN collectors \subseteq Threads
  /\ monitors \in [Threads -> PerformanceMonitor]

(* A monitor is stopped exactly if no sampling thread will look at it.     *)
Sampled(m) ==
  /\ m.mem = "live"
  /\ IF m.running THEN m.sampler \in {"check", "append"} ELSE m.sampler = "none"

Fits(pc, m) ==
  /\ pc = "create" => m = NoMonitor
  /\ pc = "start" => m.mem = "live" /\ ~ m.running /\ m.sampler = "none"
  /\ pc \in {"open", "csv", "sample", "close", "save", "write", "destroy"} => Sampled(m)
  /\ pc = "write" => m.data_mutex = "owner"
  /\ pc = "join" => m.mem = "live" /\ ~ m.running /\ m.sampler # "none"
  /\ pc = "free" => m.mem = "live" /\ m.sampler \in {"none", "done"}
  /\ pc = "done" => m.sampler \in {"none", "done"}

(* What a thread has open.                                                 *)
Holds(c) ==
  /\ c.pc \in {"create", "start"} => c.fds = <<>> /\ c.file = "none"
  /\ c.pc = "open" => Len(c.fds) < TOTAL_EVENTS /\ c.file = "none"
  /\ c.pc = "csv" => c.file = "none"
  /\ c.pc \in {"csv", "sample"} => c.fds # <<>>
  /\ c.pc = "close" => c.fds # <<>> /\ c.after \in {"save", "destroy"}
  /\ c.pc \in {"save", "write", "destroy", "join", "free", "done"} =>
       c.fds = <<>> \/ (c.file = "none" /\ Len(c.fds) < TOTAL_EVENTS)

Inv ==
  /\ Types
  /\ \A t \in DOMAIN collectors : Fits(collectors[t].pc, monitors[t]) /\ Holds(collectors[t])
  /\ \A t \in Threads \ DOMAIN collectors : monitors[t] = NoMonitor

-----------------------------------------------------------------------------
LEMMA InitInv == Init => Inv
<1> SUFFICES ASSUME Init PROVE Inv
  OBVIOUS
<1>1. NoMonitor \in PerformanceMonitor
  BY DEF NoMonitor, PerformanceMonitor
<1> QED
  BY <1>1 DEF Init, MonitorInit, Inv, Types

(* What a thread or its sampling thread does to the two of them only.      *)
LEMMA OneThread ==
  ASSUME Inv, NEW t \in DOMAIN collectors, NEW c \in Thread, NEW m \in PerformanceMonitor,
         collectors' = [collectors EXCEPT ![t] = c],
         monitors' = [monitors EXCEPT ![t] = m],
         Fits(c.pc, m), Holds(c)
  PROVE  Inv'
<1>1. /\ collectors' \in Seq(Thread) /\ DOMAIN collectors' = DOMAIN collectors
      /\ collectors'[t] = c
      /\ \A u \in DOMAIN collectors \ {t} : collectors'[u] = collectors[u]
  BY DEF Inv, Types
<1>2. /\ monitors' \in [Threads -> PerformanceMonitor]
      /\ monitors'[t] = m
      /\ \A u \in Threads \ {t} : monitors'[u] = monitors[u]
  BY DEF Inv, Types
<1>3. \A u \in DOMAIN collectors' : Fits(collectors'[u].pc, monitors'[u]) /\ Holds(collectors'[u])
  <2> SUFFICES ASSUME NEW u \in DOMAIN collectors
               PROVE  Fits(collectors'[u].pc, monitors'[u]) /\ Holds(collectors'[u])
    BY <1>1
  <2>1. CASE u = t
    BY <2>1, <1>1, <1>2
  <2>2. CASE u # t
    BY <2>2, <1>1, <1>2 DEF Inv, Types
  <2> QED
    BY <2>1, <2>2
<1>4. \A u \in Threads \ DOMAIN collectors' : monitors'[u] = NoMonitor
  BY <1>1, <1>2 DEF Inv, Types
<1> QED
  BY <1>1, <1>2, <1>3, <1>4 DEF Inv, Types

-----------------------------------------------------------------------------
(* The steps.                                                              *)

LEMMA HandleEventInv ==
  ASSUME Inv, NEW p \in PIDs, HandleEvent(p)
  PROVE  Inv'
<1> DEFINE n == Len(collectors) + 1
           c == NewCollector(p)
<1>1. c \in Thread /\ Fits(c.pc, NoMonitor) /\ Holds(c)
  BY DEF NewCollector, Thread, PCs, Fits, Holds, Sampled
<1>2. monitors' = monitors
  BY DEF HandleEvent
<1>3. CASE collectors' = collectors
  BY <1>2, <1>3 DEF Inv, Types
<1>4. CASE collectors' = Append(collectors, c)
  <2>1. n \in Threads \ DOMAIN collectors
    <3>1. Cardinality(Threads) \in Nat
      BY CollectDataAssumption, FS_CardinalityType
    <3> QED
      BY <3>1, CollectDataAssumption DEF Inv, Types, HandleEvent
  <2>2. /\ collectors' \in Seq(Thread) /\ DOMAIN collectors' = DOMAIN collectors \cup {n}
        /\ collectors'[n] = c
        /\ \A u \in DOMAIN collectors : collectors'[u] = collectors[u]
    BY <1>1, <1>4 DEF Inv, Types
  <2>3. \A u \in DOMAIN collectors' : Fits(collectors'[u].pc, monitors'[u]) /\ Holds(collectors'[u])
    <3> SUFFICES ASSUME NEW u \in DOMAIN collectors'
                 PROVE  Fits(collectors'[u].pc, monitors'[u]) /\ Holds(collectors'[u])
      OBVIOUS
    <3>1. CASE u = n
      BY <3>1, <1>1, <1>2, <2>1, <2>2 DEF Inv
    <3>2. CASE u \in DOMAIN collectors
      BY <3>2, <1>2, <2>2 DEF Inv
    <3> QED
      BY <3>1, <3>2, <2>2
  <2> QED
    BY <1>2, <2>1, <2>2, <2>3 DEF Inv, Types
<1> QED
  BY <1>3, <1>4 DEF HandleEvent

(* What is known of a thread before its step.                              *)
LEMMA Before ==
  ASSUME Inv, NEW t \in DOMAIN collectors
  PROVE  /\ collectors[t] \in Thread /\ monitors[t] \in PerformanceMonitor
         /\ Fits(collectors[t].pc, monitors[t]) /\ Holds(collectors[t])
         /\ collectors = [collectors EXCEPT ![t] = collectors[t]]
         /\ monitors = [monitors EXCEPT ![t] = monitors[t]]
BY DEF Inv, Types

LEMMA CreateInv ==
  ASSUME Inv, NEW t \in DOMAIN collectors, Create(t)
  PROVE  Inv'
<1> DEFINE me == collectors[t]
<1>1. CASE Monitor(t, Created) /\ Go(t, "start")
  <2> DEFINE c == [me EXCEPT !.pc = "start"]
  <2>1. /\ me \in Thread /\ me.pc = "create" /\ monitors[t] = NoMonitor
        /\ me.fds = <<>> /\ me.file = "none"
    BY Before DEF Create, At, Fits, Holds
  <2>2. c \in Thread /\ c.pc = "start" /\ c.fds = <<>> /\ c.file = "none"
    BY <2>1 DEF Thread, PCs
  <2>3. Created \in PerformanceMonitor /\ Fits("start", Created)
    BY DEF PerformanceMonitor, Created, NoMonitor, Fits
  <2>4. Holds(c)
    BY <2>2 DEF Holds
  <2> HIDE DEF c
  <2> QED
    BY <1>1, <2>2, <2>3, <2>4, OneThread DEF Monitor, Go, c
<1>2. CASE UNCHANGED monitors /\ Go(t, "done")
  <2> DEFINE c == [me EXCEPT !.pc = "done"]
  <2>1. /\ me \in Thread /\ me.pc = "create" /\ monitors[t] = NoMonitor
        /\ me.fds = <<>> /\ me.file = "none"
    BY Before DEF Create, At, Fits, Holds
  <2>2. c \in Thread /\ c.pc = "done" /\ c.fds = <<>> /\ c.file = "none"
    BY <2>1 DEF Thread, PCs
  <2>3. Fits("done", monitors[t])
    BY <2>1 DEF NoMonitor, Fits
  <2>4. Holds(c)
    BY <2>2 DEF Holds
  <2>5. collectors' = [collectors EXCEPT ![t] = c]
    BY <1>2 DEF Go
  <2>6. monitors[t] \in PerformanceMonitor /\ monitors' = [monitors EXCEPT ![t] = monitors[t]]
    BY <1>2, Before
  <2> HIDE DEF c
  <2> QED
    BY <2>2, <2>3, <2>4, <2>5, <2>6, OneThread
<1> QED
  BY <1>1, <1>2 DEF Create

LEMMA StartInv ==
  ASSUME Inv, NEW t \in DOMAIN collectors, Start(t)
  PROVE  Inv'
<1> DEFINE c == [collectors[t] EXCEPT !.pc = "open"]
<1>1. PICK m \in Started(monitors[t]) : Monitor(t, m)
  BY DEF Start
<1>2. m \in PerformanceMonitor /\ Sampled(m)
  BY Before, <1>1 DEF Start, At, Started, PerformanceMonitor, Fits, Sampled
<1>3. collectors[t] \in Thread /\ collectors[t].fds = <<>> /\ collectors[t].file = "none"
  BY Before DEF Start, At, Holds
<1>4. c \in Thread /\ c.pc = "open" /\ c.fds = <<>> /\ c.file = "none"
  BY <1>3 DEF Thread, PCs
<1>5. Len(c.fds) < TOTAL_EVENTS
  <2>1. 0 < TOTAL_EVENTS
    BY CollectDataAssumption
  <2> QED
    BY <1>4, <2>1
<1>6. Holds(c) /\ Fits("open", m)
  BY <1>2, <1>4, <1>5 DEF Holds, Fits
<1> HIDE DEF c
<1> QED
  BY <1>1, <1>2, <1>4, <1>6, OneThread DEF Start, Monitor, Go, c

LEMMA OpenEventInv ==
  ASSUME Inv, NEW t \in DOMAIN collectors, OpenEvent(t)
  PROVE  Inv'
<1> DEFINE me == collectors[t]
<1>1. /\ me \in Thread /\ me.fds \in Seq(FDs) /\ Len(me.fds) < TOTAL_EVENTS
      /\ me.file = "none" /\ me.pc = "open" /\ Sampled(monitors[t])
  BY Before DEF OpenEvent, At, Holds, Thread, Fits
<1>2. CASE Go(t, "destroy")
  <2> DEFINE c == [me EXCEPT !.pc = "destroy"]
  <2>1. c \in Thread /\ c.pc = "destroy" /\ c.fds = me.fds /\ c.file = "none"
    BY <1>1 DEF Thread, PCs
  <2>2. Holds(c) /\ Fits(c.pc, monitors[t])
    BY <1>1, <2>1 DEF Holds, Fits
  <2>3. collectors' = [collectors EXCEPT ![t] = c]
    BY <1>2 DEF Go
  <2> QED
    BY <2>1, <2>2, <2>3, Before, OneThread DEF OpenEvent
<1>3. ASSUME NEW f \in FDs,
             collectors' = [collectors EXCEPT
               ![t].fds = Append(@, f),
               ![t].pc = IF Len(collectors[t].fds) + 1 = TOTAL_EVENTS THEN "csv"
                         ELSE "open"]
      PROVE  Inv'
  <2> DEFINE opened == Append(me.fds, f)
             pc == IF Len(me.fds) + 1 = TOTAL_EVENTS THEN "csv" ELSE "open"
             c == [me EXCEPT !.fds = opened, !.pc = pc]
  <2>1. opened \in Seq(FDs) /\ Len(opened) = Len(me.fds) + 1 /\ opened # <<>>
    BY <1>1
  <2>2. pc \in {"csv", "open"} /\ (pc = "open" => Len(opened) # TOTAL_EVENTS)
    BY <2>1
  <2>3. c \in Thread /\ c.pc = pc /\ c.fds = opened /\ c.file = "none"
    <3> HIDE DEF opened, pc
    <3> QED
      BY <1>1, <2>1, <2>2 DEF Thread, PCs
  <2>4. Len(opened) <= TOTAL_EVENTS /\ Len(opened) \in Nat /\ TOTAL_EVENTS \in Nat
    BY <1>1, <2>1, CollectDataAssumption
  <2>5. Holds(c) /\ Fits(c.pc, monitors[t])
    <3> HIDE DEF opened, pc, c
    <3> QED
      BY <1>1, <2>1, <2>2, <2>3, <2>4 DEF Holds, Fits
  <2>6. collectors' = [collectors EXCEPT ![t] = c]
    BY <1>3
  <2> HIDE DEF c
  <2> QED
    BY <2>3, <2>5, <2>6, Before, OneThread DEF OpenEvent
<1> QED
  BY <1>2, <1>3 DEF OpenEvent, Free

(* What a thread on its way to the closing loop still is.                  *)
LEMMA ClosingIs ==
  ASSUME NEW c \in Thread, NEW after \in {"save", "destroy"}
  PROVE  /\ Closing(c, after) \in Thread
         /\ Closing(c, after).pc = "close" /\ Closing(c, after).after = after
         /\ Closing(c, after).fds = c.fds /\ Closing(c, after).pid = c.pid
         /\ Closing(c, after).sample = c.sample /\ Closing(c, after).file = c.file
BY DEF Closing, Thread, PCs

LEMMA ClosingInv ==
  ASSUME Inv, NEW t \in DOMAIN collectors, NEW c \in Thread,
         NEW after \in {"save", "destroy"},
         collectors[t].pc \in {"csv", "sample"}, c.fds = collectors[t].fds,
         collectors' = [collectors EXCEPT ![t] = Closing(c, after)],
         monitors' = monitors
  PROVE  Inv'
<1> DEFINE d == Closing(c, after)
<1>1. d \in Thread /\ d.pc = "close" /\ d.after = after /\ d.fds = c.fds
  BY ClosingIs
<1>2. c.fds # <<>> /\ Sampled(monitors[t])
  BY Before DEF Holds, Fits
<1>3. Holds(d) /\ Fits(d.pc, monitors[t])
  BY <1>1, <1>2 DEF Holds, Fits
<1> HIDE DEF d
<1> QED
  BY <1>1, <1>3, Before, OneThread DEF d

LEMMA CloseEventInv ==
  ASSUME Inv, NEW t \in DOMAIN collectors, CloseEvent(t)
  PROVE  Inv'
<1> DEFINE me == collectors[t]
           rest == Tail(me.fds)
           pc == IF Len(me.fds) = 1 THEN me.after ELSE "close"
           c == [me EXCEPT !.fds = rest, !.pc = pc]
<1>1. /\ me \in Thread /\ me.fds \in Seq(FDs) /\ me.fds # <<>>
      /\ me.after \in {"save", "destroy"} /\ Sampled(monitors[t])
  BY Before DEF CloseEvent, At, Holds, Thread, Fits
<1>2. rest \in Seq(FDs) /\ Len(rest) = Len(me.fds) - 1 /\ Len(me.fds) \in Nat
  BY <1>1
<1>3. /\ pc \in {"save", "destroy", "close"}
      /\ IF pc = "close" THEN rest # <<>> ELSE rest = <<>>
  <2>1. CASE Len(me.fds) = 1
    <3>1. Len(rest) = 0
      BY <1>2, <2>1
    <3>2. rest = <<>>
      <4> HIDE DEF rest
      <4> QED
        BY <1>2, <3>1
    <3> QED
      BY <1>1, <2>1, <3>2
  <2>2. CASE Len(me.fds) # 1
    <3>1. Len(rest) # 0
      BY <1>2, <2>2
    <3>2. rest # <<>>
      <4> HIDE DEF rest
      <4> QED
        BY <3>1
    <3> QED
      BY <2>2, <3>2
  <2> QED
    BY <2>1, <2>2
<1>4. c \in Thread /\ c.pc = pc /\ c.fds = rest /\ c.after = me.after
  <2> HIDE DEF rest, pc
  <2> QED
    BY <1>1, <1>2, <1>3 DEF Thread, PCs
<1>5. Holds(c) /\ Fits(c.pc, monitors[t])
  <2> HIDE DEF rest, pc, c
  <2> QED
    BY <1>1, <1>3, <1>4 DEF Holds, Fits
<1>6. collectors' = [collectors EXCEPT ![t] = c] /\ monitors' = monitors
  BY DEF CloseEvent
<1> HIDE DEF c
<1> QED
  BY <1>4, <1>5, <1>6, Before, OneThread

(* The other threads of the PID are all writing; of them only file changes. *)
LEMMA OpenCsvInv ==
  ASSUME Inv, NEW t \in DOMAIN collectors, OpenCsv(t)
  PROVE  Inv'
<1> DEFINE me == collectors[t]
           others == {u \in DOMAIN collectors \ {t} :
                        Writing(u) /\ collectors[u].pid = collectors[t].pid}
<1>1. /\ me \in Thread /\ me.file = "none" /\ me.pc = "csv" /\ Sampled(monitors[t])
      /\ monitors' = monitors /\ me.fds # <<>>
  BY Before DEF OpenCsv, At, Holds, Fits
<1>2. CASE collectors' = [collectors EXCEPT ![t] = Closing(@, "destroy")]
  BY <1>1, <1>2, ClosingInv
<1>3. CASE collectors' = [u \in DOMAIN collectors |->
             IF u = t
             THEN [collectors[u] EXCEPT !.pc = "sample",
                     !.file = IF others = {} THEN "alone" ELSE "shared"]
             ELSE [collectors[u] EXCEPT !.file = IF u \in others THEN "shared" ELSE @]]
  <2>1. \A u \in DOMAIN collectors :
           /\ collectors'[u] \in Thread
           /\ Fits(collectors'[u].pc, monitors[u]) /\ Holds(collectors'[u])
    <3> SUFFICES ASSUME NEW u \in DOMAIN collectors
                 PROVE  /\ collectors'[u] \in Thread
                        /\ Fits(collectors'[u].pc, monitors[u]) /\ Holds(collectors'[u])
      OBVIOUS
    <3>1. collectors[u] \in Thread /\ Fits(collectors[u].pc, monitors[u]) /\ Holds(collectors[u])
      BY DEF Inv, Types
    <3>2. CASE u = t
      <4>1. PICK f \in {"alone", "shared"} :
              collectors'[u] = [collectors[u] EXCEPT !.pc = "sample", !.file = f]
        BY <1>3, <3>2
      <4>2. /\ collectors'[u] \in Thread /\ collectors'[u].pc = "sample"
            /\ collectors'[u].fds = me.fds
        BY <4>1, <3>1, <3>2 DEF Thread, PCs
      <4> QED
        BY <4>2, <1>1, <3>2 DEF Fits, Holds
    <3>3. CASE u \in others
      <4>1. collectors'[u] = [collectors[u] EXCEPT !.file = "shared"]
        BY <1>3, <3>3
      <4>2. collectors[u].pc = "sample" /\ collectors[u].fds # <<>>
        BY <3>1, <3>3 DEF Writing, Holds
      <4>3. /\ collectors'[u] \in Thread /\ collectors'[u].pc = "sample"
            /\ collectors'[u].fds = collectors[u].fds
        BY <4>1, <4>2, <3>1 DEF Thread
      <4> QED
        BY <4>2, <4>3, <3>1 DEF Fits, Holds
    <3>4. CASE u # t /\ u \notin others
      <4>1. collectors'[u] = collectors[u]
        BY <1>3, <3>4, <3>1 DEF Thread
      <4> QED
        BY <4>1, <3>1
    <3> QED
      BY <3>2, <3>3, <3>4
  <2>2. collectors' \in Seq(Thread) /\ DOMAIN collectors' = DOMAIN collectors
    <3>1. PICK n \in Nat : DOMAIN collectors = 1 .. n
      BY DEF Inv, Types
    <3>2. collectors' \in [1 .. n -> Thread]
      BY <1>3, <2>1, <3>1
    <3> QED
      BY <3>1, <3>2
  <2> QED
    BY <1>1, <2>1, <2>2 DEF Inv, Types
<1> QED
  BY <1>2, <1>3 DEF OpenCsv

LEMMA SampleInv ==
  ASSUME Inv, NEW t \in DOMAIN collectors, Sample(t)
  PROVE  Inv'
<1> DEFINE me == collectors[t]
           c == [me EXCEPT !.sample = @ + 1]
<1>1. /\ me \in Thread /\ me.sample \in Nat /\ me.pc = "sample" /\ Fits(me.pc, monitors[t])
      /\ me.fds # <<>>
  BY Before DEF Sample, At, Thread, Holds
<1>2. c \in Thread /\ c.pc = "sample" /\ c.fds = me.fds
  <2>1. me.sample + 1 \in Nat
    BY <1>1
  <2>2. \A n \in Nat : [me EXCEPT !.sample = n] \in Thread
                       /\ [me EXCEPT !.sample = n].pc = "sample"
                       /\ [me EXCEPT !.sample = n].fds = me.fds
    BY <1>1 DEF Thread
  <2> QED
    BY <2>1, <2>2
<1>3. Holds(c) /\ Fits(c.pc, monitors[t])
  BY <1>1, <1>2 DEF Holds
<1>4. collectors' = [collectors EXCEPT ![t] = c] /\ monitors' = monitors
  BY DEF Sample
<1> QED
  BY <1>2, <1>3, <1>4, Before, OneThread

LEMMA SampleLastInv ==
  ASSUME Inv, NEW t \in DOMAIN collectors, SampleLast(t)
  PROVE  Inv'
<1> DEFINE me == collectors[t]
           c == [me EXCEPT !.sample = TOTAL_SAMPLES]
<1>1. me \in Thread /\ me.pc = "sample"
  BY Before DEF SampleLast, At
<1>2. c \in Thread /\ c.fds = me.fds
  BY <1>1, CollectDataAssumption DEF Thread
<1>3. collectors' = [collectors EXCEPT ![t] = Closing(c, "save")] /\ monitors' = monitors
  BY DEF SampleLast
<1> HIDE DEF c
<1> QED
  BY <1>1, <1>2, <1>3, ClosingInv

LEMMA SampleFailsInv ==
  ASSUME Inv, NEW t \in DOMAIN collectors, SampleFails(t)
  PROVE  Inv'
<1>1. /\ collectors[t] \in Thread /\ collectors[t].pc = "sample" /\ monitors' = monitors
      /\ collectors' = [collectors EXCEPT ![t] = Closing(collectors[t], "destroy")]
  BY Before DEF SampleFails, At
<1> QED
  BY <1>1, ClosingInv

(* Going on to pc with monitor m, nothing opened or closed.                *)
LEMMA GoInv ==
  ASSUME Inv, NEW t \in DOMAIN collectors, NEW pc \in PCs, NEW m \in PerformanceMonitor,
         Go(t, pc), monitors' = [monitors EXCEPT ![t] = m],
         Fits(pc, m),
         pc \in {"write", "destroy", "join", "free", "done"},
         collectors[t].pc \in {"save", "write", "destroy", "join", "free"}
  PROVE  Inv'
<1> DEFINE c == [collectors[t] EXCEPT !.pc = pc]
<1>1. c \in Thread /\ c.pc = pc /\ c.fds = collectors[t].fds /\ c.file = collectors[t].file
  BY Before DEF Thread
<1>2. Holds(c)
  BY <1>1, Before DEF Holds
<1> QED
  BY <1>1, <1>2, OneThread DEF Go

LEMMA SaveOpenInv ==
  ASSUME Inv, NEW t \in DOMAIN collectors, SaveOpen(t)
  PROVE  Inv'
<1> DEFINE me == collectors[t]
           n == monitors[t]
<1>1. me \in Thread /\ n \in PerformanceMonitor /\ me.pc = "save" /\ Sampled(n)
  BY Before DEF SaveOpen, At, Fits
<1>2. CASE Monitor(t, Locked(n)) /\ Go(t, "write")
  <2>1. /\ Locked(n) \in PerformanceMonitor /\ "write" \in PCs
        /\ Sampled(Locked(n)) /\ Locked(n).data_mutex = "owner"
    BY <1>1 DEF Locked, PerformanceMonitor, PCs, Sampled
  <2>2. Fits("write", Locked(n))
    BY <2>1 DEF Fits
  <2> QED
    BY <1>1, <1>2, <2>1, <2>2, GoInv DEF Monitor
<1>3. CASE Monitor(t, SaveFailed(n)) /\ Go(t, "destroy")
  <2>1. Fits("destroy", n) /\ "destroy" \in PCs
    BY <1>1 DEF Fits, PCs
  <2> QED
    BY <1>1, <1>3, <2>1, GoInv DEF Monitor, SaveFailed
<1> QED
  BY <1>2, <1>3 DEF SaveOpen

LEMMA SaveWriteInv ==
  ASSUME Inv, NEW t \in DOMAIN collectors, SaveWrite(t)
  PROVE  Inv'
<1> DEFINE m == Unlocked(monitors[t])
<1>1. /\ collectors[t].pc = "write" /\ Go(t, "destroy") /\ Monitor(t, m)
      /\ monitors[t] \in PerformanceMonitor /\ Sampled(monitors[t])
  BY Before DEF SaveWrite, At, Fits
<1>2. m \in PerformanceMonitor /\ Sampled(m) /\ "destroy" \in PCs
  BY <1>1 DEF Unlocked, PerformanceMonitor, PCs, Sampled
<1>3. Fits("destroy", m)
  BY <1>2 DEF Fits
<1> QED
  BY <1>1, <1>2, <1>3, GoInv DEF Monitor

LEMMA DestroyInv ==
  ASSUME Inv, NEW t \in DOMAIN collectors, Destroy(t)
  PROVE  Inv'
<1> DEFINE n == monitors[t]
<1>1. collectors[t].pc = "destroy" /\ n \in PerformanceMonitor /\ Sampled(n)
  BY Before DEF Destroy, At, Fits
<1>2. CASE n.running
  <2>1. /\ Stopping(n) \in PerformanceMonitor /\ "join" \in PCs
        /\ Stopping(n).mem = "live" /\ ~ Stopping(n).running /\ Stopping(n).sampler # "none"
    BY <1>1, <1>2 DEF Stopping, PerformanceMonitor, PCs, Sampled
  <2>2. Fits("join", Stopping(n))
    BY <2>1 DEF Fits
  <2>3. Monitor(t, Stopping(n)) /\ Go(t, "join")
    BY <1>2 DEF Destroy, Stops
  <2> QED
    BY <1>1, <2>1, <2>2, <2>3, GoInv DEF Monitor
<1>3. CASE ~ n.running
  <2>1. Fits("free", n) /\ "free" \in PCs
    BY <1>1, <1>3 DEF Fits, Sampled, PCs
  <2>2. UNCHANGED monitors /\ Go(t, "free")
    BY <1>3 DEF Destroy, Stops
  <2> QED
    BY <1>1, <2>1, <2>2, Before, GoInv
<1> QED
  BY <1>2, <1>3

LEMMA JoinInv ==
  ASSUME Inv, NEW t \in DOMAIN collectors, Join(t)
  PROVE  Inv'
<1>1. /\ collectors[t].pc = "join" /\ monitors[t] \in PerformanceMonitor
      /\ monitors[t].mem = "live" /\ monitors[t].sampler = "done"
      /\ monitors' = monitors /\ Go(t, "free")
  BY Before DEF Join, At, Fits
<1>2. Fits("free", monitors[t]) /\ "free" \in PCs
  BY <1>1 DEF Fits, PCs
<1> QED
  BY <1>1, <1>2, Before, GoInv

LEMMA FreeMonitorInv ==
  ASSUME Inv, NEW t \in DOMAIN collectors, FreeMonitor(t)
  PROVE  Inv'
<1> DEFINE m == Freed(monitors[t])
<1>1. /\ collectors[t].pc = "free" /\ monitors[t] \in PerformanceMonitor
      /\ monitors[t].sampler \in {"none", "done"}
      /\ Monitor(t, m) /\ Go(t, "done")
  BY Before DEF FreeMonitor, At, Fits
<1>2. m \in PerformanceMonitor /\ m.sampler \in {"none", "done"} /\ "done" \in PCs
  BY <1>1 DEF Freed, NoMonitor, PerformanceMonitor, PCs
<1>3. Fits("done", m)
  BY <1>2 DEF Fits
<1> QED
  BY <1>1, <1>2, <1>3, GoInv DEF Monitor

(* A step of the sampling thread keeps what its owner relies on.           *)
LEMMA SamplerInv ==
  ASSUME Inv, NEW t \in DOMAIN collectors, NEW m \in PerformanceMonitor,
         collectors' = collectors, monitors' = [monitors EXCEPT ![t] = m],
         monitors[t].sampler \in {"check", "append"},
         m.mem = monitors[t].mem, m.running = monitors[t].running,
         m.data_mutex = monitors[t].data_mutex,
         m.sampler \in IF m.running THEN {"check", "append"} ELSE {"check", "append", "done"}
  PROVE  Inv'
<1>1. collectors[t] \in Thread /\ Fits(collectors[t].pc, monitors[t]) /\ Holds(collectors[t])
  BY Before
<1>2. Fits(collectors[t].pc, m)
  BY <1>1 DEF Fits, Sampled, Thread, PCs, NoMonitor
<1> QED
  BY <1>1, <1>2, Before, OneThread

LEMMA SamplingInv ==
  ASSUME Inv, NEW t \in DOMAIN collectors, Sampling(t)
  PROVE  Inv'
<1> DEFINE n == monitors[t]
<1>1. n \in PerformanceMonitor /\ collectors' = collectors
  BY Before DEF Sampling
<1>2. CASE CheckRunning(t)
  <2> DEFINE m == [n EXCEPT !.sampler = IF n.running THEN "append" ELSE "done"]
  <2>1. n.sampler = "check" /\ monitors' = [monitors EXCEPT ![t] = m]
    BY <1>2 DEF CheckRunning, Sampler
  <2>2. /\ m \in PerformanceMonitor
        /\ m.mem = n.mem /\ m.running = n.running /\ m.data_mutex = n.data_mutex
        /\ m.sampler \in IF m.running THEN {"check", "append"} ELSE {"check", "append", "done"}
    BY <1>1 DEF PerformanceMonitor
  <2> QED
    BY <1>1, <2>1, <2>2, SamplerInv
<1>3. CASE AppendPoint(t)
  <2> DEFINE m == [n EXCEPT !.data_count = AddPoint(@), !.sampler = "check"]
  <2>1. n.sampler = "append" /\ monitors' = [monitors EXCEPT ![t] = m]
    BY <1>3 DEF AppendPoint
  <2>2. /\ m \in PerformanceMonitor
        /\ m.mem = n.mem /\ m.running = n.running /\ m.data_mutex = n.data_mutex
        /\ m.sampler = "check"
    <3>1. AddPoint(n.data_count) \in Nat
      BY <1>1, PerfMonitorAssumption DEF AddPoint, PerformanceMonitor
    <3> QED
      BY <1>1, <3>1 DEF PerformanceMonitor
  <2>3. m.sampler \in IF m.running THEN {"check", "append"} ELSE {"check", "append", "done"}
    BY <2>2
  <2> QED
    BY <1>1, <2>1, <2>2, <2>3, SamplerInv
<1> QED
  BY <1>2, <1>3 DEF Sampling, SamplerStep

LEMMA NextInv == Inv /\ [Next]_vars => Inv'
<1> SUFFICES ASSUME Inv, [Next]_vars PROVE Inv'
  OBVIOUS
<1>1. CASE UNCHANGED <<monitors, collectors>>
  BY <1>1 DEF Inv, Types
<1>3. ASSUME NEW p \in PIDs, HandleEvent(p) PROVE Inv'
  BY <1>3, HandleEventInv
<1>4. ASSUME NEW t \in DOMAIN collectors, Collecting(t) PROVE Inv'
  BY <1>4, CreateInv, StartInv, OpenEventInv, OpenCsvInv, SampleInv, SampleLastInv,
     SampleFailsInv, CloseEventInv, SaveOpenInv, SaveWriteInv, DestroyInv, JoinInv, FreeMonitorInv
     DEF Collecting
<1>5. ASSUME NEW t \in DOMAIN collectors, Sampling(t) PROVE Inv'
  BY <1>5, SamplingInv
<1> QED
  BY <1>1, <1>3, <1>4, <1>5 DEF Next, Return, Stopped, vars

-----------------------------------------------------------------------------
(* The theorems.                                                           *)

THEOREM CollectorInvariant == Spec => []Inv
BY InitInv, NextInv, PTL DEF Spec

(* A sampling thread outlives neither its monitor nor the wait for it, and *)
(* perf_monitor_stop joins no thread that was not created, whichever call  *)
(* of collect_perf_events or perf_monitor_start failed.                    *)
THEOREM SamplersAreJoined == Spec => []SamplerIsJoined
<1>1. Inv => SamplerIsJoined
  <2> SUFFICES ASSUME Inv, NEW t \in Threads
               PROVE  /\ monitors[t].sampler \in {"check", "append"} =>
                           monitors[t].mem = "live"
                      /\ t \in DOMAIN collectors /\ collectors[t].pc = "join" =>
                           monitors[t].sampler # "none"
    BY DEF SamplerIsJoined
  <2>1. CASE t \in DOMAIN collectors
    <3>1. collectors[t] \in Thread /\ Fits(collectors[t].pc, monitors[t])
      BY <2>1, Before
    <3> QED
      BY <3>1 DEF Fits, Sampled, Thread, PCs, NoMonitor
  <2>2. CASE t \notin DOMAIN collectors
    BY <2>2 DEF Inv, NoMonitor
  <2> QED
    BY <2>1, <2>2
<1> QED
  BY <1>1, CollectorInvariant, PTL

(* Holding data_mutex keeps the data points of a monitor as they are while *)
(* they are written.                                                       *)
THEOREM SavesAreOneMoments == Spec => DataStandsDuringSave
<1> DEFINE Stands == \A t \in DOMAIN collectors :
             collectors[t].pc = "write" => monitors'[t].data_count = monitors[t].data_count
<1>1. Inv /\ [Next]_vars => [Stands]_vars
  <2> SUFFICES ASSUME Inv, Next, NEW t \in DOMAIN collectors, collectors[t].pc = "write"
               PROVE  monitors'[t].data_count = monitors[t].data_count
    BY DEF vars
  <2>1. /\ monitors[t].data_mutex = "owner" /\ t \in Threads
        /\ monitors \in [Threads -> PerformanceMonitor]
    BY DEF Inv, Types, Fits
  <2>2. CASE UNCHANGED monitors
    BY <2>2
  <2>3. ASSUME NEW u \in DOMAIN collectors, NEW m, monitors' = [monitors EXCEPT ![u] = m],
               u # t
        PROVE  monitors'[t].data_count = monitors[t].data_count
    BY <2>1, <2>3
  <2>4. ASSUME NEW u \in DOMAIN collectors, Collecting(u)
        PROVE  monitors'[t].data_count = monitors[t].data_count
    <3>1. CASE u = t
      <4>1. SaveWrite(t)
        BY <2>4, <3>1 DEF Collecting, Create, Start, OpenEvent, OpenCsv, Sample, SampleLast,
                          SampleFails, CloseEvent, SaveOpen, Destroy, Join, FreeMonitor,
                          At
      <4> QED
        BY <4>1, <2>1 DEF SaveWrite, Monitor, Unlocked, PerformanceMonitor
    <3>2. CASE u # t
      BY <2>2, <2>3, <2>4, <3>2
         DEF Collecting, Create, Start, OpenEvent, OpenCsv, Sample, SampleLast, SampleFails,
             CloseEvent, SaveOpen, SaveWrite, Destroy, Join, FreeMonitor, Monitor
    <3> QED
      BY <3>1, <3>2
  <2>5. ASSUME NEW u \in DOMAIN collectors, Sampling(u)
        PROVE  monitors'[t].data_count = monitors[t].data_count
    <3>1. CASE CheckRunning(u)
      BY <2>1, <3>1 DEF CheckRunning, Sampler, PerformanceMonitor
    <3>2. CASE AppendPoint(u)
      BY <2>1, <3>2 DEF AppendPoint
    <3> QED
      BY <2>5, <3>1, <3>2 DEF Sampling, SamplerStep
  <2> QED
    BY <2>2, <2>4, <2>5 DEF Next, Return, Stopped, HandleEvent, vars
<1> QED
  BY <1>1, CollectorInvariant, PTL DEF Spec, DataStandsDuringSave
-----------------------------------------------------------------------------
(* The perf events: tbl is the table of descriptors, own what each thread  *)
(* still has to close.                                                     *)

Owned(tbl, own) ==
  /\ tbl \in [FDs -> {0} \cup Threads]
  /\ \A t \in DOMAIN own : \A i \in DOMAIN own[t] :
       /\ tbl[own[t][i]] = t
       /\ \A j \in DOMAIN own[t] : own[t][i] = own[t][j] => i = j
  /\ \A f \in FDs : tbl[f] # 0 =>
       tbl[f] \in DOMAIN own /\ \E i \in DOMAIN own[tbl[f]] : own[tbl[f]][i] = f

FdsOf(cs) == [t \in DOMAIN cs |-> cs[t].fds]

FdInv == Owned(fd_table, FdsOf(collectors))

(* The number that is handed out was nobody's.                             *)
LEMMA OwnedOpen ==
  ASSUME NEW T \in SUBSET Threads, 0 \notin Threads,
         NEW own \in [T -> Seq(FDs)], NEW tbl, Owned(tbl, own),
         NEW t \in T, NEW f \in FDs, tbl[f] = 0
  PROVE  Owned([tbl EXCEPT ![f] = t], [own EXCEPT ![t] = Append(@, f)])
<1> DEFINE tbl2 == [tbl EXCEPT ![f] = t]
           own2 == [own EXCEPT ![t] = Append(@, f)]
           n == Len(own[t])
<1>1. /\ own[t] \in Seq(FDs) /\ n \in Nat /\ DOMAIN own[t] = 1 .. n
      /\ DOMAIN own = T /\ DOMAIN own2 = T
      /\ DOMAIN own2[t] = 1 .. n + 1 /\ own2[t][n + 1] = f
      /\ \A i \in 1 .. n : own2[t][i] = own[t][i]
      /\ \A u \in T \ {t} : own2[u] = own[u]
  OBVIOUS
<1>2. /\ tbl2 \in [FDs -> {0} \cup Threads] /\ tbl2[f] = t
      /\ \A g \in FDs \ {f} : tbl2[g] = tbl[g]
  BY DEF Owned
<1>3. ASSUME NEW u \in T, NEW i \in DOMAIN own[u]
      PROVE  own[u][i] # f /\ own[u][i] \in FDs
  <2>1. tbl[own[u][i]] = u /\ own[u] \in Seq(FDs) /\ u # 0
    BY <1>1 DEF Owned
  <2> QED
    BY <2>1
<1> HIDE DEF tbl2, own2, n
<1>4. ASSUME NEW u \in T, NEW i \in DOMAIN own2[u]
      PROVE  /\ tbl2[own2[u][i]] = u
             /\ \A j \in DOMAIN own2[u] : own2[u][i] = own2[u][j] => i = j
  <2>1. CASE u # t
    BY <1>1, <1>2, <1>3, <2>1 DEF Owned
  <2>2. CASE u = t /\ i \in 1 .. n
    <3>1. /\ own2[u][i] = own[t][i] /\ i \in DOMAIN own[t]
          /\ own[t][i] # f /\ own[t][i] \in FDs /\ tbl[own[t][i]] = t
      BY <1>1, <1>3, <2>2 DEF Owned
    <3>2. \A j \in DOMAIN own[t] : own[t][i] = own[t][j] => i = j
      BY <1>1, <3>1 DEF Owned
    <3>3. ASSUME NEW j \in DOMAIN own2[u], own2[u][i] = own2[u][j] PROVE i = j
      <4>1. j \in 1 .. n + 1
        BY <1>1, <2>2
      <4>2. CASE j \in 1 .. n
        <5>1. own2[t][j] = own[t][j] /\ j \in DOMAIN own[t]
          BY <1>1, <4>2
        <5> QED
          BY <2>2, <3>1, <3>3, <3>2, <5>1
      <4>3. CASE j = n + 1
        BY <1>1, <2>2, <3>1, <3>3, <4>3
      <4> QED
        BY <1>1, <4>1, <4>2, <4>3
    <3> QED
      BY <1>2, <2>2, <3>1, <3>3
  <2>3. CASE u = t /\ i = n + 1
    <3>1. own2[u][i] = f /\ tbl2[f] = u
      BY <1>1, <1>2, <2>3
    <3>2. ASSUME NEW j \in DOMAIN own2[u], own2[u][i] = own2[u][j] PROVE i = j
      <4>1. j \in 1 .. n + 1
        BY <1>1, <2>3
      <4>2. CASE j \in 1 .. n
        <5>1. own2[t][j] = own[t][j] /\ j \in DOMAIN own[t]
          BY <1>1, <4>2
        <5> QED
          BY <1>3, <2>3, <3>1, <3>2, <5>1
      <4> QED
        BY <1>1, <2>3, <4>1, <4>2
    <3> QED
      BY <3>1, <3>2
  <2> QED
    BY <1>1, <1>4, <2>1, <2>2, <2>3
<1>5. ASSUME NEW g \in FDs, tbl2[g] # 0
      PROVE  tbl2[g] \in T /\ \E i \in DOMAIN own2[tbl2[g]] : own2[tbl2[g]][i] = g
  <2>1. CASE g = f
    BY <1>1, <1>2, <2>1
  <2>2. CASE g # f
    <3>1. tbl2[g] = tbl[g] /\ tbl[g] \in T
      BY <1>1, <1>2, <1>5, <2>2 DEF Owned
    <3>2. PICK i \in DOMAIN own[tbl[g]] : own[tbl[g]][i] = g
      BY <1>5, <3>1 DEF Owned
    <3>3. i \in DOMAIN own2[tbl[g]] /\ own2[tbl[g]][i] = g
      <4>1. CASE tbl[g] = t
        <5>1. i \in 1 .. n /\ own[t][i] = g
          BY <1>1, <3>2, <4>1
        <5>2. i \in 1 .. n + 1
          BY <1>1, <5>1
        <5> QED
          BY <1>1, <4>1, <5>1, <5>2
      <4>2. CASE tbl[g] # t
        <5>1. own2[tbl[g]] = own[tbl[g]]
          BY <1>1, <3>1, <4>2
        <5> QED
          BY <3>2, <5>1
      <4> QED
        BY <4>1, <4>2
    <3> QED
      BY <3>1, <3>3
  <2> QED
    BY <2>1, <2>2
<1> QED
  BY <1>1, <1>2, <1>4, <1>5 DEF Owned, tbl2, own2

(* A thread that closes its first number closes no other's.                *)
LEMMA OwnedClose ==
  ASSUME NEW T \in SUBSET Threads, 0 \notin Threads,
         NEW own \in [T -> Seq(FDs)], NEW tbl, Owned(tbl, own),
         NEW t \in T, own[t] # <<>>
  PROVE  Owned([tbl EXCEPT ![Head(own[t])] = 0], [own EXCEPT ![t] = Tail(@)])
<1> DEFINE f == Head(own[t])
           tbl2 == [tbl EXCEPT ![f] = 0]
           own2 == [own EXCEPT ![t] = Tail(@)]
           n == Len(own[t])
<1>1. /\ own[t] \in Seq(FDs) /\ n \in Nat \ {0} /\ DOMAIN own[t] = 1 .. n
      /\ DOMAIN own = T /\ DOMAIN own2 = T /\ f \in FDs /\ f = own[t][1]
      /\ DOMAIN own2[t] = 1 .. n - 1
      /\ \A i \in 1 .. n - 1 : own2[t][i] = own[t][i + 1] /\ i + 1 \in 1 .. n
      /\ \A u \in T \ {t} : own2[u] = own[u]
  OBVIOUS
<1>2. /\ tbl2 \in [FDs -> {0} \cup Threads] /\ tbl2[f] = 0 /\ tbl[f] = t
      /\ \A g \in FDs \ {f} : tbl2[g] = tbl[g]
  BY <1>1 DEF Owned
<1>3. \A u \in T : \A i \in DOMAIN own[u] : tbl[own[u][i]] = u /\ own[u][i] \in FDs
  BY DEF Owned
<1>4. \A i \in 1 .. n : own[t][i] = f => i = 1
  BY <1>1 DEF Owned
<1> HIDE DEF tbl2, own2, n, f
<1>5. ASSUME NEW u \in T, NEW i \in DOMAIN own2[u]
      PROVE  /\ tbl2[own2[u][i]] = u
             /\ \A j \in DOMAIN own2[u] : own2[u][i] = own2[u][j] => i = j
  <2>1. CASE u # t
    BY <1>1, <1>2, <1>3, <2>1 DEF Owned
  <2>2. CASE u = t
    <3>1. i \in 1 .. n - 1 /\ own2[t][i] = own[t][i + 1] /\ i + 1 \in 1 .. n /\ i + 1 # 1
      BY <1>1, <2>2
    <3>2. own[t][i + 1] # f /\ own[t][i + 1] \in FDs /\ tbl[own[t][i + 1]] = t
      BY <1>1, <1>3, <1>4, <3>1
    <3>3. \A j \in 1 .. n - 1 : own[t][i + 1] = own[t][j + 1] => i + 1 = j + 1
      BY <1>1, <3>1 DEF Owned
    <3> QED
      BY <1>1, <1>2, <2>2, <3>1, <3>2, <3>3
  <2> QED
    BY <2>1, <2>2
<1>6. ASSUME NEW g \in FDs, tbl2[g] # 0
      PROVE  tbl2[g] \in T /\ \E i \in DOMAIN own2[tbl2[g]] : own2[tbl2[g]][i] = g
  <2>1. g # f /\ tbl2[g] = tbl[g] /\ tbl[g] \in T
    BY <1>1, <1>2, <1>6 DEF Owned
  <2>2. PICK i \in DOMAIN own[tbl[g]] : own[tbl[g]][i] = g
    BY <1>6, <2>1 DEF Owned
  <2>3. CASE tbl[g] # t
    BY <1>1, <2>1, <2>2, <2>3
  <2>4. CASE tbl[g] = t
    <3>1. i \in 1 .. n /\ i # 1
      BY <1>1, <2>1, <2>2, <2>4
    <3>2. i - 1 \in 1 .. n - 1 /\ (i - 1) + 1 = i
      BY <1>1, <3>1
    <3>3. own2[t][i - 1] = own[t][(i - 1) + 1]
      BY <1>1, <3>2
    <3>4. own2[t][i - 1] = g /\ i - 1 \in DOMAIN own2[t]
      BY <1>1, <2>2, <2>4, <3>2, <3>3
    <3> QED
      BY <2>1, <2>4, <3>4
  <2> QED
    BY <2>3, <2>4
<1> QED
  BY <1>1, <1>2, <1>5, <1>6 DEF Owned, tbl2, own2, f

(* Every other step leaves the perf events alone.                          *)
LEMMA FdsKept ==
  ASSUME Inv, NEW t \in DOMAIN collectors,
         \/ Create(t) \/ Start(t) \/ OpenCsv(t) \/ Sample(t) \/ SampleLast(t)
         \/ SampleFails(t) \/ SaveOpen(t) \/ SaveWrite(t) \/ Destroy(t) \/ Join(t)
         \/ FreeMonitor(t)
  PROVE  FdsOf(collectors') = FdsOf(collectors) /\ fd_table' = fd_table
<1> SUFFICES FdsOf(collectors') = FdsOf(collectors)
  BY DEF Create, Start, OpenCsv, Sample, SampleLast, SampleFails, SaveOpen, SaveWrite,
         Destroy, Join, FreeMonitor
<1> DEFINE me == collectors[t]
<1>1. \A u \in DOMAIN collectors : collectors[u] \in Thread
  BY DEF Inv, Types
<1>3. ASSUME NEW d, collectors' = [collectors EXCEPT ![t] = d], d.fds = me.fds
      PROVE  FdsOf(collectors') = FdsOf(collectors)
  BY <1>3 DEF FdsOf
<1>4. ASSUME NEW pc, Go(t, pc) PROVE FdsOf(collectors') = FdsOf(collectors)
  <2>1. [me EXCEPT !.pc = pc].fds = me.fds
    BY <1>1 DEF Thread
  <2> QED
    BY <1>3, <1>4, <2>1 DEF Go
<1>5. CASE OpenCsv(t)
  <2> DEFINE others == {u \in DOMAIN collectors \ {t} :
                          Writing(u) /\ collectors[u].pid = collectors[t].pid}
  <2>1. CASE collectors' = [collectors EXCEPT ![t] = Closing(@, "destroy")]
    <3> DEFINE d == Closing(me, "destroy")
    <3>1. d.fds = me.fds /\ collectors' = [collectors EXCEPT ![t] = d]
      BY <1>1, <2>1, ClosingIs
    <3> HIDE DEF d
    <3> QED
      BY <1>3, <3>1
  <2>2. CASE collectors' = [u \in DOMAIN collectors |->
               IF u = t
               THEN [collectors[u] EXCEPT !.pc = "sample",
                       !.file = IF others = {} THEN "alone" ELSE "shared"]
               ELSE [collectors[u] EXCEPT !.file = IF u \in others THEN "shared" ELSE @]]
    <3>1. \A u \in DOMAIN collectors : collectors'[u].fds = collectors[u].fds
      BY <1>1, <2>2 DEF Thread
    <3> QED
      BY <2>2, <3>1 DEF FdsOf
  <2> QED
    BY <1>5, <2>1, <2>2 DEF OpenCsv
<1>6. CASE Sample(t)
  <2> DEFINE d == [me EXCEPT !.sample = @ + 1]
  <2>1. d.fds = me.fds
    BY <1>1 DEF Thread
  <2>2. collectors' = [collectors EXCEPT ![t] = d]
    BY <1>6 DEF Sample
  <2> HIDE DEF d
  <2> QED
    BY <1>3, <2>1, <2>2
<1>7. CASE SampleLast(t)
  <2> DEFINE d == Closing([me EXCEPT !.sample = TOTAL_SAMPLES], "save")
  <2>1. d.fds = me.fds
    BY <1>1 DEF Thread, Closing
  <2>2. collectors' = [collectors EXCEPT ![t] = d]
    BY <1>7 DEF SampleLast
  <2> HIDE DEF d
  <2> QED
    BY <1>3, <2>1, <2>2
<1>8. CASE SampleFails(t)
  <2> DEFINE d == Closing(me, "destroy")
  <2>1. d.fds = me.fds
    BY <1>1, ClosingIs
  <2>2. collectors' = [collectors EXCEPT ![t] = d]
    BY <1>8 DEF SampleFails
  <2> HIDE DEF d
  <2> QED
    BY <1>3, <2>1, <2>2
<1>9. CASE \/ Create(t) \/ Start(t) \/ SaveOpen(t) \/ SaveWrite(t) \/ Destroy(t)
           \/ Join(t) \/ FreeMonitor(t)
  <2>1. \E pc : Go(t, pc)
    BY <1>9, Zenon DEF Create, Start, SaveOpen, SaveWrite, Destroy, Join, FreeMonitor
  <2> QED
    BY <1>4, <2>1
<1> QED
  BY <1>5, <1>6, <1>7, <1>8, <1>9

LEMMA FdNext == Inv /\ FdInv /\ [Next]_vars => FdInv'
<1> SUFFICES ASSUME Inv, FdInv, [Next]_vars PROVE FdInv'
  OBVIOUS
<1> DEFINE T == DOMAIN collectors
           own == FdsOf(collectors)
<1>1. /\ collectors \in Seq(Thread) /\ T \in SUBSET Threads /\ 0 \notin Threads
      /\ \A t \in T : collectors[t] \in Thread /\ collectors[t].fds \in Seq(FDs)
  <2>1. collectors \in Seq(Thread) /\ T \in SUBSET Threads
    BY DEF Inv, Types
  <2>2. \A t \in T : collectors[t] \in Thread
    BY <2>1
  <2>3. 0 \notin Threads
    BY CollectDataAssumption, FS_CardinalityType
  <2> QED
    BY <2>1, <2>2, <2>3 DEF Thread
<1>2. own \in [T -> Seq(FDs)] /\ \A t \in T : own[t] = collectors[t].fds
  BY <1>1 DEF FdsOf
<1>3. CASE UNCHANGED <<collectors, fd_table>>
  BY <1>3 DEF FdInv
<1>4. ASSUME NEW p \in PIDs, HandleEvent(p) PROVE FdInv'
  <2>1. CASE collectors' = collectors
    BY <1>3, <1>4, <2>1 DEF HandleEvent
  <2>2. CASE collectors' = Append(collectors, NewCollector(p))
    <3> DEFINE n == Len(collectors) + 1
    <3>1. NewCollector(p) \in Thread /\ NewCollector(p).fds = <<>>
      BY DEF NewCollector, Thread, PCs
    <3>2. /\ DOMAIN collectors' = T \cup {n} /\ n \notin T
          /\ collectors'[n].fds = <<>> /\ \A u \in T : collectors'[u] = collectors[u]
      BY <1>1, <2>2, <3>1
    <3>3. /\ DOMAIN FdsOf(collectors') = T \cup {n} /\ FdsOf(collectors')[n] = <<>>
          /\ \A u \in T : FdsOf(collectors')[u] = own[u]
      BY <3>2 DEF FdsOf
    <3>4. Owned(fd_table, own) /\ DOMAIN own = T
      BY <1>2 DEF FdInv
    <3> HIDE DEF T, own, n
    <3>5. Owned(fd_table, FdsOf(collectors'))
      BY <3>3, <3>4 DEF Owned
    <3> QED
      BY <1>4, <3>5 DEF HandleEvent, FdInv
  <2> QED
    BY <1>4, <2>1, <2>2 DEF HandleEvent
<1>5. ASSUME NEW t \in T, OpenEvent(t) PROVE FdInv'
  <2>1. CASE Go(t, "destroy") /\ fd_table' = fd_table
    <3>1. FdsOf(collectors') = own
      BY <1>1, <2>1 DEF Go, FdsOf, Thread
    <3> QED
      BY <2>1, <3>1 DEF FdInv
  <2>2. ASSUME NEW f \in Free,
               fd_table' = [fd_table EXCEPT ![f] = t],
               collectors' = [collectors EXCEPT
                 ![t].fds = Append(@, f),
                 ![t].pc = IF Len(collectors[t].fds) + 1 = TOTAL_EVENTS THEN "csv"
                           ELSE "open"]
        PROVE  FdInv'
    <3>1. f \in FDs /\ fd_table[f] = 0
      BY DEF Free
    <3>2. FdsOf(collectors') = [own EXCEPT ![t] = Append(@, f)]
      <4>1. /\ DOMAIN collectors' = T /\ collectors'[t].fds = Append(collectors[t].fds, f)
            /\ \A u \in T \ {t} : collectors'[u] = collectors[u]
        BY <1>1, <2>2 DEF Thread
      <4> QED
        BY <1>2, <4>1 DEF FdsOf
    <3> HIDE DEF T, own
    <3>3. Owned([fd_table EXCEPT ![f] = t], [own EXCEPT ![t] = Append(@, f)])
      BY <1>1, <1>2, <3>1, OwnedOpen DEF FdInv, own
    <3> QED
      BY <2>2, <3>2, <3>3 DEF FdInv
  <2> QED
    BY <1>5, <2>1, <2>2 DEF OpenEvent
<1>6. ASSUME NEW t \in T, CloseEvent(t) PROVE FdInv'
  <2>1. own[t] # <<>>
    BY <1>2, <1>6, Before DEF CloseEvent, At, Holds
  <2>2. fd_table' = [fd_table EXCEPT ![Head(own[t])] = 0]
    BY <1>2, <1>6 DEF CloseEvent, InOrder
  <2>3. FdsOf(collectors') = [own EXCEPT ![t] = Tail(@)]
    <3>1. /\ DOMAIN collectors' = T /\ collectors'[t].fds = Tail(collectors[t].fds)
          /\ \A u \in T \ {t} : collectors'[u] = collectors[u]
      BY <1>1, <1>6 DEF CloseEvent, Thread
    <3> QED
      BY <1>2, <3>1 DEF FdsOf
  <2> HIDE DEF T, own
  <2>4. Owned([fd_table EXCEPT ![Head(own[t])] = 0], [own EXCEPT ![t] = Tail(@)])
    BY <1>1, <1>2, <2>1, OwnedClose DEF FdInv, own
  <2> QED
    BY <2>2, <2>3, <2>4 DEF FdInv
<1>7. ASSUME NEW t \in T, Collecting(t) PROVE FdInv'
  <2>1. CASE OpenEvent(t) \/ CloseEvent(t)
    BY <1>5, <1>6, <2>1
  <2>2. CASE ~ (OpenEvent(t) \/ CloseEvent(t))
    <3>1. FdsOf(collectors') = FdsOf(collectors) /\ fd_table' = fd_table
      BY <1>7, <2>2, FdsKept DEF Collecting
    <3> QED
      BY <3>1 DEF FdInv
  <2> QED
    BY <2>1, <2>2
<1> QED
  BY <1>3, <1>4, <1>7 DEF Next, Return, Stopped, Sampling, vars

LEMMA FdInit == Init => FdInv
<1> SUFFICES ASSUME Init PROVE FdInv
  OBVIOUS
<1>1. DOMAIN FdsOf(collectors) = {} /\ fd_table = [f \in FDs |-> 0]
  BY DEF Init, FdsOf
<1> QED
  BY <1>1 DEF FdInv, Owned

LEMMA OwnedAreClosed == Inv /\ FdInv => EventsClosed
<1> SUFFICES ASSUME Inv, FdInv PROVE EventsClosed
  OBVIOUS
<1>1. /\ DOMAIN FdsOf(collectors) = DOMAIN collectors
      /\ \A t \in DOMAIN collectors : FdsOf(collectors)[t] = collectors[t].fds
  BY DEF FdsOf
<1>2. \A t \in DOMAIN collectors : \A i \in DOMAIN collectors[t].fds :
        fd_table[collectors[t].fds[i]] = t
  BY <1>1 DEF FdInv, Owned
<1>3. \A f \in FDs : fd_table[f] # 0 =>
        \E i \in DOMAIN collectors[fd_table[f]].fds : collectors[fd_table[f]].fds[i] = f
  BY <1>1 DEF FdInv, Owned
<1>4. \A t \in DOMAIN collectors :
        collectors[t].pc \in {"save", "write", "destroy", "join", "free", "done"} =>
          \/ collectors[t].fds = <<>>
          \/ collectors[t].file = "none" /\ Len(collectors[t].fds) < TOTAL_EVENTS
  BY DEF Inv, Holds
<1> QED
  BY <1>2, <1>3, <1>4 DEF EventsClosed

(* Although the numbers come back while threads are closing, no thread     *)
(* closes another's perf event, every open one will be closed by its       *)
(* thread, and whichever way a thread leaves its loop it has closed all;   *)
(* only the first of a failing perf_event_open stay open.                  *)
THEOREM EventsAreClosed == Spec => []EventsClosed
BY FdInit, FdNext, OwnedAreClosed, CollectorInvariant, PTL DEF Spec

-----------------------------------------------------------------------------
(* The csv files.                                                          *)

(* What CsvIsComplete says of p's file, with the threads cs.               *)
OfPID(cs, p) == {t \in DOMAIN cs : cs[t].pid = p /\ cs[t].file # "none"}
Complete(cs, file, running, p) ==
  OfPID(cs, p) # {} /\ (\A t \in OfPID(cs, p) : cs[t].file = "alone") =>
    /\ file.by \in OfPID(cs, p)
    /\ \A t \in OfPID(cs, p) : cs[t].pc = "sample" => file.by = t
    /\ ~ running \/ cs[file.by].pc # "sample" => file.rows = cs[file.by].sample

CsvFile == [by : Nat, rows : Nat]

(* A thread that is writing has opened the file.                           *)
CsvInv ==
  /\ csv \in [PIDs -> CsvFile]
  /\ \A t \in DOMAIN collectors : Writing(t) => collectors[t].file # "none"
  /\ \A p \in PIDs : Complete(collectors, csv[p], Running, p)

LEMMA CompleteIsProperty == CsvInv => CsvIsComplete
<1> SUFFICES ASSUME CsvInv, NEW p \in PIDs,
                    OfPID(collectors, p) # {},
                    \A t \in OfPID(collectors, p) : collectors[t].file = "alone"
             PROVE  /\ csv[p].by \in OfPID(collectors, p)
                    /\ \A t \in OfPID(collectors, p) : Writing(t) => csv[p].by = t
                    /\ ~ Running \/ ~ Writing(csv[p].by) =>
                         csv[p].rows = collectors[csv[p].by].sample
  BY DEF CsvIsComplete, OfPID
<1> QED
  BY DEF CsvInv, Complete, Writing

(* Threads of which the file of p cannot tell that they took a step.       *)
SameToFile(c, d) ==
  /\ d.file = c.file /\ d.sample = c.sample
  /\ d.pc = "sample" <=> c.pc = "sample"

LEMMA Unwritten ==
  ASSUME NEW cs, NEW ds, NEW file, NEW running, NEW p,
         DOMAIN cs \subseteq DOMAIN ds,
         \A t \in DOMAIN cs : /\ ds[t].pid = cs[t].pid
                              /\ cs[t].pid = p => SameToFile(cs[t], ds[t]),
         \A t \in DOMAIN ds \ DOMAIN cs : ds[t].file = "none",
         Complete(cs, file, running, p)
  PROVE  Complete(ds, file, running, p)
<1>1. OfPID(ds, p) = OfPID(cs, p)
  BY DEF OfPID, SameToFile
<1>2. \A t \in OfPID(cs, p) : SameToFile(cs[t], ds[t])
  BY DEF OfPID
<1> QED
  BY <1>1, <1>2 DEF Complete, SameToFile

(* Steps that do not touch a csv file.                                     *)
LEMMA CsvUntouched ==
  ASSUME Inv, CsvInv, csv' = csv, proc' = proc,
         DOMAIN collectors \subseteq DOMAIN collectors',
         \A t \in DOMAIN collectors :
            collectors'[t].pid = collectors[t].pid /\ SameToFile(collectors[t], collectors'[t]),
         \A t \in DOMAIN collectors' \ DOMAIN collectors :
            collectors'[t].file = "none" /\ collectors'[t].pc = "create"
  PROVE  CsvInv'
<1>1. ASSUME NEW p \in PIDs PROVE Complete(collectors', csv[p], Running, p)
  BY Unwritten DEF CsvInv
<1>2. ASSUME NEW t \in DOMAIN collectors', collectors'[t].pc = "sample"
      PROVE  collectors'[t].file # "none"
  BY <1>2 DEF CsvInv, Writing, SameToFile
<1> QED
  BY <1>1, <1>2 DEF CsvInv, Writing, Running

(* A thread that is writing puts its first n rows into its file and goes   *)
(* on, or stops when it has sampled n.                                     *)
LEMMA CsvWritten ==
  ASSUME Inv, CsvInv, Running, proc' = proc, NEW t \in DOMAIN collectors, NEW c \in Thread,
         collectors[t].pc = "sample",
         collectors' = [collectors EXCEPT ![t] = c],
         c.pid = collectors[t].pid, c.file = collectors[t].file,
         \/ c.pc = "sample" /\ csv' = csv
         \/ csv' = [csv EXCEPT ![CsvOf(t)] = Written(csv[CsvOf(t)], t, c.sample)]
  PROVE  CsvInv'
<1> DEFINE p == collectors[t].pid
<1>1. /\ collectors \in Seq(Thread) /\ collectors[t] \in Thread /\ p \in PIDs
      /\ DOMAIN collectors' = DOMAIN collectors /\ collectors'[t] = c
      /\ \A u \in DOMAIN collectors \ {t} : collectors'[u] = collectors[u]
      /\ c.sample \in Nat
  <2>1. collectors \in Seq(Thread) /\ collectors[t] \in Thread
    BY DEF Inv, Types
  <2>2. p \in PIDs /\ c.sample \in Nat
    BY <2>1 DEF Thread
  <2> QED
    BY <2>1, <2>2
<1>2. Written(csv[p], t, c.sample) \in CsvFile
  <2>1. csv[p] \in CsvFile
    BY <1>1 DEF CsvInv
  <2>2. [csv[p] EXCEPT !.rows = c.sample] \in CsvFile /\ NobodysCsv \in CsvFile
    BY <1>1, <2>1 DEF CsvFile, NobodysCsv
  <2> QED
    BY <2>2 DEF Written
<1>3. csv' \in [PIDs -> CsvFile] /\ \A q \in PIDs \ {p} : csv'[q] = csv[q]
  BY <1>1, <1>2 DEF CsvInv, CsvOf
<1>4. ASSUME NEW q \in PIDs, q # p
      PROVE  Complete(collectors', csv'[q], Running, q)
  <2>1. \A u \in DOMAIN collectors : /\ collectors'[u].pid = collectors[u].pid
                                     /\ collectors[u].pid = q =>
                                          SameToFile(collectors[u], collectors'[u])
    BY <1>1, <1>4 DEF SameToFile
  <2> QED
    BY <2>1, <1>1, <1>3, <1>4, Unwritten DEF CsvInv
<1>5. Complete(collectors', csv'[p], Running, p)
  <2>1. OfPID(collectors', p) = OfPID(collectors, p)
    BY <1>1 DEF OfPID
  <2>2. t \in OfPID(collectors, p)
    BY DEF OfPID, CsvInv, Writing
  <2>3. SUFFICES ASSUME \A u \in OfPID(collectors, p) : collectors'[u].file = "alone"
                 PROVE  /\ csv'[p].by = t
                        /\ \A u \in OfPID(collectors, p) : collectors'[u].pc = "sample" => u = t
                        /\ c.pc # "sample" => csv'[p].rows = c.sample
    BY <1>1, <2>1, <2>2 DEF Complete
  <2>4. \A u \in OfPID(collectors, p) : collectors[u].file = "alone"
    BY <1>1, <2>3 DEF OfPID
  <2>5. /\ csv[p].by = t
        /\ \A u \in OfPID(collectors, p) : collectors[u].pc = "sample" => u = t
    BY <1>1, <2>2, <2>4 DEF CsvInv, Complete
  <2>6. CASE csv' = csv /\ c.pc = "sample"
    BY <1>1, <2>5, <2>6 DEF OfPID
  <2>7. CASE csv' = [csv EXCEPT ![CsvOf(t)] = Written(csv[CsvOf(t)], t, c.sample)]
    <3>1. csv'[p] = [csv[p] EXCEPT !.rows = c.sample] /\ csv[p] \in CsvFile
      BY <1>1, <2>5, <2>7 DEF CsvInv, CsvOf, Written
    <3>2. csv'[p].by = t /\ csv'[p].rows = c.sample
      BY <3>1, <2>5 DEF CsvFile
    <3> QED
      BY <1>1, <3>2, <2>5 DEF OfPID
  <2> QED
    BY <2>6, <2>7
<1>6. ASSUME NEW u \in DOMAIN collectors, collectors'[u].pc = "sample"
      PROVE  collectors'[u].file # "none"
  BY <1>1, <1>6 DEF CsvInv, Writing
<1> QED
  BY <1>1, <1>3, <1>4, <1>5, <1>6 DEF CsvInv, Writing, Running
(* A thread that empties the file and has it to itself, or is one of       *)
(* several that share it from now on.                                      *)
LEMMA CsvOpened ==
  ASSUME Inv, CsvInv, proc' = proc, NEW t \in DOMAIN collectors, OpenCsv(t)
  PROVE  CsvInv'
<1> DEFINE p == collectors[t].pid
           others == {u \in DOMAIN collectors \ {t} :
                        Writing(u) /\ collectors[u].pid = collectors[t].pid}
           opened(u) == [collectors[u] EXCEPT !.pc = "sample",
                           !.file = IF others = {} THEN "alone" ELSE "shared"]
           beside(u) == [collectors[u] EXCEPT !.file = IF u \in others THEN "shared" ELSE @]
<1>1. /\ \A u \in DOMAIN collectors : collectors[u] \in Thread
      /\ collectors[t].pc = "csv" /\ collectors[t].file = "none" /\ p \in PIDs
      /\ t \in Nat
  <2>1. \A u \in DOMAIN collectors : collectors[u] \in Thread
    BY DEF Inv, Types
  <2>2. collectors[t].pc = "csv" /\ p \in PIDs
    BY <2>1 DEF OpenCsv, At, Thread
  <2> QED
    BY <2>1, <2>2, Before DEF Holds, Inv, Types
<1>2. CASE /\ collectors' = [collectors EXCEPT ![t] = Closing(@, "destroy")]
           /\ UNCHANGED csv
  <2>1. \A u \in DOMAIN collectors :
           /\ DOMAIN collectors' = DOMAIN collectors
           /\ collectors'[u].pid = collectors[u].pid
           /\ SameToFile(collectors[u], collectors'[u])
    BY <1>1, <1>2, ClosingIs DEF SameToFile
  <2> QED
    BY <1>2, <2>1, CsvUntouched
<1>3. CASE /\ csv' = [csv EXCEPT ![CsvOf(t)] = [by |-> t, rows |-> 0]]
           /\ collectors' = [u \in DOMAIN collectors |-> IF u = t THEN opened(u) ELSE beside(u)]
  <2>1. /\ DOMAIN collectors' = DOMAIN collectors
        /\ collectors'[t] = opened(t)
        /\ \A u \in DOMAIN collectors \ {t} : collectors'[u] = beside(u)
    BY <1>3
  <2>2. /\ opened(t).pid = p /\ opened(t).pc = "sample"
        /\ opened(t).file = IF others = {} THEN "alone" ELSE "shared"
    BY <1>1 DEF Thread
  <2>3. ASSUME NEW u \in DOMAIN collectors
        PROVE  /\ beside(u).pid = collectors[u].pid /\ beside(u).pc = collectors[u].pc
               /\ beside(u).sample = collectors[u].sample
               /\ beside(u).file = IF u \in others THEN "shared" ELSE collectors[u].file
    BY <1>1 DEF Thread
  <2> HIDE DEF opened, beside
  <2>4. csv' \in [PIDs -> CsvFile] /\ csv'[p] = [by |-> t, rows |-> 0]
        /\ \A q \in PIDs \ {p} : csv'[q] = csv[q]
    BY <1>1, <1>3 DEF CsvInv, CsvOf, CsvFile
  <2>5. ASSUME NEW u \in DOMAIN collectors, collectors'[u].pc = "sample"
        PROVE  collectors'[u].file # "none"
    BY <2>1, <2>2, <2>3, <2>5 DEF CsvInv, Writing
  <2>6. ASSUME NEW q \in PIDs, q # p
        PROVE  Complete(collectors', csv'[q], Running, q)
    <3>1. \A u \in DOMAIN collectors : /\ collectors'[u].pid = collectors[u].pid
                                       /\ collectors[u].pid = q =>
                                            SameToFile(collectors[u], collectors'[u])
      BY <2>1, <2>2, <2>3, <2>6 DEF SameToFile
    <3> QED
      BY <2>1, <2>4, <2>6, <3>1, Unwritten DEF CsvInv
  <2>7. Complete(collectors', csv'[p], TRUE, p)
    <3>1. t \in OfPID(collectors', p)
      BY <2>1, <2>2 DEF OfPID
    <3>2. ASSUME \A u \in OfPID(collectors', p) : collectors'[u].file = "alone",
                 NEW u \in OfPID(collectors', p), collectors'[u].pc = "sample"
          PROVE  u = t
      <4>1. others = {}
        BY <3>1, <3>2, <2>1, <2>2
      <4> QED
        BY <4>1, <3>2, <2>1, <2>3 DEF OfPID, Writing
    <3> QED
      BY <2>1, <2>2, <2>4, <3>1, <3>2 DEF Complete
  <2>8. Running
    BY DEF OpenCsv, At
  <2> QED
    BY <2>1, <2>4, <2>5, <2>6, <2>7, <2>8 DEF CsvInv, Writing, Running
<1> QED
  BY <1>2, <1>3 DEF OpenCsv

(* A thread that has not opened its file yet, or has closed it, goes on.   *)
LEMMA CsvBeside ==
  ASSUME Inv, CsvInv, proc' = proc, NEW t \in DOMAIN collectors, csv' = csv,
         \/ Create(t) \/ Start(t) \/ OpenEvent(t) \/ CloseEvent(t) \/ SaveOpen(t)
         \/ SaveWrite(t) \/ Destroy(t) \/ Join(t) \/ FreeMonitor(t)
  PROVE  CsvInv'
<1>1. \A u \in DOMAIN collectors : collectors[u] \in Thread
  BY DEF Inv, Types
<1>2. collectors[t].pc # "sample"
  BY DEF Create, Start, OpenEvent, CloseEvent, SaveOpen, SaveWrite, Destroy, Join,
         FreeMonitor, At
<1>3. ASSUME NEW d, d.pid = collectors[t].pid, SameToFile(collectors[t], d),
             collectors' = [collectors EXCEPT ![t] = d]
      PROVE  CsvInv'
  <2>1. /\ DOMAIN collectors' = DOMAIN collectors
        /\ \A u \in DOMAIN collectors :
             /\ collectors'[u].pid = collectors[u].pid
             /\ SameToFile(collectors[u], collectors'[u])
    BY <1>3 DEF SameToFile
  <2> QED
    BY <2>1, CsvUntouched
<1>4. ASSUME NEW pc, pc # "sample", Go(t, pc) PROVE CsvInv'
  <2> DEFINE d == [collectors[t] EXCEPT !.pc = pc]
  <2>1. d.pid = collectors[t].pid /\ SameToFile(collectors[t], d)
    BY <1>1, <1>2, <1>4 DEF SameToFile, Thread
  <2> QED
    BY <1>3, <1>4, <2>1 DEF Go
<1>5. ASSUME NEW fds, NEW pc, pc # "sample",
             collectors' = [collectors EXCEPT ![t].fds = fds, ![t].pc = pc]
      PROVE  CsvInv'
  <2> DEFINE d == [collectors[t] EXCEPT !.fds = fds, !.pc = pc]
  <2>1. d.pid = collectors[t].pid /\ SameToFile(collectors[t], d)
    BY <1>1, <1>2, <1>5 DEF SameToFile, Thread
  <2>2. collectors' = [collectors EXCEPT ![t] = d]
    BY <1>5
  <2> HIDE DEF d
  <2> QED
    BY <1>3, <2>1, <2>2
<1>6. CASE OpenEvent(t)
  <2>1. CASE Go(t, "destroy")
    BY <1>4, <2>1
  <2>2. CASE ~ Go(t, "destroy")
    <3> DEFINE pc == IF Len(collectors[t].fds) + 1 = TOTAL_EVENTS THEN "csv" ELSE "open"
    <3>1. pc # "sample"
      OBVIOUS
    <3>2. \E f : collectors' = [collectors EXCEPT ![t].fds = Append(collectors[t].fds, f),
                                                  ![t].pc = pc]
      BY <1>6, <2>2 DEF OpenEvent
    <3> HIDE DEF pc
    <3> QED
      BY <1>5, <3>1, <3>2
  <2> QED
    BY <2>1, <2>2
<1>7. CASE CloseEvent(t)
  <2> DEFINE pc == IF Len(collectors[t].fds) = 1 THEN collectors[t].after ELSE "close"
  <2>1. pc # "sample"
    BY <1>7, Before DEF CloseEvent, At, Holds
  <2>2. collectors' = [collectors EXCEPT ![t].fds = Tail(collectors[t].fds), ![t].pc = pc]
    BY <1>7 DEF CloseEvent
  <2> HIDE DEF pc
  <2> QED
    BY <1>5, <2>1, <2>2
<1>8. CASE ~ OpenEvent(t) /\ ~ CloseEvent(t)
  <2>1. \E pc \in {"start", "done", "open", "write", "destroy", "join", "free"} : Go(t, pc)
    BY <1>8 DEF Create, Start, SaveOpen, SaveWrite, Destroy, Join, FreeMonitor
  <2> QED
    BY <1>4, <2>1
<1> QED
  BY <1>6, <1>7, <1>8

LEMMA CsvCollecting ==
  ASSUME Inv, CsvInv, NEW t \in DOMAIN collectors, Collecting(t)
  PROVE  CsvInv'
<1> DEFINE me == collectors[t]
<1>1. proc' = proc /\ me \in Thread /\ me.sample \in Nat
  BY Before DEF Collecting, Thread
<1>2. CASE Sample(t)
  <2> DEFINE c == [me EXCEPT !.sample = @ + 1]
  <2>1. /\ c \in Thread /\ c.pid = me.pid /\ c.file = me.file /\ c.pc = me.pc
        /\ c.sample = me.sample + 1
    <3>1. \A n \in Nat : [me EXCEPT !.sample = n] \in Thread
      BY <1>1 DEF Thread
    <3> QED
      BY <1>1, <3>1 DEF Thread
  <2>2. Running /\ me.pc = "sample" /\ collectors' = [collectors EXCEPT ![t] = c]
    BY <1>2 DEF Sample, At
  <2>3. collectors'[t] = c
    BY <2>2
  <2>4. \/ csv' = csv
        \/ csv' = [csv EXCEPT ![CsvOf(t)] = Written(csv[CsvOf(t)], t, c.sample)]
    BY <1>2, <2>3 DEF Sample
  <2> HIDE DEF c
  <2> QED
    BY <1>1, <2>1, <2>2, <2>4, CsvWritten
<1>3. CASE SampleLast(t)
  <2> DEFINE b == [me EXCEPT !.sample = TOTAL_SAMPLES]
             c == Closing(b, "save")
  <2>1. me.sample + 1 = TOTAL_SAMPLES /\ TOTAL_SAMPLES \in Nat
    BY <1>3, CollectDataAssumption DEF SampleLast
  <2>2. b \in Thread /\ b.pid = me.pid /\ b.file = me.file /\ b.sample = TOTAL_SAMPLES
    <3>1. \A n \in Nat :
             LET d == [me EXCEPT !.sample = n]
             IN  d \in Thread /\ d.pid = me.pid /\ d.file = me.file /\ d.sample = n
      BY <1>1 DEF Thread
    <3> QED
      BY <2>1, <3>1
  <2>3. collectors' = [collectors EXCEPT ![t] = c]
    BY <1>3 DEF SampleLast
  <2> HIDE DEF b
  <2>4. c \in Thread /\ c.pid = me.pid /\ c.file = me.file /\ c.sample = TOTAL_SAMPLES
    BY <2>2, ClosingIs
  <2>5. /\ Running /\ me.pc = "sample"
        /\ csv' = [csv EXCEPT ![CsvOf(t)] = Written(csv[CsvOf(t)], t, c.sample)]
    BY <1>3, <2>4 DEF SampleLast, At, Closed
  <2> HIDE DEF c
  <2> QED
    BY <1>1, <2>3, <2>4, <2>5, CsvWritten
<1>4. CASE SampleFails(t)
  <2> DEFINE c == Closing(me, "destroy")
  <2>1. c \in Thread /\ c.pid = me.pid /\ c.file = me.file /\ c.sample = me.sample
    BY <1>1, ClosingIs
  <2>2. /\ Running /\ me.pc = "sample" /\ collectors' = [collectors EXCEPT ![t] = c]
        /\ csv' = [csv EXCEPT ![CsvOf(t)] = Written(csv[CsvOf(t)], t, c.sample)]
    BY <1>4, <2>1 DEF SampleFails, At, Closed
  <2> HIDE DEF c
  <2> QED
    BY <1>1, <2>1, <2>2, CsvWritten
<1>5. CASE OpenCsv(t)
  BY <1>1, <1>5, CsvOpened
<1>6. CASE \/ Create(t) \/ Start(t) \/ OpenEvent(t) \/ CloseEvent(t) \/ SaveOpen(t)
           \/ SaveWrite(t) \/ Destroy(t) \/ Join(t) \/ FreeMonitor(t)
  <2>1. csv' = csv
    BY <1>6 DEF Create, Start, OpenEvent, CloseEvent, SaveOpen, SaveWrite, Destroy, Join,
                FreeMonitor
  <2> QED
    BY <1>1, <1>6, <2>1, CsvBeside
<1> QED
  BY <1>2, <1>3, <1>4, <1>5, <1>6 DEF Collecting

(* exit writes what is still in stdio's buffers.                           *)
LEMMA CsvAtExit ==
  ASSUME Inv, CsvInv, Return
  PROVE  CsvInv'
<1>1. /\ Running /\ proc' = "exited" /\ collectors' = collectors
      /\ csv' = [p \in PIDs |-> WrittenAtExit(p)]
  BY DEF Return
<1>2. ASSUME NEW p \in PIDs
      PROVE  WrittenAtExit(p) \in CsvFile /\ Complete(collectors, WrittenAtExit(p), FALSE, p)
  <2> DEFINE writers == {t \in DOMAIN collectors : Writing(t) /\ collectors[t].pid = p}
             by == csv[p].by
  <2>1. csv[p] \in CsvFile /\ NobodysCsv \in CsvFile
    BY DEF CsvInv, CsvFile, NobodysCsv
  <2>2. writers \subseteq OfPID(collectors, p)
    BY DEF CsvInv, OfPID
  <2>3. CASE writers = {}
    <3>1. WrittenAtExit(p) = csv[p]
      BY <2>3 DEF WrittenAtExit
    <3>2. \A t \in OfPID(collectors, p) : collectors[t].pc # "sample"
      BY <2>3 DEF OfPID, Writing
    <3> QED
      BY <2>1, <3>1, <3>2 DEF CsvInv, Complete
  <2>4. CASE writers = {by}
    <3>1. WrittenAtExit(p) = [csv[p] EXCEPT !.rows = collectors[by].sample]
      BY <2>4 DEF WrittenAtExit, Written
    <3>2. by \in DOMAIN collectors
      BY <2>4
    <3>3. collectors[by].sample \in Nat
      BY <3>2, Before DEF Thread
    <3>4. /\ WrittenAtExit(p) \in CsvFile /\ WrittenAtExit(p).by = by
          /\ WrittenAtExit(p).rows = collectors[by].sample
      BY <2>1, <3>1, <3>3 DEF CsvFile
    <3> QED
      BY <3>4, <1>1 DEF CsvInv, Complete
  <2>5. CASE writers # {} /\ writers # {by}
    <3>1. WrittenAtExit(p) = NobodysCsv
      BY <2>5 DEF WrittenAtExit
    <3>2. ~ (\A t \in OfPID(collectors, p) : collectors[t].file = "alone")
      <4>1. PICK t \in writers : t # by
        BY <2>5
      <4>2. t \in OfPID(collectors, p) /\ collectors[t].pc = "sample"
        BY <2>2, <4>1 DEF Writing
      <4> QED
        BY <4>1, <4>2 DEF CsvInv, Complete
    <3> QED
      BY <2>1, <3>1, <3>2 DEF Complete
  <2> QED
    BY <2>3, <2>4, <2>5
<1>3. csv' \in [PIDs -> CsvFile] /\ \A p \in PIDs : csv'[p] = WrittenAtExit(p)
  BY <1>1, <1>2
<1> QED
  BY <1>1, <1>2, <1>3 DEF CsvInv, Writing, Running

LEMMA CsvNext == Inv /\ CsvInv /\ [Next]_vars => CsvInv'
<1> SUFFICES ASSUME Inv, CsvInv, [Next]_vars PROVE CsvInv'
  OBVIOUS
<1>1. CASE UNCHANGED <<collectors, csv, proc>>
  BY <1>1 DEF CsvInv, Writing, Running
<1>2. ASSUME NEW p \in PIDs, HandleEvent(p) PROVE CsvInv'
  <2>1. CASE collectors' = collectors
    BY <1>1, <1>2, <2>1 DEF HandleEvent
  <2>2. CASE collectors' = Append(collectors, NewCollector(p))
    <3>1. /\ collectors \in Seq(Thread) /\ NewCollector(p) \in Thread
          /\ NewCollector(p).pc = "create" /\ NewCollector(p).file = "none"
      BY DEF Inv, Types, NewCollector, Thread, PCs
    <3>2. /\ DOMAIN collectors' = DOMAIN collectors \cup {Len(collectors) + 1}
          /\ collectors'[Len(collectors) + 1] = NewCollector(p)
          /\ \A u \in DOMAIN collectors : collectors'[u] = collectors[u]
      BY <2>2, <3>1
    <3> QED
      BY <1>2, <3>1, <3>2, CsvUntouched DEF HandleEvent, SameToFile
  <2> QED
    BY <1>2, <2>1, <2>2 DEF HandleEvent
<1> QED
  BY <1>1, <1>2, CsvCollecting, CsvAtExit DEF Next, Stopped, Sampling, vars

LEMMA CsvInit == Init => CsvInv
<1> SUFFICES ASSUME Init PROVE CsvInv
  OBVIOUS
<1>1. collectors = <<>> /\ csv \in [PIDs -> CsvFile]
  BY DEF Init, CsvFile, NobodysCsv
<1>2. \A p \in PIDs : OfPID(collectors, p) = {}
  BY <1>1 DEF OfPID
<1> QED
  BY <1>1, <1>2 DEF CsvInv, Complete
(* However a thread ends, by its last round, a failed read or the return   *)
(* of main, the file of a PID whose threads did not overlap belongs to the *)
(* one that emptied it last and has all rows that thread sampled.          *)
THEOREM CsvFilesAreComplete == Spec => []CsvIsComplete
BY CsvInit, CsvNext, CollectorInvariant, CompleteIsProperty, PTL DEF Spec

-----------------------------------------------------------------------------
(* The bounds of the types.                                                *)

Bounded(c) ==
  /\ Len(c.fds) <= TOTAL_EVENTS
  /\ c.sample \in 0 .. TOTAL_SAMPLES

Bounds ==
  /\ \A t \in Threads : monitors[t].data_count \in 0 .. MAX_DATA_POINTS
  /\ \A t \in DOMAIN collectors : Bounded(collectors[t])
  /\ \A p \in PIDs : csv[p].by \in 0 .. Len(collectors)

LEMMA BoundsAreTypes == Inv /\ FdInv /\ Bounds => TypeOK
<1> SUFFICES ASSUME Inv, FdInv, Bounds PROVE TypeOK
  OBVIOUS
<1>1. Len(collectors) <= Cardinality(Threads)
  <2>1. Cardinality(Threads) \in Nat /\ Len(collectors) \in Nat
    BY CollectDataAssumption, FS_CardinalityType DEF Inv, Types
  <2>2. CASE Len(collectors) > 0
    <3>1. Len(collectors) \in Threads
      BY <2>1, <2>2 DEF Inv, Types
    <3> QED
      BY <2>1, <3>1, CollectDataAssumption
  <2> QED
    BY <2>1, <2>2
<1>2. monitors \in [Threads ->
       [mem : {"none", "live", "freed"}, running : BOOLEAN,
        data_count : 0 .. MAX_DATA_POINTS, data_mutex : {"free", "owner"},
        sampler : {"none", "check", "append", "done"}]]
  <2>1. \A t \in Threads : monitors[t] \in PerformanceMonitor
    BY DEF Inv, Types
  <2>2. \A t \in Threads : monitors[t] \in
       [mem : {"none", "live", "freed"}, running : BOOLEAN,
        data_count : 0 .. MAX_DATA_POINTS, data_mutex : {"free", "owner"},
        sampler : {"none", "check", "append", "done"}]
    BY <2>1 DEF Bounds, PerformanceMonitor
  <2> QED
    BY <2>2 DEF Inv, Types
<1>3. \A t \in DOMAIN collectors : collectors[t].fds \in Seq(FDs)
  BY Before DEF Thread
<1> QED
  BY <1>1, <1>2, <1>3 DEF TypeOK, Bounds, Bounded, FdInv, Owned

(* What the owner's calls do to the number of data points.                 *)
CountsOf(t) ==
  \/ monitors' = monitors
  \/ \E m : /\ monitors' = [monitors EXCEPT ![t] = m]
            /\ m.data_count \in {0, monitors[t].data_count}

LEMMA OwnersCounts ==
  ASSUME Inv, NEW t \in DOMAIN collectors, Collecting(t)
  PROVE  CountsOf(t)
<1> DEFINE n == monitors[t]
<1>1. n \in PerformanceMonitor
  BY Before
<1>2. ASSUME NEW m, Monitor(t, m), m.data_count \in {0, n.data_count}
      PROVE  CountsOf(t)
  BY <1>2, Zenon DEF Monitor, CountsOf
<1>3. CASE Create(t)
  <2>1. Created.data_count = 0
    BY DEF Created, NoMonitor
  <2> QED
    BY <1>2, <1>3, <2>1 DEF Create, CountsOf
<1>4. CASE Start(t)
  <2>1. PICK m \in Started(n) : Monitor(t, m)
    BY <1>4 DEF Start
  <2>2. m.data_count = n.data_count
    BY <1>1, <2>1 DEF Started, PerformanceMonitor
  <2> QED
    BY <1>2, <2>1, <2>2
<1>5. CASE SaveOpen(t) \/ SaveWrite(t) \/ Destroy(t)
  <2>1. /\ Locked(n).data_count = n.data_count /\ SaveFailed(n).data_count = n.data_count
        /\ Unlocked(n).data_count = n.data_count /\ Stopping(n).data_count = n.data_count
    BY <1>1 DEF Locked, SaveFailed, Unlocked, Stopping, PerformanceMonitor
  <2> QED
    BY <1>2, <1>5, <2>1 DEF SaveOpen, SaveWrite, Destroy, CountsOf
<1>6. CASE FreeMonitor(t)
  <2>1. Freed(n).data_count = 0
    BY DEF Freed, NoMonitor
  <2> QED
    BY <1>2, <1>6, <2>1 DEF FreeMonitor
<1>7. CASE \/ OpenEvent(t) \/ OpenCsv(t) \/ Sample(t) \/ SampleLast(t) \/ SampleFails(t)
           \/ CloseEvent(t) \/ Join(t)
  BY <1>7 DEF OpenEvent, OpenCsv, Sample, SampleLast, SampleFails, CloseEvent, Join, CountsOf
<1> QED
  BY <1>3, <1>4, <1>5, <1>6, <1>7 DEF Collecting

(* What a step makes of the thread itself; of the others only file changes. *)
StaysBounded ==
  /\ DOMAIN collectors' = DOMAIN collectors
  /\ \A u \in DOMAIN collectors : Bounded(collectors'[u])

LEMMA ThreadStaysBounded ==
  ASSUME Inv, Bounds, NEW t \in DOMAIN collectors, Collecting(t)
  PROVE  StaysBounded
<1> DEFINE me == collectors[t]
<1>1. /\ \A u \in DOMAIN collectors : collectors[u] \in Thread /\ Bounded(collectors[u])
      /\ me \in Thread /\ me.fds \in Seq(FDs) /\ me.sample \in Nat
      /\ TOTAL_EVENTS \in Nat \ {0} /\ TOTAL_SAMPLES \in Nat \ {0}
  <2>1. \A u \in DOMAIN collectors : collectors[u] \in Thread
    BY DEF Inv, Types
  <2>2. me.fds \in Seq(FDs) /\ me.sample \in Nat
    BY <2>1 DEF Thread
  <2> QED
    BY <2>1, <2>2, CollectDataAssumption DEF Bounds
<1>2. ASSUME NEW d, collectors' = [collectors EXCEPT ![t] = d], Bounded(d)
      PROVE  StaysBounded
  BY <1>1, <1>2 DEF StaysBounded
<1>3. Len(me.fds) <= TOTAL_EVENTS /\ me.sample \in 0 .. TOTAL_SAMPLES
  BY <1>1 DEF Bounded
<1>4. ASSUME NEW pc, Go(t, pc) PROVE StaysBounded
  <2>1. Bounded([me EXCEPT !.pc = pc])
    BY <1>1, <1>3 DEF Bounded, Thread
  <2> QED
    BY <1>2, <1>4, <2>1 DEF Go
<1>5. ASSUME NEW c \in Thread, NEW after \in {"save", "destroy"}, Bounded(c),
             collectors' = [collectors EXCEPT ![t] = Closing(c, after)]
      PROVE  StaysBounded
  BY <1>2, <1>5, ClosingIs DEF Bounded
<1>6. CASE OpenEvent(t)
  <2>1. CASE Go(t, "destroy")
    BY <1>4, <2>1
  <2>2. CASE ~ Go(t, "destroy")
    <3>1. PICK f \in FDs : collectors' = [collectors EXCEPT
             ![t].fds = Append(@, f),
             ![t].pc = IF Len(collectors[t].fds) + 1 = TOTAL_EVENTS THEN "csv" ELSE "open"]
      BY <1>6, <2>2 DEF OpenEvent, Free
    <3> DEFINE opened == Append(me.fds, f)
               pc == IF Len(me.fds) + 1 = TOTAL_EVENTS THEN "csv" ELSE "open"
               d == [me EXCEPT !.fds = opened, !.pc = pc]
    <3>2. Len(me.fds) < TOTAL_EVENTS
      BY <1>6, Before DEF OpenEvent, At, Holds
    <3>3. Len(opened) <= TOTAL_EVENTS
      BY <1>1, <3>2
    <3>4. collectors' = [collectors EXCEPT ![t] = d]
      BY <3>1
    <3> HIDE DEF opened, pc
    <3>5. Bounded(d)
      BY <1>1, <1>3, <3>3 DEF Bounded, Thread
    <3> HIDE DEF d
    <3> QED
      BY <1>2, <3>4, <3>5
  <2> QED
    BY <2>1, <2>2
<1>7. CASE OpenCsv(t)
  <2> DEFINE others == {u \in DOMAIN collectors \ {t} :
                          Writing(u) /\ collectors[u].pid = collectors[t].pid}
  <2>1. CASE collectors' = [collectors EXCEPT ![t] = Closing(me, "destroy")]
    BY <1>1, <1>5, <2>1
  <2>2. CASE collectors' = [u \in DOMAIN collectors |->
               IF u = t
               THEN [collectors[u] EXCEPT !.pc = "sample",
                       !.file = IF others = {} THEN "alone" ELSE "shared"]
               ELSE [collectors[u] EXCEPT !.file = IF u \in others THEN "shared" ELSE @]]
    <3>1. ASSUME NEW u \in DOMAIN collectors PROVE Bounded(collectors'[u])
      <4>1. collectors'[u].fds = collectors[u].fds /\ collectors'[u].sample = collectors[u].sample
        BY <1>1, <2>2 DEF Thread
      <4> QED
        BY <1>1, <4>1 DEF Bounded
    <3> QED
      BY <2>2, <3>1 DEF StaysBounded
  <2> QED
    BY <1>7, <2>1, <2>2 DEF OpenCsv
<1>8. CASE Sample(t) \/ SampleLast(t)
  <2>1. \A n \in 0 .. TOTAL_SAMPLES : Bounded([me EXCEPT !.sample = n])
                                     /\ [me EXCEPT !.sample = n] \in Thread
    BY <1>1, <1>3 DEF Bounded, Thread
  <2>2. CASE Sample(t)
    <3> DEFINE d == [me EXCEPT !.sample = @ + 1]
    <3>1. me.sample + 1 \in 0 .. TOTAL_SAMPLES
      BY <1>1, <2>2 DEF Sample
    <3>2. Bounded(d)
      BY <2>1, <3>1
    <3>3. collectors' = [collectors EXCEPT ![t] = d]
      BY <2>2 DEF Sample
    <3> HIDE DEF d
    <3> QED
      BY <1>2, <3>2, <3>3
  <2>3. CASE SampleLast(t)
    <3> DEFINE d == [me EXCEPT !.sample = TOTAL_SAMPLES]
    <3>1. TOTAL_SAMPLES \in 0 .. TOTAL_SAMPLES
      BY CollectDataAssumption
    <3>2. Bounded(d) /\ d \in Thread
      BY <2>1, <3>1
    <3>3. collectors' = [collectors EXCEPT ![t] = Closing(d, "save")]
      BY <2>3 DEF SampleLast
    <3> HIDE DEF d
    <3> QED
      BY <1>5, <3>2, <3>3
  <2> QED
    BY <1>8, <2>2, <2>3
<1>9. CASE CloseEvent(t)
  <2> DEFINE pc == IF Len(me.fds) = 1 THEN me.after ELSE "close"
             rest == Tail(me.fds)
             d == [me EXCEPT !.fds = rest, !.pc = pc]
  <2>1. me.fds # <<>>
    BY <1>9, Before DEF CloseEvent, At, Holds
  <2>2. Len(rest) <= TOTAL_EVENTS
    BY <1>1, <1>3, <2>1
  <2>3. collectors' = [collectors EXCEPT ![t] = d]
    BY <1>9 DEF CloseEvent
  <2> HIDE DEF pc, rest
  <2>4. Bounded(d)
    BY <1>1, <1>3, <2>2 DEF Bounded, Thread
  <2> HIDE DEF d
  <2> QED
    BY <1>2, <2>3, <2>4
<1>10. CASE SampleFails(t)
  BY <1>1, <1>5, <1>10 DEF SampleFails
<1>11. CASE \/ Create(t) \/ Start(t) \/ SaveOpen(t) \/ SaveWrite(t)
            \/ Destroy(t) \/ Join(t) \/ FreeMonitor(t)
  <2>1. \E pc : Go(t, pc)
    BY <1>11, Zenon DEF Create, Start, SaveOpen, SaveWrite, Destroy, Join, FreeMonitor
  <2> QED
    BY <1>4, <2>1
<1> QED
  BY <1>6, <1>7, <1>8, <1>9, <1>10, <1>11 DEF Collecting

(* The thread a csv file is named to be of.                                *)
LEMMA OwnersOfCsv ==
  ASSUME Inv, CsvInv, Bounds, NEW t \in DOMAIN collectors, Collecting(t), NEW p \in PIDs
  PROVE  csv'[p].by \in 0 .. Len(collectors)
<1>1. /\ csv[p] \in CsvFile /\ csv \in [PIDs -> CsvFile]
      /\ csv[p].by \in 0 .. Len(collectors)
      /\ t \in 0 .. Len(collectors) /\ 0 \in 0 .. Len(collectors)
  BY DEF CsvInv, Bounds, Inv, Types
<1>2. \A n : Written(csv[p], t, n).by \in {0, csv[p].by}
  BY <1>1 DEF Written, NobodysCsv, CsvFile
<1>3. \/ csv' = csv
      \/ csv' = [csv EXCEPT ![CsvOf(t)] = [by |-> t, rows |-> 0]]
      \/ \E n : csv' = [csv EXCEPT ![CsvOf(t)] = Written(@, t, n)]
  <2>1. CASE Sample(t) \/ SampleLast(t) \/ SampleFails(t)
    BY <2>1, Zenon DEF Sample, SampleLast, SampleFails, Closed
  <2>2. CASE ~ (Sample(t) \/ SampleLast(t) \/ SampleFails(t))
    BY <2>2 DEF Collecting, Create, Start, OpenEvent, OpenCsv, CloseEvent, SaveOpen,
                SaveWrite, Destroy, Join, FreeMonitor
  <2> QED
    BY <2>1, <2>2
<1>4. csv'[p].by \in {0, t, csv[p].by}
  BY <1>1, <1>2, <1>3
<1> QED
  BY <1>1, <1>4

LEMMA BoundsNext == Inv /\ CsvInv /\ Bounds /\ [Next]_vars => Bounds'
<1> SUFFICES ASSUME Inv, CsvInv, Bounds, [Next]_vars PROVE Bounds'
  OBVIOUS
<1>1. /\ monitors \in [Threads -> PerformanceMonitor] /\ collectors \in Seq(Thread)
      /\ DOMAIN collectors \subseteq Threads
      /\ MAX_DATA_POINTS \in Nat \ {0}
      /\ \A t \in Threads : monitors[t].data_count \in 0 .. MAX_DATA_POINTS
  BY PerfMonitorAssumption DEF Inv, Types, Bounds
<1>2. CASE UNCHANGED <<monitors, collectors, csv>>
  BY <1>2 DEF Bounds
<1>4. CASE Return
  <2>1. ASSUME NEW p \in PIDs PROVE csv'[p].by \in 0 .. Len(collectors)
    <3>1. csv'[p] = WrittenAtExit(p)
      BY <1>4 DEF Return
    <3>2. csv[p] \in CsvFile /\ csv[p].by \in 0 .. Len(collectors) /\ 0 \in 0 .. Len(collectors)
      BY <1>1 DEF CsvInv, Bounds
    <3>3. \A n : Written(csv[p], csv[p].by, n).by \in {0, csv[p].by}
      BY <3>2 DEF Written, NobodysCsv, CsvFile
    <3>4. WrittenAtExit(p).by \in {0, csv[p].by}
      BY <3>3 DEF WrittenAtExit, NobodysCsv
    <3> QED
      BY <3>1, <3>2, <3>4
  <2> QED
    BY <1>4, <2>1 DEF Return, Bounds
<1>5. ASSUME NEW p \in PIDs, HandleEvent(p) PROVE Bounds'
  <2>1. CASE collectors' = collectors
    BY <1>2, <1>5, <2>1 DEF HandleEvent, Bounds
  <2>2. CASE collectors' = Append(collectors, NewCollector(p))
    <3>1. Bounded(NewCollector(p))
      BY <1>1, CollectDataAssumption DEF Bounded, NewCollector
    <3>2. NewCollector(p) \in Thread
      BY DEF NewCollector, Thread, PCs
    <3>3. /\ Len(collectors) \in Nat /\ Len(collectors') = Len(collectors) + 1
          /\ DOMAIN collectors' = DOMAIN collectors \cup {Len(collectors) + 1}
          /\ collectors'[Len(collectors) + 1] = NewCollector(p)
          /\ \A u \in DOMAIN collectors : collectors'[u] = collectors[u]
      BY <1>1, <2>2, <3>2
    <3>4. \A u \in DOMAIN collectors' : Bounded(collectors'[u])
      BY <3>1, <3>3 DEF Bounds
    <3>5. \A q \in PIDs : csv'[q].by \in 0 .. Len(collectors')
      BY <1>5, <3>3 DEF HandleEvent, Bounds
    <3> QED
      BY <1>5, <3>4, <3>5 DEF HandleEvent, Bounds
  <2> QED
    BY <1>5, <2>1, <2>2 DEF HandleEvent
<1>6. ASSUME NEW t \in DOMAIN collectors, Collecting(t) PROVE Bounds'
  <2>1. StaysBounded /\ CountsOf(t)
    BY <1>6, ThreadStaysBounded, OwnersCounts
  <2>2. Len(collectors') = Len(collectors)
    <3>1. collectors' \in Seq(Thread)
      BY NextInv DEF Inv, Types
    <3> QED
      BY <1>1, <2>1, <3>1 DEF StaysBounded
  <2>3. \A u \in Threads : monitors'[u].data_count \in 0 .. MAX_DATA_POINTS
    BY <1>1, <2>1 DEF CountsOf
  <2>4. \A p \in PIDs : csv'[p].by \in 0 .. Len(collectors')
    BY <1>6, <2>2, OwnersOfCsv
  <2> QED
    BY <1>6, <2>1, <2>3, <2>4 DEF Bounds, StaysBounded, Collecting
<1>7. ASSUME NEW t \in DOMAIN collectors, Sampling(t) PROVE Bounds'
  <2>1. monitors[t] \in PerformanceMonitor /\ t \in Threads
    BY <1>1
  <2>2. \A u \in Threads : monitors'[u].data_count \in 0 .. MAX_DATA_POINTS
    <3>1. CASE CheckRunning(t)
      <4>1. PICK to : monitors' = [monitors EXCEPT ![t].sampler = to]
        BY <3>1 DEF CheckRunning, Sampler
      <4> QED
        BY <1>1, <2>1, <4>1 DEF PerformanceMonitor
    <3>2. CASE AppendPoint(t)
      <4>1. AddPoint(monitors[t].data_count) \in 0 .. MAX_DATA_POINTS
        BY <1>1, <2>1 DEF AddPoint
      <4>2. PICK n \in 0 .. MAX_DATA_POINTS :
              monitors' = [monitors EXCEPT ![t].data_count = n, ![t].sampler = "check"]
        BY <3>2, <4>1 DEF AppendPoint
      <4> QED
        BY <1>1, <2>1, <4>2 DEF PerformanceMonitor
    <3> QED
      BY <1>7, <3>1, <3>2 DEF Sampling, SamplerStep
  <2> QED
    BY <1>7, <2>2 DEF Sampling, Bounds
<1> QED
  BY <1>2, <1>4, <1>5, <1>6, <1>7 DEF Next, Stopped, vars

(* A monitor's points fit in its array, whoever is killed or fails, and a  *)
(* thread has no more perf events and samples than collect_perf_events     *)
(* makes.                                                                  *)
THEOREM CollectorTypes == Spec => []TypeOK
<1>1. Init => Bounds
  <2> SUFFICES ASSUME Init PROVE Bounds
    OBVIOUS
  <2>1. 0 \in 0 .. MAX_DATA_POINTS
    BY PerfMonitorAssumption
  <2> QED
    BY <2>1 DEF Init, MonitorInit, NoMonitor, NobodysCsv, Bounds
<1> QED
  BY <1>1, CsvInit, CsvNext, FdInit, FdNext, BoundsNext, BoundsAreTypes, CollectorInvariant,
     PTL DEF Spec
=============================================================================
