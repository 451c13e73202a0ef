----------------------------- MODULE CollectData -----------------------------
(***************************************************************************)
(* The collector of training data (collect_data/program): for every execve *)
(* the main thread starts a detached thread that samples the process's     *)
(* counters into a csv file named after the PID, while a PerfMonitor of    *)
(* its own watches the collector itself.  Unlike the detector it handles   *)
(* every event: a PID that calls execve twice gets two threads.  The       *)
(* descriptors of the perf events are numbers of one table, the lowest     *)
(* free one first, so a number that a thread closes may be another's next. *)
(*                                                                         *)
(* pc is where a collecting thread is:                                     *)
(*   create, start, open, csv, sample                                      *)
(*   close    in the loop that closes its perf events                      *)
(*   save, write                                                           *)
(*   destroy  in perf_monitor_destroy, about to look at running            *)
(*   join     waiting for the sampling thread                              *)
(*   free     about to free the monitor                                    *)
(*   done                                                                  *)
(***************************************************************************)
EXTENDS PerfMonitor, Sequences, FiniteSets

CONSTANTS
  PIDs,
  NOFILE,          (* descriptors left for perf events, beside the few of *)
                   (* stdio's files, whose numbers are left out           *)
  TOTAL_EVENTS,    (* perf events per thread, 4                           *)
  TOTAL_SAMPLES    (* rows of a csv, 1000                                 *)

ASSUME CollectDataAssumption ==
  /\ IsFiniteSet(Threads) /\ Threads = 1 .. Cardinality(Threads)
  /\ PIDs \subseteq Nat
  /\ NOFILE \in Nat /\ TOTAL_EVENTS \in Nat \ {0} /\ TOTAL_SAMPLES \in Nat \ {0}

VARIABLES
  collectors,   (* the threads, in the order they were created            *)
  csv,          (* PID -> perf_output_<PID>.csv                           *)
  fd_table,     (* descriptor -> the thread that opened it, 0 if closed   *)
  proc          (* "running" or "exited"                                  *)

vars == <<monitors, collectors, csv, fd_table, proc>>

FDs == 0 .. NOFILE - 1

(* A csv file with the first rows rows of thread by; NobodysCsv is one     *)
(* that does not exist, is of an earlier run, or that several threads      *)
(* have written over each other.                                           *)
NobodysCsv == [by |-> 0, rows |-> 0]

Init ==
  /\ MonitorInit
  /\ collectors = <<>>
  /\ csv = [p \in PIDs |-> NobodysCsv]
  /\ fd_table = [f \in FDs |-> 0]
  /\ proc = "running"

Running == proc = "running"

-----------------------------------------------------------------------------
(* The main thread.                                                        *)

(* fds has the perf events that are still to be closed, and after is where *)
(* the thread goes when it has left the loop that closes them.             *)
NewCollector(p) ==
  [pid |-> p, pc |-> "create", fds |-> <<>>, sample |-> 0, file |-> "none",
   after |-> "none"]

(* handle_event: a thread, or nothing if the argument or the thread cannot *)
(* be allocated.  PIDs are named in the order of their first execve.       *)
HandleEvent(p) ==
  /\ Running /\ Len(collectors) < Cardinality(Threads)
  /\ \A q \in PIDs : q < p => \E t \in DOMAIN collectors : collectors[t].pid = q
  /\ \/ collectors' = Append(collectors, NewCollector(p))
     \/ /\ Fails("spawn")
        /\ collectors' = collectors
  /\ UNCHANGED <<monitors, csv, fd_table, proc>>

(* A thread that has its csv file open.                                    *)
Writing(t) == collectors[t].pc = "sample"

(* stdio hands n rows of t to the file, unless another thread opened the   *)
(* file after t.                                                           *)
Written(file, t, n) ==
  IF file.by = t THEN [file EXCEPT !.rows = n] ELSE NobodysCsv

(* exit flushes the files that are open.                                   *)
WrittenAtExit(p) ==
  LET writers == {t \in DOMAIN collectors : Writing(t) /\ collectors[t].pid = p}
  IN  IF writers = {} THEN csv[p]
      ELSE IF writers = {csv[p].by} THEN Written(csv[p], csv[p].by, collectors[csv[p].by].sample)
      ELSE NobodysCsv

(* A signal, which may come at any time, or a failing poll takes main out  *)
(* of its loop; it returns and the threads end where they are.             *)
Return ==
  /\ Running
  /\ proc' = "exited"
  /\ csv' = [p \in PIDs |-> WrittenAtExit(p)]
  /\ UNCHANGED <<monitors, collectors, fd_table>>

-----------------------------------------------------------------------------
(* A collecting thread: collect_perf_events.                               *)

At(t, pc) == Running /\ collectors[t].pc = pc
Go(t, pc) == collectors' = [collectors EXCEPT ![t].pc = pc]
Monitor(t, m) == monitors' = [monitors EXCEPT ![t] = m]

Create(t) ==
  /\ At(t, "create")
  /\ \/ Monitor(t, Created) /\ Go(t, "start")
     \/ Fails("monitor") /\ UNCHANGED monitors /\ Go(t, "done")
  /\ UNCHANGED <<csv, fd_table>>

Start(t) ==
  /\ At(t, "start")
  /\ \E m \in Started(monitors[t]) : Monitor(t, m)
  /\ Go(t, "open")
  /\ UNCHANGED <<csv, fd_table>>

Free == {f \in FDs : fd_table[f] = 0}

(* perf_event_open takes the lowest free number.  An event that cannot be  *)
(* opened ends the thread with the earlier ones still open.                *)
OpenEvent(t) ==
  /\ At(t, "open")
  /\ \/ \E f \in Free :
          /\ \A g \in Free : f <= g
          /\ fd_table' = [fd_table EXCEPT ![f] = t]
          /\ collectors' = [collectors EXCEPT
               ![t].fds = Append(@, f),
               ![t].pc = IF Len(collectors[t].fds) + 1 = TOTAL_EVENTS THEN "csv"
                         ELSE "open"]
     \/ /\ Fails("perf_open") \/ Free = {}
        /\ Go(t, "destroy")
        /\ UNCHANGED fd_table
  /\ UNCHANGED <<monitors, csv>>

(* The file is named after the PID.                                        *)
CsvOf(t) == collectors[t].pid

(* To the loop that closes the perf events, and from there to a pc.        *)
Closing(c, after) == [c EXCEPT !.pc = "close", !.after = after]

(* The directory and the file, emptied if it exists.  file is history:     *)
(* shared if another thread of the PID had it open while this one did.     *)
OpenCsv(t) ==
  LET others == {u \in DOMAIN collectors \ {t} :
                   Writing(u) /\ collectors[u].pid = collectors[t].pid}
  IN  /\ At(t, "csv")
      /\ \/ /\ csv' = [csv EXCEPT ![CsvOf(t)] = [by |-> t, rows |-> 0]]
            /\ collectors' = [u \in DOMAIN collectors |->
                 IF u = t
                 THEN [collectors[u] EXCEPT !.pc = "sample",
                         !.file = IF others = {} THEN "alone" ELSE "shared"]
                 ELSE [collectors[u] EXCEPT
                         !.file = IF u \in others THEN "shared" ELSE @]]
         \/ /\ Fails("csv")
            /\ collectors' = [collectors EXCEPT ![t] = Closing(@, "destroy")]
            /\ UNCHANGED csv
      /\ UNCHANGED <<monitors, fd_table>>

(* The last rows stay in stdio's buffer.                                   *)
ClosedUnflushed(t, n) == csv

(* fclose.                                                                 *)
Closed(t, n) == [csv EXCEPT ![CsvOf(t)] = Written(@, t, n)]

(* A round that is not the last: all counters and a row, which may fill    *)
(* stdio's buffer.                                                         *)
Sample(t) ==
  /\ At(t, "sample") /\ collectors[t].sample + 1 < TOTAL_SAMPLES
  /\ collectors' = [collectors EXCEPT ![t].sample = @ + 1]
  /\ csv' \in {csv, [csv EXCEPT ![CsvOf(t)] = Written(@, t, collectors'[t].sample)]}
  /\ UNCHANGED <<monitors, fd_table>>

(* The last round, after which everything is closed and the monitor saved. *)
SampleLast(t) ==
  /\ At(t, "sample") /\ collectors[t].sample + 1 = TOTAL_SAMPLES
  /\ collectors' = [collectors EXCEPT
       ![t] = Closing([@ EXCEPT !.sample = TOTAL_SAMPLES], "save")]
  /\ csv' = Closed(t, TOTAL_SAMPLES)
  /\ UNCHANGED <<monitors, fd_table>>

(* A short read ends the thread.                                           *)
SampleFails(t) ==
  /\ At(t, "sample") /\ Fails("read")
  /\ collectors' = [collectors EXCEPT ![t] = Closing(@, "destroy")]
  /\ csv' = Closed(t, collectors[t].sample)
  /\ UNCHANGED <<monitors, fd_table>>

(* A loop that closes with the index of another loop.                      *)
OutOfOrder(fds) == fds[Len(fds)]

InOrder(fds) == Head(fds)

(* One step of the loop that closes the perf events, the same at every     *)
(* place that has one.                                                     *)
CloseEvent(t) ==
  LET fds == collectors[t].fds
  IN  /\ At(t, "close")
      /\ fd_table' = [fd_table EXCEPT ![InOrder(fds)] = 0]
      /\ collectors' = [collectors EXCEPT
           ![t].fds = Tail(@),
           ![t].pc = IF Len(fds) = 1 THEN collectors[t].after ELSE "close"]
      /\ UNCHANGED <<monitors, csv>>

(* perf_monitor_save_csv holds the mutex while the file is written.        *)
SaveOpen(t) ==
  /\ At(t, "save") /\ monitors[t].data_mutex = "free"
  /\ \/ Monitor(t, Locked(monitors[t])) /\ Go(t, "write")
     \/ Fails("usage") /\ Monitor(t, SaveFailed(monitors[t])) /\ Go(t, "destroy")
  /\ UNCHANGED <<csv, fd_table>>

SaveWrite(t) ==
  /\ At(t, "write")
  /\ Monitor(t, Unlocked(monitors[t]))
  /\ Go(t, "destroy")
  /\ UNCHANGED <<csv, fd_table>>

(* A destroy that takes a full monitor for one that has stopped.           *)
StopsUnlessFull(m) == m.running /\ m.data_count < MAX_DATA_POINTS

Stops(m) == m.running

(* perf_monitor_destroy, perf_monitor_stop: nothing to stop if no sampling *)
(* thread was created.                                                     *)
Destroy(t) ==
  /\ At(t, "destroy")
  /\ IF Stops(monitors[t])
     THEN Monitor(t, Stopping(monitors[t])) /\ Go(t, "join")
     ELSE UNCHANGED monitors /\ Go(t, "free")
  /\ UNCHANGED <<csv, fd_table>>

Join(t) ==
  /\ At(t, "join") /\ monitors[t].sampler = "done"
  /\ Go(t, "free")
  /\ UNCHANGED <<monitors, csv, fd_table>>

FreeMonitor(t) ==
  /\ At(t, "free")
  /\ Monitor(t, Freed(monitors[t]))
  /\ Go(t, "done")
  /\ UNCHANGED <<csv, fd_table>>

Collecting(t) ==
  /\ \/ Create(t) \/ Start(t) \/ OpenEvent(t) \/ OpenCsv(t)
     \/ Sample(t) \/ SampleLast(t) \/ SampleFails(t)
     \/ CloseEvent(t) \/ SaveOpen(t) \/ SaveWrite(t) \/ Destroy(t) \/ Join(t)
     \/ FreeMonitor(t)
  /\ UNCHANGED proc

Sampling(t) ==
  /\ Running /\ SamplerStep(t)
  /\ UNCHANGED <<collectors, csv, fd_table, proc>>

Stopped == ~ Running /\ UNCHANGED vars

Next ==
  \/ Return \/ Stopped
  \/ \E p \in PIDs : HandleEvent(p)
  \/ \E t \in DOMAIN collectors : Collecting(t) \/ Sampling(t)

Spec == Init /\ [][Next]_vars

(* Every thread that can run runs; the mutex of a monitor is contended     *)
(* only by a save that happens once, so waiting for it is weakly fair too. *)
(* Every step of a thread changes the variable its fairness names.         *)
Fairness ==
  \A t \in Threads :
    /\ WF_collectors(t \in DOMAIN collectors /\ Collecting(t))
    /\ WF_monitors(t \in DOMAIN collectors /\ Sampling(t))

FairSpec == Spec /\ Fairness

-----------------------------------------------------------------------------
(* Properties.                                                             *)

(* Every field in its range: a monitor's points fit in its array, a thread *)
(* has no more perf events and samples than the code makes.                *)
TypeOK ==
  /\ monitors \in [Threads ->
       [mem : {"none", "live", "freed"}, running : BOOLEAN,
        data_count : 0 .. MAX_DATA_POINTS, data_mutex : {"free", "owner"},
        sampler : {"none", "check", "append", "done"}]]
  /\ Len(collectors) <= Cardinality(Threads)
  /\ \A t \in DOMAIN collectors :
       /\ collectors[t].fds \in Seq(FDs) /\ Len(collectors[t].fds) <= TOTAL_EVENTS
       /\ collectors[t].sample \in 0 .. TOTAL_SAMPLES
  /\ \A p \in PIDs : csv[p].by \in 0 .. Len(collectors)
  /\ fd_table \in [FDs -> {0} \cup Threads]

(* The sampling thread and its owner agree on its life, whatever failed:   *)
(* a sampling thread that has not returned has its monitor, which no path  *)
(* out of collect_perf_events frees (perf_monitor.c:164) before joining,   *)
(* and only a thread that was created is joined (perf_monitor.c:180), even *)
(* when perf_monitor_start failed and collect_perf_events went on.         *)
SamplerIsJoined ==
  \A t \in Threads :
    /\ monitors[t].sampler \in {"check", "append"} => monitors[t].mem = "live"
    /\ t \in DOMAIN collectors /\ collectors[t].pc = "join" =>
         monitors[t].sampler # "none"

(* No perf event is closed under the thread that opened it, although the   *)
(* numbers that others close are handed out again while they are closing;  *)
(* none stays open that no thread will close; and a thread that has left   *)
(* its loops (collect.c:107, 121, 146, 179) has closed all, but for one    *)
(* that could not open an event: its earlier ones stay open (94-98).       *)
EventsClosed ==
  /\ \A t \in DOMAIN collectors : \A i \in DOMAIN collectors[t].fds :
       fd_table[collectors[t].fds[i]] = t
  /\ \A f \in FDs : fd_table[f] # 0 =>
       \E i \in DOMAIN collectors[fd_table[f]].fds :
         collectors[fd_table[f]].fds[i] = f
  /\ \A t \in DOMAIN collectors :
       collectors[t].pc \in {"save", "write", "destroy", "join", "free", "done"} =>
         \/ collectors[t].fds = <<>>
         \/ collectors[t].file = "none" /\ Len(collectors[t].fds) < TOTAL_EVENTS

(* A csv file is one thread's, and all that thread printed reaches it      *)
(* however it ends, by its last round, a failed read or the return of main: *)
(* unless two threads of its PID had it open at the same time, nobody else *)
(* writes to it, the thread that is writing is the one that emptied it, and *)
(* its rows are all there once it has stopped.                             *)
CsvIsComplete ==
  \A p \in PIDs :
    LET of_p == {t \in DOMAIN collectors : collectors[t].pid = p /\ collectors[t].file # "none"}
        by == csv[p].by
    IN  of_p # {} /\ (\A t \in of_p : collectors[t].file = "alone") =>
          /\ by \in of_p
          /\ \A t \in of_p : Writing(t) => by = t
          /\ ~ Running \/ ~ Writing(by) => csv[p].rows = collectors[by].sample

(* The sampling thread adds nothing while perf_monitor_save_csv runs       *)
(* through the data: the file is the data of one moment.                   *)
DataStandsDuringSave ==
  [][\A t \in DOMAIN collectors :
       collectors[t].pc = "write" => monitors'[t].data_count = monitors[t].data_count]_vars

(* Every collecting thread ends, its monitor freed, unless the process     *)
(* does: neither the join of a sampling thread nor its mutex is waited for *)
(* in vain, after any failure.                                             *)
EveryThreadEnds ==
  \A t \in Threads :
    t \in DOMAIN collectors ~>
      \/ ~ Running
      \/ t \in DOMAIN collectors /\ collectors[t].pc = "done" /\ monitors[t].mem # "live"
=============================================================================
