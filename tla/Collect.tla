------------------------------- MODULE Collect -------------------------------
(***************************************************************************)
(* The monitor threads: monitor_thread of the_main.c and                   *)
(* collect_perf_events of collect.c.  A thread opens its perf events one   *)
(* after another, samples them, writes one message to its pipe every       *)
(* PRINT_EVERY samples, and closes the perf events.  It never closes the   *)
(* write end of its pipe.                                                  *)
(*                                                                         *)
(* What is sampled is the subject of Sampling; here a batch of samples is  *)
(* its number and the length of its text.                                  *)
(***************************************************************************)
EXTENDS Process

CONSTANTS
  TOTAL_EVENTS,  (* perf events per thread, 4                             *)
  BATCHES,       (* messages per thread, TOTAL_SAMPLES / PRINT_EVERY = 3  *)
  MSG_UNITS      (* lengths a message can have                            *)

(* 436 bytes of text and 4 * 10 numbers of 2 to 10 digits: a message always *)
(* fits one read, and two of them may or may not.                           *)
ASSUME CollectAssumption ==
  /\ TOTAL_EVENTS \in Nat \ {0}
  /\ BATCHES \in Nat \ {0}
  /\ MSG_UNITS \subseteq 1 .. READ_UNITS

VARIABLE collectors   (* the threads, in the order they were created      *)

(* A thread handed the write end of the wrong slot.                        *)
NewCollectorFirstSlot(pid, pipe_fd, pipe) ==
  [pid |-> pid, pipe_fd |-> pipe_fds[0].wr, pipe |-> pipe,
   pc |-> "open", fds |-> <<>>, batch |-> 1]

NewCollector(pid, pipe_fd, pipe) ==
  [pid |-> pid, pipe_fd |-> pipe_fd, pipe |-> pipe,
   pc |-> "open", fds |-> <<>>, batch |-> 1]

(* perf_event_open of the next event.  The kernel refuses it when the      *)
(* target is gone, without permission or without a free descriptor, and    *)
(* the thread returns with the events it already opened still open.        *)
OpenEvent(c) ==
  LET me == collectors[c]
  IN  /\ Running /\ me.pc = "open"
      /\ \/ /\ Free # {}
            /\ LET fd == LowestFree(Free)
                   opened == Append(me.fds, fd)
               IN  /\ fd_table' = [fd_table EXCEPT ![fd] = PerfEvent]
                   /\ collectors' = [collectors EXCEPT
                        ![c].fds = opened,
                        ![c].pc = IF Len(opened) = TOTAL_EVENTS THEN "sample"
                                  ELSE "open"]
         \/ /\ Fails("perf_open") \/ Free = {}
            /\ collectors' = [collectors EXCEPT ![c].pc = "failed"]
            /\ UNCHANGED fd_table
      /\ UNCHANGED <<proc, pipes>>

(* One batch too many.                                                     *)
AdvanceTooFar(c) ==
  [collectors EXCEPT ![c].batch = @ + 1,
                     ![c].pc = IF collectors[c].batch > BATCHES THEN "close"
                               ELSE "sample"]

Advance(c) ==
  [collectors EXCEPT ![c].batch = @ + 1,
                     ![c].pc = IF collectors[c].batch = BATCHES THEN "close"
                               ELSE "sample"]

(* A read end that a read() in progress holds counts as open.              *)
HasReader(p, reading) ==
  p = reading \/ ReadEnd(p) \in {fd_table[f] : f \in FDs}

(* The write at the end of a batch, to whatever the number now refers to:  *)
(* data for a pipe that has a reader, SIGPIPE and the end of the process   *)
(* for one that has none, an error that is only logged for anything else.  *)
WriteBatch(c, reading) ==
  LET me == collectors[c]
      target == fd_table[me.pipe_fd]
  IN  /\ Running /\ me.pc = "sample"
      /\ \/ /\ target.kind = "wr" /\ HasReader(target.pipe, reading)
            /\ \E length \in MSG_UNITS :
                 pipes' = [pipes EXCEPT
                   ![target.pipe].units = @ \o UnitsOf(me.pid, me.batch, length),
                   ![target.pipe].sent = @ + 1]
            /\ collectors' = Advance(c)
            /\ UNCHANGED proc
         \/ /\ target.kind = "wr" /\ ~ HasReader(target.pipe, reading)
            /\ proc' = "killed"
            /\ UNCHANGED <<collectors, pipes>>
         \/ /\ target.kind # "wr"
            /\ collectors' = Advance(c)
            /\ UNCHANGED <<proc, pipes>>
      /\ UNCHANGED fd_table

(* A thread that also closes the write end it was given.                   *)
ClosedWithPipe(me) == {Head(me.fds), me.pipe_fd}

ClosedBy(me) == {Head(me.fds)}

CloseEvent(c) ==
  LET me == collectors[c]
  IN  /\ Running /\ me.pc = "close"
      /\ fd_table' = CloseAll(ClosedBy(me))
      /\ collectors' = [collectors EXCEPT
           ![c].fds = Tail(@),
           ![c].pc = IF Len(me.fds) = 1 THEN "done" ELSE "close"]
      /\ UNCHANGED <<proc, pipes>>

CollectorStep(c, reading) ==
  /\ OpenEvent(c) \/ WriteBatch(c, reading) \/ CloseEvent(c)
  /\ UNCHANGED shared
=============================================================================
