------------------------------ MODULE Detector ------------------------------
(***************************************************************************)
(* The detector: the main thread, the monitor threads it creates, and the  *)
(* receive thread, in one process.  They share pipe_fds under pipe_mutex,  *)
(* exiting, and the descriptor table.                                      *)
(***************************************************************************)
EXTENDS TheMain, Receive

vars == <<main_vars, shared, kernel, collectors, receive_vars>>

Init == ProcessInit /\ collectors = <<>> /\ MainInit /\ ReceiveInit

Captures == \E p \in PIDs : Exec(p) /\ UNCHANGED receive_vars
Interrupt == Signal /\ UNCHANGED receive_vars
Clock == Tick /\ UNCHANGED receive_vars
Main == MainStep /\ UNCHANGED receive_vars
Collector(c) ==
  CollectorStep(c, reading) /\ UNCHANGED <<main_vars, receive_vars>>
Receiver == ReceiveStep(now) /\ UNCHANGED <<main_vars, collectors>>

(* A process that has ended stays as it is.                                *)
Stopped == ~ Running /\ UNCHANGED vars

Next ==
  \/ Captures \/ Interrupt \/ Clock \/ Main \/ Receiver \/ Stopped
  \/ \E c \in DOMAIN collectors : Collector(c)

Spec == Init /\ [][Next]_vars

(* The scheduler runs every thread that can run: nothing more is assumed,  *)
(* neither that a signal comes nor that time passes.  Every thread has     *)
(* taken a slot, so there are at most MAX_PIDS.  (Every step of a thread   *)
(* changes the variables its fairness names.)                              *)
Fairness ==
  /\ WF_<<main_vars, proc>>(Main)
  /\ WF_receive_vars(Receiver)
  /\ \A c \in 1 .. MAX_PIDS : WF_<<collectors, proc>>(c \in DOMAIN collectors /\ Collector(c))

FairSpec == Spec /\ Fairness

-----------------------------------------------------------------------------
Descriptor ==
  {Closed, PerfEvent} \cup UNION {{ReadEnd(p), WriteEnd(p)} : p \in DOMAIN pipes}

TypeOK ==
  /\ exiting \in BOOLEAN
  /\ pipe_fds \in [Slots -> [rd : FDs, wr : FDs]]
  /\ pipe_count \in 0 .. MAX_PIDS
  /\ pipe_mutex \in {"free", "main"}
  /\ proc \in {"running", "exited", "killed"}
  /\ fd_table \in [FDs -> Descriptor]
  /\ pipes \in Seq([units : Seq([pid : PIDs, batch : 1 .. BATCHES, head : BOOLEAN]),
                    sent : 0 .. BATCHES, got : Seq(1 .. BATCHES)])
  /\ \A c \in DOMAIN collectors :
       /\ collectors[c] \in [pid : PIDs, pipe_fd : FDs, pipe : DOMAIN pipes,
            pc : {"open", "sample", "close", "done", "failed"},
            fds : Seq(FDs), batch : 1 .. BATCHES + 1]
       /\ Len(collectors[c].fds) <= TOTAL_EVENTS
  /\ mpc \in {"check", "poll", "handle", "register", "spawn", "free",
              "lock", "close", "return"}
  /\ rpc \in {"load", "check", "sync", "poll", "serve", "blocked", "sweep",
              "free", "ended"}
  /\ serving \subseteq DOMAIN pfds
  /\ reading \in {0} \cup DOMAIN pipes

-----------------------------------------------------------------------------
(* Who owns what.                                                          *)

UpTo(n) == 0 .. n - 1
BeforeCleanup == Running /\ mpc \notin {"close", "return"}

(* Every thread that was created is listened to until cleanup_pipes        *)
(* starts, whatever became of others: some slot holds the two ends of its  *)
(* pipe, both open, and the receiver polls the slots from the first on.    *)
ThreadsArePolled ==
  BeforeCleanup =>
    /\ \A c \in DOMAIN collectors : \E s \in UpTo(pipe_count) :
         /\ pipe_fds[s].wr = collectors[c].pipe_fd
         /\ fd_table[pipe_fds[s].wr] = WriteEnd(collectors[c].pipe)
         /\ fd_table[pipe_fds[s].rd] = ReadEnd(collectors[c].pipe)
    /\ Len(pfds) <= pipe_count
    /\ \A i \in DOMAIN pfds : pfds[i] = pipe_fds[i - 1].rd

(* Every open descriptor has one owner: a pipe's ends a slot or the event  *)
(* being handled, a perf event one thread.  What a thread has opened stays *)
(* open, through the races of cleanup_pipes with perf_event_open for a     *)
(* number; and a thread that ended normally has closed it all.             *)
DescriptorsHaveOwners ==
  /\ \A f \in FDs : fd_table[f].kind \in {"rd", "wr"} =>
       \/ f \in {fresh.rd, fresh.wr} /\ mpc \in {"register", "spawn"}
       \/ \E s \in Slots : f \in {pipe_fds[s].rd, pipe_fds[s].wr}
                         /\ (s < pipe_count)
  /\ \A c \in DOMAIN collectors :
       /\ \A i \in DOMAIN collectors[c].fds :
            fd_table[collectors[c].fds[i]] = PerfEvent
       /\ collectors[c].pc = "done" => collectors[c].fds = <<>>
  /\ \A f \in FDs : fd_table[f] = PerfEvent =>
       Cardinality({c \in DOMAIN collectors :
                      f \in {collectors[c].fds[i] : i \in DOMAIN collectors[c].fds}}) = 1

(* A thread's messages go into the pipe made for it and no other, although *)
(* it only keeps a number that others may close and the kernel reuses.     *)
MessagesStayHome ==
  \A p \in DOMAIN pipes : \A i \in DOMAIN pipes[p].units :
    \E c \in DOMAIN collectors :
      collectors[c].pipe = p /\ collectors[c].pid = pipes[p].units[i].pid

(* As long as every thread can be created, the receiver only reads what    *)
(* poll() announced and nobody else has read since: it never waits in a    *)
(* read() for one process while the others' pipes fill up.                 *)
ReadNeverBlocks == rpc # "blocked"

(* When threads cannot be created, closed numbers stay in pipe_fds and come *)
(* back as other pipes.  The receiver then polls a number twice and may     *)
(* block at its second read(); it blocks for no other reason.               *)
BlocksOnReuseOnly ==
  rpc = "blocked" =>
    \E i, j \in DOMAIN pfds : i # j /\ pfds[i] = pfds[j]

(* The end of main leaves no pipe open that it registered (cleanup_pipes). *)
PipesClosedAtExit ==
  proc = "exited" => \A f \in FDs : fd_table[f].kind \in {"closed", "perf"}

(* SIGPIPE, which ends the process at once, takes a pipe whose read end is *)
(* closed and whose write end is not: only cleanup_pipes makes one, between *)
(* the two closes of a slot (the_main.c:87-88), and it is then cut short.  *)
KilledInCleanupOnly == proc = "killed" => mpc = "close"

-----------------------------------------------------------------------------
(* What arrives.                                                           *)

PipeOr(p, default, field) == IF p \in DOMAIN pipes THEN pipes[p][field] ELSE default

(* Pipes, partial reads and the poll loop implement in-order, at-most-once *)
(* delivery that never loses a thread's first message.                     *)
Channel == INSTANCE Delivery WITH
  Channels <- 1 .. MAX_EXECS,
  sent <- [p \in 1 .. MAX_EXECS |-> PipeOr(p, 0, "sent")],
  got <- [p \in 1 .. MAX_EXECS |-> PipeOr(p, <<>>, "got")]
DeliverySpec == Channel!Spec

(* The newest message that was stored for pipe p is in the node of its     *)
(* thread's PID, and that node is old enough to go.                        *)
Filed(p) ==
  \E c \in DOMAIN collectors :
    /\ collectors[c].pipe = p
    /\ Known(data_table, collectors[c].pid)
    /\ Last(pipes[p].got) \in Range(NodeOf(data_table, collectors[c].pid).data)

Outdated(p) ==
  \E c \in DOMAIN collectors :
    /\ collectors[c].pipe = p
    /\ now - NodeOf(data_table, collectors[c].pid).timestamp >= STALE_SECS

(* Nothing delivered is forgotten while it is young: a read that delivers   *)
(* leaves the message in the node of the PID whose thread sent it, and it  *)
(* stays there whatever the other threads, full arrays and failed          *)
(* allocations do, until a sweep finds the node outdated or the receiver   *)
(* frees the table (add_data_to_pid, cleanup_old_data).                    *)
DeliveredIsFiled ==
  [][\A p \in DOMAIN pipes :
       /\ pipes'[p].got # pipes[p].got => Filed(p)'
       /\ pipes[p].got # <<>> /\ Filed(p) /\ ~ Filed(p)' =>
            rpc = "free" \/ (rpc = "sweep" /\ Outdated(p))]_vars

-----------------------------------------------------------------------------
(* What must eventually happen.                                            *)

Listening == Running /\ ~ exiting /\ rpc \notin {"free", "ended"}

Spoke(c) == c \in DOMAIN collectors /\ pipes[collectors[c].pipe].sent > 0
Heard(c) == c \in DOMAIN collectors /\ pipes[collectors[c].pipe].got # <<>>

(* While the receiver is listening, every thread that got a message out    *)
(* gets its first one classified.                                          *)
FirstMessageArrives ==
  \A c \in 1 .. MAX_PIDS : Spoke(c) ~> Heard(c) \/ ~ Listening

(* A signal ends the process, whatever the other threads are doing: the    *)
(* mutex is never left locked and main never waits for a pipe.  Death by   *)
(* SIGPIPE counts as an end here; SignalCleansUp does not take it for one. *)
SignalEndsProcess == exiting ~> ~ Running

(* A process whose execve reached the perf buffer gets its thread, or the  *)
(* program is on its way out: neither a buffer that overflows meanwhile    *)
(* nor the other events of its batch nor a main thread that is busy or     *)
(* asleep loses it (trace_execve, perf_buffer__poll, handle_event).        *)
Monitored(p) == \E c \in DOMAIN collectors : collectors[c].pid = p

EventsAreHandled ==
  \A p \in PIDs : p \in Range(ring) ~> Monitored(p) \/ exiting

-----------------------------------------------------------------------------
(* What the documentation says and the code does not do.                   *)

(* "Ctrl+C ends the program; it cleans up its tables and pipes": after a   *)
(* signal main gets through cleanup_pipes and returns.                     *)
SignalCleansUp == exiting ~> proc = "exited"
=============================================================================
