--------------------------- MODULE DetectorProofs ---------------------------
(***************************************************************************)
(* The detector's process for any number of PIDs, slots, descriptors,      *)
(* events, batches and pieces of a message, under every combination of     *)
(* failing calls and every interleaving of its threads.                    *)
(*                                                                         *)
(* None of the safety properties is inductive alone.  That a thread's      *)
(* write end is still its own needs that main closes registered numbers    *)
(* only, that each open end is held by one number, that a new pipe's       *)
(* numbers are the slot's or the event's, and where main stands in         *)
(* cleanup_pipes; DetectorInv is the conjunction of these facts, one part  *)
(* per pair of owners that must agree.  Each part has a frame lemma (which *)
(* variables it reads), and each action a lemma that proves the parts it   *)
(* can disturb.                                                            *)
(***************************************************************************)
EXTENDS Detector, TableProofs, FiniteSetTheorems

-----------------------------------------------------------------------------
(* The places of main before cleanup_pipes has the mutex, and those at     *)
(* which it holds a pipe that has no thread yet.                           *)

Loop == {"check", "poll", "handle", "register", "spawn", "free", "lock"}
HoldsPipe == {"register", "spawn"}

Kinds == {"closed", "rd", "wr", "perf"}
Unit == [pid : PIDs, batch : 1 .. BATCHES, head : BOOLEAN]
Pipe == [units : Seq(Unit), sent : 0 .. BATCHES, got : Seq(1 .. BATCHES)]
Thread == [pid : PIDs, pipe_fd : FDs, pipe : Nat,
           pc : {"open", "sample", "close", "done", "failed"},
           fds : Seq(FDs), batch : 1 .. BATCHES + 1]

(* The slots in use, what a number means, and which numbers slots hold.    *)
Registered == UpTo(pipe_count)
Kind(f) == fd_table[f].kind
IsEnd(f) == Kind(f) \in {"rd", "wr"}
InSlot(f) == \E s \in Registered : f \in {pipe_fds[s].rd, pipe_fds[s].wr}

(* A number that is the end of a pipe names a pipe that was created.       *)
KernelTypes ==
  /\ fd_table \in [FDs -> [kind : Kinds, pipe : Nat]]
  /\ pipes \in Seq(Pipe)
  /\ \A f \in FDs : IF IsEnd(f) THEN fd_table[f].pipe \in DOMAIN pipes
                    ELSE fd_table[f].pipe = 0

(* What pipe_mutex guards.                                                 *)
SharedTypes ==
  /\ exiting \in BOOLEAN
  /\ pipe_fds \in [Slots -> [rd : FDs, wr : FDs]]
  /\ pipe_count \in 0 .. MAX_PIDS
  /\ proc \in {"running", "exited", "killed"}

(* Main holds the mutex while it closes, and is only killed there; it has  *)
(* an event in hand while it handles one.                                  *)
MainTypes ==
  /\ mpc \in Loop \cup {"close", "return"}
  /\ ring \in Seq(PIDs) /\ batch \in Seq(PIDs)
  /\ closing \in Seq(FDs)
  /\ mpc \in HoldsPipe \cup {"handle"} => batch # <<>>
  /\ pipe_mutex = IF mpc = "close" THEN "main" ELSE "free"
  /\ proc = "killed" => mpc = "close"
  /\ proc = "exited" => mpc = "return"

(* The receiver serves exactly while something announced is left.          *)
ReceiverTypes ==
  /\ rpc \in {"load", "check", "sync", "poll", "serve", "blocked", "sweep", "free", "ended"}
  /\ pfds \in Seq(FDs)
  /\ serving \subseteq DOMAIN pfds
  /\ serving # {} <=> rpc \in {"serve", "blocked"}
  /\ reading \in {0} \cup DOMAIN pipes
  /\ rpc = "blocked" => reading # 0

(* Where a thread is, against what it has opened and sent.                 *)
ThreadState(me) ==
  /\ me.pc = "open" => Len(me.fds) < TOTAL_EVENTS /\ me.batch = 1
  /\ me.pc = "sample" => Len(me.fds) = TOTAL_EVENTS /\ me.batch <= BATCHES
  /\ me.pc = "close" => Len(me.fds) \in 1 .. TOTAL_EVENTS
  /\ me.pc = "done" => me.fds = <<>>
  /\ me.pc = "failed" => Len(me.fds) < TOTAL_EVENTS

ThreadTypes ==
  /\ collectors \in Seq(Thread)
  /\ \A c \in DOMAIN collectors :
       collectors[c].pipe \in DOMAIN pipes /\ ThreadState(collectors[c])

(* The process never dups: an end of a pipe is one number.                 *)
EndsAreUnique ==
  \A f, g \in FDs : IsEnd(f) /\ fd_table[f] = fd_table[g] => f = g

(* An open end is in a slot or in main's hand, and once cleanup_pipes has  *)
(* begun it is still to be closed.                                         *)
EndsAreOwned ==
  \A f \in FDs : IsEnd(f) =>
    /\ mpc # "return"
    /\ InSlot(f) \/ (mpc \in HoldsPipe /\ f \in {fresh.rd, fresh.wr})
    /\ mpc = "close" => \E k \in DOMAIN closing : closing[k] = f

(* The pipe in main's hand: both ends open, nothing written, no thread     *)
(* that knows it, and once registered in the last slot.                    *)
FreshPipe ==
  mpc \in HoldsPipe =>
    /\ fresh.pid \in PIDs /\ fresh.rd \in FDs /\ fresh.wr \in FDs
    /\ fresh.pipe \in DOMAIN pipes
    /\ fd_table[fresh.rd] = ReadEnd(fresh.pipe)
    /\ fd_table[fresh.wr] = WriteEnd(fresh.pipe)
    /\ pipes[fresh.pipe].sent = 0
    /\ \A c \in DOMAIN collectors : collectors[c].pipe # fresh.pipe
    /\ mpc = "spawn" => /\ pipe_count > 0
                        /\ pipe_fds[pipe_count - 1] = [rd |-> fresh.rd, wr |-> fresh.wr]

(* Up to cleanup_pipes every thread has a slot with both ends of its pipe. *)
ThreadsHaveSlots ==
  mpc \in Loop =>
    \A c \in DOMAIN collectors : \E s \in Registered :
      /\ pipe_fds[s].wr = collectors[c].pipe_fd
      /\ fd_table[pipe_fds[s].wr] = WriteEnd(collectors[c].pipe)
      /\ fd_table[pipe_fds[s].rd] = ReadEnd(collectors[c].pipe)

(* The number a thread keeps means its own pipe whenever it means a write  *)
(* end, and no two threads have one pipe.                                  *)
OwnPipes ==
  /\ \A c \in DOMAIN collectors :
       /\ Kind(collectors[c].pipe_fd) = "wr" =>
            fd_table[collectors[c].pipe_fd].pipe = collectors[c].pipe
       /\ pipes[collectors[c].pipe].sent < collectors[c].batch
  /\ \A c, d \in DOMAIN collectors : collectors[c].pipe = collectors[d].pipe => c = d

(* A thread's perf events are open, and its own alone, until cleanup_pipes *)
(* closes stale numbers; then they can be lost but not become something    *)
(* else, as nothing opens pipes any more.                                  *)
PerfEvents ==
  /\ \A c \in DOMAIN collectors : \A i \in DOMAIN collectors[c].fds :
       IF mpc \in Loop THEN Kind(collectors[c].fds[i]) = "perf"
       ELSE Kind(collectors[c].fds[i]) \in {"perf", "closed"}
  /\ mpc \in Loop =>
       \A c, d \in DOMAIN collectors :
         \A i \in DOMAIN collectors[c].fds, j \in DOMAIN collectors[d].fds :
           collectors[c].fds[i] = collectors[d].fds[j] => c = d /\ i = j

(* The poll set is what the first slots held, in their order.              *)
PollSet ==
  /\ IF mpc = "return" THEN pipe_count = 0 ELSE Len(pfds) <= pipe_count
  /\ Len(pfds) <= MAX_PIDS
  /\ \A i \in DOMAIN pfds : pfds[i] = pipe_fds[i - 1].rd

(* A number that stands in the poll set a second time.                     *)
Twice(i) == \E j \in DOMAIN pfds : j # i /\ pfds[j] = pfds[i]

(* What poll() announced is the read end of a thread's pipe (in the loop)  *)
(* and has data, unless its number is polled twice.                        *)
Serving ==
  \A i \in serving :
    /\ mpc \in Loop =>
         \E c \in DOMAIN collectors : fd_table[pfds[i]] = ReadEnd(collectors[c].pipe)
    /\ Kind(pfds[i]) = "rd" => pipes[fd_table[pfds[i]].pipe].units # <<>> \/ Twice(i)

(* A read() only waits at a number that is polled twice.                   *)
Blocked ==
  rpc = "blocked" =>
    /\ Twice(NextServed)
    /\ \A f \in FDs : fd_table[f] = ReadEnd(reading) => f = pfds[NextServed]

DetectorInv ==
  /\ KernelTypes /\ SharedTypes /\ MainTypes /\ ReceiverTypes /\ ThreadTypes
  /\ EndsAreUnique /\ EndsAreOwned /\ FreshPipe
  /\ ThreadsHaveSlots /\ OwnPipes /\ PerfEvents /\ MessagesStayHome
  /\ PollSet /\ Serving /\ Blocked

-----------------------------------------------------------------------------
LEMMA Bounds ==
  /\ NOFILE \in Nat \ {0} /\ MAX_PIDS \in Nat \ {0} /\ READ_UNITS \in Nat \ {0}
  /\ TOTAL_EVENTS \in Nat \ {0} /\ BATCHES \in Nat \ {0}
  /\ MSG_UNITS \subseteq 1 .. READ_UNITS /\ PIDs \subseteq Nat
BY ProcessAssumption, CollectAssumption, HashTableAssumption

LEMMA LowestFreeIn ==
  ASSUME NEW S \in SUBSET FDs, S # {} PROVE LowestFree(S) \in S
<1>1. S \in SUBSET Nat
  BY Bounds DEF FDs
<1> QED
  BY <1>1, LeastExists DEF LowestFree

LEMMA MinIn ==
  ASSUME NEW S \in SUBSET Nat, S # {}
  PROVE  Min(S) \in S /\ \A y \in S : Min(S) <= y
BY LeastExists DEF Min

(* pipe() returns two numbers that were free.                              *)
LEMMA NewPairIsFree ==
  ASSUME Cardinality(Free) >= 2
  PROVE  /\ NewPair.rd \in Free /\ NewPair.wr \in Free /\ NewPair.rd # NewPair.wr
<1> DEFINE rd == LowestFree(Free)
<1>1. Free \subseteq FDs /\ IsFiniteSet(Free)
  <2>1. IsFiniteSet(FDs)
    BY Bounds, FS_Interval DEF FDs
  <2> QED
    BY <2>1, FS_Subset DEF Free
<1>2. Free # {}
  BY FS_EmptySet
<1>3. rd \in Free
  BY <1>1, <1>2, LowestFreeIn
<1>4. Free \ {rd} # {}
  BY <1>1, <1>3, FS_RemoveElement, FS_EmptySet, FS_CardinalityType
<1>5. LowestFree(Free \ {rd}) \in Free \ {rd}
  BY <1>1, <1>4, LowestFreeIn
<1> QED
  BY <1>3, <1>5 DEF NewPair

(* The pieces of one message.                                              *)
LEMMA UnitsTypes ==
  ASSUME NEW pid \in PIDs, NEW b \in 1 .. BATCHES, NEW length \in MSG_UNITS
  PROVE  /\ UnitsOf(pid, b, length) \in Seq(Unit)
         /\ Len(UnitsOf(pid, b, length)) = length /\ length \in Nat \ {0}
         /\ DOMAIN UnitsOf(pid, b, length) = 1 .. length
         /\ \A i \in 1 .. length :
              UnitsOf(pid, b, length)[i] = [pid |-> pid, batch |-> b, head |-> i = 1]
<1>1. length \in Nat \ {0}
  BY Bounds
<1>2. \A i \in 1 .. length : [pid |-> pid, batch |-> b, head |-> i = 1] \in Unit
  BY DEF Unit
<1> QED
  BY <1>1, <1>2 DEF UnitsOf

(* What a read leaves: the rest of the units, fewer than there were.       *)
LEMMA LeftTypes ==
  ASSUME NEW units \in Seq(Unit), units # <<>>
  PROVE  /\ Left(units) \in Seq(Unit)
         /\ \E k \in 1 .. Len(units) :
              /\ Len(Left(units)) = Len(units) - k
              /\ \A i \in DOMAIN Left(units) :
                   i + k \in DOMAIN units /\ Left(units)[i] = units[i + k]
<1> DEFINE k == Min({READ_UNITS, Len(units)})
<1>1. k \in 1 .. Len(units)
  BY Bounds, MinIn
<1> HIDE DEF k
<1>2. Left(units) = SubSeq(units, k + 1, Len(units))
  BY DEF Left, k
<1>3. Left(units) \in Seq(Unit) /\ Len(Left(units)) = Len(units) - k
  BY <1>1, <1>2
<1>4. ASSUME NEW i \in DOMAIN Left(units)
      PROVE  i + k \in DOMAIN units /\ Left(units)[i] = units[i + k]
  <2>1. i \in 1 .. Len(units) - k
    BY <1>3
  <2>2. Left(units)[i] = units[k + 1 + i - 1]
    BY <1>1, <1>2, <2>1
  <2> QED
    BY <1>1, <2>1, <2>2
<1> QED
  BY <1>1, <1>3, <1>4

-----------------------------------------------------------------------------
(* Each part of the invariant depends on a few variables only.             *)
LEMMA Frame ==
  ASSUME DetectorInv
  PROVE  /\ UNCHANGED <<fd_table, pipes>> => KernelTypes'
         /\ UNCHANGED <<pipe_fds, pipe_count>> /\ exiting' \in BOOLEAN
              /\ UNCHANGED proc => SharedTypes'
         /\ UNCHANGED <<mpc, batch, closing, pipe_mutex, proc>> /\ ring' \in Seq(PIDs)
              => MainTypes'
         /\ UNCHANGED <<rpc, pfds, serving, reading>> /\ DOMAIN pipes \subseteq DOMAIN pipes'
              => ReceiverTypes'
         /\ UNCHANGED collectors /\ DOMAIN pipes \subseteq DOMAIN pipes' => ThreadTypes'
         /\ UNCHANGED fd_table => EndsAreUnique'
         /\ UNCHANGED <<fd_table, mpc, pipe_fds, pipe_count, fresh, closing>> => EndsAreOwned'
         /\ UNCHANGED <<pipe_fds, pipe_count, pfds, mpc>> => PollSet'
         /\ UNCHANGED <<pipes, collectors>> => MessagesStayHome'
         /\ UNCHANGED <<fd_table, pipe_fds, pipe_count, mpc, collectors>>
              => ThreadsHaveSlots'
         /\ UNCHANGED <<fd_table, pipes, collectors>> => OwnPipes'
         /\ UNCHANGED <<fd_table, mpc, collectors>> => PerfEvents'
         /\ UNCHANGED <<rpc, pfds, serving, reading, fd_table>> => Blocked'
<1>1. UNCHANGED <<fd_table, pipes>> => KernelTypes'
  BY DEF DetectorInv, KernelTypes, IsEnd, Kind
<1>2. UNCHANGED <<pipe_fds, pipe_count, proc>> /\ exiting' \in BOOLEAN => SharedTypes'
  BY DEF DetectorInv, SharedTypes
<1>3. UNCHANGED <<mpc, batch, closing, pipe_mutex, proc>> /\ ring' \in Seq(PIDs)
        => MainTypes'
  BY DEF DetectorInv, MainTypes
<1>4. UNCHANGED <<rpc, pfds, serving, reading>> /\ DOMAIN pipes \subseteq DOMAIN pipes'
        => ReceiverTypes'
  BY DEF DetectorInv, ReceiverTypes
<1>5. UNCHANGED collectors /\ DOMAIN pipes \subseteq DOMAIN pipes' => ThreadTypes'
  BY DEF DetectorInv, ThreadTypes
<1>6. UNCHANGED fd_table => EndsAreUnique'
  BY DEF DetectorInv, EndsAreUnique, IsEnd, Kind
<1>7. UNCHANGED <<fd_table, mpc, pipe_fds, pipe_count, fresh, closing>> => EndsAreOwned'
  BY DEF DetectorInv, EndsAreOwned, IsEnd, Kind, InSlot, Registered, UpTo
<1>8. UNCHANGED <<pipe_fds, pipe_count, pfds, mpc>> => PollSet'
  BY DEF DetectorInv, PollSet
<1>9. UNCHANGED <<pipes, collectors>> => MessagesStayHome'
  BY DEF DetectorInv, MessagesStayHome
<1>10. UNCHANGED <<fd_table, pipe_fds, pipe_count, mpc, collectors>> => ThreadsHaveSlots'
  BY DEF DetectorInv, ThreadsHaveSlots, Registered, UpTo
<1>11. UNCHANGED <<fd_table, pipes, collectors>> => OwnPipes'
  BY DEF DetectorInv, OwnPipes, Kind
<1>12. UNCHANGED <<fd_table, mpc, collectors>> => PerfEvents'
  BY DEF DetectorInv, PerfEvents, Kind
<1>13. UNCHANGED <<rpc, pfds, serving, reading, fd_table>> => Blocked'
  BY DEF DetectorInv, Blocked, Twice, NextServed
<1> QED
  BY <1>1, <1>2, <1>3, <1>4, <1>5, <1>6, <1>7, <1>8, <1>9, <1>10, <1>11, <1>12, <1>13

LEMMA ServingFrame ==
  ASSUME DetectorInv, UNCHANGED <<serving, mpc, collectors, fd_table, pfds, pipes>>
  PROVE  Serving'
BY DEF DetectorInv, Serving, Twice, Kind

LEMMA FreshFrame ==
  ASSUME DetectorInv,
         UNCHANGED <<mpc, fresh, fd_table, collectors, pipes, pipe_count, pipe_fds>>
  PROVE  FreshPipe'
BY DEF DetectorInv, FreshPipe

(* The clock, a signal and an execve change nothing the threads hold.      *)
LEMMA QuietKeeps ==
  ASSUME DetectorInv, exiting' \in BOOLEAN, ring' \in Seq(PIDs),
         UNCHANGED <<mpc, batch, fresh, closing, pipe_fds, pipe_count, pipe_mutex, kernel,
                     collectors, rpc, pfds, serving, reading>>
  PROVE  DetectorInv'
<1>1. /\ UNCHANGED <<fd_table, pipes, pipe_fds, pipe_count, proc>>
      /\ UNCHANGED <<mpc, batch, closing, pipe_mutex, fresh>>
      /\ UNCHANGED <<rpc, pfds, serving, reading, collectors>>
  BY DEF kernel
<1> QED
  BY <1>1, Frame, ServingFrame, FreshFrame DEF DetectorInv

LEMMA EnvironmentKeeps ==
  ASSUME DetectorInv, Captures \/ Interrupt \/ Clock \/ Stopped \/ UNCHANGED vars
  PROVE  DetectorInv'
<1>1. ring \in Seq(PIDs) /\ exiting \in BOOLEAN
  BY DEF DetectorInv, MainTypes, SharedTypes
<1>2. ASSUME NEW p \in PIDs, Exec(p) PROVE ring' \in Seq(PIDs)
  BY <1>1, <1>2 DEF Exec
<1> QED
  BY <1>1, <1>2, QuietKeeps
     DEF Captures, Interrupt, Clock, Stopped, Exec, Signal, Tick, vars, main_vars, shared,
         others, receive_vars

-----------------------------------------------------------------------------
(* The main thread moves along its loop with no pipe in its hands.         *)
LEMMA LoopMoveKeeps ==
  ASSUME DetectorInv, Running,
         mpc \in Loop \ HoldsPipe, mpc' \in Loop \ HoldsPipe,
         ring' \in Seq(PIDs), batch' \in Seq(PIDs), mpc' = "handle" => batch' # <<>>,
         UNCHANGED <<closing, others, receive_vars>>
  PROVE  DetectorInv'
<1>1. /\ UNCHANGED <<fd_table, pipes, pipe_fds, pipe_count, proc>>
      /\ UNCHANGED <<closing, exiting, pipe_mutex, collectors>>
      /\ UNCHANGED <<rpc, pfds, serving, reading>>
  BY DEF kernel, shared, others, receive_vars
<1>2. SharedTypes' /\ KernelTypes' /\ ReceiverTypes' /\ ThreadTypes' /\ EndsAreUnique'
      /\ MessagesStayHome' /\ OwnPipes' /\ Blocked'
  BY <1>1, Frame DEF DetectorInv, SharedTypes
<1>3. MainTypes'
  BY <1>1 DEF DetectorInv, MainTypes, Loop, HoldsPipe, Running
<1>4. EndsAreOwned'
  BY <1>1 DEF DetectorInv, EndsAreOwned, IsEnd, Kind, InSlot, Registered, UpTo, Loop,
     HoldsPipe
<1>5. FreshPipe' /\ PollSet'
  BY <1>1 DEF DetectorInv, FreshPipe, PollSet, Loop, HoldsPipe
<1>6. ThreadsHaveSlots'
  BY <1>1 DEF DetectorInv, ThreadsHaveSlots, Registered, UpTo, Loop
<1>7. PerfEvents'
  BY <1>1 DEF DetectorInv, PerfEvents, Kind, Loop
<1>8. Serving'
  BY <1>1 DEF DetectorInv, Serving, Kind, Twice, Loop
<1> QED
  BY <1>2, <1>3, <1>4, <1>5, <1>6, <1>7, <1>8 DEF DetectorInv

LEMMA TailTypes ==
  ASSUME NEW s \in Seq(PIDs), s # <<>>
  PROVE  Tail(s) \in Seq(PIDs) /\ Head(s) \in PIDs
OBVIOUS

LEMMA LoopMovesKeep ==
  ASSUME DetectorInv, UNCHANGED receive_vars,
         \/ CheckExiting \/ Poll \/ PollFails \/ FreeTables
         \/ HandleRecent /\ UNCHANGED <<ring, closing>>
         \/ HandlePipe /\ UNCHANGED <<ring, closing, fd_table, pipes>> /\ NextEvent
  PROVE  DetectorInv'
<1>1. ring \in Seq(PIDs) /\ batch \in Seq(PIDs)
  BY DEF DetectorInv, MainTypes
<1>2. CASE CheckExiting \/ PollFails
  BY <1>1, <1>2, LoopMoveKeeps
     DEF CheckExiting, PollFails, MainGo, MainAt, Loop, HoldsPipe
<1>3. CASE Poll
  BY <1>1, <1>3, LoopMoveKeeps
     DEF Poll, Available, MainGo, MainAt, Loop, HoldsPipe
<1>4. CASE FreeTables
  BY <1>1, <1>4, LoopMoveKeeps
     DEF FreeTables, MainGo, MainAt, Loop, HoldsPipe
<1>5. ASSUME MainAt("handle"), NextEvent, UNCHANGED <<ring, closing, others>>
      PROVE  DetectorInv'
  <2>1. batch # <<>>
    BY <1>5 DEF DetectorInv, MainTypes, MainAt
  <2>2. batch' \in Seq(PIDs)
    BY <1>1, <1>5, <2>1, TailTypes DEF NextEvent
  <2> QED
    BY <1>1, <1>5, <2>2, LoopMoveKeeps DEF MainAt, NextEvent, Loop, HoldsPipe
<1>6. CASE HandleRecent /\ UNCHANGED <<ring, closing>>
  BY <1>5, <1>6 DEF HandleRecent
<1>7. CASE HandlePipe /\ UNCHANGED <<ring, closing, fd_table, pipes>> /\ NextEvent
  BY <1>5, <1>7 DEF HandlePipe, others, kernel
<1> QED
  BY <1>2, <1>3, <1>4, <1>6, <1>7

-----------------------------------------------------------------------------
(* Where the numbers a slot or a thread keeps come from.                   *)
LEMMA SlotTypes ==
  ASSUME SharedTypes
  PROVE  \A s \in Registered :
           s \in Slots /\ s \in Nat /\ pipe_fds[s].rd \in FDs /\ pipe_fds[s].wr \in FDs
<1>1. \A s \in Registered : s \in Slots /\ s \in Nat
  BY Bounds DEF SharedTypes, Registered, UpTo, Slots
<1> QED
  BY <1>1 DEF SharedTypes

LEMMA ThreadFields ==
  ASSUME ThreadTypes
  PROVE  \A c \in DOMAIN collectors :
           /\ collectors[c] \in Thread
           /\ collectors[c].pid \in PIDs
           /\ collectors[c].pipe_fd \in FDs
           /\ collectors[c].pipe \in DOMAIN pipes
           /\ collectors[c].fds \in Seq(FDs)
           /\ \A i \in DOMAIN collectors[c].fds : collectors[c].fds[i] \in FDs
<1> TAKE c \in DOMAIN collectors
<1>1. collectors[c] \in Thread
  BY DEF ThreadTypes
<1> QED
  BY <1>1 DEF ThreadTypes, Thread

(* handle_event has a new pipe: two numbers that were closed, and nothing  *)
(* refers to the pipe but them.                                            *)
NewPipe(rd, wr) ==
  LET p == Len(pipes) + 1
  IN  /\ fd_table' = [fd_table EXCEPT ![rd] = ReadEnd(p), ![wr] = WriteEnd(p)]
      /\ pipes' = Append(pipes, [units |-> <<>>, sent |-> 0, got |-> <<>>])
      /\ fresh' = [pid |-> Head(batch), rd |-> rd, wr |-> wr, pipe |-> p]

LEMMA HandlePipeMakes ==
  ASSUME HandlePipe
  PROVE  \/ NextEvent /\ UNCHANGED <<fd_table, pipes>>
         \/ /\ \E rd, wr \in Free : rd # wr /\ NewPipe(rd, wr)
            /\ mpc' = "register" /\ UNCHANGED batch
<1>1. CASE NextEvent /\ UNCHANGED <<fd_table, pipes>>
  BY <1>1
<1>2. CASE /\ Cardinality(Free) >= 2 /\ NewPipe(NewPair.rd, NewPair.wr)
           /\ mpc' = "register" /\ UNCHANGED batch
  BY <1>2, NewPairIsFree
<1> QED
  BY <1>1, <1>2 DEF HandlePipe, NewPipe

LEMMA HandlePipeKeeps ==
  ASSUME DetectorInv, HandlePipe, mpc' = "register",
         \E rd, wr \in Free : rd # wr /\ NewPipe(rd, wr),
         UNCHANGED <<batch, ring, closing, receive_vars>>
  PROVE  DetectorInv'
<1> PICK rd \in Free, wr \in Free : rd # wr /\ NewPipe(rd, wr)
  OBVIOUS
<1> DEFINE p == Len(pipes) + 1
<1>1. /\ UNCHANGED <<exiting, pipe_fds, pipe_count, pipe_mutex, proc, collectors>>
      /\ UNCHANGED <<batch, ring, closing, rpc, pfds, serving, reading>>
      /\ mpc = "handle" /\ mpc' = "register"
  BY DEF HandlePipe, MainAt, shared, receive_vars
<1>2. /\ rd \in FDs /\ wr \in FDs /\ rd # wr
      /\ Kind(rd) = "closed" /\ Kind(wr) = "closed"
  BY DEF Free, Kind
<1>3. /\ fd_table \in [FDs -> [kind : Kinds, pipe : Nat]]
      /\ pipes \in Seq(Pipe) /\ Len(pipes) \in Nat /\ DOMAIN pipes = 1 .. Len(pipes)
      /\ \A f \in FDs : IF IsEnd(f) THEN fd_table[f].pipe \in DOMAIN pipes
                        ELSE fd_table[f].pipe = 0
  BY DEF DetectorInv, KernelTypes
<1>4. /\ fd_table'[rd] = ReadEnd(p) /\ fd_table'[wr] = WriteEnd(p)
      /\ \A f \in FDs \ {rd, wr} : fd_table'[f] = fd_table[f]
      /\ fd_table' \in [FDs -> [kind : Kinds, pipe : Nat]]
  <2>1. fd_table' = [fd_table EXCEPT ![rd] = ReadEnd(p), ![wr] = WriteEnd(p)]
    BY DEF NewPipe
  <2>2. ReadEnd(p) \in [kind : Kinds, pipe : Nat] /\ WriteEnd(p) \in [kind : Kinds, pipe : Nat]
    BY <1>3 DEF ReadEnd, WriteEnd, Kinds
  <2> QED
    BY <1>2, <1>3, <2>1, <2>2
<1>5. /\ fresh'.pid = Head(batch) /\ fresh'.rd = rd /\ fresh'.wr = wr /\ fresh'.pipe = p
  BY DEF NewPipe
<1>6. /\ pipes' \in Seq(Pipe) /\ DOMAIN pipes' = 1 .. p
      /\ p \in DOMAIN pipes' /\ pipes'[p].units = <<>> /\ pipes'[p].sent = 0
      /\ \A q \in DOMAIN pipes : q \in DOMAIN pipes' /\ q # p /\ pipes'[q] = pipes[q]
  <2> DEFINE new == [units |-> <<>>, sent |-> 0, got |-> <<>>]
  <2>1. new \in Pipe /\ new.units = <<>> /\ new.sent = 0
    BY Bounds DEF Pipe
  <2> HIDE DEF new
  <2>2. pipes' = Append(pipes, new)
    BY DEF new, NewPipe
  <2> QED
    BY <1>3, <2>1, <2>2
<1>7. \A f \in FDs : /\ IsEnd(f)' <=> IsEnd(f) \/ f \in {rd, wr}
                     /\ f \notin {rd, wr} => Kind(f)' = Kind(f)
                     /\ Kind(f) # "closed" => f \notin {rd, wr} /\ fd_table'[f] = fd_table[f]
  BY <1>2, <1>4 DEF IsEnd, Kind, ReadEnd, WriteEnd
<1>8. KernelTypes'
  BY <1>3, <1>4, <1>6, <1>7 DEF KernelTypes, ReadEnd, WriteEnd
<1>9. SharedTypes' /\ ReceiverTypes' /\ ThreadTypes'
  BY <1>1, <1>6, Frame DEF DetectorInv, SharedTypes
<1>10. MainTypes'
  BY <1>1 DEF DetectorInv, MainTypes, Loop, HoldsPipe
<1>11. EndsAreUnique'
  <2>1. /\ ReadEnd(p).pipe = p /\ WriteEnd(p).pipe = p
        /\ ReadEnd(p).kind = "rd" /\ WriteEnd(p).kind = "wr"
    BY DEF ReadEnd, WriteEnd
  <2>2. \A f \in FDs \ {rd, wr} : IsEnd(f)' => fd_table'[f].pipe # p
    BY <1>3, <1>4, <1>6, <1>7
  <2>3. fd_table'[rd] # fd_table'[wr]
    BY <1>4, <2>1
  <2>4. ASSUME NEW f \in FDs, NEW g \in FDs, IsEnd(f)', fd_table'[f] = fd_table'[g]
        PROVE  f = g
    <3>1. IsEnd(g)'
      BY <2>4 DEF IsEnd, Kind
    <3>2. CASE f \in {rd, wr} \/ g \in {rd, wr}
      BY <1>4, <2>1, <2>2, <2>3, <2>4, <3>1, <3>2
    <3>3. CASE f \notin {rd, wr} /\ g \notin {rd, wr}
      BY <1>4, <1>7, <2>4, <3>3 DEF DetectorInv, EndsAreUnique
    <3> QED
      BY <3>2, <3>3
  <2> QED
    BY <2>4 DEF EndsAreUnique
<1>12. EndsAreOwned'
  BY <1>1, <1>5, <1>7
     DEF DetectorInv, EndsAreOwned, InSlot, Registered, UpTo, HoldsPipe
<1>13. FreshPipe'
  <2>1. Head(batch) \in PIDs
    BY <1>1, TailTypes DEF DetectorInv, MainTypes
  <2>2. \A c \in DOMAIN collectors : collectors[c].pipe # p
    BY <1>6 DEF DetectorInv, ThreadTypes
  <2> QED
    BY <1>1, <1>2, <1>4, <1>5, <1>6, <2>1, <2>2 DEF FreshPipe
<1>14. ThreadsHaveSlots'
  <2>1. \A s \in Registered : pipe_fds[s].rd \in FDs /\ pipe_fds[s].wr \in FDs
    BY SlotTypes DEF DetectorInv
  <2> QED
    BY <1>1, <1>7, <2>1
       DEF DetectorInv, ThreadsHaveSlots, Registered, UpTo, Kind, ReadEnd, WriteEnd, Loop
<1>15. OwnPipes'
  <2>1. ASSUME NEW c \in DOMAIN collectors PROVE Kind(collectors[c].pipe_fd) = "wr"
    <3>1. fd_table[collectors[c].pipe_fd] = WriteEnd(collectors[c].pipe)
      BY <1>1 DEF DetectorInv, ThreadsHaveSlots, Loop
    <3> QED
      BY <3>1 DEF Kind, WriteEnd
  <2>2. \A c \in DOMAIN collectors : fd_table'[collectors[c].pipe_fd] = fd_table[collectors[c].pipe_fd]
    BY <1>7, <2>1, ThreadFields DEF DetectorInv
  <2> QED
    BY <1>1, <1>6, <2>1, <2>2, ThreadFields DEF DetectorInv, OwnPipes, Kind
<1>16. PerfEvents'
  <2>1. mpc \in Loop /\ mpc' \in Loop
    BY <1>1 DEF Loop
  <2> QED
    BY <1>1, <1>7, <2>1, ThreadFields DEF DetectorInv, PerfEvents
<1>17. MessagesStayHome'
  <2>1. \A q \in DOMAIN pipes' : q \in DOMAIN pipes \/ pipes'[q].units = <<>>
    BY <1>3, <1>6
  <2> QED
    BY <1>1, <1>6, <2>1 DEF DetectorInv, MessagesStayHome
<1>18. PollSet'
  BY <1>1 DEF DetectorInv, PollSet
<1>19. Serving'
  <2>1. mpc \in Loop
    BY <1>1 DEF Loop
  <2>2. ASSUME NEW i \in serving PROVE pfds[i] \in FDs /\ Kind(pfds[i]) = "rd"
    <3>1. i \in DOMAIN pfds /\ pfds[i] \in FDs
      BY DEF DetectorInv, ReceiverTypes
    <3>2. PICK c \in DOMAIN collectors : fd_table[pfds[i]] = ReadEnd(collectors[c].pipe)
      BY <2>1 DEF DetectorInv, Serving
    <3> QED
      BY <3>1, <3>2 DEF Kind, ReadEnd
  <2> QED
    BY <1>1, <1>3, <1>6, <1>7, <2>1, <2>2 DEF DetectorInv, Serving, Twice, IsEnd
<1>20. Blocked'
  <2>1. rpc = "blocked" => reading # p
    BY <1>6 DEF DetectorInv, ReceiverTypes
  <2> QED
    BY <1>1, <1>4, <2>1 DEF DetectorInv, Blocked, Twice, NextServed, ReadEnd, WriteEnd
<1> QED
  BY <1>8, <1>9, <1>10, <1>11, <1>12, <1>13, <1>14, <1>15, <1>16, <1>17, <1>18, <1>19,
     <1>20 DEF DetectorInv

-----------------------------------------------------------------------------
(* close() of any numbers, whatever they refer to.                         *)
LEMMA CloseDoes ==
  ASSUME KernelTypes, NEW S, fd_table' = CloseAll(S)
  PROVE  /\ fd_table' \in [FDs -> [kind : Kinds, pipe : Nat]]
         /\ \A f \in FDs \cap S : fd_table'[f] = Closed /\ Kind(f)' = "closed"
         /\ \A f \in FDs \ S : fd_table'[f] = fd_table[f] /\ Kind(f)' = Kind(f)
         /\ \A f \in FDs : IsEnd(f)' <=> IsEnd(f) /\ f \notin S
<1>1. /\ \A f \in FDs \cap S : fd_table'[f] = Closed
      /\ \A f \in FDs \ S : fd_table'[f] = fd_table[f]
      /\ fd_table' = [f \in FDs |-> IF f \in S THEN Closed ELSE fd_table[f]]
  BY DEF CloseAll
<1>2. Closed \in [kind : Kinds, pipe : Nat] /\ Closed.kind = "closed"
  BY DEF Closed, Kinds
<1> QED
  BY <1>1, <1>2 DEF KernelTypes, IsEnd, Kind

LEMMA ClosingFrame ==
  ASSUME DetectorInv, NEW S, fd_table' = CloseAll(S)
  PROVE  /\ UNCHANGED pipes => KernelTypes'
         /\ EndsAreUnique'
         /\ UNCHANGED <<pipes, collectors>> => OwnPipes'
         /\ UNCHANGED <<rpc, pfds, serving, reading>> => Blocked'
<1>1. KernelTypes
  BY DEF DetectorInv
<1>2. UNCHANGED pipes => KernelTypes'
  <2>1. Closed.pipe = 0
    BY DEF Closed
  <2> QED
    BY <1>1, <2>1, CloseDoes DEF KernelTypes
<1>3. EndsAreUnique'
  BY <1>1, CloseDoes DEF DetectorInv, EndsAreUnique, IsEnd, Kind
<1>4. ASSUME UNCHANGED <<pipes, collectors>> PROVE OwnPipes'
  <2>1. \A c \in DOMAIN collectors : collectors[c].pipe_fd \in FDs
    BY ThreadFields DEF DetectorInv
  <2>2. \A f \in FDs : Kind(f)' = "wr" => fd_table'[f] = fd_table[f] /\ Kind(f) = "wr"
    BY <1>1, CloseDoes
  <2> QED
    BY <1>4, <2>1, <2>2 DEF DetectorInv, OwnPipes, Kind
<1>5. ASSUME UNCHANGED <<rpc, pfds, serving, reading>> PROVE Blocked'
  <2>1. \A f \in FDs : fd_table'[f] = ReadEnd(reading) => fd_table[f] = ReadEnd(reading)
    BY <1>1, CloseDoes DEF Closed, ReadEnd
  <2> QED
    BY <1>5, <2>1 DEF DetectorInv, Blocked, Twice, NextServed
<1> QED
  BY <1>2, <1>3, <1>4, <1>5

(* A failure after pipe() closes both ends: no thread has them yet, so     *)
(* nothing that was sent is waiting in that pipe.                          *)
LEMMA GiveUpKeeps ==
  ASSUME DetectorInv, GiveUp, Running, mpc \in HoldsPipe,
         UNCHANGED <<ring, closing, receive_vars>>
  PROVE  DetectorInv'
<1>1. /\ UNCHANGED <<pipes, exiting, pipe_fds, pipe_count, pipe_mutex, proc, collectors>>
      /\ UNCHANGED <<ring, closing, rpc, pfds, serving, reading>>
      /\ fd_table' = CloseAll({fresh.rd, fresh.wr})
      /\ batch' = Tail(batch) /\ mpc' = IF batch' = <<>> THEN "check" ELSE "handle"
  BY DEF GiveUp, GivenUp, NextEvent, shared, receive_vars
<1>2. mpc \in Loop /\ mpc' \in Loop /\ mpc' \in Loop \ HoldsPipe
  BY <1>1 DEF Loop, HoldsPipe
<1>3. /\ fresh.rd \in FDs /\ fresh.wr \in FDs
      /\ fd_table[fresh.rd] = ReadEnd(fresh.pipe)
      /\ fd_table[fresh.wr] = WriteEnd(fresh.pipe)
      /\ \A c \in DOMAIN collectors : collectors[c].pipe # fresh.pipe
  BY DEF DetectorInv, FreshPipe
<1>4. KernelTypes' /\ EndsAreUnique' /\ OwnPipes' /\ Blocked'
  BY <1>1, ClosingFrame
<1>5. SharedTypes' /\ ReceiverTypes' /\ ThreadTypes' /\ MessagesStayHome'
  BY <1>1, Frame DEF DetectorInv, SharedTypes
<1>6. MainTypes'
  <2>1. batch \in Seq(PIDs) /\ batch # <<>>
    BY DEF DetectorInv, MainTypes
  <2>2. batch' \in Seq(PIDs)
    BY <1>1, <2>1, TailTypes
  <2>3. mpc' \in HoldsPipe \cup {"handle"} => batch' # <<>>
    BY <1>1 DEF HoldsPipe
  <2> QED
    BY <1>1, <1>2, <2>2, <2>3 DEF DetectorInv, MainTypes, Loop, Running
<1>7. EndsAreOwned'
  <2>1. KernelTypes
    BY DEF DetectorInv
  <2> QED
    BY <1>1, <1>2, <2>1, CloseDoes
       DEF DetectorInv, EndsAreOwned, InSlot, Registered, UpTo, Loop, HoldsPipe
<1>8. FreshPipe' /\ PollSet'
  BY <1>1, <1>2 DEF DetectorInv, FreshPipe, PollSet, Loop
<1>9. \A f \in FDs \ {fresh.rd, fresh.wr} : fd_table'[f] = fd_table[f] /\ Kind(f)' = Kind(f)
  BY <1>1, CloseDoes DEF DetectorInv
<1>10. ASSUME NEW c \in DOMAIN collectors, NEW f \in FDs,
              \/ fd_table[f] = ReadEnd(collectors[c].pipe)
              \/ fd_table[f] = WriteEnd(collectors[c].pipe)
       PROVE  fd_table'[f] = fd_table[f]
  <2>1. collectors[c].pipe # fresh.pipe
    BY <1>3
  <2>2. f # fresh.rd /\ f # fresh.wr
    BY <1>3, <1>10, <2>1 DEF ReadEnd, WriteEnd
  <2> QED
    BY <1>9, <2>2
<1>11. ThreadsHaveSlots'
  <2>1. \A s \in Registered : pipe_fds[s].rd \in FDs /\ pipe_fds[s].wr \in FDs
    BY SlotTypes DEF DetectorInv
  <2> SUFFICES ASSUME NEW c \in DOMAIN collectors
               PROVE  \E s \in Registered :
                        /\ pipe_fds[s].wr = collectors[c].pipe_fd
                        /\ fd_table'[pipe_fds[s].wr] = WriteEnd(collectors[c].pipe)
                        /\ fd_table'[pipe_fds[s].rd] = ReadEnd(collectors[c].pipe)
    BY <1>1 DEF ThreadsHaveSlots, Registered, UpTo
  <2>2. PICK s \in Registered :
                        /\ pipe_fds[s].wr = collectors[c].pipe_fd
                        /\ fd_table[pipe_fds[s].wr] = WriteEnd(collectors[c].pipe)
                        /\ fd_table[pipe_fds[s].rd] = ReadEnd(collectors[c].pipe)
    BY <1>2 DEF DetectorInv, ThreadsHaveSlots
  <2> QED
    BY <1>10, <2>1, <2>2
<1>13. PerfEvents'
  <2>1. ASSUME NEW f \in FDs, Kind(f) = "perf" PROVE Kind(f)' = "perf"
    <3>1. f # fresh.rd /\ f # fresh.wr
      BY <1>3, <2>1 DEF Kind, ReadEnd, WriteEnd
    <3> QED
      BY <1>9, <2>1, <3>1
  <2> QED
    BY <1>1, <1>2, <2>1, ThreadFields DEF DetectorInv, PerfEvents
<1>12. Serving'
  <2> SUFFICES ASSUME NEW i \in serving
               PROVE  /\ \E c \in DOMAIN collectors :
                           fd_table'[pfds[i]] = ReadEnd(collectors[c].pipe)
                      /\ Kind(pfds[i])' = "rd" =>
                           pipes[fd_table'[pfds[i]].pipe].units # <<>> \/ Twice(i)
    BY <1>1 DEF Serving, Twice
  <2>1. pfds[i] \in FDs
    BY DEF DetectorInv, ReceiverTypes
  <2>2. PICK c \in DOMAIN collectors : fd_table[pfds[i]] = ReadEnd(collectors[c].pipe)
    BY <1>2 DEF DetectorInv, Serving
  <2>3. fd_table'[pfds[i]] = fd_table[pfds[i]]
    BY <1>10, <2>1, <2>2
  <2> QED
    BY <2>2, <2>3, <1>1 DEF DetectorInv, Serving, Kind
<1> QED
  BY <1>4, <1>5, <1>6, <1>7, <1>8, <1>11, <1>12, <1>13 DEF DetectorInv

-----------------------------------------------------------------------------
(* The locked section appends a slot; the slots that are polled stay.      *)
LEMMA RegisterKeeps ==
  ASSUME DetectorInv, Register, UNCHANGED <<ring, closing, receive_vars>>
  PROVE  DetectorInv'
<1>1. /\ UNCHANGED <<fd_table, pipes, exiting, pipe_mutex, proc, collectors>>
      /\ UNCHANGED <<batch, fresh, ring, closing, rpc, pfds, serving, reading>>
      /\ mpc = "register" /\ mpc' = "spawn" /\ pipe_count < MAX_PIDS
      /\ pipe_count' = pipe_count + 1
      /\ pipe_fds' = [pipe_fds EXCEPT ![pipe_count] = [rd |-> fresh.rd, wr |-> fresh.wr]]
  BY DEF Register, MainGo, MainAt, kernel, receive_vars
<1>2. /\ pipe_count \in Slots /\ pipe_count \in Nat
      /\ pipe_fds \in [Slots -> [rd : FDs, wr : FDs]]
  BY <1>1, Bounds DEF DetectorInv, SharedTypes, Slots
<1>3. /\ fresh.rd \in FDs /\ fresh.wr \in FDs
      /\ [rd |-> fresh.rd, wr |-> fresh.wr] \in [rd : FDs, wr : FDs]
  BY <1>1 DEF DetectorInv, FreshPipe, HoldsPipe
<1>4. /\ pipe_fds' \in [Slots -> [rd : FDs, wr : FDs]]
      /\ pipe_fds'[pipe_count] = [rd |-> fresh.rd, wr |-> fresh.wr]
      /\ \A s \in Slots \ {pipe_count} : pipe_fds'[s] = pipe_fds[s]
  BY <1>1, <1>2, <1>3
<1>5. \A s \in Registered : s \in Registered' /\ pipe_fds'[s] = pipe_fds[s]
  <2>1. ASSUME NEW s \in Registered PROVE s \in Slots /\ s # pipe_count /\ s \in Registered'
    BY <1>1, <1>2, SlotTypes DEF DetectorInv, Registered, UpTo
  <2> QED
    BY <1>4, <2>1
<1>6. KernelTypes' /\ ReceiverTypes' /\ ThreadTypes' /\ EndsAreUnique' /\ MessagesStayHome'
      /\ OwnPipes' /\ Blocked'
  BY <1>1, Frame DEF DetectorInv
<1>7. SharedTypes'
  BY <1>1, <1>2, <1>4, Bounds DEF DetectorInv, SharedTypes
<1>8. MainTypes'
  BY <1>1 DEF DetectorInv, MainTypes, Loop, HoldsPipe
<1>9. EndsAreOwned'
  <2>1. \A f \in FDs : InSlot(f) => InSlot(f)'
    BY <1>5 DEF InSlot
  <2> QED
    BY <1>1, <2>1 DEF DetectorInv, EndsAreOwned, IsEnd, Kind, HoldsPipe
<1>10. FreshPipe'
  <2>1. pipe_count' > 0 /\ pipe_count' - 1 = pipe_count
    BY <1>1, <1>2
  <2> QED
    BY <1>1, <1>4, <2>1 DEF DetectorInv, FreshPipe, HoldsPipe
<1>11. ThreadsHaveSlots'
  <2> SUFFICES ASSUME NEW c \in DOMAIN collectors
               PROVE  \E s \in Registered' :
                        /\ pipe_fds'[s].wr = collectors[c].pipe_fd
                        /\ fd_table[pipe_fds'[s].wr] = WriteEnd(collectors[c].pipe)
                        /\ fd_table[pipe_fds'[s].rd] = ReadEnd(collectors[c].pipe)
    BY <1>1 DEF ThreadsHaveSlots
  <2>1. PICK s \in Registered :
                        /\ pipe_fds[s].wr = collectors[c].pipe_fd
                        /\ fd_table[pipe_fds[s].wr] = WriteEnd(collectors[c].pipe)
                        /\ fd_table[pipe_fds[s].rd] = ReadEnd(collectors[c].pipe)
    BY <1>1 DEF DetectorInv, ThreadsHaveSlots, Loop
  <2> QED
    BY <1>5, <2>1
<1>12. PerfEvents' /\ Serving'
  BY <1>1 DEF DetectorInv, PerfEvents, Serving, Twice, Kind, Loop
<1>13. PollSet'
  <2>1. \A i \in DOMAIN pfds : pfds[i] = pipe_fds[i - 1].rd /\ i - 1 \in Registered
    <3>1. pfds \in Seq(FDs) /\ Len(pfds) <= pipe_count
      BY <1>1 DEF DetectorInv, ReceiverTypes, PollSet
    <3> QED
      BY <1>2, <3>1 DEF DetectorInv, PollSet, Registered, UpTo
  <2>2. \A i \in DOMAIN pfds : pfds[i] = pipe_fds'[i - 1].rd
    BY <1>5, <2>1
  <2>3. Len(pfds) <= pipe_count'
    <3>1. Len(pfds) \in Nat /\ Len(pfds) <= pipe_count
      BY <1>1 DEF DetectorInv, ReceiverTypes, PollSet
    <3> QED
      BY <1>1, <1>2, <3>1
  <2> QED
    BY <1>1, <2>2, <2>3 DEF DetectorInv, PollSet
<1> QED
  BY <1>6, <1>7, <1>8, <1>9, <1>10, <1>11, <1>12, <1>13 DEF DetectorInv

(* A new thread takes over the write end of the newest slot.               *)
LEMMA SpawnKeeps ==
  ASSUME DetectorInv, Spawn, UNCHANGED <<ring, closing, receive_vars>>
  PROVE  DetectorInv'
<1> DEFINE new == NewCollector(fresh.pid, fresh.wr, fresh.pipe)
           last == Len(collectors) + 1
<1>1. /\ UNCHANGED <<fd_table, pipes, exiting, pipe_fds, pipe_count, pipe_mutex, proc>>
      /\ UNCHANGED <<ring, closing, rpc, pfds, serving, reading>>
      /\ mpc = "spawn" /\ Running
      /\ batch' = Tail(batch) /\ mpc' = IF batch' = <<>> THEN "check" ELSE "handle"
      /\ collectors' = Append(collectors, new)
  BY DEF Spawn, MainAt, NextEvent, kernel, shared, receive_vars
<1>2. mpc \in Loop /\ mpc' \in Loop /\ mpc' \in Loop \ HoldsPipe
  BY <1>1 DEF Loop, HoldsPipe
<1>3. /\ fresh.pid \in PIDs /\ fresh.rd \in FDs /\ fresh.wr \in FDs
      /\ fresh.pipe \in DOMAIN pipes
      /\ fd_table[fresh.rd] = ReadEnd(fresh.pipe)
      /\ fd_table[fresh.wr] = WriteEnd(fresh.pipe)
      /\ pipes[fresh.pipe].sent = 0
      /\ \A c \in DOMAIN collectors : collectors[c].pipe # fresh.pipe
      /\ pipe_count > 0
      /\ pipe_fds[pipe_count - 1] = [rd |-> fresh.rd, wr |-> fresh.wr]
  BY <1>1 DEF DetectorInv, FreshPipe, HoldsPipe
<1>4. /\ new \in Thread
      /\ new.pid = fresh.pid /\ new.pipe_fd = fresh.wr /\ new.pipe = fresh.pipe
      /\ new.pc = "open" /\ new.fds = <<>> /\ new.batch = 1
  <2>1. fresh.pipe \in Nat
    BY <1>3 DEF DetectorInv, KernelTypes
  <2> QED
    BY <1>3, <2>1, Bounds DEF NewCollector, Thread
<1> HIDE DEF new
<1>5. /\ collectors' \in Seq(Thread) /\ last \in DOMAIN collectors'
      /\ DOMAIN collectors' = DOMAIN collectors \cup {last}
      /\ collectors'[last] = new
      /\ \A c \in DOMAIN collectors : c # last /\ collectors'[c] = collectors[c]
  <2>1. collectors \in Seq(Thread)
    BY DEF DetectorInv, ThreadTypes
  <2> QED
    BY <1>1, <1>4, <2>1
<1>6. KernelTypes' /\ SharedTypes' /\ ReceiverTypes' /\ EndsAreUnique' /\ Blocked'
  BY <1>1, Frame DEF DetectorInv, SharedTypes
<1>7. MainTypes'
  <2>1. batch \in Seq(PIDs) /\ batch # <<>>
    BY <1>1 DEF DetectorInv, MainTypes, HoldsPipe
  <2>2. batch' \in Seq(PIDs)
    BY <1>1, <2>1, TailTypes
  <2>3. mpc' \in HoldsPipe \cup {"handle"} => batch' # <<>>
    BY <1>1 DEF HoldsPipe
  <2> QED
    BY <1>1, <1>2, <2>2, <2>3 DEF DetectorInv, MainTypes, Loop, Running
<1>8. ThreadTypes'
  <2>1. ThreadState(new)
    BY <1>4, Bounds DEF ThreadState
  <2>2. \A c \in DOMAIN collectors' : c \in DOMAIN collectors \/ collectors'[c] = new
    BY <1>5
  <2> QED
    BY <1>1, <1>3, <1>4, <1>5, <2>1, <2>2 DEF DetectorInv, ThreadTypes
<1>9. EndsAreOwned'
  <2>1. pipe_count - 1 \in Registered
    BY <1>3 DEF DetectorInv, SharedTypes, Registered, UpTo
  <2>2. InSlot(fresh.rd) /\ InSlot(fresh.wr)
    BY <1>3, <2>1 DEF InSlot
  <2>3. \A f \in FDs : InSlot(f) => InSlot(f)'
    BY <1>1 DEF InSlot, Registered, UpTo
  <2> QED
    BY <1>1, <1>2, <2>2, <2>3 DEF DetectorInv, EndsAreOwned, IsEnd, Kind, Loop
<1>10. FreshPipe' /\ PollSet'
  BY <1>1, <1>2 DEF DetectorInv, FreshPipe, PollSet, Loop
<1>11. ThreadsHaveSlots'
  <2>1. pipe_count - 1 \in Registered
    BY <1>3 DEF DetectorInv, SharedTypes, Registered, UpTo
  <2>2. ASSUME NEW c \in DOMAIN collectors'
        PROVE  \E s \in Registered :
                 /\ pipe_fds[s].wr = collectors'[c].pipe_fd
                 /\ fd_table[pipe_fds[s].wr] = WriteEnd(collectors'[c].pipe)
                 /\ fd_table[pipe_fds[s].rd] = ReadEnd(collectors'[c].pipe)
    <3>1. CASE c = last
      BY <1>3, <1>4, <1>5, <2>1, <3>1
    <3>2. CASE c # last
      <4>1. c \in DOMAIN collectors /\ collectors'[c] = collectors[c]
        BY <1>5, <3>2
      <4> QED
        BY <1>2, <4>1 DEF DetectorInv, ThreadsHaveSlots
    <3> QED
      BY <3>1, <3>2
  <2> QED
    BY <1>1, <2>2 DEF ThreadsHaveSlots, Registered, UpTo
<1>12. OwnPipes'
  <2>1. ASSUME NEW c \in DOMAIN collectors'
        PROVE  /\ Kind(collectors'[c].pipe_fd) = "wr" =>
                    fd_table[collectors'[c].pipe_fd].pipe = collectors'[c].pipe
               /\ pipes[collectors'[c].pipe].sent < collectors'[c].batch
    BY <1>3, <1>4, <1>5 DEF DetectorInv, OwnPipes, WriteEnd
  <2>2. ASSUME NEW c \in DOMAIN collectors', NEW d \in DOMAIN collectors',
               collectors'[c].pipe = collectors'[d].pipe
        PROVE  c = d
    BY <1>3, <1>4, <1>5, <2>2 DEF DetectorInv, OwnPipes
  <2> QED
    BY <1>1, <2>1, <2>2 DEF OwnPipes, Kind
<1>13. PerfEvents'
  <2>1. \A c \in DOMAIN collectors' :
          (c \in DOMAIN collectors /\ collectors'[c] = collectors[c])
          \/ DOMAIN collectors'[c].fds = {}
    BY <1>4, <1>5
  <2> QED
    BY <1>1, <1>2, <2>1 DEF DetectorInv, PerfEvents, Kind
<1>14. MessagesStayHome'
  BY <1>1, <1>5 DEF DetectorInv, MessagesStayHome
<1>15. Serving'
  BY <1>1, <1>2, <1>5 DEF DetectorInv, Serving, Twice, Kind
<1> QED
  BY <1>6, <1>7, <1>8, <1>9, <1>10, <1>11, <1>12, <1>13, <1>14, <1>15 DEF DetectorInv

-----------------------------------------------------------------------------
(* cleanup_pipes closes every slot under the mutex, in slot order.         *)
LEMMA CloseOrderHasSlots ==
  ASSUME SharedTypes
  PROVE  /\ CloseOrder \in Seq(FDs)
         /\ \A f \in FDs : InSlot(f) => \E k \in DOMAIN CloseOrder : CloseOrder[k] = f
<1>1. pipe_count \in Nat /\ 2 * pipe_count \in Nat
  BY DEF SharedTypes
<1>2. \A k \in 1 .. 2 * pipe_count : (k - 1) \div 2 \in Registered
  BY <1>1 DEF Registered, UpTo
<1>3. CloseOrder \in Seq(FDs) /\ DOMAIN CloseOrder = 1 .. 2 * pipe_count
  BY <1>1, <1>2, SlotTypes DEF CloseOrder
<1>4. ASSUME NEW f \in FDs, NEW s \in Registered, f \in {pipe_fds[s].rd, pipe_fds[s].wr}
      PROVE  \E k \in DOMAIN CloseOrder : CloseOrder[k] = f
  <2>1. /\ 2 * s + 1 \in 1 .. 2 * pipe_count /\ 2 * s + 2 \in 1 .. 2 * pipe_count
        /\ s \in Nat
    BY <1>1 DEF Registered, UpTo
  <2>2. /\ ((2 * s + 1) - 1) \div 2 = s /\ (2 * s + 1) % 2 = 1
        /\ ((2 * s + 2) - 1) \div 2 = s /\ (2 * s + 2) % 2 # 1
    BY <2>1
  <2>3. CloseOrder[2 * s + 1] = pipe_fds[s].rd /\ CloseOrder[2 * s + 2] = pipe_fds[s].wr
    BY <2>1, <2>2 DEF CloseOrder
  <2> QED
    BY <1>3, <1>4, <2>1, <2>3
<1> QED
  BY <1>3, <1>4 DEF InSlot

LEMMA CleanUpKeeps ==
  ASSUME DetectorInv, CleanUp, UNCHANGED receive_vars
  PROVE  DetectorInv'
<1>1. /\ UNCHANGED <<ring, batch, fresh, collectors, rpc, pfds, serving, reading>>
      /\ Running
  BY DEF CleanUp, LockPipes, ClosePipe, UnlockPipes, Return, MainGo, MainAt, receive_vars
<1>2. CASE LockPipes
  <2>1. /\ UNCHANGED <<fd_table, pipes, proc, exiting, pipe_fds, pipe_count>>
        /\ mpc = "lock" /\ mpc' = "close"
        /\ pipe_mutex' = "main" /\ closing' = CloseOrder
    BY <1>2 DEF LockPipes, MainGo, MainAt, kernel
  <2>2. KernelTypes' /\ SharedTypes' /\ ReceiverTypes' /\ ThreadTypes' /\ EndsAreUnique'
        /\ OwnPipes' /\ MessagesStayHome' /\ Blocked'
    BY <1>1, <2>1, Frame DEF DetectorInv, SharedTypes
  <2>3. MainTypes'
    BY <1>1, <2>1, CloseOrderHasSlots DEF DetectorInv, MainTypes, Loop, HoldsPipe, Running
  <2>4. EndsAreOwned'
    BY <1>1, <2>1, CloseOrderHasSlots
       DEF DetectorInv, EndsAreOwned, IsEnd, Kind, InSlot, Registered, UpTo, HoldsPipe
  <2>5. FreshPipe' /\ PollSet' /\ ThreadsHaveSlots'
    BY <1>1, <2>1 DEF DetectorInv, FreshPipe, PollSet, ThreadsHaveSlots, Loop, HoldsPipe
  <2>6. PerfEvents' /\ Serving'
    BY <1>1, <2>1 DEF DetectorInv, PerfEvents, Serving, Twice, Kind, Loop
  <2> QED
    BY <2>2, <2>3, <2>4, <2>5, <2>6 DEF DetectorInv
<1>3. CASE ClosePipe
  <2>1. /\ UNCHANGED <<pipes, proc, exiting, pipe_fds, pipe_count, pipe_mutex>>
        /\ mpc = "close" /\ mpc' = "close"
        /\ fd_table' = CloseAll({Head(closing)})
        /\ closing # <<>> /\ closing' = Tail(closing)
    BY <1>3 DEF ClosePipe, MainGo, MainAt, shared
  <2>2. KernelTypes' /\ EndsAreUnique' /\ OwnPipes' /\ Blocked'
    BY <1>1, <2>1, ClosingFrame
  <2>3. SharedTypes' /\ ReceiverTypes' /\ ThreadTypes' /\ MessagesStayHome' /\ PollSet'
    BY <1>1, <2>1, Frame DEF DetectorInv, SharedTypes
  <2>4. /\ closing \in Seq(FDs) /\ closing' \in Seq(FDs)
        /\ \A k \in DOMAIN closing : k = 1 \/ (k - 1 \in DOMAIN closing' /\ closing'[k - 1] = closing[k])
    BY <2>1 DEF DetectorInv, MainTypes
  <2>5. MainTypes'
    BY <1>1, <2>1, <2>4 DEF DetectorInv, MainTypes, Loop, HoldsPipe, Running
  <2>6. EndsAreOwned'
    <3> SUFFICES ASSUME NEW f \in FDs, IsEnd(f)'
                 PROVE  InSlot(f) /\ \E k \in DOMAIN closing' : closing'[k] = f
      BY <2>1 DEF EndsAreOwned, InSlot, Registered, UpTo
    <3>1. IsEnd(f) /\ f # Head(closing)
      BY <2>1, CloseDoes DEF DetectorInv
    <3>2. InSlot(f)
      BY <2>1, <3>1 DEF DetectorInv, EndsAreOwned, HoldsPipe
    <3>3. PICK k \in DOMAIN closing : closing[k] = f
      BY <2>1, <3>1 DEF DetectorInv, EndsAreOwned
    <3>4. k # 1
      BY <2>1, <2>4, <3>1, <3>3
    <3> QED
      BY <2>4, <3>2, <3>3, <3>4
  <2>7. FreshPipe' /\ ThreadsHaveSlots'
    BY <2>1 DEF FreshPipe, ThreadsHaveSlots, Loop, HoldsPipe
  <2>8. PerfEvents'
    <3>1. ASSUME NEW f \in FDs, Kind(f) \in {"perf", "closed"}
          PROVE  Kind(f)' \in {"perf", "closed"}
      BY <2>1, <3>1, CloseDoes DEF DetectorInv
    <3>2. mpc \notin Loop /\ mpc' \notin Loop
      BY <2>1 DEF Loop
    <3> QED
      BY <1>1, <3>1, <3>2, ThreadFields DEF DetectorInv, PerfEvents
  <2>9. Serving'
    <3> SUFFICES ASSUME NEW i \in serving, Kind(pfds[i])' = "rd"
                 PROVE  pipes[fd_table'[pfds[i]].pipe].units # <<>> \/ Twice(i)
      BY <1>1, <2>1 DEF Serving, Twice, Loop
    <3>1. pfds[i] \in FDs
      BY DEF DetectorInv, ReceiverTypes
    <3>2. fd_table'[pfds[i]].kind = "rd"
      BY <1>1 DEF Kind
    <3>3. fd_table'[pfds[i]] = fd_table[pfds[i]] /\ Kind(pfds[i]) = "rd"
      BY <2>1, <3>1, <3>2, CloseDoes DEF DetectorInv, Kind
    <3> QED
      BY <3>3 DEF DetectorInv, Serving
  <2> QED
    BY <2>2, <2>3, <2>5, <2>6, <2>7, <2>8, <2>9 DEF DetectorInv
<1>4. CASE UnlockPipes
  <2>1. /\ UNCHANGED <<fd_table, pipes, proc, exiting, pipe_fds, closing>>
        /\ mpc = "close" /\ mpc' = "return" /\ closing = <<>>
        /\ pipe_mutex' = "free" /\ pipe_count' = 0
    BY <1>4 DEF UnlockPipes, MainGo, MainAt, kernel
  <2>2. KernelTypes' /\ ReceiverTypes' /\ ThreadTypes' /\ EndsAreUnique'
        /\ OwnPipes' /\ MessagesStayHome' /\ Blocked'
    BY <1>1, <2>1, Frame DEF DetectorInv
  <2>3. SharedTypes' /\ MainTypes'
    BY <1>1, <2>1, Bounds DEF DetectorInv, SharedTypes, MainTypes, HoldsPipe, Running
  <2>4. EndsAreOwned'
    BY <2>1 DEF DetectorInv, EndsAreOwned, IsEnd, Kind
  <2>5. FreshPipe' /\ ThreadsHaveSlots' /\ PollSet'
    BY <1>1, <2>1 DEF DetectorInv, FreshPipe, ThreadsHaveSlots, PollSet, Loop, HoldsPipe
  <2>6. PerfEvents' /\ Serving'
    BY <1>1, <2>1 DEF DetectorInv, PerfEvents, Serving, Twice, Kind, Loop
  <2> QED
    BY <2>2, <2>3, <2>4, <2>5, <2>6 DEF DetectorInv
<1>5. CASE Return
  <2>1. /\ UNCHANGED <<fd_table, pipes, exiting, pipe_fds, pipe_count, pipe_mutex, closing>>
        /\ mpc = "return" /\ mpc' = "return" /\ proc' = "exited"
    BY <1>5 DEF Return, MainGo, MainAt, shared
  <2>2. KernelTypes' /\ ReceiverTypes' /\ ThreadTypes' /\ EndsAreUnique' /\ EndsAreOwned'
        /\ OwnPipes' /\ MessagesStayHome' /\ Blocked' /\ PollSet' /\ ThreadsHaveSlots'
        /\ PerfEvents' /\ Serving' /\ FreshPipe'
    BY <1>1, <2>1, Frame, ServingFrame, FreshFrame DEF DetectorInv
  <2>3. SharedTypes' /\ MainTypes'
    BY <1>1, <2>1 DEF DetectorInv, SharedTypes, MainTypes, HoldsPipe
  <2> QED
    BY <2>2, <2>3 DEF DetectorInv
<1> QED
  BY <1>2, <1>3, <1>4, <1>5 DEF CleanUp

LEMMA MainKeeps == ASSUME DetectorInv, Main PROVE DetectorInv'
<1>1. ASSUME HandlePipe, UNCHANGED <<ring, closing, receive_vars>> PROVE DetectorInv'
  BY <1>1, HandlePipeMakes, LoopMovesKeep, HandlePipeKeeps
<1>2. ASSUME RegisterFull \/ SpawnFails, UNCHANGED <<ring, closing, receive_vars>>
      PROVE  DetectorInv'
  BY <1>2, GiveUpKeeps DEF RegisterFull, SpawnFails, MainAt, HoldsPipe
<1>3. ASSUME HandleEvent, UNCHANGED receive_vars PROVE DetectorInv'
  BY <1>1, <1>2, <1>3, LoopMovesKeep, RegisterKeeps, SpawnKeeps DEF HandleEvent
<1> QED
  BY <1>3, LoopMovesKeep, CleanUpKeeps DEF Main, MainStep

-----------------------------------------------------------------------------
(* A step of a thread changes its own record only, never an end of a pipe  *)
(* while the main loop runs, and no pipe but its own.                      *)
ThreadBecomes(c, me) ==
  /\ collectors' = [collectors EXCEPT ![c] = me]
  /\ me.pid = collectors[c].pid
  /\ me.pipe = collectors[c].pipe
  /\ me.pipe_fd = collectors[c].pipe_fd

EndsStay ==
  \A f \in FDs : IsEnd(f)' \/ (mpc \in Loop /\ IsEnd(f)) => fd_table'[f] = fd_table[f]

PipesGrow ==
  /\ DOMAIN pipes' = DOMAIN pipes
  /\ \A p \in DOMAIN pipes :
       /\ pipes[p].units # <<>> => pipes'[p].units # <<>>
       /\ (\A d \in DOMAIN collectors : collectors[d].pipe # p) => pipes'[p].sent = pipes[p].sent
  /\ \A d \in DOMAIN collectors : pipes'[collectors[d].pipe].sent < collectors'[d].batch

LEMMA ThreadChanges ==
  ASSUME DetectorInv, NEW c \in DOMAIN collectors, NEW me \in Thread, ThreadBecomes(c, me)
  PROVE  /\ collectors' \in Seq(Thread) /\ DOMAIN collectors' = DOMAIN collectors
         /\ collectors'[c] = me
         /\ \A d \in DOMAIN collectors :
              /\ d # c => collectors'[d] = collectors[d]
              /\ collectors'[d].pid = collectors[d].pid
              /\ collectors'[d].pipe = collectors[d].pipe
              /\ collectors'[d].pipe_fd = collectors[d].pipe_fd
<1>1. collectors \in Seq(Thread)
  BY DEF DetectorInv, ThreadTypes
<1> QED
  BY <1>1 DEF ThreadBecomes

LEMMA ThreadStepKeeps ==
  ASSUME DetectorInv, NEW c \in DOMAIN collectors, NEW me \in Thread,
         ThreadBecomes(c, me), ThreadState(me), EndsStay, PipesGrow,
         KernelTypes', PerfEvents', MessagesStayHome',
         UNCHANGED <<main_vars, shared, proc, receive_vars>>
  PROVE  DetectorInv'
<1>1. /\ UNCHANGED <<exiting, pipe_fds, pipe_count, pipe_mutex, proc>>
      /\ UNCHANGED <<mpc, ring, batch, fresh, closing, rpc, pfds, serving, reading>>
      /\ DOMAIN pipes' = DOMAIN pipes
  BY DEF main_vars, shared, receive_vars, PipesGrow
<1>2. SharedTypes' /\ MainTypes' /\ ReceiverTypes' /\ PollSet'
  BY <1>1, Frame DEF DetectorInv, SharedTypes, MainTypes
<1>3. ThreadTypes'
  BY <1>1, ThreadChanges DEF DetectorInv, ThreadTypes
<1>4. EndsAreUnique'
  BY DEF DetectorInv, EndsAreUnique, EndsStay, IsEnd, Kind
<1>5. EndsAreOwned'
  BY <1>1 DEF DetectorInv, EndsAreOwned, EndsStay, IsEnd, Kind, InSlot, Registered, UpTo
<1>6. FreshPipe'
  <2> SUFFICES ASSUME mpc \in HoldsPipe PROVE FreshPipe'
    BY <1>1 DEF FreshPipe
  <2>1. IsEnd(fresh.rd) /\ IsEnd(fresh.wr) /\ mpc \in Loop
    BY DEF DetectorInv, FreshPipe, ReadEnd, WriteEnd, IsEnd, Kind, HoldsPipe, Loop
  <2>2. fd_table'[fresh.rd] = fd_table[fresh.rd] /\ fd_table'[fresh.wr] = fd_table[fresh.wr]
    BY <2>1 DEF DetectorInv, FreshPipe, EndsStay
  <2>3. pipes'[fresh.pipe].sent = pipes[fresh.pipe].sent
    BY DEF DetectorInv, FreshPipe, PipesGrow
  <2> QED
    BY <1>1, <2>2, <2>3, ThreadChanges DEF DetectorInv, FreshPipe
<1>7. ThreadsHaveSlots'
  <2> SUFFICES ASSUME mpc \in Loop, NEW d \in DOMAIN collectors
               PROVE  \E s \in Registered :
                        /\ pipe_fds[s].wr = collectors[d].pipe_fd
                        /\ fd_table'[pipe_fds[s].wr] = WriteEnd(collectors[d].pipe)
                        /\ fd_table'[pipe_fds[s].rd] = ReadEnd(collectors[d].pipe)
    BY <1>1, ThreadChanges DEF ThreadsHaveSlots, Registered, UpTo
  <2>1. PICK s \in Registered :
                        /\ pipe_fds[s].wr = collectors[d].pipe_fd
                        /\ fd_table[pipe_fds[s].wr] = WriteEnd(collectors[d].pipe)
                        /\ fd_table[pipe_fds[s].rd] = ReadEnd(collectors[d].pipe)
    BY DEF DetectorInv, ThreadsHaveSlots
  <2>2. pipe_fds[s].rd \in FDs /\ pipe_fds[s].wr \in FDs
    BY SlotTypes DEF DetectorInv
  <2>3. IsEnd(pipe_fds[s].rd) /\ IsEnd(pipe_fds[s].wr)
    BY <2>1 DEF IsEnd, Kind, ReadEnd, WriteEnd
  <2> QED
    BY <2>1, <2>2, <2>3 DEF EndsStay
<1>8. OwnPipes'
  <2>1. \A d \in DOMAIN collectors :
          Kind(collectors[d].pipe_fd)' = "wr" =>
            fd_table'[collectors'[d].pipe_fd].pipe = collectors'[d].pipe
    <3> SUFFICES ASSUME NEW d \in DOMAIN collectors,
                        fd_table'[collectors[d].pipe_fd].kind = "wr"
                 PROVE  fd_table'[collectors[d].pipe_fd].pipe = collectors[d].pipe
      BY ThreadChanges DEF Kind
    <3>1. collectors[d].pipe_fd \in FDs
      BY ThreadFields DEF DetectorInv
    <3>2. fd_table'[collectors[d].pipe_fd] = fd_table[collectors[d].pipe_fd]
      BY <3>1 DEF EndsStay, IsEnd, Kind
    <3> QED
      BY <3>2 DEF DetectorInv, OwnPipes, Kind
  <2> QED
    BY <2>1, ThreadChanges DEF DetectorInv, OwnPipes, PipesGrow
<1>9. Serving'
  <2> SUFFICES ASSUME NEW i \in serving
               PROVE  /\ mpc \in Loop => \E d \in DOMAIN collectors :
                           fd_table'[pfds[i]] = ReadEnd(collectors[d].pipe)
                      /\ fd_table'[pfds[i]].kind = "rd" =>
                           pipes'[fd_table'[pfds[i]].pipe].units # <<>> \/ Twice(i)
    BY <1>1, ThreadChanges DEF Serving, Twice, Kind
  <2>1. pfds[i] \in FDs
    BY DEF DetectorInv, ReceiverTypes
  <2>2. ASSUME mpc \in Loop
        PROVE  \E d \in DOMAIN collectors : fd_table'[pfds[i]] = ReadEnd(collectors[d].pipe)
    <3>1. PICK d \in DOMAIN collectors : fd_table[pfds[i]] = ReadEnd(collectors[d].pipe)
      BY <2>2 DEF DetectorInv, Serving
    <3>2. IsEnd(pfds[i])
      BY <3>1 DEF IsEnd, Kind, ReadEnd
    <3> QED
      BY <2>1, <2>2, <3>1, <3>2 DEF EndsStay
  <2>3. ASSUME fd_table'[pfds[i]].kind = "rd"
        PROVE  pipes'[fd_table'[pfds[i]].pipe].units # <<>> \/ Twice(i)
    <3>1. fd_table'[pfds[i]] = fd_table[pfds[i]]
      BY <1>1, <2>1, <2>3 DEF EndsStay, IsEnd, Kind
    <3>2. fd_table[pfds[i]].pipe \in DOMAIN pipes
      BY <2>1, <2>3, <3>1 DEF DetectorInv, KernelTypes, IsEnd, Kind
    <3> QED
      BY <2>3, <3>1, <3>2 DEF DetectorInv, Serving, PipesGrow, Kind
  <2> QED
    BY <2>2, <2>3
<1>10. Blocked'
  BY <1>1 DEF DetectorInv, Blocked, Twice, NextServed, EndsStay, IsEnd, Kind, ReadEnd
<1> QED
  BY <1>2, <1>3, <1>4, <1>5, <1>6, <1>7, <1>8, <1>9, <1>10 DEF DetectorInv

LEMMA SamePipesGrow ==
  ASSUME DetectorInv, NEW c \in DOMAIN collectors, NEW me \in Thread,
         ThreadBecomes(c, me), UNCHANGED pipes, me.batch >= collectors[c].batch
  PROVE  PipesGrow
<1>1. \A d \in DOMAIN collectors :
        /\ collectors[d].batch \in Nat /\ collectors'[d].batch \in Nat
        /\ collectors'[d].batch >= collectors[d].batch
        /\ pipes[collectors[d].pipe].sent \in Nat
        /\ pipes[collectors[d].pipe].sent < collectors[d].batch
  <2> TAKE d \in DOMAIN collectors
  <2>1. collectors[d] \in Thread /\ collectors'[d] \in Thread
    BY ThreadFields, ThreadChanges DEF DetectorInv
  <2>2. pipes[collectors[d].pipe] \in Pipe
    BY ThreadFields DEF DetectorInv, KernelTypes
  <2>3. collectors[d].batch \in Nat /\ collectors'[d].batch \in Nat
    BY <2>1, Bounds DEF Thread
  <2>4. pipes[collectors[d].pipe].sent \in Nat
    BY <2>2, Bounds DEF Pipe
  <2>5. collectors'[d].batch >= collectors[d].batch
    BY <2>3, ThreadChanges
  <2> QED
    BY <2>3, <2>4, <2>5 DEF DetectorInv, OwnPipes
<1> QED
  BY <1>1 DEF PipesGrow

(* perf_event_open returns a number nobody uses, or the thread gives up.   *)
LEMMA OpenEventKeeps ==
  ASSUME DetectorInv, NEW c \in DOMAIN collectors, OpenEvent(c),
         UNCHANGED <<main_vars, shared, receive_vars>>
  PROVE  DetectorInv'
<1> DEFINE old == collectors[c]
<1>1. /\ old \in Thread /\ ThreadState(old) /\ old.pc = "open"
      /\ old.fds \in Seq(FDs) /\ Len(old.fds) < TOTAL_EVENTS
      /\ UNCHANGED <<proc, pipes, mpc>>
  BY ThreadFields DEF DetectorInv, ThreadTypes, ThreadState, OpenEvent, main_vars
<1>2. CASE UNCHANGED fd_table
  <2>1. PICK me : me = [old EXCEPT !.pc = "failed"]
    OBVIOUS
  <2>2. /\ me \in Thread /\ ThreadState(me) /\ me.fds = old.fds /\ me.batch = old.batch
        /\ me.pid = old.pid /\ me.pipe = old.pipe /\ me.pipe_fd = old.pipe_fd
    BY <1>1, <2>1 DEF Thread, ThreadState
  <2>3. collectors' = [collectors EXCEPT ![c] = me]
    <3>1. collectors' = [collectors EXCEPT ![c].pc = "failed"]
      <4>1. Free # {} => LowestFree(Free) \in FDs /\ Kind(LowestFree(Free)) = "closed"
        BY LowestFreeIn DEF Free, Kind
      <4>2. fd_table \in [FDs -> [kind : Kinds, pipe : Nat]] /\ PerfEvent.kind = "perf"
        BY DEF DetectorInv, KernelTypes, PerfEvent
      <4> QED
        BY <1>2, <4>1, <4>2 DEF OpenEvent, Kind
    <3> QED
      BY <2>1, <3>1
  <2>4. ThreadBecomes(c, me)
    BY <2>2, <2>3 DEF ThreadBecomes
  <2>5. PipesGrow /\ KernelTypes' /\ EndsStay
    <3>1. me.batch >= old.batch
      BY <1>1, <2>2, Bounds DEF Thread
    <3> QED
      BY <1>1, <1>2, <2>2, <2>4, <3>1, SamePipesGrow, Frame DEF EndsStay
  <2>6. /\ DOMAIN collectors' = DOMAIN collectors
        /\ \A d \in DOMAIN collectors :
             /\ collectors'[d].fds = collectors[d].fds
             /\ collectors'[d].pid = collectors[d].pid
             /\ collectors'[d].pipe = collectors[d].pipe
    BY <2>2, <2>4, ThreadChanges
  <2>7. PerfEvents'
    BY <1>1, <1>2, <2>6 DEF DetectorInv, PerfEvents, Kind
  <2>8. MessagesStayHome'
    BY <1>1, <2>6 DEF DetectorInv, MessagesStayHome
  <2> QED
    BY <1>1, <2>2, <2>4, <2>5, <2>7, <2>8, ThreadStepKeeps
<1>3. CASE /\ Free # {}
           /\ fd_table' = [fd_table EXCEPT ![LowestFree(Free)] = PerfEvent]
           /\ collectors' = [collectors EXCEPT
                ![c].fds = Append(old.fds, LowestFree(Free)),
                ![c].pc = IF Len(Append(old.fds, LowestFree(Free))) = TOTAL_EVENTS
                          THEN "sample" ELSE "open"]
  <2>1. PICK fd \in FDs : fd = LowestFree(Free) /\ Kind(fd) = "closed"
    BY <1>3, LowestFreeIn DEF Free, Kind
  <2>2. PICK me : me = [old EXCEPT !.fds = Append(old.fds, fd),
                          !.pc = IF Len(Append(old.fds, fd)) = TOTAL_EVENTS
                                 THEN "sample" ELSE "open"]
    OBVIOUS
  <2>3. /\ Append(old.fds, fd) \in Seq(FDs) /\ Len(Append(old.fds, fd)) = Len(old.fds) + 1
        /\ Len(old.fds) \in Nat
    BY <1>1
  <2>4. /\ me \in Thread /\ me.fds = Append(old.fds, fd) /\ me.batch = old.batch
        /\ me.pc = IF Len(me.fds) = TOTAL_EVENTS THEN "sample" ELSE "open"
        /\ me.pid = old.pid /\ me.pipe = old.pipe /\ me.pipe_fd = old.pipe_fd
    BY <1>1, <2>2, <2>3 DEF Thread
  <2>5. ThreadState(me)
    <3>1. old.batch = 1 /\ Len(me.fds) <= TOTAL_EVENTS
      BY <1>1, <2>3, <2>4, Bounds DEF ThreadState
    <3> QED
      BY <2>3, <2>4, <3>1, Bounds DEF ThreadState
  <2>6. ThreadBecomes(c, me)
    BY <1>3, <2>1, <2>2, <2>4 DEF ThreadBecomes
  <2>7. /\ fd_table' \in [FDs -> [kind : Kinds, pipe : Nat]]
        /\ fd_table'[fd] = PerfEvent
        /\ \A f \in FDs \ {fd} : fd_table'[f] = fd_table[f]
        /\ PerfEvent.kind = "perf" /\ PerfEvent.pipe = 0
    <3>1. PerfEvent \in [kind : Kinds, pipe : Nat] /\ PerfEvent.kind = "perf" /\ PerfEvent.pipe = 0
      BY DEF PerfEvent, Kinds
    <3>2. fd_table' = [fd_table EXCEPT ![fd] = PerfEvent]
      BY <1>3, <2>1
    <3> QED
      BY <3>1, <3>2 DEF DetectorInv, KernelTypes
  <2>8. KernelTypes'
    BY <1>1, <2>7 DEF DetectorInv, KernelTypes, IsEnd, Kind
  <2>9. EndsStay
    BY <2>1, <2>7 DEF EndsStay, IsEnd, Kind
  <2>10. PipesGrow
    <3>1. me.batch >= old.batch
      BY <1>1, <2>4, Bounds DEF Thread
    <3> QED
      BY <1>1, <2>4, <2>6, <3>1, SamePipesGrow
  <2>11. MessagesStayHome'
    BY <1>1, <2>4, <2>6, ThreadChanges DEF DetectorInv, MessagesStayHome
  <2>12. PerfEvents'
    <3>2. /\ DOMAIN me.fds = DOMAIN old.fds \cup {Len(old.fds) + 1}
          /\ Len(old.fds) + 1 \notin DOMAIN old.fds
          /\ me.fds[Len(old.fds) + 1] = fd
          /\ \A i \in DOMAIN old.fds : me.fds[i] = old.fds[i]
      BY <1>1, <2>4
    <3>3. ASSUME NEW d \in DOMAIN collectors', NEW i \in DOMAIN collectors'[d].fds
          PROVE  \/ d = c /\ i = Len(old.fds) + 1 /\ collectors'[d].fds[i] = fd
                 \/ /\ d \in DOMAIN collectors /\ i \in DOMAIN collectors[d].fds
                    /\ collectors'[d].fds[i] = collectors[d].fds[i]
                    /\ collectors[d].fds[i] \in FDs
      <4>1. d \in DOMAIN collectors /\ collectors'[c] = me
        BY <2>4, <2>6, ThreadChanges
      <4>2. CASE d = c
        BY <2>1, <3>2, <3>3, <4>1, <4>2, ThreadFields DEF DetectorInv
      <4>3. CASE d # c
        <5>1. collectors'[d] = collectors[d]
          BY <2>4, <2>6, <4>1, <4>3, ThreadChanges
        <5> QED
          BY <3>3, <4>1, <5>1, ThreadFields DEF DetectorInv
      <4> QED
        BY <4>2, <4>3
    <3>4. ASSUME NEW d \in DOMAIN collectors', NEW i \in DOMAIN collectors'[d].fds
          PROVE  IF mpc \in Loop THEN fd_table'[collectors'[d].fds[i]].kind = "perf"
                 ELSE fd_table'[collectors'[d].fds[i]].kind \in {"perf", "closed"}
      <4>1. CASE collectors'[d].fds[i] = fd
        BY <2>7, <4>1
      <4>2. CASE d \in DOMAIN collectors /\ i \in DOMAIN collectors[d].fds
                 /\ collectors'[d].fds[i] = collectors[d].fds[i]
                 /\ collectors[d].fds[i] \in FDs
        <5> DEFINE f == collectors[d].fds[i]
        <5>1. IF mpc \in Loop THEN Kind(f) = "perf" ELSE Kind(f) \in {"perf", "closed"}
          BY <4>2 DEF DetectorInv, PerfEvents
        <5>2. fd_table'[f].kind = IF f = fd THEN "perf" ELSE fd_table[f].kind
          BY <2>7, <4>2
        <5> QED
          BY <4>2, <5>1, <5>2 DEF Kind
      <4> QED
        BY <3>3, <4>1, <4>2
    <3>5. ASSUME mpc \in Loop,
                 NEW d \in DOMAIN collectors', NEW e \in DOMAIN collectors',
                 NEW i \in DOMAIN collectors'[d].fds, NEW j \in DOMAIN collectors'[e].fds,
                 collectors'[d].fds[i] = collectors'[e].fds[j]
          PROVE  d = e /\ i = j
      <4>1. \A b \in DOMAIN collectors : \A k \in DOMAIN collectors[b].fds :
              collectors[b].fds[k] # fd
        BY <2>1, <3>5 DEF DetectorInv, PerfEvents
      <4> QED
        BY <3>3, <3>5, <4>1 DEF DetectorInv, PerfEvents
    <3> QED
      BY <1>1, <3>4, <3>5 DEF PerfEvents, Kind
  <2> QED
    BY <1>1, <2>4, <2>5, <2>6, <2>8, <2>9, <2>10, <2>11, <2>12, ThreadStepKeeps
<1> QED
  BY <1>2, <1>3 DEF OpenEvent

(* A thread closes the perf event it opened first.                         *)
LEMMA CloseEventKeeps ==
  ASSUME DetectorInv, NEW c \in DOMAIN collectors, CloseEvent(c),
         UNCHANGED <<main_vars, shared, receive_vars>>
  PROVE  DetectorInv'
<1> DEFINE old == collectors[c]
<1>1. /\ old \in Thread /\ ThreadState(old) /\ old.pc = "close"
      /\ old.fds \in Seq(FDs) /\ Len(old.fds) \in 1 .. TOTAL_EVENTS
      /\ UNCHANGED <<proc, pipes, mpc>>
      /\ fd_table' = CloseAll({Head(old.fds)})
  BY ThreadFields
     DEF DetectorInv, ThreadTypes, ThreadState, CloseEvent, ClosedBy, main_vars
<1>2. PICK fd \in FDs : fd = Head(old.fds) /\ fd = old.fds[1]
  BY <1>1
<1>3. PICK me : me = [old EXCEPT !.fds = Tail(old.fds),
                        !.pc = IF Len(old.fds) = 1 THEN "done" ELSE "close"]
  OBVIOUS
<1>4. /\ Tail(old.fds) \in Seq(FDs) /\ Len(Tail(old.fds)) = Len(old.fds) - 1
      /\ Len(old.fds) \in Nat
      /\ \A i \in DOMAIN Tail(old.fds) :
           i + 1 \in DOMAIN old.fds /\ Tail(old.fds)[i] = old.fds[i + 1]
  BY <1>1
<1>5. /\ me \in Thread /\ me.fds = Tail(old.fds) /\ me.batch = old.batch
      /\ me.pc = IF Len(old.fds) = 1 THEN "done" ELSE "close"
      /\ me.pid = old.pid /\ me.pipe = old.pipe /\ me.pipe_fd = old.pipe_fd
  BY <1>1, <1>3, <1>4 DEF Thread
<1>6. ThreadState(me)
  <2>1. CASE Len(old.fds) = 1
    BY <1>4, <1>5, <2>1 DEF ThreadState
  <2>2. CASE Len(old.fds) # 1
    <3>1. Len(me.fds) = Len(old.fds) - 1 /\ me.pc = "close"
      BY <1>4, <1>5, <2>2
    <3>2. \A n \in 1 .. TOTAL_EVENTS : n # 1 => n - 1 \in 1 .. TOTAL_EVENTS
      BY Bounds
    <3>3. Len(me.fds) \in 1 .. TOTAL_EVENTS
      BY <1>1, <2>2, <3>1, <3>2
    <3> QED
      BY <3>1, <3>3 DEF ThreadState
  <2> QED
    BY <2>1, <2>2
<1>7. ThreadBecomes(c, me)
  BY <1>1, <1>3, <1>5 DEF CloseEvent, ThreadBecomes
<1>8. KernelTypes'
  BY <1>1, ClosingFrame
<1>9. /\ Kind(fd) \in {"perf", "closed"}
      /\ fd_table'[fd].kind = "closed"
      /\ \A f \in FDs \ {fd} : fd_table'[f] = fd_table[f]
  <2>1. 1 \in DOMAIN old.fds
    BY <1>1
  <2>2. Kind(fd) \in {"perf", "closed"}
    BY <1>2, <2>1 DEF DetectorInv, PerfEvents
  <2> QED
    BY <1>1, <1>2, <2>2, CloseDoes DEF DetectorInv, Kind
<1>10. EndsStay
  BY <1>9 DEF EndsStay, IsEnd, Kind
<1>11. PipesGrow
  <2>1. me.batch >= old.batch
    BY <1>1, <1>5, Bounds DEF Thread
  <2> QED
    BY <1>1, <1>5, <1>7, <2>1, SamePipesGrow
<1>12. /\ DOMAIN collectors' = DOMAIN collectors /\ collectors'[c] = me
       /\ \A d \in DOMAIN collectors :
            /\ d # c => collectors'[d] = collectors[d]
            /\ collectors'[d].pid = collectors[d].pid
            /\ collectors'[d].pipe = collectors[d].pipe
  BY <1>5, <1>7, ThreadChanges
<1>13. MessagesStayHome'
  BY <1>1, <1>12 DEF DetectorInv, MessagesStayHome
<1>14. PerfEvents'
  <2> DEFINE at(d, i) == IF d = c THEN i + 1 ELSE i
  <2>1. ASSUME NEW d \in DOMAIN collectors', NEW i \in DOMAIN collectors'[d].fds
        PROVE  /\ at(d, i) \in DOMAIN collectors[d].fds
               /\ collectors'[d].fds[i] = collectors[d].fds[at(d, i)]
               /\ collectors[d].fds[at(d, i)] \in FDs
               /\ d = c => at(d, i) # 1
               /\ i \in Nat
    <3>1. d \in DOMAIN collectors
      BY <1>12
    <3>2. CASE d = c
      <4>0. collectors'[d].fds = Tail(old.fds)
        BY <1>5, <1>12, <3>2
      <4>1. i \in DOMAIN Tail(old.fds) /\ i \in Nat
        BY <1>4, <2>1, <4>0
      <4>2. /\ i + 1 \in DOMAIN old.fds /\ Tail(old.fds)[i] = old.fds[i + 1] /\ i + 1 # 1
            /\ old.fds[i + 1] \in FDs
        BY <1>1, <1>4, <4>1
      <4> QED
        BY <1>5, <1>12, <3>2, <4>1, <4>2
    <3>3. CASE d # c
      <4>1. i \in DOMAIN collectors[d].fds /\ collectors[d].fds[i] \in FDs
        BY <1>12, <2>1, <3>1, <3>3, ThreadFields DEF DetectorInv
      <4>2. i \in Nat
        BY <3>1, <4>1, ThreadFields DEF DetectorInv
      <4> QED
        BY <1>12, <3>1, <3>3, <4>1, <4>2
    <3> QED
      BY <3>2, <3>3
  <2>2. ASSUME NEW d \in DOMAIN collectors', NEW i \in DOMAIN collectors'[d].fds
        PROVE  IF mpc \in Loop THEN fd_table'[collectors'[d].fds[i]].kind = "perf"
               ELSE fd_table'[collectors'[d].fds[i]].kind \in {"perf", "closed"}
    <3>1. PICK f \in FDs, k \in DOMAIN collectors[d].fds :
             /\ f = collectors'[d].fds[i] /\ f = collectors[d].fds[k]
             /\ d = c => k # 1
      BY <2>1, <2>2
    <3>2. d \in DOMAIN collectors
      BY <1>12
    <3>3. IF mpc \in Loop THEN Kind(f) = "perf" ELSE Kind(f) \in {"perf", "closed"}
      BY <3>1, <3>2 DEF DetectorInv, PerfEvents
    <3>4. mpc \in Loop => f # fd
      BY <1>1, <1>2, <3>1, <3>2 DEF DetectorInv, PerfEvents
    <3> QED
      BY <1>9, <3>1, <3>3, <3>4 DEF Kind
  <2>3. ASSUME mpc \in Loop,
               NEW d \in DOMAIN collectors', NEW e \in DOMAIN collectors',
               NEW i \in DOMAIN collectors'[d].fds, NEW j \in DOMAIN collectors'[e].fds,
               collectors'[d].fds[i] = collectors'[e].fds[j]
        PROVE  d = e /\ i = j
    <3>1. d = e /\ at(d, i) = at(e, j)
      BY <1>12, <2>1, <2>3 DEF DetectorInv, PerfEvents
    <3> QED
      BY <2>1, <3>1
  <2> QED
    BY <1>1, <2>2, <2>3 DEF PerfEvents, Kind
<1> QED
  BY <1>1, <1>5, <1>6, <1>7, <1>8, <1>10, <1>11, <1>13, <1>14, ThreadStepKeeps

LEMMA ConcatParts ==
  ASSUME NEW S, NEW s \in Seq(S), NEW t \in Seq(S)
  PROVE  /\ s \o t \in Seq(S) /\ Len(s \o t) = Len(s) + Len(t)
         /\ \A i \in DOMAIN s : i \in DOMAIN (s \o t) /\ (s \o t)[i] = s[i]
         /\ \A i \in DOMAIN (s \o t) \ DOMAIN s :
              i - Len(s) \in DOMAIN t /\ (s \o t)[i] = t[i - Len(s)]
<1>1. /\ s \o t \in Seq(S) /\ Len(s \o t) = Len(s) + Len(t)
      /\ Len(s) \in Nat /\ Len(t) \in Nat
      /\ DOMAIN s = 1 .. Len(s) /\ DOMAIN t = 1 .. Len(t)
      /\ DOMAIN (s \o t) = 1 .. Len(s) + Len(t)
  OBVIOUS
<1>2. \A i \in 1 .. Len(s) + Len(t) :
        (s \o t)[i] = IF i <= Len(s) THEN s[i] ELSE t[i - Len(s)]
  OBVIOUS
<1>3. \A i \in 1 .. Len(s) + Len(t) : i \notin 1 .. Len(s) =>
        i - Len(s) \in 1 .. Len(t) /\ ~ (i <= Len(s))
  BY <1>1
<1> QED
  BY <1>1, <1>2, <1>3

(* The write of a batch: to the thread's own pipe, or nowhere.             *)
LEMMA WriteBatchKeeps ==
  ASSUME DetectorInv, NEW c \in DOMAIN collectors, WriteBatch(c, reading),
         UNCHANGED <<main_vars, shared, receive_vars>>
  PROVE  DetectorInv'
<1> DEFINE old == collectors[c]
<1>1. /\ old \in Thread /\ ThreadState(old) /\ old.pc = "sample"
      /\ old.batch \in 1 .. BATCHES /\ Len(old.fds) = TOTAL_EVENTS
      /\ old.pipe_fd \in FDs /\ old.pid \in PIDs /\ old.pipe \in DOMAIN pipes
      /\ UNCHANGED <<fd_table, mpc>> /\ Running
  <2>1. old \in Thread /\ ThreadState(old) /\ old.pc = "sample"
    BY ThreadFields DEF DetectorInv, ThreadTypes, WriteBatch
  <2>2. old.batch \in 1 .. BATCHES + 1 /\ old.batch <= BATCHES
    BY <2>1 DEF Thread, ThreadState
  <2>3. old.batch \in 1 .. BATCHES
    BY <2>2, Bounds
  <2> QED
    BY <2>1, <2>3, ThreadFields DEF DetectorInv, ThreadState, WriteBatch, main_vars
<1>2. ASSUME collectors' = Advance(c)
      PROVE  \E me \in Thread : /\ ThreadBecomes(c, me) /\ ThreadState(me)
                               /\ me.fds = old.fds /\ me.batch = old.batch + 1
  <2>1. PICK me : me = [old EXCEPT !.batch = old.batch + 1,
                          !.pc = IF old.batch = BATCHES THEN "close" ELSE "sample"]
    OBVIOUS
  <2>2. /\ me \in Thread /\ me.fds = old.fds /\ me.batch = old.batch + 1
        /\ me.pc = IF old.batch = BATCHES THEN "close" ELSE "sample"
        /\ me.pid = old.pid /\ me.pipe = old.pipe /\ me.pipe_fd = old.pipe_fd
    <3>1. old.batch + 1 \in 1 .. BATCHES + 1
      BY <1>1, Bounds
    <3> QED
      BY <1>1, <2>1, <3>1 DEF Thread
  <2>3. ThreadState(me)
    <3>1. old.batch # BATCHES => old.batch + 1 <= BATCHES
      BY <1>1, Bounds
    <3>2. TOTAL_EVENTS \in 1 .. TOTAL_EVENTS
      BY Bounds
    <3> QED
      BY <1>1, <2>2, <3>1, <3>2 DEF ThreadState
  <2> QED
    BY <1>2, <2>1, <2>2, <2>3 DEF ThreadBecomes, Advance
<1>3. ASSUME collectors' = Advance(c)
      PROVE  /\ DOMAIN collectors' = DOMAIN collectors
             /\ \A d \in DOMAIN collectors :
                  /\ collectors'[d].pipe = collectors[d].pipe
                  /\ collectors'[d].pid = collectors[d].pid
  BY <1>2, <1>3, ThreadChanges
<1>4. ASSUME collectors' = Advance(c), proc' = proc, MessagesStayHome',
             KernelTypes',
             DOMAIN pipes' = DOMAIN pipes,
             \A p \in DOMAIN pipes :
               /\ pipes[p].units # <<>> => pipes'[p].units # <<>>
               /\ p # old.pipe => pipes'[p].sent = pipes[p].sent,
             pipes'[old.pipe].sent <= pipes[old.pipe].sent + 1
      PROVE  DetectorInv'
  <2>1. PICK me \in Thread : /\ ThreadBecomes(c, me) /\ ThreadState(me)
                            /\ me.fds = old.fds /\ me.batch = old.batch + 1
    BY <1>2, <1>4
  <2>5. /\ DOMAIN collectors' = DOMAIN collectors /\ collectors'[c] = me
        /\ \A d \in DOMAIN collectors :
             /\ d # c => collectors'[d] = collectors[d]
             /\ collectors'[d].fds = collectors[d].fds
    BY <2>1, ThreadChanges
  <2>6. PerfEvents'
    BY <1>1, <2>5 DEF DetectorInv, PerfEvents, Kind
  <2>7. PipesGrow
    <3>1. ASSUME NEW d \in DOMAIN collectors
          PROVE  pipes'[collectors[d].pipe].sent < collectors'[d].batch
      <4>1. pipes[collectors[d].pipe].sent < collectors[d].batch
        BY DEF DetectorInv, OwnPipes
      <4>2. CASE d = c
        <5>1. pipes[old.pipe].sent \in Nat /\ pipes'[old.pipe].sent \in Nat
          <6>1. pipes[old.pipe] \in Pipe /\ pipes'[old.pipe] \in Pipe
            BY <1>1, <1>4 DEF DetectorInv, KernelTypes
          <6> QED
            BY <6>1, Bounds DEF Pipe
        <5>2. old.batch \in Nat
          BY <1>1, Bounds
        <5> QED
          BY <1>4, <2>1, <2>5, <4>1, <4>2, <5>1, <5>2
      <4>3. CASE d # c
        <5>1. collectors[d].pipe # old.pipe /\ collectors[d].pipe \in DOMAIN pipes
          BY <4>3, ThreadFields DEF DetectorInv, OwnPipes
        <5> QED
          BY <1>4, <2>5, <4>1, <4>3, <5>1
      <4> QED
        BY <4>2, <4>3
    <3> QED
      BY <1>4, <3>1 DEF PipesGrow
  <2>8. EndsStay
    BY <1>1 DEF EndsStay
  <2> QED
    BY <1>4, <2>1, <2>6, <2>7, <2>8, ThreadStepKeeps
<1>5. CASE UNCHANGED <<proc, pipes>> /\ collectors' = Advance(c)
  <2>1. KernelTypes'
    BY <1>1, <1>5, Frame
  <2>2. MessagesStayHome'
    BY <1>3, <1>5 DEF DetectorInv, MessagesStayHome
  <2>3. pipes[old.pipe].sent <= pipes[old.pipe].sent + 1
    <3>1. pipes[old.pipe] \in Pipe
      BY <1>1 DEF DetectorInv, KernelTypes
    <3> QED
      BY <3>1, Bounds DEF Pipe
  <2> QED
    BY <1>4, <1>5, <2>1, <2>2, <2>3
<1>6. ASSUME fd_table[old.pipe_fd].kind = "wr", collectors' = Advance(c), proc' = proc,
             NEW length \in MSG_UNITS,
             pipes' = [pipes EXCEPT
               ![fd_table[old.pipe_fd].pipe].units = @ \o UnitsOf(old.pid, old.batch, length),
               ![fd_table[old.pipe_fd].pipe].sent = @ + 1]
      PROVE  DetectorInv'
  <2> DEFINE p == old.pipe
             us == UnitsOf(old.pid, old.batch, length)
  <2>1. fd_table[old.pipe_fd].pipe = p
    BY <1>6 DEF DetectorInv, OwnPipes, Kind
  <2>2. pipes \in Seq(Pipe) /\ pipes[p] \in Pipe /\ pipes[p].units \in Seq(Unit)
        /\ pipes[p].sent \in 0 .. BATCHES
    <3>1. pipes \in Seq(Pipe) /\ pipes[p] \in Pipe
      BY <1>1 DEF DetectorInv, KernelTypes
    <3> QED
      BY <3>1 DEF Pipe
  <2>3. us \in Seq(Unit) /\ Len(us) \in Nat \ {0} /\ DOMAIN us = 1 .. Len(us)
        /\ \A i \in DOMAIN us : us[i].pid = old.pid
    <3>1. /\ us \in Seq(Unit) /\ Len(us) = length /\ length \in Nat \ {0}
          /\ DOMAIN us = 1 .. length
          /\ \A i \in 1 .. length : us[i] = [pid |-> old.pid, batch |-> old.batch, head |-> i = 1]
      <4>1. old.pid \in PIDs /\ old.batch \in 1 .. BATCHES /\ length \in MSG_UNITS
        BY <1>1, <1>6
      <4> HIDE DEF old
      <4> QED
        BY <4>1, UnitsTypes
    <3> HIDE DEF us
    <3>2. DOMAIN us = 1 .. Len(us) /\ Len(us) \in Nat \ {0}
      BY <3>1
    <3>3. ASSUME NEW i \in DOMAIN us PROVE us[i].pid = old.pid
      <4>1. us[i] = [pid |-> old.pid, batch |-> old.batch, head |-> i = 1]
        BY <3>1, <3>3
      <4> QED
        BY <4>1
    <3> QED
      BY <3>1, <3>2, <3>3
  <2> HIDE DEF us
  <2>4. PICK new : new = [pipes[p] EXCEPT !.units = pipes[p].units \o us,
                                          !.sent = pipes[p].sent + 1]
    OBVIOUS
  <2>5. new \in Pipe /\ new.units = pipes[p].units \o us /\ new.sent = pipes[p].sent + 1
    <3>1. pipes[p].sent + 1 \in 0 .. BATCHES
      <4>1. pipes[p].sent < old.batch
        BY DEF DetectorInv, OwnPipes
      <4> QED
        BY <1>1, <2>2, <4>1, Bounds
    <3>2. pipes[p].units \o us \in Seq(Unit)
      BY <2>2, <2>3
    <3> QED
      BY <2>2, <2>4, <3>1, <3>2 DEF Pipe
  <2>6. pipes' = [pipes EXCEPT ![p] = new]
    BY <1>6, <2>1, <2>4 DEF us
  <2>7. /\ pipes' \in Seq(Pipe) /\ DOMAIN pipes' = DOMAIN pipes /\ pipes'[p] = new
        /\ \A q \in DOMAIN pipes : q # p => pipes'[q] = pipes[q]
    BY <1>1, <2>2, <2>5, <2>6
  <2>8. KernelTypes'
    BY <1>1, <2>7 DEF DetectorInv, KernelTypes, IsEnd, Kind
  <2>9. new.units # <<>>
    BY <2>2, <2>3, <2>5
  <2>10. /\ DOMAIN collectors' = DOMAIN collectors
         /\ \A d \in DOMAIN collectors : collectors'[d].pipe = collectors[d].pipe
                                        /\ collectors'[d].pid = collectors[d].pid
    BY <1>3, <1>6
  <2>11. MessagesStayHome'
    <3> SUFFICES ASSUME NEW q \in DOMAIN pipes, NEW i \in DOMAIN pipes'[q].units
                 PROVE  \E d \in DOMAIN collectors :
                          collectors[d].pipe = q /\ collectors[d].pid = pipes'[q].units[i].pid
      BY <2>7, <2>10 DEF MessagesStayHome
    <3>0. /\ \A k \in DOMAIN pipes[p].units : new.units[k] = pipes[p].units[k]
          /\ \A k \in DOMAIN new.units \ DOMAIN pipes[p].units :
               /\ k - Len(pipes[p].units) \in DOMAIN us
               /\ new.units[k] = us[k - Len(pipes[p].units)]
      <4>1. pipes[p].units \in Seq(Unit) /\ us \in Seq(Unit)
            /\ new.units = pipes[p].units \o us
        BY <2>2, <2>3, <2>5
      <4> QED
        BY <4>1, ConcatParts
    <3>1. CASE q # p \/ i \in DOMAIN pipes[p].units
      <4>1. i \in DOMAIN pipes[q].units /\ pipes'[q].units[i] = pipes[q].units[i]
        BY <2>7, <3>0, <3>1
      <4> QED
        BY <4>1 DEF DetectorInv, MessagesStayHome
    <3>2. CASE q = p /\ i \notin DOMAIN pipes[p].units
      <4>1. pipes'[q].units[i].pid = old.pid
        <5>1. i - Len(pipes[p].units) \in DOMAIN us
              /\ pipes'[q].units[i] = us[i - Len(pipes[p].units)]
          BY <2>7, <3>0, <3>2
        <5> QED
          BY <2>3, <5>1
      <4> QED
        BY <3>2, <4>1
    <3> QED
      BY <3>1, <3>2
  <2>12. pipes'[p].sent <= pipes[p].sent + 1
    BY <2>2, <2>5, <2>7, Bounds
  <2> QED
    BY <1>4, <1>6, <2>7, <2>8, <2>9, <2>11, <2>12
<1>7. CASE /\ fd_table[old.pipe_fd].kind = "wr" /\ proc' = "killed"
           /\ ~ HasReader(fd_table[old.pipe_fd].pipe, reading)
           /\ UNCHANGED <<collectors, pipes>>
  <2>1. fd_table[old.pipe_fd] = WriteEnd(old.pipe) /\ IsEnd(old.pipe_fd)
    BY <1>1, <1>7 DEF DetectorInv, OwnPipes, KernelTypes, Kind, WriteEnd, IsEnd
  <2>2. mpc \notin Loop
    <3> SUFFICES ASSUME mpc \in Loop PROVE FALSE
      OBVIOUS
    <3>1. PICK s \in Registered : fd_table[pipe_fds[s].rd] = ReadEnd(old.pipe)
      BY DEF DetectorInv, ThreadsHaveSlots
    <3>2. pipe_fds[s].rd \in FDs
      BY SlotTypes DEF DetectorInv
    <3> QED
      BY <1>7, <2>1, <3>1, <3>2 DEF HasReader, WriteEnd
  <2>3. mpc = "close"
    BY <1>1, <2>1, <2>2 DEF DetectorInv, MainTypes, EndsAreOwned
  <2>4. UNCHANGED <<exiting, pipe_fds, pipe_count, pipe_mutex>>
        /\ UNCHANGED <<mpc, ring, batch, fresh, closing, rpc, pfds, serving, reading>>
    BY DEF main_vars, shared, receive_vars
  <2>5. KernelTypes' /\ ReceiverTypes' /\ ThreadTypes' /\ EndsAreUnique' /\ EndsAreOwned'
        /\ OwnPipes' /\ MessagesStayHome' /\ Blocked' /\ PollSet' /\ ThreadsHaveSlots'
        /\ PerfEvents' /\ Serving' /\ FreshPipe'
    BY <1>1, <1>7, <2>4, Frame, ServingFrame, FreshFrame DEF DetectorInv
  <2>6. SharedTypes' /\ MainTypes'
    BY <1>7, <2>3, <2>4 DEF DetectorInv, SharedTypes, MainTypes
  <2> QED
    BY <2>5, <2>6 DEF DetectorInv
<1> QED
  BY <1>5, <1>6, <1>7 DEF WriteBatch

LEMMA CollectorKeeps ==
  ASSUME DetectorInv, NEW c \in DOMAIN collectors, Collector(c) PROVE DetectorInv'
BY OpenEventKeeps, WriteBatchKeeps, CloseEventKeeps DEF Collector, CollectorStep

-----------------------------------------------------------------------------
(* The receive thread between two rounds: nothing is left to serve.        *)
LEMMA ReceiverMoveKeeps ==
  ASSUME DetectorInv, rpc' \in {"load", "check", "sync", "poll", "sweep", "free", "ended"},
         serving' = {}, pfds' \in Seq(FDs), PollSet',
         UNCHANGED <<main_vars, collectors, shared, kernel, reading>>
  PROVE  DetectorInv'
<1>1. /\ UNCHANGED <<fd_table, pipes, exiting, pipe_fds, pipe_count, pipe_mutex, proc>>
      /\ UNCHANGED <<mpc, ring, batch, fresh, closing, collectors>>
  BY DEF main_vars, shared, kernel
<1>2. KernelTypes' /\ SharedTypes' /\ MainTypes' /\ ThreadTypes' /\ EndsAreUnique'
      /\ EndsAreOwned' /\ FreshPipe' /\ ThreadsHaveSlots' /\ OwnPipes' /\ PerfEvents'
      /\ MessagesStayHome'
  BY <1>1, Frame, FreshFrame DEF DetectorInv, SharedTypes, MainTypes
<1>3. ReceiverTypes' /\ Serving' /\ Blocked'
  BY <1>1 DEF DetectorInv, ReceiverTypes, Serving, Blocked
<1> QED
  BY <1>2, <1>3 DEF DetectorInv

LEMMA SyncExtends ==
  ASSUME DetectorInv, Sync, mpc # "return", UNCHANGED <<mpc, pipe_fds, pipe_count>>
  PROVE  pfds' \in Seq(FDs) /\ PollSet'
<1>1. /\ pfds \in Seq(FDs) /\ Len(pfds) \in Nat /\ Len(pfds) <= pipe_count
      /\ \A i \in DOMAIN pfds : pfds[i] = pipe_fds[i - 1].rd
      /\ pipe_count \in Nat /\ pipe_count <= MAX_PIDS
  BY Bounds DEF DetectorInv, ReceiverTypes, PollSet, SharedTypes
<1>2. CASE ~ (Len(pfds) < pipe_count)
  BY <1>2 DEF Sync, DetectorInv, ReceiverTypes, PollSet
<1>3. CASE Len(pfds) < pipe_count
  <2>1. pfds' = pfds \o NewSlots
    BY <1>3 DEF Sync
  <2>2. PICK n \in Nat : n = pipe_count - Len(pfds) /\ Len(pfds) + n = pipe_count
    BY <1>1, <1>3
  <2>3. NewSlots \in Seq(FDs) /\ DOMAIN NewSlots = 1 .. n /\ Len(NewSlots) = n
    <3>1. \A k \in 1 .. n : Len(pfds) + k - 1 \in Registered
      BY <1>1, <2>2 DEF Registered, UpTo
    <3>2. \A k \in 1 .. n : pipe_fds[Len(pfds) + k - 1].rd \in FDs
      BY <3>1, SlotTypes DEF DetectorInv
    <3>3. NewSlots = [k \in 1 .. n |-> pipe_fds[Len(pfds) + k - 1].rd]
      BY <2>2 DEF NewSlots
    <3> QED
      BY <3>2, <3>3
  <2>4. pfds' \in Seq(FDs) /\ Len(pfds') = pipe_count
    BY <1>1, <2>1, <2>2, <2>3, ConcatParts
  <2>5. ASSUME NEW i \in DOMAIN pfds' PROVE pfds'[i] = pipe_fds[i - 1].rd
    <3>1. CASE i \in DOMAIN pfds
      BY <1>1, <2>1, <2>3, <3>1, ConcatParts
    <3>2. CASE i \notin DOMAIN pfds
      <4>1. i - Len(pfds) \in DOMAIN NewSlots /\ pfds'[i] = NewSlots[i - Len(pfds)]
        BY <1>1, <2>1, <2>3, <2>5, <3>2, ConcatParts
      <4>2. i \in Nat /\ Len(pfds) + (i - Len(pfds)) - 1 = i - 1
        BY <1>1, <2>4, <2>5
      <4> QED
        BY <2>2, <2>3, <4>1, <4>2 DEF NewSlots
    <3> QED
      BY <3>1, <3>2
  <2> QED
    BY <1>1, <2>4, <2>5 DEF PollSet
<1> QED
  BY <1>2, <1>3

LEMMA ReceiverMovesKeep ==
  ASSUME DetectorInv, NEW t,
         \/ LoadWeights \/ CheckReceiver \/ Sync \/ SyncFails
         \/ PollPipesFails \/ Sweep(t) \/ FreeAll,
         UNCHANGED <<main_vars, collectors, reading, kernel>>
  PROVE  DetectorInv'
<1>1. rpc \notin {"serve", "blocked"} /\ Running
  BY DEF LoadWeights, CheckReceiver, Sync, SyncFails, PollPipesFails, Sweep, FreeAll,
         ReceiverGo
<1>2. serving = {} /\ serving' = {} /\ mpc' = mpc
  BY <1>1 DEF DetectorInv, ReceiverTypes, LoadWeights, CheckReceiver, Sync, SyncFails,
         PollPipesFails, Sweep, FreeAll, main_vars
<1>3. pfds \in Seq(FDs) /\ pipe_mutex \in {"free", "main"} /\ pipe_count \in Nat
      /\ Len(pfds) \in Nat
  BY DEF DetectorInv, ReceiverTypes, MainTypes, SharedTypes
<1>4. CASE LoadWeights \/ CheckReceiver \/ PollPipesFails \/ Sweep(t)
  <2>1. UNCHANGED <<pfds, shared>>
        /\ rpc' \in {"load", "check", "sync", "poll", "sweep", "free", "ended"}
    BY <1>4 DEF LoadWeights, CheckReceiver, PollPipesFails, Sweep, ReceiverGo
  <2>2. PollSet'
    BY <1>2, <2>1, Frame DEF shared
  <2> QED
    BY <1>2, <1>3, <2>1, <2>2, ReceiverMoveKeeps
<1>5. CASE Sync
  <2>1. UNCHANGED shared /\ rpc' \in {"sweep", "poll"} /\ MutexFree
    BY <1>5 DEF Sync, ReceiverGo
  <2>2. pfds' \in Seq(FDs) /\ PollSet'
    <3>1. CASE mpc = "return" /\ ~ (Len(pfds) < pipe_count)
      BY <1>2, <1>3, <1>5, <2>1, <3>1, Frame DEF Sync, shared
    <3>2. CASE mpc = "return" /\ Len(pfds) < pipe_count
      BY <1>3, <3>2 DEF DetectorInv, PollSet
    <3>3. CASE mpc # "return"
      BY <1>2, <1>5, <2>1, <3>3, SyncExtends DEF shared
    <3> QED
      BY <3>1, <3>2, <3>3
  <2> QED
    BY <1>2, <2>1, <2>2, ReceiverMoveKeeps
<1>6. CASE SyncFails \/ FreeAll
  <2>1. /\ UNCHANGED <<exiting, pipe_fds, pipe_count, pipe_mutex>>
        /\ rpc' \in {"free", "ended"} /\ pfds' = <<>>
    BY <1>6 DEF SyncFails, FreeAll, ReceiverGo, BreakUnlocked, MutexFree, shared
  <2>2. pfds' \in Seq(FDs) /\ Len(pfds') = 0 /\ DOMAIN pfds' = {}
    BY <2>1
  <2>3. PollSet'
    BY <1>2, <1>3, <2>1, <2>2, Bounds DEF DetectorInv, PollSet
  <2> QED
    BY <1>2, <2>1, <2>2, <2>3, ReceiverMoveKeeps DEF shared
<1> QED
  BY <1>4, <1>5, <1>6

(* poll() announces pipes that hold data: somebody's messages, and the     *)
(* main loop closes no end of a pipe that has a thread.                    *)
LEMMA PollPipesKeeps ==
  ASSUME DetectorInv, PollPipes, UNCHANGED <<main_vars, collectors, kernel, reading>>
  PROVE  DetectorInv'
<1>1. /\ UNCHANGED <<fd_table, pipes, exiting, pipe_fds, pipe_count, pipe_mutex, proc>>
      /\ UNCHANGED <<mpc, ring, batch, fresh, closing, collectors, pfds, reading>>
      /\ serving' = {i \in DOMAIN pfds : Readable(pfds[i])}
      /\ rpc' = IF serving' = {} THEN "sweep" ELSE "serve"
  BY DEF main_vars, shared, kernel, PollPipes, ReceiverGo, Announced
<1>2. KernelTypes' /\ SharedTypes' /\ MainTypes' /\ ThreadTypes' /\ EndsAreUnique'
      /\ EndsAreOwned' /\ FreshPipe' /\ ThreadsHaveSlots' /\ OwnPipes' /\ PerfEvents'
      /\ MessagesStayHome' /\ PollSet'
  BY <1>1, Frame, FreshFrame DEF DetectorInv, SharedTypes, MainTypes
<1>3. ReceiverTypes' /\ Blocked'
  BY <1>1 DEF DetectorInv, ReceiverTypes, Blocked
<1>4. Serving'
  <2> SUFFICES ASSUME NEW i \in DOMAIN pfds, Readable(pfds[i])
               PROVE  /\ \E c \in DOMAIN collectors :
                           fd_table[pfds[i]] = ReadEnd(collectors[c].pipe)
                      /\ pipes[fd_table[pfds[i]].pipe].units # <<>>
    BY <1>1 DEF Serving, Kind
  <2> DEFINE f == pfds[i]
             p == fd_table[f].pipe
  <2>1. /\ f \in FDs /\ fd_table[f].kind = "rd" /\ p \in DOMAIN pipes
        /\ pipes[p].units # <<>> /\ pipes[p].units \in Seq(Unit)
    <3>1. f \in FDs /\ fd_table[f].kind = "rd" /\ pipes[p].units # <<>>
      BY DEF DetectorInv, ReceiverTypes, Readable
    <3>2. p \in DOMAIN pipes
      BY <3>1 DEF DetectorInv, KernelTypes, IsEnd, Kind
    <3>3. pipes[p] \in Pipe
      BY <3>2 DEF DetectorInv, KernelTypes
    <3> QED
      BY <3>1, <3>2, <3>3 DEF Pipe
  <2>2. fd_table[f] = ReadEnd(p)
    <3>1. fd_table[f] \in [kind : Kinds, pipe : Nat]
      BY <2>1 DEF DetectorInv, KernelTypes
    <3> QED
      BY <2>1, <3>1 DEF ReadEnd
  <2>3. 1 \in DOMAIN pipes[p].units
    BY <2>1
  <2>4. PICK c \in DOMAIN collectors : collectors[c].pipe = p
    BY <2>1, <2>3 DEF DetectorInv, MessagesStayHome
  <2> QED
    BY <2>1, <2>2, <2>4
<1> QED
  BY <1>2, <1>3, <1>4 DEF DetectorInv

(* One read takes from the pipe whose only read end is being served, or    *)
(* from none, and the round goes on with the other announced numbers.      *)
PipesDrain ==
  /\ DOMAIN pipes' = DOMAIN pipes
  /\ \A p \in DOMAIN pipes :
       /\ pipes'[p].sent = pipes[p].sent
       /\ \A i \in DOMAIN pipes'[p].units :
            \E j \in DOMAIN pipes[p].units : pipes'[p].units[i] = pipes[p].units[j]
       /\ \/ pipes'[p] = pipes[p]
          \/ \A f \in FDs : fd_table[f] = ReadEnd(p) => f = pfds[NextServed]

LEMMA NextServedIn ==
  ASSUME ReceiverTypes, rpc \in {"serve", "blocked"}
  PROVE  NextServed \in serving /\ NextServed \in DOMAIN pfds /\ pfds[NextServed] \in FDs
<1>1. serving # {} /\ serving \subseteq DOMAIN pfds /\ pfds \in Seq(FDs)
  BY DEF ReceiverTypes
<1>2. serving \in SUBSET Nat
  BY <1>1
<1>3. NextServed \in serving
  BY <1>1, <1>2, MinIn DEF NextServed
<1> QED
  BY <1>1, <1>3

LEMMA ReadKeeps ==
  ASSUME DetectorInv, rpc \in {"serve", "blocked"}, Served, PipesDrain, KernelTypes',
         reading' \in {0, reading},
         UNCHANGED <<main_vars, collectors, shared, pfds, proc, fd_table>>
  PROVE  DetectorInv'
<1>1. /\ UNCHANGED <<fd_table, exiting, pipe_fds, pipe_count, pipe_mutex, proc>>
      /\ UNCHANGED <<mpc, ring, batch, fresh, closing, collectors, pfds>>
      /\ DOMAIN pipes' = DOMAIN pipes
      /\ serving' = serving \ {NextServed}
      /\ rpc' = IF serving' = {} THEN "sweep" ELSE "serve"
  BY DEF main_vars, shared, PipesDrain, Served
<1>2. SharedTypes' /\ MainTypes' /\ ThreadTypes' /\ EndsAreUnique'
      /\ EndsAreOwned' /\ ThreadsHaveSlots' /\ PerfEvents' /\ PollSet'
  BY <1>1, Frame DEF DetectorInv, SharedTypes, MainTypes
<1>3. ReceiverTypes' /\ Blocked'
  BY <1>1 DEF DetectorInv, ReceiverTypes, Blocked
<1>4. FreshPipe'
  BY <1>1 DEF DetectorInv, FreshPipe, PipesDrain
<1>5. OwnPipes'
  BY <1>1, ThreadFields DEF DetectorInv, OwnPipes, Kind, PipesDrain
<1>6. MessagesStayHome'
  BY <1>1 DEF DetectorInv, MessagesStayHome, PipesDrain
<1>7. Serving'
  <2> SUFFICES ASSUME NEW i \in serving, i # NextServed
               PROVE  /\ mpc \in Loop => \E c \in DOMAIN collectors :
                           fd_table[pfds[i]] = ReadEnd(collectors[c].pipe)
                      /\ fd_table[pfds[i]].kind = "rd" =>
                           pipes'[fd_table[pfds[i]].pipe].units # <<>> \/ Twice(i)
    BY <1>1 DEF Serving, Kind, Twice
  <2>1. mpc \in Loop => \E c \in DOMAIN collectors :
                           fd_table[pfds[i]] = ReadEnd(collectors[c].pipe)
    BY DEF DetectorInv, Serving
  <2>2. ASSUME fd_table[pfds[i]].kind = "rd"
        PROVE  pipes'[fd_table[pfds[i]].pipe].units # <<>> \/ Twice(i)
    <3> DEFINE p == fd_table[pfds[i]].pipe
    <3>1. pfds[i] \in FDs /\ i \in DOMAIN pfds
      BY DEF DetectorInv, ReceiverTypes
    <3>2. fd_table[pfds[i]] \in [kind : Kinds, pipe : Nat] /\ p \in DOMAIN pipes
      BY <2>2, <3>1 DEF DetectorInv, KernelTypes, IsEnd, Kind
    <3>3. fd_table[pfds[i]] = ReadEnd(p)
      BY <2>2, <3>2 DEF ReadEnd
    <3>4. CASE pipes'[p] = pipes[p]
      BY <2>2, <3>4 DEF DetectorInv, Serving, Kind
    <3>5. CASE \A f \in FDs : fd_table[f] = ReadEnd(p) => f = pfds[NextServed]
      <4>1. pfds[i] = pfds[NextServed] /\ NextServed \in DOMAIN pfds
        BY <3>1, <3>3, <3>5, NextServedIn DEF DetectorInv
      <4> QED
        BY <4>1 DEF Twice
    <3> QED
      BY <3>2, <3>4, <3>5 DEF PipesDrain
  <2> QED
    BY <2>1, <2>2
<1> QED
  BY <1>2, <1>3, <1>4, <1>5, <1>6, <1>7 DEF DetectorInv

(* What a delivery does to the pipe it read from.                          *)
Drained(p, got) ==
  pipes' = [pipes EXCEPT ![p].units = Left(pipes[p].units), ![p].got = got]

LEMMA DeliverDrains ==
  ASSUME KernelTypes, NEW p \in DOMAIN pipes, pipes[p].units # <<>>, NEW t,
         Deliver(p, pipes[p].units, t)
  PROVE  LET header == Head(pipes[p].units)
         IN  \/ Drained(p, pipes[p].got)
             \/ header.head /\ Drained(p, Append(pipes[p].got, header.batch))
BY DEF Deliver, Header, Drained

LEMMA DrainKeepsTypes ==
  ASSUME KernelTypes, UNCHANGED fd_table, NEW p \in DOMAIN pipes, pipes[p].units # <<>>,
         NEW t, Deliver(p, pipes[p].units, t)
  PROVE  /\ KernelTypes' /\ DOMAIN pipes' = DOMAIN pipes
         /\ pipes'[p].units = Left(pipes[p].units) /\ pipes'[p].sent = pipes[p].sent
         /\ \A q \in DOMAIN pipes \ {p} : pipes'[q] = pipes[q]
<1>1. /\ pipes \in Seq(Pipe) /\ pipes[p] \in Pipe
      /\ pipes[p].units \in Seq(Unit) /\ pipes[p].got \in Seq(1 .. BATCHES)
  <2>1. pipes \in Seq(Pipe) /\ pipes[p] \in Pipe
    BY DEF KernelTypes
  <2> QED
    BY <2>1 DEF Pipe
<1>2. PICK got \in Seq(1 .. BATCHES) : Drained(p, got)
  <2>1. Head(pipes[p].units) \in Unit
    BY <1>1
  <2>2. Head(pipes[p].units).batch \in 1 .. BATCHES
    BY <2>1 DEF Unit
  <2>3. Append(pipes[p].got, Head(pipes[p].units).batch) \in Seq(1 .. BATCHES)
    BY <1>1, <2>2
  <2> QED
    BY <1>1, <2>3, DeliverDrains
<1>3. Left(pipes[p].units) \in Seq(Unit)
  BY <1>1, LeftTypes
<1>4. PICK new : new = [pipes[p] EXCEPT !.units = Left(pipes[p].units), !.got = got]
  OBVIOUS
<1>5. new \in Pipe /\ new.units = Left(pipes[p].units) /\ new.sent = pipes[p].sent
  BY <1>1, <1>2, <1>3, <1>4 DEF Pipe
<1>6. pipes' = [pipes EXCEPT ![p] = new]
  BY <1>2, <1>4 DEF Drained
<1>7. /\ pipes' \in Seq(Pipe) /\ DOMAIN pipes' = DOMAIN pipes /\ pipes'[p] = new
      /\ \A q \in DOMAIN pipes \ {p} : pipes'[q] = pipes[q]
  BY <1>1, <1>5, <1>6
<1>8. KernelTypes'
  BY <1>7 DEF KernelTypes, IsEnd, Kind
<1> QED
  BY <1>5, <1>7, <1>8

LEMMA SamePipesDrain ==
  ASSUME DetectorInv, UNCHANGED <<pipes, fd_table>> PROVE PipesDrain /\ KernelTypes'
BY Frame DEF PipesDrain

LEMMA DeliverKeeps ==
  ASSUME DetectorInv, rpc \in {"serve", "blocked"}, Served, reading' \in {0, reading},
         NEW p \in DOMAIN pipes, pipes[p].units # <<>>, NEW t,
         Deliver(p, pipes[p].units, t),
         \A f \in FDs : fd_table[f] = ReadEnd(p) => f = pfds[NextServed],
         UNCHANGED <<main_vars, collectors, shared, pfds, proc, fd_table>>
  PROVE  DetectorInv'
<1>1. /\ KernelTypes' /\ DOMAIN pipes' = DOMAIN pipes
      /\ pipes'[p].units = Left(pipes[p].units) /\ pipes'[p].sent = pipes[p].sent
      /\ \A q \in DOMAIN pipes \ {p} : pipes'[q] = pipes[q]
  BY DrainKeepsTypes DEF DetectorInv
<1>2. pipes[p].units \in Seq(Unit)
  <2>1. pipes[p] \in Pipe
    BY DEF DetectorInv, KernelTypes
  <2> QED
    BY <2>1 DEF Pipe
<1>3. \A i \in DOMAIN pipes'[p].units :
        \E j \in DOMAIN pipes[p].units : pipes'[p].units[i] = pipes[p].units[j]
  BY <1>1, <1>2, LeftTypes
<1>4. PipesDrain
  BY <1>1, <1>3 DEF PipesDrain
<1> QED
  BY <1>1, <1>4, ReadKeeps

(* The read end that is served is the only one of its pipe.                *)
LEMMA ServedEnd ==
  ASSUME DetectorInv, rpc = "serve", ServedFd.kind = "rd"
  PROVE  /\ ServedFd.pipe \in DOMAIN pipes /\ ServedFd.pipe # 0
         /\ \A f \in FDs : fd_table[f] = ReadEnd(ServedFd.pipe) => f = pfds[NextServed]
<1>1. pfds[NextServed] \in FDs
  BY NextServedIn DEF DetectorInv
<1>2. ServedFd \in [kind : Kinds, pipe : Nat] /\ ServedFd.pipe \in DOMAIN pipes
  BY <1>1 DEF DetectorInv, KernelTypes, ServedFd, IsEnd, Kind
<1>3. ServedFd = ReadEnd(ServedFd.pipe)
  BY <1>2 DEF ReadEnd
<1>4. ServedFd.pipe # 0
  BY <1>2 DEF DetectorInv, KernelTypes
<1>5. \A f \in FDs : fd_table[f] = ServedFd => f = pfds[NextServed]
  BY <1>1 DEF DetectorInv, EndsAreUnique, ServedFd, IsEnd, Kind
<1> QED
  BY <1>2, <1>3, <1>4, <1>5

LEMMA ReadsKeep ==
  ASSUME DetectorInv, NEW t, ReadData(t) \/ ReadNothing \/ ReadBlocks \/ ReadWakes(t),
         UNCHANGED <<main_vars, collectors, shared, pfds, proc, fd_table>>
  PROVE  DetectorInv'
<1>1. CASE ReadData(t)
  BY <1>1, ServedEnd, DeliverKeeps DEF ReadData
<1>2. CASE ReadNothing
  BY <1>2, SamePipesDrain, ReadKeeps DEF ReadNothing
<1>3. CASE ReadWakes(t)
  <2>1. rpc = "blocked" /\ Served /\ reading' = 0 /\ reading \in DOMAIN pipes
    BY <1>3 DEF ReadWakes, DetectorInv, ReceiverTypes
  <2>2. \A f \in FDs : fd_table[f] = ReadEnd(reading) => f = pfds[NextServed]
    BY <2>1 DEF DetectorInv, Blocked
  <2>3. CASE pipes[reading].units # <<>> /\ Deliver(reading, pipes[reading].units, t)
    BY <2>1, <2>2, <2>3, DeliverKeeps
  <2>4. CASE UNCHANGED pipes
    BY <2>1, <2>4, SamePipesDrain, ReadKeeps
  <2> QED
    BY <1>3, <2>3, <2>4 DEF ReadWakes
<1>4. CASE ReadBlocks
  <2>1. /\ UNCHANGED <<fd_table, pipes, exiting, pipe_fds, pipe_count, pipe_mutex, proc>>
        /\ UNCHANGED <<mpc, ring, batch, fresh, closing, collectors, pfds, serving>>
        /\ rpc = "serve" /\ rpc' = "blocked" /\ reading' = ServedFd.pipe
        /\ ServedFd.kind = "rd" /\ pipes[ServedFd.pipe].units = <<>>
    BY <1>4 DEF ReadBlocks, ReceiverGo, main_vars, shared
  <2>2. KernelTypes' /\ SharedTypes' /\ MainTypes' /\ ThreadTypes' /\ EndsAreUnique'
        /\ EndsAreOwned' /\ FreshPipe' /\ ThreadsHaveSlots' /\ OwnPipes' /\ PerfEvents'
        /\ MessagesStayHome' /\ PollSet' /\ Serving'
    BY <2>1, Frame, FreshFrame, ServingFrame DEF DetectorInv, SharedTypes, MainTypes
  <2>3. ReceiverTypes'
    BY <2>1, ServedEnd DEF DetectorInv, ReceiverTypes
  <2>4. NextServed' = NextServed
    BY <2>1 DEF NextServed
  <2>5. Twice(NextServed)
    BY <2>1, NextServedIn DEF DetectorInv, Serving, ServedFd, Kind
  <2>6. Twice(NextServed)'
    BY <2>1, <2>4, <2>5 DEF Twice
  <2>7. Blocked'
    BY <2>1, <2>4, <2>6, ServedEnd DEF Blocked
  <2> QED
    BY <2>2, <2>3, <2>7 DEF DetectorInv
<1> QED
  BY <1>1, <1>2, <1>3, <1>4

LEMMA ReceiverKeeps == ASSUME DetectorInv, Receiver PROVE DetectorInv'
<1>1. UNCHANGED <<main_vars, collectors, proc, fd_table>> /\ ReceiveStep(now)
  BY DEF Receiver, ReceiveStep
<1>2. CASE /\ \/ LoadWeights \/ CheckReceiver \/ Sync \/ SyncFails
              \/ PollPipes \/ PollPipesFails \/ Sweep(now) \/ FreeAll
           /\ UNCHANGED <<reading, pipes>>
  BY <1>1, <1>2, ReceiverMovesKeep, PollPipesKeeps DEF kernel
<1>3. CASE /\ ReadData(now) \/ ReadNothing \/ ReadBlocks \/ ReadWakes(now)
           /\ UNCHANGED <<pfds, shared>>
  BY <1>1, <1>3, ReadsKeep
<1> QED
  BY <1>1, <1>2, <1>3 DEF ReceiveStep

-----------------------------------------------------------------------------
LEMMA DetectorInit == Init => DetectorInv
<1> SUFFICES ASSUME Init PROVE DetectorInv
  OBVIOUS
<1> USE DEF Init, ProcessInit, MainInit, ReceiveInit
<1>1. \A f \in FDs : fd_table[f] = Closed /\ Kind(f) = "closed" /\ ~ IsEnd(f)
  BY DEF Kind, IsEnd, Closed
<1>2. KernelTypes
  <2>1. Closed \in [kind : Kinds, pipe : Nat] /\ Closed.pipe = 0
    BY DEF Closed, Kinds
  <2> QED
    BY <1>1, <2>1 DEF KernelTypes
<1>3. SharedTypes
  <2>1. 0 \in FDs
    BY Bounds DEF FDs
  <2>2. pipe_fds \in [Slots -> [rd : FDs, wr : FDs]]
    BY <2>1
  <2>3. pipe_count \in 0 .. MAX_PIDS
    BY Bounds
  <2> QED
    BY <2>2, <2>3 DEF SharedTypes
<1>4. MainTypes /\ ReceiverTypes /\ ThreadTypes
  BY DEF MainTypes, ReceiverTypes, ThreadTypes, Loop, HoldsPipe
<1>5. EndsAreUnique /\ EndsAreOwned /\ FreshPipe /\ ThreadsHaveSlots
  BY <1>1 DEF EndsAreUnique, EndsAreOwned, FreshPipe, ThreadsHaveSlots, HoldsPipe
<1>6. OwnPipes /\ PerfEvents /\ MessagesStayHome /\ Serving /\ Blocked
  BY DEF OwnPipes, PerfEvents, MessagesStayHome, Serving, Blocked
<1>7. PollSet
  BY Bounds DEF PollSet
<1> QED
  BY <1>2, <1>3, <1>4, <1>5, <1>6, <1>7 DEF DetectorInv

LEMMA DetectorNext == DetectorInv /\ [Next]_vars => DetectorInv'
BY EnvironmentKeeps, MainKeeps, CollectorKeeps, ReceiverKeeps DEF Next

(* The parts of the invariant hold in every reachable state.               *)
THEOREM DetectorInvariant == Spec => []DetectorInv
BY DetectorInit, DetectorNext, PTL DEF Spec

(* The descriptor table, the pipes and the threads' records keep their     *)
(* shape: every number refers to something that exists.                    *)
THEOREM DetectorTypes == Spec => []TypeOK
<1>1. DetectorInv => TypeOK
  <2> SUFFICES ASSUME DetectorInv PROVE TypeOK
    OBVIOUS
  <2>1. fd_table \in [FDs -> Descriptor]
    <3>1. ASSUME NEW f \in FDs PROVE fd_table[f] \in Descriptor
      <4>1. fd_table[f] \in [kind : Kinds, pipe : Nat]
        BY DEF DetectorInv, KernelTypes
      <4>2. IF IsEnd(f) THEN fd_table[f].pipe \in DOMAIN pipes ELSE fd_table[f].pipe = 0
        BY DEF DetectorInv, KernelTypes
      <4>3. CASE fd_table[f].kind \in {"closed", "perf"}
        <5>1. fd_table[f] = Closed \/ fd_table[f] = PerfEvent
          BY <4>1, <4>2, <4>3 DEF IsEnd, Kind, Closed, PerfEvent
        <5> QED
          BY <5>1 DEF Descriptor
      <4>4. CASE fd_table[f].kind \in {"rd", "wr"}
        <5> DEFINE p == fd_table[f].pipe
        <5>1. p \in DOMAIN pipes /\ fd_table[f] \in {ReadEnd(p), WriteEnd(p)}
          BY <4>1, <4>2, <4>4 DEF IsEnd, Kind, ReadEnd, WriteEnd
        <5> QED
          BY <5>1 DEF Descriptor
      <4> QED
        BY <4>1, <4>3, <4>4 DEF Kinds
    <3> QED
      BY <3>1 DEF DetectorInv, KernelTypes
  <2>2. \A c \in DOMAIN collectors :
          /\ collectors[c] \in [pid : PIDs, pipe_fd : FDs, pipe : DOMAIN pipes,
               pc : {"open", "sample", "close", "done", "failed"},
               fds : Seq(FDs), batch : 1 .. BATCHES + 1]
          /\ Len(collectors[c].fds) <= TOTAL_EVENTS
    <3> TAKE c \in DOMAIN collectors
    <3>1. collectors[c] \in Thread /\ collectors[c].pipe \in DOMAIN pipes
          /\ ThreadState(collectors[c])
      BY DEF DetectorInv, ThreadTypes
    <3>2. Len(collectors[c].fds) \in Nat
      BY <3>1 DEF Thread
    <3> QED
      BY <3>1, <3>2, Bounds DEF Thread, ThreadState
  <2> QED
    BY <2>1, <2>2
       DEF DetectorInv, TypeOK, KernelTypes, SharedTypes, MainTypes, ReceiverTypes, Loop,
           Pipe, Unit
<1> QED
  BY <1>1, DetectorInvariant, PTL

(* Whatever fails, every thread that was created is listened to until      *)
(* cleanup_pipes starts.                                                   *)
THEOREM ThreadsAreListenedTo == Spec => []ThreadsArePolled
<1>1. DetectorInv => ThreadsArePolled
  BY DEF DetectorInv, ThreadsArePolled, ThreadsHaveSlots, PollSet, BeforeCleanup, MainTypes,
         Registered, Loop
<1> QED
  BY <1>1, DetectorInvariant, PTL

(* The numbers a thread writes to are reused, its messages stay in the     *)
(* pipe that was made for it.                                              *)
THEOREM MessagesAreHome == Spec => []MessagesStayHome
<1>1. DetectorInv => MessagesStayHome
  BY DEF DetectorInv
<1> QED
  BY <1>1, DetectorInvariant, PTL

(* The receiver only ever waits in a read() if a number was closed and     *)
(* given out again, and so is polled twice.                                *)
THEOREM BlocksForReuse == Spec => []BlocksOnReuseOnly
<1>1. DetectorInv => BlocksOnReuseOnly
  BY NextServedIn DEF DetectorInv, Blocked, BlocksOnReuseOnly, Twice
<1> QED
  BY <1>1, DetectorInvariant, PTL

(* cleanup_pipes reaches every pipe: none is open when main has returned.  *)
THEOREM NoPipeSurvives == Spec => []PipesClosedAtExit
<1>1. DetectorInv => PipesClosedAtExit
  BY DEF DetectorInv, PipesClosedAtExit, MainTypes, EndsAreOwned, KernelTypes, IsEnd, Kind,
         Kinds
<1> QED
  BY <1>1, DetectorInvariant, PTL

(* SIGPIPE ends the process in cleanup_pipes or not at all.                *)
THEOREM NoSigpipeBefore == Spec => []KilledInCleanupOnly
<1>1. DetectorInv => KilledInCleanupOnly
  BY DEF DetectorInv, MainTypes, KilledInCleanupOnly
<1> QED
  BY <1>1, DetectorInvariant, PTL

-----------------------------------------------------------------------------
(* What has been delivered is in the table.  The parts that the receiver   *)
(* alone writes are apart from what the other threads do: they add pipes   *)
(* and threads, and neither take back a delivery nor change whose pipe it  *)
(* came through.                                                           *)
FiledInv ==
  /\ now \in Nat
  /\ data_table \in Tables(DataNode) /\ WellFiled(data_table)

(* DeliveredIsFiled, of one step.                                          *)
StaysFiled ==
  \A p \in DOMAIN pipes :
    /\ pipes'[p].got # pipes[p].got => Filed(p)'
    /\ pipes[p].got # <<>> /\ Filed(p) /\ ~ Filed(p)' =>
         rpc = "free" \/ (rpc = "sweep" /\ Outdated(p))

(* The newest message of pipe p, in the node of a PID.                     *)
Holds(table, pid, message) ==
  Known(table, pid) /\ message \in Range(NodeOf(table, pid).data)

OthersOnly ==
  /\ \A p \in DOMAIN pipes : pipes'[p].got = pipes[p].got
  /\ \A c \in DOMAIN collectors :
       /\ c \in DOMAIN collectors'
       /\ collectors'[c].pid = collectors[c].pid
       /\ collectors'[c].pipe = collectors[c].pipe

LEMMA FiledIs ==
  \A p : Filed(p) <=>
    \E c \in DOMAIN collectors :
      /\ collectors[c].pipe = p
      /\ Holds(data_table, collectors[c].pid, Last(pipes[p].got))
BY DEF Filed, Holds

LEMMA EmptyIsFiled == EmptyTable \in Tables(DataNode) /\ WellFiled(EmptyTable)
<1>1. \A b \in Buckets : EmptyTable[b] = <<>> /\ DOMAIN EmptyTable[b] = {}
  BY DEF EmptyTable
<1> QED
  BY <1>1 DEF EmptyTable, Tables, WellFiled

LEMMA RangeGrows ==
  ASSUME NEW S, NEW s \in Seq(S), NEW x \in S, NEW y
  PROVE  /\ x \in Range(Append(s, x))
         /\ y \in Range(s) => y \in Range(Append(s, x))
<1>1. /\ DOMAIN s = 1 .. Len(s) /\ Len(s) \in Nat
      /\ DOMAIN Append(s, x) = 1 .. Len(s) + 1
      /\ Append(s, x)[Len(s) + 1] = x
      /\ \A k \in 1 .. Len(s) : Append(s, x)[k] = s[k]
  OBVIOUS
<1>2. Len(s) + 1 \in DOMAIN Append(s, x) /\ DOMAIN s \subseteq DOMAIN Append(s, x)
  BY <1>1
<1> QED
  BY <1>1, <1>2 DEF Range

(* Tables that keep what they hold for every PID, or are swept or freed,   *)
(* in a step that delivers nothing.                                        *)
LEMMA FiledFrame ==
  ASSUME OthersOnly, now' \in Nat,
         data_table' \in Tables(DataNode), WellFiled(data_table'),
         \A c \in DOMAIN collectors : \A message :
           Holds(data_table, collectors[c].pid, message) =>
             \/ Holds(data_table', collectors[c].pid, message)
             \/ rpc = "free"
             \/ /\ rpc = "sweep"
                /\ now - NodeOf(data_table, collectors[c].pid).timestamp >= STALE_SECS
  PROVE  FiledInv' /\ StaysFiled
<1>1. ASSUME NEW p \in DOMAIN pipes, Filed(p), ~ Filed(p)'
      PROVE  rpc = "free" \/ (rpc = "sweep" /\ Outdated(p))
  <2>1. PICK c \in DOMAIN collectors :
          collectors[c].pipe = p /\ Holds(data_table, collectors[c].pid, Last(pipes[p].got))
    BY <1>1, FiledIs
  <2>2. ~ Holds(data_table', collectors[c].pid, Last(pipes[p].got))
    BY <1>1, <2>1 DEF Filed, Holds, OthersOnly
  <2> QED
    BY <2>1, <2>2 DEF Outdated
<1> QED
  BY <1>1 DEF FiledInv, StaysFiled, OthersOnly

LEMMA OthersFile ==
  ASSUME FiledInv, OthersOnly, now' \in Nat, UNCHANGED receive_vars
  PROVE  FiledInv' /\ StaysFiled
BY FiledFrame DEF receive_vars, FiledInv

LEMMA NothingNew ==
  ASSUME UNCHANGED <<pipes, collectors>> PROVE OthersOnly
BY DEF OthersOnly

LEMMA MainFiles ==
  ASSUME DetectorInv, FiledInv, Main
  PROVE  FiledInv' /\ StaysFiled
<1>1. UNCHANGED receive_vars /\ now' \in Nat
  BY DEF Main, MainStep, FiledInv
<1>2. OthersOnly
  <2>1. CASE HandlePipe
    <3>1. \/ UNCHANGED pipes
          \/ pipes' = Append(pipes, [units |-> <<>>, sent |-> 0, got |-> <<>>])
      BY <2>1 DEF HandlePipe
    <3>2. UNCHANGED collectors /\ pipes \in Seq(Pipe)
      BY <2>1 DEF HandlePipe, DetectorInv, KernelTypes
    <3>3. ASSUME pipes' = Append(pipes, [units |-> <<>>, sent |-> 0, got |-> <<>>]),
                 NEW p \in DOMAIN pipes
          PROVE  pipes'[p].got = pipes[p].got
      BY <3>2, <3>3
    <3> QED
      BY <3>1, <3>2, <3>3 DEF OthersOnly
  <2>2. CASE Spawn
    <3>1. /\ UNCHANGED pipes /\ collectors \in Seq(Thread)
          /\ collectors' = Append(collectors, NewCollector(fresh.pid, fresh.wr, fresh.pipe))
      BY <2>2 DEF Spawn, kernel, DetectorInv, ThreadTypes
    <3>2. DOMAIN collectors \subseteq DOMAIN collectors'
          /\ \A c \in DOMAIN collectors : collectors'[c] = collectors[c]
      BY <3>1
    <3> QED
      BY <3>1, <3>2 DEF OthersOnly
  <2>3. CASE ~ HandlePipe /\ ~ Spawn
    <3>1. UNCHANGED <<pipes, collectors>>
      BY <2>3 DEF Main, MainStep, CheckExiting, Poll, PollFails, HandleEvent, HandleRecent,
         RegisterFull, Register, SpawnFails, GiveUp, FreeTables, CleanUp, LockPipes,
         ClosePipe, UnlockPipes, Return, kernel, others
    <3> QED
      BY <3>1, NothingNew
  <2> QED
    BY <2>1, <2>2, <2>3
<1> QED
  BY <1>1, <1>2, OthersFile

LEMMA CollectorFiles ==
  ASSUME DetectorInv, FiledInv, NEW c \in DOMAIN collectors, Collector(c)
  PROVE  FiledInv' /\ StaysFiled
<1>1. /\ UNCHANGED receive_vars /\ now' \in Nat
      /\ OpenEvent(c) \/ WriteBatch(c, reading) \/ CloseEvent(c)
  BY DEF Collector, CollectorStep, main_vars, FiledInv
<1>2. collectors[c] \in Thread /\ collectors \in Seq(Thread) /\ pipes \in Seq(Pipe)
  BY ThreadFields DEF DetectorInv, ThreadTypes, KernelTypes
<1>3. /\ DOMAIN collectors' = DOMAIN collectors
      /\ \A d \in DOMAIN collectors :
           /\ collectors'[d].pid = collectors[d].pid
           /\ collectors'[d].pipe = collectors[d].pipe
  <2>1. ASSUME NEW fds, NEW pc, collectors' = [collectors EXCEPT ![c].fds = fds, ![c].pc = pc]
        PROVE  <1>3!1 /\ <1>3!2
    BY <1>2, <2>1 DEF Thread
  <2>2. CASE collectors' = [collectors EXCEPT ![c].pc = "failed"]
    BY <1>2, <2>2 DEF Thread
  <2>3. CASE collectors' = Advance(c)
    BY <1>2, <2>3 DEF Advance, Thread
  <2>4. CASE UNCHANGED collectors
    BY <2>4
  <2>5. \/ \E fds, pc : collectors' = [collectors EXCEPT ![c].fds = fds, ![c].pc = pc]
        \/ collectors' = [collectors EXCEPT ![c].pc = "failed"]
        \/ collectors' = Advance(c) \/ UNCHANGED collectors
    BY <1>1, Zenon DEF OpenEvent, CloseEvent, WriteBatch
  <2> QED
    BY <2>1, <2>2, <2>3, <2>4, <2>5
<1>4. ASSUME NEW p \in DOMAIN pipes PROVE pipes'[p].got = pipes[p].got
  <2>1. CASE UNCHANGED pipes
    BY <2>1
  <2>2. ASSUME NEW q, NEW units, NEW sent,
               pipes' = [pipes EXCEPT ![q].units = units, ![q].sent = sent]
        PROVE  pipes'[p].got = pipes[p].got
    BY <1>2, <2>2 DEF Pipe
  <2>3. \/ UNCHANGED pipes
        \/ \E q, units, sent : pipes' = [pipes EXCEPT ![q].units = units, ![q].sent = sent]
    <3>1. CASE OpenEvent(c) \/ CloseEvent(c)
      BY <3>1 DEF OpenEvent, CloseEvent
    <3>2. CASE WriteBatch(c, reading)
      <4> DEFINE q == fd_table[collectors[c].pipe_fd].pipe
                 more(length) == pipes[q].units \o
                                   UnitsOf(collectors[c].pid, collectors[c].batch, length)
      <4>1. \/ UNCHANGED pipes
            \/ \E length \in MSG_UNITS :
                 pipes' = [pipes EXCEPT ![q].units = more(length), ![q].sent = pipes[q].sent + 1]
        BY <3>2 DEF WriteBatch
      <4> QED
        BY <4>1, Zenon
    <3> QED
      BY <1>1, <3>1, <3>2
  <2> QED
    BY <2>1, <2>2, <2>3
<1>5. OthersOnly
  BY <1>3, <1>4 DEF OthersOnly
<1> QED
  BY <1>1, <1>5, OthersFile

(* What a read did: its message, if it was stored, is in the node of the   *)
(* PID whose thread wrote it, and nothing else was touched.                *)
LEMMA DeliveryIsFiled ==
  ASSUME DetectorInv, FiledInv, NEW p \in DOMAIN pipes, pipes[p].units # <<>>,
         Deliver(p, pipes[p].units, now),
         UNCHANGED <<collectors, now>>
  PROVE  FiledInv' /\ StaysFiled
<1> DEFINE header == Head(pipes[p].units)
<1>1. /\ pipes \in Seq(Pipe) /\ pipes[p] \in Pipe /\ pipes[p].units \in Seq(Unit)
      /\ pipes[p].got \in Seq(1 .. BATCHES) /\ header \in Unit /\ now \in Nat
  <2>1. pipes \in Seq(Pipe) /\ pipes[p] \in Pipe
    BY DEF DetectorInv, KernelTypes
  <2> QED
    BY <2>1, TheMainAssumption DEF Pipe, FiledInv
<1>2. \A got : Drained(p, got) =>
        /\ DOMAIN pipes' = DOMAIN pipes /\ pipes'[p].got = got
        /\ \A q \in DOMAIN pipes \ {p} : pipes'[q] = pipes[q]
  <2> SUFFICES ASSUME NEW got, Drained(p, got)
               PROVE  /\ DOMAIN pipes' = DOMAIN pipes /\ pipes'[p].got = got
                      /\ \A q \in DOMAIN pipes \ {p} : pipes'[q] = pipes[q]
    OBVIOUS
  <2>1. PICK new : new = [pipes[p] EXCEPT !.units = Left(pipes[p].units), !.got = got]
    OBVIOUS
  <2>2. new.got = got
    BY <1>1, <2>1 DEF Pipe
  <2> QED
    BY <1>1, <2>1, <2>2 DEF Drained
<1>3. CASE ~ header.head
  <2>1. UNCHANGED data_table /\ Drained(p, pipes[p].got)
    BY <1>3 DEF Deliver, Header, Drained
  <2>2. OthersOnly
    BY <1>2, <2>1 DEF OthersOnly
  <2> QED
    BY <2>1, <2>2, FiledFrame DEF FiledInv
<1>4. CASE header.head
  <2>1. PICK o \in add_data_to_pid(data_table, header.pid, header.batch, now) :
          /\ data_table' = o.table
          /\ Drained(p, IF o.rc = 0 THEN Append(pipes[p].got, header.batch)
                        ELSE pipes[p].got)
    BY <1>4 DEF Deliver, Header, Drained
  <2>2. header.pid \in PIDs /\ header.batch \in Nat /\ header.batch \in 1 .. BATCHES
    BY <1>1, Bounds DEF Unit
  <2> DEFINE new == NodeOf(data_table', header.pid)
  <2>3. /\ Touches(header.pid, data_table, data_table') /\ o.rc \in {0, -1}
        /\ o.rc = 0 => /\ Known(data_table', header.pid)
                       /\ new.data = Append(Before(data_table, header.pid), header.batch)
        /\ o.rc # 0 /\ Known(data_table', header.pid) =>
             new.data = Before(data_table, header.pid)
    <3>1. data_table \in Tables(DataNode) /\ WellFiled(data_table) /\ now \in Nat
      BY DEF FiledInv
    <3>2. o \in add_data_to_pid(data_table, header.pid, header.batch, now)
          /\ data_table' = o.table
      BY <2>1
    <3> HIDE DEF header
    <3> QED
      BY <2>2, <3>1, <3>2, AddIs
  <2>4. Before(data_table, header.pid) \in Seq(Nat)
    <3>1. CASE Known(data_table, header.pid)
      BY <2>2, <3>1, LookupFinds, DataNodesHavePIDs, NodeFields DEF Before, FiledInv
    <3>2. CASE ~ Known(data_table, header.pid)
      BY <3>2 DEF Before
    <3> QED
      BY <3>1, <3>2
  <2>5. ASSUME NEW message
        PROVE  /\ Holds(data_table, header.pid, message) =>
                    Holds(data_table', header.pid, message)
               /\ o.rc = 0 => Holds(data_table', header.pid, header.batch)
    <3> DEFINE old == Before(data_table, header.pid)
    <3>1. Holds(data_table, header.pid, message) => message \in Range(old)
      BY DEF Holds, Before
    <3>2. /\ header.batch \in Range(Append(old, header.batch))
          /\ message \in Range(old) => message \in Range(Append(old, header.batch))
      <4> HIDE DEF old, header
      <4> QED
        BY <2>2, <2>4, RangeGrows DEF old
    <3>3. CASE o.rc = 0
      BY <2>3, <3>1, <3>2, <3>3 DEF Holds
    <3>4. CASE o.rc # 0
      <4>1. Known(data_table, header.pid) => Known(data_table', header.pid)
        BY <2>3 DEF Touches
      <4> QED
        BY <2>3, <3>1, <3>4, <4>1 DEF Holds
    <3> QED
      BY <3>3, <3>4
  <2>6. ASSUME NEW pid \in PIDs, NEW message, Holds(data_table, pid, message)
        PROVE  Holds(data_table', pid, message)
    <3>1. CASE pid = header.pid
      BY <2>5, <2>6, <3>1
    <3>2. CASE pid # header.pid
      BY <2>3, <2>6, <3>2 DEF Touches, Holds
    <3> QED
      BY <3>1, <3>2
  <2>7. \A c \in DOMAIN collectors : collectors[c].pid \in PIDs
    BY ThreadFields DEF DetectorInv
  <2>8. ASSUME NEW q \in DOMAIN pipes PROVE
          IF q = p /\ o.rc = 0 THEN Filed(q)'
          ELSE pipes'[q].got = pipes[q].got /\ (Filed(q) => Filed(q)')
    <3>1. CASE q = p /\ o.rc = 0
      <4>1. pipes'[p].got = Append(pipes[p].got, header.batch)
        BY <1>2, <2>1, <3>1
      <4>2. Last(pipes'[p].got) = header.batch
        <5> HIDE DEF header
        <5> QED
          BY <1>1, <2>2, <4>1 DEF Last
      <4>3. 1 \in DOMAIN pipes[p].units /\ pipes[p].units[1] = header
        BY <1>1
      <4>4. PICK c \in DOMAIN collectors :
              collectors[c].pipe = p /\ collectors[c].pid = header.pid
        BY <4>3 DEF DetectorInv, MessagesStayHome
      <4> QED
        BY <2>5, <3>1, <4>2, <4>4 DEF Filed, Holds
    <3>2. CASE q # p \/ o.rc # 0
      <4>1. pipes'[q].got = pipes[q].got
        BY <1>2, <2>1, <3>2
      <4> QED
        BY <2>6, <2>7, <3>2, <4>1 DEF Filed, Holds
    <3> QED
      BY <3>1, <3>2
  <2> QED
    BY <2>3, <2>8, <1>1 DEF FiledInv, Touches, StaysFiled
<1> QED
  BY <1>3, <1>4

(* A sweep takes nothing but outdated nodes.                               *)
LEMMA SweepFiles ==
  ASSUME DetectorInv, FiledInv, Sweep(now), UNCHANGED <<pipes, collectors, now>>
  PROVE  FiledInv' /\ StaysFiled
<1>1. data_table' = cleanup_old_data(data_table, now) /\ rpc = "sweep"
  BY DEF Sweep, ReceiverGo
<1>2. /\ data_table' \in Tables(DataNode) /\ WellFiled(data_table')
      /\ \A p \in PIDs :
           /\ Known(data_table', p) <=>
                Known(data_table, p) /\ ~ Stale(NodeOf(data_table, p), now)
           /\ Known(data_table', p) => NodeOf(data_table', p) = NodeOf(data_table, p)
  BY <1>1, SweepIs, DataNodesHavePIDs DEF FiledInv
<1>3. \A c \in DOMAIN collectors : collectors[c].pid \in PIDs
  BY ThreadFields DEF DetectorInv
<1>4. \A c \in DOMAIN collectors : \A message :
        Holds(data_table, collectors[c].pid, message) =>
          \/ Holds(data_table', collectors[c].pid, message)
          \/ now - NodeOf(data_table, collectors[c].pid).timestamp >= STALE_SECS
  BY <1>2, <1>3 DEF Holds, Stale
<1>5. OthersOnly
  BY NothingNew
<1> QED
  BY <1>1, <1>2, <1>4, <1>5, FiledFrame DEF FiledInv

LEMMA ReceiverFiles ==
  ASSUME DetectorInv, FiledInv, Receiver
  PROVE  FiledInv' /\ StaysFiled
<1>1. UNCHANGED <<collectors, now>> /\ now' \in Nat /\ ReceiveStep(now)
  BY DEF Receiver, main_vars, FiledInv
<1>2. CASE /\ \/ LoadWeights \/ CheckReceiver \/ Sync \/ SyncFails
              \/ PollPipes \/ PollPipesFails
           /\ UNCHANGED <<reading, pipes>>
  <2>1. UNCHANGED data_table
    BY <1>2 DEF LoadWeights, CheckReceiver, Sync, SyncFails, PollPipes, PollPipesFails
  <2>2. OthersOnly
    BY <1>1, <1>2, NothingNew
  <2> QED
    BY <1>1, <2>1, <2>2, FiledFrame DEF FiledInv
<1>3. CASE Sweep(now) /\ UNCHANGED pipes
  BY <1>1, <1>3, SweepFiles
<1>4. CASE FreeAll /\ UNCHANGED pipes
  <2>1. data_table' = EmptyTable /\ rpc = "free"
    BY <1>4 DEF FreeAll, cleanup_all_data, ReceiverGo
  <2>2. EmptyTable \in Tables(DataNode) /\ WellFiled(EmptyTable)
    BY EmptyIsFiled
  <2>3. OthersOnly
    BY <1>1, <1>4, NothingNew
  <2> QED
    BY <1>1, <2>1, <2>2, <2>3, FiledFrame
<1>5. CASE ReadData(now)
  BY <1>1, <1>5, ServedEnd, DeliveryIsFiled DEF ReadData
<1>6. CASE ReadNothing \/ ReadBlocks
  <2>1. UNCHANGED <<data_table, pipes>>
    BY <1>6 DEF ReadNothing, ReadBlocks
  <2> QED
    BY <1>1, <2>1, NothingNew, FiledFrame DEF FiledInv
<1>7. CASE ReadWakes(now)
  <2>1. reading \in DOMAIN pipes
    BY <1>7 DEF ReadWakes, DetectorInv, ReceiverTypes
  <2>2. CASE pipes[reading].units # <<>> /\ Deliver(reading, pipes[reading].units, now)
    BY <1>1, <2>1, <2>2, DeliveryIsFiled
  <2>3. CASE UNCHANGED <<data_table, pipes>>
    BY <1>1, <2>1, <2>3, NothingNew, FiledFrame DEF FiledInv
  <2> QED
    BY <1>7, <2>2, <2>3 DEF ReadWakes
<1> QED
  BY <1>1, <1>2, <1>3, <1>4, <1>5, <1>6, <1>7 DEF ReceiveStep

LEMMA FiledInit == Init => FiledInv
BY EmptyIsFiled DEF Init, MainInit, ReceiveInit, FiledInv

LEMMA FiledNext ==
  ASSUME DetectorInv, FiledInv, [Next]_vars PROVE FiledInv' /\ StaysFiled
<1>1. CASE Captures \/ Interrupt \/ Clock
  <2>1. /\ UNCHANGED <<pipes, collectors, receive_vars>>
    BY <1>1 DEF Captures, Interrupt, Clock, Exec, Signal, Tick, others, kernel
  <2>2. now' = now \/ (now < MAX_TIME /\ now' = now + 1)
    BY <1>1 DEF Captures, Interrupt, Clock, Exec, Signal, Tick, main_vars
  <2>3. now' \in Nat
    BY <2>2 DEF FiledInv
  <2> QED
    BY <2>1, <2>3, NothingNew, OthersFile
<1>2. CASE UNCHANGED vars
  <2>1. UNCHANGED <<now, pipes, collectors, receive_vars>>
    BY <1>2 DEF vars, main_vars, kernel
  <2> QED
    BY <2>1, NothingNew, OthersFile DEF FiledInv
<1> QED
  BY <1>1, <1>2, MainFiles, CollectorFiles, ReceiverFiles DEF Next, Stopped

(* Nothing delivered is forgotten while it is young: a message that was    *)
(* delivered is in the node of the PID whose thread sent it, whatever      *)
(* allocation fails and whoever shares the bucket, until receive_thread's  *)
(* sweep finds that node outdated or the thread ends.                      *)
THEOREM DeliveriesAreFiled == Spec => DeliveredIsFiled
<1>1. DetectorInv /\ FiledInv /\ [Next]_vars => FiledInv' /\ [StaysFiled]_vars
  BY FiledNext
<1> QED
  BY <1>1, FiledInit, DetectorInvariant, PTL DEF Spec, DeliveredIsFiled, StaysFiled
=============================================================================
