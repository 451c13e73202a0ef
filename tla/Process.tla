------------------------------- MODULE Process -------------------------------
(***************************************************************************)
(* What the threads of the detector share: the variables of common.h, and  *)
(* the descriptor table and the pipes the kernel keeps for the process.    *)
(*                                                                         *)
(* A pipe is a record: units is its content, in pieces a read() may split  *)
(* a message into, sent the number of messages written to it, and got the  *)
(* history of the messages the receiver stored from it.  Pipes are named   *)
(* by the order of their creation; descriptors are numbers, and the kernel *)
(* hands out the lowest free one, so a closed number comes back.           *)
(***************************************************************************)
EXTENDS Integers, Sequences, FiniteSetsExt

CONSTANTS
  NOFILE,     (* descriptors left for pipes and perf events               *)
  MAX_PIDS,   (* slots of pipe_fds                                        *)
  READ_UNITS, (* what one read() takes: sizeof(buffer) - 1 = 1023 bytes   *)
  FAULTS      (* calls that may fail in this instance                     *)

ASSUME ProcessAssumption ==
  /\ NOFILE \in Nat \ {0}
  /\ MAX_PIDS \in Nat \ {0}
  /\ READ_UNITS \in Nat \ {0}
  /\ FAULTS \subseteq {"poll", "entry", "pipe", "spawn", "perf_open",
                        "weights", "pollfd", "rpoll"}

VARIABLES
  exiting,     (* set by the signal handler                               *)
  pipe_fds,    (* slot -> descriptors of its pipe                         *)
  pipe_count,
  pipe_mutex,  (* "free", or the thread inside a section modelled in steps *)
  proc,        (* "running", "exited", or "killed" by SIGPIPE             *)
  fd_table,    (* descriptor -> what it refers to                         *)
  pipes

shared == <<exiting, pipe_fds, pipe_count, pipe_mutex>>
kernel == <<proc, fd_table, pipes>>

Slots == 0 .. MAX_PIDS - 1
FDs == 0 .. NOFILE - 1

Closed == [kind |-> "closed", pipe |-> 0]
ReadEnd(p) == [kind |-> "rd", pipe |-> p]
WriteEnd(p) == [kind |-> "wr", pipe |-> p]
PerfEvent == [kind |-> "perf", pipe |-> 0]

ProcessInit ==
  /\ exiting = FALSE
  /\ pipe_fds = [s \in Slots |-> [rd |-> 0, wr |-> 0]]
  /\ pipe_count = 0
  /\ pipe_mutex = "free"
  /\ proc = "running"
  /\ fd_table = [f \in FDs |-> Closed]
  /\ pipes = <<>>

Running == proc = "running"
Fails(call) == call \in FAULTS
MutexFree == pipe_mutex = "free"

-----------------------------------------------------------------------------
(* Descriptors.                                                            *)

Free == {f \in FDs : fd_table[f].kind = "closed"}

LowestFree(free) == CHOOSE f \in free : \A g \in free : f <= g

(* The two numbers pipe() returns.                                         *)
NewPair ==
  LET rd == LowestFree(Free)
  IN  [rd |-> rd, wr |-> LowestFree(Free \ {rd})]

CloseAll(fds) == [f \in FDs |-> IF f \in fds THEN Closed ELSE fd_table[f]]

HasWriter(p) == WriteEnd(p) \in {fd_table[f] : f \in FDs}

(* A descriptor poll() reports POLLIN for: the read end of a pipe that     *)
(* holds data.  A closed number, a hung-up empty pipe and a perf event     *)
(* without a ring buffer report something else.                            *)
Readable(f) ==
  /\ fd_table[f].kind = "rd"
  /\ pipes[fd_table[f].pipe].units # <<>>

-----------------------------------------------------------------------------
(* Messages.                                                               *)

(* The pieces of one message: only the first begins with "[PID: ".         *)
UnitsOf(pid, batch, length) ==
  [i \in 1 .. length |-> [pid |-> pid, batch |-> batch, head |-> i = 1]]

(* What the next read() of a pipe returns, and what it leaves.             *)
Taken(units) == SubSeq(units, 1, Min({READ_UNITS, Len(units)}))
Left(units) == SubSeq(units, Min({READ_UNITS, Len(units)}) + 1, Len(units))
=============================================================================
