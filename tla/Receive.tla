------------------------------- MODULE Receive -------------------------------
(***************************************************************************)
(* receive_thread of receive.c: one thread that polls the read end of      *)
(* every registered pipe, files what it reads under the PID of its header  *)
(* and drops what has no header.                                           *)
(*                                                                         *)
(* rpc is where the thread is:                                             *)
(*   load     in load_weights                                              *)
(*   check    at the head of the loop, about to read exiting               *)
(*   sync     before the locked section that extends pfds                  *)
(*   poll     in poll()                                                    *)
(*   serve    going through the poll results                               *)
(*   blocked  in a read() of a pipe that is empty and has a writer         *)
(*   sweep    about to call cleanup_old_data                               *)
(*   free     past the loop                                                *)
(*   ended                                                                 *)
(* Each message is classified when it is stored (Inference).               *)
(***************************************************************************)
EXTENDS Process, DataTable

VARIABLES
  rpc,
  pfds,       (* the descriptors polled, in slot order                     *)
  serving,    (* indices of pfds with POLLIN still to be served            *)
  reading,    (* the pipe a blocked read() holds, 0 for none               *)
  data_table

receive_vars == <<rpc, pfds, serving, reading, data_table>>

ReceiveInit ==
  /\ rpc = "load"
  /\ pfds = <<>>
  /\ serving = {}
  /\ reading = 0
  /\ data_table = EmptyTable

ReceiverGo(from, to) == Running /\ rpc = from /\ rpc' = to

LoadWeights ==
  /\ \/ ReceiverGo("load", "check")
     \/ Fails("weights") /\ ReceiverGo("load", "ended")
  /\ UNCHANGED <<pfds, serving, data_table, shared>>

CheckReceiver ==
  /\ ReceiverGo("check", IF exiting THEN "free" ELSE "sync")
  /\ UNCHANGED <<pfds, serving, data_table, shared>>

(* A poll set that never grows.                                            *)
SlotsOnce ==
  [k \in 1 .. IF pfds = <<>> THEN pipe_count ELSE 0 |-> pipe_fds[k - 1].rd]

(* The new slots since the last round, in slot order.                      *)
NewSlots ==
  [k \in 1 .. pipe_count - Len(pfds) |-> pipe_fds[Len(pfds) + k - 1].rd]

(* The locked section; without any pipe there is nothing to poll.          *)
Sync ==
  /\ MutexFree
  /\ pfds' = IF Len(pfds) < pipe_count THEN pfds \o NewSlots ELSE pfds
  /\ ReceiverGo("sync", IF pfds' = <<>> THEN "sweep" ELSE "poll")
  /\ UNCHANGED <<serving, data_table, shared>>

(* A break that forgets the mutex.                                         *)
BreakLocked == pipe_mutex' = "receiver"

BreakUnlocked == pipe_mutex' = "free"

(* realloc fails: unlock and leave the loop, with pfds overwritten by NULL. *)
SyncFails ==
  /\ Fails("pollfd") /\ MutexFree
  /\ ReceiverGo("sync", "free")
  /\ Len(pfds) < pipe_count
  /\ pfds' = <<>>
  /\ BreakUnlocked
  /\ UNCHANGED <<serving, data_table, exiting, pipe_fds, pipe_count>>

(* revents is not looked at.                                               *)
AllPolled == DOMAIN pfds

Announced == {i \in DOMAIN pfds : Readable(pfds[i])}

PollPipes ==
  /\ rpc = "poll"
  /\ serving' = Announced
  /\ ReceiverGo("poll", IF serving' = {} THEN "sweep" ELSE "serve")
  /\ UNCHANGED <<pfds, data_table, shared>>

(* poll() fails, with EINTR if this thread is the one that runs the signal *)
(* handler, or for want of memory: the thread leaves its loop.             *)
PollPipesFails ==
  /\ exiting \/ Fails("rpoll")
  /\ ReceiverGo("poll", "free")
  /\ UNCHANGED <<pfds, serving, data_table, shared>>

-----------------------------------------------------------------------------
(* Serving one descriptor.                                                 *)

NextServed == Min(serving)

Served ==
  /\ serving' = serving \ {NextServed}
  /\ rpc' = IF serving' = {} THEN "sweep" ELSE "serve"

(* The newest header of what was read, not the first.                      *)
NewestHeader(units) ==
  LET heads == {i \in DOMAIN Taken(units) : units[i].head}
  IN  IF heads = {} THEN Head(units) ELSE units[Max(heads)]

(* What sscanf looks at.                                                   *)
Header(units) == Head(units)

(* The rest of the round for what a read() of pipe p returned: filed under *)
(* the PID it begins with, dropped if it does not begin with one.          *)
Deliver(p, units, t) ==
  LET header == Header(units)
      Rest(got) == pipes' = [pipes EXCEPT ![p].units = Left(units), ![p].got = got]
  IN  IF header.head
      THEN \E o \in add_data_to_pid(data_table, header.pid, header.batch, t) :
             /\ data_table' = o.table
             /\ Rest(IF o.rc = 0 THEN Append(pipes[p].got, header.batch)
                     ELSE pipes[p].got)
      ELSE UNCHANGED data_table /\ Rest(pipes[p].got)

ServedFd == fd_table[pfds[NextServed]]

ReadData(t) ==
  /\ Running /\ rpc = "serve"
  /\ ServedFd.kind = "rd" /\ pipes[ServedFd.pipe].units # <<>>
  /\ Deliver(ServedFd.pipe, pipes[ServedFd.pipe].units, t)
  /\ Served
  /\ UNCHANGED reading

(* The number was closed since poll(), or means a perf event or a write    *)
(* end by now, or the pipe is at its end: no text with a header comes back. *)
ReadNothing ==
  /\ Running /\ rpc = "serve"
  /\ ServedFd.kind = "rd" =>
       pipes[ServedFd.pipe].units = <<>> /\ ~ HasWriter(ServedFd.pipe)
  /\ Served
  /\ UNCHANGED <<reading, data_table, pipes>>

ReadBlocks ==
  /\ ReceiverGo("serve", "blocked")
  /\ ServedFd.kind = "rd"
  /\ pipes[ServedFd.pipe].units = <<>> /\ HasWriter(ServedFd.pipe)
  /\ reading' = ServedFd.pipe
  /\ UNCHANGED <<serving, data_table, pipes>>

ReadWakes(t) ==
  /\ Running /\ rpc = "blocked"
  /\ \/ /\ pipes[reading].units # <<>>
        /\ Deliver(reading, pipes[reading].units, t)
     \/ /\ pipes[reading].units = <<>> /\ ~ HasWriter(reading)
        /\ UNCHANGED <<data_table, pipes>>
  /\ reading' = 0
  /\ Served

-----------------------------------------------------------------------------
Sweep(t) ==
  /\ ReceiverGo("sweep", "check")
  /\ data_table' = cleanup_old_data(data_table, t)
  /\ UNCHANGED <<pfds, serving, shared>>

FreeAll ==
  /\ ReceiverGo("free", "ended")
  /\ pfds' = <<>>
  /\ data_table' = cleanup_all_data(data_table)
  /\ UNCHANGED <<serving, shared>>

ReceiveStep(t) ==
  /\ \/ /\ \/ LoadWeights \/ CheckReceiver \/ Sync \/ SyncFails
           \/ PollPipes \/ PollPipesFails \/ Sweep(t) \/ FreeAll
        /\ UNCHANGED <<reading, pipes>>
     \/ /\ ReadData(t) \/ ReadNothing \/ ReadBlocks \/ ReadWakes(t)
        /\ UNCHANGED <<pfds, shared>>
  /\ UNCHANGED <<proc, fd_table>>
=============================================================================
