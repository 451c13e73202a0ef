------------------------------- MODULE TheMain -------------------------------
(***************************************************************************)
(* The main thread of the_main.c and what drives it: the execve events the *)
(* BPF program puts into the perf buffer, and the signals.                 *)
(*                                                                         *)
(* mpc is where the main thread is:                                        *)
(*   check     at the head of the loop, about to read exiting              *)
(*   poll      about to call perf_buffer__poll                             *)
(*   handle    in handle_event for the next event of the batch             *)
(*   register  in handle_event, with a new pipe, before the lock           *)
(*   spawn     in handle_event, after the unlock                           *)
(*   free      past the loop                                               *)
(*   lock      in cleanup_pipes before the lock                            *)
(*   close     in cleanup_pipes, holding the mutex                         *)
(*   return    about to return from main                                   *)
(***************************************************************************)
EXTENDS Collect, PidTable

CONSTANTS
  RING_SIZE,  (* events the perf buffer holds; more are lost               *)
  MAX_EXECS,  (* bound on the execve calls of a behaviour                  *)
  MAX_TIME    (* bound on the clock                                        *)

ASSUME TheMainAssumption ==
  RING_SIZE \in Nat \ {0} /\ MAX_EXECS \in Nat /\ MAX_TIME \in Nat

VARIABLES
  mpc,
  pid_table,
  ring,     (* PIDs in the perf buffer, oldest first                       *)
  batch,    (* events this perf_buffer__poll still has to deliver          *)
  fresh,    (* the event being handled: its PID and its pipe's descriptors *)
  closing,  (* the close() calls cleanup_pipes still has to make           *)
  execs,
  now

main_vars == <<mpc, pid_table, ring, batch, fresh, closing, execs, now>>
others == <<shared, kernel, collectors>>

Nothing == [pid |-> 0, rd |-> 0, wr |-> 0, pipe |-> 0]

MainInit ==
  /\ mpc = "check"
  /\ pid_table = EmptyTable
  /\ ring = <<>>
  /\ batch = <<>>
  /\ fresh = Nothing
  /\ closing = <<>>
  /\ execs = 0
  /\ now = 0

-----------------------------------------------------------------------------
(* The environment.                                                        *)

(* A buffer that gives up its oldest event for a new one.                  *)
ExecOverwrites(p) ==
  /\ Running /\ execs < MAX_EXECS
  /\ mpc \notin {"lock", "close", "return"}
  /\ execs' = execs + 1
  /\ ring' = IF Len(ring) + Len(batch) < RING_SIZE THEN Append(ring, p)
             ELSE SubSeq(Append(ring, p), 2, Len(ring) + 1)
  /\ UNCHANGED <<mpc, pid_table, batch, fresh, closing, now, others>>

(* trace_execve: bpf_perf_event_output fails without a trace if the buffer *)
(* is full.  Events being delivered still take up their room.              *)
Exec(p) ==
  /\ Running /\ execs < MAX_EXECS
  /\ mpc \notin {"lock", "close", "return"}
  /\ execs' = execs + 1
  /\ ring' = IF Len(ring) + Len(batch) < RING_SIZE THEN Append(ring, p) ELSE ring
  /\ UNCHANGED <<mpc, pid_table, batch, fresh, closing, now, others>>

Signal ==
  /\ Running /\ ~ exiting
  /\ exiting' = TRUE
  /\ UNCHANGED <<main_vars, pipe_fds, pipe_count, pipe_mutex, kernel, collectors>>

Tick ==
  /\ Running /\ now < MAX_TIME
  /\ now' = now + 1
  /\ UNCHANGED <<mpc, pid_table, ring, batch, fresh, closing, execs, others>>

-----------------------------------------------------------------------------
(* The loop of main.                                                       *)

MainAt(pc) == Running /\ mpc = pc
MainGo(from, to) == MainAt(from) /\ mpc' = to

CheckExiting ==
  /\ MainGo("check", IF exiting THEN "free" ELSE "poll")
  /\ UNCHANGED <<pid_table, ring, batch, fresh, closing, others>>

(* What perf_buffer__poll finds: every event that is there when it looks.  *)
Available == ring

(* A signal may interrupt it before it delivers any.                       *)
Poll ==
  /\ batch' \in {Available} \cup {<<>> : s \in {exiting} \cap {TRUE}}
  /\ ring' = IF batch' = <<>> THEN ring ELSE <<>>
  /\ MainGo("poll", IF batch' = <<>> THEN "check" ELSE "handle")
  /\ UNCHANGED <<pid_table, fresh, closing, others>>

PollFails ==
  /\ Fails("poll")
  /\ MainGo("poll", "free")
  /\ UNCHANGED <<pid_table, ring, batch, fresh, closing, others>>

-----------------------------------------------------------------------------
(* handle_event.                                                           *)

(* The next event, or the head of the loop.                                *)
NextEvent ==
  /\ batch' = Tail(batch)
  /\ mpc' = IF batch' = <<>> THEN "check" ELSE "handle"
  /\ fresh' = Nothing

HandleRecent ==
  /\ MainAt("handle")
  /\ IsRecent(pid_table, Head(batch), now)
  /\ NextEvent
  /\ UNCHANGED <<pid_table, others>>

(* is_pid_recent lets the PID through and stamps it, unless a new entry    *)
(* cannot be allocated; pipe() may fail after.                             *)
HandlePipe ==
  /\ MainAt("handle")
  /\ ~ IsRecent(pid_table, Head(batch), now)
  /\ \/ pid_table' = Stamped(pid_table, Head(batch), now)
     \/ /\ Fails("entry") /\ ~ Known(pid_table, Head(batch))
        /\ UNCHANGED pid_table
  /\ \/ /\ Cardinality(Free) >= 2
        /\ LET pair == NewPair
               p == Len(pipes) + 1
           IN  /\ fd_table' = [fd_table EXCEPT ![pair.rd] = ReadEnd(p),
                                               ![pair.wr] = WriteEnd(p)]
               /\ pipes' = Append(pipes, [units |-> <<>>, sent |-> 0, got |-> <<>>])
               /\ fresh' = [pid |-> Head(batch), rd |-> pair.rd,
                            wr |-> pair.wr, pipe |-> p]
        /\ mpc' = "register"
        /\ UNCHANGED batch
     \/ /\ Fails("pipe") \/ Cardinality(Free) < 2
        /\ NextEvent
        /\ UNCHANGED <<fd_table, pipes>>
  /\ UNCHANGED <<proc, shared, collectors>>

(* The write end is forgotten.                                             *)
GivenUpReadEnd == {fresh.rd}

(* What a failure after pipe() closes.                                     *)
GivenUp == {fresh.rd, fresh.wr}

GiveUp ==
  /\ fd_table' = CloseAll(GivenUp)
  /\ NextEvent
  /\ UNCHANGED <<pid_table, shared, proc, pipes, collectors>>

(* The locked section.                                                     *)
RegisterFull == MainAt("register") /\ MutexFree /\ pipe_count >= MAX_PIDS /\ GiveUp

Register ==
  /\ MainGo("register", "spawn") /\ MutexFree
  /\ pipe_count < MAX_PIDS
  /\ pipe_fds' = [pipe_fds EXCEPT
                    ![pipe_count] = [rd |-> fresh.rd, wr |-> fresh.wr]]
  /\ pipe_count' = pipe_count + 1
  /\ UNCHANGED <<pid_table, batch, fresh, exiting, pipe_mutex, kernel, collectors>>

Spawn ==
  /\ MainAt("spawn")
  /\ collectors' = Append(collectors, NewCollector(fresh.pid, fresh.wr, fresh.pipe))
  /\ NextEvent
  /\ UNCHANGED <<pid_table, shared, kernel>>

(* malloc or pthread_create fails: the slot that holds the numbers stays.  *)
SpawnFails == MainAt("spawn") /\ Fails("spawn") /\ GiveUp

HandleEvent ==
  /\ HandleRecent \/ HandlePipe \/ RegisterFull \/ Register \/ Spawn \/ SpawnFails
  /\ UNCHANGED <<ring, closing>>

-----------------------------------------------------------------------------
(* The end of main.                                                        *)

(* perf_buffer__free, program_a_bpf__destroy and cleanup_pid_table.        *)
FreeTables ==
  /\ MainGo("free", "lock")
  /\ ring' = <<>> /\ batch' = <<>> /\ pid_table' = EmptyTable
  /\ UNCHANGED <<fresh, closing, others>>

(* The last slot is forgotten.                                             *)
CloseOrderShort ==
  [k \in 1 .. 2 * (pipe_count - 1) |->
     LET slot == pipe_fds[(k - 1) \div 2]
     IN  IF k % 2 = 1 THEN slot.rd ELSE slot.wr]

(* The descriptors in the order cleanup_pipes closes them.                 *)
CloseOrder ==
  [k \in 1 .. 2 * pipe_count |->
     LET slot == pipe_fds[(k - 1) \div 2]
     IN  IF k % 2 = 1 THEN slot.rd ELSE slot.wr]

LockPipes ==
  /\ MainGo("lock", "close") /\ MutexFree
  /\ pipe_mutex' = "main"
  /\ closing' = CloseOrder
  /\ UNCHANGED <<exiting, pipe_fds, pipe_count, kernel>>

ClosePipe ==
  /\ MainGo("close", "close") /\ closing # <<>>
  /\ fd_table' = CloseAll({Head(closing)})
  /\ closing' = Tail(closing)
  /\ UNCHANGED <<shared, proc, pipes>>

UnlockPipes ==
  /\ MainGo("close", "return") /\ closing = <<>>
  /\ pipe_count' = 0
  /\ pipe_mutex' = "free"
  /\ UNCHANGED <<closing, exiting, pipe_fds, kernel>>

(* The other threads are detached: they end where they are.                *)
Return ==
  /\ MainGo("return", "return")
  /\ proc' = "exited"
  /\ UNCHANGED <<closing, shared, fd_table, pipes>>

CleanUp ==
  /\ LockPipes \/ ClosePipe \/ UnlockPipes \/ Return
  /\ UNCHANGED <<pid_table, ring, batch, fresh, collectors>>

MainStep ==
  /\ CheckExiting \/ Poll \/ PollFails \/ HandleEvent \/ FreeTables \/ CleanUp
  /\ UNCHANGED <<execs, now>>
=============================================================================
