--------------------------- MODULE NoFailureProofs ---------------------------
(***************************************************************************)
(* What the detector's process promises when calls do not fail, for any    *)
(* values of the constants.                                                *)
(*                                                                         *)
(* As long as every thread can be created ("spawn" \notin FAULTS), no      *)
(* slot is left with closed numbers: StrictInv adds to DetectorInv that    *)
(* the registered numbers are open and apart, so none is closed twice,     *)
(* polled twice or taken from a thread.                                    *)
(*                                                                         *)
(* As long as the message table has memory (ALLOC_FAILS = {}), the pipes,  *)
(* partial reads and the poll loop implement the abstract channels of      *)
(* Delivery: OrderInv adds that what a pipe holds lies, in order, between  *)
(* what arrived from it and what was written to it.                        *)
(***************************************************************************)
EXTENDS DetectorProofs

-----------------------------------------------------------------------------
(* Until cleanup_pipes every registered number is open as what it was.     *)
SlotsAreOpen ==
  mpc \in Loop => \A s \in Registered :
    Kind(pipe_fds[s].rd) = "rd" /\ Kind(pipe_fds[s].wr) = "wr"

(* No number stands in two slots, nor twice in one.                        *)
SlotsAreApart ==
  mpc # "return" => \A s, u \in Registered :
    /\ pipe_fds[s].rd # pipe_fds[u].wr
    /\ s # u => pipe_fds[s].rd # pipe_fds[u].rd /\ pipe_fds[s].wr # pipe_fds[u].wr

(* A pipe that is not registered yet has numbers of its own.               *)
FreshApart ==
  mpc = "register" => ~ InSlot(fresh.rd) /\ ~ InSlot(fresh.wr)

(* What cleanup_pipes still has to close is open, and listed once.         *)
ClosingOpen ==
  mpc = "close" =>
    /\ \A k \in DOMAIN closing : IsEnd(closing[k])
    /\ \A k, l \in DOMAIN closing : closing[k] = closing[l] => k = l

(* Every open perf event is known to one thread, and stays open.           *)
PerfOwners ==
  /\ \A c \in DOMAIN collectors : \A i \in DOMAIN collectors[c].fds :
       Kind(collectors[c].fds[i]) = "perf"
  /\ \A c, d \in DOMAIN collectors :
       \A i \in DOMAIN collectors[c].fds, j \in DOMAIN collectors[d].fds :
         collectors[c].fds[i] = collectors[d].fds[j] => c = d /\ i = j
  /\ \A f \in FDs : Kind(f) = "perf" =>
       \E c \in DOMAIN collectors : \E i \in DOMAIN collectors[c].fds : f = collectors[c].fds[i]

(* poll() is given each number once.                                       *)
PolledOnce == \A i, j \in DOMAIN pfds : pfds[i] = pfds[j] => i = j

StrictInv ==
  /\ SlotsAreOpen /\ SlotsAreApart /\ FreshApart /\ ClosingOpen /\ PerfOwners /\ PolledOnce

-----------------------------------------------------------------------------
(* The numbers of the slots and the poll set, and those of the perf        *)
(* events, change in different steps.                                      *)
SlotsInv == SlotsAreOpen /\ SlotsAreApart /\ FreshApart /\ ClosingOpen /\ PolledOnce

LEMMA NumbersAreTyped ==
  ASSUME DetectorInv
  PROVE  /\ \A s \in Registered : pipe_fds[s].rd \in FDs /\ pipe_fds[s].wr \in FDs
         /\ \A k \in DOMAIN closing : closing[k] \in FDs
         /\ mpc \in HoldsPipe => fresh.rd \in FDs /\ fresh.wr \in FDs
BY SlotTypes DEF DetectorInv, MainTypes, FreshPipe

(* A step that leaves the slots and every open end alone.                  *)
LEMMA SlotsStay ==
  ASSUME DetectorInv, SlotsInv,
         UNCHANGED <<mpc, pipe_fds, pipe_count, fresh, closing, pfds>>,
         \A f \in FDs : IsEnd(f) => fd_table'[f] = fd_table[f]
  PROVE  SlotsInv'
<1>1. SlotsAreOpen'
  <2>1. \A f \in FDs : Kind(f) \in {"rd", "wr"} => fd_table'[f] = fd_table[f]
    BY DEF IsEnd
  <2> QED
    BY <2>1, NumbersAreTyped DEF SlotsInv, SlotsAreOpen, Kind, Registered, UpTo
<1>2. SlotsAreApart' /\ FreshApart' /\ PolledOnce'
  BY DEF SlotsInv, SlotsAreApart, FreshApart, PolledOnce, InSlot, Registered, UpTo
<1>3. ClosingOpen'
  BY NumbersAreTyped DEF SlotsInv, ClosingOpen, IsEnd, Kind
<1> QED
  BY <1>1, <1>2, <1>3 DEF SlotsInv

(* A step of the main loop that ends without a new pipe.                   *)
LEMMA SlotsStayInLoop ==
  ASSUME DetectorInv, SlotsInv, mpc \in Loop, mpc' \in Loop \ {"register"},
         UNCHANGED <<pipe_fds, pipe_count, pfds>>,
         \A s \in Registered : /\ fd_table'[pipe_fds[s].rd] = fd_table[pipe_fds[s].rd]
                               /\ fd_table'[pipe_fds[s].wr] = fd_table[pipe_fds[s].wr]
  PROVE  SlotsInv'
<1>1. SlotsAreOpen'
  BY DEF SlotsInv, SlotsAreOpen, Kind, Registered, UpTo
<1>2. SlotsAreApart' /\ PolledOnce'
  BY DEF SlotsInv, SlotsAreApart, PolledOnce, Registered, UpTo, Loop
<1>3. FreshApart' /\ ClosingOpen'
  BY DEF FreshApart, ClosingOpen, Loop
<1> QED
  BY <1>1, <1>2, <1>3 DEF SlotsInv

(* Threads come without perf events, and only perf events matter.          *)
LEMMA PerfStays ==
  ASSUME DetectorInv, PerfOwners, DOMAIN collectors \subseteq DOMAIN collectors',
         \A c \in DOMAIN collectors' :
           IF c \in DOMAIN collectors THEN collectors'[c].fds = collectors[c].fds
           ELSE collectors'[c].fds = <<>>,
         \A f \in FDs : fd_table'[f].kind = "perf" <=> fd_table[f].kind = "perf"
  PROVE  PerfOwners'
<1>1. \A c \in DOMAIN collectors' : \A i \in DOMAIN collectors'[c].fds :
        /\ c \in DOMAIN collectors /\ i \in DOMAIN collectors[c].fds
        /\ collectors'[c].fds[i] = collectors[c].fds[i]
        /\ collectors[c].fds[i] \in FDs
  BY ThreadFields DEF DetectorInv
<1>2. \A c \in DOMAIN collectors' : \A i \in DOMAIN collectors'[c].fds :
        fd_table'[collectors'[c].fds[i]].kind = "perf"
  BY <1>1 DEF PerfOwners, Kind
<1>3. \A c, d \in DOMAIN collectors' :
        \A i \in DOMAIN collectors'[c].fds, j \in DOMAIN collectors'[d].fds :
          collectors'[c].fds[i] = collectors'[d].fds[j] => c = d /\ i = j
  BY <1>1 DEF PerfOwners
<1>4. \A f \in FDs : fd_table'[f].kind = "perf" =>
        \E c \in DOMAIN collectors' : \E i \in DOMAIN collectors'[c].fds :
          f = collectors'[c].fds[i]
  BY DEF PerfOwners, Kind
<1> QED
  BY <1>2, <1>3, <1>4 DEF PerfOwners, Kind


-----------------------------------------------------------------------------
(* The main loop, when every thread can be created.                        *)
LEMMA PerfStaysInMain ==
  ASSUME DetectorInv, PerfOwners, UNCHANGED collectors,
         \A f \in FDs : fd_table'[f].kind = "perf" <=> fd_table[f].kind = "perf"
  PROVE  PerfOwners'
BY PerfStays

LEMMA LoopMovesStay ==
  ASSUME DetectorInv, SlotsInv, PerfOwners, UNCHANGED receive_vars,
         \/ CheckExiting \/ Poll \/ PollFails \/ FreeTables
         \/ HandleRecent
         \/ HandlePipe /\ UNCHANGED <<fd_table, pipes>> /\ NextEvent
  PROVE  SlotsInv' /\ PerfOwners'
<1>1. /\ UNCHANGED <<fd_table, pipe_fds, pipe_count, pfds, collectors>>
      /\ mpc \in Loop /\ mpc' \in Loop \ {"register"}
  BY DEF CheckExiting, Poll, PollFails, FreeTables, HandleRecent, HandlePipe, NextEvent,
         MainGo, MainAt, Loop, others, shared, kernel, receive_vars
<1> QED
  BY <1>1, SlotsStayInLoop, PerfStaysInMain

LEMMA HandlePipeStays ==
  ASSUME DetectorInv, SlotsInv, PerfOwners, HandlePipe, mpc' = "register",
         \E rd, wr \in Free : rd # wr /\ NewPipe(rd, wr),
         UNCHANGED <<closing, receive_vars>>
  PROVE  SlotsInv' /\ PerfOwners'
<1> PICK rd \in Free, wr \in Free : rd # wr /\ NewPipe(rd, wr)
  OBVIOUS
<1> DEFINE p == Len(pipes) + 1
<1>1. /\ UNCHANGED <<pipe_fds, pipe_count, collectors, pfds>>
      /\ mpc = "handle" /\ mpc' = "register" /\ mpc \in Loop
  BY DEF HandlePipe, MainAt, shared, receive_vars, Loop
<1>2. /\ rd \in FDs /\ wr \in FDs /\ Kind(rd) = "closed" /\ Kind(wr) = "closed"
      /\ fresh'.rd = rd /\ fresh'.wr = wr
  BY DEF Free, Kind, NewPipe
<1>3. /\ fd_table'[rd].kind = "rd" /\ fd_table'[wr].kind = "wr"
      /\ \A f \in FDs \ {rd, wr} : fd_table'[f] = fd_table[f]
  <2>1. fd_table' = [fd_table EXCEPT ![rd] = ReadEnd(p), ![wr] = WriteEnd(p)]
    BY DEF NewPipe
  <2>2. ReadEnd(p).kind = "rd" /\ WriteEnd(p).kind = "wr"
    BY DEF ReadEnd, WriteEnd
  <2> QED
    BY <1>2, <2>1, <2>2 DEF DetectorInv, KernelTypes
<1>4. \A s \in Registered : /\ pipe_fds[s].rd \in FDs \ {rd, wr}
                            /\ pipe_fds[s].wr \in FDs \ {rd, wr}
  BY <1>1, <1>2, NumbersAreTyped DEF SlotsInv, SlotsAreOpen
<1>5. SlotsAreOpen'
  BY <1>1, <1>3, <1>4 DEF SlotsInv, SlotsAreOpen, Kind, Registered, UpTo
<1>6. SlotsAreApart' /\ PolledOnce'
  BY <1>1 DEF SlotsInv, SlotsAreApart, PolledOnce, Registered, UpTo
<1>7. FreshApart' /\ ClosingOpen'
  BY <1>1, <1>2, <1>4 DEF FreshApart, InSlot, ClosingOpen, Registered, UpTo
<1>8. PerfOwners'
  BY <1>1, <1>2, <1>3, PerfStaysInMain DEF Kind
<1> QED
  BY <1>5, <1>6, <1>7, <1>8 DEF SlotsInv

(* The new pipe is given up before any slot has its numbers.               *)
LEMMA RegisterFullStays ==
  ASSUME DetectorInv, SlotsInv, PerfOwners, RegisterFull, UNCHANGED receive_vars
  PROVE  SlotsInv' /\ PerfOwners'
<1>1. /\ UNCHANGED <<pipe_fds, pipe_count, collectors, pfds>>
      /\ fd_table' = CloseAll({fresh.rd, fresh.wr})
      /\ mpc = "register" /\ mpc \in Loop /\ mpc' \in Loop \ {"register"}
  BY DEF RegisterFull, GiveUp, GivenUp, NextEvent, MainAt, Loop, shared, receive_vars
<1>2. \A s \in Registered : /\ pipe_fds[s].rd \in FDs \ {fresh.rd, fresh.wr}
                            /\ pipe_fds[s].wr \in FDs \ {fresh.rd, fresh.wr}
  BY <1>1, NumbersAreTyped DEF SlotsInv, FreshApart, InSlot
<1>3. SlotsInv'
  <2>1. \A f \in FDs \ {fresh.rd, fresh.wr} : fd_table'[f] = fd_table[f]
    BY <1>1, CloseDoes DEF DetectorInv
  <2>2. \A s \in Registered : /\ fd_table'[pipe_fds[s].rd] = fd_table[pipe_fds[s].rd]
                              /\ fd_table'[pipe_fds[s].wr] = fd_table[pipe_fds[s].wr]
    BY <1>2, <2>1
  <2> QED
    BY <1>1, <2>2, SlotsStayInLoop
<1>4. /\ fresh.rd \in FDs /\ fd_table[fresh.rd].kind = "rd"
      /\ fresh.wr \in FDs /\ fd_table[fresh.wr].kind = "wr"
  BY <1>1 DEF DetectorInv, FreshPipe, HoldsPipe, ReadEnd, WriteEnd
<1>5. \A f \in FDs : fd_table'[f].kind = "perf" <=> fd_table[f].kind = "perf"
  <2>1. /\ \A f \in FDs \ {fresh.rd, fresh.wr} : fd_table'[f] = fd_table[f]
        /\ \A f \in FDs \cap {fresh.rd, fresh.wr} : fd_table'[f] = Closed
    <3>1. fd_table' = CloseAll({fresh.rd, fresh.wr})
      BY <1>1
    <3> QED
      BY <3>1 DEF CloseAll
  <2> QED
    BY <1>4, <2>1 DEF Closed
<1> QED
  BY <1>1, <1>3, <1>5, PerfStaysInMain

LEMMA RegisterStays ==
  ASSUME DetectorInv, SlotsInv, PerfOwners, Register, UNCHANGED receive_vars
  PROVE  SlotsInv' /\ PerfOwners'
<1> DEFINE new == [rd |-> fresh.rd, wr |-> fresh.wr]
<1>1. /\ UNCHANGED <<fd_table, fresh, collectors, pfds>>
      /\ mpc = "register" /\ mpc' = "spawn" /\ mpc \in Loop
      /\ pipe_count < MAX_PIDS /\ pipe_count' = pipe_count + 1
      /\ pipe_fds' = [pipe_fds EXCEPT ![pipe_count] = new]
  BY DEF Register, MainGo, MainAt, Loop, kernel, receive_vars
<1>2. /\ fresh.rd \in FDs /\ fd_table[fresh.rd].kind = "rd"
      /\ fresh.wr \in FDs /\ fd_table[fresh.wr].kind = "wr" /\ fresh.rd # fresh.wr
  BY <1>1 DEF DetectorInv, FreshPipe, HoldsPipe, ReadEnd, WriteEnd
<1>3. /\ pipe_count \in Nat /\ pipe_count \in Slots
      /\ pipe_fds \in [Slots -> [rd : FDs, wr : FDs]]
  BY <1>1, Bounds DEF DetectorInv, SharedTypes, Slots
<1>4. /\ Registered' = Registered \cup {pipe_count} /\ pipe_count \notin Registered
      /\ pipe_fds'[pipe_count] = new
      /\ \A s \in Registered : pipe_fds'[s] = pipe_fds[s]
  <2>1. Registered' = Registered \cup {pipe_count} /\ pipe_count \notin Registered
    BY <1>1, <1>3 DEF Registered, UpTo
  <2>2. \A s \in Registered : s \in Slots
    BY SlotTypes DEF DetectorInv
  <2> QED
    BY <1>1, <1>3, <2>1, <2>2
<1>5. SlotsAreOpen'
  <2>1. \A s \in Registered : Kind(pipe_fds[s].rd) = "rd" /\ Kind(pipe_fds[s].wr) = "wr"
    BY <1>1 DEF SlotsInv, SlotsAreOpen
  <2>2. ASSUME NEW s \in Registered'
        PROVE  fd_table[pipe_fds'[s].rd].kind = "rd" /\ fd_table[pipe_fds'[s].wr].kind = "wr"
    BY <1>2, <1>4, <2>1 DEF Kind
  <2> QED
    BY <1>1, <2>2 DEF SlotsAreOpen, Kind
<1>6. SlotsAreApart'
  <2>1. \A s \in Registered :
          {pipe_fds[s].rd, pipe_fds[s].wr} \cap {fresh.rd, fresh.wr} = {}
    BY <1>1 DEF SlotsInv, FreshApart, InSlot
  <2>2. ASSUME NEW s \in Registered', NEW u \in Registered'
        PROVE  /\ pipe_fds'[s].rd # pipe_fds'[u].wr
               /\ s # u => pipe_fds'[s].rd # pipe_fds'[u].rd /\ pipe_fds'[s].wr # pipe_fds'[u].wr
    <3>1. CASE s \in Registered /\ u \in Registered
      BY <1>1, <1>4, <3>1 DEF SlotsInv, SlotsAreApart
    <3>2. CASE s = pipe_count /\ u = pipe_count
      BY <1>2, <1>4, <3>2
    <3>3. CASE s \in Registered /\ u = pipe_count
      <4>1. /\ pipe_fds'[s] = pipe_fds[s]
            /\ pipe_fds'[u].rd = fresh.rd /\ pipe_fds'[u].wr = fresh.wr
        BY <1>4, <3>3
      <4>2. /\ pipe_fds[s].rd \notin {fresh.rd, fresh.wr}
            /\ pipe_fds[s].wr \notin {fresh.rd, fresh.wr}
        BY <2>1, <3>3
      <4> QED
        BY <4>1, <4>2
    <3>4. CASE s = pipe_count /\ u \in Registered
      <4>1. /\ pipe_fds'[u] = pipe_fds[u]
            /\ pipe_fds'[s].rd = fresh.rd /\ pipe_fds'[s].wr = fresh.wr
        BY <1>4, <3>4
      <4>2. /\ pipe_fds[u].rd \notin {fresh.rd, fresh.wr}
            /\ pipe_fds[u].wr \notin {fresh.rd, fresh.wr}
        BY <2>1, <3>4
      <4> QED
        BY <4>1, <4>2
    <3> QED
      BY <1>4, <3>1, <3>2, <3>3, <3>4
  <2> QED
    BY <2>2 DEF SlotsAreApart
<1>7. FreshApart' /\ ClosingOpen' /\ PolledOnce'
  BY <1>1 DEF SlotsInv, FreshApart, ClosingOpen, PolledOnce
<1>8. PerfOwners'
  BY <1>1, PerfStaysInMain
<1> QED
  BY <1>5, <1>6, <1>7, <1>8 DEF SlotsInv

LEMMA SpawnStays ==
  ASSUME DetectorInv, SlotsInv, PerfOwners, Spawn, UNCHANGED receive_vars
  PROVE  SlotsInv' /\ PerfOwners'
<1> DEFINE new == NewCollector(fresh.pid, fresh.wr, fresh.pipe)
<1>1. /\ UNCHANGED <<fd_table, pipe_fds, pipe_count, pfds>>
      /\ mpc \in Loop /\ mpc' \in Loop \ {"register"}
      /\ collectors' = Append(collectors, new)
  BY DEF Spawn, NextEvent, MainAt, Loop, shared, kernel, receive_vars
<1>2. new.fds = <<>>
  BY DEF NewCollector
<1> HIDE DEF new
<1>3. /\ DOMAIN collectors \subseteq DOMAIN collectors'
      /\ \A c \in DOMAIN collectors' :
           IF c \in DOMAIN collectors THEN collectors'[c] = collectors[c]
           ELSE collectors'[c] = new
  BY <1>1 DEF DetectorInv, ThreadTypes
<1>4. \A c \in DOMAIN collectors' :
        IF c \in DOMAIN collectors THEN collectors'[c].fds = collectors[c].fds
        ELSE collectors'[c].fds = <<>>
  BY <1>2, <1>3
<1> QED
  BY <1>1, <1>3, <1>4, SlotsStayInLoop, PerfStays


-----------------------------------------------------------------------------
(* cleanup_pipes: each number it closes is an open end, and comes once.    *)
LEMMA CloseOrderIsApart ==
  ASSUME DetectorInv, SlotsInv, mpc \in Loop
  PROVE  /\ \A k \in DOMAIN CloseOrder : CloseOrder[k] \in FDs /\ IsEnd(CloseOrder[k])
         /\ \A k, l \in DOMAIN CloseOrder : CloseOrder[k] = CloseOrder[l] => k = l
<1> DEFINE slot(k) == (k - 1) \div 2
<1>1. pipe_count \in Nat /\ DOMAIN CloseOrder = 1 .. 2 * pipe_count
  BY DEF DetectorInv, SharedTypes, CloseOrder
<1>2. ASSUME NEW k \in 1 .. 2 * pipe_count
      PROVE  /\ slot(k) \in Registered
             /\ k = 2 * slot(k) + IF k % 2 = 1 THEN 1 ELSE 2
  BY <1>1 DEF Registered, UpTo
<1>3. \A k \in DOMAIN CloseOrder :
        CloseOrder[k] = IF k % 2 = 1 THEN pipe_fds[slot(k)].rd ELSE pipe_fds[slot(k)].wr
  BY <1>1 DEF CloseOrder
<1> HIDE DEF slot
<1>4. \A k \in DOMAIN CloseOrder : CloseOrder[k] \in FDs /\ IsEnd(CloseOrder[k])
  BY <1>1, <1>2, <1>3, NumbersAreTyped DEF SlotsInv, SlotsAreOpen, IsEnd
<1>5. mpc # "return"
  BY DEF Loop
<1>6. ASSUME NEW k \in DOMAIN CloseOrder, NEW l \in DOMAIN CloseOrder,
             CloseOrder[k] = CloseOrder[l]
      PROVE  k = l
  <2>1. slot(k) \in Registered /\ slot(l) \in Registered
    BY <1>1, <1>2
  <2>2. (k % 2 = 1) <=> (l % 2 = 1)
    BY <1>3, <1>5, <1>6, <2>1 DEF SlotsInv, SlotsAreApart
  <2>3. slot(k) = slot(l)
    BY <1>3, <1>5, <1>6, <2>1, <2>2 DEF SlotsInv, SlotsAreApart
  <2> QED
    BY <1>1, <1>2, <2>2, <2>3
<1> QED
  BY <1>4, <1>6

LEMMA CleanUpStays ==
  ASSUME DetectorInv, SlotsInv, PerfOwners, CleanUp, UNCHANGED receive_vars
  PROVE  SlotsInv' /\ PerfOwners'
<1>1. UNCHANGED <<collectors, pfds>> /\ mpc' # "register"
  BY DEF CleanUp, LockPipes, ClosePipe, UnlockPipes, Return, MainGo, MainAt, receive_vars
<1>2. FreshApart' /\ PolledOnce'
  BY <1>1 DEF SlotsInv, FreshApart, PolledOnce
<1>3. CASE LockPipes
  <2>1. /\ UNCHANGED <<fd_table, pipe_fds, pipe_count>>
        /\ mpc \in Loop /\ mpc # "return" /\ mpc' = "close" /\ closing' = CloseOrder
    BY <1>3 DEF LockPipes, MainGo, MainAt, Loop, kernel
  <2>2. SlotsAreOpen' /\ SlotsAreApart'
    BY <2>1 DEF SlotsInv, SlotsAreOpen, SlotsAreApart, Registered, UpTo, Loop
  <2>3. ClosingOpen'
    BY <2>1, CloseOrderIsApart DEF ClosingOpen, IsEnd, Kind
  <2> QED
    BY <1>1, <1>2, <2>1, <2>2, <2>3, PerfStaysInMain DEF SlotsInv
<1>4. CASE ClosePipe
  <2>1. /\ UNCHANGED <<pipe_fds, pipe_count>>
        /\ mpc = "close" /\ mpc' = "close"
        /\ fd_table' = CloseAll({Head(closing)})
        /\ closing # <<>> /\ closing' = Tail(closing)
    BY <1>4 DEF ClosePipe, MainGo, MainAt, shared
  <2>2. SlotsAreOpen' /\ SlotsAreApart'
    BY <2>1 DEF SlotsInv, SlotsAreOpen, SlotsAreApart, Registered, UpTo, Loop
  <2>3. /\ 1 \in DOMAIN closing /\ Head(closing) = closing[1]
        /\ \A k \in DOMAIN closing' :
             k + 1 \in DOMAIN closing /\ k + 1 # 1 /\ closing'[k] = closing[k + 1]
             /\ k \in Nat
    BY <2>1 DEF DetectorInv, MainTypes
  <2>4. /\ Head(closing) \in FDs /\ IsEnd(Head(closing))
        /\ \A f \in FDs \ {Head(closing)} : fd_table'[f] = fd_table[f]
        /\ fd_table'[Head(closing)] = Closed
    <3>1. Head(closing) \in FDs /\ IsEnd(Head(closing))
      BY <2>1, <2>3, NumbersAreTyped DEF SlotsInv, ClosingOpen
    <3>2. /\ \A f \in FDs \ {Head(closing)} : fd_table'[f] = fd_table[f]
          /\ \A f \in FDs \cap {Head(closing)} : fd_table'[f] = Closed
      BY <2>1, CloseDoes DEF DetectorInv
    <3> QED
      BY <3>1, <3>2
  <2>5. ASSUME NEW k \in DOMAIN closing'
        PROVE  fd_table'[closing'[k]].kind \in {"rd", "wr"}
    <3>1. closing'[k] = closing[k + 1] /\ k + 1 \in DOMAIN closing /\ k + 1 # 1
      BY <2>3
    <3>2. closing[k + 1] # Head(closing) /\ IsEnd(closing[k + 1]) /\ closing[k + 1] \in FDs
      BY <2>1, <2>3, <3>1, NumbersAreTyped DEF SlotsInv, ClosingOpen
    <3> QED
      BY <2>4, <3>1, <3>2 DEF IsEnd, Kind
  <2>6. \A k, l \in DOMAIN closing' : closing'[k] = closing'[l] => k = l
    <3> TAKE k, l \in DOMAIN closing'
    <3>1. closing[k + 1] = closing[l + 1] => k + 1 = l + 1
      BY <2>1, <2>3 DEF SlotsInv, ClosingOpen
    <3> QED
      BY <2>3, <3>1
  <2>7. ClosingOpen'
    BY <2>5, <2>6 DEF ClosingOpen, IsEnd, Kind
  <2>8. \A f \in FDs : fd_table'[f].kind = "perf" <=> fd_table[f].kind = "perf"
    BY <2>4 DEF IsEnd, Kind, Closed
  <2> QED
    BY <1>1, <1>2, <2>2, <2>7, <2>8, PerfStaysInMain DEF SlotsInv
<1>5. CASE UnlockPipes \/ Return
  <2>1. mpc' = "return" /\ UNCHANGED fd_table
    BY <1>5 DEF UnlockPipes, Return, MainGo, kernel
  <2>2. SlotsAreOpen' /\ SlotsAreApart' /\ ClosingOpen'
    BY <2>1 DEF SlotsAreOpen, SlotsAreApart, ClosingOpen, Loop
  <2> QED
    BY <1>1, <1>2, <2>1, <2>2, PerfStaysInMain DEF SlotsInv
<1> QED
  BY <1>3, <1>4, <1>5 DEF CleanUp

LEMMA MainStays ==
  ASSUME "spawn" \notin FAULTS, DetectorInv, SlotsInv, PerfOwners, Main
  PROVE  SlotsInv' /\ PerfOwners'
<1>1. UNCHANGED receive_vars /\ ~ SpawnFails
  BY DEF Main, SpawnFails, Fails
<1>2. ASSUME HandlePipe, UNCHANGED <<ring, closing>> PROVE SlotsInv' /\ PerfOwners'
  BY <1>1, <1>2, HandlePipeMakes, LoopMovesStay, HandlePipeStays
<1>3. ASSUME HandleEvent PROVE SlotsInv' /\ PerfOwners'
  <2>1. \/ HandleRecent
        \/ HandlePipe /\ UNCHANGED <<ring, closing>>
        \/ RegisterFull \/ Register \/ Spawn
    BY <1>1, <1>3 DEF HandleEvent
  <2> QED
    BY <1>1, <1>2, <2>1, LoopMovesStay, RegisterFullStays, RegisterStays, SpawnStays
<1>4. CheckExiting \/ Poll \/ PollFails \/ HandleEvent \/ FreeTables \/ CleanUp
  BY DEF Main, MainStep
<1> QED
  BY <1>1, <1>3, <1>4, LoopMovesStay, CleanUpStays


-----------------------------------------------------------------------------
(* The monitor threads: their perf events come from the numbers that are   *)
(* closed, and go back to them.                                            *)
LEMMA PerfChanges ==
  ASSUME DetectorInv, PerfOwners, NEW c \in DOMAIN collectors, NEW me \in Thread,
         ThreadBecomes(c, me), NEW fd \in FDs,
         \A f \in FDs \ {fd} : fd_table'[f] = fd_table[f],
         \/ /\ Kind(fd) = "closed" /\ fd_table'[fd].kind = "perf"
            /\ me.fds = Append(collectors[c].fds, fd)
         \/ /\ collectors[c].fds # <<>> /\ fd = Head(collectors[c].fds)
            /\ fd_table'[fd].kind = "closed"
            /\ me.fds = Tail(collectors[c].fds)
  PROVE  PerfOwners'
<1> DEFINE old == collectors[c].fds
<1>1. old \in Seq(FDs) /\ Len(old) \in Nat
  BY ThreadFields DEF DetectorInv
<1>2. /\ DOMAIN collectors' = DOMAIN collectors /\ collectors'[c] = me
      /\ \A d \in DOMAIN collectors \ {c} : collectors'[d] = collectors[d]
  BY ThreadChanges
<1>3. /\ \A d \in DOMAIN collectors : \A i \in DOMAIN collectors[d].fds :
           /\ collectors[d].fds[i] \in FDs /\ fd_table[collectors[d].fds[i]].kind = "perf"
      /\ \A d, e \in DOMAIN collectors :
           \A i \in DOMAIN collectors[d].fds, j \in DOMAIN collectors[e].fds :
             collectors[d].fds[i] = collectors[e].fds[j] => d = e /\ i = j
      /\ \A f \in FDs : fd_table[f].kind = "perf" =>
           \E d \in DOMAIN collectors : \E i \in DOMAIN collectors[d].fds : f = collectors[d].fds[i]
  BY ThreadFields DEF DetectorInv, PerfOwners, Kind
<1>4. CASE /\ Kind(fd) = "closed" /\ fd_table'[fd].kind = "perf"
           /\ me.fds = Append(old, fd)
  <2> DEFINE last == Len(old) + 1
  <2>1. /\ DOMAIN me.fds = DOMAIN old \cup {last} /\ last \notin DOMAIN old
        /\ me.fds[last] = fd /\ \A i \in DOMAIN old : me.fds[i] = old[i]
    BY <1>1, <1>4
  <2>2. \A d \in DOMAIN collectors : \A i \in DOMAIN collectors[d].fds :
          /\ collectors[d].fds[i] # fd
          /\ i \in DOMAIN collectors'[d].fds /\ collectors'[d].fds[i] = collectors[d].fds[i]
    BY <1>2, <1>3, <1>4, <2>1 DEF Kind
  <2>3. ASSUME NEW d \in DOMAIN collectors', NEW i \in DOMAIN collectors'[d].fds
        PROVE  \/ /\ i \in DOMAIN collectors[d].fds
                  /\ collectors'[d].fds[i] = collectors[d].fds[i]
               \/ d = c /\ i = last /\ collectors'[d].fds[i] = fd
    BY <1>2, <2>1
  <2>4. \A d \in DOMAIN collectors' : \A i \in DOMAIN collectors'[d].fds :
          fd_table'[collectors'[d].fds[i]].kind = "perf"
    BY <1>2, <1>3, <1>4, <2>2, <2>3
  <2>5. \A d, e \in DOMAIN collectors' :
          \A i \in DOMAIN collectors'[d].fds, j \in DOMAIN collectors'[e].fds :
            collectors'[d].fds[i] = collectors'[e].fds[j] => d = e /\ i = j
    BY <1>2, <1>3, <2>2, <2>3
  <2>6. ASSUME NEW f \in FDs, fd_table'[f].kind = "perf"
        PROVE  \E d \in DOMAIN collectors' : \E i \in DOMAIN collectors'[d].fds :
                 f = collectors'[d].fds[i]
    <3>1. CASE f = fd
      BY <1>2, <2>1, <3>1
    <3>2. CASE f # fd
      <4>1. PICK d \in DOMAIN collectors : \E i \in DOMAIN collectors[d].fds :
                   f = collectors[d].fds[i]
        BY <1>3, <2>6, <3>2
      <4> QED
        BY <1>2, <2>2, <4>1
    <3> QED
      BY <3>1, <3>2
  <2> QED
    BY <2>4, <2>5, <2>6 DEF PerfOwners, Kind
<1>5. CASE /\ old # <<>> /\ fd = Head(old)
           /\ fd_table'[fd].kind = "closed" /\ me.fds = Tail(old)
  <2>1. /\ 1 \in DOMAIN old /\ old[1] = fd
        /\ \A i \in DOMAIN me.fds : /\ i \in Nat /\ i + 1 \in DOMAIN old /\ i + 1 # 1
                                    /\ me.fds[i] = old[i + 1]
        /\ \A i \in DOMAIN old \ {1} : i - 1 \in DOMAIN me.fds /\ me.fds[i - 1] = old[i]
    BY <1>1, <1>5
  <2>2. ASSUME NEW d \in DOMAIN collectors', NEW i \in DOMAIN collectors'[d].fds
        PROVE  /\ d # c => i \in DOMAIN collectors[d].fds
                           /\ collectors'[d].fds[i] = collectors[d].fds[i]
               /\ d = c => i + 1 \in DOMAIN old /\ i \in Nat /\ i + 1 # 1
                           /\ collectors'[d].fds[i] = old[i + 1]
    BY <1>2, <2>1
  <2>3. ASSUME NEW d \in DOMAIN collectors', NEW i \in DOMAIN collectors'[d].fds
        PROVE  collectors'[d].fds[i] # fd /\ collectors'[d].fds[i] \in FDs
               /\ fd_table[collectors'[d].fds[i]].kind = "perf"
    <3>1. CASE d # c
      BY <1>2, <1>3, <2>1, <2>2, <3>1
    <3>2. CASE d = c
      BY <1>2, <1>3, <2>1, <2>2, <3>2
    <3> QED
      BY <3>1, <3>2
  <2>4. \A d \in DOMAIN collectors' : \A i \in DOMAIN collectors'[d].fds :
          fd_table'[collectors'[d].fds[i]].kind = "perf"
    BY <2>3
  <2>5. ASSUME NEW d \in DOMAIN collectors', NEW e \in DOMAIN collectors',
               NEW i \in DOMAIN collectors'[d].fds, NEW j \in DOMAIN collectors'[e].fds,
               collectors'[d].fds[i] = collectors'[e].fds[j]
        PROVE  d = e /\ i = j
    <3>1. CASE d # c /\ e # c
      BY <1>2, <1>3, <2>2, <2>5, <3>1
    <3>2. CASE d = c /\ e = c
      <4>1. i + 1 = j + 1 /\ i \in Nat /\ j \in Nat
        BY <1>2, <1>3, <2>2, <2>5, <3>2
      <4> QED
        BY <3>2, <4>1
    <3>3. CASE d = c /\ e # c
      BY <1>2, <1>3, <2>2, <2>5, <3>3
    <3>4. CASE d # c /\ e = c
      BY <1>2, <1>3, <2>2, <2>5, <3>4
    <3> QED
      BY <3>1, <3>2, <3>3, <3>4
  <2>6. ASSUME NEW f \in FDs, fd_table'[f].kind = "perf"
        PROVE  \E d \in DOMAIN collectors' : \E i \in DOMAIN collectors'[d].fds :
                 f = collectors'[d].fds[i]
    <3>1. f # fd /\ fd_table[f].kind = "perf"
      BY <1>5, <2>6
    <3>2. PICK d \in DOMAIN collectors : \E i \in DOMAIN collectors[d].fds :
                 f = collectors[d].fds[i]
      BY <1>3, <3>1
    <3>3. PICK i \in DOMAIN collectors[d].fds : f = collectors[d].fds[i]
      BY <3>2
    <3>4. CASE d = c
      <4>1. i # 1
        BY <2>1, <3>1, <3>3, <3>4
      <4>2. i - 1 \in DOMAIN me.fds /\ me.fds[i - 1] = f
        BY <2>1, <3>3, <3>4, <4>1
      <4> QED
        BY <1>2, <3>4, <4>2
    <3>5. CASE d # c
      BY <1>2, <3>3, <3>5
    <3> QED
      BY <3>4, <3>5
  <2> QED
    BY <2>4, <2>5, <2>6 DEF PerfOwners, Kind
<1> QED
  BY <1>4, <1>5


LEMMA OpenEventStays ==
  ASSUME DetectorInv, SlotsInv, PerfOwners, NEW c \in DOMAIN collectors, OpenEvent(c),
         UNCHANGED <<main_vars, shared, receive_vars>>
  PROVE  SlotsInv' /\ PerfOwners'
<1> DEFINE old == collectors[c]
<1>1. /\ old \in Thread /\ old.fds \in Seq(FDs)
      /\ UNCHANGED <<mpc, pipe_fds, pipe_count, fresh, closing, pfds>>
  BY ThreadFields DEF DetectorInv, main_vars, shared, receive_vars
<1>2. CASE UNCHANGED fd_table /\ collectors' = [collectors EXCEPT ![c].pc = "failed"]
  <2>1. PICK me : me = [old EXCEPT !.pc = "failed"]
    OBVIOUS
  <2>2. /\ me \in Thread /\ me.fds = old.fds
        /\ me.pid = old.pid /\ me.pipe = old.pipe /\ me.pipe_fd = old.pipe_fd
    BY <1>1, <2>1 DEF Thread
  <2>3. ThreadBecomes(c, me)
    BY <1>2, <2>1, <2>2 DEF ThreadBecomes
  <2>4. DOMAIN collectors' = DOMAIN collectors
        /\ \A d \in DOMAIN collectors : collectors'[d].fds = collectors[d].fds
    BY <2>2, <2>3, ThreadChanges
  <2> QED
    BY <1>1, <1>2, <2>4, SlotsStay, PerfStays
<1>3. CASE /\ Free # {}
           /\ fd_table' = [fd_table EXCEPT ![LowestFree(Free)] = PerfEvent]
           /\ collectors' = [collectors EXCEPT
                ![c].fds = Append(old.fds, LowestFree(Free)),
                ![c].pc = IF Len(Append(old.fds, LowestFree(Free))) = TOTAL_EVENTS
                          THEN "sample" ELSE "open"]
  <2>1. PICK fd \in FDs : fd = LowestFree(Free) /\ Kind(fd) = "closed"
    BY <1>3, LowestFreeIn DEF Free, Kind
  <2>2. PICK me : me = [old EXCEPT !.fds = Append(old.fds, fd),
                          !.pc = IF Len(Append(old.fds, fd)) = TOTAL_EVENTS
                                 THEN "sample" ELSE "open"]
    OBVIOUS
  <2>3. /\ me \in Thread /\ me.fds = Append(old.fds, fd)
        /\ me.pid = old.pid /\ me.pipe = old.pipe /\ me.pipe_fd = old.pipe_fd
    <3>1. Append(old.fds, fd) \in Seq(FDs)
      BY <1>1
    <3> QED
      BY <1>1, <2>2, <3>1 DEF Thread
  <2>4. ThreadBecomes(c, me)
    BY <1>3, <2>1, <2>2, <2>3 DEF ThreadBecomes
  <2>5. /\ fd_table'[fd].kind = "perf"
        /\ \A f \in FDs \ {fd} : fd_table'[f] = fd_table[f]
    <3>1. PerfEvent.kind = "perf" /\ fd_table' = [fd_table EXCEPT ![fd] = PerfEvent]
      BY <1>3, <2>1 DEF PerfEvent
    <3> QED
      BY <3>1 DEF DetectorInv, KernelTypes
  <2>6. SlotsInv'
    BY <1>1, <2>1, <2>5, SlotsStay DEF IsEnd, Kind
  <2> QED
    BY <2>1, <2>3, <2>4, <2>5, <2>6, PerfChanges
<1> QED
  BY <1>2, <1>3 DEF OpenEvent

LEMMA CloseEventStays ==
  ASSUME DetectorInv, SlotsInv, PerfOwners, NEW c \in DOMAIN collectors, CloseEvent(c),
         UNCHANGED <<main_vars, shared, receive_vars>>
  PROVE  SlotsInv' /\ PerfOwners'
<1> DEFINE old == collectors[c]
<1>1. /\ old \in Thread /\ old.fds \in Seq(FDs) /\ old.fds # <<>>
      /\ UNCHANGED <<mpc, pipe_fds, pipe_count, fresh, closing, pfds>>
      /\ fd_table' = CloseAll({Head(old.fds)})
  BY ThreadFields DEF DetectorInv, ThreadTypes, ThreadState, CloseEvent, ClosedBy,
     main_vars, shared, receive_vars
<1>2. PICK fd \in FDs : fd = Head(old.fds) /\ 1 \in DOMAIN old.fds /\ fd = old.fds[1]
  BY <1>1
<1>3. PICK me : me = [old EXCEPT !.fds = Tail(old.fds),
                        !.pc = IF Len(old.fds) = 1 THEN "done" ELSE "close"]
  OBVIOUS
<1>4. /\ me \in Thread /\ me.fds = Tail(old.fds)
      /\ me.pid = old.pid /\ me.pipe = old.pipe /\ me.pipe_fd = old.pipe_fd
  <2>1. Tail(old.fds) \in Seq(FDs)
    BY <1>1
  <2> QED
    BY <1>1, <1>3, <2>1 DEF Thread
<1>5. ThreadBecomes(c, me)
  BY <1>3, <1>4 DEF CloseEvent, ThreadBecomes
<1>6. /\ fd_table'[fd].kind = "closed" /\ Kind(fd) = "perf"
      /\ \A f \in FDs \ {fd} : fd_table'[f] = fd_table[f]
  <2>1. fd_table'[fd] = Closed /\ \A f \in FDs \ {fd} : fd_table'[f] = fd_table[f]
    BY <1>1, <1>2, CloseDoes DEF DetectorInv
  <2> QED
    BY <1>2, <2>1 DEF PerfOwners, Closed
<1>7. SlotsInv'
  BY <1>1, <1>6, SlotsStay DEF IsEnd, Kind
<1> QED
  BY <1>1, <1>2, <1>4, <1>5, <1>6, <1>7, PerfChanges

LEMMA WriteBatchStays ==
  ASSUME DetectorInv, SlotsInv, PerfOwners, NEW c \in DOMAIN collectors,
         WriteBatch(c, reading), UNCHANGED <<main_vars, shared, receive_vars>>
  PROVE  SlotsInv' /\ PerfOwners'
<1> DEFINE old == collectors[c]
<1>1. /\ old \in Thread /\ UNCHANGED fd_table
      /\ UNCHANGED <<mpc, pipe_fds, pipe_count, fresh, closing, pfds>>
  BY ThreadFields DEF DetectorInv, WriteBatch, main_vars, shared, receive_vars
<1>2. CASE UNCHANGED collectors
  BY <1>1, <1>2, SlotsStay, PerfStays
<1>3. CASE collectors' = Advance(c)
  <2>1. /\ DOMAIN collectors' = DOMAIN collectors
        /\ \A d \in DOMAIN collectors : collectors'[d].fds = collectors[d].fds
    BY <1>1, <1>3 DEF Advance, Thread
  <2> QED
    BY <1>1, <2>1, SlotsStay, PerfStays
<1> QED
  BY <1>2, <1>3 DEF WriteBatch

-----------------------------------------------------------------------------
(* The receive thread: what it polls are the slots, and the slots differ.  *)
LEMMA PolledAreSlots ==
  ASSUME DetectorInv, SlotsInv, DetectorInv', UNCHANGED <<mpc, pipe_fds, pipe_count>>,
         mpc # "return"
  PROVE  PolledOnce'
<1>1. /\ pfds' \in Seq(FDs) /\ Len(pfds') \in Nat /\ Len(pfds') <= pipe_count
      /\ \A i \in DOMAIN pfds' : pfds'[i] = pipe_fds[i - 1].rd
      /\ pipe_count \in Nat
  BY DEF DetectorInv, PollSet, ReceiverTypes, SharedTypes
<1>2. \A i \in DOMAIN pfds' : i \in Nat /\ i - 1 \in Registered
  BY <1>1 DEF Registered, UpTo
<1>3. \A s, u \in Registered : s # u => pipe_fds[s].rd # pipe_fds[u].rd
  BY DEF SlotsInv, SlotsAreApart
<1>4. \A i, j \in DOMAIN pfds' : pfds'[i] = pfds'[j] => i - 1 = j - 1
  BY <1>1, <1>2, <1>3
<1> QED
  BY <1>2, <1>4 DEF PolledOnce

LEMMA ReceiverStays ==
  ASSUME DetectorInv, SlotsInv, PerfOwners, Receiver PROVE SlotsInv' /\ PerfOwners'
<1>1. /\ UNCHANGED <<mpc, pipe_fds, pipe_count, fresh, closing, fd_table, collectors>>
      /\ ReceiveStep(now)
  BY DEF Receiver, ReceiveStep, LoadWeights, CheckReceiver, Sync, SyncFails, PollPipes,
     PollPipesFails, Sweep, FreeAll, main_vars, shared
<1>2. PerfOwners'
  BY <1>1, PerfStays
<1>3. SlotsAreOpen' /\ SlotsAreApart' /\ FreshApart' /\ ClosingOpen'
  BY <1>1 DEF SlotsInv, SlotsAreOpen, SlotsAreApart, FreshApart, ClosingOpen, Registered,
     UpTo, InSlot, IsEnd, Kind
<1>4. CASE UNCHANGED pfds
  BY <1>2, <1>3, <1>4 DEF SlotsInv, PolledOnce
<1>5. CASE pfds' = <<>>
  BY <1>2, <1>3, <1>5 DEF SlotsInv, PolledOnce
<1>6. CASE Sync
  <2>1. CASE mpc = "return"
    <3>1. pipe_count = 0 /\ Len(pfds) \in Nat
      BY <2>1 DEF DetectorInv, PollSet, ReceiverTypes
    <3> QED
      BY <1>4, <1>6, <3>1 DEF Sync
  <2>2. CASE mpc # "return"
    BY <1>1, <1>2, <1>3, <2>2, ReceiverKeeps, PolledAreSlots DEF SlotsInv
  <2> QED
    BY <2>1, <2>2
<1>7. \/ UNCHANGED pfds \/ pfds' = <<>> \/ Sync
  BY <1>1 DEF ReceiveStep, LoadWeights, CheckReceiver, SyncFails, PollPipes,
     PollPipesFails, Sweep, FreeAll
<1> QED
  BY <1>4, <1>5, <1>6, <1>7

-----------------------------------------------------------------------------
LEMMA StrictInit == Init => StrictInv
<1> SUFFICES ASSUME Init PROVE StrictInv
  OBVIOUS
<1>1. \A f \in FDs : Kind(f) = "closed"
  BY DEF Init, ProcessInit, Kind, Closed
<1>2. Registered = {} /\ mpc = "check" /\ collectors = <<>> /\ pfds = <<>>
  BY DEF Init, ProcessInit, MainInit, ReceiveInit, Registered, UpTo
<1> QED
  BY <1>1, <1>2 DEF StrictInv, SlotsAreOpen, SlotsAreApart, FreshApart, ClosingOpen,
     PerfOwners, PolledOnce

LEMMA StrictNext ==
  ASSUME "spawn" \notin FAULTS, DetectorInv, StrictInv, [Next]_vars
  PROVE  StrictInv'
<1>1. SlotsInv /\ PerfOwners
  BY DEF StrictInv, SlotsInv
<1>2. CASE Captures \/ Interrupt \/ Clock \/ Stopped \/ UNCHANGED vars
  <2>1. UNCHANGED <<mpc, pipe_fds, pipe_count, fresh, closing, pfds, fd_table, collectors>>
    BY <1>2 DEF Captures, Interrupt, Clock, Stopped, Exec, Signal, Tick, vars, main_vars,
       shared, kernel, others, receive_vars
  <2> QED
    BY <1>1, <2>1, SlotsStay, PerfStays DEF StrictInv, SlotsInv
<1>3. CASE Main
  BY <1>1, <1>3, MainStays DEF StrictInv, SlotsInv
<1>4. CASE Receiver
  BY <1>1, <1>4, ReceiverStays DEF StrictInv, SlotsInv
<1>5. ASSUME NEW c \in DOMAIN collectors, Collector(c) PROVE StrictInv'
  <2>1. /\ OpenEvent(c) \/ WriteBatch(c, reading) \/ CloseEvent(c)
        /\ UNCHANGED <<main_vars, shared, receive_vars>>
    BY <1>5 DEF Collector, CollectorStep
  <2>2. SlotsInv' /\ PerfOwners'
    BY <1>1, <2>1, OpenEventStays, WriteBatchStays, CloseEventStays
  <2> QED
    BY <2>2 DEF StrictInv, SlotsInv
<1> QED
  BY <1>2, <1>3, <1>4, <1>5 DEF Next

(* As long as every thread can be created, open numbers are not shared.    *)
THEOREM NumbersAreApart ==
  ASSUME "spawn" \notin FAULTS PROVE Spec => []StrictInv
<1>1. DetectorInv /\ StrictInv /\ [Next]_vars => StrictInv'
  BY StrictNext
<1> QED
  BY <1>1, StrictInit, DetectorInvariant, PTL DEF Spec

(* Every open number has one owner, and every perf event is a number one   *)
(* thread still knows: no descriptor is lost, and none is used by two.     *)
THEOREM OwnersOfDescriptors ==
  ASSUME "spawn" \notin FAULTS PROVE Spec => []DescriptorsHaveOwners
<1>1. ASSUME DetectorInv, StrictInv PROVE DescriptorsHaveOwners
  <2>1. \A f \in FDs : fd_table[f].kind \in {"rd", "wr"} =>
          \/ f \in {fresh.rd, fresh.wr} /\ mpc \in {"register", "spawn"}
          \/ \E s \in Slots : f \in {pipe_fds[s].rd, pipe_fds[s].wr} /\ (s < pipe_count)
    <3>1. \A s \in Registered : s \in Slots /\ s < pipe_count
      BY <1>1, SlotTypes DEF DetectorInv, SharedTypes, Registered, UpTo
    <3> QED
      BY <1>1, <3>1 DEF DetectorInv, EndsAreOwned, IsEnd, Kind, InSlot, HoldsPipe
  <2>2. ASSUME NEW c \in DOMAIN collectors, NEW i \in DOMAIN collectors[c].fds
        PROVE  fd_table[collectors[c].fds[i]] = PerfEvent
    <3>1. PICK f \in FDs : f = collectors[c].fds[i]
      BY <1>1, ThreadFields DEF DetectorInv
    <3>2. /\ fd_table[f] \in [kind : Kinds, pipe : Nat]
          /\ fd_table[f].kind = "perf" /\ fd_table[f].pipe = 0
      BY <1>1, <3>1 DEF DetectorInv, StrictInv, PerfOwners, KernelTypes, IsEnd, Kind
    <3> QED
      BY <3>1, <3>2 DEF PerfEvent
  <2>3. \A c \in DOMAIN collectors : collectors[c].pc = "done" => collectors[c].fds = <<>>
    BY <1>1 DEF DetectorInv, ThreadTypes, ThreadState
  <2>4. ASSUME NEW f \in FDs, fd_table[f] = PerfEvent
        PROVE  Cardinality({c \in DOMAIN collectors :
                 f \in {collectors[c].fds[i] : i \in DOMAIN collectors[c].fds}}) = 1
    <3> DEFINE owners == {c \in DOMAIN collectors :
                 f \in {collectors[c].fds[i] : i \in DOMAIN collectors[c].fds}}
    <3>1. Kind(f) = "perf"
      BY <2>4 DEF Kind, PerfEvent
    <3>2. PICK c \in DOMAIN collectors : \E i \in DOMAIN collectors[c].fds :
                 f = collectors[c].fds[i]
      BY <1>1, <3>1 DEF StrictInv, PerfOwners
    <3>3. \A d \in DOMAIN collectors :
            (\E j \in DOMAIN collectors[d].fds : f = collectors[d].fds[j]) => d = c
      BY <1>1, <3>2 DEF StrictInv, PerfOwners
    <3>4. owners = {c}
      BY <3>2, <3>3
    <3> HIDE DEF owners
    <3>5. Cardinality(owners) = 1
      BY <3>4, FS_Singleton
    <3> QED
      BY <3>5 DEF owners
  <2> QED
    BY <2>1, <2>2, <2>3, <2>4 DEF DescriptorsHaveOwners
<1> QED
  BY <1>1, NumbersAreApart, DetectorInvariant, PTL

(* The receiver never waits in a read(): it reads only what poll()         *)
(* announced, once.                                                        *)
THEOREM ReadsDoNotWait ==
  ASSUME "spawn" \notin FAULTS PROVE Spec => []ReadNeverBlocks
<1>1. DetectorInv /\ StrictInv => ReadNeverBlocks
  BY NextServedIn DEF DetectorInv, StrictInv, Blocked, Twice, PolledOnce, ReadNeverBlocks
<1> QED
  BY <1>1, NumbersAreApart, DetectorInvariant, PTL

-----------------------------------------------------------------------------
(* What is in a pipe, and what came out of it: batches in the order they   *)
(* were written, each with one header, newer than all that arrived; and    *)
(* before anything arrived the first header is still at the front.         *)
InSequence(us, sent) ==
  /\ \A i \in DOMAIN us : us[i].batch <= sent
  /\ \A i, j \in DOMAIN us : i < j =>
       us[i].batch <= us[j].batch /\ (us[j].head => us[i].batch < us[j].batch)

FollowsOn(us, sent, got) ==
  IF got = <<>> THEN IF us = <<>> THEN sent = 0 ELSE us[1].batch = 1 /\ us[1].head
  ELSE /\ got[Len(got)] <= sent
       /\ \A i \in DOMAIN us :
            got[Len(got)] <= us[i].batch /\ (us[i].head => got[Len(got)] < us[i].batch)

PipesAreOrdered ==
  \A p \in DOMAIN pipes : /\ InSequence(pipes[p].units, pipes[p].sent)
                          /\ FollowsOn(pipes[p].units, pipes[p].sent, pipes[p].got)

(* A thread that can still write has written every batch before its next.  *)
AllIsWritten ==
  \A c \in DOMAIN collectors : Kind(collectors[c].pipe_fd) = "wr" =>
    pipes[collectors[c].pipe].sent = collectors[c].batch - 1

(* Every pipe, and every event that can still get one, had its execve.     *)
EveryPipeHadItsExec ==
  /\ execs \in Nat /\ execs <= MAX_EXECS
  /\ Len(pipes) + Len(ring) + Len(batch) <= execs + IF mpc \in HoldsPipe THEN 1 ELSE 0

(* What makes the pipes channels.                                          *)
OrderInv == PipesAreOrdered /\ AllIsWritten /\ EveryPipeHadItsExec

Unused == [units |-> <<>>, sent |-> 0, got |-> <<>>]

LEMMA PipeFields ==
  ASSUME KernelTypes
  PROVE  \A p \in DOMAIN pipes :
           /\ p \in Nat \ {0} /\ pipes[p] \in Pipe
           /\ pipes[p].units \in Seq(Unit) /\ pipes[p].got \in Seq(1 .. BATCHES)
           /\ pipes[p].sent \in Nat
<1> TAKE p \in DOMAIN pipes
<1>1. p \in Nat \ {0} /\ pipes[p] \in Pipe
  BY DEF KernelTypes
<1> QED
  BY <1>1, Bounds DEF Pipe

LEMMA LastIn ==
  ASSUME NEW S, NEW s \in Seq(S), s # <<>>
  PROVE  Len(s) \in DOMAIN s /\ s[Len(s)] \in S /\ 1 \in DOMAIN s
OBVIOUS

LEMMA LastAppended ==
  ASSUME NEW S, NEW s \in Seq(S), NEW e \in S
  PROVE  /\ Append(s, e) \in Seq(S) /\ Append(s, e) # <<>>
         /\ Append(s, e)[Len(Append(s, e))] = e
<1>1. Len(Append(s, e)) = Len(s) + 1 /\ Len(s) \in Nat
  OBVIOUS
<1> QED
  BY <1>1

LEMMA UnitFields ==
  ASSUME NEW us \in Seq(Unit)
  PROVE  \A i \in DOMAIN us : i \in 1 .. Len(us) /\ us[i].batch \in Nat
<1> TAKE i \in DOMAIN us
<1>1. us[i] \in Unit /\ i \in 1 .. Len(us)
  OBVIOUS
<1>2. us[i].batch \in 1 .. BATCHES
  BY <1>1 DEF Unit
<1> QED
  BY <1>1, <1>2, Bounds

(* A message that is written goes behind everything older.                 *)
LEMMA SendKeepsOrder ==
  ASSUME NEW us \in Seq(Unit), NEW sent \in Nat, NEW got \in Seq(1 .. BATCHES),
         InSequence(us, sent), FollowsOn(us, sent, got),
         NEW message \in Seq(Unit), message # <<>>,
         \A i \in DOMAIN message :
           message[i].batch = sent + 1 /\ (message[i].head <=> i = 1)
  PROVE  InSequence(us \o message, sent + 1) /\ FollowsOn(us \o message, sent + 1, got)
<1> DEFINE n == Len(us)
           new == us \o message
<1>1. /\ n \in Nat /\ DOMAIN us = 1 .. n /\ new \in Seq(Unit)
      /\ DOMAIN new = 1 .. Len(new) /\ Len(new) = n + Len(message)
      /\ Len(message) \in Nat \ {0} /\ DOMAIN message = 1 .. Len(message)
  OBVIOUS
<1>2. /\ \A i \in 1 .. n : i \in DOMAIN new /\ new[i] = us[i]
      /\ \A i \in DOMAIN new \ 1 .. n :
           i - n \in DOMAIN message /\ new[i] = message[i - n]
  BY <1>1, ConcatParts
<1>3. \A i \in 1 .. n : new[i].batch \in Nat /\ new[i].batch <= sent
  BY <1>1, <1>2, UnitFields DEF InSequence
<1>4. \A i \in DOMAIN new \ 1 .. n :
        new[i].batch = sent + 1 /\ i > n /\ (new[i].head <=> i = n + 1)
  BY <1>1, <1>2
<1> HIDE DEF new
<1>5. InSequence(new, sent + 1)
  <2>1. \A i \in DOMAIN new : new[i].batch <= sent + 1
    BY <1>1, <1>3, <1>4
  <2>2. ASSUME NEW i \in DOMAIN new, NEW j \in DOMAIN new, i < j
        PROVE  new[i].batch <= new[j].batch /\ (new[j].head => new[i].batch < new[j].batch)
    <3>1. CASE j \in 1 .. n
      BY <1>1, <1>2, <2>2, <3>1 DEF InSequence
    <3>2. CASE i \in 1 .. n /\ j \notin 1 .. n
      BY <1>3, <1>4, <3>2
    <3>3. CASE i \notin 1 .. n
      <4>1. i > n /\ j > n /\ j # n + 1
        BY <1>1, <1>4, <2>2, <3>3
      <4> QED
        BY <1>1, <1>4, <3>3, <4>1
    <3> QED
      BY <3>1, <3>2, <3>3
  <2> QED
    BY <2>1, <2>2 DEF InSequence
<1>6. CASE got = <<>> /\ us = <<>>
  <2>1. sent = 0 /\ n = 0 /\ 1 \in DOMAIN new \ 1 .. n /\ new # <<>>
    BY <1>1, <1>6 DEF FollowsOn
  <2>2. new[1].batch = 1 /\ new[1].head
    BY <1>4, <2>1
  <2> QED
    BY <1>5, <1>6, <2>1, <2>2 DEF FollowsOn, new
<1>7. CASE got = <<>> /\ us # <<>>
  <2>1. 1 \in 1 .. n /\ us[1].batch = 1 /\ us[1].head
    BY <1>1, <1>7 DEF FollowsOn
  <2>2. new # <<>> /\ new[1] = us[1]
    BY <1>1, <1>2, <2>1
  <2> QED
    BY <1>5, <1>7, <2>1, <2>2 DEF FollowsOn, new
<1>8. CASE got # <<>>
  <2>1. PICK last \in 1 .. BATCHES : last = got[Len(got)]
    BY <1>8, LastIn
  <2>2. last \in Nat /\ last <= sent
    BY <1>8, <2>1, Bounds DEF FollowsOn
  <2>3. \A i \in DOMAIN us : last <= us[i].batch /\ (us[i].head => last < us[i].batch)
    BY <1>8, <2>1 DEF FollowsOn
  <2>4. \A i \in DOMAIN new : last <= new[i].batch /\ (new[i].head => last < new[i].batch)
    BY <1>1, <1>2, <1>4, <2>2, <2>3
  <2> QED
    BY <1>5, <1>8, <2>1, <2>2, <2>4 DEF FollowsOn, new
<1> QED
  BY <1>6, <1>7, <1>8

(* A read takes the front of the pipe, and what it files is the oldest     *)
(* message that is left, newer than the last one.                          *)
LEMMA ReadKeepsOrder ==
  ASSUME NEW us \in Seq(Unit), us # <<>>, NEW sent \in Nat, NEW got \in Seq(1 .. BATCHES),
         InSequence(us, sent), FollowsOn(us, sent, got)
  PROVE  /\ InSequence(Left(us), sent)
         /\ us[1].head \/ FollowsOn(Left(us), sent, got)
         /\ us[1].head => /\ FollowsOn(Left(us), sent, Append(got, us[1].batch))
                          /\ IF got = <<>> THEN us[1].batch = 1
                             ELSE us[1].batch > got[Len(got)]
                          /\ us[1].batch \in 1 .. sent
<1> DEFINE rest == Left(us)
<1>1. /\ us[1] \in Unit /\ 1 \in DOMAIN us /\ DOMAIN us = 1 .. Len(us)
      /\ Len(us) \in Nat \ {0}
  OBVIOUS
<1>2. PICK first \in 1 .. BATCHES : first = us[1].batch /\ first \in Nat
  <2>1. us[1].batch \in 1 .. BATCHES
    BY <1>1 DEF Unit
  <2> QED
    BY <2>1, Bounds
<1>3. PICK k \in 1 .. Len(us) :
        /\ rest \in Seq(Unit) /\ Len(rest) = Len(us) - k
        /\ \A i \in DOMAIN rest : i + k \in DOMAIN us /\ rest[i] = us[i + k]
  BY LeftTypes
<1>4. /\ DOMAIN rest = 1 .. Len(rest) /\ k \in Nat \ {0}
      /\ \A i \in DOMAIN rest : i \in Nat /\ 1 < i + k
  BY <1>1, <1>3
<1> HIDE DEF rest
<1>5. InSequence(rest, sent)
  <2>1. \A i \in DOMAIN rest : rest[i].batch <= sent
    BY <1>3 DEF InSequence
  <2>2. ASSUME NEW i \in DOMAIN rest, NEW j \in DOMAIN rest, i < j
        PROVE  rest[i].batch <= rest[j].batch /\ (rest[j].head => rest[i].batch < rest[j].batch)
    <3>1. /\ i + k \in DOMAIN us /\ rest[i] = us[i + k]
          /\ j + k \in DOMAIN us /\ rest[j] = us[j + k]
      BY <1>3
    <3>2. i + k < j + k
      BY <1>4, <2>2
    <3> QED
      BY <3>1, <3>2 DEF InSequence
  <2> QED
    BY <2>1, <2>2 DEF InSequence
<1>6. \A i \in DOMAIN rest :
        us[1].batch <= rest[i].batch /\ (rest[i].head => us[1].batch < rest[i].batch)
  BY <1>1, <1>3, <1>4 DEF InSequence
<1>7. us[1].head \/ FollowsOn(rest, sent, got)
  BY <1>3 DEF FollowsOn
<1>8. ASSUME us[1].head
      PROVE  /\ FollowsOn(rest, sent, Append(got, us[1].batch))
             /\ IF got = <<>> THEN us[1].batch = 1 ELSE us[1].batch > got[Len(got)]
             /\ us[1].batch \in 1 .. sent
  <2>1. us[1].batch \in 1 .. sent
    <3>1. us[1].batch <= sent
      BY <1>1 DEF InSequence
    <3> QED
      BY <1>2, <3>1, Bounds
  <2>2. IF got = <<>> THEN us[1].batch = 1 ELSE us[1].batch > got[Len(got)]
    <3>1. CASE got = <<>>
      BY <3>1 DEF FollowsOn
    <3>2. CASE got # <<>>
      <4>1. PICK last \in 1 .. BATCHES : last = got[Len(got)]
        BY <3>2, LastIn
      <4>2. last < us[1].batch
        BY <1>1, <1>8, <3>2, <4>1 DEF FollowsOn
      <4> QED
        BY <1>2, <3>2, <4>1, <4>2, Bounds
    <3> QED
      BY <3>1, <3>2
  <2>3. FollowsOn(rest, sent, Append(got, us[1].batch))
    <3> DEFINE more == Append(got, us[1].batch)
    <3>1. more # <<>> /\ more[Len(more)] = us[1].batch
      <4>1. more = Append(got, first)
        BY <1>2
      <4>2. more # <<>> /\ more[Len(more)] = first
        BY <4>1, LastAppended
      <4> QED
        BY <1>2, <4>2
    <3> HIDE DEF more
    <3>2. more[Len(more)] <= sent
      BY <1>2, <2>1, <3>1
    <3>3. FollowsOn(rest, sent, more)
      BY <1>6, <3>1, <3>2 DEF FollowsOn
    <3> QED
      BY <3>3 DEF more
  <2> QED
    BY <2>1, <2>2, <2>3
<1> QED
  BY <1>5, <1>7, <1>8 DEF rest

-----------------------------------------------------------------------------
(* What one step does to the messages that were sent and those that came.  *)
SamePipe(p) == /\ pipes'[p].sent = pipes[p].sent
               /\ pipes'[p].got = pipes[p].got

NothingMoves ==
  /\ DOMAIN pipes \subseteq DOMAIN pipes'
  /\ \A p \in DOMAIN pipes : SamePipe(p)
  /\ \A p \in DOMAIN pipes' \ DOMAIN pipes :
       p \in Nat /\ pipes'[p].sent = 0 /\ pipes'[p].got = <<>>

Sends(p) ==
  /\ DOMAIN pipes' = DOMAIN pipes
  /\ \A q \in DOMAIN pipes \ {p} : SamePipe(q)
  /\ pipes'[p].sent = pipes[p].sent + 1 /\ pipes'[p].got = pipes[p].got

Delivers(p, m) ==
  /\ DOMAIN pipes' = DOMAIN pipes
  /\ \A q \in DOMAIN pipes \ {p} : SamePipe(q)
  /\ pipes'[p].sent = pipes[p].sent /\ pipes'[p].got = Append(pipes[p].got, m)
  /\ m \in 1 .. pipes[p].sent
  /\ IF pipes[p].got = <<>> THEN m = 1 ELSE m > pipes[p].got[Len(pipes[p].got)]

ChannelStep ==
  \/ NothingMoves
  \/ \E p \in DOMAIN pipes : Sends(p) \/ \E m \in Nat : Delivers(p, m)

(* Steps that leave the pipes alone.                                       *)
LEMMA SamePipes ==
  ASSUME PipesAreOrdered, UNCHANGED pipes PROVE PipesAreOrdered' /\ NothingMoves
BY DEF PipesAreOrdered, NothingMoves, SamePipe

LEMMA StillWritten ==
  ASSUME DetectorInv, AllIsWritten, UNCHANGED pipes,
         DOMAIN collectors' = DOMAIN collectors,
         \A c \in DOMAIN collectors :
           /\ collectors'[c].pipe_fd = collectors[c].pipe_fd
           /\ collectors'[c].pipe = collectors[c].pipe
           /\ collectors'[c].batch = collectors[c].batch,
         \A f \in FDs : fd_table'[f].kind = "wr" => fd_table[f].kind = "wr"
  PROVE  AllIsWritten'
BY ThreadFields DEF DetectorInv, AllIsWritten, Kind

LEMMA StillCounted ==
  ASSUME EveryPipeHadItsExec, UNCHANGED <<execs, pipes, ring, batch>>,
         mpc \in HoldsPipe => mpc' \in HoldsPipe
  PROVE  EveryPipeHadItsExec'
BY DEF EveryPipeHadItsExec

LEMMA Counts ==
  ASSUME DetectorInv
  PROVE  Len(pipes) \in Nat /\ Len(ring) \in Nat /\ Len(batch) \in Nat
BY DEF DetectorInv, KernelTypes, MainTypes

(* The next event of a poll, with or without a pipe in hand.               *)
LEMMA NextEventCounts ==
  ASSUME DetectorInv, EveryPipeHadItsExec, NextEvent, UNCHANGED <<execs, pipes, ring>>,
         mpc \in HoldsPipe \cup {"handle"}
  PROVE  EveryPipeHadItsExec'
<1>1. Len(batch') = Len(batch) - 1 /\ mpc' \notin HoldsPipe
  BY DEF DetectorInv, MainTypes, NextEvent, HoldsPipe
<1> QED
  BY <1>1, Counts DEF EveryPipeHadItsExec

LEMMA EnvironmentInOrder ==
  ASSUME DetectorInv, OrderInv, Captures \/ Interrupt \/ Clock \/ Stopped \/ UNCHANGED vars
  PROVE  OrderInv' /\ NothingMoves
<1>1. UNCHANGED <<fd_table, pipes, collectors, mpc, batch>>
  BY DEF Captures, Interrupt, Clock, Stopped, Exec, Signal, Tick, vars, main_vars, shared,
     kernel, others, receive_vars
<1>2. AllIsWritten' /\ PipesAreOrdered' /\ NothingMoves
  BY <1>1, StillWritten, SamePipes DEF OrderInv
<1>3. CASE UNCHANGED <<execs, ring>>
  BY <1>1, <1>2, <1>3, StillCounted DEF OrderInv
<1>4. ASSUME NEW p \in PIDs, Exec(p) PROVE EveryPipeHadItsExec'
  <2>1. Len(ring') <= Len(ring) + 1 /\ execs' = execs + 1 /\ execs < MAX_EXECS
        /\ Len(ring') \in Nat
    BY <1>4 DEF Exec, DetectorInv, MainTypes
  <2> QED
    BY <1>1, <2>1, Counts, TheMainAssumption DEF OrderInv, EveryPipeHadItsExec
<1>5. UNCHANGED <<execs, ring>> \/ \E p \in PIDs : Exec(p)
  BY DEF Captures, Interrupt, Clock, Stopped, Signal, Tick, vars, main_vars
<1> QED
  BY <1>2, <1>3, <1>4, <1>5 DEF OrderInv

LEMMA LoopMovesInOrder ==
  ASSUME DetectorInv, OrderInv, UNCHANGED execs,
         \/ CheckExiting \/ Poll \/ PollFails \/ FreeTables
         \/ HandleRecent /\ UNCHANGED ring
         \/ HandlePipe /\ UNCHANGED <<ring, fd_table, pipes>> /\ NextEvent
  PROVE  OrderInv' /\ NothingMoves
<1>1. UNCHANGED <<fd_table, pipes, collectors>>
  BY DEF CheckExiting, Poll, PollFails, FreeTables, HandleRecent, HandlePipe, others, kernel
<1>2. AllIsWritten' /\ PipesAreOrdered' /\ NothingMoves
  BY <1>1, StillWritten, SamePipes DEF OrderInv
<1>3. CASE CheckExiting \/ Poll \/ PollFails \/ FreeTables
  <2>1. Len(ring') + Len(batch') <= Len(ring) + Len(batch) /\ mpc \notin HoldsPipe
        /\ Len(ring') \in Nat /\ Len(batch') \in Nat /\ mpc' \notin HoldsPipe
    BY <1>3, Counts DEF CheckExiting, Poll, PollFails, FreeTables, Available, MainGo, MainAt,
       HoldsPipe
  <2> QED
    BY <1>1, <1>2, <2>1, Counts DEF OrderInv, EveryPipeHadItsExec
<1>4. CASE \/ HandleRecent /\ UNCHANGED ring
           \/ HandlePipe /\ UNCHANGED <<ring, fd_table, pipes>> /\ NextEvent
  BY <1>1, <1>2, <1>4, NextEventCounts DEF OrderInv, HandleRecent, HandlePipe, MainAt
<1> QED
  BY <1>3, <1>4

LEMMA HandlePipeInOrder ==
  ASSUME DetectorInv, OrderInv, HandlePipe, mpc' = "register",
         \E rd, wr \in Free : rd # wr /\ NewPipe(rd, wr),
         UNCHANGED <<batch, ring, execs>>
  PROVE  OrderInv' /\ NothingMoves
<1> PICK rd \in Free, wr \in Free : rd # wr /\ NewPipe(rd, wr)
  OBVIOUS
<1> DEFINE p == Len(pipes) + 1
<1>1. UNCHANGED <<batch, ring, execs, collectors>> /\ mpc = "handle" /\ mpc' = "register"
  BY DEF HandlePipe, MainAt
<1>2. /\ DOMAIN pipes' = DOMAIN pipes \cup {p} /\ p \notin DOMAIN pipes /\ p \in Nat
      /\ pipes'[p] = Unused /\ Len(pipes') = Len(pipes) + 1
      /\ \A q \in DOMAIN pipes : pipes'[q] = pipes[q]
  <2>1. pipes' = Append(pipes, Unused)
    BY DEF NewPipe, Unused
  <2> HIDE DEF Unused
  <2> QED
    BY <2>1 DEF DetectorInv, KernelTypes
<1>3. Unused.units = <<>> /\ Unused.sent = 0 /\ Unused.got = <<>>
  BY DEF Unused
<1>4. PipesAreOrdered' /\ NothingMoves
  <2>1. /\ InSequence(pipes'[p].units, pipes'[p].sent)
        /\ FollowsOn(pipes'[p].units, pipes'[p].sent, pipes'[p].got)
    BY <1>2, <1>3 DEF InSequence, FollowsOn
  <2> QED
    BY <1>2, <1>3, <2>1 DEF OrderInv, PipesAreOrdered, NothingMoves, SamePipe
<1>5. AllIsWritten'
  <2>1. \A f \in FDs \ {rd, wr} : fd_table'[f] = fd_table[f]
    BY DEF NewPipe, DetectorInv, KernelTypes
  <2>2. ASSUME NEW c \in DOMAIN collectors
        PROVE  /\ collectors[c].pipe_fd \in FDs \ {rd, wr}
               /\ collectors[c].pipe \in DOMAIN pipes
    <3>1. fd_table[collectors[c].pipe_fd] = WriteEnd(collectors[c].pipe)
      BY <1>1 DEF DetectorInv, ThreadsHaveSlots, Loop
    <3> QED
      BY <3>1, ThreadFields DEF DetectorInv, Free, WriteEnd
  <2> QED
    BY <1>1, <1>2, <2>1, <2>2 DEF OrderInv, AllIsWritten, Kind
<1>6. EveryPipeHadItsExec'
  BY <1>1, <1>2, Counts DEF OrderInv, EveryPipeHadItsExec, HoldsPipe
<1> QED
  BY <1>4, <1>5, <1>6 DEF OrderInv

LEMMA GiveUpInOrder ==
  ASSUME DetectorInv, OrderInv, GiveUp, mpc \in HoldsPipe, UNCHANGED <<ring, execs>>
  PROVE  OrderInv' /\ NothingMoves
<1>1. UNCHANGED <<pipes, collectors>> /\ NextEvent /\ fd_table' = CloseAll({fresh.rd, fresh.wr})
  BY DEF GiveUp, GivenUp
<1>2. \A f \in FDs : fd_table'[f].kind = "wr" => fd_table[f].kind = "wr"
  BY <1>1 DEF CloseAll, Closed
<1> QED
  BY <1>1, <1>2, StillWritten, SamePipes, NextEventCounts DEF OrderInv

LEMMA SpawnInOrder ==
  ASSUME DetectorInv, OrderInv, Spawn, UNCHANGED <<ring, execs>>
  PROVE  OrderInv' /\ NothingMoves
<1> DEFINE new == NewCollector(fresh.pid, fresh.wr, fresh.pipe)
<1>1. UNCHANGED <<pipes, fd_table>> /\ NextEvent /\ mpc \in HoldsPipe
      /\ collectors' = Append(collectors, new)
  BY DEF Spawn, MainAt, kernel, HoldsPipe
<1>2. new.pipe = fresh.pipe /\ new.batch = 1 /\ pipes[fresh.pipe].sent = 0
  BY <1>1 DEF NewCollector, DetectorInv, FreshPipe
<1> HIDE DEF new
<1>3. \A c \in DOMAIN collectors' :
        IF c \in DOMAIN collectors THEN collectors'[c] = collectors[c]
        ELSE collectors'[c] = new
  BY <1>1 DEF DetectorInv, ThreadTypes
<1>4. AllIsWritten'
  BY <1>1, <1>2, <1>3 DEF OrderInv, AllIsWritten, Kind
<1> QED
  BY <1>1, <1>4, SamePipes, NextEventCounts DEF OrderInv

LEMMA MainInOrder ==
  ASSUME DetectorInv, OrderInv, Main PROVE OrderInv' /\ NothingMoves
<1>1. UNCHANGED execs
  BY DEF Main, MainStep
<1>2. ASSUME HandlePipe, UNCHANGED ring PROVE OrderInv' /\ NothingMoves
  BY <1>1, <1>2, HandlePipeMakes, LoopMovesInOrder, HandlePipeInOrder
<1>3. ASSUME Register, UNCHANGED ring PROVE OrderInv' /\ NothingMoves
  <2>1. UNCHANGED <<fd_table, pipes, collectors, batch>> /\ mpc' = "spawn"
    BY <1>3 DEF Register, MainGo, kernel
  <2> QED
    BY <1>1, <1>3, <2>1, StillWritten, SamePipes, StillCounted DEF OrderInv, HoldsPipe
<1>4. ASSUME HandleEvent PROVE OrderInv' /\ NothingMoves
  <2>1. /\ \/ HandleRecent \/ HandlePipe \/ RegisterFull \/ Register \/ Spawn \/ SpawnFails
        /\ UNCHANGED ring
    BY <1>4 DEF HandleEvent
  <2>2. RegisterFull \/ SpawnFails => GiveUp /\ mpc \in HoldsPipe
    BY DEF RegisterFull, SpawnFails, MainAt, HoldsPipe
  <2> QED
    BY <1>1, <1>2, <1>3, <2>1, <2>2, LoopMovesInOrder, GiveUpInOrder, SpawnInOrder
<1>5. ASSUME CleanUp PROVE OrderInv' /\ NothingMoves
  <2>1. UNCHANGED <<pipes, collectors, ring, batch>> /\ mpc \notin HoldsPipe
    BY <1>5 DEF CleanUp, LockPipes, ClosePipe, UnlockPipes, Return, MainGo, MainAt, kernel,
       HoldsPipe
  <2>2. fd_table' = fd_table \/ fd_table' = CloseAll({Head(closing)})
    BY <1>5 DEF CleanUp, LockPipes, ClosePipe, UnlockPipes, Return, kernel
  <2>3. \A f \in FDs : fd_table'[f].kind = "wr" => fd_table[f].kind = "wr"
    BY <2>2 DEF CloseAll, Closed
  <2> QED
    BY <1>1, <2>1, <2>3, StillWritten, SamePipes, StillCounted DEF OrderInv
<1>6. CheckExiting \/ Poll \/ PollFails \/ HandleEvent \/ FreeTables \/ CleanUp
  BY DEF Main, MainStep
<1> QED
  BY <1>1, <1>4, <1>5, <1>6, LoopMovesInOrder

-----------------------------------------------------------------------------
(* A thread writes its next batch into its own pipe, or nowhere.           *)
LEMMA ThreadKeepsRecord ==
  ASSUME DetectorInv, NEW c \in DOMAIN collectors, OpenEvent(c) \/ CloseEvent(c)
  PROVE  /\ DOMAIN collectors' = DOMAIN collectors
         /\ \A d \in DOMAIN collectors :
              /\ collectors'[d].pipe_fd = collectors[d].pipe_fd
              /\ collectors'[d].pipe = collectors[d].pipe
              /\ collectors'[d].batch = collectors[d].batch
         /\ \A f \in FDs : fd_table'[f].kind = "wr" => fd_table[f].kind = "wr"
         /\ UNCHANGED pipes
<1>1. collectors[c] \in Thread
  BY ThreadFields DEF DetectorInv
<1>2. \A f \in FDs : fd_table'[f].kind = "wr" => fd_table[f].kind = "wr"
  <2>1. CASE CloseEvent(c)
    BY <2>1 DEF CloseEvent, CloseAll, Closed
  <2>2. ASSUME NEW fd, fd_table' = [fd_table EXCEPT ![fd] = PerfEvent]
        PROVE  \A f \in FDs : fd_table'[f].kind = "wr" => fd_table[f].kind = "wr"
    BY <2>2 DEF DetectorInv, KernelTypes, PerfEvent
  <2>3. CASE OpenEvent(c)
    <3>1. fd_table' = fd_table \/ \E fd : fd_table' = [fd_table EXCEPT ![fd] = PerfEvent]
      BY <2>3, Zenon DEF OpenEvent
    <3> QED
      BY <2>2, <3>1
  <2> QED
    BY <2>1, <2>3
<1>3. /\ DOMAIN collectors' = DOMAIN collectors
      /\ \A d \in DOMAIN collectors :
           /\ collectors'[d].pipe_fd = collectors[d].pipe_fd
           /\ collectors'[d].pipe = collectors[d].pipe
           /\ collectors'[d].batch = collectors[d].batch
  <2>1. CASE collectors' = [collectors EXCEPT ![c].pc = "failed"]
    BY <1>1, <2>1 DEF Thread
  <2>2. ASSUME NEW fds, NEW pc, collectors' = [collectors EXCEPT ![c].fds = fds, ![c].pc = pc]
        PROVE  /\ DOMAIN collectors' = DOMAIN collectors
               /\ \A d \in DOMAIN collectors :
                    /\ collectors'[d].pipe_fd = collectors[d].pipe_fd
                    /\ collectors'[d].pipe = collectors[d].pipe
                    /\ collectors'[d].batch = collectors[d].batch
    BY <1>1, <2>2 DEF Thread
  <2>3. \/ collectors' = [collectors EXCEPT ![c].pc = "failed"]
        \/ \E fds, pc : collectors' = [collectors EXCEPT ![c].fds = fds, ![c].pc = pc]
    BY Zenon DEF OpenEvent, CloseEvent
  <2> QED
    BY <2>1, <2>2, <2>3
<1> QED
  BY <1>2, <1>3 DEF OpenEvent, CloseEvent

LEMMA AdvanceDoes ==
  ASSUME DetectorInv, NEW c \in DOMAIN collectors, collectors' = Advance(c)
  PROVE  /\ DOMAIN collectors' = DOMAIN collectors
         /\ \A d \in DOMAIN collectors :
              /\ collectors'[d].pipe_fd = collectors[d].pipe_fd
              /\ collectors'[d].pipe = collectors[d].pipe
              /\ d # c => collectors'[d].batch = collectors[d].batch
         /\ collectors'[c].batch = collectors[c].batch + 1
<1>1. collectors[c] \in Thread
  BY ThreadFields DEF DetectorInv
<1> QED
  BY <1>1 DEF Advance, Thread

(* Every piece of a message carries its number; only the first is a header. *)
LEMMA MessageFields ==
  ASSUME NEW pid \in PIDs, NEW b \in 1 .. BATCHES, NEW length \in MSG_UNITS,
         NEW i \in 1 .. length
  PROVE  /\ UnitsOf(pid, b, length)[i].batch = b
         /\ UnitsOf(pid, b, length)[i].head <=> i = 1
<1> DEFINE first == i = 1
<1>1. PICK unit : unit = [pid |-> pid, batch |-> b, head |-> first]
  OBVIOUS
<1>2. UnitsOf(pid, b, length)[i] = unit
  BY <1>1, UnitsTypes
<1> HIDE DEF first
<1>3. unit.batch = b
  BY <1>1
<1>4. unit.head = first
  BY <1>1
<1> QED
  BY <1>2, <1>3, <1>4 DEF first

Written(p, message) ==
  pipes' = [pipes EXCEPT ![p].units = @ \o message, ![p].sent = @ + 1]

LEMMA WriteInOrder ==
  ASSUME DetectorInv, OrderInv, NEW c \in DOMAIN collectors, collectors' = Advance(c),
         collectors[c].pc = "sample", fd_table[collectors[c].pipe_fd].kind = "wr",
         UNCHANGED fd_table, NEW length \in MSG_UNITS,
         Written(fd_table[collectors[c].pipe_fd].pipe,
                 UnitsOf(collectors[c].pid, collectors[c].batch, length))
  PROVE  /\ PipesAreOrdered' /\ AllIsWritten' /\ Sends(collectors[c].pipe)
         /\ Len(pipes') = Len(pipes)
<1> DEFINE old == collectors[c]
           p == old.pipe
           message == UnitsOf(old.pid, old.batch, length)
<1>1. /\ fd_table[old.pipe_fd].pipe = p /\ p \in DOMAIN pipes /\ old.pid \in PIDs
      /\ pipes[p].sent = old.batch - 1
  BY ThreadFields DEF DetectorInv, OwnPipes, OrderInv, AllIsWritten, Kind
<1>2. /\ pipes \in Seq(Pipe) /\ pipes[p] \in Pipe /\ pipes[p].units \in Seq(Unit)
      /\ pipes[p].got \in Seq(1 .. BATCHES) /\ pipes[p].sent \in Nat
  BY <1>1, PipeFields DEF DetectorInv, KernelTypes
<1>3. old.batch \in 1 .. BATCHES /\ old.batch = pipes[p].sent + 1
  <2>1. old.batch \in 1 .. BATCHES + 1 /\ old.batch <= BATCHES
    BY ThreadFields DEF DetectorInv, ThreadTypes, ThreadState, Thread
  <2> QED
    BY <1>1, <1>2, <2>1, Bounds
<1> HIDE DEF old, p
<1>4. /\ message \in Seq(Unit) /\ message # <<>>
      /\ \A i \in DOMAIN message :
           message[i].batch = pipes[p].sent + 1 /\ (message[i].head <=> i = 1)
  <2>1. /\ message \in Seq(Unit) /\ Len(message) = length /\ length \in Nat \ {0}
        /\ DOMAIN message = 1 .. length
        /\ \A i \in 1 .. length :
             message[i].batch = old.batch /\ (message[i].head <=> i = 1)
    <3>1. old.pid \in PIDs /\ old.batch \in 1 .. BATCHES /\ length \in MSG_UNITS
      BY <1>1, <1>3
    <3> QED
      BY <3>1, UnitsTypes, MessageFields
  <2> HIDE DEF message
  <2>2. ASSUME NEW i \in DOMAIN message
        PROVE  message[i].batch = pipes[p].sent + 1 /\ (message[i].head <=> i = 1)
    BY <1>3, <2>1
  <2> QED
    BY <2>1, <2>2
<1>5. /\ DOMAIN pipes' = DOMAIN pipes /\ Len(pipes') = Len(pipes)
      /\ pipes'[p].units = pipes[p].units \o message
      /\ pipes'[p].sent = pipes[p].sent + 1 /\ pipes'[p].got = pipes[p].got
      /\ \A q \in DOMAIN pipes \ {p} : pipes'[q] = pipes[q]
  <2>1. PICK new : new = [pipes[p] EXCEPT !.units = pipes[p].units \o message,
                                          !.sent = pipes[p].sent + 1]
    OBVIOUS
  <2>2. /\ new \in Pipe /\ new.units = pipes[p].units \o message
        /\ new.sent = pipes[p].sent + 1 /\ new.got = pipes[p].got
    <3>1. pipes[p].sent + 1 \in 0 .. BATCHES
      BY <1>2, <1>3, Bounds
    <3>2. pipes[p].units \o message \in Seq(Unit)
      BY <1>2, <1>4
    <3> HIDE DEF message
    <3> QED
      BY <1>2, <2>1, <3>1, <3>2 DEF Pipe
  <2>3. pipes' = [pipes EXCEPT ![p] = new]
    BY <1>1, <2>1 DEF Written, old
  <2> HIDE DEF message
  <2>4. /\ DOMAIN pipes' = DOMAIN pipes /\ Len(pipes') = Len(pipes) /\ pipes'[p] = new
        /\ \A q \in DOMAIN pipes \ {p} : pipes'[q] = pipes[q]
    BY <1>1, <1>2, <2>2, <2>3
  <2> QED
    BY <2>2, <2>4
<1> HIDE DEF message
<1>6. Sends(p)
  BY <1>5 DEF Sends, SamePipe
<1>7. PipesAreOrdered'
  <2>1. /\ InSequence(pipes[p].units, pipes[p].sent)
        /\ FollowsOn(pipes[p].units, pipes[p].sent, pipes[p].got)
    BY <1>1 DEF OrderInv, PipesAreOrdered
  <2>2. /\ InSequence(pipes'[p].units, pipes'[p].sent)
        /\ FollowsOn(pipes'[p].units, pipes'[p].sent, pipes'[p].got)
    <3>1. /\ InSequence(pipes[p].units \o message, pipes[p].sent + 1)
          /\ FollowsOn(pipes[p].units \o message, pipes[p].sent + 1, pipes[p].got)
      BY <1>2, <1>4, <2>1, SendKeepsOrder
    <3> QED
      BY <1>5, <3>1
  <2> QED
    BY <1>5, <2>2 DEF OrderInv, PipesAreOrdered
<1>8. AllIsWritten'
  <2>1. /\ DOMAIN collectors' = DOMAIN collectors
        /\ \A d \in DOMAIN collectors :
             /\ collectors'[d].pipe_fd = collectors[d].pipe_fd
             /\ collectors'[d].pipe = collectors[d].pipe
             /\ d # c => collectors'[d].batch = collectors[d].batch
        /\ collectors'[c].batch = old.batch + 1
    BY AdvanceDoes DEF old
  <2>2. ASSUME NEW d \in DOMAIN collectors, fd_table[collectors[d].pipe_fd].kind = "wr"
        PROVE  pipes'[collectors[d].pipe].sent = collectors'[d].batch - 1
    <3>1. CASE d = c
      <4>1. collectors'[c].batch - 1 = pipes[p].sent + 1
        BY <1>2, <1>3, <2>1
      <4>2. collectors[d].pipe = p
        BY <3>1 DEF old, p
      <4> QED
        BY <1>5, <3>1, <4>1, <4>2
    <3>2. CASE d # c
      <4>1. collectors[d].pipe # p /\ collectors[d].pipe \in DOMAIN pipes
        BY <3>2, ThreadFields DEF DetectorInv, OwnPipes, old, p
      <4>2. pipes[collectors[d].pipe].sent = collectors[d].batch - 1
        BY <2>2 DEF OrderInv, AllIsWritten, Kind
      <4> QED
        BY <1>5, <2>1, <3>2, <4>1, <4>2
    <3> QED
      BY <3>1, <3>2
  <2> QED
    BY <2>1, <2>2 DEF AllIsWritten, Kind
<1> QED
  BY <1>5, <1>6, <1>7, <1>8 DEF old, p

LEMMA CollectorInOrder ==
  ASSUME DetectorInv, OrderInv, NEW c \in DOMAIN collectors, Collector(c)
  PROVE  OrderInv' /\ ChannelStep
<1>1. /\ OpenEvent(c) \/ WriteBatch(c, reading) \/ CloseEvent(c)
      /\ UNCHANGED <<execs, ring, batch, mpc>>
  BY DEF Collector, CollectorStep, main_vars
<1>2. ASSUME UNCHANGED pipes PROVE EveryPipeHadItsExec' /\ PipesAreOrdered' /\ ChannelStep
  BY <1>1, <1>2, SamePipes, StillCounted DEF OrderInv, ChannelStep
<1>3. CASE OpenEvent(c) \/ CloseEvent(c)
  BY <1>2, <1>3, ThreadKeepsRecord, StillWritten DEF OrderInv
<1>4. CASE WriteBatch(c, reading)
  <2> DEFINE target == fd_table[collectors[c].pipe_fd]
  <2>1. UNCHANGED fd_table /\ collectors[c].pc = "sample"
    BY <1>4 DEF WriteBatch
  <2>2. CASE UNCHANGED <<collectors, pipes>>
    BY <1>2, <2>1, <2>2, StillWritten DEF OrderInv
  <2>3. CASE target.kind # "wr" /\ collectors' = Advance(c) /\ UNCHANGED pipes
    <3>1. AllIsWritten'
      BY <2>1, <2>3, AdvanceDoes DEF OrderInv, AllIsWritten, Kind
    <3> QED
      BY <1>2, <2>3, <3>1 DEF OrderInv
  <2>4. ASSUME target.kind = "wr", collectors' = Advance(c), NEW length \in MSG_UNITS,
               Written(target.pipe, UnitsOf(collectors[c].pid, collectors[c].batch, length))
        PROVE  OrderInv' /\ ChannelStep
    <3>1. /\ PipesAreOrdered' /\ AllIsWritten' /\ Sends(collectors[c].pipe)
          /\ Len(pipes') = Len(pipes)
      BY <2>1, <2>4, WriteInOrder
    <3>2. EveryPipeHadItsExec'
      BY <1>1, <3>1 DEF OrderInv, EveryPipeHadItsExec
    <3>3. collectors[c].pipe \in DOMAIN pipes
      BY ThreadFields DEF DetectorInv
    <3> QED
      BY <3>1, <3>2, <3>3 DEF OrderInv, ChannelStep
  <2> QED
    BY <1>4, <2>2, <2>3, <2>4 DEF WriteBatch, Written
<1> QED
  BY <1>1, <1>3, <1>4

-----------------------------------------------------------------------------
(* With memory for them all, every message that is read is stored.         *)
LEMMA StoresWithMemory ==
  ASSUME ALLOC_FAILS = {}, NEW table, NEW pid, NEW item, NEW t,
         NEW o \in add_data_to_pid(table, pid, item, t)
  PROVE  o.rc = 0
<1>1. \A tb : \A r \in Store(tb, pid, item, t) : r.rc = 0
  BY DEF Store, Outcome
<1>2. \A tb : \A r \in Expand(tb, pid) : r.rc = 0
  BY DEF Expand, Outcome
<1>3. \A r \in get_pid_data(table, pid, t) : r.rc = 0
  BY DEF get_pid_data, Outcome
<1>4. \A r \in Then(get_pid_data(table, pid, t), LAMBDA tb : Expand(tb, pid)) : r.rc = 0
  BY <1>2, <1>3 DEF Then
<1>5. \A r \in add_data_to_pid(table, pid, item, t) : r.rc = 0
  BY <1>1, <1>4 DEF add_data_to_pid, Then
<1> QED
  BY <1>5

(* What a read that found data does: a header is filed, the rest dropped.  *)
LEMMA DeliverFiles ==
  ASSUME ALLOC_FAILS = {}, NEW p, NEW units, NEW t, Deliver(p, units, t),
         units = pipes[p].units
  PROVE  Drained(p, IF Head(units).head THEN Append(pipes[p].got, Head(units).batch)
                    ELSE pipes[p].got)
<1>1. CASE Head(units).head
  <2>1. PICK o \in add_data_to_pid(data_table, Head(units).pid, Head(units).batch, t) :
          pipes' = [pipes EXCEPT
                      ![p].units = Left(units),
                      ![p].got = IF o.rc = 0 THEN Append(pipes[p].got, Head(units).batch)
                                 ELSE pipes[p].got]
    BY <1>1 DEF Deliver, Header
  <2>2. o.rc = 0
    BY StoresWithMemory
  <2> QED
    BY <1>1, <2>1, <2>2 DEF Drained
<1>2. CASE ~ Head(units).head
  BY <1>2 DEF Deliver, Header, Drained
<1> QED
  BY <1>1, <1>2

LEMMA DrainedFields ==
  ASSUME KernelTypes, NEW p \in DOMAIN pipes, NEW got, Drained(p, got)
  PROVE  pipes'[p].got = got
<1>1. pipes \in Seq(Pipe) /\ pipes[p] \in Pipe
  BY DEF KernelTypes
<1>2. PICK new : new = [pipes[p] EXCEPT !.units = Left(pipes[p].units), !.got = got]
  OBVIOUS
<1>3. new.got = got
  BY <1>1, <1>2 DEF Pipe
<1> QED
  BY <1>1, <1>2, <1>3 DEF Drained

LEMMA DeliverInOrder ==
  ASSUME ALLOC_FAILS = {}, KernelTypes, PipesAreOrdered, UNCHANGED fd_table,
         NEW p \in DOMAIN pipes, pipes[p].units # <<>>, NEW t,
         Deliver(p, pipes[p].units, t)
  PROVE  PipesAreOrdered' /\ ChannelStep
<1> DEFINE us == pipes[p].units
           sent == pipes[p].sent
           got == pipes[p].got
           files == us[1].head
           after == IF files THEN Append(got, us[1].batch) ELSE got
<1>1. /\ DOMAIN pipes' = DOMAIN pipes
      /\ pipes'[p].units = Left(us) /\ pipes'[p].sent = sent
      /\ \A q \in DOMAIN pipes \ {p} : pipes'[q] = pipes[q]
  BY DrainKeepsTypes
<1>2. us \in Seq(Unit) /\ sent \in Nat /\ got \in Seq(1 .. BATCHES) /\ us # <<>>
  BY PipeFields
<1>3. pipes'[p].got = after
  <2>1. Head(us) = us[1]
    BY <1>2
  <2>2. Drained(p, after)
    BY <2>1, DeliverFiles
  <2> HIDE DEF after
  <2> QED
    BY <2>2, DrainedFields
<1>4. InSequence(us, sent) /\ FollowsOn(us, sent, got)
  BY DEF PipesAreOrdered
<1> HIDE DEF us, sent, got
<1>5. /\ InSequence(Left(us), sent)
      /\ files \/ FollowsOn(Left(us), sent, got)
      /\ files => /\ FollowsOn(Left(us), sent, Append(got, us[1].batch))
                  /\ IF got = <<>> THEN us[1].batch = 1 ELSE us[1].batch > got[Len(got)]
                  /\ us[1].batch \in 1 .. sent
  BY <1>2, <1>4, ReadKeepsOrder
<1>6. PipesAreOrdered'
  <2>1. FollowsOn(Left(us), sent, after)
    BY <1>5
  <2> HIDE DEF after
  <2>2. InSequence(pipes'[p].units, pipes'[p].sent)
        /\ FollowsOn(pipes'[p].units, pipes'[p].sent, pipes'[p].got)
    BY <1>1, <1>3, <1>5, <2>1
  <2> QED
    BY <1>1, <2>2 DEF PipesAreOrdered
<1>7. CASE files
  <2>1. pipes'[p].got = Append(got, us[1].batch) /\ us[1].batch \in Nat
    BY <1>2, <1>3, <1>5, <1>7
  <2>2. Delivers(p, us[1].batch)
    BY <1>1, <1>5, <1>7, <2>1 DEF Delivers, SamePipe, sent, got
  <2> QED
    BY <1>6, <2>1, <2>2 DEF ChannelStep
<1>8. CASE ~ files
  <2>1. NothingMoves
    BY <1>1, <1>3, <1>8 DEF NothingMoves, SamePipe, sent, got
  <2> QED
    BY <1>6, <2>1 DEF ChannelStep
<1> QED
  BY <1>7, <1>8

LEMMA ReceiverInOrder ==
  ASSUME ALLOC_FAILS = {}, DetectorInv, OrderInv, Receiver
  PROVE  OrderInv' /\ ChannelStep
<1>1. UNCHANGED <<main_vars, collectors, fd_table>> /\ ReceiveStep(now)
  BY DEF Receiver, ReceiveStep
<1>2. CASE UNCHANGED pipes
  <2>1. AllIsWritten' /\ PipesAreOrdered' /\ NothingMoves
    BY <1>1, <1>2, StillWritten, SamePipes DEF OrderInv
  <2>2. EveryPipeHadItsExec'
    BY <1>1, <1>2, StillCounted DEF OrderInv, main_vars
  <2> QED
    BY <2>1, <2>2 DEF OrderInv, ChannelStep
<1>3. ASSUME NEW p \in DOMAIN pipes, pipes[p].units # <<>>,
             Deliver(p, pipes[p].units, now)
      PROVE  OrderInv' /\ ChannelStep
  <2>1. PipesAreOrdered' /\ ChannelStep
    BY <1>1, <1>3, DeliverInOrder DEF DetectorInv, OrderInv
  <2>2. /\ DOMAIN pipes' = DOMAIN pipes /\ pipes' \in Seq(Pipe) /\ pipes \in Seq(Pipe)
        /\ \A q \in DOMAIN pipes : pipes'[q].sent = pipes[q].sent
    BY <1>1, <1>3, DrainKeepsTypes DEF DetectorInv, KernelTypes
  <2>3. Len(pipes') = Len(pipes)
    BY <2>2
  <2>4. AllIsWritten'
    BY <1>1, <2>2, ThreadFields DEF DetectorInv, OrderInv, AllIsWritten, Kind
  <2>5. EveryPipeHadItsExec'
    BY <1>1, <2>3 DEF OrderInv, EveryPipeHadItsExec, main_vars
  <2> QED
    BY <2>1, <2>4, <2>5 DEF OrderInv
<1>4. CASE ReadData(now)
  BY <1>3, <1>4, ServedEnd DEF ReadData
<1>5. CASE ReadWakes(now)
  <2>1. reading \in DOMAIN pipes
    BY <1>5 DEF ReadWakes, DetectorInv, ReceiverTypes
  <2> QED
    BY <1>2, <1>3, <1>5, <2>1 DEF ReadWakes
<1> QED
  BY <1>1, <1>2, <1>4, <1>5 DEF ReceiveStep, ReadNothing, ReadBlocks

-----------------------------------------------------------------------------
LEMMA OrderInit == Init => OrderInv
BY TheMainAssumption DEF Init, ProcessInit, MainInit, OrderInv, PipesAreOrdered,
   AllIsWritten, EveryPipeHadItsExec, HoldsPipe

LEMMA OrderNext ==
  ASSUME ALLOC_FAILS = {}, DetectorInv, OrderInv, [Next]_vars
  PROVE  OrderInv' /\ ChannelStep
BY EnvironmentInOrder, MainInOrder, CollectorInOrder, ReceiverInOrder DEF Next, ChannelStep

(* What a pipe holds is in the order it was written in, every message is   *)
(* older than what a thread writes next and newer than what arrived.       *)
THEOREM MessagesInOrder ==
  ASSUME ALLOC_FAILS = {} PROVE Spec => []OrderInv
<1>1. DetectorInv /\ OrderInv /\ [Next]_vars => OrderInv'
  BY OrderNext
<1> QED
  BY <1>1, OrderInit, DetectorInvariant, PTL DEF Spec

-----------------------------------------------------------------------------
(* Every step of the detector is a step of the channels, or none.          *)
Sent == [p \in 1 .. MAX_EXECS |-> PipeOr(p, 0, "sent")]
Got == [p \in 1 .. MAX_EXECS |-> PipeOr(p, <<>>, "got")]

LEMMA PipesInRange ==
  ASSUME DetectorInv, OrderInv
  PROVE  DOMAIN pipes \subseteq 1 .. MAX_EXECS
<1>1. Len(pipes) <= MAX_EXECS
  <2>1. CASE mpc \in HoldsPipe
    <3>1. batch # <<>> /\ Len(batch) >= 1
      BY <2>1 DEF DetectorInv, MainTypes, HoldsPipe
    <3> QED
      BY <2>1, <3>1, Counts, TheMainAssumption DEF OrderInv, EveryPipeHadItsExec
  <2>2. CASE mpc \notin HoldsPipe
    BY <2>2, Counts, TheMainAssumption DEF OrderInv, EveryPipeHadItsExec
  <2> QED
    BY <2>1, <2>2
<1> QED
  BY <1>1, Counts, TheMainAssumption DEF DetectorInv, KernelTypes

LEMMA SentIs ==
  \A p \in 1 .. MAX_EXECS :
    /\ Sent[p] = IF p \in DOMAIN pipes THEN pipes[p].sent ELSE 0
    /\ Got[p] = IF p \in DOMAIN pipes THEN pipes[p].got ELSE <<>>
BY DEF Sent, Got, PipeOr

LEMMA SentBecomes ==
  \A p \in 1 .. MAX_EXECS :
    /\ Sent'[p] = IF p \in DOMAIN pipes' THEN pipes'[p].sent ELSE 0
    /\ Got'[p] = IF p \in DOMAIN pipes' THEN pipes'[p].got ELSE <<>>
BY DEF Sent, Got, PipeOr

LEMMA ChannelSteps ==
  ASSUME ChannelStep, DOMAIN pipes \subseteq 1 .. MAX_EXECS
  PROVE  \/ UNCHANGED <<Sent, Got>>
         \/ \E p \in 1 .. MAX_EXECS :
              \/ Sent' = [Sent EXCEPT ![p] = @ + 1] /\ UNCHANGED Got
              \/ \E m \in 1 .. Sent[p] :
                   /\ IF Got[p] = <<>> THEN m = 1 ELSE m > Got[p][Len(Got[p])]
                   /\ Got' = [Got EXCEPT ![p] = Append(@, m)]
                   /\ UNCHANGED Sent
<1>1. /\ Sent = [p \in 1 .. MAX_EXECS |-> Sent[p]] /\ Got = [p \in 1 .. MAX_EXECS |-> Got[p]]
      /\ Sent' = [p \in 1 .. MAX_EXECS |-> Sent'[p]] /\ Got' = [p \in 1 .. MAX_EXECS |-> Got'[p]]
  BY DEF Sent, Got
<1>2. CASE NothingMoves
  <2>1. \A p \in 1 .. MAX_EXECS : Sent'[p] = Sent[p] /\ Got'[p] = Got[p]
    BY <1>2, SentIs, SentBecomes DEF NothingMoves, SamePipe
  <2> QED
    BY <1>1, <2>1
<1>3. ASSUME NEW p \in DOMAIN pipes, Sends(p)
      PROVE  Sent' = [Sent EXCEPT ![p] = @ + 1] /\ UNCHANGED Got
  <2>1. \A q \in 1 .. MAX_EXECS :
          Sent'[q] = (IF q = p THEN Sent[q] + 1 ELSE Sent[q]) /\ Got'[q] = Got[q]
    <3> TAKE q \in 1 .. MAX_EXECS
    <3>1. CASE q = p
      BY <1>3, <3>1, SentIs, SentBecomes DEF Sends
    <3>2. CASE q # p
      BY <1>3, <3>2, SentIs, SentBecomes DEF Sends, SamePipe
    <3> QED
      BY <3>1, <3>2
  <2> QED
    BY <1>1, <2>1
<1>4. ASSUME NEW p \in DOMAIN pipes, NEW m, Delivers(p, m)
      PROVE  /\ IF Got[p] = <<>> THEN m = 1 ELSE m > Got[p][Len(Got[p])]
             /\ Got' = [Got EXCEPT ![p] = Append(@, m)]
             /\ UNCHANGED Sent
             /\ m \in 1 .. Sent[p]
  <2>1. \A q \in 1 .. MAX_EXECS :
          Got'[q] = (IF q = p THEN Append(Got[q], m) ELSE Got[q]) /\ Sent'[q] = Sent[q]
    <3> TAKE q \in 1 .. MAX_EXECS
    <3>1. CASE q = p
      BY <1>4, <3>1, SentIs, SentBecomes DEF Delivers
    <3>2. CASE q # p
      BY <1>4, <3>2, SentIs, SentBecomes DEF Delivers, SamePipe
    <3> QED
      BY <3>1, <3>2
  <2>2. Got' = [Got EXCEPT ![p] = Append(@, m)] /\ UNCHANGED Sent
    BY <1>1, <2>1
  <2>3. Got[p] = pipes[p].got /\ Sent[p] = pipes[p].sent
    BY SentIs
  <2> QED
    BY <1>4, <2>2, <2>3 DEF Delivers
<1> QED
  BY <1>2, <1>3, <1>4 DEF ChannelStep

(* With memory for every message, the pipes, the partial reads and the     *)
(* poll loop deliver each thread's messages in order, none twice, and      *)
(* never lose its first (add_data_to_pid and the loop of receive_thread).  *)
THEOREM DeliveryIsImplemented ==
  ASSUME ALLOC_FAILS = {} PROVE Spec => DeliverySpec
<1>1. Init => Channel!Init
  BY DEF Init, ProcessInit, Channel!Init, PipeOr
<1>2. DetectorInv /\ OrderInv /\ [Next]_vars => [Channel!Next]_(Channel!vars)
  <2> SUFFICES ASSUME DetectorInv, OrderInv, [Next]_vars
               PROVE  Channel!Next \/ UNCHANGED Channel!vars
    OBVIOUS
  <2>1. ChannelStep /\ DOMAIN pipes \subseteq 1 .. MAX_EXECS
    BY OrderNext, PipesInRange
  <2> QED
    BY <2>1, ChannelSteps DEF Channel!Next, Channel!vars, Channel!Send, Channel!Deliver,
       Channel!Newest, Sent, Got
<1> QED
  BY <1>1, <1>2, MessagesInOrder, DetectorInvariant, PTL DEF Spec, DeliverySpec, Channel!Spec
=============================================================================
