------------------------------ MODULE DataStore ------------------------------
(***************************************************************************)
(* data_table under the calls the receive thread makes: a message of some  *)
(* PID arrives, the periodic cleanup runs, the thread ends.  Time passes   *)
(* in between.  An item of a data array is the time the message arrived.   *)
(*                                                                         *)
(* A PID's messages can keep arriving for as long as the program runs: its *)
(* execve calls are monitored again every RECENT_SECS (5) seconds, each    *)
(* time for three messages, and 5 < STALE_SECS (10).                       *)
(***************************************************************************)
EXTENDS DataTable

CONSTANTS
  MAX_TIME,      (* bound on the clock                                    *)
  MAX_MESSAGES   (* bound on the messages of one PID                      *)

ASSUME DataStoreAssumption == MAX_TIME \in Nat /\ MAX_MESSAGES \in Nat

VARIABLES
  data_table,
  now,
  arrived,    (* history: times of the messages a call stored for a PID   *)
  swept       (* history: time of the last run of cleanup_old_data        *)

vars == <<data_table, now, arrived, swept>>

Init ==
  /\ data_table = EmptyTable
  /\ now = 0
  /\ arrived = [p \in PIDs |-> <<>>]
  /\ swept = 0

Receive(p) ==
  /\ Len(arrived[p]) < MAX_MESSAGES
  /\ \E o \in add_data_to_pid(data_table, p, now, now) :
       /\ data_table' = o.table
       /\ arrived' = IF o.rc = 0 THEN [arrived EXCEPT ![p] = Append(@, now)]
                     ELSE arrived
  /\ UNCHANGED <<now, swept>>

Cleanup ==
  /\ data_table' = cleanup_old_data(data_table, now)
  /\ swept' = now
  /\ UNCHANGED <<now, arrived>>

Tick ==
  /\ now < MAX_TIME
  /\ now' = now + 1
  /\ UNCHANGED <<data_table, arrived, swept>>

Next == Cleanup \/ Tick \/ \E p \in PIDs : Receive(p)

Spec == Init /\ [][Next]_vars

-----------------------------------------------------------------------------
Node == [pid : PIDs, timestamp : Nat, data : Seq(Nat),
         data_capacity : Nat, allocated : Nat]

TypeOK ==
  /\ data_table \in [Buckets -> Seq(Node)]
  /\ now \in Nat
  /\ arrived \in [PIDs -> Seq(Nat)]
  /\ swept \in Nat

(* No PID ever has two nodes or a node in a foreign bucket, through        *)
(* insertion at the head, failed allocations and removal from the middle   *)
(* of a chain (receive.c get_pid_data, cleanup_old_data).                  *)
UniqueNodes == WellFiled(data_table)

(* "Dynamically grow the data array": data_count never passes the number   *)
(* of slots the array really has, and data_capacity says that number.      *)
CapacityIsAllocated ==
  \A b \in Buckets : \A i \in DOMAIN data_table[b] :
    LET node == data_table[b][i]
    IN  /\ node.data_capacity = node.allocated
        /\ Len(node.data) <= node.allocated

(* What a node holds is the latest part of the PID's history, in order,    *)
(* and nothing is lost early: the node reaches back to every message that  *)
(* is less than STALE_SECS old, whatever allocations failed since and      *)
(* whatever else was swept from its chain.                                 *)
FreshDataKept ==
  \A p \in PIDs :
    /\ Known(data_table, p) => IsSuffix(NodeOf(data_table, p).data, arrived[p])
    /\ \A i \in DOMAIN arrived[p] :
         now - arrived[p][i] < STALE_SECS =>
           /\ Known(data_table, p)
           /\ Len(arrived[p]) - Len(NodeOf(data_table, p).data) < i

(* A sweep visits every node of every chain: until the clock moves on, no  *)
(* node is left whose last message is STALE_SECS old, wherever it stood in *)
(* its chain (cleanup_old_data's prev/next relinking).                     *)
SweepIsComplete ==
  swept = now =>
    \A b \in Buckets : \A i \in DOMAIN data_table[b] :
      now - data_table[b][i].timestamp < STALE_SECS
=============================================================================
