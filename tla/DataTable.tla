------------------------------ MODULE DataTable ------------------------------
(***************************************************************************)
(* data_table of receive.c: per PID, the messages received for it.  Only   *)
(* the receive thread touches it, so its operations are functions of the   *)
(* table value.  An allocation may fail anywhere the code asks for memory: *)
(* an operation that allocates is the set of its possible outcomes, each   *)
(* the resulting table and the value the C function returns.               *)
(*                                                                         *)
(* A node's data array is the sequence data; data_capacity is the field of *)
(* that name, and allocated the number of slots the array really has.      *)
(***************************************************************************)
EXTENDS HashTable, SequencesExt

CONSTANTS
  STALE_SECS,     (* age at which a node is dropped, 10                   *)
  INIT_CAPACITY,  (* slots of a new node's data array, 10                 *)
  ALLOC_FAILS     (* allocations that may fail in this instance           *)

ASSUME DataTableAssumption ==
  /\ STALE_SECS \in Nat \ {0}
  /\ INIT_CAPACITY \in Nat \ {0}
  /\ ALLOC_FAILS \subseteq {"node", "realloc", "strndup"}

(* A node whose count was not cleared by the allocation.                   *)
NewNodeUninitialised(pid, t) ==
  [pid |-> pid, timestamp |-> t, data |-> <<-1>>,
   data_capacity |-> INIT_CAPACITY, allocated |-> INIT_CAPACITY]

NewNode(pid, t) ==
  [pid |-> pid, timestamp |-> t, data |-> <<>>,
   data_capacity |-> INIT_CAPACITY, allocated |-> INIT_CAPACITY]

Outcome(table, rc) == [table |-> table, rc |-> rc]

(* get_pid_data: the node of pid, linked in at the head if it is new; NULL *)
(* (rc -1) if the node or its array cannot be allocated.                   *)
get_pid_data(table, pid, t) ==
  IF Known(table, pid) THEN {Outcome(table, 0)}
  ELSE {Outcome(LinkFirst(table, NewNode(pid, t)), 0)}
       \cup {Outcome(table, -1) : f \in ALLOC_FAILS \cap {"node"}}

Full(node) == Len(node.data) >= node.data_capacity

(* The array is never grown: the next message is stored past its end.      *)
ExpandNever(table, pid) == {Outcome(table, 0)}

(* Room for one more message.  The capacity field is doubled before        *)
(* realloc is asked for the memory, and stays doubled when realloc fails.  *)
Expand(table, pid) ==
  LET node    == NodeOf(table, pid)
      doubled == 2 * node.data_capacity
  IN  IF ~ Full(node) THEN {Outcome(table, 0)}
      ELSE {Outcome(Update(table, [node EXCEPT !.data_capacity = doubled,
                                               !.allocated = doubled]), 0)}
           \cup {Outcome(Update(table, [node EXCEPT !.data_capacity = doubled]), -1)
                  : f \in ALLOC_FAILS \cap {"realloc"}}

(* The count is not advanced: the message takes the newest one's place.    *)
StoreOverNewest(table, pid, item, t) ==
  LET node == NodeOf(table, pid)
      kept == IF node.data = <<>> THEN <<>> ELSE Front(node.data)
  IN  {Outcome(Update(table, [node EXCEPT !.data = Append(kept, item),
                                          !.timestamp = t]), 0)}

(* The copy of the message and the new time of its node.                   *)
Store(table, pid, item, t) ==
  {Outcome(Update(table, [NodeOf(table, pid) EXCEPT !.data = Append(@, item),
                                                    !.timestamp = t]), 0)}
  \cup {Outcome(table, -1) : f \in ALLOC_FAILS \cap {"strndup"}}

(* Outcomes of step two after each outcome of step one; -1 ends the call.  *)
Then(outcomes, Step(_)) ==
  UNION {IF o.rc = -1 THEN {o} ELSE Step(o.table) : o \in outcomes}

(* add_data_to_pid up to the inference, which does not touch the table's   *)
(* shape.                                                                  *)
add_data_to_pid(table, pid, item, t) ==
  Then(Then(get_pid_data(table, pid, t), LAMBDA tb : Expand(tb, pid)),
       LAMBDA tb : Store(tb, pid, item, t))

(* Age at which a node goes, one second too soon.                          *)
StaleTooSoon(node, t) == t - node.timestamp >= STALE_SECS - 1

Stale(node, t) == t - node.timestamp >= STALE_SECS

(* A cleanup that gives up on a chain at its first fresh node.             *)
CleanupPrefixOnly(table, t) ==
  [b \in Buckets |->
     IF table[b] # <<>> /\ Stale(Head(table[b]), t) THEN Tail(table[b])
     ELSE table[b]]

(* The walk along a chain: a stale node is unlinked, any other stays and   *)
(* is the one the next is linked behind.                                   *)
Kept(chain, t) ==
  LET kept[k \in 0 .. Len(chain)] ==
        IF k = 0 THEN <<>>
        ELSE IF Stale(chain[k], t) THEN kept[k - 1] ELSE Append(kept[k - 1], chain[k])
  IN  kept[Len(chain)]

cleanup_old_data(table, t) == [b \in Buckets |-> Kept(table[b], t)]

cleanup_all_data(table) == EmptyTable
=============================================================================
