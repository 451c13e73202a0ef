------------------------------ MODULE HashTable ------------------------------
(***************************************************************************)
(* The hash table both user-space threads of the detector keep: pid_table  *)
(* in the_main.c and data_table in receive.c.  Each file has its own copy  *)
(* of the same code: HASH_SIZE buckets, a singly linked chain per bucket,  *)
(* new nodes linked in at the head, a lookup that walks the chain from the *)
(* head.  A chain is a sequence of nodes, head first; a node is a record   *)
(* with a pid field and whatever else the table stores.  All operators are *)
(* functions of a table value, so each owner keeps its own variable.       *)
(***************************************************************************)
EXTENDS Integers, Sequences

CONSTANTS
  PIDs,       (* the process ids that can appear                    *)
  HASH_SIZE   (* number of buckets, 1024 in both files              *)

ASSUME HashTableAssumption ==
  /\ PIDs \subseteq Nat
  /\ HASH_SIZE \in Nat \ {0}

Buckets == 0 .. HASH_SIZE - 1

hash_pid(pid) == pid % HASH_SIZE

EmptyTable == [b \in Buckets |-> <<>>]

(* A lookup that stopped after the first node of a chain.                  *)
HitsHeadOnly(chain, pid) == {i \in DOMAIN chain : i = 1 /\ chain[i].pid = pid}

(* A lookup that took any node of the bucket for the pid's own.            *)
HitsByBucket(chain, pid) == DOMAIN chain

(* Positions at which the walk along a chain would stop for pid.           *)
Hits(chain, pid) == {i \in DOMAIN chain : chain[i].pid = pid}

Known(table, pid) == Hits(table[hash_pid(pid)], pid) # {}

(* The walk stops at the first node with the pid.                          *)
First(chain, pid) ==
  CHOOSE i \in Hits(chain, pid) : \A j \in Hits(chain, pid) : i <= j

NodeOf(table, pid) ==
  table[hash_pid(pid)][First(table[hash_pid(pid)], pid)]

(* A new node becomes the head of its bucket's chain.                      *)
LinkFirst(table, node) ==
  [table EXCEPT ![hash_pid(node.pid)] = <<node>> \o @]

(* Overwrite the fields of the node a lookup of node.pid finds.            *)
Update(table, node) ==
  LET b == hash_pid(node.pid)
  IN  [table EXCEPT ![b] = [@ EXCEPT ![First(table[b], node.pid)] = node]]

(* No chain holds a pid twice, and every node is where a lookup of its pid *)
(* will look: without it a second node of a pid would be shadowed forever. *)
WellFiled(table) ==
  \A b \in Buckets :
    /\ \A i \in DOMAIN table[b] : hash_pid(table[b][i].pid) = b
    /\ \A i, j \in DOMAIN table[b] :
         table[b][i].pid = table[b][j].pid => i = j
=============================================================================
