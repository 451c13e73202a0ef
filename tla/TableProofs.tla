----------------------------- MODULE TableProofs -----------------------------
(***************************************************************************)
(* What the operators of the two hash tables do, for every set of PIDs,    *)
(* number of buckets and kind of node: a call leaves a well filed table    *)
(* well filed, changes the node of its own PID as it says, and no other    *)
(* PID's, whether their chains are shared or not.  The first half is about *)
(* any chained table (pid_table and data_table), the second about the      *)
(* calls on data_table, failed allocations and the sweep included.         *)
(***************************************************************************)
EXTENDS DataTable, WellFoundedInduction, NaturalsInduction, TLAPS

(* Tables whose nodes are of some kind, and nodes that have a PID.         *)
Tables(Nodes) == [Buckets -> Seq(Nodes)]
HavePIDs(Nodes) == \A node \in Nodes : node.pid \in PIDs

LEMMA HashInBuckets == \A p \in PIDs : hash_pid(p) \in Buckets
BY HashTableAssumption DEF hash_pid, Buckets

(* In a well filed table the walk stops at the only node of the PID.       *)
LEMMA FirstIsTheHit ==
  ASSUME NEW Nodes, NEW table \in Tables(Nodes), WellFiled(table), NEW p \in PIDs,
         NEW j \in DOMAIN table[hash_pid(p)], table[hash_pid(p)][j].pid = p
  PROVE  First(table[hash_pid(p)], p) = j
<1> DEFINE chain == table[hash_pid(p)]
<1>1. hash_pid(p) \in Buckets /\ chain \in Seq(Nodes)
  BY HashInBuckets DEF Tables
<1>2. \A k \in DOMAIN chain : chain[k].pid = p => k = j
  BY <1>1 DEF WellFiled
<1>3. Hits(chain, p) = {j}
  BY <1>2 DEF Hits
<1>4. j <= j
  BY <1>1
<1> QED
  BY <1>3, <1>4 DEF First

LEMMA KnownHasHit ==
  ASSUME NEW table, NEW p
  PROVE  Known(table, p) <=>
           \E j \in DOMAIN table[hash_pid(p)] : table[hash_pid(p)][j].pid = p
BY DEF Known, Hits

-----------------------------------------------------------------------------
(* A call for a PID without a node.                                        *)
LEMMA LinkFiles ==
  ASSUME NEW Nodes, HavePIDs(Nodes), NEW table \in Tables(Nodes), WellFiled(table),
         NEW node \in Nodes,
         ~ Known(table, node.pid)
  PROVE  /\ LinkFirst(table, node) \in Tables(Nodes)
         /\ WellFiled(LinkFirst(table, node))
         /\ Known(LinkFirst(table, node), node.pid)
         /\ NodeOf(LinkFirst(table, node), node.pid) = node
         /\ \A q \in PIDs \ {node.pid} :
              /\ Known(LinkFirst(table, node), q) <=> Known(table, q)
              /\ Known(table, q) =>
                   NodeOf(LinkFirst(table, node), q) = NodeOf(table, q)
<1> DEFINE b == hash_pid(node.pid)
           new == LinkFirst(table, node)
<1>0. node.pid \in PIDs /\ b \in Buckets /\ table[b] \in Seq(Nodes)
  BY HashInBuckets DEF HavePIDs, Tables
<1>1. /\ new = [table EXCEPT ![b] = <<node>> \o table[b]]
      /\ <<node>> \o table[b] \in Seq(Nodes)
  BY <1>0 DEF LinkFirst
<1>2. new \in Tables(Nodes)
  BY <1>0, <1>1 DEF Tables
<1>3. /\ Len(new[b]) = Len(table[b]) + 1
      /\ new[b][1] = node
      /\ \A k \in 1 .. Len(table[b]) : new[b][k + 1] = table[b][k]
  BY <1>0, <1>1 DEF Tables
<1>4. \A c \in Buckets \ {b} : new[c] = table[c]
  BY <1>1 DEF Tables
<1>5. \A k \in DOMAIN table[b] : table[b][k].pid # node.pid
  BY <1>0, KnownHasHit
<1>6. WellFiled(new)
  <2> SUFFICES ASSUME NEW c \in Buckets
               PROVE  /\ \A k \in DOMAIN new[c] : hash_pid(new[c][k].pid) = c
                      /\ \A k, l \in DOMAIN new[c] :
                           new[c][k].pid = new[c][l].pid => k = l
    BY DEF WellFiled
  <2>1. CASE c # b
    BY <2>1, <1>4 DEF WellFiled
  <2>2. CASE c = b
    <3>1. DOMAIN new[b] = 1 .. Len(table[b]) + 1 /\ DOMAIN table[b] = 1 .. Len(table[b])
          /\ Len(table[b]) \in Nat
      BY <1>0, <1>2, <1>3 DEF Tables
    <3>2. \A k \in DOMAIN new[b] : k = 1 \/ (k - 1 \in DOMAIN table[b] /\ new[b][k] = table[b][k - 1])
      <4> SUFFICES ASSUME NEW k \in DOMAIN new[b], k # 1
                   PROVE  k - 1 \in DOMAIN table[b] /\ new[b][k] = table[b][k - 1]
        OBVIOUS
      <4>1. k - 1 \in 1 .. Len(table[b]) /\ (k - 1) + 1 = k
        BY <3>1
      <4> QED
        BY <4>1, <3>1, <1>3
    <3>3. \A k \in DOMAIN new[b] : hash_pid(new[b][k].pid) = b
      BY <3>2, <1>0, <1>3 DEF WellFiled
    <3>4. ASSUME NEW k \in DOMAIN new[b], NEW l \in DOMAIN new[b],
                 new[b][k].pid = new[b][l].pid
          PROVE  k = l
      <4>1. CASE k = 1 \/ l = 1
        BY <4>1, <3>2, <3>4, <1>3, <1>5
      <4>2. CASE k # 1 /\ l # 1
        <5>1. k - 1 = l - 1
          BY <4>2, <3>2, <3>4, <1>0 DEF WellFiled
        <5> QED
          BY <5>1, <3>1
      <4> QED
        BY <4>1, <4>2
    <3> QED
      BY <2>2, <3>3, <3>4
  <2> QED
    BY <2>1, <2>2
<1>7. Known(new, node.pid) /\ NodeOf(new, node.pid) = node
  <2>1. 1 \in DOMAIN new[b] /\ new[b][1].pid = node.pid
    BY <1>0, <1>2, <1>3 DEF Tables
  <2>2. First(new[b], node.pid) = 1
    BY <1>0, <1>2, <1>6, <2>1, FirstIsTheHit
  <2> QED
    BY <1>0, <1>2, <1>3, <2>1, <2>2, KnownHasHit DEF NodeOf
<1>8. ASSUME NEW q \in PIDs \ {node.pid}
      PROVE  /\ Known(new, q) <=> Known(table, q)
             /\ Known(table, q) => NodeOf(new, q) = NodeOf(table, q)
  <2>1. CASE hash_pid(q) # b
    BY <1>4, <2>1, HashInBuckets DEF Known, NodeOf
  <2>2. CASE hash_pid(q) = b
    <3>0. DOMAIN new[b] = 1 .. Len(table[b]) + 1 /\ DOMAIN table[b] = 1 .. Len(table[b])
          /\ Len(table[b]) \in Nat
      BY <1>0, <1>2, <1>3 DEF Tables
    <3>1. ASSUME NEW j \in DOMAIN table[b], table[b][j].pid = q
          PROVE  Known(new, q) /\ NodeOf(new, q) = NodeOf(table, q)
      <4>1. j + 1 \in DOMAIN new[b] /\ new[b][j + 1] = table[b][j]
        BY <3>0, <1>3
      <4>2. First(table[b], q) = j /\ First(new[b], q) = j + 1
        BY <1>2, <1>6, <2>2, <3>1, <4>1, FirstIsTheHit
      <4> QED
        BY <1>2, <2>2, <3>1, <4>1, <4>2, KnownHasHit DEF NodeOf
    <3>2. ASSUME NEW j \in DOMAIN new[b], new[b][j].pid = q
          PROVE  Known(table, q)
      <4>1. j # 1
        BY <1>3, <3>2
      <4>2. j - 1 \in 1 .. Len(table[b]) /\ (j - 1) + 1 = j
        BY <3>0, <4>1
      <4>3. new[b][j] = table[b][j - 1]
        BY <1>3, <4>2
      <4> QED
        BY <2>2, <3>0, <3>2, <4>2, <4>3, KnownHasHit
    <3> QED
      BY <1>2, <2>2, <3>1, <3>2, KnownHasHit
  <2> QED
    BY <2>1, <2>2
<1> QED
  BY <1>2, <1>6, <1>7, <1>8

(* A call for a PID that has a node.                                       *)
LEMMA UpdateFiles ==
  ASSUME NEW Nodes, HavePIDs(Nodes), NEW table \in Tables(Nodes), WellFiled(table),
         NEW node \in Nodes,
         Known(table, node.pid)
  PROVE  /\ Update(table, node) \in Tables(Nodes)
         /\ WellFiled(Update(table, node))
         /\ Known(Update(table, node), node.pid)
         /\ NodeOf(Update(table, node), node.pid) = node
         /\ \A q \in PIDs \ {node.pid} :
              /\ Known(Update(table, node), q) <=> Known(table, q)
              /\ Known(table, q) =>
                   NodeOf(Update(table, node), q) = NodeOf(table, q)
<1> DEFINE b == hash_pid(node.pid)
           at == First(table[b], node.pid)
           new == Update(table, node)
<1>0. node.pid \in PIDs /\ b \in Buckets /\ table[b] \in Seq(Nodes)
  BY HashInBuckets DEF HavePIDs, Tables
<1>1. at \in DOMAIN table[b] /\ table[b][at].pid = node.pid
  <2>1. PICK j \in DOMAIN table[b] : table[b][j].pid = node.pid
    BY <1>0, KnownHasHit
  <2>2. at = j
    BY <1>0, <2>1, FirstIsTheHit
  <2> QED
    BY <2>1, <2>2
<1>2. new = [table EXCEPT ![b] = [table[b] EXCEPT ![at] = node]]
  BY DEF Update
<1>3. /\ new \in Tables(Nodes)
      /\ DOMAIN new[b] = DOMAIN table[b]
      /\ new[b][at] = node
      /\ \A k \in DOMAIN table[b] : k # at => new[b][k] = table[b][k]
  BY <1>0, <1>1, <1>2 DEF Tables
<1>4. \A c \in Buckets \ {b} : new[c] = table[c]
  BY <1>2 DEF Tables
<1>5. \A k \in DOMAIN table[b] : new[b][k].pid = table[b][k].pid
  BY <1>1, <1>3
<1>6. WellFiled(new)
  <2> SUFFICES ASSUME NEW c \in Buckets
               PROVE  /\ \A k \in DOMAIN new[c] : hash_pid(new[c][k].pid) = c
                      /\ \A k, l \in DOMAIN new[c] :
                           new[c][k].pid = new[c][l].pid => k = l
    BY DEF WellFiled
  <2>1. CASE c # b
    BY <2>1, <1>4 DEF WellFiled
  <2>2. CASE c = b
    BY <2>2, <1>0, <1>3, <1>5 DEF WellFiled
  <2> QED
    BY <2>1, <2>2
<1>7. Known(new, node.pid) /\ NodeOf(new, node.pid) = node
  <2>1. First(new[b], node.pid) = at
    BY <1>0, <1>1, <1>3, <1>6, FirstIsTheHit
  <2> QED
    BY <1>0, <1>1, <1>3, <2>1, KnownHasHit DEF NodeOf
<1>8. ASSUME NEW q \in PIDs \ {node.pid}
      PROVE  /\ Known(new, q) <=> Known(table, q)
             /\ Known(table, q) => NodeOf(new, q) = NodeOf(table, q)
  <2>1. CASE hash_pid(q) # b
    BY <1>4, <2>1, HashInBuckets DEF Known, NodeOf
  <2>2. CASE hash_pid(q) = b
    <3>1. Known(new, q) <=> Known(table, q)
      BY <1>3, <1>5, <2>2, KnownHasHit
    <3>2. ASSUME NEW j \in DOMAIN table[b], table[b][j].pid = q
          PROVE  NodeOf(new, q) = NodeOf(table, q)
      <4>1. First(table[b], q) = j /\ First(new[b], q) = j
        BY <1>3, <1>5, <1>6, <2>2, <3>2, FirstIsTheHit
      <4> QED
        BY <1>1, <1>3, <2>2, <3>2, <4>1 DEF NodeOf
    <3> QED
      BY <2>2, <3>1, <3>2, KnownHasHit
  <2> QED
    BY <2>1, <2>2
<1> QED
  BY <1>3, <1>6, <1>7, <1>8

(* The nodes of a well filed table are what lookups find.                  *)
LEMMA NodesAreFound ==
  ASSUME NEW Nodes, HavePIDs(Nodes), NEW table \in Tables(Nodes), WellFiled(table),
         NEW b \in Buckets, NEW j \in DOMAIN table[b]
  PROVE  /\ table[b][j].pid \in PIDs
         /\ Known(table, table[b][j].pid)
         /\ NodeOf(table, table[b][j].pid) = table[b][j]
<1> DEFINE p == table[b][j].pid
<1>1. p \in PIDs /\ hash_pid(p) = b
  BY DEF Tables, HavePIDs, WellFiled
<1>2. First(table[b], p) = j
  BY <1>1, FirstIsTheHit
<1> QED
  BY <1>1, <1>2, KnownHasHit DEF NodeOf

LEMMA LookupFinds ==
  ASSUME NEW Nodes, HavePIDs(Nodes), NEW table \in Tables(Nodes), WellFiled(table),
         NEW p \in PIDs, Known(table, p)
  PROVE  /\ NodeOf(table, p) \in Nodes /\ NodeOf(table, p).pid = p
         /\ \E j \in DOMAIN table[hash_pid(p)] : NodeOf(table, p) = table[hash_pid(p)][j]
<1>1. PICK j \in DOMAIN table[hash_pid(p)] : table[hash_pid(p)][j].pid = p
  BY KnownHasHit
<1>2. First(table[hash_pid(p)], p) = j
  BY <1>1, FirstIsTheHit
<1>3. table[hash_pid(p)][j] \in Nodes
  BY HashInBuckets DEF Tables
<1> QED
  BY <1>1, <1>2, <1>3 DEF NodeOf

-----------------------------------------------------------------------------
LEMMA LeastExists ==
  ASSUME NEW S \in SUBSET Nat, S # {}
  PROVE  \E x \in S : \A y \in S : x <= y
<1>1. PICK x \in S : \A y \in S : ~ (<<y, x>> \in OpToRel(<, Nat))
  BY NatLessThanWellFounded, WFMin
<1>2. ASSUME NEW y \in S PROVE x <= y
  <2>1. ~ (<<y, x>> \in OpToRel(<, Nat)) /\ x \in Nat /\ y \in Nat
    BY <1>1
  <2>2. y < x => <<y, x>> \in OpToRel(<, Nat)
    BY <2>1 DEF OpToRel
  <2>3. ~ (y < x)
    BY <2>1, <2>2, Zenon
  <2> QED
    BY <2>3
<1> QED
  BY <1>2

(* A counterexample to a statement about numbers has a least one, at which *)
(* the step from its predecessor fails.                                    *)
LEMMA NoLeastCounterexample ==
  ASSUME NEW S \in SUBSET Nat, 0 \notin S, \A n \in Nat : n + 1 \in S => n \in S
  PROVE  S = {}
<1> SUFFICES ASSUME S # {} PROVE FALSE
  OBVIOUS
<1>1. PICK n \in S : \A m \in S : n <= m
  BY LeastExists
<1>2. n \in Nat \ {0} /\ n - 1 \in Nat /\ (n - 1) + 1 = n
  BY <1>1
<1>3. n - 1 \in S
  BY <1>2
<1> QED
  BY <1>1, <1>2, <1>3

(* The walk along a chain up to its n-th node.                             *)
Walk(f, chain, t, n) ==
  f = [k \in 0 .. n |->
         IF k = 0 THEN <<>>
         ELSE IF Stale(chain[k], t) THEN f[k - 1] ELSE Append(f[k - 1], chain[k])]

LEMMA WalkExists ==
  ASSUME NEW chain, NEW t, NEW n \in Nat PROVE \E f : Walk(f, chain, t, n)
<1> DEFINE S == {m \in Nat : ~ \E f : Walk(f, chain, t, m)}
<1>1. 0 \notin S
  <2>1. Walk([k \in 0 .. 0 |-> <<>>], chain, t, 0)
    BY DEF Walk
  <2> QED
    BY <2>1
<1>2. ASSUME NEW m \in Nat, m \notin S PROVE m + 1 \notin S
  <2>1. PICK g : Walk(g, chain, t, m)
    BY <1>2
  <2> DEFINE last == IF Stale(chain[m + 1], t) THEN g[m] ELSE Append(g[m], chain[m + 1])
             f == [k \in 0 .. m + 1 |-> IF k = m + 1 THEN last ELSE g[k]]
  <2>2. /\ \A k \in 0 .. m : f[k] = g[k]
        /\ f[m + 1] = last /\ f[m] = g[m]
    OBVIOUS
  <2> HIDE DEF last
  <2>3. \A k \in 0 .. m : g[k] =
          IF k = 0 THEN <<>>
          ELSE IF Stale(chain[k], t) THEN g[k - 1] ELSE Append(g[k - 1], chain[k])
    BY <2>1 DEF Walk
  <2>4. ASSUME NEW k \in 0 .. m + 1
        PROVE  f[k] = IF k = 0 THEN <<>>
                      ELSE IF Stale(chain[k], t) THEN f[k - 1]
                      ELSE Append(f[k - 1], chain[k])
    <3>1. CASE k = m + 1
      BY <2>2, <3>1 DEF last
    <3>2. CASE k \in 1 .. m
      <4>1. k - 1 \in 0 .. m
        BY <3>2
      <4> QED
        BY <2>2, <2>3, <3>2, <4>1
    <3>3. CASE k = 0
      BY <2>2, <2>3, <3>3
    <3> QED
      BY <3>1, <3>2, <3>3
  <2>5. f = [k \in 0 .. m + 1 |-> f[k]]
    OBVIOUS
  <2> HIDE DEF f
  <2>6. Walk(f, chain, t, m + 1)
    BY <2>4, <2>5 DEF Walk
  <2> QED
    BY <2>6
<1>3. S = {}
  BY <1>1, <1>2, NoLeastCounterexample
<1> QED
  BY <1>3

LEMMA KeptWalks ==
  ASSUME NEW chain, Len(chain) \in Nat, NEW t
  PROVE  \E f : Walk(f, chain, t, Len(chain)) /\ Kept(chain, t) = f[Len(chain)]
<1> DEFINE f == CHOOSE f : Walk(f, chain, t, Len(chain))
<1>1. Walk(f, chain, t, Len(chain))
  BY WalkExists
<1>2. Kept(chain, t) = f[Len(chain)]
  BY DEF Kept, Walk
<1> QED
  BY <1>1, <1>2

(* rest is what a walk over the first n nodes keeps, and at says where in  *)
(* the chain each of them stood.                                           *)
Keeps(rest, at, chain, t, n) ==
  /\ at \in [1 .. Len(rest) -> 1 .. n]
  /\ \A j \in 1 .. Len(rest) : rest[j] = chain[at[j]] /\ ~ Stale(chain[at[j]], t)
  /\ \A j, k \in 1 .. Len(rest) : j < k => at[j] < at[k]
  /\ \A k \in 1 .. n : ~ Stale(chain[k], t) => \E j \in 1 .. Len(rest) : at[j] = k

LEMMA KeepsNothing ==
  ASSUME NEW chain, NEW t PROVE \E at : Keeps(<<>>, at, chain, t, 0)
<1> DEFINE at == [j \in 1 .. 0 |-> 0]
<1>1. Len(<<>>) = 0
  OBVIOUS
<1>2. at \in [1 .. 0 -> 1 .. 0]
  OBVIOUS
<1> HIDE DEF at
<1>3. Keeps(<<>>, at, chain, t, 0)
  BY <1>1, <1>2 DEF Keeps
<1> QED
  BY <1>3

LEMMA KeepsOneMore ==
  ASSUME NEW Nodes, NEW chain \in Seq(Nodes), NEW t, NEW n \in Nat,
         n + 1 \in DOMAIN chain, NEW rest \in Seq(Nodes),
         \E at : Keeps(rest, at, chain, t, n)
  PROVE  LET more == IF Stale(chain[n + 1], t) THEN rest ELSE Append(rest, chain[n + 1])
         IN  more \in Seq(Nodes) /\ \E at : Keeps(more, at, chain, t, n + 1)
<1> DEFINE more == IF Stale(chain[n + 1], t) THEN rest ELSE Append(rest, chain[n + 1])
<1>1. PICK at : Keeps(rest, at, chain, t, n)
  OBVIOUS
<1>2. Len(rest) \in Nat /\ chain[n + 1] \in Nodes
  OBVIOUS
<1>3. CASE Stale(chain[n + 1], t)
  <2>1. at \in [1 .. Len(rest) -> 1 .. n + 1]
    BY <1>1, <1>2 DEF Keeps
  <2>2. \A k \in 1 .. n + 1 : ~ Stale(chain[k], t) => k \in 1 .. n
    BY <1>3
  <2>3. Keeps(rest, at, chain, t, n + 1)
    BY <1>1, <2>1, <2>2 DEF Keeps
  <2> QED
    BY <1>3, <2>3
<1>4. CASE ~ Stale(chain[n + 1], t)
  <2> DEFINE longer == Append(rest, chain[n + 1])
             last == Len(rest) + 1
             to == [j \in 1 .. last |-> IF j = last THEN n + 1 ELSE at[j]]
  <2>1. /\ longer \in Seq(Nodes) /\ Len(longer) = last /\ longer[last] = chain[n + 1]
        /\ \A j \in 1 .. Len(rest) : longer[j] = rest[j]
    BY <1>2
  <2>2. /\ at \in [1 .. Len(rest) -> 1 .. n]
        /\ \A j \in 1 .. Len(rest) : at[j] \in 1 .. n
    BY <1>1 DEF Keeps
  <2>3. /\ to \in [1 .. last -> 1 .. n + 1] /\ to[last] = n + 1
        /\ \A j \in 1 .. Len(rest) : to[j] = at[j]
    BY <1>2, <2>2
  <2>4. \A j \in 1 .. last : j = last \/ j \in 1 .. Len(rest)
    BY <1>2
  <2>5. last \in 1 .. last
    BY <1>2
  <2> HIDE DEF longer, to
  <2>6. \A j \in 1 .. last : longer[j] = chain[to[j]] /\ ~ Stale(chain[to[j]], t)
    BY <1>1, <1>4, <2>1, <2>3, <2>4 DEF Keeps
  <2>7. \A j, k \in 1 .. last : j < k => to[j] < to[k]
    <3> SUFFICES ASSUME NEW j \in 1 .. last, NEW k \in 1 .. last, j < k
                 PROVE  to[j] < to[k]
      OBVIOUS
    <3>1. j \in 1 .. Len(rest) /\ to[j] = at[j] /\ at[j] \in 1 .. n
      <4>1. j \in 1 .. Len(rest)
        BY <1>2
      <4> QED
        BY <2>2, <2>3, <4>1
    <3>2. CASE k = last
      BY <2>3, <3>1, <3>2
    <3>3. CASE k \in 1 .. Len(rest)
      BY <1>1, <2>3, <3>1, <3>3 DEF Keeps
    <3> QED
      BY <2>4, <3>2, <3>3
  <2>8. ASSUME NEW k \in 1 .. n + 1, ~ Stale(chain[k], t)
        PROVE  \E j \in 1 .. last : to[j] = k
    <3>1. CASE k = n + 1
      BY <2>3, <2>5, <3>1
    <3>2. CASE k \in 1 .. n
      <4>1. PICK j \in 1 .. Len(rest) : at[j] = k
        BY <1>1, <2>8, <3>2 DEF Keeps
      <4> QED
        BY <1>2, <2>3, <4>1
    <3> QED
      BY <3>1, <3>2
  <2>9. Keeps(longer, to, chain, t, n + 1)
    BY <2>1, <2>3, <2>6, <2>7, <2>8 DEF Keeps
  <2> QED
    BY <1>4, <2>1, <2>9 DEF longer
<1> QED
  BY <1>3, <1>4

(* The sweep of a chain: every stale node goes, every other stays, in      *)
(* their order.                                                            *)
LEMMA KeptIs ==
  ASSUME NEW Nodes, NEW chain \in Seq(Nodes), NEW t
  PROVE  /\ Kept(chain, t) \in Seq(Nodes)
         /\ \E at : Keeps(Kept(chain, t), at, chain, t, Len(chain))
<1>1. PICK f : Walk(f, chain, t, Len(chain)) /\ Kept(chain, t) = f[Len(chain)]
  BY KeptWalks
<1>2. \A n \in 0 .. Len(chain) : f[n] =
        IF n = 0 THEN <<>>
        ELSE IF Stale(chain[n], t) THEN f[n - 1] ELSE Append(f[n - 1], chain[n])
  BY <1>1 DEF Walk
<1> DEFINE Good(n) == f[n] \in Seq(Nodes) /\ \E at : Keeps(f[n], at, chain, t, n)
           S == {n \in Nat : n <= Len(chain) /\ ~ Good(n)}
<1>3. 0 \notin S
  <2>1. f[0] = <<>> /\ <<>> \in Seq(Nodes)
    BY <1>2
  <2> QED
    BY <2>1, KeepsNothing
<1>4. ASSUME NEW n \in Nat, n \notin S PROVE n + 1 \notin S
  <2> SUFFICES ASSUME n + 1 <= Len(chain) PROVE Good(n + 1)
    OBVIOUS
  <2>1. f[n] \in Seq(Nodes) /\ \E at : Keeps(f[n], at, chain, t, n)
    BY <1>4
  <2>2. n + 1 \in DOMAIN chain /\ n + 1 \in 0 .. Len(chain) /\ (n + 1) - 1 = n /\ n + 1 # 0
    OBVIOUS
  <2>3. f[n + 1] = IF Stale(chain[n + 1], t) THEN f[n] ELSE Append(f[n], chain[n + 1])
    BY <1>2, <2>2
  <2> QED
    BY <2>1, <2>2, <2>3, KeepsOneMore
<1>5. S = {}
  <2> HIDE DEF Good
  <2>1. S \in SUBSET Nat
    OBVIOUS
  <2> HIDE DEF S
  <2> QED
    BY <1>3, <1>4, <2>1, NoLeastCounterexample
<1>6. Len(chain) \in Nat /\ Len(chain) <= Len(chain)
  OBVIOUS
<1> QED
  BY <1>1, <1>5, <1>6

(* cleanup_old_data: the nodes that are found afterwards are those found   *)
(* before that are not stale, unchanged, wherever in their chains they and *)
(* the removed ones stood.                                                 *)
LEMMA SweepIs ==
  ASSUME NEW Nodes, HavePIDs(Nodes), NEW table \in Tables(Nodes), WellFiled(table), NEW t
  PROVE  /\ cleanup_old_data(table, t) \in Tables(Nodes)
         /\ WellFiled(cleanup_old_data(table, t))
         /\ \A p \in PIDs :
              /\ Known(cleanup_old_data(table, t), p) <=>
                   Known(table, p) /\ ~ Stale(NodeOf(table, p), t)
              /\ Known(cleanup_old_data(table, t), p) =>
                   NodeOf(cleanup_old_data(table, t), p) = NodeOf(table, p)
<1> DEFINE new == cleanup_old_data(table, t)
<1>1. \A b \in Buckets :
        /\ new[b] = Kept(table[b], t) /\ table[b] \in Seq(Nodes) /\ new[b] \in Seq(Nodes)
        /\ \E at : Keeps(new[b], at, table[b], t, Len(table[b]))
  BY KeptIs DEF cleanup_old_data, Tables
<1>2. new \in Tables(Nodes)
  BY <1>1 DEF cleanup_old_data, Tables
<1> HIDE DEF new
<1>3. ASSUME NEW b \in Buckets
      PROVE  \E at : /\ at \in [DOMAIN new[b] -> DOMAIN table[b]]
                     /\ \A j \in DOMAIN new[b] :
                          new[b][j] = table[b][at[j]] /\ ~ Stale(table[b][at[j]], t)
                     /\ \A j, k \in DOMAIN new[b] : at[j] = at[k] => j = k
                     /\ \A k \in DOMAIN table[b] :
                          ~ Stale(table[b][k], t) => \E j \in DOMAIN new[b] : at[j] = k
  <2>1. PICK at : Keeps(new[b], at, table[b], t, Len(table[b]))
    BY <1>1
  <2>2. DOMAIN new[b] = 1 .. Len(new[b]) /\ DOMAIN table[b] = 1 .. Len(table[b])
    BY <1>1
  <2>3. at \in [DOMAIN new[b] -> DOMAIN table[b]]
    BY <2>1, <2>2 DEF Keeps
  <2>4. \A j, k \in DOMAIN new[b] : at[j] = at[k] => j = k
    <3> SUFFICES ASSUME NEW j \in DOMAIN new[b], NEW k \in DOMAIN new[b], at[j] = at[k],
                        j # k
                 PROVE  FALSE
      OBVIOUS
    <3>1. at[j] \in Nat /\ j \in Nat /\ k \in Nat
      BY <2>2, <2>3, <1>1
    <3>2. j < k \/ k < j
      BY <3>1
    <3>3. at[j] < at[k] \/ at[k] < at[j]
      BY <2>1, <2>2, <3>2 DEF Keeps
    <3> QED
      BY <3>1, <3>3
  <2>5. /\ \A j \in DOMAIN new[b] :
             new[b][j] = table[b][at[j]] /\ ~ Stale(table[b][at[j]], t)
        /\ \A k \in DOMAIN table[b] :
             ~ Stale(table[b][k], t) => \E j \in DOMAIN new[b] : at[j] = k
    BY <2>1, <2>2 DEF Keeps
  <2> WITNESS at
  <2> QED
    BY <2>3, <2>4, <2>5
<1>4. WellFiled(new)
  <2> SUFFICES ASSUME NEW b \in Buckets
               PROVE  /\ \A k \in DOMAIN new[b] : hash_pid(new[b][k].pid) = b
                      /\ \A k, l \in DOMAIN new[b] :
                           new[b][k].pid = new[b][l].pid => k = l
    BY DEF WellFiled
  <2>1. PICK at : /\ at \in [DOMAIN new[b] -> DOMAIN table[b]]
                  /\ \A j \in DOMAIN new[b] : new[b][j] = table[b][at[j]]
                  /\ \A j, k \in DOMAIN new[b] : at[j] = at[k] => j = k
    BY <1>3
  <2>2. /\ \A i \in DOMAIN table[b] : hash_pid(table[b][i].pid) = b
        /\ \A i, j \in DOMAIN table[b] : table[b][i].pid = table[b][j].pid => i = j
    BY DEF WellFiled
  <2> QED
    BY <2>1, <2>2
<1>5. ASSUME NEW p \in PIDs
      PROVE  /\ Known(new, p) <=> Known(table, p) /\ ~ Stale(NodeOf(table, p), t)
             /\ Known(new, p) => NodeOf(new, p) = NodeOf(table, p)
  <2> DEFINE b == hash_pid(p)
  <2>1. b \in Buckets
    BY HashInBuckets
  <2>2. PICK at : /\ at \in [DOMAIN new[b] -> DOMAIN table[b]]
                  /\ \A j \in DOMAIN new[b] :
                       new[b][j] = table[b][at[j]] /\ ~ Stale(table[b][at[j]], t)
                  /\ \A k \in DOMAIN table[b] :
                       ~ Stale(table[b][k], t) => \E j \in DOMAIN new[b] : at[j] = k
    BY <1>3, <2>1
  <2>3. ASSUME NEW j \in DOMAIN new[b], new[b][j].pid = p
        PROVE  /\ Known(new, p) /\ Known(table, p) /\ ~ Stale(NodeOf(table, p), t)
               /\ NodeOf(new, p) = NodeOf(table, p)
    <3>1. at[j] \in DOMAIN table[b] /\ table[b][at[j]].pid = p
      BY <2>2, <2>3
    <3>2. First(new[b], p) = j
      BY <1>2, <1>4, <2>3, FirstIsTheHit
    <3>3. First(table[b], p) = at[j]
      BY <3>1, FirstIsTheHit
    <3> QED
      BY <2>2, <2>3, <3>1, <3>2, <3>3, KnownHasHit DEF NodeOf
  <2>4. ASSUME Known(table, p), ~ Stale(NodeOf(table, p), t)
        PROVE  \E j \in DOMAIN new[b] : new[b][j].pid = p
    <3>1. PICK k \in DOMAIN table[b] : table[b][k].pid = p
      BY <2>4, KnownHasHit
    <3>2. NodeOf(table, p) = table[b][k]
      BY <3>1, FirstIsTheHit DEF NodeOf
    <3> QED
      BY <2>2, <2>4, <3>1, <3>2
  <2> QED
    BY <2>3, <2>4, KnownHasHit
<1> QED
  BY <1>2, <1>4, <1>5 DEF new

-----------------------------------------------------------------------------
(* The calls on data_table.                                                *)
DataNode == [pid : PIDs, timestamp : Nat, data : Seq(Nat),
             data_capacity : Nat, allocated : Nat]

LEMMA DataNodesHavePIDs == HavePIDs(DataNode)
BY DEF HavePIDs, DataNode

(* What one call for p may not do: lose a node, or touch another PID's.    *)
Touches(p, table, new) ==
  /\ new \in Tables(DataNode) /\ WellFiled(new)
  /\ Known(table, p) => Known(new, p)
  /\ \A q \in PIDs \ {p} : /\ Known(new, q) <=> Known(table, q)
                           /\ Known(table, q) => NodeOf(new, q) = NodeOf(table, q)

LEMMA TouchesTwice ==
  ASSUME NEW p \in PIDs, NEW one, NEW two, NEW three, Touches(p, one, two), Touches(p, two, three)
  PROVE  Touches(p, one, three)
BY DEF Touches

LEMMA UpdateTouches ==
  ASSUME NEW table \in Tables(DataNode), WellFiled(table), NEW node \in DataNode,
         Known(table, node.pid)
  PROVE  /\ Touches(node.pid, table, Update(table, node))
         /\ Known(Update(table, node), node.pid)
         /\ NodeOf(Update(table, node), node.pid) = node
BY UpdateFiles, DataNodesHavePIDs DEF Touches

LEMMA LinkTouches ==
  ASSUME NEW table \in Tables(DataNode), WellFiled(table), NEW node \in DataNode,
         ~ Known(table, node.pid)
  PROVE  /\ Touches(node.pid, table, LinkFirst(table, node))
         /\ Known(LinkFirst(table, node), node.pid)
         /\ NodeOf(LinkFirst(table, node), node.pid) = node
BY LinkFiles, DataNodesHavePIDs DEF Touches

LEMMA SameTouches ==
  ASSUME NEW table \in Tables(DataNode), WellFiled(table), NEW p
  PROVE  Touches(p, table, table)
BY DEF Touches

(* What a node has as long as realloc does not fail.                       *)
Sound(node) ==
  /\ node.data_capacity = node.allocated /\ node.allocated > 0
  /\ Len(node.data) <= node.allocated

LEMMA NodeFields ==
  ASSUME NEW node \in DataNode
  PROVE  /\ node.pid \in PIDs /\ node.timestamp \in Nat /\ node.data \in Seq(Nat)
         /\ node.data_capacity \in Nat /\ node.allocated \in Nat
BY DEF DataNode

LEMMA NewNodeIs ==
  ASSUME NEW p \in PIDs, NEW t \in Nat
  PROVE  /\ NewNode(p, t) \in DataNode /\ NewNode(p, t).pid = p
         /\ NewNode(p, t).data = <<>> /\ NewNode(p, t).timestamp = t
         /\ Sound(NewNode(p, t))
<1>1. INIT_CAPACITY \in Nat /\ INIT_CAPACITY > 0
  BY DataTableAssumption
<1>2. <<>> \in Seq(Nat) /\ Len(<<>>) = 0
  OBVIOUS
<1> QED
  BY <1>1, <1>2 DEF NewNode, DataNode, Sound

(* get_pid_data: the PID's node, or a new one, or none for want of memory. *)
LEMMA GetIs ==
  ASSUME NEW table \in Tables(DataNode), WellFiled(table), NEW p \in PIDs, NEW t \in Nat,
         NEW o \in get_pid_data(table, p, t)
  PROVE  /\ Touches(p, table, o.table) /\ o.rc \in {0, -1}
         /\ o.rc = 0 => Known(o.table, p)
         /\ Known(o.table, p) =>
              NodeOf(o.table, p) = IF Known(table, p) THEN NodeOf(table, p) ELSE NewNode(p, t)
<1>1. CASE Known(table, p)
  <2>1. o.table = table /\ o.rc = 0
    BY <1>1 DEF get_pid_data, Outcome
  <2> QED
    BY <1>1, <2>1, SameTouches
<1>2. CASE ~ Known(table, p)
  <2> DEFINE node == NewNode(p, t)
  <2>1. \/ o.table = LinkFirst(table, node) /\ o.rc = 0
        \/ o.table = table /\ o.rc = -1
    BY <1>2 DEF get_pid_data, Outcome
  <2>2. node \in DataNode /\ node.pid = p
    BY NewNodeIs
  <2> HIDE DEF node
  <2>3. CASE o.table = LinkFirst(table, node) /\ o.rc = 0
    BY <1>2, <2>2, <2>3, LinkTouches DEF node
  <2>4. CASE o.table = table /\ o.rc = -1
    BY <1>2, <2>4, SameTouches
  <2> QED
    BY <2>1, <2>3, <2>4
<1> QED
  BY <1>1, <1>2

(* The data array is grown or not; what it holds stays.                    *)
LEMMA ExpandIs ==
  ASSUME NEW table \in Tables(DataNode), WellFiled(table), NEW p \in PIDs, Known(table, p),
         NEW o \in Expand(table, p)
  PROVE  LET old == NodeOf(table, p)
             new == NodeOf(o.table, p)
         IN  /\ Touches(p, table, o.table) /\ o.rc \in {0, -1} /\ Known(o.table, p)
             /\ new.data = old.data /\ new.timestamp = old.timestamp
             /\ "realloc" \notin ALLOC_FAILS /\ Sound(old) =>
                  Sound(new) /\ Len(new.data) < new.allocated
<1> DEFINE old == NodeOf(table, p)
           new == NodeOf(o.table, p)
           doubled == 2 * old.data_capacity
<1>1. /\ old \in DataNode /\ old.pid = p /\ old.timestamp \in Nat /\ old.data \in Seq(Nat)
      /\ old.data_capacity \in Nat /\ old.allocated \in Nat /\ doubled \in Nat
      /\ Len(old.data) \in Nat
  BY LookupFinds, DataNodesHavePIDs, NodeFields
<1>2. CASE ~ Full(old)
  <2>1. o.table = table /\ o.rc = 0
    BY <1>2 DEF Expand, Outcome
  <2> QED
    BY <1>1, <1>2, <2>1, SameTouches DEF Sound, Full
<1>3. CASE Full(old)
  <2>1. \/ o = Outcome(Update(table, [old EXCEPT !.data_capacity = doubled,
                                                 !.allocated = doubled]), 0)
        \/ /\ o = Outcome(Update(table, [old EXCEPT !.data_capacity = doubled]), -1)
           /\ "realloc" \in ALLOC_FAILS
    BY <1>3 DEF Expand
  <2> HIDE DEF old, doubled
  <2>2. ASSUME NEW rc \in {0, -1}, NEW node \in DataNode, node.pid = p,
               o = Outcome(Update(table, node), rc)
        PROVE  /\ Touches(p, table, o.table) /\ o.rc \in {0, -1} /\ Known(o.table, p)
               /\ new = node
    BY <2>2, UpdateTouches DEF Outcome
  <2>3. CASE o = Outcome(Update(table, [old EXCEPT !.data_capacity = doubled,
                                                   !.allocated = doubled]), 0)
    <3>1. PICK node : node = [old EXCEPT !.data_capacity = doubled, !.allocated = doubled]
      OBVIOUS
    <3>2. /\ node \in DataNode /\ node.pid = p /\ node.timestamp = old.timestamp
          /\ node.data = old.data /\ node.data_capacity = doubled
          /\ node.allocated = doubled
      BY <1>1, <3>1 DEF DataNode
    <3>3. o = Outcome(Update(table, node), 0)
      BY <2>3, <3>1
    <3>4. Touches(p, table, o.table) /\ o.rc \in {0, -1} /\ Known(o.table, p) /\ new = node
      BY <2>2, <3>2, <3>3
    <3>5. Sound(old) => Sound(node) /\ Len(node.data) < node.allocated
      BY <1>1, <3>2 DEF Sound, doubled
    <3> QED
      BY <3>2, <3>4, <3>5 DEF old
  <2>4. CASE /\ o = Outcome(Update(table, [old EXCEPT !.data_capacity = doubled]), -1)
             /\ "realloc" \in ALLOC_FAILS
    <3>1. PICK node : node = [old EXCEPT !.data_capacity = doubled]
      OBVIOUS
    <3>2. /\ node \in DataNode /\ node.pid = p /\ node.timestamp = old.timestamp
          /\ node.data = old.data
      BY <1>1, <3>1 DEF DataNode
    <3>3. o = Outcome(Update(table, node), -1)
      BY <2>4, <3>1
    <3>4. Touches(p, table, o.table) /\ o.rc \in {0, -1} /\ Known(o.table, p) /\ new = node
      BY <2>2, <3>2, <3>3
    <3> QED
      BY <2>4, <3>2, <3>4 DEF old
  <2> QED
    BY <2>1, <2>3, <2>4
<1> QED
  BY <1>2, <1>3

(* The message is stored, or not for want of memory.                       *)
LEMMA StoreIs ==
  ASSUME NEW table \in Tables(DataNode), WellFiled(table), NEW p \in PIDs, Known(table, p),
         NEW item \in Nat, NEW t \in Nat, NEW o \in Store(table, p, item, t)
  PROVE  LET old == NodeOf(table, p)
             new == NodeOf(o.table, p)
         IN  /\ Touches(p, table, o.table) /\ o.rc \in {0, -1} /\ Known(o.table, p)
             /\ IF o.rc = 0 THEN new.data = Append(old.data, item) /\ new.timestamp = t
                ELSE new = old
             /\ Sound(old) /\ Len(old.data) < old.allocated => Sound(new)
<1> DEFINE old == NodeOf(table, p)
           new == NodeOf(o.table, p)
<1>1. /\ old \in DataNode /\ old.pid = p /\ old.data \in Seq(Nat)
      /\ old.allocated \in Nat /\ Len(old.data) \in Nat
  BY LookupFinds, DataNodesHavePIDs, NodeFields
<1>2. \/ o = Outcome(Update(table, [old EXCEPT !.data = Append(@, item), !.timestamp = t]), 0)
      \/ o = Outcome(table, -1)
  BY DEF Store
<1> HIDE DEF old
<1>3. CASE o = Outcome(Update(table, [old EXCEPT !.data = Append(@, item), !.timestamp = t]), 0)
  <2>1. PICK node : node = [old EXCEPT !.data = Append(@, item), !.timestamp = t]
    OBVIOUS
  <2>2. Append(old.data, item) \in Seq(Nat) /\ Len(Append(old.data, item)) = Len(old.data) + 1
    BY <1>1
  <2>3. /\ node \in DataNode /\ node.pid = p /\ node.timestamp = t
        /\ node.data = Append(old.data, item) /\ node.data_capacity = old.data_capacity
        /\ node.allocated = old.allocated
    BY <1>1, <2>1, <2>2 DEF DataNode
  <2>4. o.table = Update(table, node) /\ o.rc = 0
    BY <1>3, <2>1 DEF Outcome
  <2>5. Touches(p, table, o.table) /\ Known(o.table, p) /\ new = node
    BY <2>3, <2>4, UpdateTouches
  <2>6. Sound(old) /\ Len(old.data) < old.allocated => Sound(node)
    BY <1>1, <2>2, <2>3 DEF Sound
  <2> QED
    BY <2>3, <2>4, <2>5, <2>6 DEF old
<1>4. CASE o = Outcome(table, -1)
  <2>1. o.table = table /\ o.rc = -1
    BY <1>4 DEF Outcome
  <2> QED
    BY <2>1, SameTouches DEF old
<1> QED
  BY <1>2, <1>3, <1>4

(* add_data_to_pid as a whole.                                             *)
Before(table, p) == IF Known(table, p) THEN NodeOf(table, p).data ELSE <<>>

LEMMA AddIs ==
  ASSUME NEW table \in Tables(DataNode), WellFiled(table), NEW p \in PIDs,
         NEW item \in Nat, NEW t \in Nat, NEW o \in add_data_to_pid(table, p, item, t)
  PROVE  LET new == NodeOf(o.table, p)
         IN  /\ Touches(p, table, o.table) /\ o.rc \in {0, -1}
             /\ o.rc = 0 => /\ Known(o.table, p)
                            /\ new.data = Append(Before(table, p), item)
                            /\ new.timestamp = t
             /\ o.rc # 0 /\ Known(o.table, p) =>
                  /\ new.data = Before(table, p)
                  /\ new.timestamp = IF Known(table, p) THEN NodeOf(table, p).timestamp
                                     ELSE t
             /\ /\ "realloc" \notin ALLOC_FAILS /\ Known(o.table, p)
                /\ Known(table, p) => Sound(NodeOf(table, p))
                => Sound(new)
<1> DEFINE new == NodeOf(o.table, p)
           found == Then(get_pid_data(table, p, t), LAMBDA tb : Expand(tb, p))
           Start == IF Known(table, p) THEN NodeOf(table, p) ELSE NewNode(p, t)
<1>1. /\ Start.data = Before(table, p)
      /\ Start.timestamp = IF Known(table, p) THEN NodeOf(table, p).timestamp ELSE t
      /\ (Known(table, p) => Sound(NodeOf(table, p))) => Sound(Start)
  BY NewNodeIs DEF Before
<1> HIDE DEF Start
<1>2. ASSUME NEW r \in found
      PROVE  /\ Touches(p, table, r.table) /\ r.rc \in {0, -1}
             /\ r.rc = 0 => Known(r.table, p)
             /\ Known(r.table, p) =>
                  LET node == NodeOf(r.table, p)
                  IN  /\ node.data = Start.data /\ node.timestamp = Start.timestamp
                      /\ "realloc" \notin ALLOC_FAILS /\ Sound(Start) =>
                           Sound(node) /\ (r.rc = 0 => Len(node.data) < node.allocated)
  <2>1. PICK g \in get_pid_data(table, p, t) :
          r \in IF g.rc = -1 THEN {g} ELSE Expand(g.table, p)
    BY DEF Then
  <2>2. /\ Touches(p, table, g.table) /\ g.rc \in {0, -1}
        /\ g.rc = 0 => Known(g.table, p)
        /\ Known(g.table, p) => NodeOf(g.table, p) = Start
    BY GetIs DEF Start
  <2>3. CASE g.rc = -1
    BY <2>1, <2>2, <2>3
  <2>4. CASE g.rc = 0
    <3>1. r \in Expand(g.table, p) /\ g.table \in Tables(DataNode) /\ WellFiled(g.table)
          /\ Known(g.table, p)
      BY <2>1, <2>2, <2>4 DEF Touches
    <3>2. /\ Touches(p, g.table, r.table) /\ r.rc \in {0, -1} /\ Known(r.table, p)
          /\ NodeOf(r.table, p).data = Start.data
          /\ NodeOf(r.table, p).timestamp = Start.timestamp
          /\ "realloc" \notin ALLOC_FAILS /\ Sound(Start) =>
               /\ Sound(NodeOf(r.table, p))
               /\ Len(NodeOf(r.table, p).data) < NodeOf(r.table, p).allocated
      BY <2>2, <3>1, ExpandIs
    <3> QED
      BY <2>2, <3>2, TouchesTwice
  <2> QED
    BY <2>2, <2>3, <2>4
<1> HIDE DEF found
<1>3. PICK r \in found : o \in IF r.rc = -1 THEN {r} ELSE Store(r.table, p, item, t)
  BY DEF add_data_to_pid, Then, found
<1>4. CASE r.rc = -1
  BY <1>1, <1>2, <1>3, <1>4
<1>5. CASE r.rc = 0
  <2>1. o \in Store(r.table, p, item, t) /\ r.table \in Tables(DataNode)
        /\ WellFiled(r.table) /\ Known(r.table, p)
    BY <1>2, <1>3, <1>5 DEF Touches
  <2>2. /\ Touches(p, r.table, o.table) /\ o.rc \in {0, -1} /\ Known(o.table, p)
        /\ IF o.rc = 0 THEN new.data = Append(NodeOf(r.table, p).data, item)
                            /\ new.timestamp = t
           ELSE new = NodeOf(r.table, p)
        /\ /\ Sound(NodeOf(r.table, p))
           /\ Len(NodeOf(r.table, p).data) < NodeOf(r.table, p).allocated
           => Sound(new)
    BY <2>1, StoreIs
  <2>3. Touches(p, table, o.table)
    BY <1>2, <2>2, TouchesTwice
  <2> QED
    BY <1>1, <1>2, <1>5, <2>1, <2>2, <2>3
<1> QED
  BY <1>2, <1>4, <1>5
=============================================================================
