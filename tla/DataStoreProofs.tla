--------------------------- MODULE DataStoreProofs ---------------------------
(***************************************************************************)
(* Why data_table never loses a fresh message, for every number of PIDs    *)
(* and buckets and every length of run.  The inductive invariant speaks of *)
(* each PID's node as a lookup finds it; in a well filed table (see        *)
(* TableProofs) these are all the nodes there are.                         *)
(***************************************************************************)
EXTENDS DataStore, TableProofs

-----------------------------------------------------------------------------
(* The node of a PID against what arrived for it, at time t and with the   *)
(* last sweep at time s.                                                   *)
NodeIs(node, past, t, s) ==
  /\ IsSuffix(node.data, past)
  /\ node.timestamp <= t
  /\ \A i \in DOMAIN past : past[i] <= node.timestamp
  /\ "realloc" \notin ALLOC_FAILS => Sound(node)
  /\ s = t => ~ Stale(node, t)

PIDIs(table, p, past, t, s) ==
  /\ Known(table, p) => NodeIs(NodeOf(table, p), past, t, s)
  /\ \A i \in DOMAIN past : past[i] <= t
  /\ \A i \in DOMAIN past : t - past[i] < STALE_SECS =>
       Known(table, p) /\ Len(past) - Len(NodeOf(table, p).data) < i

PIDInv(p) == PIDIs(data_table, p, arrived[p], now, swept)

DataStoreInv ==
  /\ data_table \in Tables(DataNode) /\ WellFiled(data_table)
  /\ now \in Nat /\ swept \in Nat /\ swept <= now
  /\ arrived \in [PIDs -> Seq(Nat)]
  /\ \A p \in PIDs : PIDInv(p)

-----------------------------------------------------------------------------
(* Suffixes, position by position from the end.                            *)
LEMMA SuffixIs ==
  ASSUME NEW s \in Seq(Nat), NEW t \in Seq(Nat)
  PROVE  IsSuffix(s, t) <=>
           /\ Len(s) <= Len(t)
           /\ \A i \in 1 .. Len(s) : s[Len(s) - i + 1] = t[Len(t) - i + 1]
<1>0. Len(s) \in Nat /\ Len(t) \in Nat
  OBVIOUS
<1>1. /\ Reverse(s) \in Seq(Nat) /\ Len(Reverse(s)) = Len(s)
      /\ \A i \in 1 .. Len(s) : Reverse(s)[i] = s[Len(s) - i + 1]
  BY <1>0 DEF Reverse
<1>2. /\ Reverse(t) \in Seq(Nat) /\ Len(Reverse(t)) = Len(t)
      /\ \A i \in 1 .. Len(t) : Reverse(t)[i] = t[Len(t) - i + 1]
  BY <1>0 DEF Reverse
<1> DEFINE r == Reverse(s)
           u == Reverse(t)
<1> HIDE DEF r, u
<1>3. ASSUME Len(s) <= Len(t)
      PROVE  SubSeq(r, 1, Len(s)) = SubSeq(u, 1, Len(s))
               <=> \A i \in 1 .. Len(s) : r[i] = u[i]
  <2>1. /\ SubSeq(r, 1, Len(s)) = [i \in 1 .. Len(s) |-> r[i]]
        /\ SubSeq(u, 1, Len(s)) = [i \in 1 .. Len(s) |-> u[i]]
    BY <1>0, <1>1, <1>2, <1>3 DEF r, u
  <2> QED
    BY <2>1
<1>4. IsSuffix(s, t) <=> Len(s) <= Len(t) /\ SubSeq(r, 1, Len(s)) = SubSeq(u, 1, Len(s))
  BY <1>1, <1>2 DEF IsSuffix, IsPrefix, r, u
<1>5. ASSUME Len(s) <= Len(t), NEW i \in 1 .. Len(s)
      PROVE  r[i] = s[Len(s) - i + 1] /\ u[i] = t[Len(t) - i + 1]
  <2>1. i \in 1 .. Len(t)
    BY <1>0, <1>5
  <2> QED
    BY <1>1, <1>2, <2>1 DEF r, u
<1> QED
  BY <1>3, <1>4, <1>5

LEMMA EmptyIsSuffix == \A t \in Seq(Nat) : IsSuffix(<<>>, t)
<1> TAKE t \in Seq(Nat)
<1> DEFINE none == <<>>
<1>1. none \in Seq(Nat) /\ Len(none) = 0 /\ Len(t) \in Nat
  OBVIOUS
<1> HIDE DEF none
<1>2. Len(none) <= Len(t) /\ 1 .. Len(none) = {}
  BY <1>1
<1>3. IsSuffix(none, t)
  BY <1>1, <1>2, SuffixIs
<1> QED
  BY <1>3 DEF none

LEMMA SuffixGrows ==
  ASSUME NEW s \in Seq(Nat), NEW t \in Seq(Nat), NEW x \in Nat, IsSuffix(s, t)
  PROVE  IsSuffix(Append(s, x), Append(t, x))
<1> DEFINE r == Append(s, x)
           u == Append(t, x)
<1>0. Len(s) \in Nat /\ Len(t) \in Nat
  OBVIOUS
<1>1. /\ r \in Seq(Nat) /\ Len(r) = Len(s) + 1 /\ r[Len(r)] = x
      /\ \A i \in 1 .. Len(s) : r[i] = s[i]
  OBVIOUS
<1>2. /\ u \in Seq(Nat) /\ Len(u) = Len(t) + 1 /\ u[Len(u)] = x
      /\ \A i \in 1 .. Len(t) : u[i] = t[i]
  OBVIOUS
<1>3. /\ Len(s) <= Len(t)
      /\ \A i \in 1 .. Len(s) : s[Len(s) - i + 1] = t[Len(t) - i + 1]
  BY SuffixIs
<1> HIDE DEF r, u
<1>4. ASSUME NEW i \in 1 .. Len(r) PROVE r[Len(r) - i + 1] = u[Len(u) - i + 1]
  <2>1. CASE i = 1
    BY <1>0, <1>1, <1>2, <2>1
  <2>2. CASE i # 1
    <3>1. i \in Nat /\ i - 1 \in 1 .. Len(s)
      BY <1>0, <1>1, <2>2
    <3>2. s[Len(s) - (i - 1) + 1] = t[Len(t) - (i - 1) + 1]
      BY <1>3, <3>1
    <3> DEFINE n == Len(s)
               m == Len(t)
    <3> HIDE DEF n, m
    <3>3. /\ n \in Nat /\ m \in Nat /\ n <= m /\ Len(r) = n + 1 /\ Len(u) = m + 1
          /\ i \in Nat /\ 1 <= i - 1 /\ i - 1 <= n
      BY <1>0, <1>1, <1>2, <1>3, <3>1 DEF n, m
    <3>4. /\ Len(r) - i + 1 = n - (i - 1) + 1 /\ n - (i - 1) + 1 \in 1 .. n
          /\ Len(u) - i + 1 = m - (i - 1) + 1 /\ m - (i - 1) + 1 \in 1 .. m
      BY <3>3
    <3> QED
      BY <1>1, <1>2, <3>2, <3>4 DEF n, m
  <2> QED
    BY <2>1, <2>2
<1>5. Len(r) <= Len(u)
  BY <1>0, <1>1, <1>2, <1>3
<1>6. IsSuffix(r, u)
  BY <1>1, <1>2, <1>4, <1>5, SuffixIs
<1> QED
  BY <1>6 DEF r, u

-----------------------------------------------------------------------------
LEMMA NoNodeAtFirst ==
  /\ EmptyTable \in Tables(DataNode) /\ WellFiled(EmptyTable)
  /\ \A p \in PIDs : ~ Known(EmptyTable, p)
<1>1. \A b \in Buckets : EmptyTable[b] = <<>> /\ DOMAIN EmptyTable[b] = {}
  BY DEF EmptyTable
<1> QED
  BY <1>1, HashInBuckets DEF EmptyTable, Tables, WellFiled, Known, Hits

LEMMA InvAtFirst == Init => DataStoreInv
<1> SUFFICES ASSUME Init PROVE DataStoreInv
  OBVIOUS
<1>1. /\ data_table \in Tables(DataNode) /\ WellFiled(data_table)
      /\ \A p \in PIDs : ~ Known(data_table, p)
  BY NoNodeAtFirst DEF Init
<1>2. /\ now = 0 /\ swept = 0 /\ arrived \in [PIDs -> Seq(Nat)]
      /\ \A p \in PIDs : arrived[p] = <<>>
  BY DEF Init
<1> QED
  BY <1>1, <1>2 DEF DataStoreInv, PIDInv, PIDIs

(* Another PID's call leaves all that is said of a PID as it is.           *)
LEMMA OthersStay ==
  ASSUME NEW p \in PIDs, PIDInv(p), UNCHANGED <<now, swept>>,
         arrived'[p] = arrived[p],
         Known(data_table', p) <=> Known(data_table, p),
         Known(data_table, p) => NodeOf(data_table', p) = NodeOf(data_table, p)
  PROVE  PIDInv(p)'
BY DEF PIDInv, PIDIs

LEMMA ReceiveKeepsInv ==
  ASSUME DataStoreInv, NEW p \in PIDs, Receive(p)
  PROVE  DataStoreInv'
<1>1. PICK o \in add_data_to_pid(data_table, p, now, now) :
        /\ data_table' = o.table
        /\ arrived' = IF o.rc = 0 THEN [arrived EXCEPT ![p] = Append(@, now)] ELSE arrived
  BY DEF Receive
<1>2. UNCHANGED <<now, swept>> /\ now \in Nat /\ now - now = 0
      /\ STALE_SECS \in Nat /\ STALE_SECS > 0
  BY DataTableAssumption DEF Receive, DataStoreInv
<1> DEFINE old == NodeOf(data_table, p)
           new == NodeOf(data_table', p)
           past == arrived[p]
<1>3. /\ Touches(p, data_table, data_table') /\ o.rc \in {0, -1}
      /\ o.rc = 0 => /\ Known(data_table', p)
                     /\ new.data = Append(Before(data_table, p), now)
                     /\ new.timestamp = now
      /\ o.rc # 0 /\ Known(data_table', p) =>
           /\ new.data = Before(data_table, p)
           /\ new.timestamp = IF Known(data_table, p) THEN old.timestamp ELSE now
      /\ /\ "realloc" \notin ALLOC_FAILS /\ Known(data_table', p)
         /\ Known(data_table, p) => Sound(old)
         => Sound(new)
  BY <1>1, AddIs DEF DataStoreInv
<1>4. past \in Seq(Nat) /\ PIDInv(p)
  BY DEF DataStoreInv
<1>5. Before(data_table, p) \in Seq(Nat) /\ IsSuffix(Before(data_table, p), past)
  <2>1. CASE Known(data_table, p)
    <3>1. old \in DataNode
      BY <2>1, LookupFinds, DataNodesHavePIDs DEF DataStoreInv
    <3> QED
      BY <1>4, <2>1, <3>1, NodeFields DEF Before, PIDInv, PIDIs, NodeIs
  <2>2. CASE ~ Known(data_table, p)
    BY <1>4, <2>2, EmptyIsSuffix DEF Before
  <2> QED
    BY <2>1, <2>2
<1>6. Known(data_table', p) /\ "realloc" \notin ALLOC_FAILS => Sound(new)
  BY <1>3, <1>4 DEF PIDInv, PIDIs, NodeIs
<1>7. /\ arrived' \in [PIDs -> Seq(Nat)]
      /\ arrived'[p] = IF o.rc = 0 THEN Append(past, now) ELSE past
      /\ \A q \in PIDs \ {p} : arrived'[q] = arrived[q]
  <2>1. arrived \in [PIDs -> Seq(Nat)] /\ Append(past, now) \in Seq(Nat)
    BY <1>2, <1>4 DEF DataStoreInv
  <2>2. CASE o.rc = 0
    BY <1>1, <2>1, <2>2
  <2>3. CASE o.rc # 0
    BY <1>1, <2>1, <2>3
  <2> QED
    BY <2>2, <2>3
<1>8. PIDInv(p)'
  <2>1. CASE o.rc = 0
    <3> DEFINE grown == Append(past, now)
               before == Before(data_table, p)
    <3>1. /\ grown \in Seq(Nat) /\ Len(grown) = Len(past) + 1 /\ Len(past) \in Nat
          /\ DOMAIN grown = 1 .. Len(past) + 1 /\ DOMAIN past = 1 .. Len(past)
          /\ grown[Len(past) + 1] = now
          /\ \A i \in DOMAIN past : grown[i] = past[i] /\ past[i] \in Nat
      BY <1>2, <1>4
    <3>2. /\ IsSuffix(new.data, grown)
          /\ Len(new.data) = Len(before) + 1 /\ Len(before) \in Nat
      <4>1. new.data = Append(before, now) /\ before \in Seq(Nat) /\ IsSuffix(before, past)
        BY <1>3, <1>5, <2>1
      <4> HIDE DEF before
      <4>2. IsSuffix(Append(before, now), grown)
        BY <1>2, <1>4, <4>1, SuffixGrows
      <4> QED
        BY <1>2, <4>1, <4>2
    <3>3. /\ arrived'[p] = grown /\ new.timestamp = now
          /\ now' = now /\ swept' = swept /\ Known(data_table', p)
      BY <1>2, <1>3, <1>7, <2>1
    <3>4. \A i \in DOMAIN past : past[i] <= now
      BY <1>4 DEF PIDInv, PIDIs
    <3>5. ASSUME NEW i \in DOMAIN grown PROVE grown[i] <= now
      BY <1>2, <3>1, <3>4
    <3>6. ASSUME NEW i \in DOMAIN grown, now - grown[i] < STALE_SECS
          PROVE  Len(grown) - Len(new.data) < i
      <4>1. CASE i = Len(past) + 1
        <5> HIDE DEF grown, before, old, new, past
        <5> QED
          BY <3>1, <3>2, <4>1
      <4>2. CASE i # Len(past) + 1
        <5>1. i \in DOMAIN past /\ grown[i] = past[i]
          BY <3>1, <4>2
        <5>2. Known(data_table, p) /\ Len(past) - Len(old.data) < i
          BY <1>4, <3>6, <5>1 DEF PIDInv, PIDIs
        <5>3. Len(old.data) = Len(before)
          BY <5>2 DEF Before
        <5>4. i \in Nat
          BY <3>1
        <5> HIDE DEF grown, before, old, new, past
        <5> QED
          BY <3>1, <3>2, <5>1, <5>2, <5>3, <5>4
      <4> QED
        BY <4>1, <4>2
    <3> HIDE DEF grown, before, old, new
    <3>7. NodeIs(new, grown, now, swept)
      BY <1>2, <1>6, <3>2, <3>3, <3>5 DEF NodeIs, Stale
    <3> QED
      BY <1>2, <3>3, <3>5, <3>6, <3>7 DEF PIDInv, PIDIs, new
  <2>2. CASE o.rc # 0
    <3>1. arrived'[p] = past /\ now' = now /\ swept' = swept
      <4> HIDE DEF past
      <4> QED
        BY <1>2, <1>7, <2>2
    <3>2. \A i \in DOMAIN past : past[i] <= now
      BY <1>4 DEF PIDInv, PIDIs
    <3>3. ASSUME Known(data_table', p)
          PROVE  /\ IsSuffix(new.data, past) /\ new.timestamp <= now
                 /\ \A i \in DOMAIN past : past[i] <= new.timestamp
                 /\ swept = now => ~ Stale(new, now)
      <4>1. new.data = Before(data_table, p)
            /\ new.timestamp = IF Known(data_table, p) THEN old.timestamp ELSE now
        BY <1>3, <2>2, <3>3
      <4>2. CASE Known(data_table, p)
        <5>1. NodeIs(old, past, now, swept)
          BY <1>4, <4>2 DEF PIDInv, PIDIs
        <5>2. new.timestamp = old.timestamp
          BY <4>1, <4>2
        <5> HIDE DEF old, new, past
        <5> QED
          BY <1>5, <4>1, <5>1, <5>2 DEF NodeIs, Stale
      <4>3. CASE ~ Known(data_table, p)
        <5>1. new.timestamp = now
          BY <4>1, <4>3
        <5> HIDE DEF old, new, past
        <5> QED
          BY <1>2, <1>5, <3>2, <4>1, <5>1 DEF Stale
      <4> HIDE DEF old, new, past
      <4> QED
        BY <4>2, <4>3
    <3>4. \A i \in DOMAIN past : now - past[i] < STALE_SECS =>
            Known(data_table', p) /\ Len(past) - Len(new.data) < i
      BY <1>3, <1>4, <2>2 DEF PIDInv, PIDIs, Touches, Before
    <3> HIDE DEF old, new, past
    <3>5. Known(data_table', p) => NodeIs(new, past, now, swept)
      BY <1>6, <3>1, <3>3 DEF NodeIs, new, past
    <3> QED
      BY <3>1, <3>2, <3>4, <3>5 DEF PIDInv, PIDIs, new, past
  <2> QED
    BY <2>1, <2>2
<1>9. ASSUME NEW q \in PIDs, q # p PROVE PIDInv(q)'
  <2>1. q \in PIDs \ {p} /\ PIDInv(q)
    BY <1>9 DEF DataStoreInv
  <2>2. /\ Known(data_table', q) <=> Known(data_table, q)
        /\ Known(data_table, q) => NodeOf(data_table', q) = NodeOf(data_table, q)
    BY <1>3, <2>1 DEF Touches
  <2>3. arrived'[q] = arrived[q]
    BY <1>7, <2>1
  <2> QED
    BY <1>2, <2>1, <2>2, <2>3, OthersStay
<1> QED
  BY <1>2, <1>3, <1>7, <1>8, <1>9 DEF DataStoreInv, Touches

LEMMA CleanupKeepsInv ==
  ASSUME DataStoreInv, Cleanup
  PROVE  DataStoreInv'
<1>1. /\ data_table' \in Tables(DataNode) /\ WellFiled(data_table')
      /\ \A p \in PIDs :
           /\ Known(data_table', p) <=>
                Known(data_table, p) /\ ~ Stale(NodeOf(data_table, p), now)
           /\ Known(data_table', p) => NodeOf(data_table', p) = NodeOf(data_table, p)
  BY SweepIs, DataNodesHavePIDs DEF Cleanup, DataStoreInv
<1>2. swept' = now /\ now' = now /\ arrived' = arrived /\ now \in Nat /\ STALE_SECS \in Nat
  BY DataTableAssumption DEF Cleanup, DataStoreInv
<1>3. ASSUME NEW p \in PIDs PROVE PIDInv(p)'
  <2> DEFINE old == NodeOf(data_table, p)
             past == arrived[p]
  <2>1. PIDInv(p) /\ past \in Seq(Nat)
    BY DEF DataStoreInv
  <2>2. ASSUME Known(data_table', p) PROVE NodeIs(NodeOf(data_table', p), past, now, now)
    BY <1>1, <1>2, <2>1, <2>2 DEF PIDInv, PIDIs, NodeIs
  <2>3. ASSUME NEW i \in DOMAIN past, now - past[i] < STALE_SECS
        PROVE  /\ Known(data_table', p)
               /\ Len(past) - Len(NodeOf(data_table', p).data) < i
    <3>1. /\ Known(data_table, p) /\ Len(past) - Len(old.data) < i
          /\ past[i] <= old.timestamp
      BY <2>1, <2>3 DEF PIDInv, PIDIs, NodeIs
    <3>2. old \in DataNode
      BY <3>1, LookupFinds, DataNodesHavePIDs DEF DataStoreInv
    <3>3. old.timestamp \in Nat /\ past[i] \in Nat
      BY <2>1, <2>3, <3>2, NodeFields
    <3>4. ~ Stale(old, now)
      BY <1>2, <2>3, <3>1, <3>3 DEF Stale
    <3> QED
      BY <1>1, <3>1, <3>4
  <2>4. \A i \in DOMAIN past : past[i] <= now'
    BY <1>2, <2>1 DEF PIDInv, PIDIs
  <2> QED
    BY <1>2, <2>2, <2>3, <2>4 DEF PIDInv, PIDIs
<1> QED
  BY <1>1, <1>2, <1>3 DEF DataStoreInv

LEMMA TickKeepsInv ==
  ASSUME DataStoreInv, Tick
  PROVE  DataStoreInv'
<1>1. /\ now' = now + 1 /\ UNCHANGED <<data_table, arrived, swept>>
      /\ now \in Nat /\ swept \in Nat /\ swept <= now /\ STALE_SECS \in Nat
  BY DataTableAssumption DEF Tick, DataStoreInv
<1>2. ASSUME NEW p \in PIDs PROVE PIDInv(p)'
  <2> DEFINE node == NodeOf(data_table, p)
             past == arrived[p]
  <2>1. PIDInv(p) /\ past \in Seq(Nat) /\ \A i \in DOMAIN past : past[i] \in Nat
    BY DEF DataStoreInv
  <2>2. Known(data_table, p) => node.timestamp \in Nat
    BY LookupFinds, DataNodesHavePIDs, NodeFields DEF DataStoreInv
  <2>3. swept' # now'
    BY <1>1
  <2> HIDE DEF node, past
  <2>4. Known(data_table, p) => NodeIs(node, past, now', swept')
    BY <1>1, <2>1, <2>2, <2>3 DEF PIDInv, PIDIs, NodeIs, node, past
  <2>5. \A i \in DOMAIN past : past[i] <= now'
    BY <1>1, <2>1 DEF PIDInv, PIDIs, past
  <2>6. \A i \in DOMAIN past : now' - past[i] < STALE_SECS =>
          Known(data_table, p) /\ Len(past) - Len(node.data) < i
    <3>1. \A i \in DOMAIN past : now - past[i] < STALE_SECS =>
            Known(data_table, p) /\ Len(past) - Len(node.data) < i
      BY <2>1 DEF PIDInv, PIDIs, past, node
    <3>2. \A i \in DOMAIN past : now' - past[i] < STALE_SECS => now - past[i] < STALE_SECS
      BY <1>1, <2>1
    <3> QED
      BY <3>1, <3>2
  <2> QED
    BY <1>1, <2>4, <2>5, <2>6 DEF PIDInv, PIDIs, past, node
<1> QED
  BY <1>1, <1>2 DEF DataStoreInv

LEMMA DataStoreInductive == Spec => []DataStoreInv
<1>1. DataStoreInv /\ [Next]_vars => DataStoreInv'
  <2> SUFFICES ASSUME DataStoreInv, [Next]_vars PROVE DataStoreInv'
    OBVIOUS
  <2>1. CASE UNCHANGED vars
    BY <2>1 DEF vars, DataStoreInv, PIDInv, PIDIs, NodeIs
  <2> QED
    BY <2>1, ReceiveKeepsInv, CleanupKeepsInv, TickKeepsInv DEF Next
<1> QED
  BY <1>1, InvAtFirst, PTL DEF Spec

-----------------------------------------------------------------------------
LEMMA EveryNode ==
  ASSUME DataStoreInv, NEW b \in Buckets, NEW i \in DOMAIN data_table[b]
  PROVE  /\ data_table[b][i] \in DataNode
         /\ \E p \in PIDs : NodeIs(data_table[b][i], arrived[p], now, swept)
<1> DEFINE node == data_table[b][i]
<1>1. node \in DataNode
  BY DEF DataStoreInv, Tables
<1>2. node.pid \in PIDs /\ Known(data_table, node.pid) /\ NodeOf(data_table, node.pid) = node
  BY NodesAreFound, DataNodesHavePIDs DEF DataStoreInv
<1>3. NodeIs(node, arrived[node.pid], now, swept)
  BY <1>2 DEF DataStoreInv, PIDInv, PIDIs
<1> QED
  BY <1>1, <1>2, <1>3

(* The variables keep their types, and the arrays of the table hold only   *)
(* what was received (get_pid_data, add_data_to_pid, cleanup_old_data).    *)
THEOREM DataStoreTypes == Spec => []TypeOK
<1>1. DataStoreInv => TypeOK
  BY DEF DataStoreInv, TypeOK, Tables, DataNode, Node
<1> QED
  BY <1>1, DataStoreInductive, PTL

(* However chains are shared, memory runs out and sweeps cut through them, *)
(* no PID ever has two nodes or one where a lookup would not find it.      *)
THEOREM NodesAreUnique == Spec => []UniqueNodes
<1>1. DataStoreInv => UniqueNodes
  BY DEF DataStoreInv, UniqueNodes
<1> QED
  BY <1>1, DataStoreInductive, PTL

(* As long as realloc does not fail, no message is written past the end of *)
(* its array: the capacity field is the number of slots, and the count     *)
(* stays within it.  (When it does fail this is wrong: see the run that    *)
(* expects a violation.)                                                   *)
THEOREM ArraysAreLargeEnough ==
  ASSUME "realloc" \notin ALLOC_FAILS
  PROVE  Spec => []CapacityIsAllocated
<1>1. ASSUME DataStoreInv PROVE CapacityIsAllocated
  BY <1>1, EveryNode DEF CapacityIsAllocated, NodeIs, Sound
<1> QED
  BY <1>1, DataStoreInductive, PTL

(* What a node holds is the latest part of the PID's messages, in order,   *)
(* and it holds every one that is less than STALE_SECS old: neither a      *)
(* failed allocation nor a sweep through a shared chain loses one of them. *)
THEOREM FreshDataStays == Spec => []FreshDataKept
<1>1. DataStoreInv => FreshDataKept
  BY DEF DataStoreInv, PIDInv, PIDIs, NodeIs, FreshDataKept
<1> QED
  BY <1>1, DataStoreInductive, PTL

(* A sweep leaves no node behind that is STALE_SECS old, wherever in its   *)
(* chain it and the other removed ones stood.                              *)
THEOREM SweepsAreComplete == Spec => []SweepIsComplete
<1>1. ASSUME DataStoreInv PROVE SweepIsComplete
  <2> SUFFICES ASSUME swept = now, NEW b \in Buckets, NEW i \in DOMAIN data_table[b]
               PROVE  now - data_table[b][i].timestamp < STALE_SECS
    BY DEF SweepIsComplete
  <2>1. data_table[b][i].timestamp \in Nat /\ ~ Stale(data_table[b][i], now)
    BY <1>1, EveryNode, NodeFields DEF NodeIs
  <2>2. now \in Nat /\ STALE_SECS \in Nat
    BY <1>1, DataTableAssumption DEF DataStoreInv
  <2> QED
    BY <2>1, <2>2 DEF Stale
<1> QED
  BY <1>1, DataStoreInductive, PTL
=============================================================================
