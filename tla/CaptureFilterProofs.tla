------------------------ MODULE CaptureFilterProofs ------------------------
(***************************************************************************)
(* The rate limiter of is_pid_recent for any number of PIDs, buckets and   *)
(* seconds.  The lemmas say what one call does to the chained table: it    *)
(* stays well filed, the PID's node gets the new time, and every other     *)
(* PID's node, in the same chain or not, is as before.  The invariant that *)
(* carries the spacing of passages is that the table and the history of    *)
(* passages agree.                                                         *)
(***************************************************************************)
EXTENDS CaptureFilter, TableProofs

Table == Tables(PidEntry)

LEMMA EntriesHavePIDs == HavePIDs(PidEntry)
BY DEF HavePIDs, PidEntry

(* The two cases together: what one stamping call does.                    *)
LEMMA StampFiles ==
  ASSUME NEW table \in Table, WellFiled(table), NEW p \in PIDs, NEW t \in Nat
  PROVE  /\ Stamped(table, p, t) \in Table
         /\ WellFiled(Stamped(table, p, t))
         /\ Known(Stamped(table, p, t), p)
         /\ NodeOf(Stamped(table, p, t), p).timestamp = t
         /\ \A q \in PIDs \ {p} :
              /\ Known(Stamped(table, p, t), q) <=> Known(table, q)
              /\ Known(table, q) =>
                   NodeOf(Stamped(table, p, t), q) = NodeOf(table, q)
<1> DEFINE node == [pid |-> p, timestamp |-> t]
<1>1. node \in PidEntry /\ node.pid = p /\ node.timestamp = t
  BY DEF PidEntry
<1>2. CASE Known(table, p)
  <2>1. Stamped(table, p, t) = Update(table, node)
    BY <1>2 DEF Stamped
  <2> HIDE DEF node
  <2> QED
    BY <1>1, <1>2, <2>1, EntriesHavePIDs, UpdateFiles DEF Table
<1>3. CASE ~ Known(table, p)
  <2>1. Stamped(table, p, t) = LinkFirst(table, node)
    BY <1>3 DEF Stamped
  <2> HIDE DEF node
  <2> QED
    BY <1>1, <1>3, <2>1, EntriesHavePIDs, LinkFiles DEF Table
<1> QED
  BY <1>2, <1>3

-----------------------------------------------------------------------------
FilterInv == TypeOK /\ UniqueNodes /\ TableMatchesHistory /\ PassagesSpaced

LEMMA FilterInit == Init => FilterInv
<1> SUFFICES ASSUME Init PROVE FilterInv
  OBVIOUS
<1>1. pid_table = [b \in Buckets |-> <<>>] /\ <<>> \in Seq(PidEntry)
  BY DEF Init, EmptyTable
<1>2. \A b \in Buckets : pid_table[b] = <<>> /\ DOMAIN pid_table[b] = {}
  BY <1>1
<1>3. pid_table \in Table /\ WellFiled(pid_table)
  BY <1>1, <1>2 DEF Table, Tables, WellFiled
<1>4. \A p \in PIDs : ~ Known(pid_table, p)
  BY <1>2, HashInBuckets DEF Known, Hits
<1>5. /\ \A p \in PIDs : passed[p] = <<>> /\ DOMAIN passed[p] = {} /\ Len(passed[p]) = 0
      /\ passed \in [PIDs -> Seq([at : Nat, recorded : BOOLEAN])]
  BY DEF Init
<1>6. TypeOK
  BY <1>3, <1>5 DEF Init, TypeOK, Table, Tables
<1>7. TableMatchesHistory
  BY <1>4, <1>5 DEF TableMatchesHistory
<1>8. PassagesSpaced
  BY <1>5 DEF PassagesSpaced
<1> QED
  BY <1>3, <1>6, <1>7, <1>8 DEF FilterInv, UniqueNodes

(* One more passage keeps the history spaced if the last one is either     *)
(* unrecorded or RECENT_SECS old.                                          *)
LEMMA SpacedAppend ==
  ASSUME FilterInv, NEW p \in PIDs, NEW r \in BOOLEAN, LetThrough(p, r),
         passed[p] # <<>> =>
           \/ ~ passed[p][Len(passed[p])].recorded
           \/ now - passed[p][Len(passed[p])].at >= RECENT_SECS
  PROVE  PassagesSpaced'
<1> DEFINE Passage == [at : Nat, recorded : BOOLEAN]
<1>0. passed \in [PIDs -> Seq(Passage)] /\ now \in Nat
  BY DEF FilterInv, TypeOK
<1>1. passed' = [passed EXCEPT ![p] = Append(passed[p], [at |-> now, recorded |-> r])]
  BY DEF LetThrough
<1> SUFFICES ASSUME NEW q \in PIDs, NEW k \in 1 .. Len(passed'[q]) - 1,
                    passed'[q][k].recorded
             PROVE  passed'[q][k + 1].at - passed'[q][k].at >= RECENT_SECS
  BY DEF PassagesSpaced
<1>2. CASE q # p
  BY <1>0, <1>1, <1>2 DEF FilterInv, PassagesSpaced
<1>3. CASE q = p
  <2> DEFINE old == passed[p]
             new == passed'[p]
  <2>1. new = Append(old, [at |-> now, recorded |-> r]) /\ old \in Seq(Passage)
    BY <1>0, <1>1
  <2>2. /\ Len(new) = Len(old) + 1 /\ Len(old) \in Nat
        /\ new[Len(old) + 1] = [at |-> now, recorded |-> r]
        /\ \A l \in 1 .. Len(old) : new[l] = old[l]
    BY <2>1
  <2>3. CASE k = Len(old)
    <3>1. old # <<>> /\ new[k] = old[k] /\ new[k + 1].at = now
      BY <1>3, <2>1, <2>2, <2>3
    <3> QED
      BY <1>3, <2>3, <3>1
  <2>4. CASE k # Len(old)
    <3>1. k \in 1 .. Len(old) - 1 /\ k + 1 \in 1 .. Len(old)
      BY <1>3, <2>2, <2>4
    <3>2. new[k] = old[k] /\ new[k + 1] = old[k + 1]
      BY <2>2, <3>1
    <3> QED
      BY <1>3, <3>1, <3>2 DEF FilterInv, PassagesSpaced
  <2> QED
    BY <2>3, <2>4
<1> QED
  BY <1>2, <1>3

(* What a passage adds to the history.                                     *)
LEMMA HistoryAppend ==
  ASSUME FilterInv, NEW p \in PIDs, NEW r \in BOOLEAN, LetThrough(p, r)
  PROVE  /\ passed' \in [PIDs -> Seq([at : Nat, recorded : BOOLEAN])]
         /\ now' = now /\ suppressed' = suppressed
         /\ passed'[p] # <<>>
         /\ passed'[p][Len(passed'[p])] = [at |-> now, recorded |-> r]
         /\ \A k \in DOMAIN passed'[p] :
              \/ passed'[p][k] = [at |-> now, recorded |-> r]
              \/ (k \in DOMAIN passed[p] /\ passed'[p][k] = passed[p][k])
         /\ \A q \in PIDs \ {p} : passed'[q] = passed[q]
<1> DEFINE Passage == [at : Nat, recorded : BOOLEAN]
           new == [at |-> now, recorded |-> r]
<1>0. passed \in [PIDs -> Seq(Passage)] /\ now \in Nat
  BY DEF FilterInv, TypeOK
<1>1. /\ passed' = [passed EXCEPT ![p] = Append(passed[p], new)]
      /\ now' = now /\ suppressed' = suppressed
  BY DEF LetThrough
<1>2. new \in Passage /\ passed[p] \in Seq(Passage) /\ passed'[p] = Append(passed[p], new)
  BY <1>0, <1>1
<1>3. passed' \in [PIDs -> Seq(Passage)]
  BY <1>0, <1>1, <1>2
<1>4. /\ Len(passed'[p]) = Len(passed[p]) + 1 /\ Len(passed[p]) \in Nat
      /\ passed'[p][Len(passed[p]) + 1] = new
      /\ \A k \in 1 .. Len(passed[p]) : passed'[p][k] = passed[p][k]
  BY <1>2
<1>5. passed'[p] # <<>>
  BY <1>4
<1>6. \A k \in DOMAIN passed'[p] :
        \/ passed'[p][k] = new
        \/ (k \in DOMAIN passed[p] /\ passed'[p][k] = passed[p][k])
  <2> HIDE DEF new
  <2>1. /\ DOMAIN passed'[p] = 1 .. Len(passed[p]) + 1
        /\ DOMAIN passed[p] = 1 .. Len(passed[p])
    BY <1>2
  <2>2. TAKE k \in DOMAIN passed'[p]
  <2>3. CASE k = Len(passed[p]) + 1
    <3>1. passed'[p][k] = new
      BY <1>4, <2>3
    <3> QED
      BY <3>1
  <2>4. CASE k # Len(passed[p]) + 1
    <3>1. k \in 1 .. Len(passed[p])
      BY <1>4, <2>1, <2>4
    <3>2. k \in DOMAIN passed[p]
      BY <2>1, <3>1
    <3>3. passed'[p][k] = passed[p][k]
      BY <1>4, <3>1
    <3> QED
      BY <3>2, <3>3
  <2> QED
    BY <2>3, <2>4
<1> QED
  BY <1>1, <1>3, <1>4, <1>5, <1>6

(* The invariant at one PID.                                               *)
LEMMA HistoryOf ==
  ASSUME FilterInv, NEW p \in PIDs
  PROVE  /\ Known(pid_table, p) =>
              /\ passed[p] # <<>>
              /\ passed[p][Len(passed[p])] =
                   [at |-> NodeOf(pid_table, p).timestamp, recorded |-> TRUE]
         /\ ~ Known(pid_table, p) =>
              \A k \in DOMAIN passed[p] : ~ passed[p][k].recorded
         /\ passed[p] # <<>> =>
              /\ Len(passed[p]) \in DOMAIN passed[p]
              /\ passed[p][Len(passed[p])].at \in Nat
<1>1. Known(pid_table, p) =>
        /\ passed[p] # <<>>
        /\ passed[p][Len(passed[p])] =
             [at |-> NodeOf(pid_table, p).timestamp, recorded |-> TRUE]
  BY DEF FilterInv, TableMatchesHistory
<1>2. ~ Known(pid_table, p) => \A k \in DOMAIN passed[p] : ~ passed[p][k].recorded
  BY DEF FilterInv, TableMatchesHistory
<1>3. ASSUME passed[p] # <<>>
      PROVE  Len(passed[p]) \in DOMAIN passed[p] /\ passed[p][Len(passed[p])].at \in Nat
  <2> DEFINE Passage == [at : Nat, recorded : BOOLEAN]
  <2>1. passed[p] \in Seq(Passage)
    BY DEF FilterInv, TypeOK
  <2>2. Len(passed[p]) \in DOMAIN passed[p] /\ passed[p][Len(passed[p])] \in Passage
    <3> HIDE DEF Passage
    <3> QED
      BY <1>3, <2>1
  <2> QED
    BY <2>2
<1> QED
  BY <1>1, <1>2, <1>3

(* An event is captured when the last passage is old enough: what the node *)
(* says of it is what the history says.                                    *)
LEMMA CaptureMayPass ==
  ASSUME FilterInv, NEW p \in PIDs, Capture(p), passed[p] # <<>>
  PROVE  \/ ~ passed[p][Len(passed[p])].recorded
         \/ now - passed[p][Len(passed[p])].at >= RECENT_SECS
<1>1. now \in Nat
  BY DEF FilterInv, TypeOK
<1>2. CASE Known(pid_table, p)
  <2>1. ~ (now - NodeOf(pid_table, p).timestamp < RECENT_SECS)
    BY <1>2 DEF Capture, IsRecent, Within
  <2>2. passed[p][Len(passed[p])] =
          [at |-> NodeOf(pid_table, p).timestamp, recorded |-> TRUE]
    BY <1>2, HistoryOf
  <2>3. passed[p][Len(passed[p])].at = NodeOf(pid_table, p).timestamp
    BY <2>2
  <2>4. passed[p][Len(passed[p])].at \in Nat
    BY HistoryOf
  <2> QED
    BY <1>1, <2>1, <2>3, <2>4, PidTableAssumption
<1>3. CASE ~ Known(pid_table, p)
  BY <1>3, HistoryOf
<1> QED
  BY <1>2, <1>3

LEMMA CaptureKeeps ==
  ASSUME FilterInv, NEW p \in PIDs, Capture(p) PROVE FilterInv'
<1>1. pid_table \in Table /\ WellFiled(pid_table) /\ now \in Nat
  BY DEF FilterInv, TypeOK, UniqueNodes, Table, Tables
<1>2. pid_table' = Stamped(pid_table, p, now) /\ LetThrough(p, TRUE)
  BY DEF Capture
<1>3. /\ pid_table' \in Table /\ WellFiled(pid_table')
      /\ Known(pid_table', p) /\ NodeOf(pid_table', p).timestamp = now
      /\ \A q \in PIDs \ {p} :
           /\ Known(pid_table', q) <=> Known(pid_table, q)
           /\ Known(pid_table, q) => NodeOf(pid_table', q) = NodeOf(pid_table, q)
  BY <1>1, <1>2, StampFiles
<1>4. TypeOK'
  BY <1>2, <1>3, HistoryAppend DEF FilterInv, TypeOK, Table, Tables
<1>5. UniqueNodes'
  BY <1>3 DEF UniqueNodes, WellFiled, Buckets, hash_pid
<1>6. TableMatchesHistory'
  <2> SUFFICES ASSUME NEW q \in PIDs
               PROVE  IF Known(pid_table', q)
                      THEN /\ passed'[q] # <<>>
                           /\ passed'[q][Len(passed'[q])] =
                                [at |-> NodeOf(pid_table', q).timestamp, recorded |-> TRUE]
                      ELSE \A k \in DOMAIN passed'[q] : ~ passed'[q][k].recorded
    BY DEF TableMatchesHistory, Known, NodeOf, First, Hits, hash_pid
  <2>1. CASE q = p
    BY <1>2, <1>3, <2>1, HistoryAppend
  <2>2. CASE q # p
    <3>1. passed'[q] = passed[q]
      BY <1>2, <2>2, HistoryAppend
    <3>2. CASE Known(pid_table, q)
      BY <1>3, <2>2, <3>1, <3>2, HistoryOf
    <3>3. CASE ~ Known(pid_table, q)
      BY <1>3, <2>2, <3>1, <3>3, HistoryOf
    <3> QED
      BY <3>2, <3>3
  <2> QED
    BY <2>1, <2>2
<1>7. PassagesSpaced'
  BY <1>2, CaptureMayPass, SpacedAppend
<1> QED
  BY <1>4, <1>5, <1>6, <1>7 DEF FilterInv

LEMMA TableStays ==
  ASSUME UNCHANGED pid_table
  PROVE  \A p \in PIDs : /\ Known(pid_table', p) <=> Known(pid_table, p)
                         /\ NodeOf(pid_table', p) = NodeOf(pid_table, p)
BY DEF Known, NodeOf, First, Hits, hash_pid

LEMMA CaptureUnrecordedKeeps ==
  ASSUME FilterInv, NEW p \in PIDs, CaptureUnrecorded(p) PROVE FilterInv'
<1>1. pid_table' = pid_table /\ ~ Known(pid_table, p) /\ LetThrough(p, FALSE)
  BY DEF CaptureUnrecorded
<1>2. TypeOK'
  BY <1>1, HistoryAppend DEF FilterInv, TypeOK
<1>3. UniqueNodes'
  BY <1>1 DEF FilterInv, UniqueNodes, WellFiled
<1>4. \A k \in DOMAIN passed[p] : ~ passed[p][k].recorded
  BY <1>1 DEF FilterInv, TableMatchesHistory
<1>5. TableMatchesHistory'
  <2> SUFFICES ASSUME NEW q \in PIDs
               PROVE  IF Known(pid_table, q)
                      THEN /\ passed'[q] # <<>>
                           /\ passed'[q][Len(passed'[q])] =
                                [at |-> NodeOf(pid_table, q).timestamp, recorded |-> TRUE]
                      ELSE \A k \in DOMAIN passed'[q] : ~ passed'[q][k].recorded
    BY <1>1, TableStays DEF TableMatchesHistory
  <2>1. CASE q = p
    <3>1. \A k \in DOMAIN passed'[p] :
            passed'[p][k] = [at |-> now, recorded |-> FALSE]
            \/ (k \in DOMAIN passed[p] /\ passed'[p][k] = passed[p][k])
      BY <1>1, HistoryAppend
    <3>2. \A k \in DOMAIN passed'[p] : ~ passed'[p][k].recorded
      BY <1>4, <3>1
    <3> QED
      BY <1>1, <2>1, <3>2
  <2>2. CASE q # p
    <3>1. passed'[q] = passed[q]
      BY <1>1, <2>2, HistoryAppend
    <3>2. CASE Known(pid_table, q)
      BY <3>1, <3>2, HistoryOf
    <3>3. CASE ~ Known(pid_table, q)
      BY <3>1, <3>3, HistoryOf
    <3> QED
      BY <3>2, <3>3
  <2> QED
    BY <2>1, <2>2
<1>6. PassagesSpaced'
  <2>1. passed[p] # <<>> => ~ passed[p][Len(passed[p])].recorded
    BY <1>4, HistoryOf
  <2> QED
    BY <1>1, <2>1, SpacedAppend
<1> QED
  BY <1>2, <1>3, <1>5, <1>6 DEF FilterInv

(* A step that leaves the table and the passages alone.                    *)
LEMMA QuietKeeps ==
  ASSUME FilterInv, UNCHANGED <<pid_table, passed>>, now' \in Nat,
         suppressed' \in [PIDs -> Nat]
  PROVE  FilterInv'
<1>1. TypeOK'
  BY DEF FilterInv, TypeOK
<1>2. UniqueNodes' /\ PassagesSpaced'
  BY DEF FilterInv, UniqueNodes, WellFiled, PassagesSpaced
<1>3. TableMatchesHistory'
  BY TableStays DEF FilterInv, TableMatchesHistory
<1> QED
  BY <1>1, <1>2, <1>3 DEF FilterInv

LEMMA FilterNext == FilterInv /\ [Next]_vars => FilterInv'
<1> SUFFICES ASSUME FilterInv, [Next]_vars PROVE FilterInv'
  OBVIOUS
<1>1. ASSUME NEW p \in PIDs, Suppress(p) PROVE FilterInv'
  BY <1>1, QuietKeeps DEF Suppress, FilterInv, TypeOK
<1>2. CASE Tick
  BY <1>2, QuietKeeps DEF Tick, FilterInv, TypeOK
<1>3. CASE UNCHANGED vars
  BY <1>3, QuietKeeps DEF vars, FilterInv, TypeOK
<1> QED
  BY <1>1, <1>2, <1>3, CaptureKeeps, CaptureUnrecordedKeeps DEF Next

THEOREM FilterInvariant == Spec => []FilterInv
BY FilterInit, FilterNext, PTL DEF Spec

(* pid_table keeps its shape: the type invariant.                          *)
THEOREM TableTypes == Spec => []TypeOK
<1>1. FilterInv => TypeOK
  BY DEF FilterInv
<1> QED
  BY <1>1, FilterInvariant, PTL

(* No PID is ever shadowed in its chain by a second node of its own.       *)
THEOREM NodesAreUnique == Spec => []UniqueNodes
<1>1. FilterInv => UniqueNodes
  BY DEF FilterInv
<1> QED
  BY <1>1, FilterInvariant, PTL

(* The node of a PID tells when its last event was let through, and a PID  *)
(* without a node has no passage that could be recorded.                   *)
THEOREM TableTellsHistory == Spec => []TableMatchesHistory
<1>1. FilterInv => TableMatchesHistory
  BY DEF FilterInv
<1> QED
  BY <1>1, FilterInvariant, PTL

(* Two passages of one PID are RECENT_SECS or more apart unless the first  *)
(* one could not be recorded.                                              *)
THEOREM PassagesAreSpaced == Spec => []PassagesSpaced
<1>1. FilterInv => PassagesSpaced
  BY DEF FilterInv
<1> QED
  BY <1>1, FilterInvariant, PTL

(* No process goes unmonitored for another's sake: an event is only        *)
(* dropped less than RECENT_SECS after a passage of its own PID.           *)
THEOREM SuppressesForReason == Spec => NoFalseSuppression
<1> DEFINE Reason(p) == \E i \in DOMAIN passed[p] : now - passed[p][i].at < RECENT_SECS
           Reasons == \A p \in PIDs :
                        suppressed'[p] # suppressed[p] =>
                          \E i \in DOMAIN passed[p] : now - passed[p][i].at < RECENT_SECS
<1>1. ASSUME FilterInv, NEW p \in PIDs, Suppress(p) PROVE Reason(p)
  <2> DEFINE n == Len(passed[p])
             stamp == NodeOf(pid_table, p).timestamp
  <2>1. Known(pid_table, p) /\ now - stamp < RECENT_SECS
    BY <1>1 DEF Suppress, IsRecent, Within
  <2>2. n \in DOMAIN passed[p] /\ passed[p][n] = [at |-> stamp, recorded |-> TRUE]
    BY <1>1, <2>1, HistoryOf
  <2>3. passed[p][n].at = stamp
    BY <2>2
  <2> QED
    BY <2>1, <2>2, <2>3
<1>2. FilterInv /\ [Next]_vars => [Reasons]_vars
  <2> SUFFICES ASSUME FilterInv, Next, NEW p \in PIDs, suppressed'[p] # suppressed[p]
               PROVE  Reason(p)
    BY DEF vars
  <2>1. PICK q \in PIDs : Suppress(q)
    BY DEF Next, Tick, Capture, CaptureUnrecorded, LetThrough
  <2>2. q = p
    BY <2>1 DEF Suppress, FilterInv, TypeOK
  <2> QED
    BY <1>1, <2>1, <2>2
<1> QED
  BY <1>2, FilterInvariant, PTL DEF Spec, NoFalseSuppression

(* An entry of the abstract map decides as the node does.                  *)
LEMMA EntryDecides ==
  ASSUME FilterInv, NEW p \in PIDs
  PROVE  /\ LastOf(p) # -1 <=> Known(pid_table, p)
         /\ (LastOf(p) # -1 /\ now - LastOf(p) < RECENT_SECS)
              <=> IsRecent(pid_table, p, now)
<1>1. CASE Known(pid_table, p)
  <2> DEFINE stamp == NodeOf(pid_table, p).timestamp
  <2>1. passed[p] # <<>> /\ passed[p][Len(passed[p])] = [at |-> stamp, recorded |-> TRUE]
    BY <1>1, HistoryOf
  <2>2. passed[p][Len(passed[p])].at = stamp
    BY <2>1
  <2>3. stamp \in Nat
    BY <2>1, <2>2, HistoryOf
  <2>4. LastOf(p) = stamp
    BY <1>1 DEF LastOf
  <2> HIDE DEF stamp
  <2>5. LastOf(p) # -1
    BY <2>3, <2>4
  <2>6. now - LastOf(p) < RECENT_SECS <=> IsRecent(pid_table, p, now)
    BY <1>1, <2>4 DEF IsRecent, Within, stamp
  <2> QED
    BY <1>1, <2>5, <2>6
<1>2. CASE ~ Known(pid_table, p)
  BY <1>2 DEF LastOf, IsRecent
<1> QED
  BY <1>1, <1>2

(* A call that stamps p sets the entry of p and of no other PID.           *)
LEMMA CaptureSetsEntry ==
  ASSUME FilterInv, NEW p \in PIDs, Capture(p)
  PROVE  [q \in PIDs |-> LastOf(q)]' = [[q \in PIDs |-> LastOf(q)] EXCEPT ![p] = now]
<1>1. pid_table \in Table /\ WellFiled(pid_table) /\ now \in Nat
  BY DEF FilterInv, TypeOK, UniqueNodes, Table, Tables
<1>2. pid_table' = Stamped(pid_table, p, now)
  BY DEF Capture
<1>3. /\ Known(pid_table', p) /\ NodeOf(pid_table', p).timestamp = now
      /\ \A q \in PIDs \ {p} :
           /\ Known(pid_table', q) <=> Known(pid_table, q)
           /\ Known(pid_table, q) => NodeOf(pid_table', q) = NodeOf(pid_table, q)
  BY <1>1, <1>2, StampFiles
<1>4. \A q \in PIDs : LastOf(q)' = IF Known(pid_table', q)
                                  THEN NodeOf(pid_table', q).timestamp ELSE -1
  BY DEF LastOf, Known, NodeOf, First, Hits, hash_pid
<1>5. LastOf(p)' = now /\ \A q \in PIDs \ {p} : LastOf(q)' = LastOf(q)
  BY <1>3, <1>4 DEF LastOf
<1> QED
  BY <1>5

(* What a passage does to the count of events handled.                     *)
LEMMA PassageCounts ==
  ASSUME FilterInv, NEW p \in PIDs, NEW r \in BOOLEAN, LetThrough(p, r)
  PROVE  /\ [q \in PIDs |-> Len(passed[q])]' =
              [[q \in PIDs |-> Len(passed[q])] EXCEPT ![p] = @ + 1]
         /\ now' = now /\ suppressed' = suppressed
<1> DEFINE Passage == [at : Nat, recorded : BOOLEAN]
           new == [at |-> now, recorded |-> r]
<1>1. passed \in [PIDs -> Seq(Passage)] /\ new \in Passage
  BY DEF FilterInv, TypeOK
<1>2. /\ passed' = [passed EXCEPT ![p] = Append(passed[p], new)]
      /\ now' = now /\ suppressed' = suppressed
  BY DEF LetThrough
<1> HIDE DEF new, Passage
<1>3. Len(passed'[p]) = Len(passed[p]) + 1
  BY <1>1, <1>2
<1>4. \A q \in PIDs \ {p} : Len(passed'[q]) = Len(passed[q])
  BY <1>1, <1>2
<1> QED
  BY <1>2, <1>3, <1>4

(* The chained table implements the map: each call of is_pid_recent is the *)
(* step of CaptureLimiter that the PID's own entry decides, whatever else  *)
(* is in its chain.                                                        *)
THEOREM ImplementsLimiter == Spec => LimiterSpec
<1>1. Init => Limiter!Init
  <2> SUFFICES ASSUME Init PROVE Limiter!Init
    OBVIOUS
  <2>1. \A p \in PIDs : ~ Known(pid_table, p)
    <3>1. pid_table = [b \in Buckets |-> <<>>]
      BY DEF Init, EmptyTable
    <3>2. \A b \in Buckets : DOMAIN pid_table[b] = {}
      BY <3>1
    <3> QED
      BY <3>2, HashInBuckets DEF Known, Hits
  <2>2. \A p \in PIDs : LastOf(p) = -1
    BY <2>1 DEF LastOf
  <2>3. \A p \in PIDs : Len(passed[p]) = 0
    BY DEF Init
  <2> QED
    BY <2>2, <2>3 DEF Init, Limiter!Init, Limiter!Never
<1>2. ASSUME FilterInv, NEW p \in PIDs, Suppress(p) PROVE Limiter!Drop(p)
  <2>1. UNCHANGED <<pid_table, now, passed>> /\ IsRecent(pid_table, p, now)
    BY <1>2 DEF Suppress
  <2>2. Limiter!Recent(p)
    BY <1>2, <2>1, EntryDecides DEF Limiter!Recent, Limiter!Never
  <2>3. \A q \in PIDs : LastOf(q)' = LastOf(q) /\ Len(passed[q])' = Len(passed[q])
    BY <2>1, TableStays DEF LastOf
  <2> QED
    BY <1>2, <2>1, <2>2, <2>3 DEF Suppress, Limiter!Drop
<1>3. ASSUME FilterInv, NEW p \in PIDs, Capture(p) PROVE Limiter!Handle(p)
  <2>1. ~ Limiter!Recent(p)
    BY <1>3, EntryDecides DEF Capture, Limiter!Recent, Limiter!Never
  <2>2. LetThrough(p, TRUE)
    BY <1>3 DEF Capture
  <2> QED
    BY <1>3, <2>1, <2>2, CaptureSetsEntry, PassageCounts DEF Limiter!Handle
<1>4. ASSUME FilterInv, NEW p \in PIDs, CaptureUnrecorded(p) PROVE Limiter!Handle(p)
  <2>1. LetThrough(p, FALSE) /\ UNCHANGED pid_table /\ ~ Known(pid_table, p)
    BY <1>4 DEF CaptureUnrecorded
  <2>2. LastOf(p) = -1
    BY <2>1 DEF LastOf
  <2>3. \A q \in PIDs : LastOf(q)' = LastOf(q)
    BY <2>1, TableStays DEF LastOf
  <2> QED
    BY <1>4, <2>1, <2>2, <2>3, PassageCounts
    DEF Limiter!Handle, Limiter!Recent, Limiter!Never
<1>5. ASSUME Tick PROVE Limiter!Tick
  <2>1. \A q \in PIDs : LastOf(q)' = LastOf(q)
    BY <1>5, TableStays DEF Tick, LastOf
  <2> QED
    BY <1>5, <2>1 DEF Tick, Limiter!Tick
<1>6. ASSUME UNCHANGED vars PROVE UNCHANGED Limiter!vars
  <2>1. \A q \in PIDs : LastOf(q)' = LastOf(q)
    BY <1>6, TableStays DEF vars, LastOf
  <2> QED
    BY <1>6, <2>1 DEF vars, Limiter!vars
<1>7. FilterInv /\ [Next]_vars => [Limiter!Next]_(Limiter!vars)
  BY <1>2, <1>3, <1>4, <1>5, <1>6 DEF Next, Limiter!Next
<1> QED
  BY <1>1, <1>7, FilterInvariant, PTL DEF Spec, LimiterSpec, Limiter!Spec
=============================================================================
