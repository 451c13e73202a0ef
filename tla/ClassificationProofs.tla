------------------------ MODULE ClassificationProofs ------------------------
(***************************************************************************)
(* The way from the counter to the label, for every number of rounds,      *)
(* width, dimension and set of texts: the sampling loop (Sampling), what   *)
(* the table and the network see (Inference), and the composition, which   *)
(* implements both, so that what is proved about the halves holds of the   *)
(* whole.                                                                  *)
(***************************************************************************)
EXTENDS Classification, WellFoundedInduction, NaturalsInduction, TLAPS

-----------------------------------------------------------------------------
(* Sampling.  The invariant that carries the arithmetic is that a stored   *)
(* value is at most the counter of its round: the difference of the next   *)
(* round is then taken between numbers in the right order.                 *)

(* The unsigned difference of two counts in the right order is their       *)
(* difference: nothing is reduced away.                                    *)
LEMMA SmallModulo ==
  ASSUME NEW d \in 0 .. MODULUS - 1
  PROVE  d % MODULUS = d
BY SamplingAssumption

(* An element of a sequence over S is in S.                                *)
LEMMA ElementOfSeq ==
  ASSUME NEW S, NEW s \in Seq(S), NEW k \in 1 .. Len(s)
  PROVE  s[k] \in S
OBVIOUS

Rows ==
  /\ count \in 0 .. MAX_COUNT
  /\ values \in Seq(0 .. MODULUS - 1)
  /\ counts \in Seq(0 .. MAX_COUNT)
  /\ Len(values) = Len(counts)
  /\ failed \in BOOLEAN

(* The inductive invariant: the counter is where its last reading left it. *)
RowsInv ==
  /\ Rows
  /\ NoWrap
  /\ counts # <<>> => count = counts[Len(counts)]

LEMMA RowsInit == SamplingInit => RowsInv
<1> SUFFICES ASSUME SamplingInit PROVE RowsInv
  OBVIOUS
<1>1. 0 \in 0 .. MAX_COUNT
  BY SamplingAssumption
<1>2. /\ values \in Seq(0 .. MODULUS - 1) /\ counts \in Seq(0 .. MAX_COUNT)
      /\ Len(values) = Len(counts)
  BY DEF SamplingInit
<1>3. DOMAIN values = {}
  BY DEF SamplingInit
<1>4. Rows
  BY <1>1, <1>2 DEF SamplingInit, Rows
<1> QED
  BY <1>3, <1>4 DEF SamplingInit, RowsInv, NoWrap

(* What a round stores, successful or not, keeps the invariant if it is    *)
(* at most the counter.                                                    *)
LEMMA RowsAppend ==
  ASSUME RowsInv, NEW c \in 0 .. MAX_COUNT, NEW v \in 0 .. MODULUS - 1,
         v <= c, CounterAt(c), values' = Append(values, v),
         failed' \in BOOLEAN
  PROVE  RowsInv'
<1>1. c \in 0 .. MAX_COUNT /\ count' = c /\ counts' = Append(counts, c)
  BY DEF CounterAt
<1>2. Rows'
  BY <1>1 DEF RowsInv, Rows
<1>3. NoWrap'
  <2> SUFFICES ASSUME NEW n \in DOMAIN values' PROVE values'[n] <= counts'[n]
    BY DEF NoWrap
  <2>1. CASE n = Len(values) + 1
    BY <2>1, <1>1 DEF RowsInv, Rows
  <2>2. CASE n \in DOMAIN values
    BY <2>2, <1>1 DEF RowsInv, Rows, NoWrap
  <2> QED
    BY <2>1, <2>2 DEF RowsInv, Rows
<1>4. (counts # <<>> => count = counts[Len(counts)])'
  BY <1>1 DEF RowsInv, Rows
<1> QED
  BY <1>2, <1>3, <1>4 DEF RowsInv

(* The value of a successful round is at most the counter.                 *)
LEMMA StoredSmall ==
  ASSUME RowsInv, NEW c \in count .. MAX_COUNT
  PROVE  /\ Stored(c, values) \in 0 .. MODULUS - 1
         /\ Stored(c, values) <= c
         /\ values # <<>> => Stored(c, values) = c - values[Len(values)]
<1>0. count \in 0 .. MAX_COUNT /\ MAX_COUNT \in 0 .. MODULUS - 1 /\ MODULUS \in Nat
  BY SamplingAssumption DEF RowsInv, Rows
<1>1. CASE values = <<>>
  BY <1>0, <1>1 DEF Stored
<1>2. CASE values # <<>>
  <2>0. Len(values) \in 1 .. Len(values) /\ DOMAIN values = 1 .. Len(values)
    BY <1>2 DEF RowsInv, Rows
  <2>1. values[Len(values)] \in 0 .. MODULUS - 1 /\ values[Len(values)] <= counts[Len(counts)]
    BY <2>0, ElementOfSeq DEF RowsInv, Rows, NoWrap
  <2>2. counts[Len(counts)] = count
    BY <1>2 DEF RowsInv, Rows
  <2>3. c - values[Len(values)] \in 0 .. MODULUS - 1
    BY <1>0, <2>1, <2>2
  <2>4. (c - values[Len(values)]) % MODULUS = c - values[Len(values)]
    BY <2>3, SmallModulo
  <2> QED
    BY <1>0, <1>2, <2>1, <2>3, <2>4 DEF Stored
<1> QED
  BY <1>1, <1>2

LEMMA RowsNext == RowsInv /\ [SamplingNext]_samplingVars => RowsInv'
<1> SUFFICES ASSUME RowsInv, [SamplingNext]_samplingVars PROVE RowsInv'
  OBVIOUS
<1>1. ASSUME NEW c \in 0 .. MAX_COUNT, Sample(c) PROVE RowsInv'
  <2>1. c \in count .. MAX_COUNT /\ CounterAt(c)
    BY <1>1 DEF Sample, CounterAt
  <2> QED
    BY <1>1, <2>1, StoredSmall, RowsAppend DEF Sample, RowsInv, Rows
<1>2. ASSUME NEW c \in 0 .. MAX_COUNT, SampleFails(c) PROVE RowsInv'
  BY <1>2, RowsAppend, SamplingAssumption DEF SampleFails
<1>3. CASE UNCHANGED samplingVars
  BY <1>3 DEF samplingVars, RowsInv, Rows, NoWrap
<1> QED
  BY <1>1, <1>2, <1>3 DEF SamplingNext

THEOREM RowsInvariant == SamplingSpec => []RowsInv
BY RowsInit, RowsNext, PTL DEF SamplingSpec

(* The subtraction of collect.c:105 never wraps, whatever the counter does *)
(* and whichever reads fail.                                               *)
THEOREM NeverWraps == SamplingSpec => []NoWrap
<1>1. RowsInv => NoWrap
  BY DEF RowsInv
<1> QED
  BY <1>1, RowsInvariant, PTL

-----------------------------------------------------------------------------
(* What the stored values mean.  As long as no read failed, two values in  *)
(* a row add up to the counter; this is inductive, GrowsEverySecond is not. *)
PairSum ==
  ~ failed =>
    \A n \in DOMAIN values :
      values[n] = IF n = 1 THEN counts[1] ELSE counts[n] - values[n - 1]

MeaningInv == RowsInv /\ PairSum

LEMMA MeaningInit == SamplingInit => MeaningInv
<1> SUFFICES ASSUME SamplingInit PROVE MeaningInv
  OBVIOUS
<1>1. DOMAIN values = {}
  BY DEF SamplingInit
<1> QED
  BY <1>1, RowsInit DEF MeaningInv, PairSum

LEMMA MeaningNext == MeaningInv /\ [SamplingNext]_samplingVars => MeaningInv'
<1> SUFFICES ASSUME MeaningInv, [SamplingNext]_samplingVars PROVE PairSum'
  BY RowsNext DEF MeaningInv
<1>1. ASSUME NEW c \in 0 .. MAX_COUNT, Sample(c) PROVE PairSum'
  <2>1. /\ c \in count .. MAX_COUNT
        /\ counts' = Append(counts, c)
        /\ values' = Append(values, Stored(c, values))
        /\ failed' = failed
    BY <1>1 DEF Sample, CounterAt
  <2>2. /\ Stored(c, values) \in 0 .. MODULUS - 1
        /\ values # <<>> => Stored(c, values) = c - values[Len(values)]
    BY <2>1, StoredSmall DEF MeaningInv
  <2>3. /\ values \in Seq(0 .. MODULUS - 1)
        /\ counts \in Seq(0 .. MAX_COUNT)
        /\ Len(values) = Len(counts)
    BY DEF MeaningInv, RowsInv, Rows
  <2> SUFFICES ASSUME ~ failed, NEW n \in DOMAIN values'
               PROVE  values'[n] = IF n = 1 THEN counts'[1]
                                   ELSE counts'[n] - values'[n - 1]
    BY <2>1 DEF PairSum
  <2>4. CASE n = Len(values) + 1 /\ values = <<>>
    BY <2>1, <2>2, <2>3, <2>4 DEF Stored
  <2>5. CASE n = Len(values) + 1 /\ values # <<>>
    BY <2>1, <2>2, <2>3, <2>5
  <2>6. CASE n \in DOMAIN values
    BY <2>1, <2>2, <2>3, <2>6 DEF MeaningInv, PairSum
  <2> QED
    BY <2>1, <2>2, <2>3, <2>4, <2>5, <2>6
<1>2. ASSUME NEW c \in 0 .. MAX_COUNT, SampleFails(c) PROVE PairSum'
  BY <1>2 DEF SampleFails, PairSum
<1>3. CASE UNCHANGED samplingVars
  BY <1>3 DEF samplingVars, MeaningInv, PairSum
<1> QED
  BY <1>1, <1>2, <1>3 DEF SamplingNext

(* Two rounds apart, the pair sums differ by one value on each side.       *)
LEMMA MeaningGrows == MeaningInv => GrowsEverySecond
<1> SUFFICES ASSUME MeaningInv, ~ failed, NEW n \in DOMAIN values
             PROVE  values[n] = IF n <= 2 THEN Interval(n)
                                ELSE values[n - 2] + Interval(n)
  BY DEF GrowsEverySecond
<1>1. n \in 1 .. Len(values) /\ Len(values) = Len(counts)
  BY DEF MeaningInv, RowsInv, Rows
<1>2. \A k \in 1 .. Len(values) : values[k] \in 0 .. MODULUS - 1 /\ counts[k] \in 0 .. MAX_COUNT
  BY ElementOfSeq DEF MeaningInv, RowsInv, Rows
<1>3. \A k \in 1 .. Len(values) :
        values[k] = IF k = 1 THEN counts[1] ELSE counts[k] - values[k - 1]
  BY DEF MeaningInv, PairSum, RowsInv, Rows
<1>4. CASE n <= 2
  BY <1>1, <1>2, <1>3, <1>4 DEF Interval
<1>5. CASE n > 2
  <2>1. values[n] = counts[n] - values[n - 1]
    BY <1>1, <1>3, <1>5
  <2>2. values[n - 1] = counts[n - 1] - values[n - 2]
    BY <1>1, <1>3, <1>5
  <2>3. /\ values[n - 2] \in Int /\ counts[n - 1] \in Int /\ counts[n] \in Int
    <3>1. n - 2 \in 1 .. Len(values) /\ n - 1 \in 1 .. Len(values)
      BY <1>1, <1>5
    <3>2. MAX_COUNT \in Int /\ MODULUS \in Int
      BY SamplingAssumption
    <3> QED
      BY <1>1, <1>2, <3>1, <3>2
  <2>4. Interval(n) = counts[n] - counts[n - 1]
    BY <1>1, <1>5 DEF Interval
  <2>5. values[n] = values[n - 2] + Interval(n)
    BY <2>1, <2>2, <2>3, <2>4
  <2> QED
    BY <1>1, <1>5, <2>5
<1> QED
  BY <1>1, <1>4, <1>5

(* Without failed reads a value is the one two rounds before it plus the   *)
(* count of its own interval: what reaches the receiver is not the count   *)
(* of the interval but a running sum over every other one.                 *)
THEOREM ValuesSkipIntervals == SamplingSpec => []GrowsEverySecond
<1>1. SamplingSpec => []MeaningInv
  BY MeaningInit, MeaningNext, PTL DEF SamplingSpec
<1> QED
  BY <1>1, MeaningGrows, PTL

-----------------------------------------------------------------------------
(* What is sent.                                                           *)

(* Division with a remainder, by a number that is not a literal.           *)
LEMMA Quotient ==
  ASSUME NEW n \in Nat, NEW d \in Nat \ {0}
  PROVE  /\ n \div d \in Nat /\ n % d \in 0 .. d - 1
         /\ n = d * (n \div d) + (n % d)
OBVIOUS

LEMMA Multiples ==
  ASSUME NEW d \in Nat \ {0}, NEW j \in Nat, NEW k \in Nat, j < k
  PROVE  d * j + d <= d * k
<1>1. PICK m \in Nat : k = j + 1 + m
  <2>1. k - j - 1 \in Nat /\ k = j + 1 + (k - j - 1)
    OBVIOUS
  <2> QED
    BY <2>1
<1>2. d * k = d * j + d + d * m
  BY <1>1
<1>3. d * m \in Nat /\ d * j \in Nat
  OBVIOUS
<1> QED
  BY <1>2, <1>3

LEMMA QuotientIs ==
  ASSUME NEW d \in Nat \ {0}, NEW q \in Nat, NEW r \in 0 .. d - 1
  PROVE  (d * q + r) \div d = q /\ (d * q + r) % d = r
<1> DEFINE n == d * q + r
           q2 == n \div d
           r2 == n % d
<1>1. n \in Nat /\ d * q \in Nat
  OBVIOUS
<1> HIDE DEF n
<1>2. q2 \in Nat /\ r2 \in 0 .. d - 1 /\ n = d * q2 + r2
  BY <1>1, Quotient
<1>3. n = d * q + r
  BY DEF n
<1> HIDE DEF q2, r2
<1>4. d * q2 \in Nat
  BY <1>2
<1>5. CASE q < q2
  BY <1>1, <1>2, <1>3, <1>4, <1>5, Multiples
<1>6. CASE q2 < q
  BY <1>1, <1>2, <1>3, <1>4, <1>6, Multiples
<1>7. CASE q = q2
  BY <1>1, <1>2, <1>3, <1>4, <1>7 DEF q2, r2, n
<1> QED
  BY <1>2, <1>5, <1>6, <1>7

(* Adding a round completes a batch or does not.                           *)
LEMMA OneMoreRound ==
  ASSUME NEW n \in Nat
  PROVE  LET batches == n \div PRINT_EVERY
         IN  /\ batches \in Nat /\ batches * PRINT_EVERY \in 0 .. n
             /\ IF (n + 1) % PRINT_EVERY = 0
                THEN /\ (n + 1) \div PRINT_EVERY = batches + 1
                     /\ (batches + 1) * PRINT_EVERY = n + 1
                ELSE (n + 1) \div PRINT_EVERY = batches
<1> DEFINE q == n \div PRINT_EVERY
           r == n % PRINT_EVERY
<1>1. PRINT_EVERY \in Nat \ {0}
  BY SamplingAssumption
<1>2. q \in Nat /\ r \in 0 .. PRINT_EVERY - 1 /\ n = PRINT_EVERY * q + r
  BY <1>1, Quotient
<1> HIDE DEF q, r
<1>3. PRINT_EVERY * q \in Nat /\ PRINT_EVERY * q = q * PRINT_EVERY
  BY <1>1, <1>2
<1>4. CASE r + 1 = PRINT_EVERY
  <2>1. n + 1 = PRINT_EVERY * (q + 1) + 0
    BY <1>1, <1>2, <1>4
  <2>2. q + 1 \in Nat /\ 0 \in 0 .. PRINT_EVERY - 1
    BY <1>1, <1>2
  <2>3. (n + 1) \div PRINT_EVERY = q + 1 /\ (n + 1) % PRINT_EVERY = 0
    <3> DEFINE more == q + 1
    <3> HIDE DEF more
    <3>1. more \in Nat
      BY <2>2 DEF more
    <3>2. (PRINT_EVERY * more + 0) \div PRINT_EVERY = more
          /\ (PRINT_EVERY * more + 0) % PRINT_EVERY = 0
      BY <1>1, <2>2, <3>1, QuotientIs
    <3> QED
      BY <2>1, <3>2 DEF more
  <2>4. (q + 1) * PRINT_EVERY = n + 1
    BY <1>1, <1>2, <2>1
  <2> QED
    BY <1>2, <1>3, <2>3, <2>4 DEF q
<1>5. CASE r + 1 # PRINT_EVERY
  <2>1. n + 1 = PRINT_EVERY * q + (r + 1) /\ r + 1 \in 0 .. PRINT_EVERY - 1
    BY <1>1, <1>2, <1>3, <1>5
  <2>2. (n + 1) \div PRINT_EVERY = q /\ (n + 1) % PRINT_EVERY = r + 1
    BY <1>1, <1>2, <2>1, QuotientIs
  <2> QED
    BY <1>2, <1>3, <2>1, <2>2 DEF q
<1> QED
  BY <1>4, <1>5

(* Where the m-th of k batches ends.                                       *)
LEMMA BatchesInside ==
  ASSUME NEW k \in Nat, NEW m \in 1 .. k
  PROVE  /\ (m - 1) * PRINT_EVERY + 1 \in Nat \ {0}
         /\ m * PRINT_EVERY \in Nat /\ m * PRINT_EVERY <= k * PRINT_EVERY
<1>1. PRINT_EVERY \in Nat \ {0} /\ m \in Nat /\ m - 1 \in Nat
  BY SamplingAssumption
<1>2. /\ (m - 1) * PRINT_EVERY \in Nat /\ m * PRINT_EVERY \in Nat /\ k * PRINT_EVERY \in Nat
      /\ m * PRINT_EVERY = PRINT_EVERY * m /\ k * PRINT_EVERY = PRINT_EVERY * k
  BY <1>1
<1>3. CASE m < k
  BY <1>1, <1>2, <1>3, Multiples
<1>4. CASE m = k
  BY <1>2, <1>4
<1> QED
  BY <1>2, <1>3, <1>4

LEMMA OneFewer ==
  ASSUME NEW k \in Nat, NEW d \in Nat \ {0}, NEW n \in Nat, (k + 1) * d = n
  PROVE  n - d = k * d
<1>1. (k + 1) * d = k * d + d /\ k * d \in Nat
  OBVIOUS
<1> QED
  BY <1>1

LEMMA Successor ==
  ASSUME NEW n \in Nat, NEW m \in 0 .. n
  PROVE  m + 1 \in Nat \ {0}
OBVIOUS

LEMMA SubSeqTyped ==
  ASSUME NEW S, NEW s \in Seq(S), NEW a \in Nat \ {0}, NEW b \in Nat, b <= Len(s)
  PROVE  SubSeq(s, a, b) \in Seq(S)
OBVIOUS

LEMMA SubSeqOfAppend ==
  ASSUME NEW S, NEW s \in Seq(S), NEW x \in S, NEW a \in Nat \ {0}, NEW b \in Nat, b <= Len(s)
  PROVE  SubSeq(Append(s, x), a, b) = SubSeq(s, a, b)
OBVIOUS

MessagesInv ==
  /\ RowsInv
  /\ messages \in Seq(Seq(0 .. MODULUS - 1))
  /\ MessagesAreTheRow

LEMMA MessagesInit == SamplingInit => MessagesInv
<1> SUFFICES ASSUME SamplingInit PROVE MessagesInv
  OBVIOUS
<1>1. messages = <<>> /\ values = <<>> /\ PRINT_EVERY \in Nat \ {0}
  BY SamplingAssumption DEF SamplingInit
<1>2. messages \in Seq(Seq(0 .. MODULUS - 1)) /\ DOMAIN messages = {} /\ Len(messages) = 0
  BY <1>1
<1>3. PRINT_EVERY * 0 + 0 = 0 /\ 0 \in Nat /\ 0 \in 0 .. PRINT_EVERY - 1
  BY <1>1
<1>4. 0 \div PRINT_EVERY = 0
  BY <1>1, <1>3, QuotientIs
<1> QED
  BY <1>1, <1>2, <1>4, RowsInit DEF MessagesInv, MessagesAreTheRow

LEMMA MessagesNext == MessagesInv /\ [SamplingNext]_samplingVars => MessagesInv'
<1> SUFFICES ASSUME MessagesInv, [SamplingNext]_samplingVars PROVE MessagesInv'
  OBVIOUS
<1>0. RowsInv'
  BY RowsNext DEF MessagesInv
<1>1. ASSUME NEW v \in 0 .. MODULUS - 1, values' = Append(values, v), Send(values')
      PROVE  MessagesInv'
  <2> DEFINE n == Len(values)
             sent == Len(messages)
             V == 0 .. MODULUS - 1
  <2>1. values \in Seq(V) /\ n \in Nat /\ messages \in Seq(Seq(V)) /\ sent \in Nat
        /\ sent = n \div PRINT_EVERY
    BY DEF MessagesInv, RowsInv, Rows, MessagesAreTheRow
  <2>2. values' \in Seq(V) /\ Len(values') = n + 1
    BY <1>1, <2>1
  <2>3. /\ sent * PRINT_EVERY \in 0 .. n
        /\ IF (n + 1) % PRINT_EVERY = 0
           THEN /\ (n + 1) \div PRINT_EVERY = sent + 1
                /\ (sent + 1) * PRINT_EVERY = n + 1
           ELSE (n + 1) \div PRINT_EVERY = sent
    BY <2>1, OneMoreRound
  <2>4. ASSUME NEW m \in 1 .. sent
        PROVE  messages[m] = SubSeq(values', (m - 1) * PRINT_EVERY + 1, m * PRINT_EVERY)
    <3>1. /\ (m - 1) * PRINT_EVERY + 1 \in Nat \ {0}
          /\ m * PRINT_EVERY \in Nat /\ m * PRINT_EVERY <= sent * PRINT_EVERY
      BY <2>1, BatchesInside
    <3>2. m * PRINT_EVERY <= n
      <4>1. sent * PRINT_EVERY \in Nat /\ sent * PRINT_EVERY <= n
        BY <2>1, <2>3
      <4> QED
        BY <2>1, <3>1, <4>1
    <3>3. messages[m] = SubSeq(values, (m - 1) * PRINT_EVERY + 1, m * PRINT_EVERY)
      BY <2>1 DEF MessagesInv, MessagesAreTheRow
    <3> QED
      BY <1>1, <2>1, <3>1, <3>2, <3>3, SubSeqOfAppend
  <2>5. CASE (n + 1) % PRINT_EVERY = 0
    <3> DEFINE batch == Batch(values')
    <3>1. PRINT_EVERY \in Nat \ {0} /\ (sent + 1) * PRINT_EVERY = n + 1
      BY <2>3, <2>5, SamplingAssumption
    <3>2. n + 1 - PRINT_EVERY = sent * PRINT_EVERY
      <4> DEFINE total == n + 1
      <4>1. total \in Nat /\ (sent + 1) * PRINT_EVERY = total
        BY <2>1, <3>1
      <4> HIDE DEF total, sent
      <4>2. total - PRINT_EVERY = sent * PRINT_EVERY
        BY <2>1, <3>1, <4>1, OneFewer
      <4> QED
        BY <2>1, <3>1, <4>2 DEF total
    <3>3. batch = SubSeq(values', sent * PRINT_EVERY + 1, (sent + 1) * PRINT_EVERY)
      BY <2>2, <3>1, <3>2 DEF Batch
    <3>4. batch \in Seq(V)
      <4>1. sent * PRINT_EVERY + 1 \in Nat \ {0}
        BY <2>3, Successor
      <4>2. (sent + 1) * PRINT_EVERY \in Nat /\ (sent + 1) * PRINT_EVERY <= Len(values')
        BY <2>1, <2>2, <3>1
      <4> QED
        BY <2>2, <3>3, <4>1, <4>2, SubSeqTyped
    <3>5. messages' = Append(messages, batch)
      BY <1>1, <2>2, <2>5 DEF Send, Due
    <3> HIDE DEF batch
    <3>6. /\ messages' \in Seq(Seq(V)) /\ Len(messages') = sent + 1
          /\ messages'[sent + 1] = batch
          /\ \A m \in 1 .. sent : messages'[m] = messages[m]
      BY <2>1, <3>4, <3>5
    <3>7. ASSUME NEW m \in 1 .. sent + 1
          PROVE  messages'[m] = SubSeq(values', (m - 1) * PRINT_EVERY + 1, m * PRINT_EVERY)
      <4>1. CASE m = sent + 1
        <5>1. m - 1 = sent
          BY <2>1, <4>1
        <5> QED
          BY <3>3, <3>6, <4>1, <5>1
      <4>2. CASE m \in 1 .. sent
        BY <2>4, <3>6, <4>2
      <4> QED
        BY <2>1, <4>1, <4>2
    <3>8. Len(messages') = Len(values') \div PRINT_EVERY
      BY <2>2, <2>3, <2>5, <3>6
    <3>9. DOMAIN messages' = 1 .. sent + 1
      BY <3>6
    <3> QED
      BY <1>0, <3>6, <3>7, <3>8, <3>9 DEF MessagesInv, MessagesAreTheRow
  <2>6. CASE (n + 1) % PRINT_EVERY # 0
    <3>1. messages' = messages
      BY <1>1, <2>2, <2>6 DEF Send, Due
    <3>2. Len(messages') = Len(values') \div PRINT_EVERY /\ DOMAIN messages' = 1 .. sent
      BY <2>1, <2>2, <2>3, <2>6, <3>1
    <3> QED
      BY <1>0, <2>1, <2>4, <3>1, <3>2 DEF MessagesInv, MessagesAreTheRow
  <2> QED
    BY <2>5, <2>6
<1>2. ASSUME NEW c \in 0 .. MAX_COUNT, Sample(c) PROVE MessagesInv'
  <2>1. c \in count .. MAX_COUNT
    BY <1>2 DEF Sample, CounterAt
  <2>2. Stored(c, values) \in 0 .. MODULUS - 1
    BY <2>1, StoredSmall DEF MessagesInv
  <2> QED
    BY <1>1, <1>2, <2>2 DEF Sample
<1>3. ASSUME NEW c \in 0 .. MAX_COUNT, SampleFails(c) PROVE MessagesInv'
  <2>1. 0 \in 0 .. MODULUS - 1
    BY SamplingAssumption
  <2> QED
    BY <1>1, <1>3, <2>1 DEF SampleFails
<1>4. CASE UNCHANGED samplingVars
  BY <1>0, <1>4 DEF samplingVars, MessagesInv, MessagesAreTheRow
<1> QED
  BY <1>2, <1>3, <1>4 DEF SamplingNext

(* No batch is lost, repeated or cut wrongly, for any PRINT_EVERY: the     *)
(* messages are the row from its first value on, cut every PRINT_EVERY     *)
(* values (collect.c:112-113).                                             *)
THEOREM BatchesAreTheRow == SamplingSpec => []MessagesAreTheRow
<1>1. MessagesInv => MessagesAreTheRow
  BY DEF MessagesInv
<1> QED
  BY <1>1, MessagesInit, MessagesNext, PTL DEF SamplingSpec

-----------------------------------------------------------------------------
(* Inference.  The network never sees a sample because what is stored      *)
(* begins with a header - only that is stored, and strtok leaves the first *)
(* line - so the scan finds nothing.                                       *)

HeaderFirst == \A t \in DOMAIN texts : IsHeader(texts[t][1])

ZeroInv ==
  /\ texts \in Seq(Seq(Line) \ {<<>>})
  /\ i \in Nat \ {0} \/ ~ scanning
  /\ HeaderFirst
  /\ found = <<>>
  /\ InputIsZero

LEMMA ZeroInit == InferenceInit => ZeroInv
<1> SUFFICES ASSUME InferenceInit PROVE ZeroInv
  OBVIOUS
<1>1. texts \in Seq(Seq(Line) \ {<<>>}) /\ DOMAIN texts = {}
  BY DEF InferenceInit
<1> QED
  BY <1>1 DEF InferenceInit, ZeroInv, HeaderFirst, InputIsZero

LEMMA ZeroReceive ==
  ASSUME ZeroInv, NEW text \in Texts, Receive(text)
  PROVE  ZeroInv'
<1>1. text \in Seq(Line) \ {<<>>}
  BY InferenceAssumption
<1>2. texts' = Append(texts, text) /\ IsHeader(text[1])
  BY DEF Receive, Accepts
<1>3. texts' \in Seq(Seq(Line) \ {<<>>})
  BY <1>1, <1>2 DEF ZeroInv
<1>4. HeaderFirst'
  <2> SUFFICES ASSUME NEW t \in DOMAIN texts' PROVE IsHeader(texts'[t][1])
    BY DEF HeaderFirst, IsHeader
  <2>1. t = Len(texts) + 1 \/ t \in DOMAIN texts
    BY <1>1, <1>2 DEF ZeroInv
  <2>2. CASE t = Len(texts) + 1
    BY <1>1, <1>2, <2>2 DEF ZeroInv
  <2>3. CASE t \in DOMAIN texts
    <3>1. texts'[t] = texts[t]
      BY <1>1, <1>2, <2>3 DEF ZeroInv
    <3> QED
      BY <2>3, <3>1 DEF ZeroInv, HeaderFirst
  <2> QED
    BY <2>1, <2>2, <2>3
<1>5. i' \in Nat \ {0}
  <2>1. Len(texts') \in Nat /\ MAX_ROWS \in Nat
    BY <1>3, InferenceAssumption
  <2> QED
    BY <2>1 DEF Receive
<1> QED
  BY <1>3, <1>4, <1>5 DEF Receive, ZeroInv, InputIsZero

LEMMA ZeroScan == ZeroInv /\ Scan => ZeroInv'
<1> SUFFICES ASSUME ZeroInv, Scan PROVE ZeroInv'
  OBVIOUS
<1>1. i \in DOMAIN texts /\ texts[i] \in Seq(Line) \ {<<>>}
  BY DEF ZeroInv, Scan
<1>2. texts' = [texts EXCEPT ![i] = <<texts[i][1]>>]
  BY DEF Scan
<1>3. <<texts[i][1]>> \in Seq(Line) \ {<<>>}
  BY <1>1
<1>4. texts' \in Seq(Seq(Line) \ {<<>>}) /\ DOMAIN texts' = DOMAIN texts
  BY <1>1, <1>2, <1>3 DEF ZeroInv
<1>5. \A t \in DOMAIN texts : texts'[t][1] = texts[t][1]
  BY <1>1, <1>2 DEF ZeroInv
<1>6. HeaderFirst'
  BY <1>4, <1>5 DEF ZeroInv, HeaderFirst, IsHeader
<1>7. found' = <<>>
  BY <1>1 DEF ZeroInv, HeaderFirst, Scan
<1>8. i' \in Nat \ {0}
  BY DEF ZeroInv, Scan
<1> QED
  BY <1>4, <1>6, <1>7, <1>8 DEF ZeroInv, Scan, InputIsZero

LEMMA ZeroClassify == ZeroInv /\ Classify => ZeroInv'
<1> SUFFICES ASSUME ZeroInv, Classify PROVE ZeroInv'
  OBVIOUS
<1>1. Len(found) = 0
  BY DEF ZeroInv
<1>2. \A k \in 1 .. INPUT_DIM : input'[k] = 0
  BY <1>1, InferenceAssumption DEF Classify
<1> QED
  BY <1>2 DEF Classify, ZeroInv, HeaderFirst, InputIsZero, IsHeader

LEMMA ZeroNext == ZeroInv /\ [InferenceNext]_inferenceVars => ZeroInv'
<1> SUFFICES ASSUME ZeroInv, [InferenceNext]_inferenceVars PROVE ZeroInv'
  OBVIOUS
<1>1. CASE Expire
  <2>1. texts' \in Seq(Seq(Line) \ {<<>>}) /\ DOMAIN texts' = {}
    BY <1>1 DEF Expire
  <2> QED
    BY <1>1, <2>1 DEF Expire, ZeroInv, HeaderFirst, InputIsZero
<1>2. CASE UNCHANGED inferenceVars
  BY <1>2 DEF inferenceVars, ZeroInv, HeaderFirst, InputIsZero, IsHeader
<1> QED
  BY <1>1, <1>2, ZeroReceive, ZeroScan, ZeroClassify DEF InferenceNext

(* Whatever the processes do, forward is only called on the zero vector    *)
(* (receive.c:204-237): all of them get the label of the zero vector.      *)
THEOREM AlwaysZeroInput == InferenceSpec => []InputIsZero
<1>1. ZeroInv => InputIsZero
  BY DEF ZeroInv
<1> QED
  BY <1>1, ZeroInit, ZeroNext, PTL DEF InferenceSpec

(* The types of the inference half, the invariant above included: found is *)
(* empty all the time.                                                     *)
InferenceTypeInv ==
  /\ ZeroInv
  /\ i \in Nat /\ scanning \in BOOLEAN
  /\ input \in {<<>>} \cup [1 .. INPUT_DIM -> Nat]

LEMMA InferenceTypesInit == InferenceInit => InferenceTypeInv
<1> SUFFICES ASSUME InferenceInit PROVE InferenceTypeInv
  OBVIOUS
<1>1. i = 0 /\ scanning = FALSE /\ input = <<>>
  BY DEF InferenceInit
<1>2. input \in {<<>>} \cup [1 .. INPUT_DIM -> Nat]
  BY <1>1, Zenon
<1> QED
  BY <1>1, <1>2, ZeroInit DEF InferenceTypeInv

LEMMA InferenceTypesNext ==
  InferenceTypeInv /\ [InferenceNext]_inferenceVars => InferenceTypeInv'
<1> SUFFICES ASSUME InferenceTypeInv, [InferenceNext]_inferenceVars PROVE InferenceTypeInv'
  OBVIOUS
<1>1. ZeroInv'
  BY ZeroNext DEF InferenceTypeInv
<1>2. ASSUME NEW text \in Texts, Receive(text) PROVE InferenceTypeInv'
  <2>1. i' \in Nat
    <3>1. Len(texts') \in Nat /\ MAX_ROWS \in Nat
      BY <1>1, InferenceAssumption DEF ZeroInv
    <3> QED
      BY <1>2, <3>1 DEF Receive
  <2> QED
    BY <1>1, <1>2, <2>1 DEF Receive, InferenceTypeInv
<1>3. CASE Scan
  BY <1>1, <1>3 DEF Scan, InferenceTypeInv
<1>4. CASE Classify
  <2>1. Len(found) = 0
    BY DEF InferenceTypeInv, ZeroInv
  <2>2. input' \in [1 .. INPUT_DIM -> Nat]
    BY <1>4, <2>1, NetworkAssumption DEF Classify
  <2> QED
    BY <1>1, <1>4, <2>2 DEF Classify, InferenceTypeInv
<1>5. CASE Expire
  BY <1>1, <1>5 DEF Expire, InferenceTypeInv
<1>6. CASE UNCHANGED inferenceVars
  BY <1>1, <1>6 DEF inferenceVars, InferenceTypeInv
<1> QED
  BY <1>2, <1>3, <1>4, <1>5, <1>6 DEF InferenceNext

LEMMA InferenceTypesHold == InferenceTypeInv => InferenceTypeOK
<1> SUFFICES ASSUME InferenceTypeInv PROVE InferenceTypeOK
  OBVIOUS
<1>1. found = <<>> /\ Len(found) = 0 /\ found \in Seq(Nat) /\ INPUT_DIM \in Nat
  BY NetworkAssumption DEF InferenceTypeInv, ZeroInv
<1> QED
  BY <1>1 DEF InferenceTypeInv, ZeroInv, InferenceTypeOK

-----------------------------------------------------------------------------
(* The composition: whatever the pipe and the reads do, the monitor thread *)
(* is Sampling and what reaches the table and the network is Inference.    *)
(* The invariant between them is that the pipe holds lines a monitor       *)
(* thread writes, so that a read returns one of Texts.                     *)

PipeInv == RowsInv /\ pipe \in Seq(Sampled)

LEMMA PipeInit == Init => PipeInv
<1>1. <<>> \in Seq(Sampled)
  OBVIOUS
<1> QED
  BY <1>1, RowsInit DEF Init, PipeInv

(* A full batch begins with a value of the row.                           *)
LEMMA BatchBegins ==
  ASSUME NEW row \in Seq(0 .. MODULUS - 1), row # <<>>, Due(row)
  PROVE  Formatted(Batch(row)) \in Seq(Sampled)
<1>1. Len(row) \in Nat \ {0} /\ PRINT_EVERY \in Nat \ {0}
  BY SamplingAssumption
<1>2. Len(row) >= PRINT_EVERY
  BY <1>1 DEF Due
<1>3. Len(row) - PRINT_EVERY + 1 \in 1 .. Len(row)
  BY <1>1, <1>2
<1>4. Batch(row)[1] = row[Len(row) - PRINT_EVERY + 1]
  BY <1>1, <1>3 DEF Batch
<1>5. Batch(row)[1] \in 0 .. MODULUS - 1
  BY <1>3, <1>4, ElementOfSeq
<1>6. /\ Header \in Sampled /\ Event \in Sampled
      /\ Row(Batch(row)[1]) \in Sampled
  BY <1>5 DEF Sampled
<1> QED
  BY <1>6 DEF Formatted

(* Seen from the counter, everything else stutters.                        *)
LEMMA StepSamples ==
  [Next]_classificationVars => [SamplingNext]_samplingVars
BY DEF Next, Monitor, LoadWeights, ScanStep, ClassifyStep, ExpireStep, ReadPipe,
       classificationVars

LEMMA PipeNext == PipeInv /\ [Next]_classificationVars => PipeInv'
<1> SUFFICES ASSUME PipeInv, [Next]_classificationVars PROVE PipeInv'
  OBVIOUS
<1>1. RowsInv'
  BY StepSamples, RowsNext DEF PipeInv
<1>2. CASE Monitor
  <2>1. values' \in Seq(0 .. MODULUS - 1)
    BY <1>1 DEF RowsInv, Rows
  <2>2. values' # <<>>
    BY <1>2 DEF Monitor, SamplingNext, Sample, SampleFails, PipeInv, RowsInv, Rows
  <2>3. CASE Due(values')
    <3>1. Formatted(Batch(values')) \in Seq(Sampled)
      BY <2>1, <2>2, <2>3, BatchBegins
    <3> QED
      BY <1>1, <1>2, <2>3, <3>1 DEF Monitor, PipeInv
  <2> QED
    BY <1>1, <1>2, <2>3 DEF Monitor, PipeInv
<1>3. ASSUME NEW limit \in ReadLimits, ReadPipe(limit) PROVE PipeInv'
  <2>1. PICK n \in Nat : pipe' = SubSeq(pipe, n + 1, Len(pipe))
    <3>1. Len(SubSeq(pipe, 1, Least(limit, Len(pipe)))) \in Nat
      BY <1>3, ClassificationAssumption DEF Least, PipeInv
    <3> QED
      BY <1>3, <3>1 DEF ReadPipe
  <2> QED
    BY <1>1, <2>1 DEF PipeInv
<1>4. CASE UNCHANGED pipe
  BY <1>1, <1>4 DEF PipeInv
<1> QED
  BY <1>2, <1>3, <1>4
     DEF Next, LoadWeights, ScanStep, ClassifyStep, ExpireStep, classificationVars

(* A prefix of a sequence as a function.                                   *)
LEMMA PrefixOfSeq ==
  ASSUME NEW E, NEW s \in Seq(E), NEW n \in 1 .. Len(s)
  PROVE  SubSeq(s, 1, n) \in [1 .. n -> E]
<1>1. SubSeq(s, 1, n) = [k \in 1 .. n |-> s[k]]
  OBVIOUS
<1>2. \A k \in 1 .. n : s[k] \in E
  BY ElementOfSeq
<1> QED
  BY <1>1, <1>2

(* Seen from the table, a read delivers one of Texts or is dropped.        *)
LEMMA StepInfers ==
  PipeInv /\ [Next]_classificationVars => [InferenceNext]_inferenceVars
<1> SUFFICES ASSUME PipeInv, [Next]_classificationVars
             PROVE  [InferenceNext]_inferenceVars
  OBVIOUS
<1>1. ASSUME NEW limit \in ReadLimits, ReadPipe(limit)
      PROVE  [InferenceNext]_inferenceVars
  <2> DEFINE n == Least(limit, Len(pipe))
             text == SubSeq(pipe, 1, n)
  <2>1. n \in 1 .. limit /\ n \in 1 .. Len(pipe)
    BY <1>1, ClassificationAssumption DEF Least, PipeInv, ReadPipe
  <2>2. text \in [1 .. n -> Sampled]
    BY <2>1, PrefixOfSeq DEF PipeInv
  <2>3. text \in Texts
    BY <2>1, <2>2, ClassificationAssumption
  <2>4. Receive(text) \/ UNCHANGED inferenceVars
    BY <1>1 DEF ReadPipe
  <2> QED
    BY <2>3, <2>4 DEF InferenceNext
<1>2. CASE ScanStep
  BY <1>2 DEF ScanStep, InferenceNext
<1>3. CASE ClassifyStep
  BY <1>3 DEF ClassifyStep, InferenceNext
<1>4. CASE ExpireStep
  BY <1>4 DEF ExpireStep, InferenceNext
<1> QED
  BY <1>1, <1>2, <1>3, <1>4 DEF Next, Monitor, LoadWeights, classificationVars

(* The monitor thread of the composition is the sampling loop: its stored  *)
(* values never wrap (collect.c:105) whatever the receiver does.           *)
THEOREM ImplementsSampling == Spec => SamplingSpec
<1>1. Init => SamplingInit
  BY DEF Init
<1> QED
  BY <1>1, StepSamples, PTL DEF Spec, SamplingSpec

(* What the table and the network see of the composition is Inference: the *)
(* framing of the pipe gives nothing but the texts that module assumes.    *)
THEOREM ImplementsInference == Spec => InferenceSpec
<1>1. Spec => []PipeInv
  BY PipeInit, PipeNext, PTL DEF Spec
<1>2. Init => InferenceInit
  BY DEF Init
<1> QED
  BY <1>1, <1>2, StepInfers, PTL DEF Spec, InferenceSpec

(* No process is ever classified by its samples: from the counter to the   *)
(* label, through any framing, the network is run on the zero vector.      *)
THEOREM LabelsNeverSeeSamples == Spec => []InputIsZero
BY ImplementsInference, AlwaysZeroInput, PTL

(* What is said of the sampling loop holds of it inside the composition.   *)
THEOREM SamplesHold == Spec => [](NoWrap /\ GrowsEverySecond /\ MessagesAreTheRow)
BY ImplementsSampling, NeverWraps, ValuesSkipIntervals, BatchesAreTheRow, PTL

ControlInv == receiver \in {"loading", "running", "ended"} /\ prediction \in {0, 1, 2}

LEMMA ControlNext == ControlInv /\ [Next]_classificationVars => ControlInv'
BY DEF ControlInv, Next, Monitor, LoadWeights, ReadPipe, ScanStep, ClassifyStep, ExpireStep,
       Prediction, networkVars, classificationVars

(* All variables keep their types: the pipe carries only lines, and the    *)
(* input of the network is nothing or a vector of INPUT_DIM numbers.       *)
THEOREM ClassificationTypes == Spec => []TypeOK
<1>1. Spec => []MessagesInv
  BY ImplementsSampling, MessagesInit, MessagesNext, PTL DEF SamplingSpec
<1>2. Spec => []InferenceTypeInv
  BY ImplementsInference, InferenceTypesInit, InferenceTypesNext, PTL DEF InferenceSpec
<1>3. Spec => []PipeInv
  BY PipeInit, PipeNext, PTL DEF Spec
<1>4. Spec => []ControlInv
  <2>1. Init => ControlInv
    BY DEF Init, ControlInv
  <2> QED
    BY <2>1, ControlNext, PTL DEF Spec
<1>5. MessagesInv => SamplingTypeOK
  BY DEF MessagesInv, RowsInv, Rows, SamplingTypeOK
<1>6. SamplingTypeOK /\ InferenceTypeOK /\ PipeInv /\ ControlInv => TypeOK
  BY DEF TypeOK, PipeInv, ControlInv
<1> QED
  BY <1>1, <1>2, <1>3, <1>4, <1>5, <1>6, InferenceTypesHold, PTL
-----------------------------------------------------------------------------
(* The network.  That load_weights and forward make of a saved file what   *)
(* train.py trained is a matter of the layout: where a layer stands in the *)
(* file, where a weight stands in its layer.                               *)

LEMMA NoLeastCounterexample ==
  ASSUME NEW S \in SUBSET Nat, 0 \notin S, \A n \in Nat : n + 1 \in S => n \in S
  PROVE  S = {}
<1> SUFFICES ASSUME S # {} PROVE FALSE
  OBVIOUS
<1>1. PICK n \in S : \A m \in S : ~ (<<m, n>> \in OpToRel(<, Nat))
  BY NatLessThanWellFounded, WFMin
<1>2. n \in Nat \ {0} /\ n - 1 \in Nat /\ (n - 1) + 1 = n /\ n - 1 < n
  <2>1. n \in Nat /\ n # 0
    OBVIOUS
  <2> QED
    BY <2>1
<1>3. n - 1 \in S
  BY <1>2
<1>4. <<n - 1, n>> \in OpToRel(<, Nat)
  BY <1>2 DEF OpToRel
<1> QED
  BY <1>1, <1>3, <1>4, Zenon

(* The partial sums of s up to its n-th number.                            *)
Sums(f, s, n) == f = [k \in 0 .. n |-> IF k = 0 THEN 0 ELSE f[k - 1] + s[k]]

LEMMA SumsExist ==
  ASSUME NEW s, NEW n \in Nat PROVE \E f : Sums(f, s, n)
<1> DEFINE S == {m \in Nat : ~ \E f : Sums(f, s, m)}
<1>1. 0 \notin S
  <2>1. Sums([k \in 0 .. 0 |-> 0], s, 0)
    BY DEF Sums
  <2> QED
    BY <2>1
<1>2. ASSUME NEW m \in Nat, m \notin S PROVE m + 1 \notin S
  <2>1. PICK g : Sums(g, s, m)
    BY <1>2
  <2> DEFINE last == g[m] + s[m + 1]
             f == [k \in 0 .. m + 1 |-> IF k = m + 1 THEN last ELSE g[k]]
  <2>2. /\ \A k \in 0 .. m : f[k] = g[k]
        /\ f[m + 1] = last /\ f[m] = g[m]
    OBVIOUS
  <2> HIDE DEF last
  <2>3. \A k \in 0 .. m : g[k] = IF k = 0 THEN 0 ELSE g[k - 1] + s[k]
    BY <2>1 DEF Sums
  <2>4. ASSUME NEW k \in 0 .. m + 1
        PROVE  f[k] = IF k = 0 THEN 0 ELSE f[k - 1] + s[k]
    <3>1. CASE k = m + 1
      BY <2>2, <3>1 DEF last
    <3>2. CASE k \in 1 .. m
      <4>1. k - 1 \in 0 .. m
        BY <3>2
      <4> QED
        BY <2>2, <2>3, <3>2, <4>1
    <3>3. CASE k = 0
      BY <2>2, <2>3, <3>3
    <3> QED
      BY <3>1, <3>2, <3>3
  <2>5. f = [k \in 0 .. m + 1 |-> f[k]]
    OBVIOUS
  <2>6. Sums(f, s, m + 1)
    <3> HIDE DEF f
    <3> QED
      BY <2>4, <2>5 DEF Sums
  <2> QED
    BY <2>6
<1>3. S = {}
  <2> HIDE DEF S
  <2>1. S \in SUBSET Nat
    BY DEF S
  <2> QED
    BY <1>1, <1>2, <2>1, NoLeastCounterexample
<1> QED
  BY <1>3

LEMMA SumOfIs ==
  ASSUME NEW s, Len(s) \in Nat
  PROVE  \E f : Sums(f, s, Len(s)) /\ SumOf(s) = f[Len(s)]
<1> DEFINE f == CHOOSE g : Sums(g, s, Len(s))
<1>1. Sums(f, s, Len(s))
  BY SumsExist
<1>2. SumOf(s) = f[Len(s)]
  BY DEF SumOf, Sums
<1> QED
  BY <1>1, <1>2

LEMMA SumOfType ==
  ASSUME NEW s \in Seq(Int) PROVE SumOf(s) \in Int
<1>1. PICK f : Sums(f, s, Len(s)) /\ SumOf(s) = f[Len(s)]
  BY SumOfIs
<1> DEFINE S == {m \in Nat : m <= Len(s) /\ f[m] \notin Int}
<1>2. /\ f[0] = 0
      /\ \A k \in 1 .. Len(s) : f[k] = f[k - 1] + s[k]
  <2>1. f = [k \in 0 .. Len(s) |-> IF k = 0 THEN 0 ELSE f[k - 1] + s[k]]
    BY <1>1, Zenon DEF Sums
  <2>2. \A k \in 0 .. Len(s) : f[k] = IF k = 0 THEN 0 ELSE f[k - 1] + s[k]
    BY <2>1, Zenon
  <2>3. Len(s) \in Nat
    OBVIOUS
  <2> QED
    BY <2>2, <2>3
<1>3. 0 \notin S
  BY <1>2
<1>4. ASSUME NEW m \in Nat, m \notin S PROVE m + 1 \notin S
  BY <1>2, <1>4
<1>5. S = {}
  <2> HIDE DEF S
  <2>1. S \in SUBSET Nat
    BY DEF S
  <2> QED
    BY <1>3, <1>4, <2>1, NoLeastCounterexample
<1> QED
  BY <1>1, <1>5
(* One number more.                                                        *)
LEMMA SumStep ==
  ASSUME NEW s \in Seq(Int), NEW k \in 1 .. Len(s)
  PROVE  SumOf(SubSeq(s, 1, k)) = SumOf(SubSeq(s, 1, k - 1)) + s[k]
<1> DEFINE t == SubSeq(s, 1, k)
           u == SubSeq(s, 1, k - 1)
<1>1. /\ k \in Nat /\ Len(t) = k /\ Len(u) = k - 1 /\ k - 1 \in Nat
      /\ \A j \in 1 .. k : t[j] = s[j]
      /\ \A j \in 1 .. k - 1 : u[j] = s[j]
  OBVIOUS
<1> HIDE DEF t, u
<1>2. PICK f : Sums(f, t, k) /\ SumOf(t) = f[k]
  BY <1>1, SumOfIs
<1>3. PICK g : Sums(g, u, k - 1) /\ SumOf(u) = g[k - 1]
  BY <1>1, SumOfIs
<1>4. \A j \in 0 .. k : f[j] = IF j = 0 THEN 0 ELSE f[j - 1] + t[j]
  <2>1. f = [j \in 0 .. k |-> IF j = 0 THEN 0 ELSE f[j - 1] + t[j]]
    BY <1>2, Zenon DEF Sums
  <2> QED
    BY <2>1, Zenon
<1>5. \A j \in 0 .. k - 1 : g[j] = IF j = 0 THEN 0 ELSE g[j - 1] + u[j]
  <2>1. g = [j \in 0 .. k - 1 |-> IF j = 0 THEN 0 ELSE g[j - 1] + u[j]]
    BY <1>3, Zenon DEF Sums
  <2> QED
    BY <2>1, Zenon
<1> DEFINE S == {m \in Nat : m <= k - 1 /\ f[m] # g[m]}
<1>6. 0 \notin S
  BY <1>1, <1>4, <1>5
<1>7. ASSUME NEW m \in Nat, m \notin S PROVE m + 1 \notin S
  <2> SUFFICES ASSUME m + 1 <= k - 1 PROVE f[m + 1] = g[m + 1]
    OBVIOUS
  <2>1. /\ m + 1 \in 1 .. k - 1 /\ m + 1 \in 0 .. k /\ m + 1 \in 0 .. k - 1
        /\ m + 1 # 0 /\ (m + 1) - 1 = m /\ f[m] = g[m]
    BY <1>1, <1>7
  <2>2. f[m + 1] = f[m] + t[m + 1] /\ g[m + 1] = g[m] + u[m + 1]
    BY <1>4, <1>5, <2>1
  <2> QED
    BY <1>1, <2>1, <2>2
<1>8. S = {}
  <2> HIDE DEF S
  <2>1. S \in SUBSET Nat
    BY DEF S
  <2> QED
    BY <1>6, <1>7, <2>1, NoLeastCounterexample
<1>9. f[k - 1] = g[k - 1]
  BY <1>1, <1>8
<1>10. k \in 0 .. k /\ k # 0
  BY <1>1
<1> QED
  BY <1>1, <1>2, <1>3, <1>4, <1>9, <1>10 DEF t, u

LEMMA EmptySum == \A s : SumOf(SubSeq(s, 1, 0)) = 0
<1> SUFFICES ASSUME NEW s PROVE SumOf(SubSeq(s, 1, 0)) = 0
  OBVIOUS
<1> DEFINE t == SubSeq(s, 1, 0)
<1>1. Len(t) = 0
  OBVIOUS
<1> HIDE DEF t
<1>2. PICK f : Sums(f, t, 0) /\ SumOf(t) = f[0]
  BY <1>1, SumOfIs
<1>3. f = [j \in 0 .. 0 |-> IF j = 0 THEN 0 ELSE f[j - 1] + t[j]]
  BY <1>2, Zenon DEF Sums
<1>4. 0 \in 0 .. 0
  OBVIOUS
<1> QED
  BY <1>2, <1>3, <1>4, Zenon DEF t

(* Where the six arrays stand in the file.                                 *)
LEMMA Offsets ==
  ASSUME Reads \in Seq(Nat)
  PROVE  /\ ReadBefore(1) = 0
         /\ \A k \in 1 .. 6 : ReadBefore(k + 1) = ReadBefore(k) + Reads[k]
<1>1. Len(Reads) = 6 /\ Reads \in Seq(Int)
  BY DEF Reads
<1>2. ReadBefore(1) = 0
  BY EmptySum DEF ReadBefore
<1>3. ASSUME NEW k \in 1 .. 6 PROVE ReadBefore(k + 1) = ReadBefore(k) + Reads[k]
  <2>1. (k + 1) - 1 = k
    OBVIOUS
  <2> QED
    BY <1>1, <2>1, SumStep DEF ReadBefore
<1> QED
  BY <1>2, <1>3

(* Reading what was appended, and reading on without reaching it.          *)
LEMMA ReadsAppended ==
  ASSUME NEW a \in Seq(Int), NEW b \in Seq(Int)
  PROVE  /\ SubSeq(a \o b, Len(a) + 1, Len(a) + Len(b)) = b
         /\ \A k \in Nat \ {0}, j \in Nat : j <= Len(a) => SubSeq(a \o b, k, j) = SubSeq(a, k, j)
         /\ a \o b \in Seq(Int) /\ Len(a \o b) = Len(a) + Len(b)
OBVIOUS
(* flatten() and the index of matmul agree on where a weight stands.       *)
LEMMA FlattenedAt ==
  ASSUME NEW outs \in Nat \ {0}, NEW ins \in Nat \ {0}, NEW w \in Weights(outs, ins)
  PROVE  /\ outs * ins \in Nat /\ ins * outs = outs * ins
         /\ Flattened(w, outs, ins) \in [1 .. outs * ins -> Int]
         /\ \A o \in 1 .. outs, j \in 1 .. ins :
              /\ At(o, j, outs, ins) \in 1 .. outs * ins
              /\ Flattened(w, outs, ins)[At(o, j, outs, ins)] = w[<<o, j>>]
<1>1. outs * ins \in Nat /\ ins * outs = outs * ins
  OBVIOUS
<1> DEFINE row(k) == (k - 1) \div ins + 1
           col(k) == ((k - 1) % ins) + 1
<1>2. ASSUME NEW k \in 1 .. outs * ins PROVE w[<<row(k), col(k)>>] \in Int
  <2> DEFINE q == (k - 1) \div ins
             r == (k - 1) % ins
  <2>1. k - 1 \in Nat /\ k - 1 < ins * outs
    BY <1>1
  <2>2. q \in Nat /\ r \in 0 .. ins - 1 /\ k - 1 = ins * q + r
    BY <2>1, Quotient
  <2> HIDE DEF q, r
  <2>3. ins * q \in Nat
    BY <2>2
  <2>4. q < outs
    <3>1. CASE outs < q
      BY <1>1, <2>1, <2>2, <2>3, <3>1, Multiples
    <3>2. CASE outs = q
      BY <1>1, <2>1, <2>2, <2>3, <3>2
    <3> QED
      BY <2>2, <3>1, <3>2
  <2>5. q + 1 \in 1 .. outs /\ r + 1 \in 1 .. ins
    BY <2>2, <2>4
  <2>6. w[<<q + 1, r + 1>>] \in Int
    BY <2>5 DEF Weights
  <2> QED
    BY <2>6 DEF q, r
<1>3. Flattened(w, outs, ins) = [k \in 1 .. outs * ins |-> w[<<row(k), col(k)>>]]
  BY DEF Flattened
<1>4. Flattened(w, outs, ins) \in [1 .. outs * ins -> Int]
  <2> HIDE DEF row, col
  <2> QED
    BY <1>2, <1>3
<1>5. ASSUME NEW o \in 1 .. outs, NEW j \in 1 .. ins
      PROVE  /\ At(o, j, outs, ins) \in 1 .. outs * ins
             /\ Flattened(w, outs, ins)[At(o, j, outs, ins)] = w[<<o, j>>]
  <2> DEFINE q == o - 1
             r == j - 1
             k == At(o, j, outs, ins)
  <2>1. q \in Nat /\ q < outs /\ r \in 0 .. ins - 1 /\ q + 1 = o /\ r + 1 = j
    OBVIOUS
  <2>2. k = q * ins + j
    BY DEF At
  <2> HIDE DEF q, r, k
  <2>3. ins * q \in Nat /\ q * ins = ins * q /\ ins * q + ins <= ins * outs
    BY <2>1, Multiples
  <2>4. k \in 1 .. outs * ins /\ k - 1 = ins * q + r
    BY <1>1, <2>1, <2>2, <2>3
  <2>5. (k - 1) \div ins = q /\ (k - 1) % ins = r
    <3>1. (ins * q + r) \div ins = q /\ (ins * q + r) % ins = r
      BY <2>1, QuotientIs
    <3> QED
      BY <2>4, <3>1
  <2>6. row(k) = o /\ col(k) = j
    BY <2>1, <2>5
  <2>7. Flattened(w, outs, ins)[k] = w[<<o, j>>]
    <3> HIDE DEF row, col
    <3> QED
      BY <1>3, <2>4, <2>6
  <2> QED
    BY <2>4, <2>7 DEF k
<1> QED
  BY <1>1, <1>4, <1>5

LEMMA Dimensions ==
  /\ INPUT_DIM \in Nat \ {0} /\ HIDDEN1_DIM \in Nat \ {0} /\ HIDDEN2_DIM \in Nat \ {0}
  /\ OUTPUT_DIM \in Nat \ {0} /\ OUTPUT_DIM >= 2
BY NetworkAssumption

(* What load_weights puts into the six arrays.                             *)
Arrays(m) ==
  << Flattened(m.w1, HIDDEN1_DIM, INPUT_DIM), m.b1,
     Flattened(m.w2, HIDDEN2_DIM, HIDDEN1_DIM), m.b2,
     Flattened(m.w3, OUTPUT_DIM, HIDDEN2_DIM), m.b3 >>

LEMMA ArraysHaveReads ==
  ASSUME NEW m \in Trained
  PROVE  /\ Reads \in Seq(Nat)
         /\ \A k \in 1 .. 6 : Arrays(m)[k] \in Seq(Int) /\ Len(Arrays(m)[k]) = Reads[k]
<1>1. /\ m.w1 \in Weights(HIDDEN1_DIM, INPUT_DIM) /\ m.b1 \in [1 .. HIDDEN1_DIM -> Int]
      /\ m.w2 \in Weights(HIDDEN2_DIM, HIDDEN1_DIM) /\ m.b2 \in [1 .. HIDDEN2_DIM -> Int]
      /\ m.w3 \in Weights(OUTPUT_DIM, HIDDEN2_DIM) /\ m.b3 \in [1 .. OUTPUT_DIM -> Int]
  BY DEF Trained, Biases
<1>2. ASSUME NEW n \in Nat, NEW s \in [1 .. n -> Int]
      PROVE  s \in Seq(Int) /\ Len(s) = n
  OBVIOUS
<1>3. /\ INPUT_DIM * HIDDEN1_DIM \in Nat /\ HIDDEN1_DIM * HIDDEN2_DIM \in Nat
      /\ HIDDEN2_DIM * OUTPUT_DIM \in Nat
      /\ Arrays(m)[1] \in [1 .. INPUT_DIM * HIDDEN1_DIM -> Int]
      /\ Arrays(m)[3] \in [1 .. HIDDEN1_DIM * HIDDEN2_DIM -> Int]
      /\ Arrays(m)[5] \in [1 .. HIDDEN2_DIM * OUTPUT_DIM -> Int]
  <2>1. /\ Arrays(m)[1] = Flattened(m.w1, HIDDEN1_DIM, INPUT_DIM)
        /\ Arrays(m)[3] = Flattened(m.w2, HIDDEN2_DIM, HIDDEN1_DIM)
        /\ Arrays(m)[5] = Flattened(m.w3, OUTPUT_DIM, HIDDEN2_DIM)
    BY DEF Arrays
  <2>2. /\ HIDDEN1_DIM * INPUT_DIM \in Nat
        /\ INPUT_DIM * HIDDEN1_DIM = HIDDEN1_DIM * INPUT_DIM
        /\ Arrays(m)[1] \in [1 .. HIDDEN1_DIM * INPUT_DIM -> Int]
    BY <1>1, <2>1, Dimensions, FlattenedAt
  <2>3. /\ HIDDEN2_DIM * HIDDEN1_DIM \in Nat
        /\ HIDDEN1_DIM * HIDDEN2_DIM = HIDDEN2_DIM * HIDDEN1_DIM
        /\ Arrays(m)[3] \in [1 .. HIDDEN2_DIM * HIDDEN1_DIM -> Int]
    BY <1>1, <2>1, Dimensions, FlattenedAt
  <2>4. /\ OUTPUT_DIM * HIDDEN2_DIM \in Nat
        /\ HIDDEN2_DIM * OUTPUT_DIM = OUTPUT_DIM * HIDDEN2_DIM
        /\ Arrays(m)[5] \in [1 .. OUTPUT_DIM * HIDDEN2_DIM -> Int]
    BY <1>1, <2>1, Dimensions, FlattenedAt
  <2> QED
    BY <2>2, <2>3, <2>4
<1>4. Arrays(m)[2] = m.b1 /\ Arrays(m)[4] = m.b2 /\ Arrays(m)[6] = m.b3
  BY DEF Arrays
<1> DEFINE n1 == INPUT_DIM * HIDDEN1_DIM
           n3 == HIDDEN1_DIM * HIDDEN2_DIM
           n5 == HIDDEN2_DIM * OUTPUT_DIM
<1>5. Reads = <<n1, HIDDEN1_DIM, n3, HIDDEN2_DIM, n5, OUTPUT_DIM>>
  BY DEF Reads
<1>6. n1 \in Nat /\ n3 \in Nat /\ n5 \in Nat
  BY <1>3
<1>7. /\ Arrays(m)[1] \in [1 .. n1 -> Int] /\ Arrays(m)[3] \in [1 .. n3 -> Int]
      /\ Arrays(m)[5] \in [1 .. n5 -> Int]
  BY <1>3
<1> HIDE DEF n1, n3, n5
<1>8. Reads \in Seq(Nat)
  BY <1>5, <1>6, Dimensions
<1>9. ASSUME NEW k \in 1 .. 6
      PROVE  Arrays(m)[k] \in Seq(Int) /\ Len(Arrays(m)[k]) = Reads[k]
  <2>1. /\ Reads[1] = n1 /\ Reads[2] = HIDDEN1_DIM /\ Reads[3] = n3
        /\ Reads[4] = HIDDEN2_DIM /\ Reads[5] = n5 /\ Reads[6] = OUTPUT_DIM
    BY <1>5
  <2>2. k = 1 \/ k = 2 \/ k = 3 \/ k = 4 \/ k = 5 \/ k = 6
    OBVIOUS
  <2>3. Reads[k] \in Nat /\ Arrays(m)[k] \in [1 .. Reads[k] -> Int]
    BY <1>1, <1>4, <1>6, <1>7, <2>1, <2>2, Dimensions
  <2> QED
    BY <1>2, <2>3
<1> QED
  BY <1>8, <1>9
(* A file s that begins with the first n arrays.                           *)
Begins(s, arrays, n) ==
  /\ s \in Seq(Int) /\ Len(s) = ReadBefore(n + 1)
  /\ \A k \in 1 .. n :
       /\ ReadBefore(k) \in Nat /\ Reads[k] \in Nat
       /\ ReadBefore(k) + Reads[k] <= Len(s)
       /\ SubSeq(s, ReadBefore(k) + 1, ReadBefore(k) + Reads[k]) = arrays[k]

LEMMA OneArrayMore ==
  ASSUME NEW m \in Trained, NEW n \in 0 .. 5, NEW s, Begins(s, Arrays(m), n)
  PROVE  Begins(s \o Arrays(m)[n + 1], Arrays(m), n + 1)
<1> DEFINE a == Arrays(m)[n + 1]
           new == s \o a
<1>1. /\ n + 1 \in 1 .. 6 /\ n \in Nat
      /\ s \in Seq(Int) /\ Len(s) = ReadBefore(n + 1) /\ Len(s) \in Nat
  BY DEF Begins
<1>2. a \in Seq(Int) /\ Len(a) = Reads[n + 1] /\ Len(a) \in Nat
  <2>1. a \in Seq(Int) /\ Len(a) = Reads[n + 1]
    BY <1>1, ArraysHaveReads
  <2> HIDE DEF a
  <2> QED
    BY <2>1
<1>3. ReadBefore((n + 1) + 1) = ReadBefore(n + 1) + Reads[n + 1]
  BY <1>1, ArraysHaveReads, Offsets
<1> HIDE DEF a
<1>4. /\ new \in Seq(Int) /\ Len(new) = Len(s) + Len(a)
      /\ SubSeq(new, Len(s) + 1, Len(s) + Len(a)) = a
      /\ \A k \in Nat \ {0}, j \in Nat : j <= Len(s) => SubSeq(new, k, j) = SubSeq(s, k, j)
  BY <1>1, <1>2, ReadsAppended
<1> HIDE DEF new
<1>5. ASSUME NEW k \in 1 .. n + 1
      PROVE  /\ ReadBefore(k) \in Nat /\ Reads[k] \in Nat
             /\ ReadBefore(k) + Reads[k] <= Len(new)
             /\ SubSeq(new, ReadBefore(k) + 1, ReadBefore(k) + Reads[k]) = Arrays(m)[k]
  <2>1. CASE k = n + 1
    BY <1>1, <1>2, <1>4, <2>1 DEF a
  <2>2. CASE k # n + 1
    <3>1. k \in 1 .. n
      BY <1>1, <2>2
    <3>2. /\ ReadBefore(k) \in Nat /\ Reads[k] \in Nat
          /\ ReadBefore(k) + Reads[k] <= Len(s)
          /\ SubSeq(s, ReadBefore(k) + 1, ReadBefore(k) + Reads[k]) = Arrays(m)[k]
      BY <3>1 DEF Begins
    <3>3. ReadBefore(k) + 1 \in Nat \ {0} /\ ReadBefore(k) + Reads[k] \in Nat
      BY <3>2
    <3>4. SubSeq(new, ReadBefore(k) + 1, ReadBefore(k) + Reads[k]) =
            SubSeq(s, ReadBefore(k) + 1, ReadBefore(k) + Reads[k])
      BY <1>4, <3>2, <3>3
    <3>5. Len(new) \in Nat /\ Len(s) <= Len(new)
      <4>1. Len(new) = Len(s) + Len(a)
        BY <1>4
      <4> QED
        BY <1>1, <1>2, <4>1
    <3>6. ReadBefore(k) + Reads[k] <= Len(new)
      BY <1>1, <3>2, <3>3, <3>5
    <3> QED
      BY <3>2, <3>4, <3>6
  <2> QED
    BY <2>1, <2>2
<1>6. Len(new) = ReadBefore((n + 1) + 1)
  BY <1>1, <1>2, <1>3, <1>4
<1> QED
  BY <1>4, <1>5, <1>6 DEF Begins, new, a

(* The reads take the file apart where save_weights_to_binary put it       *)
(* together.                                                               *)
LEMMA FileIsRead ==
  ASSUME NEW m \in Trained
  PROVE  /\ Saved(m) \in Seq(Int) /\ Len(Saved(m)) = WeightCount
         /\ load_weights(Saved(m)) = Arrays(m)
         /\ WeightCount \in Nat \ {0}
<1> DEFINE a(k) == Arrays(m)[k]
<1>1. Begins(a(1), Arrays(m), 1)
  <2>1. ReadBefore(1) = 0 /\ ReadBefore(1 + 1) = ReadBefore(1) + Reads[1]
    BY ArraysHaveReads, Offsets
  <2>2. a(1) \in Seq(Int) /\ Len(a(1)) = Reads[1] /\ Reads[1] \in Nat
    BY ArraysHaveReads
  <2> HIDE DEF a
  <2>3. SubSeq(a(1), 0 + 1, 0 + Reads[1]) = a(1)
    <3> DEFINE s == a(1)
    <3> HIDE DEF s
    <3>1. s \in Seq(Int) /\ Len(s) = Reads[1]
      BY <2>2 DEF s
    <3>2. SubSeq(s, 0 + 1, 0 + Reads[1]) = s
      BY <3>1
    <3> QED
      BY <3>2 DEF s
  <2>4. /\ a(1) \in Seq(Int) /\ Len(a(1)) = ReadBefore(1 + 1)
        /\ ReadBefore(1) \in Nat /\ Reads[1] \in Nat
        /\ ReadBefore(1) + Reads[1] <= Len(a(1))
        /\ SubSeq(a(1), ReadBefore(1) + 1, ReadBefore(1) + Reads[1]) = a(1)
    BY <2>1, <2>2, <2>3
  <2>5. \A k \in 1 .. 1 : k = 1
    OBVIOUS
  <2> QED
    BY <2>4, <2>5, Zenon DEF Begins, a
<1>2. Begins(a(1) \o a(2), Arrays(m), 2)
  <2>1. 1 \in 0 .. 5 /\ 1 + 1 = 2
    OBVIOUS
  <2> QED
    BY <1>1, <2>1, OneArrayMore
<1>3. Begins(a(1) \o a(2) \o a(3), Arrays(m), 3)
  <2>1. 2 \in 0 .. 5 /\ 2 + 1 = 3
    OBVIOUS
  <2> QED
    BY <1>2, <2>1, OneArrayMore
<1>4. Begins(a(1) \o a(2) \o a(3) \o a(4), Arrays(m), 4)
  <2>1. 3 \in 0 .. 5 /\ 3 + 1 = 4
    OBVIOUS
  <2> QED
    BY <1>3, <2>1, OneArrayMore
<1>5. Begins(a(1) \o a(2) \o a(3) \o a(4) \o a(5), Arrays(m), 5)
  <2>1. 4 \in 0 .. 5 /\ 4 + 1 = 5
    OBVIOUS
  <2> QED
    BY <1>4, <2>1, OneArrayMore
<1>6. Begins(Saved(m), Arrays(m), 6)
  <2>1. 5 \in 0 .. 5 /\ 5 + 1 = 6
    OBVIOUS
  <2>2. Begins(a(1) \o a(2) \o a(3) \o a(4) \o a(5) \o a(6), Arrays(m), 6)
    BY <1>5, <2>1, OneArrayMore
  <2>3. Saved(m) = a(1) \o a(2) \o a(3) \o a(4) \o a(5) \o a(6)
    BY DEF Saved, Arrays
  <2> QED
    BY <2>2, <2>3
<1>7. Saved(m) \in Seq(Int) /\ Len(Saved(m)) = ReadBefore(7) /\ ReadBefore(7) \in Nat
  <2>1. 6 + 1 = 7
    OBVIOUS
  <2> QED
    BY <1>6, <2>1 DEF Begins
<1>8. load_weights(Saved(m)) =
        [k \in 1 .. 6 |-> SubSeq(Saved(m), ReadBefore(k) + 1, ReadBefore(k) + Reads[k])]
  BY <1>7 DEF load_weights, WeightCount
<1>9. \A k \in 1 .. 6 :
        SubSeq(Saved(m), ReadBefore(k) + 1, ReadBefore(k) + Reads[k]) = Arrays(m)[k]
  BY <1>6 DEF Begins
<1>10. Arrays(m) = [k \in 1 .. 6 |-> Arrays(m)[k]]
  BY DEF Arrays
<1>11. WeightCount \in Nat \ {0}
  <2>1. ReadBefore(6) \in Nat /\ ReadBefore(7) \in Nat
    BY <1>6, <1>7 DEF Begins
  <2>2. 6 + 1 = 7 /\ 6 \in 1 .. 6
    OBVIOUS
  <2>3. ReadBefore(7) = ReadBefore(6) + Reads[6]
    BY <2>2, ArraysHaveReads, Offsets
  <2>4. Reads[6] = OUTPUT_DIM
    BY DEF Reads
  <2> QED
    BY <2>1, <2>3, <2>4, Dimensions DEF WeightCount
<1> QED
  BY <1>7, <1>8, <1>9, <1>10, <1>11 DEF WeightCount

(* matmul over the flattened weights, plus the biases, is the layer.       *)
LEMMA LayerIs ==
  ASSUME NEW outs \in Nat \ {0}, NEW ins \in Nat \ {0}, NEW w \in Weights(outs, ins),
         NEW b \in Biases(outs), NEW x \in [1 .. ins -> Int]
  PROVE  /\ Plus(matmul(Flattened(w, outs, ins), x, outs, ins), b) = Linear(w, b, x)
         /\ Linear(w, b, x) \in [1 .. outs -> Int]
<1> DEFINE f == Flattened(w, outs, ins)
           product(o) == [j \in 1 .. ins |-> f[At(o, j, outs, ins)] * x[j]]
           weighted(o) == [n \in DOMAIN x |-> w[<<o, n>>] * x[n]]
<1>1. ASSUME NEW o \in 1 .. outs PROVE product(o) = weighted(o) /\ weighted(o) \in Seq(Int)
  <2>1. \A j \in 1 .. ins : f[At(o, j, outs, ins)] = w[<<o, j>>]
    BY FlattenedAt
  <2>2. \A j \in 1 .. ins : w[<<o, j>>] \in Int /\ x[j] \in Int
    BY DEF Weights
  <2>3. \A j \in 1 .. ins : w[<<o, j>>] * x[j] \in Int
    BY <2>2
  <2>4. DOMAIN x = 1 .. ins
    OBVIOUS
  <2> HIDE DEF f
  <2>5. product(o) = weighted(o)
    BY <2>1, <2>4
  <2>6. weighted(o) \in [1 .. ins -> Int]
    BY <2>3, <2>4
  <2>7. [1 .. ins -> Int] \subseteq Seq(Int)
    OBVIOUS
  <2> QED
    BY <2>5, <2>6, <2>7
<1>2. matmul(f, x, outs, ins) = [o \in 1 .. outs |-> SumOf(product(o))]
  BY DEF matmul
<1>3. Linear(w, b, x) = [o \in DOMAIN b |-> SumOf(weighted(o)) + b[o]]
  BY DEF Linear
<1>4. b \in [1 .. outs -> Int]
  BY DEF Biases
<1> HIDE DEF product, weighted, f
<1>5. \A o \in 1 .. outs : SumOf(product(o)) = SumOf(weighted(o)) /\ SumOf(weighted(o)) \in Int
  BY <1>1, SumOfType
<1>6. Plus(matmul(f, x, outs, ins), b) =
        [o \in 1 .. outs |-> SumOf(product(o)) + b[o]]
  BY <1>2 DEF Plus
<1>7. Plus(matmul(f, x, outs, ins), b) = Linear(w, b, x)
  BY <1>3, <1>4, <1>5, <1>6
<1>8. Linear(w, b, x) \in [1 .. outs -> Int]
  BY <1>3, <1>4, <1>5
<1> QED
  BY <1>7, <1>8 DEF f

LEMMA ReluedType ==
  ASSUME NEW n \in Nat, NEW x \in [1 .. n -> Int]
  PROVE  Relued(x) \in [1 .. n -> Int]
BY DEF Relued, relu

LEMMA ForwardIsDQN ==
  ASSUME NEW m \in Trained, NEW x \in [1 .. INPUT_DIM -> Int]
  PROVE  forward(Arrays(m), x) = DQN(m, x) /\ DQN(m, x) \in [1 .. OUTPUT_DIM -> Int]
<1> DEFINE h1 == Relued(Linear(m.w1, m.b1, x))
           h2 == Relued(Linear(m.w2, m.b2, h1))
<1>1. /\ m.w1 \in Weights(HIDDEN1_DIM, INPUT_DIM) /\ m.b1 \in Biases(HIDDEN1_DIM)
      /\ m.w2 \in Weights(HIDDEN2_DIM, HIDDEN1_DIM) /\ m.b2 \in Biases(HIDDEN2_DIM)
      /\ m.w3 \in Weights(OUTPUT_DIM, HIDDEN2_DIM) /\ m.b3 \in Biases(OUTPUT_DIM)
  BY DEF Trained
<1>2. /\ Arrays(m)[1] = Flattened(m.w1, HIDDEN1_DIM, INPUT_DIM) /\ Arrays(m)[2] = m.b1
      /\ Arrays(m)[3] = Flattened(m.w2, HIDDEN2_DIM, HIDDEN1_DIM) /\ Arrays(m)[4] = m.b2
      /\ Arrays(m)[5] = Flattened(m.w3, OUTPUT_DIM, HIDDEN2_DIM) /\ Arrays(m)[6] = m.b3
  BY DEF Arrays
<1>3. /\ Plus(matmul(Arrays(m)[1], x, HIDDEN1_DIM, INPUT_DIM), Arrays(m)[2]) =
           Linear(m.w1, m.b1, x)
      /\ h1 \in [1 .. HIDDEN1_DIM -> Int]
  BY <1>1, <1>2, Dimensions, LayerIs, ReluedType
<1>4. /\ Plus(matmul(Arrays(m)[3], h1, HIDDEN2_DIM, HIDDEN1_DIM), Arrays(m)[4]) =
           Linear(m.w2, m.b2, h1)
      /\ h2 \in [1 .. HIDDEN2_DIM -> Int]
  <2> HIDE DEF h1
  <2> QED
    BY <1>1, <1>2, <1>3, Dimensions, LayerIs, ReluedType
<1>5. /\ Plus(matmul(Arrays(m)[5], h2, OUTPUT_DIM, HIDDEN2_DIM), Arrays(m)[6]) =
           Linear(m.w3, m.b3, h2)
      /\ Linear(m.w3, m.b3, h2) \in [1 .. OUTPUT_DIM -> Int]
  <2> HIDE DEF h2
  <2> QED
    BY <1>1, <1>2, <1>4, Dimensions, LayerIs
<1>6. DQN(m, x) = Linear(m.w3, m.b3, h2)
  BY DEF DQN
<1>7. forward(Arrays(m), x) =
        Plus(matmul(Arrays(m)[5], h2, OUTPUT_DIM, HIDDEN2_DIM), Arrays(m)[6])
  BY <1>3, <1>4 DEF forward
<1> QED
  BY <1>5, <1>6, <1>7

(* The two ways to take the label differ only on equal outputs.            *)
LEMMA LabelsAgree ==
  ASSUME NEW output \in [1 .. OUTPUT_DIM -> Int], output[1] # output[2]
  PROVE  Prediction(output) = Argmax(output)
<1>1. output[1] \in Int /\ output[2] \in Int
  BY Dimensions
<1> QED
  BY <1>1 DEF Prediction, Argmax

FileInv ==
  /\ model \in Trained
  /\ file \in {Saved(model), Front(Saved(model)), <<>>}

LEMMA FileNext == FileInv /\ [Next]_classificationVars => FileInv'
BY DEF FileInv, Next, Monitor, LoadWeights, ReadPipe, ScanStep, ClassifyStep, ExpireStep,
       networkVars, classificationVars

(* A file cut short or missing is refused.                                 *)
LEMMA ShortIsRefused ==
  ASSUME NEW m \in Trained, NEW short \in {Front(Saved(m)), <<>>}
  PROVE  load_weights(short) = Unloaded
<1>1. /\ Saved(m) \in Seq(Int) /\ Len(Saved(m)) = WeightCount
      /\ WeightCount \in Nat \ {0}
  BY FileIsRead
<1>2. Len(short) < WeightCount
  BY <1>1 DEF Front
<1> QED
  BY <1>2 DEF load_weights

(* Whatever network train.py saved, the detector runs it on every input of *)
(* whole numbers, large and negative ones too: load_weights finds each     *)
(* layer in the file and matmul each weight in its layer, whatever their   *)
(* dimensions; a short or missing file is refused.                         *)
THEOREM LoadedIsTrained ==
  Spec => [][RunsAsTrained(Int)]_classificationVars /\ NetworkIsTrained
<1>1. FileInv /\ [Next]_classificationVars => [RunsAsTrained(Int)]_classificationVars
  <2> SUFFICES ASSUME FileInv, LoadWeights
               PROVE  IF file = Saved(model)
                      THEN \A x \in [1 .. INPUT_DIM -> Int] :
                             LET output == forward(net', x)
                             IN  /\ output = DQN(model, x)
                                 /\ output[1] # output[2] =>
                                      Prediction(output) = Argmax(output)
                      ELSE receiver' = "ended"
    BY DEF RunsAsTrained
  <2>1. net' = load_weights(file) /\ model \in Trained
    BY DEF LoadWeights, FileInv
  <2>2. CASE file = Saved(model)
    <3>1. net' = Arrays(model)
      BY <2>1, <2>2, FileIsRead
    <3>2. ASSUME NEW x \in [1 .. INPUT_DIM -> Int]
          PROVE  /\ forward(net', x) = DQN(model, x)
                 /\ forward(net', x)[1] # forward(net', x)[2] =>
                      Prediction(forward(net', x)) = Argmax(forward(net', x))
      <4>1. forward(net', x) = DQN(model, x) /\ DQN(model, x) \in [1 .. OUTPUT_DIM -> Int]
        BY <2>1, <3>1, ForwardIsDQN
      <4> QED
        BY <4>1, LabelsAgree
    <3> QED
      BY <2>2, <3>2
  <2>3. CASE file # Saved(model)
    <3>1. load_weights(file) = Unloaded
      BY <2>1, <2>3, ShortIsRefused DEF FileInv
    <3> QED
      BY <2>1, <2>3, <3>1 DEF LoadWeights
  <2> QED
    BY <2>2, <2>3
<1>2. RunsAsTrained(Int) => RunsAsTrained(0 .. MODULUS - 1)
  <2>1. [1 .. INPUT_DIM -> 0 .. MODULUS - 1] \subseteq [1 .. INPUT_DIM -> Int]
    OBVIOUS
  <2> QED
    BY <2>1 DEF RunsAsTrained
<1>3. Init => FileInv
  BY ClassificationAssumption DEF Init, FileInv
<1> QED
  BY <1>1, <1>2, <1>3, FileNext, PTL DEF Spec, NetworkIsTrained
=============================================================================
