------------------------------ MODULE Sampling ------------------------------
(***************************************************************************)
(* The sampling loop of collect_perf_events (collect.c) for one perf event *)
(* of one thread; the four events have rows of their own in values and do  *)
(* not touch each other.  Every round reads the counter, stores a value in *)
(* unsigned arithmetic, and every PRINT_EVERY rounds sends the values of   *)
(* the batch.                                                              *)
(*                                                                         *)
(* The value stored is the count minus the value STORED the round before,  *)
(* not minus the count of the round before.                                *)
(***************************************************************************)
EXTENDS Integers, Sequences, FiniteSetsExt

CONSTANTS
  TOTAL_SAMPLES,   (* rounds, 30                                          *)
  PRINT_EVERY,     (* rounds per message, 10                              *)
  MODULUS,         (* of uint64_t, 2^64                                   *)
  MAX_COUNT        (* what the counter can reach in TOTAL_SAMPLES rounds  *)

ASSUME SamplingAssumption ==
  /\ TOTAL_SAMPLES \in Nat
  /\ PRINT_EVERY \in Nat \ {0}
  /\ MODULUS \in Nat \ {0}
  /\ MAX_COUNT \in 0 .. MODULUS - 1

VARIABLES
  count,      (* the kernel's counter, reset when the event is opened      *)
  values,     (* the row of the event, as far as it is filled              *)
  counts,     (* history: the counter at each round                        *)
  failed,     (* history: some read() failed                               *)
  messages    (* the batches sent                                          *)

samplingVars == <<count, values, counts, failed, messages>>

SamplingInit ==
  /\ count = 0
  /\ values = <<>>
  /\ counts = <<>>
  /\ failed = FALSE
  /\ messages = <<>>

(* A difference to the previous value that came out the wrong way round.   *)
StoredReversed(c, row) ==
  IF row = <<>> THEN c ELSE (row[Len(row)] - c) % MODULUS

(* The difference to the previous count.                                   *)
StoredDelta(c, row) ==
  IF counts = <<>> THEN c ELSE (c - counts[Len(counts)]) % MODULUS

Stored(c, row) ==
  IF row = <<>> THEN c ELSE (c - row[Len(row)]) % MODULUS

(* A batch that begins where the last one ended.                           *)
BatchOverlaps(row) ==
  SubSeq(row, IF Len(row) = PRINT_EVERY THEN 1 ELSE Len(row) - PRINT_EVERY, Len(row))

(* After a round: the batch goes out if it is full.                        *)
Due(row) == Len(row) % PRINT_EVERY = 0

Batch(row) == SubSeq(row, Len(row) - PRINT_EVERY + 1, Len(row))

Send(row) ==
  messages' = IF Due(row) THEN Append(messages, Batch(row)) ELSE messages

More == Len(values) < TOTAL_SAMPLES

(* The target runs on, and the counter with it.                            *)
CounterAt(c) ==
  /\ c \in count .. MAX_COUNT
  /\ count' = c
  /\ counts' = Append(counts, c)

Sample(c) ==
  /\ More
  /\ CounterAt(c)
  /\ values' = Append(values, Stored(c, values))
  /\ Send(values')
  /\ UNCHANGED failed

(* A failed read leaves the 0 the row was initialised with.                *)
SampleFails(c) ==
  /\ More
  /\ CounterAt(c)
  /\ values' = Append(values, 0)
  /\ Send(values')
  /\ failed' = TRUE

SamplingNext == \E c \in 0 .. MAX_COUNT : Sample(c) \/ SampleFails(c)

SamplingSpec == SamplingInit /\ [][SamplingNext]_samplingVars

-----------------------------------------------------------------------------
SamplingTypeOK ==
  /\ count \in 0 .. MAX_COUNT
  /\ values \in Seq(0 .. MODULUS - 1)
  /\ counts \in Seq(0 .. MAX_COUNT)
  /\ Len(values) = Len(counts)
  /\ failed \in BOOLEAN
  /\ messages \in Seq(Seq(0 .. MODULUS - 1))

(* The unsigned subtraction never wraps, through any pattern of failed     *)
(* reads: a value is at most the counter at its round.  A wrapped value    *)
(* has 20 digits, and 40 of them overrun the 1024 bytes the message is     *)
(* formatted into.                                                         *)
NoWrap == \A n \in DOMAIN values : values[n] <= counts[n]

Interval(n) == IF n = 1 THEN counts[1] ELSE counts[n] - counts[n - 1]

(* What a value means as long as every read succeeded: it grows by one     *)
(* interval every second round, so it is the sum of every other interval   *)
(* and not the count of its own.                                           *)
GrowsEverySecond ==
  ~ failed =>
    \A n \in DOMAIN values :
      values[n] = IF n <= 2 THEN Interval(n) ELSE values[n - 2] + Interval(n)

(* No batch is sent twice or skipped: the messages are the row, in order,  *)
(* cut every PRINT_EVERY values.                                           *)
MessagesAreTheRow ==
  /\ Len(messages) = Len(values) \div PRINT_EVERY
  /\ \A m \in DOMAIN messages :
       messages[m] = SubSeq(values, (m - 1) * PRINT_EVERY + 1, m * PRINT_EVERY)
=============================================================================
