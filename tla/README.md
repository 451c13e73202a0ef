# TLA+ models of kleb_pid

kleb_pid watches a Linux machine for new programs and classifies each as benign
or malicious from its hardware performance counters. An eBPF probe reports every
`execve`; a user-space process (`src/code`) gives each reported PID a thread that
samples four counters for 300 ms and writes three text messages into a pipe; a
receive thread reads all pipes, files the messages per PID, and runs a small
neural network. Beside it stand a collector of training data
(`src/collect_data`) and the training scripts (`src/judge`).

This directory holds TLA+ modules of that program, TLC configurations that check
them on small instances, and TLAPS proofs of what holds for every instance.

## 1. Inventory

| component | code | state | operations | what makes it correct |
|---|---|---|---|---|
| execve probe | `code/program_a_bpf.c` | the perf buffer | `trace_execve` | an event is in the buffer or lost, never duplicated |
| capture filter | `the_main.c:16-81` | `pid_table`, the clock | `is_pid_recent`, `cleanup_pid_table` | no PID passes twice within 5 s; none is dropped for another's sake; one node per PID |
| main loop | `the_main.c:84-224` | `pipe_fds`, `pipe_count`, `exiting`, the mutex | `handle_event`, `handle_signal`, `cleanup_pipes`, `main` | every descriptor has one owner; a signal ends the process; every event is handled |
| monitor threads | `the_main.c:105-110`, `collect.c` | perf descriptors, the sample matrix | `collect_perf_events` | all opened descriptors are closed; values do not wrap; each batch is sent once, into its own pipe |
| receive thread | `receive.c:263-327` | the poll set | poll, read, dispatch, sweep | never blocks; messages arrive in order; every pipe is served |
| message table | `receive.c:30-42, 108-201, 245-260` | `data_table` | `get_pid_data`, `add_data_to_pid`, `cleanup_old_data`, `cleanup_all_data` | one node per PID; nothing stored past an array; fresh data kept, every stale node freed |
| inference input | `receive.c:203-243` | the stored texts | the scan, `forward` | the network sees what was sampled |
| network | `receive.c:44-105`, `judge/train.py` | the weights | `load_weights`, `matmul`, `relu`, `forward`; `save_weights_to_binary` | the detector runs the network that was trained; a file cut short is refused |
| training-data collector | `collect_data/program/the_main.c, collect.c` | csv files | `handle_event`, `collect_perf_events` | each csv belongs to one thread and is complete |
| performance monitor | `collect_data/program/perf_monitor.c` | a monitor, its data array, `strtok`'s position | create, start, stop, destroy, save; the two `/proc` readers | no use after free, data bounded and of one moment; a reading is the reader's own |
| feature extractor | `collect_data/script/get_feature.cpp` | `vmi`, `PerfcSave`, `g_monitor`, four threads | `main`, threads 1 to 3, `PerformanceMonitor` | vmi open as long as it is used; printing after the last reading; saving alone; every run ends |
| sample runner, rename script | `run_sample.sh`, `rename.py` | files | - | nothing overwritten (not modelled) |
| training | `judge/*.py` | a model, csv files | training, `save_weights_to_binary` | (training is not modelled) |

How they interact: the main thread hands a new pipe to the receive thread through
`pipe_fds`/`pipe_count` under `pipe_mutex`, and to a monitor thread through its
argument. A monitor thread and the receive thread share nothing but the pipe. All
of them share `exiting` and the process's descriptor table; a descriptor is only
a number, and a number that one thread closes may come back as something else to
another. All threads but main are detached.

What is hard: the descriptor races of shutdown and of failed thread creation; the
growth of the poll set while pipes are added; byte-stream framing; chained tables
that are edited while they are walked; allocation failures at every step; the
state `strtok` leaves behind; unsigned arithmetic on differences. The hazard list
with lines is in `PROJECT.json`.

## 2. Modules

    HashTable -- PidTable -- CaptureFilter            (refines CaptureLimiter)
        |           +---------------------------+
        +-- DataTable -- DataStore              |
               |                                |
               +------ Receive   Process -- Collect -- TheMain
                          |                              |
                          +----------- Detector ---------+   (refines Delivery)

    Network -- Inference --+-- Classification -- MCClassification -- MCClassificationHistory
    Sampling --------------+      (refines Sampling and Inference)

    PerfMonitor -- CollectData
    Measurement
    GetFeature

The proofs are in modules of their own:

    PidTable, CaptureFilter ............. CaptureFilterProofs
    HashTable, DataTable ................ TableProofs
    DataStore ........................... DataStoreProofs    (uses TableProofs)
    Detector, in every instance ......... DetectorProofs     (uses TableProofs)
    Detector, if certain calls succeed .. NoFailureProofs    (uses DetectorProofs)
    Sampling, Inference, Network,
      Classification .................... ClassificationProofs
    CollectData ......................... CollectDataProofs
    GetFeature .......................... GetFeatureProofs

**HashTable** is the chained table that both C files define in the same words: a
bucket's chain is a sequence, head first. `Hits` and `First` are the lookup loop,
`LinkFirst` the insertion at the head, `Update` an assignment through the pointer
the lookup returned.

**PidTable, CaptureFilter.** `is_pid_recent` is called by the main thread only,
so a call is one action: `Suppress` (return 1), `Capture` (return 0 with a node
stamped or added), `CaptureUnrecorded` (return 0 without a node, malloc failed).
`passed` and `suppressed` are history. **CaptureLimiter** is the promise without
a table: a map from PIDs to the time each was last handled. An event is dropped
exactly if its own PID's entry is young, a dropped event leaves the map as it is,
and a handled one restamps its own PID's entry and no other. `LimiterSpec` says the
filter implements it; unlike `PassagesSpaced` it also says when an event *must* pass,
and that events in quick succession do not push the next capture back.

**DataTable, DataStore.** The operations of `data_table` as functions of the
table; one that allocates is a set of outcomes, one per allocation that fails. A
node has `data_capacity` (the field) and `allocated` (what the array really has).
DataStore calls the operations in any order while time passes.

**Process** has what the threads share: `common.h`'s variables and the kernel's
part, a descriptor table that hands out the lowest free number and pipes whose
content is a sequence of units. A unit is the piece of text below which it does
not matter where a read cuts; a message is 2 or 3 of them, a read takes
4 (`READ_UNITS`), so a read can return one message, two, or one and the beginning
of the next. This is the real proportion: a message is 508 to 868 bytes and a read
takes 1023. A pipe holds 65536 bytes and a thread sends three messages, so writes
never block and pipe capacity is not modelled. Descriptors that are open before
the first event (standard streams, BPF, perf buffer) are outside `FDs`.

**Collect** is a monitor thread: `OpenEvent` per perf event, `WriteBatch` per
message, `CloseEvent` per perf event. `WriteBatch` goes to whatever the number
means at that moment: a pipe with a reader takes the data, one without kills the
process (SIGPIPE is not handled), anything else is an error the code logs.

**TheMain** is the main thread; `mpc` names the points between its steps, which
are the calls at which other threads can see or change something: reading
`exiting`, `perf_buffer__poll`, `is_pid_recent` with `pipe`, the locked
registration, the creation of the thread, and at the end `FreeTables`, the lock,
every single `close` of `cleanup_pipes`, the unlock, the return. The two closes
of a failed thread creation or of a full table are one step: the numbers are
either unknown to other threads or, after registration, an empty pipe to them
whose ends nobody can tell apart in between.

**Receive** is the receive thread; `rpc` names its points. `poll` and each `read`
are separate steps, so descriptors may be closed and reused in between.
`ReadBlocks` is a `read` that finds an empty pipe with a writer. `PollPipesFails` is any
failing `poll`: interrupted by the signal, or for want of memory.

**Detector** composes TheMain, Collect and Receive by interleaving; a stopped
process stutters, so TLC's deadlock check is meaningful in its runs. **Delivery**
is what the composition promises a monitor thread: in-order, at-most-once
delivery in which the first message is never the one that is lost.

**Sampling** is the sampling loop for one counter. The stored value is the count
minus the value *stored* in the round before (`collect.c:105`); the model keeps
the counter history to say what that means. **Inference** is the scan of stored
texts as lines of a kind, one step per text; `Scan` includes that `strtok` cuts
each text after its first line.

**Network** has both ends of the weights file: `load_weights`, `matmul`, `relu`,
`forward` and the final comparison of `receive.c`, and the layers and the flattening
of `train.py`; a `Trained` network is any with the layers of `DQN`. The six `fread`s are
the six consecutive pieces of `Reads`. The file is what was saved, that cut short, or
missing. Numbers are integers: what is modelled is the layout (which weight meets which
input), not the rounding of floats.

**Classification** is the path of one process's samples, from the counter to the
label: the monitor thread's rounds (Sampling) write texts into a pipe, a read takes
as many lines as fit (`ReadLimits`), a text that begins with a header is filed and
scanned (Inference), and `forward` of the network loaded at the start is run on what
the scan found. A text is its header line, an event line and a row line; a read is
cut at the end of a line here, while Detector has the cuts inside a message among
several pipes. **MCClassification** gives it two small networks, neither square nor
symmetric, and the texts a read can return. **MCClassificationHistory** adds a variable
that remembers the stored texts as they were received, before the scan cut them, for
the one property that compares the network's input with what was received.

**PerfMonitor** is the collector's monitor object: its owner's calls are
operators that give the monitor they leave behind (a set of them where a call may
fail), the sampling thread is `CheckRunning` (the read of `running` at the head of
its loop) and `AppendPoint` (the section under `data_mutex`). Of a data point only
its existence is kept, of the usage file only that a save holds the mutex while it is
written. **CollectData** is the collector process: `HandleEvent` starts a detached
thread for *every* execve (there is no filter here), and a thread goes through
`collect_perf_events` with every early return: `Create`, `Start`, `OpenEvent`,
`OpenCsv`, `Sample` and its two ends, `SaveOpen`, `SaveWrite`, and
`perf_monitor_destroy` in three steps, since it waits for the sampling thread in
between. The perf events are numbers of one descriptor table, lowest free first, and
the four loops that close them (lines 107, 121, 146, 179) are `CloseEvent`, one number
per step, so that a number may be another thread's before its neighbour is closed;
`after` is where the loop leads. The descriptors of stdio's files are left out of the
table. A csv file is the thread that opened it last and how
many of its rows stdio has handed over: not necessarily all until `fclose`, or
until `exit` flushes what main's return leaves open. A file that two threads have
written over each other is nobody's, its content is not modelled. Seen from the
threads a signal and a failing poll are the same, the return of main, which may
come at any time.

**Measurement** is what the sampling threads do between `CheckRunning` and
`AppendPoint`: `get_process_cpu_time` and `get_system_cpu_time`, call of `strtok` by
call of `strtok`. A token is the line it was cut from and its number there;
`position` is the static variable behind `strtok`, one for the whole process.

**GetFeature** is the feature extractor. `pc` is the next step of `main`, with each
early return (`Return`) and each place where an exception leaves `main` or a thread
(`Throw`). The return of `main` destroys the global `g_monitor`: if its thread has
not been joined, `std::terminate` ends the process, which is what every early return
comes to. The workers are a state, a timer and, for thread 1, the number of readings
begun. Time stands still while somebody is due, so a sleep ends when it is over; that
a sleep overruns and that a reading takes time is `MAX_CALL`, a bound that nothing in
the code gives; no assumption relates it to the other times.

Definition-to-line correspondence is in `PROJECT.json` ("map").

## 3. Runs

| run | instance | question | distinct states |
|---|---|---|---|
| `capture_filter` | 3 PIDs, 2 buckets, window 2, clock to 3, 3 events per PID | is the filter a rate limiter, in both directions and without restamping what it drops, in the presence of collisions and failed mallocs? | 1.2 million |
| `data_store` | 3 PIDs, 2 buckets, age 2, clock to 3, first array of 1 slot, `calloc`/`strndup` may fail | are nodes unique, arrays in bounds, all young messages kept in order and stale nodes freed? | 109,000 |
| `detector` | 2 captures, 2 slots, 6 descriptors, 2 messages of 2 or 3 units, thread creation may fail | do threads stay polled, do messages stay in their pipe and arrive in order, does the receiver block for no other reason than a number polled twice, are all pipes closed at exit? | 991,000 |
| `detector_faults` | 2 captures, 1 slot, 5 descriptors, 2 perf events per thread, age 1, clock to 1, every call and allocation but the creation of a thread may fail | does every failure path keep each descriptor with exactly one owner, and does a delivered message stay in the table until it is outdated? | 731,000 |
| `detector_live` | 3 execve calls for a buffer of 2, 2 slots, 1 message, poll-set allocation may fail, fairness | does the receiver never wait in a read although it serves two pipes after one poll, is every first message classified, is every event in the buffer handled, does a signal end the process? | 159,000 |
| `classification` | 6 rounds, batches of 2, counter to 2, any read of it failing; reads of 4 or 5 lines; two 3-2-3-2 networks, file whole, cut short or missing | does the subtraction wrap, what does a value mean, are batches complete, is the loaded network the trained one, what does it see? | 64,000 |
| `collect_data` | 2 threads of 1 or 2 PIDs, 2 perf events each, 4 descriptors, 2 rows, 1 data point, every call may fail, fairness | is every monitor joined before it is freed, is no perf event closed twice or forgotten while numbers come back, is the csv of a PID whose threads do not overlap complete, is a save one moment's data, does every thread end? | 591,000 |
| `get_feature` | 3 readings every 3 s, dump at 5, print at 10, 1 s per reading, every early return and exception, fairness | is vmi open as long as it is used, does thread 3 print every reading that is made in time, is the usage file saved by the only thread left, does every run end? | 79,000 |

Why the bounds are enough: two PIDs in one bucket and a third in the other show
every chain case (head, middle, other chain). Three events let a dropped event come
between two that are decided by the same entry. Two captures show two pipes, two
threads and reuse of a number; one slot shows the full table. In `detector_faults`
there is only ever one thread: five descriptors, a registered pipe with its thread's
two perf events and one more pipe, make the table run out, but that two threads do not
take each other's descriptors is shown by the theorem `OwnersOfDescriptors` and not by
this run. In `detector_live` two pipes are announced by one poll and served one after
the other, and the perf buffer is smaller than the number of execve calls, so it
overflows; in the other runs it does not. A clock to window + 1 passes the boundary
from both sides. `data_store` starts arrays at one slot instead of ten so that they
grow at the second message. Two collecting threads of one PID overlap or follow each
other, of two PIDs they must not meet; four descriptors are all open when both have
opened their events, and a number closed by the one is the next of the other. One
data point fills a monitor's array, so the next is dropped. Six rounds give three
batches, and values that are sums over three rounds and more; a read of four lines
cuts the second text after its header, one of five cuts it in front of its row, and
the rest is dropped or joined with the next. Layers of different sizes that are not
symmetric tell a matrix from its transpose and one array of the file from the next,
although some weights are equal. In `get_feature` the last reading is in time with
nothing to spare ((3 - 1) * (3 + 1) + 1 = 9 < 10), so all three must be printed, and a
dump that begins at 5 may outlast everything else.
`MAX_EXECS`, `MAX_TIME`, `MAX_EVENTS`, `MAX_MESSAGES`, `TOTAL_SAMPLES`, `BATCHES`
and `NOFILE` are the bounds; the three small models that only stop at such a bound
(`capture_filter`, `data_store`, `classification`) switch the deadlock check off.

Four runs expect a violation, each of a sentence of the repository:

| run | what the code does |
|---|---|
| `input_without_samples` | every stored text begins with its `[PID:` line, the scan skips texts that do: a message with a number other than 0 is stored and scanned, the network is run on zeros, and every process gets the same label |
| `capacity_after_failed_realloc` | a failed `realloc` leaves a doubled `data_capacity` over the old array |
| `killed_while_cleaning_up` | `cleanup_pipes` closes a slot's read end before its write end while threads still write: SIGPIPE kills the process, and the cleanup that Ctrl+C is said to do is not finished |
| `utime_of_another_thread` | `strtok`'s position is shared by the sampling threads of all monitors: after "skip to utime" a thread holds another field, or a field of another thread's line |

Smaller things seen while modelling and visible in the actions, without a run of their
own: a PID whose `pipe()` failed is ignored for 5 seconds although nothing monitors it
(`HandlePipe`); the slot of a thread that has ended is never given back, so after
`MAX_PIDS` captures no process is monitored any more, against readme.md:151 (`Register`,
`RegisterFull`); two messages read at once are filed as one and a tail without a header
is dropped (`Deliver`); main does not wait for the receiver at exit (`Return`); a node's
messages are as fresh as the newest of them (`Store`); a thread whose second
`perf_event_open` fails keeps the first open (`OpenEvent`, in both programs); two execve
events of one PID make the collector write two series into one csv (`OpenCsv`), which
`CsvIsComplete` therefore leaves out; two threads that end in one second write one usage
file (`collect.c:191`, not modelled); and the return of main leaves csv files as short
as they happen to be, which is the normal case under `run_sample.sh`, whose samples run
for less than the 10 seconds a thread takes; of two equal outputs `receive.c:238` takes
the second, the `argmax` of `train.py` the first (`Prediction`, `Argmax`);
`run_sample.sh` closes an `if` with a brace (line 38) and does not parse; and ten csv
rows, which `train.py:29` makes a sample, flatten to the 40 inputs only with four
columns, the collector writes five.

**Fairness.** `FairSpec` of the Detector has weak fairness of the main thread
(`WF_<<main_vars, proc>>(Main)`), the receive thread (`WF_receive_vars(Receiver)`) and
each monitor thread (`WF_<<collectors, proc>>`); the subscripts name variables that
every step of the thread changes, so no step is excused as a stutter. The kernel
schedules every runnable thread, all waits (`poll`, `perf_buffer__poll`, `usleep`) have
timeouts, and `pthread_mutex_lock` is only waited for while another thread is in a
section without waits. In CollectData every collecting thread (`WF_collectors`) and
every sampling thread (`WF_monitors`) is weakly fair, which is enough for the mutex as
well: a save takes it once. In GetFeature all threads are weakly fair, time passes, and
what the workers call (LibVMI, the dump) returns. Nothing is assumed of the environment
of the detector: neither that a signal comes, nor that an `execve` happens, nor that
time passes. `SignalEndsProcess` takes any end for an end, death by SIGPIPE included: it
is about deadlock. That the end is an orderly one is `SignalCleansUp`, which is refuted.
`EveryRunEnds` likewise takes an abort for an end; it is about the joins, and does not
catch that an early return aborts.

## 4. Proofs

`tlapm` checks these for every value of the constants that the modules'
assumptions allow. Each inductive invariant was first checked by TLC on the run of
its module.

**Assumptions.** The named `ASSUME`s give the constants their types and keep them off
zero. Beyond types they say: counters are monotone and below 2^64
(`SamplingAssumption`); an output layer has the two outputs that `receive.c` compares
(`NetworkAssumption`); the networks were trained by `train.py`, and the texts include
all a read can return (`ClassificationAssumption`); the collecting threads are numbered
in the order of their creation (`CollectDataAssumption`). The times of the extractor are
any natural numbers, zero only for `MAX_CALL` (`GetFeatureAssumption`). Theorems that
need some calls to succeed say so in their own `ASSUME`:

| theorem | assumes | because otherwise |
|---|---|---|
| `ArraysAreLargeEnough` | `realloc` does not fail | run `capacity_after_failed_realloc` |
| `OwnersOfDescriptors`, `ReadsDoNotWait`, `NumbersAreApart` | `pthread_create` does not fail | main closes the pipe but leaves its numbers registered; they come back as other things, are polled twice and closed twice |
| `DeliveryIsImplemented`, `MessagesInOrder` | the table's allocations do not fail | a message the table cannot store is lost |

**CaptureFilterProofs** (`FilterInvariant`, then `TableTypes`, `NodesAreUnique`,
`TableTellsHistory`, `PassagesAreSpaced`, `SuppressesForReason`, and the refinement
`ImplementsLimiter`). `PassagesSpaced` is not inductive: it says nothing about
the table, and the decision is taken from the table. The inductive invariant
`FilterInv` adds `TableMatchesHistory`, that a node carries the time of its PID's
last passage, and `UniqueNodes`, without which the lookup could find an older
node. The table lemmas (`StampFiles` and those before it) say that stamping a PID
keeps the table well filed, sets that PID's node and leaves every other PID's
node what it was, also in the same bucket. The refinement
`ImplementsLimiter` goes through both verdicts: the map of CaptureLimiter is what the
lookup finds, so an event is dropped or handled as its own entry says, a dropped one
changes no node, and a handled one changes its own PID's and leaves every other's as it
was, in the same chain as well.

**TableProofs** has no theorem about a behaviour; its lemmas say what each operation
of a chained table does. In a well filed table (a node only in the bucket of its PID,
none twice) a lookup finds a PID's only node (`LookupFinds`), and these are all
nodes there are (`NodesAreFound`). `Touches(p, old, new)` is the frame every operation
satisfies: the table stays well filed and no other PID's node changes, the same
chain or not. Then one lemma per operation of `data_table`, for each of its outcomes
(`GetIs`, `ExpandIs`, `StoreIs`, `AddIs`), and `SweepIs`: the walk that unlinks stale
nodes keeps exactly the others, as they were. The walk is a recursive function over
the length of a chain (`Kept`). Induction over it takes the form of a least
counterexample: a nonempty set of numbers has a least element (`LeastExists`, from the
library's well-foundedness of `<`, which needs no operator parameter), so a set of
numbers that has no least element is empty (`NoLeastCounterexample`).

**DataStoreProofs** (`DataStoreTypes`, `NodesAreUnique`, `ArraysAreLargeEnough`,
`FreshDataStays`, `SweepsAreComplete`). `FreshDataKept` is about every young
message, not only the newest. `DataStoreInv` says of every PID's node
(`NodeIs`) that its messages are the last of those that arrived, so that what a sweep
takes is a beginning; that its timestamp is not older than the last arrival, so that a
sweep does not take what is fresh; that its array is as long as its capacity; and that
none is stale at the time of a sweep. With `TableProofs` each operation comes
down to what it does to one node.

**DetectorProofs** (`DetectorTypes`, `ThreadsAreListenedTo`, `MessagesAreHome`,
`BlocksForReuse`, `NoPipeSurvives`, `NoSigpipeBefore`, `DeliveriesAreFiled`).
`NoSigpipeBefore` completes the run `killed_while_cleaning_up`: SIGPIPE kills in
`cleanup_pipes` and nowhere else. The
process, with any number of threads and under every combination of failing calls. A
thread, a slot and the poll set hold numbers, and a number means what the
descriptor table says at the moment; the proof is about when all of them agree.
`DetectorInv` has a part for every such pair:

- `EndsAreUnique`, `EndsAreOwned`: an open end of a pipe is one number, and that number
  is in a slot or in main's hand; during `cleanup_pipes` it is still to be closed.
  Therefore nothing is open after the last close (`NoPipeSurvives`).
- `FreshPipe`: the pipe in main's hand is open, empty and unknown to every thread, so that
  the two closes after a failure hit nobody else.
- `ThreadsHaveSlots`: until the cleanup a thread's slot has both ends of its pipe. It needs
  the two parts before: main closes only the ends of a pipe no thread has.
- `OwnPipes`: whenever a thread's number is a write end, it is that of its own pipe. After
  the cleanup has begun the number may be closed, but no pipe is made any more
  that could take it. With this `MessagesStayHome` is inductive.
- `PerfEvents`: a thread's perf events are its own; main closes numbers of perf
  events in the cleanup only, through slots that a failed thread creation left behind.
- `PollSet`: the poll set is what the first slots hold, in order. `Serving` and
  `Blocked`: what `poll` announced still has data when its `read` comes, unless its
  number is polled twice, in which case the first read may take what the second waits
  for (`BlocksForReuse`).

Each part has a frame lemma, each action a lemma that proves the parts it can
disturb. `DeliveriesAreFiled`, an action property, adds `FiledInv`, the table being well
filed, and takes `AddIs` and `SweepIs` from `TableProofs`: a delivery reaches the node of
the thread's PID (`MessagesStayHome` says whose header a pipe holds), no delivery or
failed allocation of any PID takes it away, and a sweep takes it only with an outdated
node. That a node is not outdated while something in it is fresh is `FreshDataStays`.

**NoFailureProofs** (`OwnersOfDescriptors`, `ReadsDoNotWait`, `DeliveryIsImplemented`).
If every thread can be created, `StrictInv` adds to `DetectorInv` that registered
numbers are open (`SlotsAreOpen`) and apart (`SlotsAreApart`), so that none is polled
or closed twice and every perf event stays its thread's until the thread closes it
(`PerfOwners`). For the refinement of Delivery, `OrderInv` relates the three ends of a
channel: what a pipe holds is in the order of writing with one header each
(`InSequence`), newer than what arrived, and, if nothing has arrived, it begins with
the first header (`FollowsOn`). The first read from a pipe therefore
begins with the first header, and what is dropped as a tail without a header is never
the first message. Every step is one of `Send`, `Deliver` or a stutter (`ChannelSteps`).

**ClassificationProofs**, from the counter to the label.

- *Sampling* (`NeverWraps`, `ValuesSkipIntervals`, `BatchesAreTheRow`). A stored value is
  at most the counter of its round, so the next difference is taken in the right
  order; the invariant adds that the counter stands where the last round read it. For
  the batches, `Quotient` and the lemmas after it do the division of `i / PRINT_EVERY`.
- *Inference* (`AlwaysZeroInput`). Whatever texts a pipe yields, a stored text begins with
  a header, because only such texts are stored and `strtok` leaves the first line; so
  the scan finds nothing and the input is zero.
- *The composition* (`ImplementsSampling`, `ImplementsInference`, `SamplesHold`,
  `LabelsNeverSeeSamples`, `ClassificationTypes`) implements both of its parts: a
  round of the monitor thread is one of Sampling and a stutter of Inference, and a
  read is a `Receive` of Inference or, if its text is dropped, a stutter. For that
  one invariant is needed, that the pipe holds nothing but sampled lines, so that
  whatever piece a read takes is one of `Texts`. The theorems about the parts carry
  over to the whole path.
- *The network* (`LoadedIsTrained`). For any dimensions, any trained network and any
  vector of integers (`RunsAsTrained(Int)`, of which `NetworkIsTrained`, over the values
  TLC can enumerate, is an instance): the reads take the saved file apart where it was put together (`FileIsRead`,
  array by array: what is appended later does not move what is there already,
  `OneArrayMore`); `matrix[i * cols + j]` of a flattened layer is the weight of output
  `i` and input `j` (`FlattenedAt`); so each layer is the trained one (`LayerIs`), and so
  are the three in sequence (`ForwardIsDQN`). The sums of `matmul` are equal because
  their summands are; that a sum exists is again by a least counterexample (`SumsExist`).

**CollectDataProofs** (`SamplersAreJoined`, `EventsAreClosed`, `SavesAreOneMoments`,
`CsvFilesAreComplete`, `CollectorTypes`). For any number of threads and any set of
failing calls. The invariant says for each `pc` of a thread what its monitor looks like
(`Fits`) and what the thread has open (`Holds`); its core is `Sampled`, that
`running` is set exactly if a sampling thread is at work. That is why
`perf_monitor_start` must take the flag back when the thread cannot be created, and
why `perf_monitor_stop` may take the flag as the reason to join. `OneThread` reduces
a step of one thread to what it does to that thread and its monitor; only `OpenCsv`
touches others. `EventsClosed` needs an invariant of the descriptor table (`FdInv`):
what a thread has in `fds` are different numbers, each the thread's in `fd_table`, and
what the table gives a thread stands in its `fds`. A close is then a close of the
thread's own number, which may be handed to another in the next step but stands in
nobody's list at that moment. `CsvIsComplete` is about all threads of a PID at once, and
only about PIDs whose threads had the file open one after the other. To be inductive
it lacks only that a writing thread has opened the file (`CsvInv`); what makes it hold
is that a thread opening the file finds every other that is writing (`OpenCsv`), so that
threads which are all alone wrote one after the other and the last owns the file, and
that `fclose` or `exit` flushes what a thread leaves.

**GetFeatureProofs** (`VmiOutlivesTheDump`, `PrintsTheReadingsInTime`,
`SavesWithoutOthers`). For any number of readings and any times. `Control` ties
`main`'s step to what the threads are doing; `Timing` bounds the
timer of thread 1, in terms of its round, by the time thread 3 was created, so that
a reading whose slowest time (`Slowest`) is before `PRINT_AT` is over when thread 3
wakes (`InTime`), and no later step takes it back. Nothing is assumed of how long a
call takes: the property says which readings a given `MAX_CALL` leaves in time. With
the code's numbers in milliseconds (13 readings, 5000, 68000) the whole record is
printed if a reading and the overrun of its sleep take 615 ms at most: this is all that
keeps the two threads apart, and the code does not check it.

**Only model-checked.** Liveness under fairness is out of the prover's reach:
`FirstMessageArrives`, `SignalEndsProcess`, `EventsAreHandled`, `EveryThreadEnds`,
`EveryRunEnds`. The four properties that are refuted are TLC's as well. Every other
invariant and action property of the runs is stated by a theorem.

## 5. Not modelled

- *Numbers*: the rounding of floats in the network; what `calculate_cpu_usage` and
  `get_memory_usage` make of a reading (`perf_monitor.c:74-99`) and what a measurement
  of the extractor consists of (`get_feature.cpp:120-228`), pure functions.
- *Texts* beyond lengths and line kinds.
- *Usage files* of the collector: what they hold and their names (`collect.c:191`). Two
  threads that open one csv at once are modelled only up to their file being nobody's.
- *The pointers of a chain*: a chain is a sequence, so which nodes a sweep keeps is
  modelled, the assignments to `prev` and `next` that unlink the others
  (`receive.c:159-168`) are not.
- *Failure paths of `main` before its loop*, in both programs: they return before a
  second thread exists. The `usleep` intervals.
- *The environment*: several CPUs' perf buffers, merged into one sequence; a wall clock
  that is set back.
- *Dead code*: `parse_event` (`events` is always NULL in both programs),
  `get_latest_performance_data`.
- *`head.h` of the extractor* is not in the repository: of its functions only whether
  they succeed and that they return is assumed.
- *Training*: floating-point optimisation and random sampling, out of TLC's reach;
  `load_data` and `script.py`, sequential file handling.
- *`run_sample.sh`* does not parse as committed; what it is meant to do to the
  collector, ending it by a signal at any time, is `Return` of CollectData.
  *`rename.py`* is one sequential loop, run by hand.
- *Generated files*: `vmlinux.h` and the skeletons (nearly all of the repository's
  lines) come from bpftool; the makefiles hold no logic.

## 6. Plan

The model is complete as far as section 5 allows, and every safety property that the
passing runs check is proved. What is left would say more rather than check more:
*which messages are lost*. Delivery allows any message but the first to be lost; the
code loses those whose beginning is read behind something else, and those it cannot
store.
