----------------------------- MODULE Measurement -----------------------------
(***************************************************************************)
(* What the sampling threads of perf_monitor.c measure: each cuts the line *)
(* of /proc/self/stat and then the line of /proc/stat into fields with     *)
(* strtok, whose position in the line is one static variable for all       *)
(* threads of the process.  A token is the line it was cut from and its    *)
(* number there.  Calls of strtok are the steps here; within a call the    *)
(* race on the position could do worse still.                              *)
(***************************************************************************)
EXTENDS Integers, Sequences

CONSTANTS
  Samplers,       (* one per collecting thread                             *)
  FIELDS,         (* of both lines, more than 10                           *)
  UTIME,          (* the number of utime in its line, 14                   *)
  SYSTEM_FIELDS   (* cut from the line of /proc/stat at most, 10           *)

VARIABLES
  position,       (* strtok's: the next token, or NULL                     *)
  at,             (* sampler -> "process", "skip", "open" or "system"     *)
  token,          (* sampler -> the token in its hand, or NULL             *)
  skipped,        (* sampler -> rounds of the skipping loop                *)
  fields,         (* sampler -> the tokens cut from the line of /proc/stat *)
  utime           (* sampler -> what it last took for utime                *)

vars == <<position, at, token, skipped, fields, utime>>

NULL == [line |-> "none", of |-> 0, field |-> 0]

Token(line, t, n) == [line |-> line, of |-> t, field |-> n]

Init ==
  /\ position = NULL
  /\ at = [t \in Samplers |-> "process"]
  /\ token = [t \in Samplers |-> NULL]
  /\ skipped = [t \in Samplers |-> 0]
  /\ fields = [t \in Samplers |-> <<>>]
  /\ utime = [t \in Samplers |-> NULL]

(* strtok(line, " "), and strtok(NULL, " "): wherever the last call of any *)
(* thread stopped.                                                         *)
Cut(t, here) ==
  /\ token' = [token EXCEPT ![t] = here]
  /\ position' = IF here = NULL \/ here.field = FIELDS THEN NULL
                 ELSE [here EXCEPT !.field = @ + 1]

strtok(t, line) == Cut(t, Token(line, t, 1))
strtok_next(t) == Cut(t, position)

(* get_process_cpu_time; a file that cannot be read gives zeros.           *)
OpenProcess(t) ==
  /\ at[t] = "process"
  /\ strtok(t, "self")
  /\ at' = [at EXCEPT ![t] = "skip"]
  /\ skipped' = [skipped EXCEPT ![t] = 0]
  /\ UNCHANGED <<fields, utime>>

ProcessFails(t) ==
  /\ at[t] = "process"
  /\ at' = [at EXCEPT ![t] = "open"]
  /\ utime' = [utime EXCEPT ![t] = NULL]
  /\ UNCHANGED <<position, token, skipped, fields>>

Skip(t) ==
  /\ at[t] = "skip" /\ skipped[t] < UTIME - 1 /\ token[t] # NULL
  /\ strtok_next(t)
  /\ skipped' = [skipped EXCEPT ![t] = @ + 1]
  /\ UNCHANGED <<at, fields, utime>>

(* The token in hand is utime; the next one would be stime.                *)
TakeTimes(t) ==
  /\ at[t] = "skip" /\ (skipped[t] = UTIME - 1 \/ token[t] = NULL)
  /\ utime' = [utime EXCEPT ![t] = token[t]]
  /\ strtok_next(t)
  /\ at' = [at EXCEPT ![t] = "open"]
  /\ UNCHANGED <<skipped, fields>>

(* get_system_cpu_time.                                                    *)
OpenSystem(t) ==
  /\ at[t] = "open"
  /\ \/ strtok(t, "system") /\ at' = [at EXCEPT ![t] = "system"]
     \/ at' = [at EXCEPT ![t] = "process"] /\ UNCHANGED <<position, token>>
  /\ fields' = [fields EXCEPT ![t] = <<>>]
  /\ UNCHANGED <<skipped, utime>>

TakeField(t) ==
  /\ at[t] = "system" /\ token[t] # NULL /\ Len(fields[t]) < SYSTEM_FIELDS
  /\ fields' = [fields EXCEPT ![t] = Append(@, token[t])]
  /\ strtok_next(t)
  /\ UNCHANGED <<at, skipped, utime>>

(* The sum of fields 2 to 5, if there are as many.                         *)
TakeTotal(t) ==
  /\ at[t] = "system" /\ (token[t] = NULL \/ Len(fields[t]) = SYSTEM_FIELDS)
  /\ at' = [at EXCEPT ![t] = "process"]
  /\ UNCHANGED <<position, token, skipped, fields, utime>>

Measure(t) ==
  \/ OpenProcess(t) \/ ProcessFails(t) \/ Skip(t) \/ TakeTimes(t)
  \/ OpenSystem(t) \/ TakeField(t) \/ TakeTotal(t)

Next == \E t \in Samplers : Measure(t)

Spec == Init /\ [][Next]_vars

-----------------------------------------------------------------------------
(* "skip to utime" (perf_monitor.c:34): what a sampler takes for utime is  *)
(* the utime of the line it has read itself.                               *)
ReadsOwnUtime ==
  \A t \in Samplers : utime[t] \in {NULL, Token("self", t, UTIME)}
=============================================================================
