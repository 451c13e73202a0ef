------------------------------ MODULE Inference ------------------------------
(***************************************************************************)
(* The inference half of add_data_to_pid (receive.c) for the node of one   *)
(* PID: every message the pipe yields is stored if it begins with a header *)
(* and then all stored texts are scanned for the input of the network.     *)
(*                                                                         *)
(* A text is a sequence of lines: a header line has "[PID:", an event line *)
(* the name of an event, a row line begins with "  [nn] value", and value  *)
(* is the first number on it.  The scan is one step per stored text.       *)
(***************************************************************************)
EXTENDS Network

CONSTANTS
  Texts,          (* what a read() of the pipe can return                 *)
  COLS_PER_ROW,   (* values taken from one text at most, 4                *)
  MAX_ROWS,       (* texts scanned at most, 90                            *)
  MAX_MESSAGES    (* bound on the texts stored                            *)

Header == [kind |-> "header", value |-> 0]
Event == [kind |-> "event", value |-> 0]
Row(v) == [kind |-> "row", value |-> v]

Line == [kind : {"header", "event", "row"}, value : Nat]

ASSUME InferenceAssumption ==
  /\ Texts \subseteq Seq(Line) \ {<<>>}
  /\ COLS_PER_ROW \in Nat
  /\ MAX_ROWS \in Nat \ {0}
  /\ MAX_MESSAGES \in Nat

VARIABLES
  texts,          (* data of the node                                      *)
  i,              (* the text the scan is at                               *)
  found,          (* accumulated_data, as far as valid_values              *)
  scanning,
  input           (* what forward was last called with, <<>> before that   *)

inferenceVars == <<texts, i, found, scanning, input>>

InferenceInit ==
  /\ texts = <<>>
  /\ i = 0
  /\ found = <<>>
  /\ scanning = FALSE
  /\ input = <<>>

IsHeader(line) == line.kind = "header"

IsRow(line) == line.kind = "row"

(* A receiver that files every read under some PID.                        *)
AcceptsAny(text) == TRUE

(* sscanf(buffer, "[PID: %u]", &pid) == 1                                  *)
Accepts(text) == IsHeader(text[1])

Receive(text) ==
  /\ ~ scanning /\ Len(texts) < MAX_MESSAGES
  /\ Accepts(text)
  /\ texts' = Append(texts, text)
  /\ i' = IF Len(texts') > MAX_ROWS THEN Len(texts') - MAX_ROWS + 1 ELSE 1
  /\ found' = <<>>
  /\ scanning' = TRUE
  /\ UNCHANGED input

Least(m, n) == IF m <= n THEN m ELSE n

(* The first number of every row line, as many as fit.                     *)
ValuesOf(text, room) ==
  LET rows == SelectSeq(text, IsRow)
  IN  [k \in 1 .. Least(Len(rows), Least(COLS_PER_ROW, room)) |-> rows[k].value]

(* One round of the scan.  strtok cuts the stored text after its first     *)
(* line; a text whose first line is a header is skipped.                   *)
Scan ==
  /\ scanning /\ i <= Len(texts) /\ Len(found) < INPUT_DIM
  /\ texts' = [texts EXCEPT ![i] = <<@[1]>>]
  /\ found' = IF IsHeader(texts[i][1]) THEN found
              ELSE found \o ValuesOf(texts[i], INPUT_DIM - Len(found))
  /\ i' = i + 1
  /\ UNCHANGED <<scanning, input>>

(* The filling loop ends one element late.                                 *)
ClassifyLong ==
  /\ scanning /\ (i > Len(texts) \/ Len(found) >= INPUT_DIM)
  /\ input' = [k \in 1 .. INPUT_DIM + 1 |-> IF k <= Len(found) THEN found[k] ELSE 0]
  /\ scanning' = FALSE
  /\ UNCHANGED <<texts, i, found>>

(* The rest of the input is filled with zeros, and forward runs.           *)
Classify ==
  /\ scanning /\ (i > Len(texts) \/ Len(found) >= INPUT_DIM)
  /\ input' = [k \in 1 .. INPUT_DIM |-> IF k <= Len(found) THEN found[k] ELSE 0]
  /\ scanning' = FALSE
  /\ UNCHANGED <<texts, i, found>>

(* cleanup_old_data frees the node.                                        *)
Expire ==
  /\ ~ scanning
  /\ texts' = <<>>
  /\ UNCHANGED <<i, found, scanning, input>>

InferenceNext == Scan \/ Classify \/ Expire \/ \E text \in Texts : Receive(text)

InferenceSpec == InferenceInit /\ [][InferenceNext]_inferenceVars

-----------------------------------------------------------------------------
InferenceTypeOK ==
  /\ texts \in Seq(Seq(Line) \ {<<>>})
  /\ i \in Nat
  /\ found \in Seq(Nat)
  /\ Len(found) <= INPUT_DIM
  /\ scanning \in BOOLEAN
  /\ input \in {<<>>} \cup [1 .. INPUT_DIM -> Nat]

(* A stored text always begins with the header it was accepted for, and    *)
(* the scan skips texts that do: the network is only ever run on the zero  *)
(* vector, and every process gets the same label.                          *)
InputIsZero == input # <<>> => \A k \in 1 .. INPUT_DIM : input[k] = 0
=============================================================================
