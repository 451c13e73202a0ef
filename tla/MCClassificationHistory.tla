----------------------- MODULE MCClassificationHistory -----------------------
(* Classification with the texts of the node as they were received, before *)
(* the scan cut them.                                                      *)
EXTENDS MCClassification

VARIABLE received

HistoryInit == Init /\ received = <<>>

HistoryNext ==
  /\ Next
  /\ received' = CASE Len(texts') > Len(texts) -> Append(received, Last(texts'))
                   [] texts' = <<>>            -> <<>>
                   [] OTHER                    -> received

HistorySpec == HistoryInit /\ [][HistoryNext]_<<classificationVars, received>>

(* The numbers of the rows received, from as many texts as are scanned and *)
(* as many as fit.                                                         *)
Numbers ==
  LET skipped == IF Len(received) > MAX_ROWS THEN Len(received) - MAX_ROWS ELSE 0
      Gather(numbers, text) == numbers \o ValuesOf(text, INPUT_DIM - Len(numbers))
  IN  FoldLeft(Gather, <<>>, SubSeq(received, skipped + 1, Len(received)))

(* "Use all accumulated data" (receive.c:207), "classifies the performance *)
(* data" (readme.md:106): the network is run on the numbers of the stored  *)
(* messages, in their order; so if one of them was not 0, its input is not *)
(* the zero vector.                                                        *)
InputHasSamples ==
  ~ scanning => \A k \in DOMAIN Numbers : input[k] = Numbers[k]
=============================================================================
