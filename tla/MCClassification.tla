-------------------------- MODULE MCClassification --------------------------
(* Two networks whose layers are neither square nor symmetric, and every   *)
(* text a read of up to five lines can return.                             *)
EXTENDS Classification

Weight(outs, ins, f(_, _)) == [on \in (1 .. outs) \X (1 .. ins) |-> f(on[1], on[2])]

ModelOf(f(_, _), bias) ==
  [ w1 |-> Weight(HIDDEN1_DIM, INPUT_DIM, f), b1 |-> [o \in 1 .. HIDDEN1_DIM |-> o * bias],
    w2 |-> Weight(HIDDEN2_DIM, HIDDEN1_DIM, f), b2 |-> [o \in 1 .. HIDDEN2_DIM |-> o],
    w3 |-> Weight(OUTPUT_DIM, HIDDEN2_DIM, f), b3 |-> [o \in 1 .. OUTPUT_DIM |-> bias - o] ]

MCModels == {ModelOf(LAMBDA o, n : 2 * o - n, 1), ModelOf(LAMBDA o, n : n - o * n, -1)}

MCTexts ==
  UNION {[1 .. n -> {Header, Event} \cup {Row(v) : v \in 0 .. MODULUS - 1}] : n \in 1 .. 5}
=============================================================================
