------------------------------ MODULE Network ------------------------------
(***************************************************************************)
(* The network: load_weights and forward of receive.c, and what they have  *)
(* to agree with, the network that train.py trained and saved.  Floats are *)
(* integers here, so that only the layout of the weights counts; arrays    *)
(* begin at 1.                                                             *)
(***************************************************************************)
EXTENDS Integers, Sequences

CONSTANTS
  INPUT_DIM,      (* 40  *)
  HIDDEN1_DIM,    (* 128 *)
  HIDDEN2_DIM,    (* 64  *)
  OUTPUT_DIM      (* 2   *)

ASSUME NetworkAssumption ==
  /\ {INPUT_DIM, HIDDEN1_DIM, HIDDEN2_DIM, OUTPUT_DIM} \subseteq Nat \ {0}
  /\ OUTPUT_DIM >= 2

-----------------------------------------------------------------------------
(* receive.c                                                               *)

relu(x) == IF x > 0 THEN x ELSE 0

(* An index that takes the matrix for its transpose.                       *)
ByColumns(i, j, rows, cols) == (j - 1) * rows + i

At(i, j, rows, cols) == (i - 1) * cols + j

(* What adding one number of s after another comes to.                     *)
SumOf(s) ==
  LET sum[j \in 0 .. Len(s)] == IF j = 0 THEN 0 ELSE sum[j - 1] + s[j]
  IN  sum[Len(s)]

matmul(matrix, vector, rows, cols) ==
  [i \in 1 .. rows |->
     SumOf([j \in 1 .. cols |-> matrix[At(i, j, rows, cols)] * vector[j]])]

(* The elements each fread asks for, in the order of the calls.            *)
Reads ==
  << INPUT_DIM * HIDDEN1_DIM, HIDDEN1_DIM,
     HIDDEN1_DIM * HIDDEN2_DIM, HIDDEN2_DIM,
     HIDDEN2_DIM * OUTPUT_DIM, OUTPUT_DIM >>

ReadBefore(k) == SumOf(SubSeq(Reads, 1, k - 1))

WeightCount == ReadBefore(7)

Unloaded == <<>>

(* The six arrays, or none if the file is too short; what a longer file    *)
(* has beyond them is not read.                                            *)
load_weights(file) ==
  IF Len(file) < WeightCount THEN Unloaded
  ELSE [k \in 1 .. 6 |-> SubSeq(file, ReadBefore(k) + 1, ReadBefore(k) + Reads[k])]

Plus(x, y) == [i \in DOMAIN x |-> x[i] + y[i]]

Relued(x) == [i \in DOMAIN x |-> relu(x[i])]

forward(net, input) ==
  LET hidden1 == Relued(Plus(matmul(net[1], input, HIDDEN1_DIM, INPUT_DIM), net[2]))
      hidden2 == Relued(Plus(matmul(net[3], hidden1, HIDDEN2_DIM, HIDDEN1_DIM), net[4]))
  IN  Plus(matmul(net[5], hidden2, OUTPUT_DIM, HIDDEN2_DIM), net[6])

Prediction(output) == IF output[1] > output[2] THEN 0 ELSE 1

-----------------------------------------------------------------------------
(* train.py                                                                *)

(* A trained layer has a weight per pair of output and input and a bias    *)
(* per output.                                                             *)
Weights(outs, ins) == [(1 .. outs) \X (1 .. ins) -> Int]
Biases(outs) == [1 .. outs -> Int]

Trained ==
  [ w1 : Weights(HIDDEN1_DIM, INPUT_DIM),   b1 : Biases(HIDDEN1_DIM),
    w2 : Weights(HIDDEN2_DIM, HIDDEN1_DIM), b2 : Biases(HIDDEN2_DIM),
    w3 : Weights(OUTPUT_DIM, HIDDEN2_DIM),  b3 : Biases(OUTPUT_DIM) ]

(* flatten() goes row by row.                                              *)
Flattened(weight, outs, ins) ==
  [k \in 1 .. outs * ins |-> weight[<<(k - 1) \div ins + 1, ((k - 1) % ins) + 1>>]]

Saved(model) ==
  Flattened(model.w1, HIDDEN1_DIM, INPUT_DIM) \o model.b1
    \o Flattened(model.w2, HIDDEN2_DIM, HIDDEN1_DIM) \o model.b2
    \o Flattened(model.w3, OUTPUT_DIM, HIDDEN2_DIM) \o model.b3

Linear(weight, bias, x) ==
  [o \in DOMAIN bias |->
     SumOf([n \in DOMAIN x |-> weight[<<o, n>>] * x[n]]) + bias[o]]

DQN(model, x) ==
  Linear(model.w3, model.b3,
         Relued(Linear(model.w2, model.b2, Relued(Linear(model.w1, model.b1, x)))))

(* argmax() of two outputs, the first of equal ones.                       *)
Argmax(output) == IF output[1] >= output[2] THEN 0 ELSE 1
=============================================================================
