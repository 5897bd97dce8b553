----------------------------- MODULE MCAlgorithms -----------------------------
(***************************************************************************)
(* The pure algorithms next to each other: a behaviour updates one bitmap, *)
(* or stores and loads one input through one filter configuration.         *)
(***************************************************************************)
EXTENDS Bitmap, Filters

NoFilter == [typesize |-> 0, delta |-> FALSE, shuffle |-> FALSE, bitshuffle |-> FALSE]

MCConfigs == [typesize : {0} \cup Typesizes \cup {3}, delta : BOOLEAN,
              shuffle : BOOLEAN, bitshuffle : BOOLEAN]

\* Short data over every byte; data longer than a word over three bytes; and
\* data longer than two elements of the largest size with two bytes set.
MCInputs ==
  LET top == 2^W - 1
      sparse == {[k \in 0 .. 8 |-> IF k = i THEN v ELSE IF k = j THEN u ELSE 0] :
                   i, j \in 0 .. 8, u, v \in {1, top}}
  IN  UNION {[0 .. n - 1 -> 0 .. top] : n \in 0 .. 2}
      \cup [0 .. W -> {0, 6, top}] \cup sparse

Init == \/ BInit /\ input = Absent /\ config = NoFilter /\ stored = Absent /\ loaded = Absent
        \/ FInit /\ bytes = EmptyBitmap(0) /\ used = {}

Next == \/ input = Absent /\ BNext /\ UNCHANGED fvars
        \/ FNext /\ UNCHANGED bvars

Spec == Init /\ [][Next]_<<bvars, fvars>>
==============================================================================
