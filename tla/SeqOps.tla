------------------------------- MODULE SeqOps -------------------------------
(***************************************************************************)
(* Operators on sequences, each a loop over the elements.  They are        *)
(* SelectSeq and FoldLeft for a set, a sum and a concatenation: as         *)
(* recursive functions without an operator for a parameter they can be     *)
(* reasoned about (SeqFacts).                                              *)
(***************************************************************************)
EXTENDS Integers, Sequences

\* The elements of s that are in S, in their order.
Keep(s, S) ==
  LET kept[i \in 0 .. Len(s)] ==
        IF i = 0 THEN <<>>
        ELSE IF s[i] \in S THEN Append(kept[i - 1], s[i]) ELSE kept[i - 1]
  IN  kept[Len(s)]

\* The sum of a sequence of numbers.
Total(s) ==
  LET sum[i \in 0 .. Len(s)] == IF i = 0 THEN 0 ELSE sum[i - 1] + s[i]
  IN  sum[Len(s)]

\* The elements of the sequences in ss, one after another.
Joined(ss) ==
  LET all[i \in 0 .. Len(ss)] == IF i = 0 THEN <<>> ELSE all[i - 1] \o ss[i]
  IN  all[Len(ss)]
=============================================================================
