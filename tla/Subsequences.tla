---------------------------- MODULE Subsequences ----------------------------
(***************************************************************************)
(* The elements of a sequence that are in a set, in their order: what      *)
(* SelectSeq gives for a test, with the recursion as a function that can   *)
(* be reasoned about.                                                      *)
(***************************************************************************)
EXTENDS Integers, Sequences

\* i -> the elements of S among the first i of s.
Kept(s, S) ==
  LET kept[i \in 0..Len(s)] == IF i = 0 THEN <<>>
                               ELSE IF s[i] \in S THEN Append(kept[i - 1], s[i])
                               ELSE kept[i - 1]
  IN  kept

Only(s, S) == Kept(s, S)[Len(s)]
=============================================================================
