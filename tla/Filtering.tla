------------------------------- MODULE Filtering -------------------------------
(***************************************************************************)
(* The members of a sequence that are in a set, in their order: what the    *)
(* code writes as `.filter(...)`.  SelectSeq says the same of an operator;   *)
(* of a set, facts about every sequence can be proved (FilteringProofs).    *)
(***************************************************************************)
EXTENDS Integers, Sequences

Filter(s, S) ==
  LET kept[i \in 0 .. Len(s)] ==
        IF i = 0 THEN << >>
        ELSE IF s[i] \in S THEN Append(kept[i - 1], s[i]) ELSE kept[i - 1]
  IN  kept[Len(s)]
=============================================================================
