------------------------------ MODULE Selection ------------------------------
(***************************************************************************)
(* Selecting from a sequence, and listing a set of numbers.  SelectSeq of  *)
(* the module Sequences and the sorting of the module TLC cannot be        *)
(* reasoned about; the definitions here compute the same, and what they    *)
(* compute is proved for every sequence and set in EngineProofs and        *)
(* ResumeProofs.                                                          *)
(***************************************************************************)
EXTENDS Naturals, Sequences, FiniteSets

\* The elements of sequence s that are in the set T, in their order.
Where(s, T) ==
  LET kept[n \in 0 .. Len(s)] ==
        IF n = 0 THEN <<>>
        ELSE IF s[n] \in T THEN Append(kept[n - 1], s[n]) ELSE kept[n - 1]
  IN  kept[Len(s)]

\* The elements that pass a test.
Select(s, Test(_)) == Where(s, {x \in {s[k] : k \in DOMAIN s} : Test(x)})

\* The numbers of a set in their order.
InOrder(S) == [n \in 1 .. Cardinality(S) |-> CHOOSE i \in S : Cardinality({j \in S : j < i}) = n - 1]
=============================================================================
