------------------------------ MODULE SetFacts ------------------------------
(***************************************************************************)
(* What the proofs about the offline tools use of finite sets and numbers.  *)
(* The lemmas about a single tool have these formulas as hypotheses, and    *)
(* OfflineTools_proofs, which puts the tools together, derives them from    *)
(* the theorems of the library: the library's theorems are needed there     *)
(* only.                                                                    *)
(***************************************************************************)
EXTENDS Integers, FiniteSets

\* The workers of a pool: one joins them, or one leaves.
PoolFacts ==
    /\ IsFiniteSet({}) /\ Cardinality({}) = 0
    /\ \A S, x : IsFiniteSet(S) =>
          /\ Cardinality(S) \in Nat /\ IsFiniteSet(S \cup {x}) /\ IsFiniteSet(S \ {x})
          /\ Cardinality(S \cup {x}) \in {Cardinality(S), Cardinality(S) + 1}
          /\ Cardinality(S \ {x}) \in {Cardinality(S), Cardinality(S) - 1}

\* The tiles of a map: their largest coordinate, and the number of their files.
TileFacts ==
    /\ \A T \in SUBSET (0 .. 99) : T # {} => \E x \in T : \A y \in T : y <= x
    /\ \A S \in SUBSET ((0 .. 99) \X (0 .. 99)) : \A id : \A F \in SUBSET ({id} \X S) :
          Cardinality(S) \in Nat /\ Cardinality(F) <= Cardinality(S)

\* The elements of a list are finitely many, and one of them is the first.
ListFacts ==
    /\ \A S : \A n \in Nat : \A f \in [1 .. n -> S] :
          (\A x \in S : \E i \in 1 .. n : f[i] = x) => IsFiniteSet(S)
    /\ \A T \in SUBSET Nat : T # {} => \E x \in T : \A y \in T : x <= y

\* The spawns below one of them.
SubsetFacts ==
    \A S : IsFiniteSet(S) =>
        /\ Cardinality(S) \in Nat
        /\ \A T \in SUBSET S : /\ IsFiniteSet(T) /\ Cardinality(T) <= Cardinality(S)
                               /\ Cardinality(S) = Cardinality(T) => S = T
=============================================================================
