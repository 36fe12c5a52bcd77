------------------------------ MODULE Numbers -------------------------------
(***************************************************************************)
(* How many members of a set are at certain places: the vocabulary of the  *)
(* proofs about counters that several processes raise or wait for.         *)
(***************************************************************************)
EXTENDS Naturals, FiniteSets

\* A condition as a number.
One(b) == IF b THEN 1 ELSE 0

\* How many members of S are at one of the places in L.
At(f, S, L)     == {s \in S : f[s] \in L}
Number(f, S, L) == Cardinality(At(f, S, L))

\* From f to g, nobody in S moves but x.
Moves(x, f, g, S) == \A s \in S \ {x} : g[s] = f[s]

\* What the proofs use of finite sets, proved where it is used.  Most lemmas take
\* it as an assumption, which keeps the library's theorems out of their way.
Counts ==
    /\ \A S, L, f : IsFiniteSet(S) => /\ Number(f, S, L) \in Nat /\ Cardinality(S) \in Nat
                                      /\ Number(f, S, L) <= Cardinality(S)
    /\ \A S, L, f, g, x : /\ IsFiniteSet(S) /\ x \in S /\ Moves(x, f, g, S)
                          /\ g[x] \in L /\ f[x] \notin L
                          => Number(g, S, L) = Number(f, S, L) + 1
    /\ \A S, x : IsFiniteSet(S) => IsFiniteSet(S \cup {x})
    /\ Cardinality({}) = 0
=============================================================================
