----------------------------- MODULE SumTheorems -----------------------------
(***************************************************************************)
(* Facts about the sum of the count of the rows of a finite set, which     *)
(* StockStore and StockLedger write as a fold.                             *)
(*                                                                         *)
(* The fold is a recursive function of the subsets of the set.  Induction  *)
(* is by a smallest counterexample: Smallest says that strict inclusion is *)
(* well founded on the subsets of a finite set.  FoldExists shows that the *)
(* recursion defines a function, and TotalRemove that the sum does not       *)
(* depend on the order in which the fold picks the rows.                   *)
(***************************************************************************)
EXTENDS Integers, FiniteSets, FiniteSetsExt, FiniteSetTheorems, TLAPS

\* The sum of the counts of some rows.
Total(rows) == MapThenSumSet(LAMBDA r : r.count, rows)

Counted(rows) == IsFiniteSet(rows) /\ \A r \in rows : r.count \in Nat

-----------------------------------------------------------------------------
(* The fold.                                                               *)

Pick(s) == CHOOSE x \in s : TRUE
Rest(s) == s \ {Pick(s)}

IsFold(f, S) ==
    f = [s \in SUBSET S |-> IF s = {} THEN 0 ELSE Pick(s).count + f[Rest(s)]]

Fold(S) == CHOOSE f : IsFold(f, S)

\* What the operators of the community modules come to.
LEMMA TotalIsFold ==
    ASSUME NEW S
    PROVE  Total(S) = Fold(S)[S]
BY DEF Total, Pick, Rest, IsFold, Fold, MapThenSumSet, MapThenFoldSet

\* The fold goes on with a smaller set.
LEMMA RestFacts ==
    ASSUME NEW S, S # {}
    PROVE  /\ Pick(S) \in S /\ Rest(S) \subseteq S /\ Rest(S) # S
           /\ S = Rest(S) \cup {Pick(S)} /\ Pick(S) \notin Rest(S)
BY DEF Pick, Rest

\* Among some subsets of a finite set there is a smallest one.
LEMMA Smallest ==
    ASSUME NEW S, IsFiniteSet(S), NEW T \in SUBSET (SUBSET S), T # {}
    PROVE  \E U \in T : \A V \in SUBSET U : V # U => V \notin T
<1>1. IsWellFoundedOn(StrictSubsetOrdering(S), SUBSET S)
  BY FS_StrictSubsetOrderingWellFounded, FS_FiniteSubsetsOfFinite
<1>2. PICK U \in T : \A V \in T : <<V, U>> \notin StrictSubsetOrdering(S)
  BY <1>1, WFMin
<1>3. ASSUME NEW V \in SUBSET U, V # U, V \in T
      PROVE  FALSE
  BY <1>2, <1>3 DEF StrictSubsetOrdering
<1>. QED
  BY <1>3

\* Two folds agree on what they are both defined for.
LEMMA FoldsAgree ==
    ASSUME NEW S, IsFiniteSet(S), NEW A, NEW B, S \subseteq A, S \subseteq B,
           NEW f, NEW g, IsFold(f, A), IsFold(g, B)
    PROVE  f[S] = g[S]
<1>. DEFINE T == {U \in SUBSET S : f[U] # g[U]}
<1>1. SUFFICES ASSUME T # {}
               PROVE  FALSE
  OBVIOUS
<1>. /\ T \in SUBSET (SUBSET S)
     /\ \A U \in SUBSET S : U \in T <=> f[U] # g[U]
  OBVIOUS
<1>. HIDE DEF T
<1>2. PICK U \in T : \A V \in SUBSET U : V # U => V \notin T
  BY <1>1, Smallest
<1>3. \A V \in SUBSET U : V # U => f[V] = g[V]
  BY <1>2
<1>4. /\ f[U] = IF U = {} THEN 0 ELSE Pick(U).count + f[Rest(U)]
      /\ g[U] = IF U = {} THEN 0 ELSE Pick(U).count + g[Rest(U)]
  BY DEF IsFold
<1>5. U # {} => f[Rest(U)] = g[Rest(U)]
  BY <1>3, RestFacts
<1>. QED
  BY <1>2, <1>4, <1>5

\* The recursion defines a function on the subsets of every finite set.
LEMMA FoldExists ==
    ASSUME NEW S, IsFiniteSet(S)
    PROVE  IsFold(Fold(S), S)
<1>. DEFINE T == {U \in SUBSET S : ~IsFold(Fold(U), U)}
<1>1. SUFFICES ASSUME T # {}
               PROVE  FALSE
  OBVIOUS
<1>. /\ T \in SUBSET (SUBSET S)
     /\ \A U \in SUBSET S : U \in T <=> ~IsFold(Fold(U), U)
  OBVIOUS
<1>. HIDE DEF T
<1>2. PICK U \in T : \A V \in SUBSET U : V # U => V \notin T
  BY <1>1, Smallest
<1>3. U \subseteq S /\ IsFiniteSet(U) /\ ~IsFold(Fold(U), U)
  BY <1>2, FS_Subset
<1>4. \A V \in SUBSET U : V # U => IsFold(Fold(V), V)
  BY <1>2, <1>3
<1>. DEFINE h == [V \in SUBSET U |->
                    IF V = {} THEN 0 ELSE Pick(V).count + Fold(Rest(V))[Rest(V)]]
<1>5. ASSUME NEW V \in SUBSET U, V # {}
      PROVE  h[Rest(V)] = Fold(Rest(V))[Rest(V)]
  <2>. DEFINE W == Rest(V)
  <2>1. W \in SUBSET U /\ W # U
    BY <1>5, RestFacts
  <2>2. IsFold(Fold(W), W) /\ IsFiniteSet(W)
    BY <1>3, <1>4, <2>1, FS_Subset
  <2>3. h[W] = IF W = {} THEN 0 ELSE Pick(W).count + Fold(Rest(W))[Rest(W)]
    BY <2>1
  <2>4. Fold(W)[W] = IF W = {} THEN 0 ELSE Pick(W).count + Fold(W)[Rest(W)]
    BY <2>2 DEF IsFold
  <2>5. ASSUME W # {}
        PROVE  Fold(W)[Rest(W)] = Fold(Rest(W))[Rest(W)]
    <3>1. Rest(W) \subseteq W /\ Rest(W) # U /\ Rest(W) \in SUBSET U
      BY <2>1, <2>5, RestFacts
    <3>2. IsFold(Fold(Rest(W)), Rest(W)) /\ IsFiniteSet(Rest(W))
      BY <1>4, <2>2, <3>1, FS_Subset
    <3>. QED
      BY <2>2, <3>1, <3>2, FoldsAgree
  <2>. QED
    BY <2>3, <2>4, <2>5
<1>6. IsFold(h, U)
  <2>1. \A V \in SUBSET U :
           h[V] = IF V = {} THEN 0 ELSE Pick(V).count + h[Rest(V)]
    BY <1>5
  <2>2. h = [V \in SUBSET U |-> h[V]]
    OBVIOUS
  <2>. HIDE DEF h
  <2>. QED
    BY <2>1, <2>2 DEF IsFold
<1>. HIDE DEF h
<1>7. IsFold(Fold(U), U)
  BY <1>6 DEF Fold
<1>. QED
  BY <1>3, <1>7

-----------------------------------------------------------------------------
(* The sum.                                                                *)

LEMMA CountedSubset ==
    ASSUME NEW S, Counted(S), NEW U \in SUBSET S
    PROVE  Counted(U)
BY FS_Subset DEF Counted

\* The recursion of the fold, as one of the sum.
LEMMA TotalStep ==
    ASSUME NEW S, IsFiniteSet(S)
    PROVE  /\ S = {} => Total(S) = 0
           /\ S # {} => Total(S) = Pick(S).count + Total(Rest(S))
<1>1. IsFold(Fold(S), S)
  BY FoldExists
<1>2. Fold(S)[S] = IF S = {} THEN 0 ELSE Pick(S).count + Fold(S)[Rest(S)]
  BY <1>1 DEF IsFold
<1>3. ASSUME S # {}
      PROVE  Fold(S)[Rest(S)] = Fold(Rest(S))[Rest(S)]
  <2>1. Rest(S) \subseteq S /\ IsFiniteSet(Rest(S))
    BY <1>3, RestFacts, FS_Subset
  <2>2. IsFold(Fold(Rest(S)), Rest(S))
    BY <2>1, FoldExists
  <2>. QED
    BY <1>1, <2>1, <2>2, FoldsAgree
<1>4. Total(S) = Fold(S)[S] /\ Total(Rest(S)) = Fold(Rest(S))[Rest(S)]
  BY TotalIsFold
<1>. QED
  BY <1>2, <1>3, <1>4

\* A sum of counts is a natural number.
LEMMA TotalType ==
    ASSUME NEW S, Counted(S)
    PROVE  Total(S) \in Nat
<1>. DEFINE T == {U \in SUBSET S : Total(U) \notin Nat}
<1>1. SUFFICES ASSUME T # {}
               PROVE  FALSE
  OBVIOUS
<1>. /\ T \in SUBSET (SUBSET S)
     /\ \A U \in SUBSET S : U \in T <=> Total(U) \notin Nat
  OBVIOUS
<1>. HIDE DEF T
<1>2. PICK U \in T : \A V \in SUBSET U : V # U => V \notin T
  BY <1>1, Smallest DEF Counted
<1>3. U \subseteq S /\ Counted(U) /\ Total(U) \notin Nat
  BY CountedSubset
<1>4. CASE U = {}
  BY <1>3, <1>4, TotalStep DEF Counted
<1>5. CASE U # {}
  <2>1. Total(U) = Pick(U).count + Total(Rest(U))
    BY <1>3, <1>5, TotalStep DEF Counted
  <2>2. Pick(U).count \in Nat /\ Total(Rest(U)) \in Nat
    BY <1>2, <1>3, <1>5, RestFacts DEF Counted
  <2>. QED
    BY <1>3, <2>1, <2>2
<1>. QED
  BY <1>4, <1>5

\* Whichever row is taken away, the sum is less by its count.
LEMMA TotalRemove ==
    ASSUME NEW S, Counted(S), NEW y \in S
    PROVE  Total(S) = y.count + Total(S \ {y})
<1>. DEFINE Bad(U) == \E z \in U : Total(U) # z.count + Total(U \ {z})
            T == {U \in SUBSET S : Bad(U)}
<1>1. SUFFICES ASSUME T # {}
               PROVE  FALSE
  OBVIOUS
<1>. /\ T \in SUBSET (SUBSET S)
     /\ \A U \in SUBSET S : U \in T <=> Bad(U)
  OBVIOUS
<1>. HIDE DEF T
<1>2. PICK U \in T : \A V \in SUBSET U : V # U => V \notin T
  BY <1>1, Smallest DEF Counted
<1>3. PICK z \in U : Total(U) # z.count + Total(U \ {z})
  OBVIOUS
<1>4. \A V \in SUBSET U : V # U => ~Bad(V)
  BY <1>2
<1>. DEFINE x == Pick(U)
<1>5. /\ U \subseteq S /\ Counted(U) /\ x \in U
      /\ Rest(U) = U \ {x} /\ x.count \in Nat /\ z.count \in Nat
      /\ Total(U) = x.count + Total(U \ {x})
  BY CountedSubset, RestFacts, TotalStep DEF Counted, Rest
<1>. HIDE DEF x
<1>6. z # x
  BY <1>3, <1>5
<1>7. Total(U \ {x}) = z.count + Total((U \ {x}) \ {z})
  <2>1. U \ {x} \in SUBSET U /\ U \ {x} # U /\ z \in U \ {x}
    BY <1>5, <1>6
  <2>. QED
    BY <1>4, <2>1
<1>8. Total(U \ {z}) = x.count + Total((U \ {z}) \ {x})
  <2>1. U \ {z} \in SUBSET U /\ U \ {z} # U /\ x \in U \ {z}
    BY <1>5, <1>6
  <2>. QED
    BY <1>4, <2>1
<1>9. (U \ {x}) \ {z} = (U \ {z}) \ {x}
  OBVIOUS
<1>10. Total((U \ {z}) \ {x}) \in Nat
  BY <1>5, CountedSubset, TotalType
<1>11. Total((U \ {x}) \ {z}) = Total((U \ {z}) \ {x})
  BY <1>9
<1>12. \A k \in Nat : x.count + (z.count + k) = z.count + (x.count + k)
  BY <1>5
<1>13. Total(U) = x.count + (z.count + Total((U \ {z}) \ {x}))
  BY <1>5, <1>7, <1>11
<1>14. Total(U) = z.count + (x.count + Total((U \ {z}) \ {x}))
  BY <1>10, <1>12, <1>13
<1>. QED
  BY <1>3, <1>8, <1>14

\* The sum over two disjoint sets.
LEMMA TotalUnion ==
    ASSUME NEW A, NEW B, Counted(A), Counted(B), A \cap B = {}
    PROVE  Total(A \cup B) = Total(A) + Total(B)
<1>. DEFINE T == {U \in SUBSET B : Total(A \cup U) # Total(A) + Total(U)}
<1>1. SUFFICES ASSUME T # {}
               PROVE  FALSE
  OBVIOUS
<1>. /\ T \in SUBSET (SUBSET B)
     /\ \A U \in SUBSET B : U \in T <=> Total(A \cup U) # Total(A) + Total(U)
  OBVIOUS
<1>. HIDE DEF T
<1>2. PICK U \in T : \A V \in SUBSET U : V # U => V \notin T
  BY <1>1, Smallest DEF Counted
<1>3. /\ U \subseteq B /\ Counted(U) /\ Counted(A \cup U)
      /\ Total(A) \in Nat /\ Total(U) \in Nat
      /\ Total(A \cup U) # Total(A) + Total(U)
  BY CountedSubset, TotalType, FS_Union DEF Counted
<1>4. CASE U = {}
  <2>1. A \cup U = A /\ Total(U) = 0
    BY <1>3, <1>4, TotalStep DEF Counted
  <2>2. Total(A \cup U) = Total(A)
    BY <2>1
  <2>3. \A n \in Nat : n = n + 0
    OBVIOUS
  <2>4. Total(A) = Total(A) + Total(U)
    BY <1>3, <2>1, <2>3
  <2>. QED
    BY <1>3, <2>2, <2>4
<1>5. CASE U # {}
  <2>1. PICK x \in U : TRUE
    BY <1>5
  <2>2. Total(A \cup (U \ {x})) = Total(A) + Total(U \ {x})
    BY <1>2, <1>3
  <2>3. (A \cup U) \ {x} = A \cup (U \ {x})
    BY <1>3
  <2>4. /\ Total(U) = x.count + Total(U \ {x})
        /\ Total(A \cup U) = x.count + Total((A \cup U) \ {x})
    BY <1>3, TotalRemove
  <2>5. x.count \in Nat /\ Total(U \ {x}) \in Nat
    BY <1>3, CountedSubset, TotalType DEF Counted
  <2>6. Total((A \cup U) \ {x}) = Total(A \cup (U \ {x}))
    BY <2>3
  <2>7. \A m, n, k \in Nat : m + (n + k) = n + (m + k)
    OBVIOUS
  <2>8. Total(A \cup U) = x.count + (Total(A) + Total(U \ {x}))
    BY <2>2, <2>4, <2>6
  <2>9. Total(A \cup U) = Total(A) + (x.count + Total(U \ {x}))
    BY <1>3, <2>5, <2>7, <2>8
  <2>. QED
    BY <1>3, <2>4, <2>9
<1>. QED
  BY <1>4, <1>5

\* What is left when some rows are taken away.
LEMMA TotalMinus ==
    ASSUME NEW A, Counted(A), NEW B \in SUBSET A
    PROVE  /\ Total(A \ B) = Total(A) - Total(B)
           /\ Total(B) <= Total(A)
<1>1. Counted(B) /\ Counted(A \ B)
  BY CountedSubset
<1>2. B \cap (A \ B) = {} /\ B \cup (A \ B) = A
  OBVIOUS
<1>3. Total(A) = Total(B) + Total(A \ B)
  BY <1>1, <1>2, TotalUnion
<1>. QED
  BY <1>1, <1>3, TotalType

\* The sums of no row and of one.
LEMMA TotalSmall ==
    /\ Total({}) = 0
    /\ \A r : r.count \in Nat => Total({r}) = r.count
<1>1. Total({}) = 0
  BY FS_EmptySet, TotalStep
<1>2. ASSUME NEW r, r.count \in Nat
      PROVE  Total({r}) = r.count
  <2>1. Counted({r}) /\ {r} \ {r} = {}
    BY <1>2, FS_Singleton DEF Counted
  <2>2. Total({r}) = r.count + Total({})
    BY <2>1, TotalRemove
  <2>. QED
    BY <1>1, <1>2, <2>2
<1>. QED
  BY <1>1, <1>2
=============================================================================
