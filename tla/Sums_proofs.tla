---------------------------- MODULE Sums_proofs ----------------------------
(***************************************************************************)
(* Facts about the sums of the community module Functions. The code adds   *)
(* up the amounts of sets of rows, in whatever order the database returns  *)
(* them: the amounts allocated to an invoice or a bank line                *)
(* (PaymentAllocationRepository.sum_allocated_for_invoice and              *)
(* sum_allocated_for_transaction), what is left of the layers of an item   *)
(* (WarehouseDocumentService._consume_fifo). SumFunctionOnSet is defined   *)
(* by CHOOSE, one element of the set after the other. What is proved of it *)
(* here, by induction over the subsets of a finite set, is that the order  *)
(* does not matter, what a sum becomes when a row is added, removed or     *)
(* changed, and that a queue of rows that give in turn gives what is       *)
(* needed.                                                                 *)
(***************************************************************************)
EXTENDS Integers, FiniteSets, Functions, FiniteSetTheorems, WellFoundedInduction, TLAPS

-----------------------------------------------------------------------------
(* Induction over the subsets of a finite set *)

\* A set of subsets of a finite set has a minimal element.
LEMMA FiniteMinimum ==
  ASSUME NEW S, IsFiniteSet(S), NEW F \in SUBSET (SUBSET S), F # {}
  PROVE  \E T \in F : \A U \in F : U \subseteq T => U = T
<1>1. IsWellFoundedOn(StrictSubsetOrdering(S), SUBSET S)
  BY FS_FiniteSubsetsOfFinite, FS_StrictSubsetOrderingWellFounded
<1>2. PICK T \in F : \A U \in F : ~ (<<U, T>> \in StrictSubsetOrdering(S))
  BY <1>1, WFMin
<1> QED
  BY <1>2 DEF StrictSubsetOrdering

\* What holds of the empty set, and is kept when one element is added, holds of
\* a finite set: the induction the sums below need, stated for a set of
\* subsets.
LEMMA SubsetInduction ==
  ASSUME NEW S, IsFiniteSet(S), NEW G \in SUBSET (SUBSET S), {} \in G,
         \A T \in G : \A x \in S \ T : T \union {x} \in G
  PROVE  S \in G
<1> SUFFICES ASSUME S \notin G PROVE FALSE
  OBVIOUS
<1> DEFINE F == {T \in SUBSET S : S \ T \in G}
<1>1. F \in SUBSET (SUBSET S) /\ S \in F
  <2>1. S \ S = {}
    OBVIOUS
  <2> QED
    BY <2>1
<1>2. PICK R \in F : \A U \in F : U \subseteq R => U = R
  <2> HIDE DEF F
  <2> QED
    BY <1>1, FiniteMinimum
<1>3. R # {}
  <2>1. S \ {} = S
    OBVIOUS
  <2> QED
    BY <2>1
<1>4. PICK x \in R : TRUE
  BY <1>3
<1>5. (S \ R) \union {x} \in G
  BY <1>4
<1>6. S \ (R \ {x}) = (S \ R) \union {x}
  BY <1>4
<1>7. R \ {x} \in F
  BY <1>5, <1>6
<1> QED
  BY <1>2, <1>4, <1>7

-----------------------------------------------------------------------------
(* The fold, unrolled *)

\* The element the fold takes first.
Least(s) == CHOOSE x \in s : TRUE

\* It is one of the set.
LEMMA LeastIn == ASSUME NEW s, s # {} PROVE Least(s) \in s
BY DEF Least

\* g is the unrolled sum of f over the subsets of S.
Unrolls(f, g, S) ==
  g = [s \in SUBSET S |-> IF s = {} THEN 0 ELSE f[Least(s)] + g[s \ {Least(s)}]]

\* The fold chooses such a function.
LEMMA SumIsUnrolled ==
  ASSUME NEW f, NEW S
  PROVE  SumFunctionOnSet(f, S) = (CHOOSE g : Unrolls(f, g, S))[S]
BY DEF SumFunctionOnSet, FoldFunctionOnSet, MapThenFoldSet, Unrolls, Least

\* Two unrolled sums agree on what they share.
LEMMA UnrolledAgree ==
  ASSUME NEW f, NEW S, NEW T, IsFiniteSet(S), NEW g, NEW h, Unrolls(f, g, S), Unrolls(f, h, T)
  PROVE  \A s \in SUBSET S : s \in SUBSET T => g[s] = h[s]
<1> DEFINE F == {s \in SUBSET S : s \in SUBSET T /\ g[s] # h[s]}
<1> SUFFICES ASSUME F # {} PROVE FALSE
  OBVIOUS
<1>1. PICK s \in F : \A u \in F : u \subseteq s => u = s
  <2>1. F \in SUBSET (SUBSET S)
    OBVIOUS
  <2> HIDE DEF F
  <2> QED
    BY <2>1, FiniteMinimum
<1>2. /\ g[s] = IF s = {} THEN 0 ELSE f[Least(s)] + g[s \ {Least(s)}]
      /\ h[s] = IF s = {} THEN 0 ELSE f[Least(s)] + h[s \ {Least(s)}]
  BY DEF Unrolls
<1>3. s # {}
  BY <1>2
<1>4. Least(s) \in s
  BY <1>3, LeastIn
<1>5. s \ {Least(s)} \in SUBSET S /\ s \ {Least(s)} \in SUBSET T /\ s \ {Least(s)} \notin F
  BY <1>1, <1>4
<1>6. g[s \ {Least(s)}] = h[s \ {Least(s)}]
  BY <1>5
<1> QED
  BY <1>2, <1>3, <1>6

\* Every finite set has one.
LEMMA UnrolledExists ==
  ASSUME NEW f, NEW S, IsFiniteSet(S)
  PROVE  \E g : Unrolls(f, g, S)
<1> DEFINE F == {s \in SUBSET S : ~ \E g : Unrolls(f, g, s)}
<1> SUFFICES ASSUME F # {} PROVE FALSE
  OBVIOUS
<1>1. PICK s \in F : \A u \in F : u \subseteq s => u = s
  <2>1. F \in SUBSET (SUBSET S)
    OBVIOUS
  <2> HIDE DEF F
  <2> QED
    BY <2>1, FiniteMinimum
<1> DEFINE val(u) == (CHOOSE h : Unrolls(f, h, u))[u]
           g == [u \in SUBSET s |->
                   IF u = {} THEN 0 ELSE f[Least(u)] + val(u \ {Least(u)})]
<1>2. ASSUME NEW u \in SUBSET s, u # s
      PROVE  /\ Unrolls(f, CHOOSE h : Unrolls(f, h, u), u)
             /\ IsFiniteSet(u)
  <2>1. u \notin F /\ u \in SUBSET S
    BY <1>1, <1>2
  <2> QED
    BY <2>1, FS_Subset
<1>3. ASSUME NEW u \in SUBSET s, u # s PROVE g[u] = val(u)
  <2>1. CASE u = {}
    <3>1. Unrolls(f, CHOOSE h : Unrolls(f, h, u), u)
      BY <1>2, <1>3
    <3>2. val(u) = 0
      BY <2>1, <3>1 DEF Unrolls
    <3> QED
      BY <2>1, <3>2
  <2>2. CASE u # {}
    <3> DEFINE v == u \ {Least(u)}
               hu == CHOOSE h : Unrolls(f, h, u)
               hv == CHOOSE h : Unrolls(f, h, v)
    <3>1. Least(u) \in u
      BY <2>2, LeastIn
    <3>2. v \in SUBSET s /\ v # s /\ v \in SUBSET u /\ v \in SUBSET v
      BY <1>3, <3>1
    <3>3. Unrolls(f, hu, u) /\ Unrolls(f, hv, v) /\ IsFiniteSet(u)
      BY <1>2, <1>3, <3>2
    <3>4. hu[v] = hv[v]
      <4> HIDE DEF hu, hv, v
      <4> QED
        BY <3>2, <3>3, UnrolledAgree
    <3>5. hu[u] = f[Least(u)] + hu[v]
      <4> HIDE DEF hu
      <4> QED
        BY <2>2, <3>3 DEF Unrolls
    <3> QED
      BY <2>2, <3>4, <3>5
  <2> QED
    BY <2>1, <2>2
<1>4. Unrolls(f, g, s)
  <2>1. ASSUME NEW u \in SUBSET s
        PROVE  g[u] = IF u = {} THEN 0 ELSE f[Least(u)] + g[u \ {Least(u)}]
    <3>1. CASE u = {}
      BY <3>1
    <3>2. CASE u # {}
      <4>1. Least(u) \in u
        BY <3>2, LeastIn
      <4>2. u \ {Least(u)} \in SUBSET s /\ u \ {Least(u)} # s
        BY <4>1
      <4>3. g[u \ {Least(u)}] = val(u \ {Least(u)})
        BY <1>3, <4>2
      <4> QED
        BY <3>2, <4>3
    <3> QED
      BY <3>1, <3>2
  <2>2. g = [u \in SUBSET s |-> g[u]]
    OBVIOUS
  <2> HIDE DEF g
  <2> QED
    BY <2>1, <2>2 DEF Unrolls
<1> QED
  BY <1>1, <1>4

\* The sum over a set is that over what is left without its least element,
\* and that element.
LEMMA SumUnrolled ==
  ASSUME NEW f, NEW S, IsFiniteSet(S)
  PROVE  /\ SumFunctionOnSet(f, {}) = 0
         /\ S # {} => SumFunctionOnSet(f, S) = f[Least(S)] + SumFunctionOnSet(f, S \ {Least(S)})
<1> DEFINE h(s) == CHOOSE g : Unrolls(f, g, s)
<1>1. \A s : IsFiniteSet(s) => Unrolls(f, h(s), s)
  BY UnrolledExists
<1>2. SumFunctionOnSet(f, {}) = 0
  <2>1. Unrolls(f, h({}), {})
    BY <1>1, FS_EmptySet
  <2>2. h({})[{}] = 0
    <3> HIDE DEF h
    <3> QED
      BY <2>1 DEF Unrolls
  <2> QED
    BY <2>2, SumIsUnrolled
<1>3. ASSUME S # {}
      PROVE  SumFunctionOnSet(f, S) = f[Least(S)] + SumFunctionOnSet(f, S \ {Least(S)})
  <2> DEFINE T == S \ {Least(S)}
  <2>1. IsFiniteSet(T) /\ T \in SUBSET S /\ T \in SUBSET T
    BY FS_Subset
  <2>2. Unrolls(f, h(S), S) /\ Unrolls(f, h(T), T)
    BY <1>1, <2>1
  <2>3. h(S)[T] = h(T)[T]
    <3> HIDE DEF h, T
    <3> QED
      BY <2>1, <2>2, UnrolledAgree
  <2>4. h(S)[S] = f[Least(S)] + h(S)[T]
    <3> HIDE DEF h
    <3> QED
      BY <1>3, <2>2 DEF Unrolls
  <2> QED
    BY <2>3, <2>4, SumIsUnrolled
<1> QED
  BY <1>2, <1>3

-----------------------------------------------------------------------------
(* Sums of integers *)

\* f gives an integer for each element of S.
IntsOn(f, S) == \A x \in S : f[x] \in Int

\* The sum of nothing.
LEMMA SumEmpty == ASSUME NEW f PROVE SumFunctionOnSet(f, {}) = 0
BY SumUnrolled, FS_EmptySet

\* The sum of integers is an integer.
LEMMA SumInt ==
  ASSUME NEW f, NEW S, IsFiniteSet(S), IntsOn(f, S)
  PROVE  SumFunctionOnSet(f, S) \in Int
<1> DEFINE F == {s \in SUBSET S : SumFunctionOnSet(f, s) \notin Int}
<1> SUFFICES ASSUME F # {} PROVE FALSE
  OBVIOUS
<1>1. PICK s \in F : \A u \in F : u \subseteq s => u = s
  <2>1. F \in SUBSET (SUBSET S)
    OBVIOUS
  <2> HIDE DEF F
  <2> QED
    BY <2>1, FiniteMinimum
<1>2. IsFiniteSet(s)
  BY FS_Subset
<1>3. s # {}
  BY SumEmpty
<1>4. Least(s) \in s
  BY <1>3, LeastIn
<1>5. s \ {Least(s)} \notin F /\ s \ {Least(s)} \in SUBSET S
  BY <1>1, <1>4
<1>6. SumFunctionOnSet(f, s) = f[Least(s)] + SumFunctionOnSet(f, s \ {Least(s)})
  BY <1>2, <1>3, SumUnrolled
<1>7. f[Least(s)] \in Int
  BY <1>4 DEF IntsOn
<1> QED
  BY <1>1, <1>5, <1>6, <1>7

\* The elements may be taken in any order: a sum of rows, such as
\* sum_allocated_for_invoice, does not depend on the order in which they are read.
LEMMA SumRemove ==
  ASSUME NEW f, NEW S, IsFiniteSet(S), IntsOn(f, S), NEW x \in S
  PROVE  SumFunctionOnSet(f, S) = f[x] + SumFunctionOnSet(f, S \ {x})
<1> DEFINE F == {s \in SUBSET S :
                   \E y \in s : SumFunctionOnSet(f, s) # f[y] + SumFunctionOnSet(f, s \ {y})}
<1> SUFFICES ASSUME F # {} PROVE FALSE
  <2>1. S \in SUBSET S
    OBVIOUS
  <2> QED
    BY <2>1
<1>1. PICK s \in F : \A u \in F : u \subseteq s => u = s
  <2>1. F \in SUBSET (SUBSET S)
    OBVIOUS
  <2> HIDE DEF F
  <2> QED
    BY <2>1, FiniteMinimum
<1>2. PICK y \in s : SumFunctionOnSet(f, s) # f[y] + SumFunctionOnSet(f, s \ {y})
  OBVIOUS
<1> DEFINE z == Least(s)
<1>3. z \in s /\ IsFiniteSet(s)
  BY <1>2, LeastIn, FS_Subset
<1>4. SumFunctionOnSet(f, s) = f[z] + SumFunctionOnSet(f, s \ {z})
  BY <1>2, <1>3, SumUnrolled
<1> HIDE DEF z
<1>5. y # z
  BY <1>2, <1>4
<1>6. s \ {z} \notin F /\ s \ {z} \in SUBSET S /\ y \in s \ {z}
  BY <1>1, <1>3, <1>5
<1>7. s \ {y} \notin F /\ s \ {y} \in SUBSET S /\ z \in s \ {y}
  BY <1>1, <1>2, <1>3, <1>5
<1>8. (s \ {z}) \ {y} = (s \ {y}) \ {z}
  OBVIOUS
<1>9. SumFunctionOnSet(f, s \ {z}) = f[y] + SumFunctionOnSet(f, (s \ {z}) \ {y})
  BY <1>6
<1>10. SumFunctionOnSet(f, s \ {y}) = f[z] + SumFunctionOnSet(f, (s \ {z}) \ {y})
  BY <1>7, <1>8
<1>11. /\ SumFunctionOnSet(f, (s \ {z}) \ {y}) \in Int
       /\ f[y] \in Int /\ f[z] \in Int
  <2>1. (s \ {z}) \ {y} \in SUBSET S /\ IsFiniteSet((s \ {z}) \ {y})
    BY FS_Subset
  <2>2. IntsOn(f, (s \ {z}) \ {y})
    BY <2>1 DEF IntsOn
  <2> QED
    BY <1>2, <1>3, <2>1, <2>2, SumInt DEF IntsOn
<1> QED
  BY <1>2, <1>4, <1>9, <1>10, <1>11

\* One more element.
LEMMA SumAdd ==
  ASSUME NEW f, NEW S, IsFiniteSet(S), NEW x, x \notin S, IntsOn(f, S \union {x})
  PROVE  SumFunctionOnSet(f, S \union {x}) = SumFunctionOnSet(f, S) + f[x]
<1>1. IsFiniteSet(S \union {x}) /\ (S \union {x}) \ {x} = S
  BY FS_AddElement
<1>2. SumFunctionOnSet(f, S) \in Int /\ f[x] \in Int
  BY SumInt DEF IntsOn
<1> QED
  BY <1>1, <1>2, SumRemove

\* Sums of the same values are the same.
LEMMA SumSame ==
  ASSUME NEW f, NEW g, NEW S, IsFiniteSet(S), IntsOn(f, S), \A x \in S : f[x] = g[x]
  PROVE  SumFunctionOnSet(f, S) = SumFunctionOnSet(g, S)
<1> DEFINE G == {T \in SUBSET S : SumFunctionOnSet(f, T) = SumFunctionOnSet(g, T)}
<1>1. {} \in G
  BY SumEmpty
<1>2. ASSUME NEW T \in G, NEW x \in S \ T PROVE T \union {x} \in G
  <2>1. IsFiniteSet(T)
    BY FS_Subset
  <2>2. IntsOn(f, T \union {x}) /\ IntsOn(g, T \union {x})
    BY DEF IntsOn
  <2> QED
    BY <2>1, <2>2, SumAdd
<1> HIDE DEF G
<1>3. S \in G
  BY <1>1, <1>2, SubsetInduction DEF G
<1> QED
  BY <1>3 DEF G

\* A sum grows with its values.
LEMMA SumAtMost ==
  ASSUME NEW f, NEW g, NEW S, IsFiniteSet(S), IntsOn(f, S), IntsOn(g, S), \A x \in S : f[x] <= g[x]
  PROVE  SumFunctionOnSet(f, S) <= SumFunctionOnSet(g, S)
<1> DEFINE G == {T \in SUBSET S : SumFunctionOnSet(f, T) <= SumFunctionOnSet(g, T)}
<1>1. {} \in G
  BY SumEmpty
<1>2. ASSUME NEW T \in G, NEW x \in S \ T PROVE T \union {x} \in G
  <2>1. IsFiniteSet(T)
    BY FS_Subset
  <2>2. IntsOn(f, T) /\ IntsOn(g, T) /\ IntsOn(f, T \union {x}) /\ IntsOn(g, T \union {x})
    BY DEF IntsOn
  <2>3. /\ SumFunctionOnSet(f, T) \in Int /\ SumFunctionOnSet(g, T) \in Int
        /\ f[x] \in Int /\ g[x] \in Int /\ f[x] <= g[x]
    BY <2>1, <2>2, SumInt DEF IntsOn
  <2>4. /\ SumFunctionOnSet(f, T \union {x}) = SumFunctionOnSet(f, T) + f[x]
        /\ SumFunctionOnSet(g, T \union {x}) = SumFunctionOnSet(g, T) + g[x]
    BY <2>1, <2>2, SumAdd
  <2> QED
    BY <2>3, <2>4
<1> HIDE DEF G
<1>3. S \in G
  BY <1>1, <1>2, SubsetInduction DEF G
<1> QED
  BY <1>3 DEF G

\* Zeros add up to nothing.
LEMMA SumZero ==
  ASSUME NEW f, NEW S, IsFiniteSet(S), \A x \in S : f[x] = 0
  PROVE  SumFunctionOnSet(f, S) = 0
<1> DEFINE G == {T \in SUBSET S : SumFunctionOnSet(f, T) = 0}
<1>1. {} \in G
  BY SumEmpty
<1>2. ASSUME NEW T \in G, NEW x \in S \ T PROVE T \union {x} \in G
  <2>1. IsFiniteSet(T) /\ IntsOn(f, T \union {x})
    BY FS_Subset DEF IntsOn
  <2> QED
    BY <2>1, SumAdd
<1> HIDE DEF G
<1>3. S \in G
  BY <1>1, <1>2, SubsetInduction DEF G
<1> QED
  BY <1>3 DEF G

\* Numbers that are not negative have a sum that is not.
LEMMA SumNatural ==
  ASSUME NEW f, NEW S, IsFiniteSet(S), \A x \in S : f[x] \in Nat
  PROVE  SumFunctionOnSet(f, S) \in Nat
<1> DEFINE z == [x \in S |-> 0]
<1>1. IntsOn(f, S) /\ IntsOn(z, S) /\ \A x \in S : z[x] <= f[x]
  BY DEF IntsOn
<1>2. SumFunctionOnSet(z, S) = 0
  BY SumZero
<1> HIDE DEF z
<1>3. SumFunctionOnSet(z, S) <= SumFunctionOnSet(f, S) /\ SumFunctionOnSet(f, S) \in Int
  BY <1>1, SumAtMost, SumInt
<1> QED
  BY <1>2, <1>3

\* Disjoint sets add up: rows read by two queries that share none can be summed
\* apart.
LEMMA SumUnion ==
  ASSUME NEW f, NEW S, NEW U, IsFiniteSet(S), IsFiniteSet(U), S \intersect U = {},
         IntsOn(f, S), IntsOn(f, U)
  PROVE  SumFunctionOnSet(f, S \union U) = SumFunctionOnSet(f, S) + SumFunctionOnSet(f, U)
<1> DEFINE G == {T \in SUBSET S :
                   SumFunctionOnSet(f, T \union U) = SumFunctionOnSet(f, T) + SumFunctionOnSet(f, U)}
<1>u. SumFunctionOnSet(f, U) \in Int
  BY SumInt
<1>1. {} \in G
  <2>1. {} \union U = U
    OBVIOUS
  <2> QED
    BY <1>u, <2>1, SumEmpty
<1>2. ASSUME NEW T \in G, NEW x \in S \ T PROVE T \union {x} \in G
  <2>1. IsFiniteSet(T) /\ IsFiniteSet(T \union U)
    BY FS_Subset, FS_Union
  <2>2. /\ IntsOn(f, T) /\ IntsOn(f, T \union {x}) /\ IntsOn(f, (T \union U) \union {x})
        /\ f[x] \in Int
    BY DEF IntsOn
  <2>3. x \notin T \union U
    BY <1>2
  <2>4. SumFunctionOnSet(f, (T \union U) \union {x}) = SumFunctionOnSet(f, T \union U) + f[x]
    BY <2>1, <2>2, <2>3, SumAdd
  <2>5. SumFunctionOnSet(f, T \union {x}) = SumFunctionOnSet(f, T) + f[x]
    BY <2>1, <2>2, SumAdd
  <2>6. SumFunctionOnSet(f, T) \in Int
    BY <2>1, <2>2, SumInt
  <2>7. (T \union {x}) \union U = (T \union U) \union {x}
    OBVIOUS
  <2>8. SumFunctionOnSet(f, (T \union {x}) \union U) = SumFunctionOnSet(f, T \union U) + f[x]
    BY <2>4, <2>7
  <2>9. SumFunctionOnSet(f, T \union U) = SumFunctionOnSet(f, T) + SumFunctionOnSet(f, U)
    BY <1>2
  <2>10. SumFunctionOnSet(f, T) + SumFunctionOnSet(f, U) + f[x]
           = (SumFunctionOnSet(f, T) + f[x]) + SumFunctionOnSet(f, U)
    BY <1>u, <2>2, <2>6
  <2>11. SumFunctionOnSet(f, (T \union {x}) \union U) =
          SumFunctionOnSet(f, T \union {x}) + SumFunctionOnSet(f, U)
    BY <2>5, <2>8, <2>9, <2>10
  <2>12. T \union {x} \in SUBSET S
    BY <1>2
  <2> QED
    BY <2>11, <2>12
<1>3. G \in SUBSET (SUBSET S)
  OBVIOUS
<1>4. S \in G
  <2> HIDE DEF G
  <2> QED
    BY <1>1, <1>2, <1>3, SubsetInduction
<1> QED
  BY <1>4

\* What is zero may be left out.
LEMMA SumSupport ==
  ASSUME NEW f, NEW S, NEW T \in SUBSET S, IsFiniteSet(S), IntsOn(f, S), \A x \in S \ T : f[x] = 0
  PROVE  SumFunctionOnSet(f, S) = SumFunctionOnSet(f, T)
<1>1. IsFiniteSet(T) /\ IsFiniteSet(S \ T) /\ T \intersect (S \ T) = {} /\ T \union (S \ T) = S
  BY FS_Subset
<1>2. IntsOn(f, T) /\ IntsOn(f, S \ T)
  BY DEF IntsOn
<1>3. SumFunctionOnSet(f, S) = SumFunctionOnSet(f, T) + SumFunctionOnSet(f, S \ T)
  BY <1>1, <1>2, SumUnion
<1>4. SumFunctionOnSet(f, S \ T) = 0
  BY <1>1, SumZero
<1>5. SumFunctionOnSet(f, T) \in Int
  BY <1>1, <1>2, SumInt
<1> QED
  BY <1>3, <1>4, <1>5

\* A part of what is not negative is no more than the whole.
LEMMA SumPart ==
  ASSUME NEW f, NEW S, NEW T \in SUBSET S, IsFiniteSet(S), \A x \in S : f[x] \in Nat
  PROVE  SumFunctionOnSet(f, T) <= SumFunctionOnSet(f, S)
<1>1. IsFiniteSet(T) /\ IsFiniteSet(S \ T) /\ T \intersect (S \ T) = {} /\ T \union (S \ T) = S
  BY FS_Subset
<1>2. IntsOn(f, T) /\ IntsOn(f, S \ T)
  BY DEF IntsOn
<1>3. SumFunctionOnSet(f, S) = SumFunctionOnSet(f, T) + SumFunctionOnSet(f, S \ T)
  BY <1>1, <1>2, SumUnion
<1>4. SumFunctionOnSet(f, T) \in Nat /\ SumFunctionOnSet(f, S \ T) \in Nat
  BY <1>1, SumNatural
<1> QED
  BY <1>3, <1>4

\* One value changes.
LEMMA SumChange ==
  ASSUME NEW f, NEW g, NEW S, IsFiniteSet(S), IntsOn(f, S), IntsOn(g, S),
         NEW a \in S, \A x \in S \ {a} : g[x] = f[x]
  PROVE  SumFunctionOnSet(g, S) = SumFunctionOnSet(f, S) - f[a] + g[a]
<1>1. IsFiniteSet(S \ {a}) /\ IntsOn(f, S \ {a}) /\ IntsOn(g, S \ {a})
  BY FS_Subset DEF IntsOn
<1>2. SumFunctionOnSet(f, S \ {a}) = SumFunctionOnSet(g, S \ {a})
  BY <1>1, SumSame
<1>3. /\ SumFunctionOnSet(f, S) = f[a] + SumFunctionOnSet(f, S \ {a})
      /\ SumFunctionOnSet(g, S) = g[a] + SumFunctionOnSet(g, S \ {a})
  BY SumRemove
<1>4. SumFunctionOnSet(f, S \ {a}) \in Int /\ f[a] \in Int /\ g[a] \in Int
  BY <1>1, SumInt DEF IntsOn
<1> QED
  BY <1>2, <1>3, <1>4

\* Sums add up value by value.
LEMMA SumPlus ==
  ASSUME NEW f, NEW g, NEW h, NEW S, IsFiniteSet(S), IntsOn(f, S), IntsOn(g, S),
         \A x \in S : h[x] = f[x] + g[x]
  PROVE  SumFunctionOnSet(h, S) = SumFunctionOnSet(f, S) + SumFunctionOnSet(g, S)
<1> DEFINE G == {T \in SUBSET S :
                   SumFunctionOnSet(h, T) = SumFunctionOnSet(f, T) + SumFunctionOnSet(g, T)}
<1>1. {} \in G
  BY SumEmpty
<1>2. ASSUME NEW T \in G, NEW x \in S \ T PROVE T \union {x} \in G
  <2>1. IsFiniteSet(T)
    BY FS_Subset
  <2>2. /\ IntsOn(f, T) /\ IntsOn(g, T)
        /\ IntsOn(f, T \union {x}) /\ IntsOn(g, T \union {x}) /\ IntsOn(h, T \union {x})
        /\ f[x] \in Int /\ g[x] \in Int /\ h[x] = f[x] + g[x]
    BY DEF IntsOn
  <2>3. /\ SumFunctionOnSet(f, T) \in Int /\ SumFunctionOnSet(g, T) \in Int
    BY <2>1, <2>2, SumInt
  <2>4. /\ SumFunctionOnSet(f, T \union {x}) = SumFunctionOnSet(f, T) + f[x]
        /\ SumFunctionOnSet(g, T \union {x}) = SumFunctionOnSet(g, T) + g[x]
        /\ SumFunctionOnSet(h, T \union {x}) = SumFunctionOnSet(h, T) + h[x]
    BY <2>1, <2>2, SumAdd
  <2>5. SumFunctionOnSet(h, T) = SumFunctionOnSet(f, T) + SumFunctionOnSet(g, T)
    BY <1>2
  <2> QED
    BY <2>2, <2>3, <2>4, <2>5
<1> HIDE DEF G
<1>3. S \in G
  BY <1>1, <1>2, SubsetInduction DEF G
<1> QED
  BY <1>3 DEF G

\* The values may be named otherwise: the same amounts listed by invoice and by
\* row of the settlements have the same sum.
LEMMA SumRenamed ==
  ASSUME NEW f, NEW g, NEW S, IsFiniteSet(S), IntsOn(f, S), NEW U, NEW name \in [S -> U],
         \A z \in U : \E x \in S : z = name[x],
         \A x, y \in S : name[x] = name[y] => x = y,
         \A x \in S : g[name[x]] = f[x]
  PROVE  SumFunctionOnSet(g, U) = SumFunctionOnSet(f, S)
<1> DEFINE G == {T \in SUBSET S :
                   /\ IsFiniteSet({name[x] : x \in T})
                   /\ SumFunctionOnSet(g, {name[x] : x \in T}) = SumFunctionOnSet(f, T)}
<1>1. {} \in G
  <2>1. {name[x] : x \in {}} = {}
    OBVIOUS
  <2> QED
    BY <2>1, SumEmpty, FS_EmptySet
<1>2. ASSUME NEW T \in G, NEW x \in S \ T PROVE T \union {x} \in G
  <2> DEFINE N == {name[y] : y \in T}
  <2>1. {name[y] : y \in T \union {x}} = N \union {name[x]}
    OBVIOUS
  <2>2. IsFiniteSet(T) /\ IsFiniteSet(N)
    BY <1>2, FS_Subset
  <2>3. name[x] \notin N
    BY <1>2
  <2>4. IntsOn(g, N \union {name[x]}) /\ IntsOn(f, T \union {x})
    BY DEF IntsOn
  <2>5. g[name[x]] = f[x] /\ SumFunctionOnSet(g, N) = SumFunctionOnSet(f, T)
    BY <1>2
  <2>6. SumFunctionOnSet(f, T \union {x}) = SumFunctionOnSet(f, T) + f[x]
    BY <2>2, <2>4, SumAdd
  <2> HIDE DEF N
  <2>7. SumFunctionOnSet(g, N \union {name[x]}) = SumFunctionOnSet(g, N) + g[name[x]]
    BY <2>2, <2>3, <2>4, SumAdd
  <2>8. SumFunctionOnSet(g, {name[y] : y \in T \union {x}}) = SumFunctionOnSet(f, T \union {x})
    BY <2>1, <2>5, <2>6, <2>7
  <2>9. T \union {x} \in SUBSET S
    BY <1>2
  <2>10. IsFiniteSet(N \union {name[x]})
    BY <2>2, FS_AddElement
  <2> QED
    BY <2>1, <2>8, <2>9, <2>10
<1> HIDE DEF G
<1>3. S \in G
  BY <1>1, <1>2, SubsetInduction DEF G
<1>4. U = {name[x] : x \in S}
  OBVIOUS
<1> QED
  BY <1>3, <1>4 DEF G

\* The elements of S in class c.
Class(class, S, c) == {x \in S : class[x] = c}

\* Rows may be put into classes and summed class by class: totals by VAT rate
\* add up to the total (Invoice.aggregate_vat_totals).
LEMMA SumByClass ==
  ASSUME NEW f, NEW S, IsFiniteSet(S), IntsOn(f, S), NEW C, IsFiniteSet(C), NEW class \in [S -> C],
         NEW g, \A c \in C : g[c] = SumFunctionOnSet(f, Class(class, S, c))
  PROVE  IntsOn(g, C) /\ SumFunctionOnSet(g, C) = SumFunctionOnSet(f, S)
<1> DEFINE In(T) == {x \in S : class[x] \in T}
           G == {T \in SUBSET C : SumFunctionOnSet(g, T) = SumFunctionOnSet(f, In(T))}
<1>1. \A T \in SUBSET C : IsFiniteSet(In(T)) /\ IntsOn(f, In(T))
  BY FS_Subset DEF IntsOn
<1>2. ASSUME NEW c \in C
      PROVE  g[c] = SumFunctionOnSet(f, In({c})) /\ g[c] \in Int
  <2>1. In({c}) = Class(class, S, c)
    BY DEF Class
  <2>2. IsFiniteSet(In({c})) /\ IntsOn(f, In({c}))
    BY <1>1
  <2> HIDE DEF In
  <2> QED
    BY <2>1, <2>2, SumInt
<1>3. IntsOn(g, C)
  BY <1>2 DEF IntsOn
<1>4. {} \in G
  <2>1. In({}) = {}
    OBVIOUS
  <2> QED
    BY <2>1, SumEmpty
<1>5. ASSUME NEW T \in G, NEW c \in C \ T PROVE T \union {c} \in G
  <2>1. In(T \union {c}) = In(T) \union In({c}) /\ In(T) \intersect In({c}) = {}
    OBVIOUS
  <2>2. /\ IsFiniteSet(In(T)) /\ IntsOn(f, In(T)) /\ IsFiniteSet(In({c})) /\ IntsOn(f, In({c}))
        /\ IsFiniteSet(T) /\ IntsOn(g, T \union {c})
    BY <1>1, <1>3, FS_Subset DEF IntsOn
  <2>3. SumFunctionOnSet(g, T) = SumFunctionOnSet(f, In(T)) /\ g[c] = SumFunctionOnSet(f, In({c}))
    BY <1>2
  <2>4. SumFunctionOnSet(f, In(T \union {c}))
        = SumFunctionOnSet(f, In(T)) + SumFunctionOnSet(f, In({c}))
    <3> DEFINE A == In(T)
               B == In({c})
    <3>1. A \intersect B = {} /\ IsFiniteSet(A) /\ IsFiniteSet(B) /\ IntsOn(f, A) /\ IntsOn(f, B)
      BY <2>1, <2>2
    <3>2. In(T \union {c}) = A \union B
      BY <2>1
    <3> HIDE DEF A, B
    <3>3. SumFunctionOnSet(f, A \union B) = SumFunctionOnSet(f, A) + SumFunctionOnSet(f, B)
      BY <3>1, SumUnion
    <3> HIDE DEF In
    <3> QED
      BY <3>2, <3>3 DEF A, B
  <2> HIDE DEF In
  <2>5. SumFunctionOnSet(g, T \union {c}) = SumFunctionOnSet(g, T) + g[c]
    BY <2>2, SumAdd
  <2> QED
    BY <2>3, <2>4, <2>5
<1>6. In(C) = S
  OBVIOUS
<1> HIDE DEF G, In
<1>7. C \in G
  BY <1>4, <1>5, SubsetInduction DEF G
<1> QED
  BY <1>3, <1>6, <1>7 DEF G

\* The rounding of a sum: m times each value of g is r times that of f but for
\* e, so their sums differ by e for each element at most.
LEMMA SumRounded ==
  ASSUME NEW f, NEW g, NEW S, IsFiniteSet(S), IntsOn(f, S), IntsOn(g, S),
         NEW m \in Int, NEW r \in Int, NEW e \in Nat,
         \A x \in S : m * g[x] - r * f[x] \in (-e)..e
  PROVE  m * SumFunctionOnSet(g, S) - r * SumFunctionOnSet(f, S)
           \in (-(e * Cardinality(S)))..(e * Cardinality(S))
<1> DEFINE Off(T) == m * SumFunctionOnSet(g, T) - r * SumFunctionOnSet(f, T)
           G == {T \in SUBSET S : Off(T) \in (-(e * Cardinality(T)))..(e * Cardinality(T))}
<1>1. {} \in G
  <2>1. Off({}) = 0 /\ e * Cardinality({}) = 0
    BY SumEmpty, FS_EmptySet
  <2> HIDE DEF Off
  <2> QED
    BY <2>1
<1>2. ASSUME NEW T \in G, NEW x \in S \ T PROVE T \union {x} \in G
  <2>1. IsFiniteSet(T) /\ Cardinality(T) \in Nat
    BY FS_Subset, FS_CardinalityType
  <2>2. Cardinality(T \union {x}) = Cardinality(T) + 1
    BY <2>1, FS_AddElement
  <2>3. /\ IntsOn(f, T) /\ IntsOn(g, T) /\ IntsOn(f, T \union {x}) /\ IntsOn(g, T \union {x})
        /\ f[x] \in Int /\ g[x] \in Int /\ m * g[x] - r * f[x] \in (-e)..e
    BY DEF IntsOn
  <2>4. /\ SumFunctionOnSet(f, T) \in Int /\ SumFunctionOnSet(g, T) \in Int
        /\ SumFunctionOnSet(f, T \union {x}) = SumFunctionOnSet(f, T) + f[x]
        /\ SumFunctionOnSet(g, T \union {x}) = SumFunctionOnSet(g, T) + g[x]
    BY <2>1, <2>3, SumInt, SumAdd
  <2>5. Off(T \union {x}) = Off(T) + (m * g[x] - r * f[x]) /\ Off(T) \in Int
    BY <2>3, <2>4
  <2>6. e * Cardinality(T \union {x}) = e * Cardinality(T) + e /\ e * Cardinality(T) \in Int
    BY <2>1, <2>2
  <2>7. Off(T) \in (-(e * Cardinality(T)))..(e * Cardinality(T))
    BY <1>2
  <2> HIDE DEF Off
  <2>8. Off(T \union {x}) \in (-(e * Cardinality(T \union {x})))..(e * Cardinality(T \union {x}))
    <3> DEFINE a == e * Cardinality(T)
               b == m * g[x] - r * f[x]
    <3>1. a \in Int /\ b \in (-e)..e /\ Off(T) \in (-a)..a
      BY <2>3, <2>6, <2>7
    <3>2. e * Cardinality(T \union {x}) = a + e /\ Off(T \union {x}) = Off(T) + b
      BY <2>5, <2>6
    <3> HIDE DEF a, b
    <3> QED
      BY <3>1, <3>2
  <2> QED
    BY <1>2, <2>8
<1> HIDE DEF G
<1>3. S \in G
  BY <1>1, <1>2, SubsetInduction DEF G
<1> QED
  BY <1>3 DEF G

-----------------------------------------------------------------------------
(* Sums over the first numbers, and a queue that gives in turn *)

\* A set of natural numbers has a least one.
LEMMA NatLeast ==
  ASSUME NEW B \in SUBSET Nat, B # {}
  PROVE  \E m \in B : \A n \in B : m <= n
<1>1. PICK k \in B : TRUE
  OBVIOUS
<1> DEFINE F == {1..j : j \in {i \in B : i <= k}}
<1>2. F \in SUBSET (SUBSET (1..k)) /\ F # {}
  <2>1. \A T \in F : T \in SUBSET (1..k)
    OBVIOUS
  <2>2. 1..k \in F
    BY <1>1
  <2> QED
    BY <2>1, <2>2
<1>3. IsFiniteSet(1..k)
  BY FS_Interval
<1>4. PICK T \in F : \A U \in F : U \subseteq T => U = T
  <2> DEFINE K == 1..k
  <2>1. F \in SUBSET (SUBSET K) /\ F # {} /\ IsFiniteSet(K)
    BY <1>2, <1>3
  <2> HIDE DEF F, K
  <2> QED
    BY <2>1, FiniteMinimum
<1>5. PICK m \in B : m <= k /\ T = 1..m
  BY <1>4
<1>6. ASSUME NEW n \in B, n < m PROVE FALSE
  <2>1. 1..n \in F
    BY <1>5, <1>6
  <2>2. 1..n \subseteq T
    BY <1>5, <1>6
  <2>3. 1..n = 1..m
    BY <1>4, <1>5, <2>1, <2>2
  <2>4. m \in 1..m /\ m \notin 1..n
    BY <1>6
  <2> QED
    BY <2>3, <2>4
<1> QED
  BY <1>5, <1>6

\* The integers on a part of a set.
LEMMA IntsOnPart ==
  ASSUME NEW f, NEW S, NEW T, T \subseteq S, \A n \in S : f[n] \in Nat
  PROVE  IntsOn(f, T) /\ \A n \in T : f[n] \in Nat
BY DEF IntsOn

\* The sum of natural numbers over some of the first ones.
LEMMA SumOfPart ==
  ASSUME NEW f, NEW N, \A i \in 1..N : f[i] \in Nat, NEW n \in Int, 1..n \subseteq 1..N
  PROVE  SumFunctionOnSet(f, 1..n) \in Int
<1> DEFINE S == 1..n
<1>1. IsFiniteSet(S)
  BY FS_Interval
<1>2. IntsOn(f, S)
  BY DEF IntsOn
<1> HIDE DEF S
<1>3. SumFunctionOnSet(f, S) \in Int
  BY <1>1, <1>2, SumInt
<1> QED
  BY <1>3 DEF S

\* One more number.
LEMMA SumNext ==
  ASSUME NEW f, NEW n \in Nat, IntsOn(f, 1..(n + 1))
  PROVE  /\ SumFunctionOnSet(f, 1..(n + 1)) = SumFunctionOnSet(f, 1..n) + f[n + 1]
         /\ SumFunctionOnSet(f, 1..n) \in Int /\ f[n + 1] \in Int
<1>1. 1..(n + 1) = (1..n) \union {n + 1} /\ n + 1 \notin 1..n
  OBVIOUS
<1>2. IsFiniteSet(1..n)
  BY FS_Interval
<1>3. IntsOn(f, (1..n) \union {n + 1}) /\ IntsOn(f, 1..n) /\ f[n + 1] \in Int
  BY <1>1 DEF IntsOn
<1>4. SumFunctionOnSet(f, (1..n) \union {n + 1}) = SumFunctionOnSet(f, 1..n) + f[n + 1]
  <2> DEFINE S == 1..n
             x == n + 1
  <2>1. x \notin S /\ IsFiniteSet(S) /\ IntsOn(f, S \union {x})
    BY <1>1, <1>2, <1>3
  <2> HIDE DEF S, x
  <2>2. SumFunctionOnSet(f, S \union {x}) = SumFunctionOnSet(f, S) + f[x]
    BY <2>1, SumAdd
  <2> QED
    BY <2>2 DEF S, x
<1> QED
  BY <1>1, <1>2, <1>3, <1>4, SumInt

\* The sum of a function on its domain.
LEMMA SumIs ==
  ASSUME NEW f
  PROVE  SumFunction(f) = SumFunctionOnSet(f, DOMAIN f)
BY DEF SumFunction

\* The n-th element of a queue gives what the ones before it leave of the need.
Rest(left, need, n) == need - SumFunctionOnSet(left, 1..(n - 1))
GivenOf(left, need, n) ==
  IF Rest(left, need, n) <= 0 THEN 0
  ELSE IF left[n] <= Rest(left, need, n) THEN left[n] ELSE Rest(left, need, n)

\* A queue of N that is to give need, each what it has left, in its turn.
Queue(N, left, need, take) ==
  /\ N \in Nat /\ need \in Nat
  /\ \A n \in 1..N : left[n] \in Nat
  /\ \A n \in 1..N : take[n] = GivenOf(left, need, n)

\* Of a queue each element gives what the ones before it leave of a need: the
\* first ones give all they have, and together they give what is needed, if
\* there is enough.  This is the loop of _consume_fifo
\* (warehouse_document_service.py:323), which carries the rest of the need from
\* layer to layer.
LEMMA TakenInTurn ==
  ASSUME NEW N, NEW left, NEW need, NEW take, Queue(N, left, need, take)
  PROVE  \A k \in 0..N :
           SumFunctionOnSet(take, 1..k) =
             IF SumFunctionOnSet(left, 1..k) <= need THEN SumFunctionOnSet(left, 1..k) ELSE need
<1>q. N \in Nat /\ need \in Nat /\ \A n \in 1..N : left[n] \in Nat
  BY DEF Queue
<1>0. \A n \in 1..N :
        LET rest == need - SumFunctionOnSet(left, 1..(n - 1)) IN
        take[n] = IF rest <= 0 THEN 0 ELSE IF left[n] <= rest THEN left[n] ELSE rest
  BY DEF Queue, GivenOf, Rest
<1> DEFINE L(k) == SumFunctionOnSet(left, 1..k)
           T(k) == SumFunctionOnSet(take, 1..k)
           Right(k) == T(k) = IF L(k) <= need THEN L(k) ELSE need
           B == {k \in 0..N : ~Right(k)}
<1> SUFFICES ASSUME B # {} PROVE FALSE
  OBVIOUS
<1>1. PICK m \in B : \A n \in B : m <= n
  <2>1. B \in SUBSET Nat
    BY <1>q
  <2> HIDE DEF B
  <2> QED
    BY <1>q, <2>1, NatLeast
<1>2. 1..0 = {}
  BY <1>q
<1>3. L(0) = 0 /\ T(0) = 0
  BY <1>q, <1>2, SumEmpty
<1>4. m # 0
  BY <1>q, <1>3
<1> DEFINE p == m - 1
<1>5. p \in Nat /\ p \in 0..N /\ m = p + 1 /\ m \in 1..N /\ 1..(p + 1) \subseteq 1..N
  BY <1>q, <1>4
<1>6. Right(p)
  BY <1>q, <1>1, <1>5
<1>7. \A n \in 1..N : SumFunctionOnSet(left, 1..(n - 1)) \in Int
  <2>1. ASSUME NEW n \in 1..N PROVE SumFunctionOnSet(left, 1..(n - 1)) \in Int
    <3>1. n - 1 \in Int /\ 1..(n - 1) \subseteq 1..N
      BY <1>q
    <3> QED
      BY <1>q, <3>1, SumOfPart
  <2> QED
    BY <1>q, <2>1
<1>8. \A n \in 1..N : take[n] \in Nat /\ left[n] \in Nat
  <2>1. ASSUME NEW n \in 1..N PROVE take[n] \in Nat
    <3>1. SumFunctionOnSet(left, 1..(n - 1)) \in Int /\ left[n] \in Nat
      BY <1>q, <1>7
    <3>2. LET rest == need - SumFunctionOnSet(left, 1..(n - 1)) IN
          take[n] = IF rest <= 0 THEN 0 ELSE IF left[n] <= rest THEN left[n] ELSE rest
      BY <1>q, <1>0
    <3> QED
      BY <1>q, <3>1, <3>2
  <2> QED
    BY <1>q, <2>1
<1>9. IntsOn(left, 1..(p + 1)) /\ IntsOn(take, 1..(p + 1))
  BY <1>q, <1>5, <1>8 DEF IntsOn
<1>10. /\ L(m) = L(p) + left[m] /\ L(p) \in Int
       /\ T(m) = T(p) + take[m]
  BY <1>q, <1>5, <1>9, SumNext
<1>11. take[m] = IF need - L(p) <= 0 THEN 0
                 ELSE IF left[m] <= need - L(p) THEN left[m] ELSE need - L(p)
  BY <1>q, <1>0, <1>5
<1>12. left[m] \in Nat
  BY <1>q, <1>5
<1>13. ~Right(m)
  BY <1>q, <1>1
<1> HIDE DEF L, T, p
<1> QED
  BY <1>q, <1>6, <1>10, <1>11, <1>12, <1>13

\* An element gives something only when the ones before it have given all.
LEMMA FirstOnesGiveAll ==
  ASSUME NEW N, NEW left, NEW need, NEW take, Queue(N, left, need, take),
         NEW j \in 1..N, NEW k \in 1..N, j < k, take[k] # 0
  PROVE  take[j] = left[j]
<1>q. N \in Nat /\ need \in Nat /\ \A n \in 1..N : left[n] \in Nat
  BY DEF Queue
<1>0. \A n \in 1..N :
        LET rest == need - SumFunctionOnSet(left, 1..(n - 1)) IN
        take[n] = IF rest <= 0 THEN 0 ELSE IF left[n] <= rest THEN left[n] ELSE rest
  BY DEF Queue, GivenOf, Rest
<1> DEFINE L(n) == SumFunctionOnSet(left, 1..n)
<1>1. ASSUME NEW n \in 0..N PROVE L(n) \in Int
  <2>1. 1..n \subseteq 1..N
    BY <1>q
  <2>2. n \in Int
    BY <1>q
  <2> HIDE DEF L
  <2>3. SumFunctionOnSet(left, 1..n) \in Int
    BY <1>q, <2>1, <2>2, SumOfPart
  <2> QED
    BY <1>q, <2>3 DEF L
<1>2. need - L(k - 1) > 0
  <2>1. L(k - 1) \in Int
    BY <1>q, <1>1
  <2> QED
    BY <1>q, <1>0, <2>1
<1>3. L(j) <= L(k - 1)
  <2>1. 1..(k - 1) = (1..j) \union ((j + 1)..(k - 1)) /\ (1..j) \intersect ((j + 1)..(k - 1)) = {}
    BY <1>q
  <2> DEFINE S == 1..j
             U == (j + 1)..(k - 1)
  <2>2. S \subseteq 1..N /\ U \subseteq 1..N /\ k - 1 \in Int /\ j + 1 \in Int
    BY <1>q
  <2>3. IsFiniteSet(S) /\ IsFiniteSet(U)
    <3>1. IsFiniteSet(1..j)
      BY <1>q, FS_Interval
    <3>2. k - 1 \in Int /\ j + 1 \in Int
      BY <1>q
    <3>3. IsFiniteSet((j + 1)..(k - 1))
      BY <1>q, <3>2, FS_Interval
    <3> QED
      BY <1>q, <3>1, <3>3
  <2>4. S \intersect U = {} /\ L(k - 1) = SumFunctionOnSet(left, S \union U)
    BY <1>q, <2>1
  <2>5. IntsOn(left, S) /\ IntsOn(left, U) /\ \A n \in U : left[n] \in Nat
    BY <1>q, <2>2, IntsOnPart
  <2>6. L(j) = SumFunctionOnSet(left, S) /\ L(j) \in Int
    BY <1>q, <1>1
  <2> HIDE DEF S, U, L
  <2>7. SumFunctionOnSet(left, S \union U) = SumFunctionOnSet(left, S) + SumFunctionOnSet(left, U)
    BY <1>q, <2>3, <2>4, <2>5, SumUnion
  <2>8. SumFunctionOnSet(left, U) \in Nat
    BY <1>q, <2>3, <2>5, SumNatural
  <2> QED
    BY <1>q, <2>4, <2>6, <2>7, <2>8
<1>4. L(j) = L(j - 1) + left[j]
  <2>1. (j - 1) + 1 = j /\ j - 1 \in Nat
    BY <1>q
  <2>2. IntsOn(left, 1..j)
    BY <1>q DEF IntsOn
  <2> QED
    BY <1>q, <2>1, <2>2, SumNext
<1>5. L(j) \in Int /\ L(j - 1) \in Int /\ L(k - 1) \in Int
  BY <1>q, <1>1
<1>6. take[j] = IF need - L(j - 1) <= 0 THEN 0
                ELSE IF left[j] <= need - L(j - 1) THEN left[j] ELSE need - L(j - 1)
  BY <1>q, <1>0
<1> HIDE DEF L
<1> QED
  BY <1>q, <1>2, <1>3, <1>4, <1>5, <1>6
=============================================================================
