----------------------------- MODULE FoldProofs -----------------------------
(***************************************************************************)
(* Finite sets, by induction, and the recursion behind the folds of the    *)
(* community modules: sums of functions, and choices made in some order.   *)
(* The induction principles are stated for sets of sets, not for           *)
(* predicates, so that the provers can apply them.                         *)
(***************************************************************************)
EXTENDS FiniteSetsExt, FiniteSetTheorems, TLAPS

-----------------------------------------------------------------------------
(* Induction.                                                              *)

\* Among subsets of a finite set there is one that contains no other.
LEMMA SmallestSet ==
  ASSUME NEW S, IsFiniteSet(S), NEW T, T \subseteq SUBSET S, T # {}
  PROVE  \E x \in T : \A y \in T : ~(y \subseteq x /\ y # x)
<1>1. T \subseteq FiniteSubsetsOf(S)
  BY FS_Subset DEF FiniteSubsetsOf
<1>2. \E x \in T : \A y \in T : <<y, x>> \notin StrictSubsetOrdering(S)
  BY <1>1, WFMin, FS_StrictSubsetOrderingWellFounded
<1>. QED
  BY <1>2 DEF StrictSubsetOrdering

\* What holds of no set and stays true when an element is added holds of every finite set.
LEMMA SetInduction ==
  ASSUME NEW S, IsFiniteSet(S), NEW G, {} \in G,
         \A T \in SUBSET S : \A x \in S \ T : T \in G => T \cup {x} \in G
  PROVE  S \in G
<1> DEFINE Bad == {T \in SUBSET S : T \notin G}
<1>. SUFFICES ASSUME S \notin G PROVE FALSE
  OBVIOUS
<1>0. Bad \subseteq SUBSET S /\ Bad # {}
  OBVIOUS
<1>. HIDE DEF Bad
<1>1. PICK T \in Bad : \A U \in Bad : ~(U \subseteq T /\ U # T)
  BY <1>0, SmallestSet
<1>. USE DEF Bad
<1>2. PICK x \in T : TRUE
  BY <1>1
<1>3. T \ {x} \in G
  BY <1>1, <1>2
<1>4. T = (T \ {x}) \cup {x} /\ T \ {x} \in SUBSET S /\ x \in S \ (T \ {x})
  BY <1>1, <1>2
<1>. QED
  BY <1>1, <1>3, <1>4

\* What holds of a set whenever it holds of all smaller ones holds of every finite set.
LEMMA SubsetInduction ==
  ASSUME NEW S, IsFiniteSet(S), NEW G,
         \A T \in SUBSET S : (\A U \in SUBSET T : U # T => U \in G) => T \in G
  PROVE  \A T \in SUBSET S : T \in G
<1> DEFINE Bad == {T \in SUBSET S : T \notin G}
<1>. SUFFICES ASSUME Bad # {} PROVE FALSE
  OBVIOUS
<1>0. Bad \subseteq SUBSET S /\ Bad # {}
  OBVIOUS
<1>. HIDE DEF Bad
<1>1. PICK T \in Bad : \A U \in Bad : ~(U \subseteq T /\ U # T)
  BY <1>0, SmallestSet
<1>. USE DEF Bad
<1>. QED
  BY <1>1

-----------------------------------------------------------------------------
(* The recursion of a fold: it exists.                                     *)

\* A way to pick an element from each set, a step for each element, and the function that
\* starts from the base and takes a step for each element picked.
Picks(pick, S)    == \A s \in SUBSET S : s # {} => pick[s] \in s
Steps(step, S, V) == \A x \in S : \A v \in V : step[x][v] \in V
IsFold(it, S, base, pick, step) ==
  \A s \in SUBSET S : it[s] = IF s = {} THEN base ELSE step[pick[s]][it[s \ {pick[s]}]]

LEMMA FoldExists ==
  ASSUME NEW S, IsFiniteSet(S), NEW V, NEW base \in V,
         NEW pick, Picks(pick, S), NEW step, Steps(step, S, V)
  PROVE  \E it \in [SUBSET S -> V] : IsFold(it, S, base, pick, step)
<1>. USE DEF Picks, Steps
<1> DEFINE All == (SUBSET S) \X V
           Less(s) == s \ {pick[s]}
           Closed(R) == /\ <<{}, base>> \in R
                        /\ \A s \in SUBSET S : \A v \in V :
                             s # {} /\ <<Less(s), v>> \in R => <<s, step[pick[s]][v]>> \in R
           Least == {c \in All : \A R \in SUBSET All : Closed(R) => c \in R}
<1>1. Closed(All)
  OBVIOUS
<1>2. Closed(Least)
  <2>1. <<{}, base>> \in Least
    OBVIOUS
  <2>2. ASSUME NEW s \in SUBSET S, NEW v \in V, s # {}, <<Less(s), v>> \in Least
        PROVE  <<s, step[pick[s]][v]>> \in Least
    <3>1. <<s, step[pick[s]][v]>> \in All
      BY <2>2
    <3>2. ASSUME NEW R \in SUBSET All, Closed(R) PROVE <<s, step[pick[s]][v]>> \in R
      <4>1. <<Less(s), v>> \in R
        BY <2>2, <3>2
      <4>. QED
        BY <2>2, <3>2, <4>1
    <3>. QED
      BY <3>1, <3>2
  <2>. QED
    BY <2>1, <2>2
<1>10. \A R \in SUBSET All : Closed(R) => Least \subseteq R
  OBVIOUS
<1>3. ASSUME NEW v \in V, <<{}, v>> \in Least PROVE v = base
  <2>. SUFFICES ASSUME v # base PROVE FALSE
    OBVIOUS
  <2>1. Closed(Least \ {<<{}, v>>})
    BY <1>2
  <2>2. Least \ {<<{}, v>>} \in SUBSET All
    OBVIOUS
  <2>. HIDE DEF Least, Closed
  <2>. QED
    BY <1>3, <1>10, <2>1, <2>2
<1>4. ASSUME NEW s \in SUBSET S, s # {}, NEW v \in V, <<s, v>> \in Least
      PROVE  \E w \in V : <<Less(s), w>> \in Least /\ v = step[pick[s]][w]
  <2>. SUFFICES ASSUME \A w \in V : <<Less(s), w>> \in Least => v # step[pick[s]][w]
                PROVE FALSE
    OBVIOUS
  <2>1. Closed(Least \ {<<s, v>>})
    <3>1. <<{}, base>> \in Least \ {<<s, v>>}
      BY <1>2, <1>4
    <3>2. ASSUME NEW u \in SUBSET S, NEW w \in V, u # {}, <<Less(u), w>> \in Least \ {<<s, v>>}
          PROVE  <<u, step[pick[u]][w]>> \in Least \ {<<s, v>>}
      <4>1. <<u, step[pick[u]][w]>> \in Least
        BY <1>2, <3>2
      <4>. QED
        BY <3>2, <4>1
    <3>. QED
      BY <3>1, <3>2
  <2>2. Least \ {<<s, v>>} \in SUBSET All
    OBVIOUS
  <2>. HIDE DEF Least, Closed
  <2>. QED
    BY <1>4, <1>10, <2>1, <2>2
<1> HIDE DEF Least
<1> DEFINE G == {s \in SUBSET S : \E v \in V : /\ <<s, v>> \in Least
                                               /\ \A w \in V : <<s, w>> \in Least => w = v}
<1>5. \A s \in SUBSET S : s \in G
  <2>1. ASSUME NEW s \in SUBSET S, \A u \in SUBSET s : u # s => u \in G
        PROVE  s \in G
    <3>1. CASE s = {}
      BY <1>2, <1>3, <3>1
    <3>2. CASE s # {}
      <4>1. Less(s) \in SUBSET s /\ Less(s) # s
        BY <3>2
      <4>2. PICK v \in V : /\ <<Less(s), v>> \in Least
                           /\ \A w \in V : <<Less(s), w>> \in Least => w = v
        BY <2>1, <4>1
      <4>3. <<s, step[pick[s]][v]>> \in Least /\ step[pick[s]][v] \in V
        BY <1>2, <3>2, <4>2
      <4>4. \A w \in V : <<s, w>> \in Least => w = step[pick[s]][v]
        BY <1>4, <3>2, <4>2
      <4>. QED
        BY <4>3, <4>4
    <3>. QED
      BY <3>1, <3>2
  <2>. HIDE DEF G
  <2>. QED
    BY <2>1, SubsetInduction
<1> DEFINE it == [s \in SUBSET S |-> CHOOSE v \in V : <<s, v>> \in Least]
<1>6. \A s \in SUBSET S : it[s] \in V /\ <<s, it[s]>> \in Least
  BY <1>5
<1>7. \A s \in SUBSET S : \A w \in V : <<s, w>> \in Least => w = it[s]
  BY <1>5, <1>6
<1>8. ASSUME NEW s \in SUBSET S
      PROVE  it[s] = IF s = {} THEN base ELSE step[pick[s]][it[Less(s)]]
  <2>1. CASE s = {}
    BY <1>2, <1>7, <2>1
  <2>2. CASE s # {}
    <3>1. Less(s) \in SUBSET S /\ it[Less(s)] \in V /\ <<Less(s), it[Less(s)]>> \in Least
      BY <1>6
    <3>2. <<s, step[pick[s]][it[Less(s)]]>> \in Least /\ step[pick[s]][it[Less(s)]] \in V
      BY <1>2, <2>2, <3>1
    <3>. QED
      BY <1>7, <2>2, <3>2
  <2>. QED
    BY <2>1, <2>2
<1>9. it \in [SUBSET S -> V]
  BY <1>6
<1>. HIDE DEF it
<1>. QED
  BY <1>8, <1>9 DEF IsFold

-----------------------------------------------------------------------------
(* Sums of integers: SumFunctionOnSet(f, S) adds f[x] for the x of S.      *)

\* The equations of the sum's recursion, whatever order it adds in.
LEMMA SumRecursion ==
  ASSUME NEW S, IsFiniteSet(S), NEW f, \A x \in S : f[x] \in Int
  PROVE  /\ SumFunctionOnSet(f, {}) = 0
         /\ \A s \in SUBSET S : SumFunctionOnSet(f, s) \in Int
         /\ \A s \in SUBSET S : s # {} =>
              \E x \in s : SumFunctionOnSet(f, s) = f[x] + SumFunctionOnSet(f, s \ {x})
<1> DEFINE step == [x \in S |-> [v \in Int |-> f[x] + v]]
           Rec(T, it) == it = [s \in SUBSET T |-> IF s = {} THEN 0
                                 ELSE f[CHOOSE x \in s : TRUE] + it[s \ {CHOOSE x \in s : TRUE}]]
<1>1. ASSUME NEW T \in SUBSET S
      PROVE  \E it \in [SUBSET T -> Int] : Rec(T, it)
  <2>1. IsFiniteSet(T)
    BY FS_Subset
  <2> DEFINE p == [s \in SUBSET T |-> CHOOSE x \in s : TRUE]
  <2>2. Picks(p, T)
    BY DEF Picks
  <2>3. Steps(step, T, Int)
    BY DEF Steps
  <2>. HIDE DEF step, p
  <2>4. PICK it \in [SUBSET T -> Int] : IsFold(it, T, 0, p, step)
    <3>1. 0 \in Int
      OBVIOUS
    <3>. QED
      BY <2>1, <2>2, <2>3, <3>1, FoldExists, Zenon
  <2>5. ASSUME NEW s \in SUBSET T, s # {}
        PROVE  it[s] = f[p[s]] + it[s \ {p[s]}]
    <3>1. p[s] \in S /\ s \ {p[s]} \in SUBSET T
      BY <2>2, <2>5 DEF Picks
    <3>. QED
      BY <2>4, <2>5, <3>1 DEF step, IsFold
  <2>6. \A s \in SUBSET T : p[s] = CHOOSE x \in s : TRUE
    BY DEF p
  <2>7. it[{}] = 0
    BY <2>4 DEF IsFold
  <2>8. Rec(T, it)
    BY <2>5, <2>6, <2>7
  <2>. QED
    BY <2>8
<1>2. ASSUME NEW T \in SUBSET S PROVE SumFunctionOnSet(f, T) = (CHOOSE it : Rec(T, it))[T]
  BY DEF SumFunctionOnSet, FoldFunctionOnSet, MapThenFoldSet
<1>3. ASSUME NEW T \in SUBSET S, NEW it, Rec(S, it), NEW jt, Rec(T, jt)
      PROVE  \A s \in SUBSET T : it[s] = jt[s]
  <2> DEFINE G == {s \in SUBSET T : it[s] = jt[s]}
  <2>1. ASSUME NEW s \in SUBSET T, \A u \in SUBSET s : u # s => u \in G PROVE s \in G
    <3>1. CASE s = {}
      BY <1>3, <3>1
    <3>2. CASE s # {}
      <4> DEFINE x == CHOOSE y \in s : TRUE
      <4>1. x \in s
        BY <3>2
      <4>2. it[s] = f[x] + it[s \ {x}] /\ jt[s] = f[x] + jt[s \ {x}]
        BY <1>3, <3>2
      <4>3. it[s \ {x}] = jt[s \ {x}]
        BY <2>1, <4>1
      <4>. QED
        BY <4>2, <4>3
    <3>. QED
      BY <3>1, <3>2
  <2>2. IsFiniteSet(T)
    BY FS_Subset
  <2>. HIDE DEF G
  <2>3. \A s \in SUBSET T : s \in G
    BY <2>1, <2>2, SubsetInduction
  <2>. QED
    BY <2>3 DEF G
<1>4. PICK it \in [SUBSET S -> Int] : Rec(S, it)
  BY <1>1
<1>5. ASSUME NEW T \in SUBSET S PROVE SumFunctionOnSet(f, T) = it[T]
  <2>. HIDE DEF Rec
  <2>1. \E jt : Rec(T, jt)
    BY <1>1
  <2>2. Rec(T, CHOOSE jt : Rec(T, jt))
    BY <2>1
  <2>3. T \in SUBSET T
    OBVIOUS
  <2>. QED
    BY <1>2, <1>3, <1>4, <2>2, <2>3
<1>6. ASSUME NEW s \in SUBSET S, s # {}
      PROVE  \E x \in s : it[s] = f[x] + it[s \ {x}]
  <2> DEFINE x == CHOOSE y \in s : TRUE
  <2>1. x \in s
    BY <1>6
  <2>2. it[s] = f[x] + it[s \ {x}]
    BY <1>4, <1>6
  <2>. QED
    BY <2>1, <2>2
<1>7. it[{}] = 0
  BY <1>4
<1>8. \A s \in SUBSET S : \A x \in s : s \ {x} \in SUBSET S
  OBVIOUS
<1>9. {} \in SUBSET S
  OBVIOUS
<1>. HIDE DEF Rec
<1>. QED
  BY <1>4, <1>5, <1>6, <1>7, <1>8, <1>9

\* Nothing sums to nothing.
LEMMA SumEmpty == \A f : SumFunctionOnSet(f, {}) = 0
<1>. TAKE f
<1>1. IsFiniteSet({}) /\ \A x \in {} : f[x] \in Int
  BY FS_EmptySet
<1>. QED
  BY <1>1, SumRecursion

\* A sum of integers is one.
LEMMA SumType ==
  ASSUME NEW S, IsFiniteSet(S), NEW f, \A x \in S : f[x] \in Int
  PROVE  SumFunctionOnSet(f, S) \in Int
<1>1. S \in SUBSET S
  OBVIOUS
<1>. QED
  BY <1>1, SumRecursion

\* Any element may be added last.
LEMMA SumRemove ==
  ASSUME NEW S, IsFiniteSet(S), NEW f, \A x \in S : f[x] \in Int, NEW z \in S
  PROVE  SumFunctionOnSet(f, S) = f[z] + SumFunctionOnSet(f, S \ {z})
<1> DEFINE Sum(s) == SumFunctionOnSet(f, s)
           G == {s \in SUBSET S : \A x \in s : Sum(s) = f[x] + Sum(s \ {x})}
<1>1. ASSUME NEW s \in SUBSET S, \A u \in SUBSET s : u # s => u \in G PROVE s \in G
  <2>. SUFFICES ASSUME NEW x \in s PROVE Sum(s) = f[x] + Sum(s \ {x})
    OBVIOUS
  <2>1. PICK y \in s : Sum(s) = f[y] + Sum(s \ {y})
    BY SumRecursion
  <2>2. CASE x = y
    BY <2>1, <2>2
  <2>3. CASE x # y
    <3> DEFINE r == (s \ {y}) \ {x}
    <3>1. r = (s \ {x}) \ {y} /\ r \in SUBSET S
      OBVIOUS
    <3>2. Sum(s \ {y}) = f[x] + Sum(r)
      <4>1. s \ {y} \in G /\ x \in s \ {y}
        BY <1>1, <2>3
      <4>. QED
        BY <4>1
    <3>3. Sum(s \ {x}) = f[y] + Sum(r)
      <4>1. s \ {x} \in G /\ y \in s \ {x}
        BY <1>1, <2>3
      <4>. QED
        BY <3>1, <4>1
    <3>4. f[x] \in Int /\ f[y] \in Int /\ Sum(r) \in Int
      BY <3>1, SumRecursion
    <3>. HIDE DEF Sum, r
    <3>. QED
      BY <2>1, <3>2, <3>3, <3>4
  <2>. QED
    BY <2>2, <2>3
<1>2. S \in SUBSET S
  OBVIOUS
<1>. HIDE DEF G
<1>3. S \in G
  BY <1>1, <1>2, SubsetInduction
<1>. QED
  BY <1>3 DEF G

\* One element more.
LEMMA SumInsert ==
  ASSUME NEW S, IsFiniteSet(S), NEW z, z \notin S, NEW f, \A x \in S \cup {z} : f[x] \in Int
  PROVE  SumFunctionOnSet(f, S \cup {z}) = f[z] + SumFunctionOnSet(f, S)
<1>1. IsFiniteSet(S \cup {z}) /\ z \in S \cup {z} /\ (S \cup {z}) \ {z} = S
  BY FS_AddElement
<1>. QED
  BY <1>1, SumRemove

\* A sum of one value.
LEMMA SumOne ==
  ASSUME NEW z, NEW f, f[z] \in Int
  PROVE  SumFunctionOnSet(f, {z}) = f[z]
<1>1. IsFiniteSet({}) /\ z \notin {} /\ \A x \in {} \cup {z} : f[x] \in Int
  BY FS_EmptySet
<1>2. SumFunctionOnSet(f, {} \cup {z}) = f[z] + SumFunctionOnSet(f, {})
  BY <1>1, SumInsert
<1>3. SumFunctionOnSet(f, {}) = 0 /\ {} \cup {z} = {z}
  BY SumEmpty
<1>. QED
  BY <1>2, <1>3

\* A sum is monotonic, term by term.
LEMMA SumLeq ==
  ASSUME NEW S, IsFiniteSet(S), NEW f, NEW g,
         \A x \in S : f[x] \in Int /\ g[x] \in Int /\ f[x] <= g[x]
  PROVE  SumFunctionOnSet(f, S) <= SumFunctionOnSet(g, S)
<1> DEFINE F(s) == SumFunctionOnSet(f, s)
           H(s) == SumFunctionOnSet(g, s)
           G == {s \in SUBSET S : F(s) <= H(s)}
<1>1. {} \in G
  BY SumEmpty
<1>2. ASSUME NEW T \in SUBSET S, NEW x \in S \ T, T \in G PROVE T \cup {x} \in G
  <2>1. IsFiniteSet(T)
    BY FS_Subset
  <2>2. F(T \cup {x}) = f[x] + F(T) /\ H(T \cup {x}) = g[x] + H(T)
    BY <2>1, SumInsert
  <2>3. F(T) \in Int /\ H(T) \in Int /\ F(T) <= H(T) /\ f[x] \in Int /\ g[x] \in Int /\ f[x] <= g[x]
    BY <1>2, <2>1, SumType
  <2>. HIDE DEF F, H
  <2>. QED
    BY <2>2, <2>3
<1>. HIDE DEF G
<1>3. S \in G
  BY <1>1, <1>2, SetInduction
<1>. QED
  BY <1>3 DEF G

\* Equal terms give equal sums.
LEMMA SumEqual ==
  ASSUME NEW S, IsFiniteSet(S), NEW f, NEW g, \A x \in S : f[x] \in Int /\ f[x] = g[x]
  PROVE  SumFunctionOnSet(f, S) = SumFunctionOnSet(g, S)
<1>1. \A x \in S : f[x] <= g[x] /\ g[x] <= f[x] /\ g[x] \in Int
  OBVIOUS
<1>2. SumFunctionOnSet(f, S) <= SumFunctionOnSet(g, S)
  BY <1>1, SumLeq
<1>3. SumFunctionOnSet(g, S) <= SumFunctionOnSet(f, S)
  BY <1>1, SumLeq
<1>4. SumFunctionOnSet(f, S) \in Int /\ SumFunctionOnSet(g, S) \in Int
  BY <1>1, SumType
<1>. QED
  BY <1>2, <1>3, <1>4

\* The sum of the sums of two functions.
LEMMA SumPlus ==
  ASSUME NEW S, IsFiniteSet(S), NEW f, NEW g, NEW h,
         \A x \in S : f[x] \in Int /\ g[x] \in Int /\ h[x] = f[x] + g[x]
  PROVE  SumFunctionOnSet(h, S) = SumFunctionOnSet(f, S) + SumFunctionOnSet(g, S)
<1> DEFINE F(s) == SumFunctionOnSet(f, s)
           K(s) == SumFunctionOnSet(g, s)
           H(s) == SumFunctionOnSet(h, s)
           G == {s \in SUBSET S : H(s) = F(s) + K(s)}
<1>1. {} \in G
  BY SumEmpty
<1>2. ASSUME NEW T \in SUBSET S, NEW x \in S \ T, T \in G PROVE T \cup {x} \in G
  <2>1. IsFiniteSet(T)
    BY FS_Subset
  <2>0. \A y \in T \cup {x} : f[y] \in Int /\ g[y] \in Int /\ h[y] \in Int
    OBVIOUS
  <2>2. F(T \cup {x}) = f[x] + F(T) /\ K(T \cup {x}) = g[x] + K(T) /\ H(T \cup {x}) = h[x] + H(T)
    BY <2>0, <2>1, SumInsert
  <2>3. F(T) \in Int /\ K(T) \in Int /\ H(T) = F(T) + K(T)
    BY <1>2, <2>1, SumType
  <2>4. f[x] \in Int /\ g[x] \in Int /\ h[x] = f[x] + g[x]
    OBVIOUS
  <2>. HIDE DEF F, H, K
  <2>. QED
    BY <2>2, <2>3, <2>4
<1>. HIDE DEF G
<1>3. S \in G
  BY <1>1, <1>2, SetInduction
<1>. QED
  BY <1>3 DEF G

\* The difference, likewise.
LEMMA SumMinus ==
  ASSUME NEW S, IsFiniteSet(S), NEW f, NEW g, NEW h,
         \A x \in S : f[x] \in Int /\ g[x] \in Int /\ h[x] = f[x] - g[x]
  PROVE  SumFunctionOnSet(h, S) = SumFunctionOnSet(f, S) - SumFunctionOnSet(g, S)
<1>1. \A x \in S : h[x] \in Int /\ g[x] \in Int /\ f[x] = h[x] + g[x]
  OBVIOUS
<1>2. SumFunctionOnSet(f, S) = SumFunctionOnSet(h, S) + SumFunctionOnSet(g, S)
  BY <1>1, SumPlus
<1>3. SumFunctionOnSet(h, S) \in Int /\ SumFunctionOnSet(g, S) \in Int
  BY <1>1, SumType
<1>. QED
  BY <1>2, <1>3

\* A sum over part of a set is one over the set, with nothing for the rest.
LEMMA SumPart ==
  ASSUME NEW S, IsFiniteSet(S), NEW P \in SUBSET S, NEW f, NEW g,
         \A x \in P : f[x] \in Int /\ g[x] = f[x], \A x \in S \ P : g[x] = 0
  PROVE  SumFunctionOnSet(f, P) = SumFunctionOnSet(g, S)
<1> DEFINE F(s) == SumFunctionOnSet(f, s)
           H(s) == SumFunctionOnSet(g, s)
           G == {s \in SUBSET S : F(s \cap P) = H(s)}
<1>1. {} \in G
  <2>1. {} \cap P = {}
    OBVIOUS
  <2>. QED
    BY <2>1, SumEmpty
<1>2. ASSUME NEW T \in SUBSET S, NEW x \in S \ T, T \in G PROVE T \cup {x} \in G
  <2>1. IsFiniteSet(T) /\ IsFiniteSet(T \cap P)
    BY FS_Subset
  <2>2. \A y \in S : g[y] \in Int
    OBVIOUS
  <2>3. H(T \cup {x}) = g[x] + H(T) /\ H(T) \in Int /\ g[x] \in Int
    BY <2>1, <2>2, SumInsert, SumType
  <2>4. CASE x \in P
    <3>1. (T \cup {x}) \cap P = (T \cap P) \cup {x} /\ x \notin T \cap P
      BY <2>4
    <3>2. \A y \in (T \cap P) \cup {x} : f[y] \in Int
      BY <2>4
    <3>3. F((T \cup {x}) \cap P) = f[x] + F(T \cap P)
      BY <2>1, <3>1, <3>2, SumInsert
    <3>. QED
      BY <1>2, <2>3, <2>4, <3>3
  <2>5. CASE x \notin P
    <3>1. (T \cup {x}) \cap P = T \cap P /\ g[x] = 0
      BY <2>5
    <3>2. F(T \cap P) = H(T)
      BY <1>2
    <3>3. H(T \cup {x}) = H(T)
      BY <2>3, <3>1
    <3>. HIDE DEF F, H
    <3>. QED
      BY <3>1, <3>2, <3>3
  <2>. QED
    BY <2>4, <2>5
<1>. HIDE DEF G
<1>3. S \in G
  BY <1>1, <1>2, SetInduction
<1>4. S \cap P = P
  OBVIOUS
<1>. QED
  BY <1>3, <1>4 DEF G

\* Two functions that differ at one place.
LEMMA SumChange ==
  ASSUME NEW S, IsFiniteSet(S), NEW z \in S, NEW f, NEW g,
         \A x \in S : f[x] \in Int /\ g[x] \in Int, \A x \in S \ {z} : g[x] = f[x]
  PROVE  SumFunctionOnSet(g, S) = SumFunctionOnSet(f, S) - f[z] + g[z]
<1>1. IsFiniteSet(S \ {z})
  BY FS_Subset
<1>2. SumFunctionOnSet(f, S) = f[z] + SumFunctionOnSet(f, S \ {z})
  BY SumRemove
<1>3. SumFunctionOnSet(g, S) = g[z] + SumFunctionOnSet(g, S \ {z})
  BY SumRemove
<1>4. SumFunctionOnSet(f, S \ {z}) = SumFunctionOnSet(g, S \ {z})
  BY <1>1, SumEqual
<1>5. SumFunctionOnSet(f, S \ {z}) \in Int
  BY <1>1, SumType
<1>. QED
  BY <1>2, <1>3, <1>4, <1>5

\* Terms that are not negative do not sum to less than nothing, nor to less than one of them.
LEMMA SumNat ==
  ASSUME NEW S, IsFiniteSet(S), NEW f, \A x \in S : f[x] \in Nat
  PROVE  /\ SumFunctionOnSet(f, S) \in Nat
         /\ \A x \in S : f[x] <= SumFunctionOnSet(f, S)
<1> DEFINE G == {s \in SUBSET S : SumFunctionOnSet(f, s) \in Nat}
<1>1. {} \in G
  BY SumEmpty
<1>2. ASSUME NEW T \in SUBSET S, NEW x \in S \ T, T \in G PROVE T \cup {x} \in G
  <2>1. IsFiniteSet(T)
    BY FS_Subset
  <2>2. \A y \in T \cup {x} : f[y] \in Int
    OBVIOUS
  <2>3. SumFunctionOnSet(f, T \cup {x}) = f[x] + SumFunctionOnSet(f, T)
    BY <2>1, <2>2, SumInsert
  <2>4. f[x] \in Nat /\ SumFunctionOnSet(f, T) \in Nat
    BY <1>2
  <2>. QED
    BY <2>3, <2>4
<1>. HIDE DEF G
<1>3. \A T \in SUBSET S : T \in G
  <2>. TAKE T \in SUBSET S
  <2>1. IsFiniteSet(T)
    BY FS_Subset
  <2>. QED
    BY <1>1, <1>2, <2>1, SetInduction
<1>4. \A T \in SUBSET S : SumFunctionOnSet(f, T) \in Nat
  BY <1>3 DEF G
<1>5. ASSUME NEW x \in S PROVE f[x] <= SumFunctionOnSet(f, S)
  <2>1. SumFunctionOnSet(f, S) = f[x] + SumFunctionOnSet(f, S \ {x})
    BY SumRemove
  <2>2. SumFunctionOnSet(f, S \ {x}) \in Nat
    BY <1>4
  <2>. QED
    BY <2>1, <2>2
<1>. QED
  BY <1>4, <1>5
=============================================================================
