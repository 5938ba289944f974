---------------------------- MODULE SharedFacts -----------------------------
(***************************************************************************)
(* What more than one of the proofs needs to know: of sums over sets, of   *)
(* folds over sequences, of flattened sequences, of sequences written at   *)
(* their end and of texts in texts; and of the draw that DbPool and Clusters share. For any   *)
(* finite cluster and any weights it finds a connection, and a round of as *)
(* many draws as the weights sum up to gives each exactly its weight.      *)
(* Every induction here is made from least elements: of a set of numbers,  *)
(* and of a set of finite sets.                                            *)
(***************************************************************************)
EXTENDS WeightedDraw, Sequences, SequencesExt, FiniteSetTheorems, SequenceTheorems, TLAPS

(* Induction, with a set in the place of a predicate.                      *)

\* A smallest one of a set of finite sets.
LEMMA LeastSet ==
    ASSUME NEW D, IsFiniteSet(D), NEW T \in SUBSET SUBSET D, T # {}
    PROVE  \E s \in T : \A t \in T : t \subseteq s => t = s
<1>1. IsWellFoundedOn(StrictSubsetOrdering(D), SUBSET D)
  BY FS_StrictSubsetOrderingWellFounded, FS_FiniteSubsetsOfFinite
<1>2. \E s \in T : \A t \in T : <<t, s>> \notin StrictSubsetOrdering(D)
  BY <1>1, WFMin
<1> QED BY <1>2 DEF StrictSubsetOrdering
LEMMA LeastNumber ==
    ASSUME NEW T \in SUBSET Nat, T # {}
    PROVE  \E x \in T : \A y \in T : x <= y
<1>1. PICK n \in T : TRUE
  OBVIOUS
<1> DEFINE D == 0 .. n
           Below == {x \in T : x <= n}
           F == {0 .. x : x \in Below}
<1>2. F \in SUBSET SUBSET D /\ F # {}
  BY <1>1
<1>3. IsFiniteSet(D)
  BY FS_Interval
<1>4. \E s \in F : \A t \in F : t \subseteq s => t = s
  <2> HIDE DEF F, D
  <2> QED BY <1>2, <1>3, LeastSet
<1>5. PICK s \in F : \A t \in F : t \subseteq s => t = s
  BY <1>4
<1>6. PICK x \in Below : s = 0 .. x
  BY <1>5
<1>7. \A y \in Below : 0 .. y \subseteq 0 .. x => 0 .. y = 0 .. x
  BY <1>5, <1>6
<1>8. ASSUME NEW y \in T, ~(x <= y)
      PROVE  FALSE
  <2>1. y \in Below /\ 0 .. y \subseteq 0 .. x /\ x \in 0 .. x /\ x \notin 0 .. y
    BY <1>8
  <2> QED BY <1>7, <2>1
<1> QED BY <1>8

LEMMA UpFromZero ==
    ASSUME NEW S, 0 \in S, \A n \in Nat : n \in S => n + 1 \in S
    PROVE  Nat \subseteq S
<1> SUFFICES ASSUME Nat \ S # {} PROVE FALSE
  OBVIOUS
<1>1. PICK x \in Nat \ S : \A y \in Nat \ S : x <= y
  <2> DEFINE T == Nat \ S
  <2>1. T \in SUBSET Nat /\ T # {}
    OBVIOUS
  <2> HIDE DEF T
  <2>2. \E x \in T : \A y \in T : x <= y
    BY <2>1, LeastNumber
  <2> QED BY <2>2 DEF T
<1>2. x # 0 /\ x - 1 \in Nat
  OBVIOUS
<1>3. x - 1 \in S
  BY <1>1, <1>2
<1> QED BY <1>2, <1>3


-----------------------------------------------------------------------------
(* A fold takes one element after the other out of a finite set. choose     *)
(* says which one is next, and step[x] is the function that takes x in.     *)

\* What h is to be on the subsets of S.
Folds(h, S, base, step, choose) ==
    \A t \in SUBSET S :
        h[t] = IF t = {} THEN base ELSE step[choose[t]][h[t \ {choose[t]}]]

LEMMA FoldsAgree ==
    ASSUME NEW S, IsFiniteSet(S), NEW base, NEW step, NEW choose,
           \A t \in SUBSET S : t # {} => choose[t] \in t,
           NEW h, NEW k, Folds(h, S, base, step, choose), Folds(k, S, base, step, choose)
    PROVE  \A t \in SUBSET S : h[t] = k[t]
<1> DEFINE F == {t \in SUBSET S : h[t] # k[t]}
<1> SUFFICES ASSUME F # {} PROVE FALSE
  OBVIOUS
<1>1. PICK t \in F : \A u \in F : u \subseteq t => u = t
  <2>1. F \in SUBSET SUBSET S
    OBVIOUS
  <2> HIDE DEF F
  <2> QED BY <2>1, LeastSet
<1>2. t # {}
  BY DEF Folds
<1> DEFINE u == t \ {choose[t]}
<1>3. u \in SUBSET S /\ u \subseteq t /\ u # t
  BY <1>2
<1>4. h[u] = k[u]
  BY <1>1, <1>3
<1>5. h[t] = step[choose[t]][h[u]] /\ k[t] = step[choose[t]][k[u]]
  BY <1>2 DEF Folds
<1> QED BY <1>4, <1>5

LEMMA FoldExists ==
    ASSUME NEW S, IsFiniteSet(S), NEW V, NEW base \in V, NEW step, NEW choose,
           \A t \in SUBSET S : t # {} => choose[t] \in t,
           \A x \in S, v \in V : step[x][v] \in V
    PROVE  \E h \in [SUBSET S -> V] : Folds(h, S, base, step, choose)
<1> DEFINE Good(s) == {h \in [SUBSET s -> V] : Folds(h, s, base, step, choose)}
           F == {s \in SUBSET S : Good(s) = {}}
<1> SUFFICES ASSUME F # {} PROVE FALSE
  OBVIOUS
<1>1. PICK s \in F : \A u \in F : u \subseteq s => u = s
  <2>1. F \in SUBSET SUBSET S
    OBVIOUS
  <2> HIDE DEF F
  <2> QED BY <2>1, LeastSet
<1>2. \A u \in SUBSET s : u # s => Good(u) # {}
  BY <1>1
<1> DEFINE part(u) == CHOOSE h \in Good(u) : TRUE
           rest(t) == t \ {choose[t]}
           h == [t \in SUBSET s |->
                   IF t = {} THEN base ELSE step[choose[t]][part(rest(t))[rest(t)]]]
<1>3. \A t \in SUBSET s : t # {} => choose[t] \in t /\ choose[t] \in S /\ rest(t) \in SUBSET s
                                     /\ rest(t) # s
  OBVIOUS
<1>4. \A u \in SUBSET s : u # s => part(u) \in Good(u)
  BY <1>2
<1>5. \A u \in SUBSET s : u # s => part(u)[u] \in V /\ Folds(part(u), u, base, step, choose)
  BY <1>4
<1>6. h \in [SUBSET s -> V]
  <2> SUFFICES ASSUME NEW t \in SUBSET s
               PROVE  (IF t = {} THEN base ELSE step[choose[t]][part(rest(t))[rest(t)]]) \in V
    OBVIOUS
  <2>1. CASE t # {}
    <3> HIDE DEF rest, part
    <3>1. part(rest(t))[rest(t)] \in V
      BY <1>3, <1>5, <2>1
    <3> QED BY <1>3, <2>1, <3>1
  <2> QED BY <2>1
<1>7. ASSUME NEW u \in SUBSET s, u # s
      PROVE  h[u] = part(u)[u]
  <2>1. CASE u = {}
    <3>1. h[u] = base
      BY <2>1
    <3> HIDE DEF h, part
    <3> QED BY <1>5, <1>7, <2>1, <3>1 DEF Folds
  <2>2. CASE u # {}
    <3> DEFINE r == rest(u)
    <3>1. r \in SUBSET s /\ r # s /\ r \in SUBSET u
      BY <1>3, <2>2
    <3> HIDE DEF part
    <3>2. part(u)[u] = step[choose[u]][part(u)[r]]
      BY <1>5, <1>7, <2>2 DEF Folds
    <3>3. h[u] = step[choose[u]][part(r)[r]]
      BY <2>2
    <3>4. part(u)[r] = part(r)[r]
      <4>1. IsFiniteSet(r)
        BY <3>1, FS_Subset
      <4>2. Folds(part(u), r, base, step, choose)
        BY <1>5, <1>7, <3>1 DEF Folds
      <4>3. Folds(part(r), r, base, step, choose)
        BY <1>5, <3>1
      <4>4. \A t \in SUBSET r : t # {} => choose[t] \in t
        BY <3>1
      <4> HIDE DEF r
      <4> QED BY <4>1, <4>2, <4>3, <4>4, FoldsAgree
    <3> QED BY <3>2, <3>3, <3>4
  <2> QED BY <2>1, <2>2
<1>8. Folds(h, s, base, step, choose)
  <2> SUFFICES ASSUME NEW t \in SUBSET s
               PROVE  h[t] = IF t = {} THEN base ELSE step[choose[t]][h[t \ {choose[t]}]]
    BY DEF Folds
  <2>1. CASE t # {}
    <3>1. h[rest(t)] = part(rest(t))[rest(t)]
      BY <1>3, <1>7, <2>1
    <3>2. h[t] = step[choose[t]][part(rest(t))[rest(t)]]
      BY <2>1
    <3> HIDE DEF h, part
    <3> QED BY <2>1, <3>1, <3>2
  <2>2. CASE t = {}
    BY <2>2
  <2> QED BY <2>1, <2>2
<1>9. h \in Good(s)
  BY <1>6, <1>8
<1> QED BY <1>1, <1>9

-----------------------------------------------------------------------------
(* Sums over finite sets.                                                  *)

Some(t) == CHOOSE x \in t : TRUE
SumStep(w, S) == [x \in S |-> [v \in Int |-> w[x] + v]]
SumChoose(S) == [t \in SUBSET S |-> Some(t)]
Sums(h, w, S) == h \in [SUBSET S -> Int] /\ Folds(h, S, 0, SumStep(w, S), SumChoose(S))

LEMMA SumChooses ==
    ASSUME NEW S
    PROVE  \A t \in SUBSET S : t # {} => SumChoose(S)[t] = Some(t) /\ Some(t) \in t
BY DEF SumChoose, Some

LEMMA SumFolds ==
    ASSUME NEW w, NEW S, IsFiniteSet(S), \A x \in S : w[x] \in Int
    PROVE  \E h \in [SUBSET S -> Int] : /\ Folds(h, S, 0, SumStep(w, S), SumChoose(S))
                                        /\ SumFunctionOnSet(w, S) = h[S]
<1> DEFINE Obeys(g) ==
             g = [s \in SUBSET S |-> IF s = {} THEN 0 ELSE w[Some(s)] + g[s \ {Some(s)}]]
           iter == CHOOSE g : Obeys(g)
           base == 0
           V == Int
           step == SumStep(w, S)
           choose == SumChoose(S)
<1>1. \E h \in [SUBSET S -> V] : Folds(h, S, base, step, choose)
  <2>1. \A x \in S, v \in V : step[x][v] \in V
    BY DEF SumStep
  <2>2. \A t \in SUBSET S : t # {} => choose[t] \in t
    BY SumChooses
  <2>3. base \in V
    OBVIOUS
  <2> HIDE DEF step, choose, base, V
  <2> QED BY <2>1, <2>2, <2>3, FoldExists
<1>2. PICK h \in [SUBSET S -> Int] : Folds(h, S, 0, step, choose)
  BY <1>1
<1>3. \A g \in [SUBSET S -> Int] : Folds(g, S, 0, step, choose) => Obeys(g)
  <2> SUFFICES ASSUME NEW g \in [SUBSET S -> Int], Folds(g, S, 0, step, choose)
               PROVE  Obeys(g)
    OBVIOUS
  <2>1. ASSUME NEW s \in SUBSET S
        PROVE  g[s] = IF s = {} THEN 0 ELSE w[Some(s)] + g[s \ {Some(s)}]
    <3>1. CASE s # {}
      <4>1. Some(s) \in S /\ choose[s] = Some(s) /\ g[s \ {Some(s)}] \in Int
        BY <3>1, SumChooses
      <4>2. g[s] = step[choose[s]][g[s \ {choose[s]}]]
        BY <3>1 DEF Folds
      <4> QED BY <3>1, <4>1, <4>2 DEF SumStep
    <3>2. CASE s = {}
      BY <3>2 DEF Folds
    <3> QED BY <3>1, <3>2
  <2> QED BY <2>1
<1>4. Obeys(iter)
  BY <1>2, <1>3
<1>5. SumFunctionOnSet(w, S) = iter[S]
  BY DEF SumFunctionOnSet, FoldFunctionOnSet, MapThenFoldSet, Some
<1>6. iter[S] = h[S]
  <2>1. Obeys(h)
    BY <1>2, <1>3
  <2> DEFINE F == {t \in SUBSET S : iter[t] # h[t]}
  <2> SUFFICES ASSUME F # {} PROVE FALSE
    OBVIOUS
  <2>2. PICK t \in F : \A u \in F : u \subseteq t => u = t
    <3>1. F \in SUBSET SUBSET S
      OBVIOUS
    <3> HIDE DEF F
    <3> QED BY <3>1, LeastSet
  <2> HIDE DEF iter
  <2>3. CASE t = {}
    BY <1>4, <2>1, <2>3
  <2>4. CASE t # {}
    <3>1. t \ {Some(t)} # t /\ t \ {Some(t)} \in SUBSET S
      BY <2>4, SumChooses
    <3>2. iter[t \ {Some(t)}] = h[t \ {Some(t)}]
      BY <2>2, <3>1
    <3> QED BY <1>4, <2>1, <2>4, <3>2
  <2> QED BY <2>3, <2>4
<1> QED BY <1>2, <1>5, <1>6

\* The sum of a part of S is the value its fold has there.
LEMMA SumOfPart ==
    ASSUME NEW w, NEW S, IsFiniteSet(S), \A x \in S : w[x] \in Int,
           NEW h, Sums(h, w, S), NEW T \in SUBSET S
    PROVE  SumFunctionOnSet(w, T) = h[T]
<1>0. h \in [SUBSET S -> Int] /\ Folds(h, S, 0, SumStep(w, S), SumChoose(S))
  BY DEF Sums
<1>1. IsFiniteSet(T)
  BY FS_Subset
<1>2. PICK k \in [SUBSET T -> Int] : /\ Folds(k, T, 0, SumStep(w, T), SumChoose(T))
                                     /\ SumFunctionOnSet(w, T) = k[T]
  BY <1>1, SumFolds
<1>3. ASSUME NEW s \in SUBSET T
      PROVE  h[s] = IF s = {} THEN 0 ELSE SumStep(w, T)[SumChoose(T)[s]][h[s \ {SumChoose(T)[s]}]]
  <2>1. CASE s # {}
    <3>1. /\ SumChoose(S)[s] = Some(s) /\ SumChoose(T)[s] = Some(s)
          /\ Some(s) \in T /\ h[s \ {Some(s)}] \in Int
      BY <1>0, <2>1, SumChooses
    <3>2. SumStep(w, S)[Some(s)][h[s \ {Some(s)}]] = SumStep(w, T)[Some(s)][h[s \ {Some(s)}]]
      BY <3>1 DEF SumStep
    <3> QED BY <1>0, <2>1, <3>1, <3>2 DEF Folds
  <2>2. CASE s = {}
    BY <1>0, <2>2 DEF Folds
  <2> QED BY <2>1, <2>2
<1>4. Folds(h, T, 0, SumStep(w, T), SumChoose(T))
  BY <1>3 DEF Folds
<1>5. h[T] = k[T]
  <2> DEFINE base == 0
             step == SumStep(w, T)
             choose == SumChoose(T)
  <2>1. \A t \in SUBSET T : t # {} => choose[t] \in t
    BY SumChooses
  <2>2. Folds(h, T, base, step, choose) /\ Folds(k, T, base, step, choose)
    BY <1>2, <1>4
  <2> HIDE DEF base, step, choose
  <2> QED BY <1>1, <2>1, <2>2, FoldsAgree
<1> QED BY <1>2, <1>5

LEMMA SumType ==
    ASSUME NEW w, NEW S, IsFiniteSet(S), \A x \in S : w[x] \in Int
    PROVE  SumFunctionOnSet(w, S) \in Int
<1>1. PICK h \in [SUBSET S -> Int] : SumFunctionOnSet(w, S) = h[S]
  BY SumFolds
<1>2. S \in SUBSET S
  OBVIOUS
<1> QED BY <1>1, <1>2

LEMMA SumEmpty ==
    ASSUME NEW w
    PROVE  SumFunctionOnSet(w, {}) = 0
<1>1. \E h \in [SUBSET {} -> Int] : /\ Folds(h, {}, 0, SumStep(w, {}), SumChoose({}))
                                    /\ SumFunctionOnSet(w, {}) = h[{}]
  BY SumFolds, FS_EmptySet
<1> QED BY <1>1 DEF Folds

\* Any element may be taken out.
LEMMA SumWithout ==
    ASSUME NEW w, NEW S, IsFiniteSet(S), \A x \in S : w[x] \in Int, NEW x \in S
    PROVE  SumFunctionOnSet(w, S) = w[x] + SumFunctionOnSet(w, S \ {x})
<1>1. PICK h \in [SUBSET S -> Int] : /\ Folds(h, S, 0, SumStep(w, S), SumChoose(S))
                                     /\ SumFunctionOnSet(w, S) = h[S]
  BY SumFolds
<1>2. ASSUME NEW T \in SUBSET S PROVE SumFunctionOnSet(w, T) = h[T]
  <2>1. Sums(h, w, S)
    BY <1>1 DEF Sums
  <2> QED BY <2>1, SumOfPart
<1>3. ASSUME NEW t \in SUBSET S, t # {}
      PROVE  h[t] = w[Some(t)] + h[t \ {Some(t)}] /\ Some(t) \in t
  <2>1. SumChoose(S)[t] = Some(t) /\ Some(t) \in t /\ h[t \ {Some(t)}] \in Int
    BY <1>3, SumChooses
  <2>2. h[t] = SumStep(w, S)[Some(t)][h[t \ {Some(t)}]]
    BY <1>1, <1>3, <2>1 DEF Folds
  <2> QED BY <2>1, <2>2 DEF SumStep
<1> DEFINE Wrong(t, y) == h[t] # w[y] + h[t \ {y}]
           F == {t \in SUBSET S : \E y \in t : Wrong(t, y)}
<1>4. F = {}
  <2> SUFFICES ASSUME F # {} PROVE FALSE
    OBVIOUS
  <2>1. PICK t \in F : \A u \in F : u \subseteq t => u = t
    <3>1. F \in SUBSET SUBSET S
      OBVIOUS
    <3> HIDE DEF F
    <3> QED BY <3>1, LeastSet
  <2>2. PICK y \in t : h[t] # w[y] + h[t \ {y}]
    BY <2>1
  <2> DEFINE c == Some(t)
  <2>3. h[t] = w[c] + h[t \ {c}] /\ c \in t /\ c # y
    BY <1>3, <2>2
  <2> HIDE DEF c
  <2>4. t \ {c} \notin F /\ t \ {y} \notin F
    BY <2>1, <2>3
  <2>5. h[t \ {c}] = w[y] + h[(t \ {c}) \ {y}] /\ h[t \ {y}] = w[c] + h[(t \ {y}) \ {c}]
    BY <2>3, <2>4
  <2>6. (t \ {c}) \ {y} = (t \ {y}) \ {c}
    OBVIOUS
  <2> DEFINE r == h[(t \ {c}) \ {y}]
  <2>7. r \in Int /\ w[c] \in Int /\ w[y] \in Int
    BY <2>3
  <2> HIDE DEF r
  <2>8. h[t] = w[c] + (w[y] + r) /\ h[t \ {y}] = w[c] + r
    BY <2>3, <2>5, <2>6 DEF r
  <2> QED BY <2>2, <2>7, <2>8
<1>5. h[S] = w[x] + h[S \ {x}]
  BY <1>4
<1> QED BY <1>2, <1>5

\* What holds of the empty set and of every set when it holds of the set without one
\* of its elements, holds of S.
LEMMA SetInduction ==
    ASSUME NEW S, IsFiniteSet(S), NEW G, {} \in G,
           \A t \in SUBSET S : \A x \in t : t \ {x} \in G => t \in G
    PROVE  S \in G
<1> DEFINE F == {t \in SUBSET S : t \notin G}
<1> SUFFICES ASSUME F # {} PROVE FALSE
  OBVIOUS
<1>1. PICK t \in F : \A u \in F : u \subseteq t => u = t
  <2>1. F \in SUBSET SUBSET S
    OBVIOUS
  <2> HIDE DEF F
  <2> QED BY <2>1, LeastSet
<1>2. PICK x \in t : TRUE
  BY <1>1
<1>3. t \ {x} \in G
  BY <1>1
<1> QED BY <1>3

LEMMA SumPlus ==
    ASSUME NEW S, IsFiniteSet(S), NEW u, NEW v, NEW w,
           \A x \in S : v[x] \in Int /\ w[x] \in Int /\ u[x] = v[x] + w[x]
    PROVE  SumFunctionOnSet(u, S) = SumFunctionOnSet(v, S) + SumFunctionOnSet(w, S)
<1> DEFINE s(t) == SumFunctionOnSet(u, t)
           a(t) == SumFunctionOnSet(v, t)
           b(t) == SumFunctionOnSet(w, t)
           G == {t \in SUBSET S : s(t) = a(t) + b(t)}
<1>1. {} \in G
  BY SumEmpty
<1>2. ASSUME NEW t \in SUBSET S, NEW x \in t, t \ {x} \in G
      PROVE  t \in G
  <2>1. IsFiniteSet(t) /\ IsFiniteSet(t \ {x})
    BY FS_Subset
  <2>2. s(t) = u[x] + s(t \ {x}) /\ a(t) = v[x] + a(t \ {x}) /\ b(t) = w[x] + b(t \ {x})
    BY <2>1, SumWithout
  <2>3. a(t \ {x}) \in Int /\ b(t \ {x}) \in Int
    BY <2>1, SumType
  <2>4. s(t \ {x}) = a(t \ {x}) + b(t \ {x})
    BY <1>2
  <2> HIDE DEF s, a, b
  <2> QED BY <2>2, <2>3, <2>4
<1>3. S \in G
  <2> HIDE DEF G
  <2> QED BY <1>1, <1>2, SetInduction
<1> QED BY <1>3

LEMMA SumAtMost ==
    ASSUME NEW S, IsFiniteSet(S), NEW u, NEW v,
           \A x \in S : u[x] \in Int /\ v[x] \in Int /\ u[x] <= v[x]
    PROVE  /\ SumFunctionOnSet(u, S) <= SumFunctionOnSet(v, S)
           /\ SumFunctionOnSet(u, S) = SumFunctionOnSet(v, S) => \A x \in S : u[x] = v[x]
<1> DEFINE s(t) == SumFunctionOnSet(u, t)
           a(t) == SumFunctionOnSet(v, t)
           G == {t \in SUBSET S : s(t) <= a(t) /\ (s(t) = a(t) => \A x \in t : u[x] = v[x])}
<1>1. {} \in G
  BY SumEmpty
<1>2. ASSUME NEW t \in SUBSET S, NEW x \in t, t \ {x} \in G
      PROVE  t \in G
  <2>1. IsFiniteSet(t) /\ IsFiniteSet(t \ {x})
    BY FS_Subset
  <2>2. s(t) = u[x] + s(t \ {x}) /\ a(t) = v[x] + a(t \ {x})
    BY <2>1, SumWithout
  <2>3. a(t \ {x}) \in Int /\ s(t \ {x}) \in Int
    BY <2>1, SumType
  <2>4. /\ s(t \ {x}) <= a(t \ {x})
        /\ s(t \ {x}) = a(t \ {x}) => \A y \in t \ {x} : u[y] = v[y]
    BY <1>2
  <2>5. u[x] \in Int /\ v[x] \in Int /\ u[x] <= v[x]
    OBVIOUS
  <2> HIDE DEF s, a
  <2>6. s(t) <= a(t)
    BY <2>2, <2>3, <2>4, <2>5
  <2>7. s(t) = a(t) => u[x] = v[x] /\ s(t \ {x}) = a(t \ {x})
    BY <2>2, <2>3, <2>4, <2>5
  <2> QED BY <2>4, <2>6, <2>7
<1>3. S \in G
  <2> HIDE DEF G
  <2> QED BY <1>1, <1>2, SetInduction
<1> QED BY <1>3

LEMMA SumSame ==
    ASSUME NEW S, IsFiniteSet(S), NEW u, NEW v, \A x \in S : u[x] \in Int /\ u[x] = v[x]
    PROVE  SumFunctionOnSet(u, S) = SumFunctionOnSet(v, S)
<1>1. SumFunctionOnSet(u, S) \in Int /\ SumFunctionOnSet(v, S) \in Int
  BY SumType
<1>2. SumFunctionOnSet(u, S) <= SumFunctionOnSet(v, S)
  BY SumAtMost
<1>3. SumFunctionOnSet(v, S) <= SumFunctionOnSet(u, S)
  BY SumAtMost
<1> QED BY <1>1, <1>2, <1>3

\* A sum of zeros is zero.
LEMMA SumZero ==
    ASSUME NEW S, IsFiniteSet(S), NEW u, \A x \in S : u[x] = 0
    PROVE  SumFunctionOnSet(u, S) = 0
<1> DEFINE G == {t \in SUBSET S : SumFunctionOnSet(u, t) = 0}
<1>1. {} \in G
  BY SumEmpty
<1>2. ASSUME NEW t \in SUBSET S, NEW x \in t, t \ {x} \in G
      PROVE  t \in G
  <2>1. IsFiniteSet(t)
    BY FS_Subset
  <2>2. SumFunctionOnSet(u, t) = u[x] + SumFunctionOnSet(u, t \ {x})
    BY <2>1, SumWithout
  <2> QED BY <1>2, <2>2
<1>3. S \in G
  <2> HIDE DEF G
  <2> QED BY <1>1, <1>2, SetInduction
<1> QED BY <1>3

\* A sum whose terms are m or nothing.
LEMMA SumOfEqual ==
    ASSUME NEW S, IsFiniteSet(S), NEW T \in SUBSET S, NEW m \in Nat, NEW u,
           \A x \in S : u[x] = IF x \in T THEN m ELSE 0
    PROVE  SumFunctionOnSet(u, S) = Cardinality(T) * m
<1> DEFINE s(t) == SumFunctionOnSet(u, t)
           c(t) == Cardinality(t \cap T)
           G == {t \in SUBSET S : s(t) = c(t) * m}
<1>1. {} \in G
  <2>1. s({}) = 0
    BY SumEmpty
  <2>2. Cardinality({}) = 0 /\ {} \cap T = {}
    BY FS_EmptySet
  <2>3. c({}) * m = 0
    BY <2>2
  <2> HIDE DEF s, c
  <2> QED BY <2>1, <2>3
<1>2. ASSUME NEW t \in SUBSET S, NEW x \in t, t \ {x} \in G
      PROVE  t \in G
  <2>1. IsFiniteSet(t) /\ IsFiniteSet(t \cap T)
    BY FS_Subset
  <2>2. s(t) = u[x] + s(t \ {x})
    BY <2>1, SumWithout
  <2>3. s(t \ {x}) = c(t \ {x}) * m
    BY <1>2
  <2>4. CASE x \in T
    <3>1. (t \ {x}) \cap T = (t \cap T) \ {x} /\ x \in t \cap T
      BY <2>4
    <3>2. c(t \ {x}) = c(t) - 1 /\ c(t) \in Nat
      <4> DEFINE p == t \cap T
      <4>1. IsFiniteSet(p) /\ x \in p /\ c(t) = Cardinality(p) /\ c(t \ {x}) = Cardinality(p \ {x})
        BY <2>1, <3>1
      <4> HIDE DEF p, c
      <4>2. Cardinality(p) \in Nat /\ Cardinality(p \ {x}) = Cardinality(p) - 1
        BY <4>1, FS_RemoveElement, FS_CardinalityType
      <4> QED BY <4>1, <4>2
    <3>3. u[x] = m
      BY <2>4
    <3> HIDE DEF s, c
    <3>4. s(t) = m + (c(t) - 1) * m
      BY <2>2, <2>3, <3>2, <3>3
    <3>5. s(t) = c(t) * m
      BY <3>2, <3>4
    <3> QED BY <3>5
  <2>5. CASE x \notin T
    <3>1. (t \ {x}) \cap T = t \cap T
      BY <2>5
    <3>2. c(t \ {x}) = c(t) /\ c(t) \in Nat
      BY <2>1, <3>1, FS_CardinalityType
    <3>3. u[x] = 0
      BY <2>5
    <3> HIDE DEF s, c
    <3> QED BY <2>2, <2>3, <3>2, <3>3
  <2> QED BY <2>4, <2>5
<1>3. S \in G
  <2> HIDE DEF G
  <2> QED BY <1>1, <1>2, SetInduction
<1>4. S \cap T = T
  OBVIOUS
<1> QED BY <1>3, <1>4

\* A sum of naturals is at least as large as each of them.
LEMMA SumOfNaturals ==
    ASSUME NEW S, IsFiniteSet(S), NEW u, \A x \in S : u[x] \in Nat
    PROVE  SumFunctionOnSet(u, S) \in Nat /\ \A x \in S : u[x] <= SumFunctionOnSet(u, S)
<1> DEFINE zero == [x \in S |-> 0]
<1>1. ASSUME NEW t \in SUBSET S
      PROVE  SumFunctionOnSet(u, t) \in Nat
  <2>1. IsFiniteSet(t)
    BY FS_Subset
  <2>2. SumFunctionOnSet(zero, t) = 0
    BY <2>1, SumZero
  <2>3. SumFunctionOnSet(u, t) \in Int
    BY <2>1, SumType
  <2>4. SumFunctionOnSet(zero, t) <= SumFunctionOnSet(u, t)
    BY <2>1, SumAtMost
  <2> QED BY <2>2, <2>3, <2>4
<1>2. ASSUME NEW x \in S
      PROVE  u[x] <= SumFunctionOnSet(u, S)
  <2>1. SumFunctionOnSet(u, S) = u[x] + SumFunctionOnSet(u, S \ {x})
    BY SumWithout
  <2>2. SumFunctionOnSet(u, S \ {x}) \in Nat
    BY <1>1
  <2> QED BY <2>1, <2>2
<1> QED BY <1>1, <1>2

\* A sum above zero has a term above zero.
LEMMA SumPositive ==
    ASSUME NEW S, IsFiniteSet(S), NEW u, \A x \in S : u[x] \in Int, SumFunctionOnSet(u, S) > 0
    PROVE  \E x \in S : u[x] > 0
<1> DEFINE zero == [x \in S |-> 0]
<1> SUFFICES ASSUME \A x \in S : u[x] <= 0 PROVE FALSE
  OBVIOUS
<1>1. SumFunctionOnSet(u, S) <= SumFunctionOnSet(zero, S)
  BY SumAtMost
<1>2. SumFunctionOnSet(zero, S) = 0
  BY SumZero
<1> QED BY <1>1, <1>2, SumType

\* One term changes.
LEMMA SumChanged ==
    ASSUME NEW S, IsFiniteSet(S), NEW u, NEW v, NEW x \in S,
           \A y \in S : u[y] \in Int /\ v[y] \in Int,
           \A y \in S : y # x => v[y] = u[y]
    PROVE  SumFunctionOnSet(v, S) = SumFunctionOnSet(u, S) - u[x] + v[x]
<1>1. IsFiniteSet(S \ {x})
  BY FS_Subset
<1>2. SumFunctionOnSet(u, S \ {x}) = SumFunctionOnSet(v, S \ {x})
  <2>1. \A y \in S \ {x} : u[y] \in Int /\ u[y] = v[y]
    OBVIOUS
  <2> QED BY <1>1, <2>1, SumSame
<1>3. /\ SumFunctionOnSet(u, S) = u[x] + SumFunctionOnSet(u, S \ {x})
      /\ SumFunctionOnSet(v, S) = v[x] + SumFunctionOnSet(v, S \ {x})
  BY SumWithout
<1>4. SumFunctionOnSet(u, S \ {x}) \in Int
  BY <1>1, SumType
<1> QED BY <1>2, <1>3, <1>4

-----------------------------------------------------------------------------
(* Numbers in order, and numbers by their remainder.                       *)

Ascending(ids, n, S) ==
    /\ ids \in [1 .. n -> S]
    /\ \A i, j \in 1 .. n : i < j => ids[i] < ids[j]

\* The elements of a finite set of numbers can be listed in order, and such a list
\* has each of them once.
LEMMA ListInOrder ==
    ASSUME NEW S, IsFiniteSet(S), \A x \in S : x \in Nat
    PROVE  \E ids : Ascending(ids, Cardinality(S), S)
<1> DEFINE Listed(t) == \E ids : Ascending(ids, Cardinality(t), t)
           F == {t \in SUBSET S : ~Listed(t)}
<1> SUFFICES ASSUME F # {} PROVE FALSE
  OBVIOUS
<1>1. PICK t \in F : \A u \in F : u \subseteq t => u = t
  <2>1. F \in SUBSET SUBSET S
    OBVIOUS
  <2> HIDE DEF F
  <2> QED BY <2>1, LeastSet
<1>2. t \in SUBSET S /\ IsFiniteSet(t) /\ ~Listed(t)
  BY FS_Subset
<1>3. t # {}
  <2> SUFFICES ASSUME t = {} PROVE FALSE
    OBVIOUS
  <2>1. Cardinality(t) = 0
    BY FS_EmptySet
  <2>2. Ascending([i \in 1 .. 0 |-> 0], 0, t)
    BY DEF Ascending
  <2> QED BY <1>2, <2>1, <2>2
<1>4. PICK m \in t : \A x \in t : m <= x
  <2>1. t \in SUBSET Nat
    BY <1>2
  <2> QED BY <1>3, <2>1, LeastNumber
<1> DEFINE u == t \ {m}
           n == Cardinality(u)
<1>5. u # t /\ u \subseteq t
  OBVIOUS
<1>6. PICK ids : Ascending(ids, n, u)
  <2> HIDE DEF u
  <2>1. u \notin F
    BY <1>1, <1>5
  <2> QED BY <1>2, <1>5, <2>1
<1>7. n \in Nat /\ Cardinality(t) = n + 1
  <2>1. /\ IsFiniteSet(u) /\ Cardinality(u) = Cardinality(t) - 1
        /\ Cardinality(t) \in Nat /\ Cardinality(u) \in Nat
    BY <1>2, FS_RemoveElement, FS_CardinalityType
  <2> QED BY <2>1
<1> DEFINE more == [i \in 1 .. n + 1 |-> IF i = 1 THEN m ELSE ids[i - 1]]
<1> HIDE DEF n
<1>8. Ascending(more, n + 1, t)
  <2>1. ids \in [1 .. n -> u] /\ \A i, j \in 1 .. n : i < j => ids[i] < ids[j]
    BY <1>6 DEF Ascending
  <2>2. \A i \in 1 .. n + 1 : i # 1 => i - 1 \in 1 .. n /\ more[i] = ids[i - 1] /\ more[i] \in u
    BY <1>7, <2>1
  <2>3. more \in [1 .. n + 1 -> t]
    BY <1>7, <2>2
  <2>4. ASSUME NEW i \in 1 .. n + 1, NEW j \in 1 .. n + 1, i < j
        PROVE  more[i] < more[j]
    <3>1. j # 1 /\ j - 1 \in 1 .. n /\ more[j] = ids[j - 1] /\ more[j] \in u
      BY <2>2, <2>4
    <3>2. CASE i = 1
      <4>1. more[i] = m
        BY <1>7, <3>2
      <4>2. more[j] \in Nat /\ m \in Nat /\ m <= more[j] /\ m # more[j]
        BY <1>2, <1>4, <3>1
      <4> QED BY <4>1, <4>2
    <3>3. CASE i # 1
      <4>1. i - 1 \in 1 .. n /\ more[i] = ids[i - 1] /\ i - 1 < j - 1
        BY <2>2, <2>4, <3>3
      <4> QED BY <2>1, <3>1, <4>1
    <3> QED BY <3>2, <3>3
  <2> QED BY <2>3, <2>4 DEF Ascending
<1> QED BY <1>2, <1>7, <1>8

LEMMA ListHasAll ==
    ASSUME NEW S, IsFiniteSet(S), \A x \in S : x \in Nat,
           NEW ids, Ascending(ids, Cardinality(S), S)
    PROVE  /\ \A x \in S : \E i \in 1 .. Cardinality(S) : ids[i] = x
           /\ \A i, j \in 1 .. Cardinality(S) : ids[i] = ids[j] => i = j
<1> DEFINE n == Cardinality(S)
           D == 1 .. n
<1>1. n \in Nat
  BY FS_CardinalityType
<1>2. ids \in [D -> S] /\ \A i, j \in D : i < j => ids[i] < ids[j]
  BY DEF Ascending
<1> HIDE DEF n
<1>3. \A i, j \in D : ids[i] = ids[j] => i = j
  <2> SUFFICES ASSUME NEW i \in D, NEW j \in D, ids[i] = ids[j] PROVE i = j
    OBVIOUS
  <2>1. ids[i] \in Nat /\ ids[j] \in Nat
    BY <1>2
  <2>2. ~(i < j) /\ ~(j < i)
    BY <1>2, <2>1
  <2> QED BY <1>1, <2>2
<1>4. Cardinality(D) = n
  BY <1>1, FS_Interval
<1> HIDE DEF D
<1>5. ids \in Injection(D, S)
  BY <1>2, <1>3 DEF Injection, IsInjective
<1>6. ids \in Surjection(D, S)
  BY <1>4, <1>5, FS_Injection DEF n
<1> QED BY <1>3, <1>6 DEF Surjection, D, n

\* Division with a remainder has one result.
LEMMA Division ==
    ASSUME NEW L \in Nat \ {0}, NEW x \in Int, NEW q \in Int, NEW y \in 0 .. L - 1,
           x = L * q + y
    PROVE  x \div L = q /\ x % L = y
<1> DEFINE p == x \div L
           z == x % L
<1>1. p \in Int /\ z \in 0 .. L - 1 /\ x = L * p + z
  OBVIOUS
<1> HIDE DEF p, z
<1>2. L * (p - q) = y - z
  BY <1>1
<1> DEFINE k == p - q
<1>3. k \in Int /\ L * k = y - z /\ y - z < L /\ y - z > -L
  BY <1>1, <1>2
<1> HIDE DEF k
<1>4. ~(k >= 1)
  <2> SUFFICES ASSUME k >= 1 PROVE FALSE
    OBVIOUS
  <2>1. L * k >= L
    BY <1>3
  <2> QED BY <1>1, <1>3, <2>1
<1>5. ~(k <= -1)
  <2> SUFFICES ASSUME k <= -1 PROVE FALSE
    OBVIOUS
  <2>1. L * k <= -L
    BY <1>3
  <2> QED BY <1>1, <1>3, <2>1
<1>6. k = 0
  BY <1>3, <1>4, <1>5
<1>7. y - z = 0 /\ p = q
  BY <1>1, <1>3, <1>6 DEF k
<1> QED BY <1>1, <1>7 DEF z, p

\* Of the first n numbers, those with one remainder: one of every L.
WithRemainder(n, L, r) == {i \in 1 .. n : (i - 1) % L = r}

LEMMA RemaindersFew ==
    ASSUME NEW n \in Nat, NEW L \in Nat \ {0}, NEW m \in Nat, n <= L * m, NEW r \in 0 .. L - 1
    PROVE  Cardinality(WithRemainder(n, L, r)) <= m
<1> DEFINE R == WithRemainder(n, L, r)
           f == [i \in R |-> ((i - 1) \div L) + 1]
<1>1. ASSUME NEW i \in R
      PROVE  f[i] \in 1 .. m /\ i - 1 = L * (f[i] - 1) + r
  <2> DEFINE q == (i - 1) \div L
  <2>1. q \in Int /\ i \in 1 .. n /\ i - 1 = L * q + r
    BY DEF WithRemainder
  <2>2. f[i] = q + 1
    OBVIOUS
  <2> HIDE DEF q, f
  <2>3. q >= 0
    <3> SUFFICES ASSUME q <= -1 PROVE FALSE
      BY <2>1
    <3>1. L * q <= -L
      BY <2>1
    <3> QED BY <2>1, <3>1
  <2>4. q < m
    <3> SUFFICES ASSUME q >= m PROVE FALSE
      BY <2>1
    <3>1. L * q >= L * m
      BY <2>1
    <3> QED BY <2>1, <3>1
  <2>5. f[i] - 1 = q /\ q + 1 \in 1 .. m
    BY <2>1, <2>2, <2>3, <2>4
  <2> QED BY <2>1, <2>2, <2>5
<1>2. f \in Injection(R, 1 .. m)
  <2>1. f \in [R -> 1 .. m]
    BY <1>1
  <2>2. ASSUME NEW i \in R, NEW j \in R, f[i] = f[j]
        PROVE  i = j
    <3>1. i \in Int /\ j \in Int
      BY DEF WithRemainder
    <3>2. i - 1 = j - 1
      BY <1>1, <2>2
    <3> QED BY <3>1, <3>2
  <2> QED BY <2>1, <2>2 DEF Injection, IsInjective
<1>3. IsFiniteSet(1 .. m) /\ Cardinality(1 .. m) = m
  BY FS_Interval
<1>4. Cardinality(R) <= Cardinality(1 .. m)
  <2> HIDE DEF f, R
  <2> QED BY <1>2, <1>3, FS_Injection
<1> QED BY <1>3, <1>4

-----------------------------------------------------------------------------
(* A fold over a sequence, from left to right: how it runs.                *)

LEMMA Greatest ==
    ASSUME NEW n \in Nat, NEW t \in SUBSET (1 .. n), t # {}
    PROVE  Max(t) \in t /\ \A y \in t : y <= Max(t)
<1> DEFINE T == {n - x : x \in t}
<1>0. \A x \in t : x \in Int /\ n - x \in Nat
  OBVIOUS
<1>1. T \in SUBSET Nat /\ T # {}
  BY <1>0
<1>2. PICK y \in T : \A z \in T : y <= z
  <2> HIDE DEF T
  <2> QED BY <1>1, LeastNumber
<1>3. PICK x \in t : y = n - x
  BY <1>2
<1>4. \A z \in t : x >= z
  <2> SUFFICES ASSUME NEW z \in t PROVE x >= z
    OBVIOUS
  <2>1. n - x <= n - z
    BY <1>2, <1>3
  <2> QED BY <2>1
<1>5. Max(t) \in t /\ \A z \in t : Max(t) >= z
  BY <1>4 DEF Max
<1> DEFINE m == Max(t)
<1>6. m \in Int /\ \A z \in t : z \in Int /\ m >= z
  BY <1>0, <1>5
<1> HIDE DEF m
<1>7. \A z \in t : z <= m
  BY <1>6
<1> QED BY <1>5, <1>7 DEF m

LEMMA GreatestOfFirst ==
    ASSUME NEW n \in Nat, NEW i \in 1 .. n
    PROVE  Max(1 .. i) = i /\ (1 .. i) \ {i} = 1 .. i - 1
<1> DEFINE t == 1 .. i
<1>1. t \in SUBSET (1 .. n) /\ i \in t /\ \A y \in t : y <= i
  OBVIOUS
<1>2. t # {}
  BY <1>1
<1>3. Max(t) \in t /\ \A y \in t : y <= Max(t)
  <2> HIDE DEF t
  <2> QED BY <1>1, <1>2, Greatest
<1>4. Max(t) = i
  BY <1>1, <1>3
<1> QED BY <1>4

(* FoldLeft steps through the positions of a sequence: step[i][v] is what   *)
(* it makes of v at position i.                                             *)

Positions(D, n)     == n \in Nat /\ D = 1 .. n
Maps(step, D, V)    == \A i \in D, v \in V : step[i][v] \in V

\* The function whose value at all the positions FoldLeft is, ...
FoldsDown(h, D, V, base, step) ==
    /\ h \in [SUBSET D -> V] /\ h[{}] = base
    /\ \A t \in SUBSET D : t # {} => Max(t) \in t /\ h[t] = step[Max(t)][h[t \ {Max(t)}]]

\* ... whatever behaves like it, ...
Follows(iter, D, V, base, step) ==
    /\ iter[{}] = base
    /\ \A t \in SUBSET D : t # {} /\ iter[t \ {Max(t)}] \in V
                             => iter[t] = step[Max(t)][iter[t \ {Max(t)}]]

\* ... and its values on the first positions, one after the other.
Runs(k, n, V, base, step, end) ==
    /\ k \in [0 .. n -> V] /\ k[0] = base /\ k[n] = end
    /\ \A i \in 1 .. n : k[i] = step[i][k[i - 1]]

LEMMA FoldOfPositions ==
    ASSUME NEW n, NEW D, Positions(D, n), NEW V, NEW base \in V, NEW step, Maps(step, D, V)
    PROVE  \E h : FoldsDown(h, D, V, base, step)
<1> DEFINE choose == [t \in SUBSET D |-> Max(t)]
<1>1. IsFiniteSet(D)
  BY FS_Interval DEF Positions
<1>2. \A t \in SUBSET D : t # {} => choose[t] = Max(t) /\ Max(t) \in t
  BY Greatest DEF Positions
<1>3. \E h \in [SUBSET D -> V] : Folds(h, D, base, step, choose)
  <2> HIDE DEF choose
  <2>1. \A t \in SUBSET D : t # {} => choose[t] \in t
    BY <1>2
  <2>2. \A i \in D, v \in V : step[i][v] \in V
    BY DEF Maps
  <2> QED BY <1>1, <2>1, <2>2, FoldExists
<1>4. PICK h \in [SUBSET D -> V] : Folds(h, D, base, step, choose)
  BY <1>3
<1> HIDE DEF choose
<1>5. h[{}] = base
  BY <1>4 DEF Folds
<1>6. \A t \in SUBSET D : t # {} => h[t] = step[Max(t)][h[t \ {Max(t)}]]
  BY <1>2, <1>4 DEF Folds
<1>7. FoldsDown(h, D, V, base, step)
  BY <1>2, <1>5, <1>6 DEF FoldsDown
<1> QED BY <1>7

LEMMA RunOfPositions ==
    ASSUME NEW n, NEW D, Positions(D, n), NEW V, NEW base, NEW step,
           NEW h, FoldsDown(h, D, V, base, step)
    PROVE  \E k : Runs(k, n, V, base, step, h[D])
<1> DEFINE k == [i \in 0 .. n |-> h[1 .. i]]
<1>0. n \in Nat /\ D = 1 .. n /\ h \in [SUBSET D -> V]
  BY DEF Positions, FoldsDown
<1>1. \A i \in 0 .. n : 1 .. i \in SUBSET D
  BY <1>0
<1>2. k \in [0 .. n -> V]
  BY <1>0, <1>1
<1>3. 1 .. 0 = {}
  OBVIOUS
<1>4. k[0] = base /\ k[n] = h[D]
  BY <1>0, <1>3 DEF FoldsDown
<1>5. ASSUME NEW i \in 1 .. n
      PROVE  k[i] = step[i][k[i - 1]]
  <2>1. Max(1 .. i) = i /\ (1 .. i) \ {i} = 1 .. i - 1 /\ 1 .. i # {} /\ 1 .. i \in SUBSET D
    BY <1>0, GreatestOfFirst
  <2>2. h[1 .. i] = step[i][h[1 .. i - 1]]
    <3> DEFINE t == 1 .. i
    <3>1. h[t] = step[Max(t)][h[t \ {Max(t)}]]
      BY <2>1 DEF FoldsDown
    <3> QED BY <2>1, <3>1
  <2>3. i \in 0 .. n /\ i - 1 \in 0 .. n
    BY <1>0
  <2> QED BY <2>2, <2>3
<1>6. Runs(k, n, V, base, step, h[D])
  BY <1>2, <1>4, <1>5 DEF Runs
<1> QED BY <1>6

\* Whatever keeps to the same steps has the same values.
LEMMA FoldFollowed ==
    ASSUME NEW n, NEW D, Positions(D, n), NEW V, NEW base, NEW step,
           NEW h, FoldsDown(h, D, V, base, step), NEW iter, Follows(iter, D, V, base, step)
    PROVE  \E k : Runs(k, n, V, base, step, iter[D])
<1> DEFINE F == {t \in SUBSET D : iter[t] # h[t]}
<1>1. ASSUME F # {} PROVE FALSE
  <2>1. PICK t \in F : \A u \in F : u \subseteq t => u = t
    <3>1. F \in SUBSET SUBSET D
      OBVIOUS
    <3>2. IsFiniteSet(D)
      BY FS_Interval DEF Positions
    <3> HIDE DEF F
    <3> QED BY <1>1, <3>1, <3>2, LeastSet
  <2>2. t \in SUBSET D /\ iter[t] # h[t] /\ t # {}
    BY <2>1 DEF FoldsDown, Follows
  <2> DEFINE u == t \ {Max(t)}
  <2>3. u \in SUBSET D /\ u \subseteq t /\ u # t
    BY <2>2 DEF FoldsDown
  <2>4. iter[u] = h[u]
    BY <2>1, <2>3
  <2>5. h[t] = step[Max(t)][h[u]] /\ h[u] \in V
    BY <2>2, <2>3 DEF FoldsDown
  <2>6. iter[t] = step[Max(t)][iter[u]]
    BY <2>2, <2>4, <2>5 DEF Follows
  <2> QED BY <2>2, <2>4, <2>5, <2>6
<1>2. iter[D] = h[D]
  BY <1>1
<1> QED BY <1>2, RunOfPositions

-----------------------------------------------------------------------------
(* Sequences that are written at their end.                                *)

LEMMA SeqAppend ==
    ASSUME NEW S, NEW s \in Seq(S), NEW x \in S
    PROVE  /\ Append(s, x) \in Seq(S) /\ Append(s, x) # <<>>
           /\ Front(Append(s, x)) = s /\ Last(Append(s, x)) = x
           /\ Len(Append(s, x)) = Len(s) + 1 /\ Append(s, x)[Len(s) + 1] = x
           /\ \A i \in 1 .. Len(s) : Append(s, x)[i] = s[i]
<1>1. /\ Append(s, x) \in Seq(S) /\ Len(Append(s, x)) = Len(s) + 1
      /\ Append(s, x)[Len(s) + 1] = x
      /\ \A i \in 1 .. Len(s) : Append(s, x)[i] = s[i]
      /\ Len(s) \in Nat
  OBVIOUS
<1>2. Append(s, x) # <<>>
  BY <1>1
<1>3. Last(Append(s, x)) = x
  BY <1>1 DEF Last
<1>4. Front(Append(s, x)) = s
  BY <1>1 DEF Front
<1> QED BY <1>1, <1>2, <1>3, <1>4

LEMMA SeqFront ==
    ASSUME NEW S, NEW s \in Seq(S), s # <<>>
    PROVE  /\ Front(s) \in Seq(S) /\ Last(s) \in S /\ s = Append(Front(s), Last(s))
           /\ Len(Front(s)) = Len(s) - 1 /\ Len(s) > 0
           /\ \A i \in 1 .. Len(s) - 1 : Front(s)[i] = s[i]
<1>1. PICK t \in Seq(S), x \in S : s = Append(t, x)
  BY SequenceEmptyOrAppend
<1>2. Front(s) = t /\ Last(s) = x
  BY <1>1, SeqAppend
<1>3. Len(s) = Len(t) + 1 /\ Len(t) \in Nat /\ \A i \in 1 .. Len(t) : t[i] = s[i]
  BY <1>1, SeqAppend
<1> QED BY <1>1, <1>2, <1>3

LEMMA SeqConcat ==
    ASSUME NEW S, NEW s \in Seq(S), NEW a, NEW b, NEW c
    PROVE  /\ s \o <<a>> = Append(s, a)
           /\ s \o <<a, b>> = Append(Append(s, a), b)
           /\ s \o <<a, b, c>> = Append(Append(Append(s, a), b), c)
BY DEF Front, Last

LEMMA SeqOfThree ==
    ASSUME NEW S, NEW a \in S, NEW b \in S, NEW c \in S
    PROVE  /\ <<a, b, c>> \in Seq(S) /\ Len(<<a, b, c>>) >= 3 /\ <<a, b, c>>[3] = c
           /\ <<a, b, c>> = Append(Append(Append(<<>>, a), b), c)
OBVIOUS

LEMMA SeqWhere ==
    ASSUME NEW S, NEW s \in Seq(S), NEW X, \A i \in DOMAIN s : s[i] \in X
    PROVE  s \in Seq(X)
OBVIOUS

LEMMA ConcatAppend ==
    ASSUME NEW S, NEW s \in Seq(S), NEW t \in Seq(S), NEW x \in S
    PROVE  s \o Append(t, x) = Append(s \o t, x)
<1>1. <<x>> \in Seq(S) /\ s \o t \in Seq(S)
  OBVIOUS
<1> QED BY <1>1, AppendIsConcat, ConcatAssociative

LEMMA Joins ==
    ASSUME NEW S, NEW s \in Seq(S), NEW a \in Seq(S), NEW b \in Seq(S)
    PROVE  a \o b \in Seq(S) /\ s \o (a \o b) = (s \o a) \o b
BY ConcatProperties, ConcatAssociative

-----------------------------------------------------------------------------
(* Texts one after the other: FlattenSeq.                                  *)

LEMMA Together ==
    ASSUME NEW S, NEW s \in Seq(S), NEW t \in Seq(S)
    PROVE  /\ s \o t \in Seq(S) /\ Len(s \o t) = Len(s) + Len(t)
           /\ Len(s) \in Nat /\ Len(t) \in Nat
OBVIOUS

LEMMA TogetherAt ==
    ASSUME NEW S, NEW s \in Seq(S), NEW t \in Seq(S)
    PROVE  /\ \A x \in 1 .. Len(s) : (s \o t)[x] = s[x]
           /\ \A x \in 1 .. Len(t) : (s \o t)[Len(s) + x] = t[x]
OBVIOUS

\* The text is flattened from the left.
Flattens(k, seqs, n) ==
    /\ k[0] = <<>> /\ k[n] = FlattenSeq(seqs)
    /\ \A i \in 1 .. n : k[i] = k[i - 1] \o seqs[i]

LEMMA FlattenRun ==
    ASSUME NEW S, NEW n \in Nat, NEW seqs \in [1 .. n -> Seq(S)]
    PROVE  \E k \in [0 .. n -> Seq(S)] : Flattens(k, seqs, n)
<1> DEFINE D == 1 .. n
           V == Seq(S)
           step == [i \in D |-> [v \in V |-> v \o seqs[i]]]
<1>1. \A i \in D, v \in V : step[i][v] \in V /\ step[i][v] = v \o seqs[i]
  OBVIOUS
<1>2. Positions(D, n) /\ Maps(step, D, V)
  BY <1>1 DEF Positions, Maps
<1>3. <<>> \in V
  OBVIOUS
<1>4. PICK k, end : Runs(k, n, V, <<>>, step, end)
  <2> HIDE DEF step, V, D
  <2>1. PICK h : FoldsDown(h, D, V, <<>>, step)
    BY <1>2, <1>3, FoldOfPositions
  <2> QED BY <1>2, <2>1, RunOfPositions
<1>5. k \in [0 .. n -> V] /\ k[0] = <<>> /\ \A i \in 1 .. n : k[i] = k[i - 1] \o seqs[i]
  <2>1. k \in [0 .. n -> V] /\ k[0] = <<>> /\ \A i \in 1 .. n : k[i] = step[i][k[i - 1]]
    BY <1>4 DEF Runs
  <2>2. ASSUME NEW i \in 1 .. n
        PROVE  k[i] = k[i - 1] \o seqs[i]
    <3>1. k[i - 1] \in V
      BY <2>1
    <3> QED BY <1>1, <2>1, <3>1
  <2> QED BY <2>1, <2>2
<1> HIDE DEF step, V
<1>6. Len(seqs) = n
  OBVIOUS
<1>7. k[n] = FlattenSeq(seqs)
  <2>1. CASE n = 0
    <3>1. seqs = <<>>
      BY <2>1, <1>6
    <3> QED BY <1>5, <1>6, <2>1, <3>1 DEF FlattenSeq
  <2>2. CASE n # 0
    <3> DEFINE Is(g) == g = [i \in 1 .. n |-> IF i = 1 THEN seqs[i] ELSE g[i - 1] \o seqs[i]]
               f == CHOOSE g : Is(g)
               first == [i \in 1 .. n |-> k[i]]
    <3>1. Is(first)
      <4>1. ASSUME NEW i \in 1 .. n
            PROVE  k[i] = IF i = 1 THEN seqs[i] ELSE first[i - 1] \o seqs[i]
        <5>1. CASE i = 1
          <6>1. k[i] = k[i - 1] \o seqs[i] /\ seqs[i] \in Seq(S) /\ i - 1 = 0
            BY <1>5, <5>1
          <6>2. k[i] = <<>> \o seqs[i]
            BY <1>5, <6>1
          <6> QED BY <5>1, <6>1, <6>2
        <5>2. CASE i # 1
          <6>1. i - 1 \in 1 .. n
            BY <5>2
          <6> QED BY <1>5, <5>2, <6>1
        <5> QED BY <5>1, <5>2
      <4> QED BY <4>1
    <3>2. Is(f)
      <4> HIDE DEF Is
      <4> QED BY <3>1
    <3>3. FlattenSeq(seqs) = f[n]
      BY <1>6, <2>2 DEF FlattenSeq
    <3>4. \A i \in 1 .. n : f[i] = IF i = 1 THEN seqs[i] ELSE f[i - 1] \o seqs[i]
      BY <3>2
    <3>5. \A i \in 1 .. n : k[i] = IF i = 1 THEN seqs[i] ELSE k[i - 1] \o seqs[i]
      <4> SUFFICES ASSUME NEW i \in 1 .. n
                   PROVE  k[i] = IF i = 1 THEN seqs[i] ELSE k[i - 1] \o seqs[i]
        OBVIOUS
      <4>1. i # 1 => i - 1 \in 1 .. n /\ first[i - 1] = k[i - 1]
        OBVIOUS
      <4>2. first[i] = k[i]
        OBVIOUS
      <4> QED BY <1>5, <3>1, <4>1, <4>2
    <3> HIDE DEF f, Is, first
    <3> DEFINE T == {i \in Nat : i \in 1 .. n => f[i] = k[i]}
    <3>6. 0 \in T
      OBVIOUS
    <3>7. ASSUME NEW i \in Nat, i \in T
          PROVE  i + 1 \in T
      <4>1. CASE i = 0
        BY <3>4, <3>5, <4>1
      <4>2. CASE i # 0 /\ i + 1 \in 1 .. n
        <5>1. i \in 1 .. n /\ (i + 1) - 1 = i /\ f[i] = k[i] /\ i + 1 # 1
          BY <3>7, <4>2
        <5> QED BY <3>4, <3>5, <4>2, <5>1
      <4> QED BY <4>1, <4>2
    <3>8. n \in T
      <4> HIDE DEF T
      <4> QED BY <3>6, <3>7, UpFromZero
    <3> QED BY <2>2, <3>3, <3>8
  <2> QED BY <2>1, <2>2
<1> QED BY <1>5, <1>7 DEF Flattens, V

\* A sum of the first j numbers has the last of them.
LEMMA SumOfNext ==
    ASSUME NEW j \in Nat, j > 0, NEW size, \A x \in 1 .. j : size[x] \in Int
    PROVE  /\ SumFunctionOnSet(size, 1 .. j) = size[j] + SumFunctionOnSet(size, 1 .. j - 1)
           /\ SumFunctionOnSet(size, 1 .. j - 1) \in Int /\ size[j] \in Int
<1> DEFINE A == 1 .. j
           B == 1 .. j - 1
<1>1. IsFiniteSet(A) /\ IsFiniteSet(B) /\ j \in A /\ A \ {j} = B /\ B \subseteq A
  <2>1. 1 \in Int /\ j \in Int /\ j - 1 \in Int
    OBVIOUS
  <2> QED BY <2>1, FS_Interval
<1>2. \A x \in A : size[x] \in Int
  OBVIOUS
<1> HIDE DEF A, B
<1>3. \A x \in A : SumFunctionOnSet(size, A) = size[x] + SumFunctionOnSet(size, A \ {x})
  BY <1>1, <1>2, SumWithout
<1>4. SumFunctionOnSet(size, B) \in Int
  BY <1>1, <1>2, SumType
<1> QED BY <1>1, <1>2, <1>3, <1>4 DEF A, B

LEMMA FlattenFits ==
    ASSUME NEW S, NEW n \in Nat, NEW seqs \in [1 .. n -> Seq(S)],
           NEW size, \A i \in 1 .. n : size[i] \in Int /\ Len(seqs[i]) <= size[i]
    PROVE  /\ FlattenSeq(seqs) \in Seq(S)
           /\ Len(FlattenSeq(seqs)) <= SumFunctionOnSet(size, 1 .. n)
<1>1. PICK k \in [0 .. n -> Seq(S)] : Flattens(k, seqs, n)
  BY FlattenRun
<1>2. k[0] = <<>> /\ k[n] = FlattenSeq(seqs) /\ \A i \in 1 .. n : k[i] = k[i - 1] \o seqs[i]
  BY <1>1 DEF Flattens
<1> DEFINE sum(i) == SumFunctionOnSet(size, 1 .. i)
           T == {i \in Nat : i <= n => Len(k[i]) <= sum(i)}
<1>3. 0 \in T
  <2>1. 1 .. 0 = {}
    OBVIOUS
  <2>2. sum(0) = 0
    BY <2>1, SumEmpty
  <2> QED BY <1>2, <2>2
<1>4. ASSUME NEW i \in Nat, i \in T, i + 1 <= n
      PROVE  Len(k[i + 1]) <= sum(i + 1)
  <2>1. PICK j \in Nat : j = i + 1 /\ j > 0 /\ j \in 1 .. n /\ j - 1 = i /\ i \in 0 .. n
    BY <1>4
  <2>2. sum(j) = size[j] + sum(i) /\ sum(i) \in Int
    <3>1. \A x \in 1 .. j : size[x] \in Int
      BY <2>1
    <3>2. /\ SumFunctionOnSet(size, 1 .. j) = size[j] + SumFunctionOnSet(size, 1 .. j - 1)
          /\ SumFunctionOnSet(size, 1 .. j - 1) \in Int
      BY <2>1, <3>1, SumOfNext
    <3> QED BY <2>1, <3>2
  <2>3. k[j] = k[i] \o seqs[j] /\ k[i] \in Seq(S) /\ seqs[j] \in Seq(S)
    BY <1>2, <2>1
  <2>4. Len(k[j]) = Len(k[i]) + Len(seqs[j]) /\ Len(k[i]) \in Nat /\ Len(seqs[j]) \in Nat
    BY <2>3
  <2>5. Len(k[i]) <= sum(i)
    BY <1>4
  <2>6. size[j] \in Int /\ Len(seqs[j]) <= size[j]
    BY <2>1
  <2>7. Len(k[j]) <= sum(j)
    <3> HIDE DEF sum
    <3> QED BY <2>2, <2>4, <2>5, <2>6
  <2> QED BY <2>1, <2>7
<1>5. n \in T
  <2>1. ASSUME NEW i \in Nat, i \in T
        PROVE  i + 1 \in T
    <3>1. CASE i + 1 <= n
      <4>1. Len(k[i + 1]) <= sum(i + 1)
        BY <1>4, <2>1, <3>1
      <4> HIDE DEF sum
      <4> QED BY <4>1
    <3>2. CASE ~(i + 1 <= n)
      BY <3>2
    <3> QED BY <3>1, <3>2
  <2> HIDE DEF T
  <2> QED BY <1>3, <2>1, UpFromZero
<1>6. k[n] \in Seq(S)
  OBVIOUS
<1> QED BY <1>2, <1>5, <1>6

\* Texts of one length, one after the other: where each of them begins.
Laid(text, seqs, i, L) ==
    /\ Len(text) = i * L
    /\ \A g \in 1 .. i, j \in 1 .. L : text[(g - 1) * L + j] = seqs[g][j]

LEMMA LaidNext ==
    ASSUME NEW S, NEW L \in Nat, NEW i \in Nat, NEW text \in Seq(S), NEW seqs,
           Laid(text, seqs, i, L),
           NEW next \in Seq(S), next = seqs[i + 1], Len(next) = L
    PROVE  Laid(text \o next, seqs, i + 1, L)
<1> DEFINE all == text \o next
           m == i * L
<1>1. /\ all \in Seq(S) /\ Len(all) = m + L /\ m \in Nat
      /\ \A x \in 1 .. m : all[x] = text[x]
      /\ \A x \in 1 .. L : all[m + x] = next[x]
  <2>1. Len(text) = m /\ m \in Nat
    BY DEF Laid
  <2>2. all \in Seq(S) /\ Len(all) = Len(text) + L
    BY Together
  <2>3. /\ \A x \in 1 .. Len(text) : all[x] = text[x]
        /\ \A x \in 1 .. L : all[Len(text) + x] = next[x]
    BY TogetherAt
  <2> HIDE DEF m, all
  <2> QED BY <2>1, <2>2, <2>3
<1>2. (i + 1) * L = m + L
  OBVIOUS
<1>3. ASSUME NEW g \in 1 .. i + 1, NEW j \in 1 .. L
      PROVE  all[(g - 1) * L + j] = seqs[g][j]
  <2>1. CASE g = i + 1
    <3>1. (g - 1) * L = m
      BY <2>1
    <3> HIDE DEF m, all
    <3> QED BY <1>1, <2>1, <3>1
  <2>2. CASE g # i + 1
    <3>1. g \in 1 .. i /\ i - g \in Nat
      BY <2>2
    <3> DEFINE x == (g - 1) * L + j
    <3>2. x \in 1 .. m
      <4>1. (i - g) * L \in Nat /\ (g - 1) * L \in Nat
        BY <3>1
      <4>2. m = (i - g) * L + (g - 1) * L + L
        BY <3>1
      <4> DEFINE a == (i - g) * L
                 b == (g - 1) * L
      <4>3. a \in Nat /\ b \in Nat /\ m = a + b + L /\ x = b + j /\ m \in Nat
        BY <1>1, <4>1, <4>2
      <4> HIDE DEF m, a, b, x
      <4> QED BY <4>3
    <3>3. text[x] = seqs[g][j]
      BY <3>1 DEF Laid
    <3> HIDE DEF x, m, all
    <3>4. all[x] = seqs[g][j]
      BY <1>1, <3>2, <3>3
    <3> QED BY <3>4 DEF x
  <2> QED BY <2>1, <2>2
<1> HIDE DEF m, all
<1>4. Len(all) = (i + 1) * L
  BY <1>1, <1>2
<1> QED BY <1>3, <1>4 DEF Laid, all

LEMMA FlattenEven ==
    ASSUME NEW S, NEW n \in Nat, NEW L \in Nat, NEW seqs \in [1 .. n -> [1 .. L -> S]]
    PROVE  FlattenSeq(seqs) \in Seq(S) /\ Laid(FlattenSeq(seqs), seqs, n, L)
<1>1. seqs \in [1 .. n -> Seq(S)] /\ \A i \in 1 .. n : Len(seqs[i]) = L
  OBVIOUS
<1>2. PICK k \in [0 .. n -> Seq(S)] : Flattens(k, seqs, n)
  BY <1>1, FlattenRun
<1>3. k[0] = <<>> /\ k[n] = FlattenSeq(seqs) /\ \A i \in 1 .. n : k[i] = k[i - 1] \o seqs[i]
  BY <1>2 DEF Flattens
<1> DEFINE T == {i \in Nat : i <= n => Laid(k[i], seqs, i, L)}
<1>4. 0 \in T
  BY <1>3 DEF Laid
<1>5. ASSUME NEW i \in Nat, i \in T, i + 1 <= n
      PROVE  Laid(k[i + 1], seqs, i + 1, L)
  <2>1. i + 1 \in 1 .. n /\ (i + 1) - 1 = i /\ i \in 0 .. n /\ i <= n
    BY <1>5
  <2>2. /\ k[i + 1] = k[i] \o seqs[i + 1] /\ k[i] \in Seq(S) /\ seqs[i + 1] \in Seq(S)
        /\ Len(seqs[i + 1]) = L
    BY <1>1, <1>3, <2>1
  <2>3. Laid(k[i], seqs, i, L)
    BY <1>5, <2>1
  <2> DEFINE next == seqs[i + 1]
             text == k[i]
  <2>4. next \in Seq(S) /\ Len(next) = L /\ text \in Seq(S) /\ Laid(text, seqs, i, L)
    BY <2>2, <2>3
  <2>5. next = seqs[i + 1]
    OBVIOUS
  <2> HIDE DEF next, text
  <2>6. Laid(text \o next, seqs, i + 1, L)
    BY <2>4, <2>5, LaidNext
  <2> QED BY <2>2, <2>6 DEF next, text
<1>6. n \in T
  <2>1. ASSUME NEW i \in Nat, i \in T
        PROVE  i + 1 \in T
    <3>1. CASE i + 1 <= n
      <4>1. Laid(k[i + 1], seqs, i + 1, L)
        BY <1>5, <2>1, <3>1
      <4>2. i + 1 \in Nat
        OBVIOUS
      <4> QED BY <4>1, <4>2, Zenon
    <3>2. CASE ~(i + 1 <= n)
      BY <3>2
    <3> QED BY <3>1, <3>2
  <2> HIDE DEF T
  <2> QED BY <1>4, <2>1, UpFromZero
<1>7. k[n] \in Seq(S) /\ Laid(k[n], seqs, n, L)
  BY <1>6
<1> QED BY <1>3, <1>7

-----------------------------------------------------------------------------
(* Texts in texts: where they start, and where their parts are.            *)

\* Texts of one, two and three characters.
LEMMA Pieces ==
    ASSUME NEW x \in Int, NEW y \in Int, NEW z \in Int
    PROVE  /\ <<x>> \o <<y>> = <<x, y>> /\ <<x, y>> \o <<z>> = <<x, y, z>>
           /\ <<x, y>> \o <<>> = <<x, y>>
<1>1. ASSUME NEW s \in Seq(Int), Len(s) = 2, s[1] = x, s[2] = y
      PROVE  s = <<x, y>>
  BY <1>1
<1>2. ASSUME NEW s \in Seq(Int), Len(s) = 3, s[1] = x, s[2] = y, s[3] = z
      PROVE  s = <<x, y, z>>
  BY <1>2
<1>3. /\ <<x>> \o <<y>> \in Seq(Int) /\ Len(<<x>> \o <<y>>) = 2
      /\ (<<x>> \o <<y>>)[1] = x /\ (<<x>> \o <<y>>)[2] = y
  OBVIOUS
<1>4. /\ <<x, y>> \o <<z>> \in Seq(Int) /\ Len(<<x, y>> \o <<z>>) = 3
      /\ (<<x, y>> \o <<z>>)[1] = x /\ (<<x, y>> \o <<z>>)[2] = y
      /\ (<<x, y>> \o <<z>>)[3] = z
  OBVIOUS
<1>5. <<x>> \o <<y>> = <<x, y>>
  <2> DEFINE s == <<x>> \o <<y>>
  <2>1. s \in Seq(Int) /\ Len(s) = 2 /\ s[1] = x /\ s[2] = y
    BY <1>3
  <2> HIDE DEF s
  <2>2. s = <<x, y>>
    BY <1>1, <2>1
  <2> QED BY <2>2 DEF s
<1>6. <<x, y>> \o <<z>> = <<x, y, z>>
  <2> DEFINE s == <<x, y>> \o <<z>>
  <2>1. s \in Seq(Int) /\ Len(s) = 3 /\ s[1] = x /\ s[2] = y /\ s[3] = z
    BY <1>4
  <2> HIDE DEF s
  <2>2. s = <<x, y, z>>
    BY <1>2, <2>1
  <2> QED BY <2>2 DEF s
<1> QED BY <1>5, <1>6

\* A text starts with another one.
Begins(all, o) ==
    all \in Seq(Int) /\ Len(all) >= Len(o) /\ \A j \in 1 .. Len(o) : all[j] = o[j]

LEMMA BeginsBegins ==
    ASSUME NEW a, NEW b, NEW c, Begins(a, b), Begins(b, c), c \in Seq(Int)
    PROVE  Begins(a, c)
<1> DEFINE l == Len(a)
           m == Len(b)
           n == Len(c)
<1>1. a \in Seq(Int) /\ l >= m /\ m >= n /\ l \in Nat /\ m \in Nat /\ n \in Nat
  BY DEF Begins
<1>2. (\A j \in 1 .. m : a[j] = b[j]) /\ (\A j \in 1 .. n : b[j] = c[j])
  BY DEF Begins
<1> HIDE DEF l, m, n
<1>3. l >= n /\ \A j \in 1 .. n : a[j] = c[j]
  BY <1>1, <1>2
<1> QED BY <1>1, <1>3 DEF Begins, l, n

LEMMA JoinBegins ==
    ASSUME NEW a \in Seq(Int), NEW b \in Seq(Int)
    PROVE  Begins(a \o b, a) /\ Begins(a, a)
<1>1. a \o b \in Seq(Int) /\ Len(a \o b) >= Len(a) /\ Len(a) \in Nat
  BY Together
<1>2. \A x \in 1 .. Len(a) : (a \o b)[x] = a[x]
  BY TogetherAt
<1> QED BY <1>1, <1>2 DEF Begins

\* The texts one behind the other: after[i] characters of the whole are those of the
\* first i of them.
Placed(after, text, seqs, n) ==
    /\ after \in [0 .. n -> Nat] /\ after[0] = 0 /\ after[n] = Len(text)
    /\ \A i \in 1 .. n :
         /\ after[i] = after[i - 1] + Len(seqs[i]) /\ after[i] <= Len(text)
         /\ \A x \in 1 .. Len(seqs[i]) : text[after[i - 1] + x] = seqs[i][x]

\* ... which is what FlattenSeq makes of them.
LEMMA FlattenPlaced ==
    ASSUME NEW n \in Nat, NEW seqs \in [1 .. n -> Seq(Int)]
    PROVE  FlattenSeq(seqs) \in Seq(Int) /\ \E after : Placed(after, FlattenSeq(seqs), seqs, n)
<1> DEFINE all == FlattenSeq(seqs)
<1>1. PICK k \in [0 .. n -> Seq(Int)] : Flattens(k, seqs, n)
  BY FlattenRun
<1>2. k[0] = <<>> /\ k[n] = all /\ \A i \in 1 .. n : k[i] = k[i - 1] \o seqs[i]
  BY <1>1 DEF Flattens
<1>3. n \in 0 .. n /\ 0 \in 0 .. n
  OBVIOUS
<1> HIDE DEF all
<1>4. all \in Seq(Int)
  BY <1>2, <1>3
<1>5. ASSUME NEW i \in 1 .. n
      PROVE  i - 1 \in 0 .. n /\ k[i - 1] \in Seq(Int) /\ seqs[i] \in Seq(Int)
             /\ k[i] \in Seq(Int) /\ i \in 0 .. n
  OBVIOUS
<1>6. ASSUME NEW i \in 0 .. n
      PROVE  Begins(all, k[i])
  <2> DEFINE T == {m \in Nat : i + m <= n => Begins(k[i + m], k[i])}
  <2>1. 0 \in T
    <3>1. k[i] \in Seq(Int) /\ i + 0 = i
      OBVIOUS
    <3>2. Begins(k[i], k[i])
      BY <3>1, JoinBegins
    <3> QED BY <3>1, <3>2
  <2>2. ASSUME NEW m \in Nat, m \in T
        PROVE  m + 1 \in T
    <3> SUFFICES ASSUME i + (m + 1) <= n PROVE Begins(k[i + (m + 1)], k[i])
      OBVIOUS
    <3> DEFINE j == i + (m + 1)
    <3>1. j \in 1 .. n /\ j - 1 = i + m /\ i + m <= n
      OBVIOUS
    <3>2. Begins(k[j - 1], k[i])
      BY <2>2, <3>1
    <3> HIDE DEF j
    <3>3. k[j] = k[j - 1] \o seqs[j] /\ k[j - 1] \in Seq(Int) /\ seqs[j] \in Seq(Int)
      BY <1>2, <1>5, <3>1
    <3>4. Begins(k[j], k[j - 1])
      BY <3>3, JoinBegins
    <3>5. k[i] \in Seq(Int)
      OBVIOUS
    <3>6. Begins(k[j], k[i])
      BY <3>2, <3>4, <3>5, BeginsBegins
    <3> QED BY <3>6 DEF j
  <2> HIDE DEF T
  <2>3. n - i \in Nat
    OBVIOUS
  <2>4. n - i \in T
    BY <2>1, <2>2, <2>3, UpFromZero
  <2>5. i + (n - i) = n
    OBVIOUS
  <2> QED BY <1>2, <2>4, <2>5 DEF T
<1> DEFINE after == [i \in 0 .. n |-> Len(k[i])]
<1>7. after \in [0 .. n -> Nat] /\ after[0] = 0 /\ after[n] = Len(all)
  BY <1>2
<1>8. ASSUME NEW i \in 1 .. n
      PROVE  /\ after[i] = after[i - 1] + Len(seqs[i]) /\ after[i] <= Len(all)
             /\ \A x \in 1 .. Len(seqs[i]) : all[after[i - 1] + x] = seqs[i][x]
  <2> DEFINE a == k[i - 1]
             b == seqs[i]
             c == k[i]
  <2>1. a \in Seq(Int) /\ b \in Seq(Int) /\ c = a \o b
    BY <1>2, <1>5
  <2>2. after[i] = Len(c) /\ after[i - 1] = Len(a)
    BY <1>5
  <2>3. Begins(all, c)
    BY <1>5, <1>6
  <2> HIDE DEF a, b, c, after
  <2>4. Len(c) = Len(a) + Len(b) /\ Len(a) \in Nat /\ Len(b) \in Nat
    BY <2>1, Together
  <2>5. \A x \in 1 .. Len(b) : c[Len(a) + x] = b[x]
    BY <2>1, TogetherAt
  <2>6. Len(all) >= Len(c) /\ \A j \in 1 .. Len(c) : all[j] = c[j]
    BY <2>3 DEF Begins
  <2>7. ASSUME NEW x \in 1 .. Len(b)
        PROVE  all[Len(a) + x] = b[x]
    <3>1. Len(a) + x \in 1 .. Len(c)
      BY <2>4
    <3> QED BY <2>5, <2>6, <3>1
  <2>8. Len(all) \in Nat
    BY <1>4
  <2>9. Len(c) <= Len(all)
    BY <2>4, <2>6, <2>8
  <2>10. after[i] = after[i - 1] + Len(b) /\ after[i] <= Len(all)
         /\ \A x \in 1 .. Len(b) : all[after[i - 1] + x] = b[x]
    BY <2>2, <2>4, <2>7, <2>9
  <2> QED BY <2>10 DEF b
<1>9. Placed(after, all, seqs, n)
  BY <1>7, <1>8 DEF Placed
<1> QED BY <1>4, <1>9 DEF all

\* As long as the texts together.
LEMMA PlacedLength ==
    ASSUME NEW n \in Nat, NEW text \in Seq(Int), NEW seqs \in [1 .. n -> Seq(Int)],
           NEW after, Placed(after, text, seqs, n),
           NEW size, \A i \in 1 .. n : size[i] = Len(seqs[i])
    PROVE  Len(text) = SumFunctionOnSet(size, 1 .. n)
<1>1. \A i \in 1 .. n : size[i] \in Int
  OBVIOUS
<1>2. after \in [0 .. n -> Nat] /\ after[0] = 0 /\ after[n] = Len(text)
      /\ \A i \in 1 .. n : after[i] = after[i - 1] + size[i]
  BY DEF Placed
<1> DEFINE T == {i \in Nat : i <= n => after[i] = SumFunctionOnSet(size, 1 .. i)}
<1>3. 0 \in T
  <2>1. 1 .. 0 = {}
    OBVIOUS
  <2>2. SumFunctionOnSet(size, 1 .. 0) = 0
    BY <2>1, SumEmpty
  <2> QED BY <1>2, <2>2
<1>4. ASSUME NEW i \in Nat, i \in T
      PROVE  i + 1 \in T
  <2> SUFFICES ASSUME i + 1 <= n PROVE after[i + 1] = SumFunctionOnSet(size, 1 .. i + 1)
    OBVIOUS
  <2> DEFINE j == i + 1
  <2>1. j \in Nat /\ j > 0 /\ j - 1 = i /\ j \in 1 .. n /\ \A x \in 1 .. j : x \in 1 .. n
    OBVIOUS
  <2>2. after[i] = SumFunctionOnSet(size, 1 .. i)
    BY <1>4
  <2> HIDE DEF j
  <2>3. \A x \in 1 .. j : size[x] \in Int
    BY <1>1, <2>1
  <2>4. SumFunctionOnSet(size, 1 .. j) = size[j] + SumFunctionOnSet(size, 1 .. j - 1)
        /\ SumFunctionOnSet(size, 1 .. j - 1) \in Int /\ size[j] \in Int
    BY <2>1, <2>3, SumOfNext
  <2>5. after[j] = after[i] + size[j]
    BY <1>2, <2>1
  <2>6. after[j] = SumFunctionOnSet(size, 1 .. j)
    BY <2>1, <2>2, <2>4, <2>5
  <2> QED BY <2>6 DEF j
<1> HIDE DEF T
<1>5. n \in T
  BY <1>3, <1>4, UpFromZero
<1> QED BY <1>2, <1>5 DEF T

\* The same, said for citing.
SizesAre(size, seqs, n) ==
    /\ n \in Nat /\ seqs \in [1 .. n -> Seq(Int)]
    /\ \A i \in 1 .. n : size[i] = Len(seqs[i])
AsLong(text, size, n) == Len(text) = SumFunctionOnSet(size, 1 .. n)

LEMMA PlacedLong ==
    ASSUME NEW n, NEW text \in Seq(Int), NEW seqs, NEW after, Placed(after, text, seqs, n),
           NEW size, SizesAre(size, seqs, n)
    PROVE  AsLong(text, size, n)
<1>1. n \in Nat /\ seqs \in [1 .. n -> Seq(Int)] /\ \A i \in 1 .. n : size[i] = Len(seqs[i])
  BY DEF SizesAre
<1>2. Len(text) = SumFunctionOnSet(size, 1 .. n)
  BY <1>1, PlacedLength
<1> QED BY <1>2 DEF AsLong

\* A part of a text, from what its characters are.
LEMMA PartIs ==
    ASSUME NEW s \in Seq(Int), NEW t \in Seq(Int), NEW p \in Nat, p + Len(t) <= Len(s),
           \A x \in 1 .. Len(t) : s[p + x] = t[x]
    PROVE  SubSeq(s, p + 1, p + Len(t)) = t
<1> DEFINE l == Len(t)
           u == SubSeq(s, p + 1, p + l)
           m == Len(s)
<1>1. l \in Nat /\ m \in Nat /\ p + l <= m
  OBVIOUS
<1>2. \A x \in 1 .. m : s[x] \in Int
  OBVIOUS
<1>3. \A x \in 1 .. l : s[p + x] = t[x]
  OBVIOUS
<1>4. u = [x \in 1 .. (p + l) - (p + 1) + 1 |-> s[(p + 1) + x - 1]]
  OBVIOUS
<1> HIDE DEF l, m, u
<1>5. 1 .. (p + l) - (p + 1) + 1 = 1 .. l /\ \A x \in 1 .. l : (p + 1) + x - 1 = p + x
  BY <1>1
<1>6. u = [x \in 1 .. l |-> s[p + x]]
  BY <1>4, <1>5
<1>7. u = [x \in 1 .. l |-> t[x]]
  BY <1>3, <1>6
<1>8. t = [x \in 1 .. l |-> t[x]]
  BY DEF l
<1> QED BY <1>7, <1>8 DEF u, l

\* The start of a text.
LEMMA StartIs ==
    ASSUME NEW s, NEW t \in Seq(Int), Begins(s, t)
    PROVE  SubSeq(s, 1, Len(t)) = t
<1> DEFINE p == 0
<1>1. s \in Seq(Int) /\ p + Len(t) <= Len(s) /\ \A x \in 1 .. Len(t) : s[p + x] = t[x]
  <2>1. s \in Seq(Int) /\ Len(s) >= Len(t) /\ \A x \in 1 .. Len(t) : s[x] = t[x]
    BY DEF Begins
  <2>2. p + Len(t) = Len(t) /\ \A x \in 1 .. Len(t) : p + x = x
    OBVIOUS
  <2> QED BY <2>1, <2>2
<1>2. p \in Nat /\ p + 1 = 1 /\ p + Len(t) = Len(t)
  OBVIOUS
<1> HIDE DEF p
<1>3. SubSeq(s, p + 1, p + Len(t)) = t
  BY <1>1, <1>2, PartIs
<1> QED BY <1>2, <1>3

\* The first i elements.
FirstOf(data, i) == [j \in 1 .. i |-> data[j]]

LEMMA FirstNext ==
    ASSUME NEW S, NEW data \in Seq(S), NEW i \in 1 .. Len(data)
    PROVE  /\ FirstOf(data, i - 1) \in Seq(S) /\ FirstOf(data, i) \in Seq(S)
           /\ Append(FirstOf(data, i - 1), data[i]) = FirstOf(data, i)
<1> DEFINE n == Len(data)
           a == FirstOf(data, i - 1)
           b == FirstOf(data, i)
           x == data[i]
           c == Append(a, x)
<1>1. \A j \in 1 .. n : data[j] \in S
  OBVIOUS
<1>2. n \in Nat /\ i \in 1 .. n
  OBVIOUS
<1> HIDE DEF n
<1>3. a \in Seq(S) /\ Len(a) = i - 1 /\ \A j \in 1 .. i - 1 : a[j] = data[j]
  BY <1>1, <1>2 DEF FirstOf
<1>4. b \in Seq(S) /\ Len(b) = i /\ \A j \in 1 .. i : b[j] = data[j]
  BY <1>1, <1>2 DEF FirstOf
<1>5. x \in S /\ x = data[i]
  BY <1>1, <1>2
<1> HIDE DEF a, b, x
<1>6. /\ Append(a, x) \in Seq(S) /\ Len(Append(a, x)) = Len(a) + 1
      /\ Append(a, x)[Len(a) + 1] = x /\ \A j \in 1 .. Len(a) : Append(a, x)[j] = a[j]
  BY <1>3, <1>5, SeqAppend
<1>7. c \in Seq(S) /\ Len(c) = i /\ c[i] = x /\ \A j \in 1 .. i - 1 : c[j] = a[j]
  BY <1>2, <1>3, <1>6
<1> HIDE DEF c
<1>8. \A j \in 1 .. i : c[j] = b[j]
  <2> TAKE j \in 1 .. i
  <2>1. CASE j = i
    BY <1>2, <1>4, <1>5, <1>7, <2>1
  <2>2. CASE j # i
    <3>1. j \in 1 .. i - 1
      BY <1>2, <2>2
    <3> QED BY <1>3, <1>4, <1>7, <3>1
  <2> QED BY <2>1, <2>2
<1>9. c = b
  BY <1>4, <1>7, <1>8
<1> QED BY <1>3, <1>4, <1>9 DEF a, b, c, x

LEMMA AllOf ==
    ASSUME NEW S, NEW d \in Seq(S)
    PROVE  (\A i \in 1 .. Len(d) : d[i] \in S) /\ FirstOf(d, Len(d)) = d
BY DEF FirstOf

\* One text behind another.
Apart(all, s, t) ==
    /\ all \in Seq(Int) /\ Len(all) = Len(s) + Len(t) /\ Len(s) \in Nat /\ Len(t) \in Nat
    /\ \A x \in 1 .. Len(s) : all[x] = s[x]
    /\ \A x \in 1 .. Len(t) : all[Len(s) + x] = t[x]

LEMMA JoinedApart ==
    ASSUME NEW s \in Seq(Int), NEW t \in Seq(Int)
    PROVE  Apart(s \o t, s, t)
<1>1. s \o t \in Seq(Int) /\ Len(s \o t) = Len(s) + Len(t) /\ Len(s) \in Nat /\ Len(t) \in Nat
  BY Together
<1>2. /\ \A x \in 1 .. Len(s) : (s \o t)[x] = s[x]
      /\ \A x \in 1 .. Len(t) : (s \o t)[Len(s) + x] = t[x]
  BY TogetherAt
<1> QED BY <1>1, <1>2 DEF Apart

-----------------------------------------------------------------------------
(* The smooth weighted round-robin of get_next_dbserver_index.             *)

\* In a finite cluster some connection has the most credit, so the loop of
\* get_next_dbserver_index ends on a connection of the cluster.
LEMMA RichestExists ==
    ASSUME NEW cluster, \A c \in cluster : c \in Nat, IsFiniteSet(cluster), cluster # {},
           NEW credit, \A c \in cluster : credit[c] \in Int
    PROVE  /\ Richest(credit, cluster) \in cluster
           /\ \A d \in cluster : credit[d] <= credit[Richest(credit, cluster)]
<1> DEFINE Above(c) == {d \in cluster : \/ credit[d] > credit[c]
                                        \/ credit[d] = credit[c] /\ d < c}
           T == {Above(c) : c \in cluster}
<1>1. \E s \in T : \A t \in T : t \subseteq s => t = s
  <2>1. T \in SUBSET SUBSET cluster /\ T # {}
    OBVIOUS
  <2> HIDE DEF T, Above
  <2> QED BY <2>1, LeastSet
<1>2. PICK c \in cluster : \A t \in T : t \subseteq Above(c) => t = Above(c)
  BY <1>1
<1>3. Above(c) = {}
  <2> SUFFICES ASSUME NEW d \in Above(c) PROVE FALSE
    OBVIOUS
  <2>1. /\ d \in cluster /\ d \in Nat /\ c \in Nat
        /\ credit[d] \in Int /\ credit[c] \in Int
        /\ credit[d] > credit[c] \/ (credit[d] = credit[c] /\ d < c)
    OBVIOUS
  <2>2. ASSUME NEW e \in Above(d) PROVE e \in Above(c)
    <3>1. /\ e \in Nat /\ credit[e] \in Int /\ e \in cluster
          /\ credit[e] > credit[d] \/ (credit[e] = credit[d] /\ e < d)
      OBVIOUS
    <3>2. credit[e] > credit[c] \/ (credit[e] = credit[c] /\ e < c)
      BY <2>1, <3>1
    <3> QED BY <3>1, <3>2
  <2>3. d \notin Above(d)
    BY <2>1
  <2>4. Above(d) \in T
    BY <2>1
  <2> HIDE DEF Above
  <2> QED BY <1>2, <2>2, <2>3, <2>4
<1>4. \A d \in cluster : credit[d] < credit[c] \/ (credit[d] = credit[c] /\ c <= d)
  BY <1>3
<1> DEFINE r == Richest(credit, cluster)
<1>5. r \in cluster /\ \A d \in cluster : credit[d] < credit[r] \/ (credit[d] = credit[r] /\ r <= d)
  BY <1>4 DEF Richest
<1> HIDE DEF r
<1>6. \A d \in cluster : credit[d] <= credit[r]
  BY <1>5
<1> QED BY <1>5, <1>6 DEF r

-----------------------------------------------------------------------------
(* A round. picked says how often each connection was drawn in it, out of   *)
(* draws in all. Because the loop starts from the weights, each credit is   *)
(* what the connection earned less the whole sum for each time it was       *)
(* drawn, and stays above the negative of that sum.                         *)

IsCluster(cluster, weight) ==
    /\ IsFiniteSet(cluster) /\ cluster # {}
    /\ \A c \in cluster : c \in Nat /\ weight[c] \in Nat \ {0}

InRound(credit, weight, cluster, picked, draws) ==
    /\ credit \in [cluster -> Int] /\ picked \in [cluster -> Nat]
    /\ draws = Total(picked, cluster) /\ draws <= Total(weight, cluster)
    /\ Total(credit, cluster) = Total(weight, cluster)
    /\ \A c \in cluster :
         /\ picked[c] <= weight[c]
         /\ credit[c] > -Total(weight, cluster)
         /\ credit[c] = (draws + 1) * weight[c] - Total(weight, cluster) * picked[c]

LEMMA SumOfWeights ==
    ASSUME NEW cluster, NEW weight, IsCluster(cluster, weight)
    PROVE  /\ Total(weight, cluster) \in Nat \ {0}
           /\ \A c \in cluster : weight[c] <= Total(weight, cluster)
<1>1. /\ IsFiniteSet(cluster) /\ cluster # {}
      /\ \A c \in cluster : weight[c] \in Nat /\ weight[c] # 0
  BY DEF IsCluster
<1>2. Total(weight, cluster) \in Nat /\ \A c \in cluster : weight[c] <= Total(weight, cluster)
  BY <1>1, SumOfNaturals DEF Total
<1> QED BY <1>1, <1>2

\* A round starts from the weights ...
LEMMA RoundStarts ==
    ASSUME NEW cluster, NEW weight, IsCluster(cluster, weight),
           NEW credit \in [cluster -> Int], \A c \in cluster : credit[c] = weight[c],
           NEW picked \in [cluster -> Nat], \A c \in cluster : picked[c] = 0
    PROVE  InRound(credit, weight, cluster, picked, 0)
<1> DEFINE W == Total(weight, cluster)
<1>1. W \in Nat \ {0} /\ \A c \in cluster : weight[c] \in Nat \ {0}
  BY SumOfWeights DEF IsCluster
<1>2. Total(picked, cluster) = 0
  BY SumZero DEF IsCluster, Total
<1>3. Total(credit, cluster) = W
  <2>1. \A c \in cluster : credit[c] \in Int /\ credit[c] = weight[c]
    OBVIOUS
  <2> QED BY <2>1, SumSame DEF IsCluster, Total
<1> HIDE DEF W
<1>4. \A c \in cluster : (0 + 1) * weight[c] - W * picked[c] = weight[c]
  BY <1>1
<1>5. \A c \in cluster : credit[c] > -W /\ picked[c] <= weight[c]
  BY <1>1
<1> QED BY <1>1, <1>2, <1>3, <1>4, <1>5 DEF InRound, W

\* ... each pick carries it on, as long as it is not over ...
LEMMA RoundAdvances ==
    ASSUME NEW cluster, NEW weight, IsCluster(cluster, weight),
           NEW credit, NEW picked, NEW draws, InRound(credit, weight, cluster, picked, draws),
           draws # Total(weight, cluster)
    PROVE  LET p == Pick(credit, weight, cluster)
           IN  /\ p \in cluster
               /\ InRound(Pay(credit, weight, cluster, p), weight, cluster,
                          [picked EXCEPT ![p] = @ + 1], draws + 1)
<1> DEFINE p == Pick(credit, weight, cluster)
           W == Total(weight, cluster)
           earned == Earn(credit, weight, cluster)
           paid == Pay(credit, weight, cluster, p)
           more == [picked EXCEPT ![p] = @ + 1]
<1>1. /\ IsFiniteSet(cluster) /\ cluster # {}
      /\ \A c \in cluster : c \in Nat /\ weight[c] \in Nat \ {0}
  BY DEF IsCluster
<1>2. W \in Nat \ {0} /\ \A c \in cluster : weight[c] <= W
  BY SumOfWeights
<1>3. /\ credit \in [cluster -> Int] /\ picked \in [cluster -> Nat]
      /\ draws = Total(picked, cluster) /\ draws <= W /\ Total(credit, cluster) = W
      /\ \A c \in cluster : /\ picked[c] <= weight[c] /\ credit[c] > -W
                            /\ credit[c] = (draws + 1) * weight[c] - W * picked[c]
  BY DEF InRound
<1>4. draws \in Nat /\ draws < W
  <2>1. \A c \in cluster : picked[c] \in Nat
    BY <1>3
  <2>2. Total(picked, cluster) \in Nat
    BY <1>1, <2>1, SumOfNaturals DEF Total
  <2> QED BY <1>2, <1>3, <2>2
<1>5. /\ earned \in [cluster -> Int]
      /\ \A c \in cluster : earned[c] = credit[c] + weight[c]
  BY <1>1, <1>3 DEF Earn
<1>6. Total(earned, cluster) = W + W
  <2>1. \A c \in cluster : /\ credit[c] \in Int /\ weight[c] \in Int
                           /\ earned[c] = credit[c] + weight[c]
    BY <1>1, <1>3, <1>5
  <2> HIDE DEF earned
  <2>2. Total(earned, cluster) = Total(credit, cluster) + Total(weight, cluster)
    BY <1>1, <2>1, SumPlus DEF Total
  <2> QED BY <1>3, <2>2
<1>7. p \in cluster /\ \A c \in cluster : earned[c] <= earned[p]
  <2>1. \A c \in cluster : earned[c] \in Int
    BY <1>5
  <2> HIDE DEF earned
  <2>2. /\ Richest(earned, cluster) \in cluster
        /\ \A c \in cluster : earned[c] <= earned[Richest(earned, cluster)]
    BY <1>1, <2>1, RichestExists
  <2> QED BY <2>2 DEF Pick, earned
<1>8. earned[p] > 0
  <2>1. \A c \in cluster : earned[c] \in Int
    BY <1>5
  <2> HIDE DEF earned, p, W
  <2>2. Total(earned, cluster) > 0
    BY <1>2, <1>6
  <2>3. \E c \in cluster : earned[c] > 0
    BY <1>1, <2>1, <2>2, SumPositive DEF Total
  <2> QED BY <1>7, <2>1, <2>3
<1> HIDE DEF p, W, earned
<1>9. picked[p] < weight[p]
  <2> SUFFICES ASSUME picked[p] = weight[p] PROVE FALSE
    BY <1>1, <1>3, <1>7
  <2>1. PICK c \in cluster : picked[c] < weight[c]
    <3> SUFFICES ASSUME \A c \in cluster : picked[c] = weight[c] PROVE FALSE
      BY <1>1, <1>3
    <3>1. \A c \in cluster : picked[c] \in Int /\ picked[c] = weight[c]
      BY <1>3
    <3>2. Total(picked, cluster) = Total(weight, cluster)
      BY <1>1, <3>1, SumSame DEF Total
    <3> QED BY <1>3, <1>4, <3>2 DEF W
  <2>2. earned[p] = (draws + 2 - W) * weight[p]
    <3>1. /\ earned[p] = (draws + 1) * weight[p] - W * weight[p] + weight[p]
          /\ weight[p] \in Nat
      BY <1>1, <1>3, <1>5, <1>7
    <3> DEFINE x == weight[p]
    <3>2. x \in Nat /\ earned[p] = (draws + 1) * x - W * x + x
      BY <3>1
    <3> HIDE DEF x
    <3>3. (draws + 1) * x - W * x + x = (draws + 2 - W) * x
      BY <1>2, <1>4, <3>2
    <3> QED BY <3>2, <3>3 DEF x
  <2>3. draws + 2 - W > 0
    <3> DEFINE k == draws + 2 - W
    <3>1. k \in Int /\ weight[p] \in Nat /\ k * weight[p] > 0
      BY <1>1, <1>2, <1>4, <1>7, <1>8, <2>2
    <3> HIDE DEF k
    <3>2. k > 0
      BY <3>1
    <3> QED BY <3>2 DEF k
  <2>4. draws + 2 - W = 1
    BY <1>2, <1>4, <2>3
  <2>5. earned[p] = weight[p]
    BY <1>1, <1>7, <2>2, <2>4
  <2>6. credit[c] = W * (weight[c] - picked[c])
    <3>1. draws + 1 = W
      BY <1>2, <1>4, <2>4
    <3> QED BY <1>1, <1>2, <1>3, <3>1
  <2>7. credit[c] >= W
    <3> DEFINE k == weight[c] - picked[c]
    <3>1. k \in Nat \ {0}
      BY <1>1, <1>3, <2>1
    <3> HIDE DEF k
    <3>2. W * k >= W
      BY <1>2, <3>1
    <3> QED BY <2>6, <3>2 DEF k
  <2>8. /\ weight[c] \in Nat \ {0} /\ weight[p] <= W /\ credit[c] \in Int
        /\ earned[c] = credit[c] + weight[c] /\ earned[c] <= earned[p]
        /\ weight[p] \in Nat
    BY <1>1, <1>2, <1>3, <1>5, <1>7
  <2> QED BY <1>2, <2>5, <2>7, <2>8
<1>10. /\ more \in [cluster -> Nat] /\ more[p] = picked[p] + 1
       /\ \A c \in cluster \ {p} : more[c] = picked[c]
  BY <1>3, <1>7
<1>11. /\ paid \in [cluster -> Int] /\ paid[p] = earned[p] - W
       /\ \A c \in cluster \ {p} : paid[c] = earned[c]
  BY <1>2, <1>5, <1>7 DEF Pay, earned, W
<1> HIDE DEF more, paid
<1>12. Total(more, cluster) = draws + 1
  <2>1. /\ \A c \in cluster : picked[c] \in Int /\ more[c] \in Int
        /\ \A c \in cluster : c # p => more[c] = picked[c]
    BY <1>3, <1>10
  <2>2. Total(more, cluster) = Total(picked, cluster) - picked[p] + more[p]
    BY <1>1, <1>7, <2>1, SumChanged DEF Total
  <2> QED BY <1>3, <1>4, <1>7, <1>10, <2>2
<1>13. Total(paid, cluster) = W
  <2>1. /\ \A c \in cluster : earned[c] \in Int /\ paid[c] \in Int
        /\ \A c \in cluster : c # p => paid[c] = earned[c]
    BY <1>5, <1>11
  <2>2. Total(paid, cluster) = Total(earned, cluster) - earned[p] + paid[p]
    BY <1>1, <1>7, <2>1, SumChanged DEF Total
  <2> QED BY <1>2, <1>6, <1>7, <1>11, <2>1, <2>2
<1>14. ASSUME NEW c \in cluster
       PROVE  /\ more[c] <= weight[c] /\ paid[c] > -W
              /\ paid[c] = (draws + 1 + 1) * weight[c] - W * more[c]
  <2>1. CASE c = p
    <3>1. paid[c] > -W /\ more[c] <= weight[c]
      BY <1>1, <1>2, <1>3, <1>5, <1>7, <1>8, <1>9, <1>10, <1>11, <2>1
    <3> DEFINE x == weight[p]
               d == picked[p]
    <3>2. /\ x \in Nat /\ d \in Nat /\ more[p] = d + 1
          /\ paid[p] = ((draws + 1) * x - W * d) + x - W
      BY <1>1, <1>2, <1>3, <1>4, <1>5, <1>7, <1>10, <1>11
    <3> HIDE DEF x, d
    <3>3. ((draws + 1) * x - W * d) + x - W = (draws + 1 + 1) * x - W * (d + 1)
      BY <1>2, <1>4, <3>2
    <3> QED BY <2>1, <3>1, <3>2, <3>3 DEF x
  <2>2. CASE c # p
    BY <1>1, <1>2, <1>3, <1>4, <1>5, <1>10, <1>11, <2>2
  <2> QED BY <2>1, <2>2
<1>15. draws + 1 <= W
  BY <1>2, <1>3, <1>4 DEF W
<1>16. InRound(paid, weight, cluster, more, draws + 1)
  BY <1>10, <1>11, <1>12, <1>13, <1>14, <1>15 DEF InRound, W
<1> QED BY <1>7, <1>16 DEF p, more, paid

\* ... and when it is over every connection was drawn as often as its weight says, and
\* has its weight for credit again.
LEMMA RoundEnds ==
    ASSUME NEW cluster, NEW weight, IsCluster(cluster, weight),
           NEW credit, NEW picked,
           InRound(credit, weight, cluster, picked, Total(weight, cluster))
    PROVE  \A c \in cluster : picked[c] = weight[c] /\ credit[c] = weight[c]
<1> DEFINE W == Total(weight, cluster)
<1>1. W \in Nat \ {0} /\ \A c \in cluster : weight[c] \in Nat \ {0}
  BY SumOfWeights DEF IsCluster
<1>2. /\ picked \in [cluster -> Nat] /\ W = Total(picked, cluster)
      /\ \A c \in cluster : /\ picked[c] <= weight[c]
                            /\ credit[c] = (W + 1) * weight[c] - W * picked[c]
  BY DEF InRound
<1>3. \A c \in cluster : picked[c] = weight[c]
  <2>1. \A c \in cluster : picked[c] \in Int /\ weight[c] \in Int /\ picked[c] <= weight[c]
    BY <1>1, <1>2
  <2>2. IsFiniteSet(cluster) /\ Total(picked, cluster) = Total(weight, cluster)
    BY <1>2 DEF IsCluster
  <2> QED BY <2>1, <2>2, SumAtMost DEF Total
<1> HIDE DEF W
<1> QED BY <1>1, <1>2, <1>3
=============================================================================
