----------------------------- MODULE Counting -----------------------------
(***************************************************************************)
(* What proofs about lines of jobs, queues of people and sums of money     *)
(* share: least and greatest elements of sets of natural numbers, the      *)
(* first places of a queue, induction over numbers and finite sets with a  *)
(* set for the predicate, and sums over finite sets.                       *)
(***************************************************************************)
EXTENDS Integers, FiniteSets, FiniteSetsExt, FiniteSetTheorems, WellFoundedInduction, TLAPS

\* A set of natural numbers that is not empty has a least element.
LEMMA LeastNumber ==
  ASSUME NEW T, T \subseteq Nat, T # {}
  PROVE  /\ \E x \in T : \A y \in T : x <= y
         /\ Min(T) \in T /\ \A y \in T : Min(T) <= y
<1> DEFINE R == OpToRel(<, Nat)
<1>1. IsWellFoundedOn(R, Nat)
  BY NatLessThanWellFounded
<1>2. PICK x \in T : \A y \in T : ~ (<<y, x>> \in R)
  BY <1>1, WFMin
<1>3. \A y \in T : y < x => <<y, x>> \in R
  BY DEF OpToRel
<1> HIDE DEF R
<1>4. \A y \in T : ~ (y < x)
  BY <1>2, <1>3, Zenon
<1>5. \A y \in T : x <= y
  BY <1>4
<1> QED BY <1>5, Zenon DEF Min

\* A bounded one has a greatest.
LEMMA GreatestNumber ==
  ASSUME NEW T, NEW n \in Nat, T \subseteq 0 .. n, T # {}
  PROVE  /\ \E x \in T : \A y \in T : x >= y
         /\ Max(T) \in T /\ \A y \in T : Max(T) >= y
<1> DEFINE D == {n - y : y \in T}
<1>1. D \subseteq Nat /\ D # {}
  <2>1. \A y \in T : n - y \in Nat
    OBVIOUS
  <2> QED BY <2>1
<1>2. PICK d \in D : \A e \in D : d <= e
  BY <1>1, LeastNumber
<1>3. PICK x \in T : d = n - x
  BY <1>2
<1>4. \A y \in T : x >= y
  <2> SUFFICES ASSUME NEW y \in T PROVE x >= y
    OBVIOUS
  <2>1. d <= n - y
    BY <1>2
  <2> QED BY <2>1, <1>3
<1> QED BY <1>4, Zenon DEF Max
\* Somebody in a set stands first, and somebody stands last.
LEMMA Foremost ==
  ASSUME NEW S, S # {}, NEW pos, \A m \in S : pos[m] \in Nat
  PROVE  \E m \in S : \A o \in S : pos[m] <= pos[o]
<1> DEFINE T == {pos[m] : m \in S}
<1>1. T \subseteq Nat /\ T # {}
  OBVIOUS
<1>2. PICK x \in T : \A y \in T : x <= y
  BY <1>1, LeastNumber
<1> QED BY <1>2

LEMMA Hindmost ==
  ASSUME NEW S, S # {}, NEW n \in Nat, NEW pos, \A m \in S : pos[m] \in 0 .. n
  PROVE  \E m \in S : \A o \in S : pos[m] >= pos[o]
<1> DEFINE T == {pos[m] : m \in S}
<1>1. T \subseteq 0 .. n /\ T # {}
  OBVIOUS
<1>2. PICK x \in T : \A y \in T : x >= y
  BY <1>1, GreatestNumber
<1> QED BY <1>2

Firsts(S, pos, k) == {m \in S : Cardinality({o \in S : pos[o] < pos[m]}) < k}

\* The first k places of a queue: no more than k of those who stand in it, k
\* of them when somebody is left over, and nobody overtakes.
LEMMA FirstPlaces ==
  ASSUME NEW S, IsFiniteSet(S), NEW n \in Nat, NEW pos \in [S -> 0 .. n], NEW k \in Nat,
         \A a, b \in S : pos[a] = pos[b] => a = b
  PROVE  /\ Firsts(S, pos, k) \subseteq S
         /\ Cardinality(Firsts(S, pos, k)) <= k
         /\ S \ Firsts(S, pos, k) # {} => Cardinality(Firsts(S, pos, k)) >= k
         /\ \A a \in Firsts(S, pos, k), b \in S \ Firsts(S, pos, k) : pos[a] < pos[b]
<1>a. PICK A : A = Firsts(S, pos, k)
  OBVIOUS
<1>b. /\ \A m \in A : m \in S /\ Cardinality({o \in S : pos[o] < pos[m]}) < k
      /\ \A m \in S \ A : ~ (Cardinality({o \in S : pos[o] < pos[m]}) < k)
  BY <1>a DEF Firsts
<1> DEFINE Before(m) == {o \in S : pos[o] < pos[m]}
<1>0. ASSUME NEW U, U \subseteq S
      PROVE  IsFiniteSet(U) /\ Cardinality(U) \in Nat
  BY <1>0, FS_Subset, FS_CardinalityType
<1>1. ASSUME NEW U, NEW V, U \subseteq V, V \subseteq S
      PROVE  Cardinality(U) <= Cardinality(V)
  BY <1>0, <1>1, FS_Subset
<1>2. A \subseteq S
  BY <1>b
<1>3. ASSUME NEW a \in A, NEW b \in S \ A
      PROVE  pos[a] < pos[b]
  <2>1. SUFFICES ASSUME ~ (pos[a] < pos[b]) PROVE FALSE
    OBVIOUS
  <2>0. a \in S /\ a # b /\ pos[a] \in Nat /\ pos[b] \in Nat
    BY <1>2
  <2>2. pos[b] < pos[a]
    BY <2>0, <2>1
  <2>3. Before(b) \subseteq Before(a) /\ Before(a) \subseteq S
    BY <2>0, <2>2
  <2>4. /\ Cardinality(Before(b)) <= Cardinality(Before(a))
        /\ Cardinality(Before(b)) \in Nat /\ Cardinality(Before(a)) \in Nat
    BY <2>3, <1>0, <1>1
  <2> QED BY <1>b, <2>4
<1>4. Cardinality(A) <= k
  <2>1. CASE A = {}
    <3>1. Cardinality(A) = 0
      BY <2>1, FS_EmptySet, Zenon
    <3> QED BY <3>1
  <2>2. CASE A # {}
    <3>1. \A a \in A : pos[a] \in 0 .. n
      BY <1>2
    <3>3. PICK a \in A : \A b \in A : pos[a] >= pos[b]
      BY <2>2, <3>1, Hindmost
    <3>4. A \ {a} \subseteq Before(a)
      BY <1>2, <3>3
    <3>5. Cardinality(A \ {a}) <= Cardinality(Before(a)) /\ Cardinality(Before(a)) \in Nat
      BY <1>2, <3>4, <1>0, <1>1
    <3>6. Cardinality(A \ {a}) = Cardinality(A) - 1 /\ Cardinality(A) \in Nat
      BY <1>0, <1>2, FS_RemoveElement
    <3>7. Cardinality(Before(a)) < k
      BY <1>b
    <3> QED BY <3>5, <3>6, <3>7
  <2> QED BY <2>1, <2>2
<1>5. ASSUME S \ A # {} PROVE Cardinality(A) >= k
  <2>1. \A b \in S \ A : pos[b] \in Nat
    OBVIOUS
  <2>3. PICK b \in S \ A : \A c \in S \ A : pos[b] <= pos[c]
    BY <1>5, <2>1, Foremost
  <2>4. Before(b) \subseteq A
    BY <2>3
  <2>5. Cardinality(Before(b)) <= Cardinality(A) /\ Cardinality(Before(b)) \in Nat /\ Cardinality(A) \in Nat
    BY <2>4, <1>0, <1>1, <1>2
  <2>6. ~ (Cardinality(Before(b)) < k)
    BY <1>b, <2>3
  <2> QED BY <2>5, <2>6
<1> QED BY <1>a, <1>2, <1>3, <1>4, <1>5
\* Finitely many numbers have a bound.
LEMMA FiniteBound ==
  ASSUME NEW S, IsFiniteSet(S), NEW pos, \A m \in S : pos[m] \in Nat
  PROVE  \E n \in Nat : \A m \in S : pos[m] <= n
<1>1. PICK k \in Nat : ExistsBijection(1 .. k, S)
  BY FS_NatBijection
<1>2. PICK f \in [1 .. k -> S] : \A m \in S : \E i \in 1 .. k : f[i] = m
  BY <1>1 DEF ExistsBijection, Bijection, Surjection
<1> DEFINE Bounded(j) == \E n \in Nat : \A i \in 1 .. j : pos[f[i]] <= n
           C == {j \in 0 .. k : ~Bounded(j)}
<1>3. C = {}
  <2> SUFFICES ASSUME C # {} PROVE FALSE
    OBVIOUS
  <2>1. C \subseteq Nat
    OBVIOUS
  <2>2. PICK j \in C : \A l \in C : j <= l
    <3> HIDE DEF C
    <3> QED BY <2>1, LeastNumber
  <2>3. j \in 0 .. k /\ ~Bounded(j)
    OBVIOUS
  <2>4. j # 0
    <3>1. 0 \in Nat /\ \A i \in 1 .. 0 : pos[f[i]] <= 0
      OBVIOUS
    <3> QED BY <2>3, <3>1
  <2>5. j - 1 \in 0 .. k /\ j - 1 \notin C
    <3>1. j \in Nat /\ k \in Nat /\ j <= k
      BY <2>3
    <3>2. j - 1 \in 0 .. k /\ ~(j <= j - 1)
      BY <2>4, <3>1
    <3> HIDE DEF C
    <3> QED BY <2>2, <3>2
  <2>6. PICK n \in Nat : \A i \in 1 .. j - 1 : pos[f[i]] <= n
    BY <2>5
  <2>7. j \in 1 .. k /\ pos[f[j]] \in Nat
    BY <1>2, <2>3, <2>4
  <2>8. PICK b \in Nat : n <= b /\ pos[f[j]] <= b
    <3> DEFINE p == pos[f[j]]
    <3>1. p \in Nat
      BY <2>7
    <3> HIDE DEF p
    <3>2. \E b \in Nat : n <= b /\ p <= b
      <4>1. n <= n + p /\ p <= n + p /\ n + p \in Nat
        BY <3>1
      <4> QED BY <4>1
    <3> QED BY <3>2 DEF p
  <2>9. \A i \in 1 .. j : pos[f[i]] <= b
    <3> SUFFICES ASSUME NEW i \in 1 .. j PROVE pos[f[i]] <= b
      OBVIOUS
    <3>1. i \in 1 .. k
      BY <2>7
    <3>2. f[i] \in S
      BY <1>2, <3>1
    <3>3. pos[f[i]] \in Nat
      BY <3>2
    <3>4. i = j \/ i \in 1 .. j - 1
      BY <2>7
    <3>5. CASE i = j
      BY <2>8, <3>5
    <3>6. CASE i \in 1 .. j - 1
      <4> DEFINE p == pos[f[i]]
      <4>1. p <= n /\ p \in Nat
        BY <2>6, <3>3, <3>6
      <4> HIDE DEF p
      <4>2. p <= b
        BY <2>8, <4>1
      <4> QED BY <4>2 DEF p
    <3> QED BY <3>4, <3>5, <3>6
  <2> QED BY <2>3, <2>8, <2>9
<1>4. k \in 0 .. k
  OBVIOUS
<1>5. PICK n \in Nat : \A i \in 1 .. k : pos[f[i]] <= n
  BY <1>3, <1>4
<1> QED BY <1>2, <1>5
-----------------------------------------------------------------------------
\* Induction over the natural numbers, with a set for the predicate.
LEMMA NumberInduction ==
  ASSUME NEW G, 0 \in G, \A n \in Nat : n \in G => n + 1 \in G
  PROVE  Nat \subseteq G
<1> DEFINE C == Nat \ G
<1>1. SUFFICES ASSUME C # {} PROVE FALSE
  OBVIOUS
<1>2. PICK n \in C : \A k \in C : n <= k
  <2>1. C \subseteq Nat /\ C # {}
    BY <1>1
  <2> HIDE DEF C
  <2> QED BY <2>1, LeastNumber
<1>3. n # 0 /\ n \in Nat
  OBVIOUS
<1>4. n - 1 \in Nat /\ n - 1 \notin C
  <2>1. ~(n <= n - 1) /\ n - 1 \in Nat
    BY <1>3
  <2> HIDE DEF C
  <2> QED BY <1>2, <2>1
<1>5. (n - 1) + 1 \in G
  BY <1>4
<1>6. (n - 1) + 1 = n
  BY <1>3
<1> QED BY <1>5, <1>6

\* Induction over the subsets of a finite set.
LEMMA SetInduction ==
  ASSUME NEW S, IsFiniteSet(S), NEW G, {} \in G,
         \A T \in SUBSET S : \A x \in S \ T : T \in G => T \cup {x} \in G
  PROVE  S \in G
<1> DEFINE C == {T \in SUBSET S : T \notin G}
           N == {Cardinality(T) : T \in C}
<1>1. \A T \in SUBSET S : IsFiniteSet(T) /\ Cardinality(T) \in Nat
  BY FS_Subset, FS_CardinalityType
<1>2. SUFFICES ASSUME C # {} PROVE FALSE
  <2>1. C = {} => S \in G
    OBVIOUS
  <2> QED BY <2>1
<1>3. N \subseteq Nat /\ N # {}
  BY <1>1, <1>2
<1>4. PICK n \in N : \A k \in N : n <= k
  <2> HIDE DEF N
  <2> QED BY <1>3, LeastNumber
<1>5. PICK T \in SUBSET S : T \notin G /\ Cardinality(T) = n
  BY <1>4
<1>6. PICK x : x \in T
  BY <1>5
<1>7. Cardinality(T \ {x}) = Cardinality(T) - 1 /\ Cardinality(T) \in Nat
  BY <1>1, <1>5, <1>6, FS_RemoveElement
<1>8. T \ {x} \notin C
  <2> SUFFICES ASSUME T \ {x} \in C PROVE FALSE
    OBVIOUS
  <2>1. Cardinality(T \ {x}) \in N
    OBVIOUS
  <2> HIDE DEF N, C
  <2> QED BY <1>4, <1>5, <1>7, <2>1
<1>9. T \ {x} \in G /\ T \ {x} \in SUBSET S /\ x \in S \ (T \ {x})
  BY <1>6, <1>8
<1>10. (T \ {x}) \cup {x} = T
  BY <1>6
<1>11. (T \ {x}) \cup {x} \in G
  BY <1>9
<1> QED BY <1>5, <1>10, <1>11

-----------------------------------------------------------------------------
\* The sum of what a function says of the members of a set.
Total(w, S) == MapThenSumSet(LAMBDA x : w[x], S)

Pick(s) == CHOOSE x \in s : TRUE

\* One step of the summation, over the sets of D.
Adding(w, D, g) == [s \in D |-> IF s = {} THEN 0 ELSE w[Pick(s)] + g[s \ {Pick(s)}]]

LEMMA Picked == \A s : s # {} => Pick(s) \in s
  BY DEF Pick

LEMMA SumIs ==
  ASSUME NEW S, NEW w
  PROVE  Total(w, S) = (CHOOSE g : g = Adding(w, SUBSET S, g))[S]
  BY Zenon DEF Total, MapThenSumSet, MapThenFoldSet, Adding, Pick

\* A function that adds up every subset.
LEMMA Accumulator ==
  ASSUME NEW S, IsFiniteSet(S), NEW w
  PROVE  \E g : g = Adding(w, SUBSET S, g)
<1> DEFINE D(n) == {s \in SUBSET S : Cardinality(s) <= n}
           G == {n \in Nat : \E g : g = Adding(w, D(n), g)}
<1>1. \A s \in SUBSET S : IsFiniteSet(s) /\ Cardinality(s) \in Nat
  BY FS_Subset, FS_CardinalityType
<1>2. ASSUME NEW s \in SUBSET S, s # {}, NEW n \in Nat, Cardinality(s) <= n + 1
      PROVE  s \ {Pick(s)} \in D(n)
  <2>1. Pick(s) \in s
    BY <1>2, Picked
  <2>2. Cardinality(s \ {Pick(s)}) = Cardinality(s) - 1
    BY <1>1, <2>1, FS_RemoveElement
  <2>3. Cardinality(s) \in Nat
    BY <1>1
  <2> QED BY <1>2, <2>2, <2>3
<1>3. 0 \in G
  <2>1. \A s \in D(0) : s = {}
    BY <1>1, FS_EmptySet
  <2>2. PICK g : g = [s \in D(0) |-> 0]
    OBVIOUS
  <2>3. g = Adding(w, D(0), g)
    BY <2>1, <2>2 DEF Adding
  <2> QED BY <2>3
<1>4. ASSUME NEW n \in Nat, n \in G
      PROVE  n + 1 \in G
  <2>1. PICK g : g = Adding(w, D(n), g)
    BY <1>4
  <2>2. PICK h : h = Adding(w, D(n + 1), g)
    OBVIOUS
  <2>3. \A s \in D(n) : h[s] = g[s]
    <3> SUFFICES ASSUME NEW s \in D(n) PROVE h[s] = g[s]
      OBVIOUS
    <3>1. s \in D(n + 1)
      BY <1>1
    <3>2. g[s] = IF s = {} THEN 0 ELSE w[Pick(s)] + g[s \ {Pick(s)}]
      BY <2>1 DEF Adding
    <3>3. h[s] = IF s = {} THEN 0 ELSE w[Pick(s)] + g[s \ {Pick(s)}]
      BY <2>2, <3>1 DEF Adding
    <3> QED BY <3>2, <3>3
  <2>4. \A s \in D(n + 1) : s # {} => s \ {Pick(s)} \in D(n)
    BY <1>2
  <2>5. h = Adding(w, D(n + 1), h)
    <3> HIDE DEF D
    <3> QED BY <2>2, <2>3, <2>4 DEF Adding
  <2> HIDE DEF D
  <2>6. \E f : f = Adding(w, D(n + 1), f)
    BY <2>5, Zenon
  <2>7. n + 1 \in Nat
    OBVIOUS
  <2> QED BY <2>6, <2>7
<1>5. Nat \subseteq G
  <2> HIDE DEF G
  <2> QED BY <1>3, <1>4, NumberInduction
<1>6. D(Cardinality(S)) = SUBSET S
  BY <1>1, FS_Subset
<1>7. Cardinality(S) \in G
  BY <1>1, <1>5
<1>8. PICK g : g = Adding(w, D(Cardinality(S)), g)
  BY <1>7
<1> HIDE DEF D
<1> QED BY <1>6, <1>8

\* The sum of any subset, by the step of the summation.
LEMMA SumStep ==
  ASSUME NEW S, IsFiniteSet(S), NEW w
  PROVE  Total(w, S) = IF S = {} THEN 0 ELSE w[Pick(S)] + Total(w, S \ {Pick(S)})
<1> DEFINE F(T) == CHOOSE g : g = Adding(w, SUBSET T, g)
<1>1. ASSUME NEW T, IsFiniteSet(T) PROVE F(T) = Adding(w, SUBSET T, F(T)) /\ Total(w, T) = F(T)[T]
  <2>1. \E g : g = Adding(w, SUBSET T, g)
    BY <1>1, Accumulator
  <2>2. Total(w, T) = F(T)[T]
    BY SumIs
  <2> QED BY <2>1, <2>2, Zenon
<1>2. CASE S = {}
  BY <1>1, <1>2 DEF Adding
<1>3. CASE S # {}
  <2>1. PICK x : x = Pick(S)
    OBVIOUS
  <2>2. PICK T : T = S \ {x}
    OBVIOUS
  <2>3. x \in S /\ IsFiniteSet(T) /\ T \subseteq S
    BY <1>3, <2>1, <2>2, Picked, FS_Subset
  <2>4. PICK f, g : f = F(S) /\ g = F(T)
    OBVIOUS
  <2>5. f = Adding(w, SUBSET S, f) /\ g = Adding(w, SUBSET T, g) /\ Total(w, S) = f[S] /\ Total(w, T) = g[T]
    BY <1>1, <2>3, <2>4
  <2> HIDE DEF F
  <2>6. f[S] = w[x] + f[T]
    BY <1>3, <2>1, <2>2, <2>5 DEF Adding
  <2>7. f[T] = g[T]
    <3> DEFINE B == {s \in SUBSET T : f[s] # g[s]}
               N == {Cardinality(s) : s \in B}
    <3>1. SUFFICES ASSUME B # {} PROVE FALSE
      OBVIOUS
    <3>2. \A s \in SUBSET T : IsFiniteSet(s) /\ Cardinality(s) \in Nat
      BY <2>3, FS_Subset, FS_CardinalityType
    <3>3. N \subseteq Nat /\ N # {}
      BY <3>1, <3>2
    <3>4. PICK n \in N : \A k \in N : n <= k
      <4> HIDE DEF N
      <4> QED BY <3>3, LeastNumber
    <3>5. PICK s \in SUBSET T : f[s] # g[s] /\ Cardinality(s) = n
      BY <3>4
    <3>6. f[s] = (IF s = {} THEN 0 ELSE w[Pick(s)] + f[s \ {Pick(s)}]) /\ g[s] = (IF s = {} THEN 0 ELSE w[Pick(s)] + g[s \ {Pick(s)}])
      BY <2>3, <2>5, <3>5 DEF Adding
    <3>7. s # {} /\ f[s \ {Pick(s)}] # g[s \ {Pick(s)}]
      BY <3>5, <3>6
    <3>8. s \ {Pick(s)} \in B /\ Pick(s) \in s
      BY <3>5, <3>7, Picked
    <3>9. Cardinality(s \ {Pick(s)}) = n - 1 /\ n \in Nat
      BY <3>2, <3>5, <3>8, FS_RemoveElement
    <3>10. n - 1 \in N
      BY <3>8, <3>9
    <3> HIDE DEF N, B
    <3> QED BY <3>4, <3>9, <3>10
  <2>8. Total(w, S) = w[x] + Total(w, T)
    BY <2>5, <2>6, <2>7
  <2>9. Total(w, S) = w[Pick(S)] + Total(w, S \ {Pick(S)})
    BY <2>1, <2>2, <2>8, Zenon
  <2> QED BY <1>3, <2>9
<1> QED BY <1>2, <1>3

\* Sums of integers are integers, and do not depend on the order.
LEMMA SumRemove ==
  ASSUME NEW S, IsFiniteSet(S), NEW w, \A x \in S : w[x] \in Int
  PROVE  Total(w, S) \in Int /\ \A x \in S : Total(w, S) = w[x] + Total(w, S \ {x})
<1> DEFINE P(n) == \A T \in SUBSET S : Cardinality(T) <= n => Total(w, T) \in Int /\ \A x \in T : Total(w, T) = w[x] + Total(w, T \ {x})
           G == {n \in Nat : P(n)}
<1>1. \A s \in SUBSET S : IsFiniteSet(s) /\ Cardinality(s) \in Nat
  BY FS_Subset, FS_CardinalityType
<1>2. 0 \in G
  <2>1. \A T \in SUBSET S : Cardinality(T) <= 0 => T = {}
    BY <1>1, FS_EmptySet
  <2>2. Total(w, {}) = 0
    BY SumStep, FS_EmptySet
  <2>3. P(0)
    <3> SUFFICES ASSUME NEW T \in SUBSET S, Cardinality(T) <= 0
                 PROVE  Total(w, T) \in Int /\ \A x \in T : Total(w, T) = w[x] + Total(w, T \ {x})
      OBVIOUS
    <3>1. T = {}
      BY <2>1
    <3>2. Total(w, T) = 0
      BY <2>2, <3>1
    <3> QED BY <3>1, <3>2
  <2> HIDE DEF P
  <2> QED BY <2>3
<1>3. ASSUME NEW n \in Nat, P(n) PROVE P(n + 1)
  <2> SUFFICES ASSUME NEW T \in SUBSET S, Cardinality(T) <= n + 1
               PROVE  Total(w, T) \in Int /\ \A x \in T : Total(w, T) = w[x] + Total(w, T \ {x})
    OBVIOUS
  <2>1. CASE T = {}
    BY <2>1, SumStep, FS_EmptySet
  <2>2. CASE T # {}
    <3>1. PICK c : c = Pick(T)
      OBVIOUS
    <3>2. c \in T
      BY <2>2, <3>1, Picked
    <3>3. \A x \in T : T \ {x} \in SUBSET S /\ Cardinality(T \ {x}) <= n
      <4> SUFFICES ASSUME NEW x \in T PROVE Cardinality(T \ {x}) <= n
        OBVIOUS
      <4>1. Cardinality(T \ {x}) = Cardinality(T) - 1 /\ Cardinality(T) \in Nat
        BY <1>1, FS_RemoveElement
      <4> QED BY <4>1
    <3>4. \A x \in T : Total(w, T \ {x}) \in Int /\ \A y \in T \ {x} : Total(w, T \ {x}) = w[y] + Total(w, (T \ {x}) \ {y})
      BY <1>3, <3>3
    <3>5. Total(w, T) = w[c] + Total(w, T \ {c})
      BY <1>1, <2>2, <3>1, SumStep
    <3>6. w[c] \in Int /\ Total(w, T \ {c}) \in Int
      BY <3>2, <3>4
    <3>7. ASSUME NEW x \in T PROVE Total(w, T) = w[x] + Total(w, T \ {x})
      <4>1. CASE x = c
        BY <3>5, <4>1
      <4>2. CASE x # c
        <5>1. PICK R : R = (T \ {c}) \ {x} /\ R = (T \ {x}) \ {c} /\ R \in SUBSET S
          BY <3>2
        <5>2. Total(w, T \ {c}) = w[x] + Total(w, R)
          BY <3>2, <3>4, <4>2, <5>1
        <5>3. Total(w, T \ {x}) = w[c] + Total(w, R)
          BY <3>2, <3>4, <4>2, <5>1
        <5>4. R \in SUBSET S /\ Cardinality(R) <= n
          <6>1. Cardinality(R) <= Cardinality(T \ {x}) /\ Cardinality(R) \in Nat /\ Cardinality(T \ {x}) \in Nat
            BY <1>1, <3>3, <5>1, FS_Subset
          <6> QED BY <3>3, <5>1, <6>1
        <5>5. Total(w, R) \in Int /\ w[x] \in Int
          BY <1>3, <5>4
        <5> QED BY <3>5, <3>6, <5>2, <5>3, <5>5
      <4> QED BY <4>1, <4>2
    <3> QED BY <3>5, <3>6, <3>7
  <2> QED BY <2>1, <2>2
<1>4. Nat \subseteq G
  <2>1. \A n \in Nat : n \in G => n + 1 \in G
    <3> HIDE DEF P
    <3> QED BY <1>3
  <2> HIDE DEF G
  <2> QED BY <1>2, <2>1, NumberInduction
<1>5. Cardinality(S) \in G
  BY <1>1, <1>4
<1>6. Cardinality(S) <= Cardinality(S)
  BY <1>1
<1> QED BY <1>5, <1>6

LEMMA SumEmpty == \A w : Total(w, {}) = 0
  BY SumStep, FS_EmptySet

\* One more summand.
LEMMA SumAdd ==
  ASSUME NEW S, IsFiniteSet(S), NEW w, \A x \in S : w[x] \in Int, NEW a, a \notin S, w[a] \in Int
  PROVE  IsFiniteSet(S \cup {a}) /\ Total(w, S \cup {a}) = Total(w, S) + w[a]
<1>1. IsFiniteSet(S \cup {a})
  BY FS_AddElement
<1>2. (S \cup {a}) \ {a} = S
  OBVIOUS
<1>3. Total(w, S \cup {a}) = w[a] + Total(w, S)
  BY <1>1, <1>2, SumRemove
<1>4. Total(w, S) \in Int
  BY SumRemove
<1> QED BY <1>1, <1>3, <1>4

LEMMA SumGrows ==
  ASSUME NEW S, IsFiniteSet(S), NEW w, \A x \in S : w[x] \in Int
  PROVE  /\ \A T \in SUBSET S : IsFiniteSet(T) /\ Total(w, T) \in Int
         /\ \A T \in SUBSET S : \A a \in S \ T : Total(w, T \cup {a}) = Total(w, T) + w[a]
<1>1. ASSUME NEW T \in SUBSET S PROVE IsFiniteSet(T) /\ Total(w, T) \in Int
  <2>1. IsFiniteSet(T) /\ \A x \in T : w[x] \in Int
    BY FS_Subset
  <2> QED BY <2>1, SumRemove
<1>2. ASSUME NEW T \in SUBSET S, NEW a \in S \ T PROVE Total(w, T \cup {a}) = Total(w, T) + w[a]
  <2>1. IsFiniteSet(T) /\ \A x \in T : w[x] \in Int
    BY <1>1
  <2> QED BY <2>1, SumAdd
<1> QED BY <1>1, <1>2

LEMMA SumOne ==
  ASSUME NEW w, NEW a, w[a] \in Int
  PROVE  Total(w, {a}) = w[a]
<1>1. {} \cup {a} = {a} /\ IsFiniteSet({})
  BY FS_EmptySet
<1>2. Total(w, {} \cup {a}) = Total(w, {}) + w[a]
  BY <1>1, SumAdd
<1> QED BY <1>1, <1>2, SumEmpty

LEMMA SumTwo ==
  ASSUME NEW w, NEW a, NEW b, a # b, w[a] \in Int, w[b] \in Int
  PROVE  Total(w, {a, b}) = w[a] + w[b]
<1>1. {a} \cup {b} = {a, b} /\ IsFiniteSet({a}) /\ b \notin {a}
  BY FS_Singleton
<1>2. Total(w, {a} \cup {b}) = Total(w, {a}) + w[b]
  BY <1>1, SumAdd
<1> QED BY <1>1, <1>2, SumOne

\* Sums depend on the summands alone.
LEMMA SumSame ==
  ASSUME NEW S, IsFiniteSet(S), NEW v, NEW w, \A x \in S : v[x] = w[x] /\ w[x] \in Int
  PROVE  Total(v, S) = Total(w, S)
<1> DEFINE G == {T \in SUBSET S : Total(v, T) = Total(w, T)}
<1>1. {} \in G
  BY SumEmpty
<1>2. ASSUME NEW T \in SUBSET S, NEW a \in S \ T, T \in G
      PROVE  T \cup {a} \in G
  <2>1. IsFiniteSet(T)
    BY FS_Subset
  <2>2. Total(v, T \cup {a}) = Total(v, T) + v[a]
    BY <2>1, SumAdd
  <2>3. Total(w, T \cup {a}) = Total(w, T) + w[a]
    BY <2>1, SumAdd
  <2> QED BY <1>2, <2>2, <2>3
<1>3. S \in G
  <2> HIDE DEF G
  <2> QED BY <1>1, <1>2, SetInduction
<1> QED BY <1>3

\* Sums over two sets without a common member.
LEMMA SumUnion ==
  ASSUME NEW S, NEW U, IsFiniteSet(S), IsFiniteSet(U), S \cap U = {}, NEW w, \A x \in S \cup U : w[x] \in Int
  PROVE  Total(w, S \cup U) = Total(w, S) + Total(w, U)
<1> DEFINE G == {T \in SUBSET U : Total(w, S \cup T) = Total(w, S) + Total(w, T)}
<1>1. {} \in G
  <2>1. S \cup {} = S /\ Total(w, S) \in Int
    BY SumRemove
  <2> QED BY <2>1, SumEmpty
<1>0. IsFiniteSet(S \cup U)
  BY FS_Union
<1>2. ASSUME NEW T \in SUBSET U, NEW a \in U \ T, T \in G
      PROVE  T \cup {a} \in G
  <2>1. S \cup T \in SUBSET (S \cup U) /\ T \in SUBSET (S \cup U) /\ S \in SUBSET (S \cup U)
        /\ a \in (S \cup U) \ (S \cup T) /\ a \in (S \cup U) \ T
    OBVIOUS
  <2>2. Total(w, T \cup {a}) = Total(w, T) + w[a]
    BY <1>0, <2>1, SumGrows
  <2>3. Total(w, (S \cup T) \cup {a}) = Total(w, S \cup T) + w[a]
    BY <1>0, <2>1, SumGrows
  <2>4. (S \cup T) \cup {a} = S \cup (T \cup {a})
    OBVIOUS
  <2>5. Total(w, S) \in Int /\ Total(w, T) \in Int /\ w[a] \in Int
    BY <1>0, <2>1, SumGrows
  <2>6. Total(w, S \cup T) = Total(w, S) + Total(w, T)
    BY <1>2
  <2>8. Total(w, S \cup (T \cup {a})) = Total(w, S \cup T) + w[a]
    BY <2>3, <2>4
  <2>7. Total(w, S \cup (T \cup {a})) = Total(w, S) + Total(w, T \cup {a})
    BY <2>2, <2>5, <2>6, <2>8
  <2> QED BY <2>7
<1>3. U \in G
  <2> HIDE DEF G
  <2> QED BY <1>1, <1>2, SetInduction
<1> QED BY <1>3

\* Summands of one sign.
LEMMA SumNat ==
  ASSUME NEW S, IsFiniteSet(S), NEW w, \A x \in S : w[x] \in Nat
  PROVE  /\ Total(w, S) \in Nat /\ \A x \in S : w[x] <= Total(w, S)
         /\ Total(w, S) = 0 => \A x \in S : w[x] = 0
<1> DEFINE G == {T \in SUBSET S : Total(w, T) \in Nat}
<1>1. {} \in G
  BY SumEmpty
<1>2. ASSUME NEW T \in SUBSET S, NEW a \in S \ T, T \in G
      PROVE  T \cup {a} \in G
  <2>1. Total(w, T \cup {a}) = Total(w, T) + w[a]
    BY SumGrows
  <2> QED BY <1>2, <2>1
<1>3. \A U \in SUBSET S : U \in G
  <2> SUFFICES ASSUME NEW U \in SUBSET S PROVE U \in G
    OBVIOUS
  <2> DEFINE H == {T \in SUBSET U : T \in G}
  <2>1. {} \in H
    BY <1>1
  <2>2. ASSUME NEW T \in SUBSET U, NEW a \in U \ T, T \in H
        PROVE  T \cup {a} \in H
    BY <1>2, <2>2
  <2>3. IsFiniteSet(U)
    BY FS_Subset
  <2>4. U \in H
    <3> HIDE DEF H
    <3> QED BY <2>1, <2>2, <2>3, SetInduction
  <2> QED BY <2>4
<1>4. ASSUME NEW x \in S PROVE w[x] <= Total(w, S) /\ (Total(w, S) = 0 => w[x] = 0)
  <2>1. Total(w, S) = w[x] + Total(w, S \ {x})
    BY SumRemove
  <2>2. Total(w, S \ {x}) \in Nat
    BY <1>3
  <2>3. w[x] \in Nat
    OBVIOUS
  <2> QED BY <2>1, <2>2, <2>3
<1>5. Total(w, S) \in Nat
  BY <1>3
<1> QED BY <1>4, <1>5

LEMMA SumZero ==
  ASSUME NEW S, IsFiniteSet(S), NEW w, \A x \in S : w[x] = 0
  PROVE  Total(w, S) = 0
<1> DEFINE G == {T \in SUBSET S : Total(w, T) = 0}
<1>1. {} \in G
  BY SumEmpty
<1>2. ASSUME NEW T \in SUBSET S, NEW a \in S \ T, T \in G
      PROVE  T \cup {a} \in G
  <2>1. Total(w, T \cup {a}) = Total(w, T) + w[a]
    BY SumGrows
  <2> QED BY <1>2, <2>1
<1>3. S \in G
  <2> HIDE DEF G
  <2> QED BY <1>1, <1>2, SetInduction
<1> QED BY <1>3

\* Sums of sums of two functions.
LEMMA SumPlus ==
  ASSUME NEW S, IsFiniteSet(S), NEW u, NEW v, NEW w,
         \A x \in S : v[x] \in Int /\ w[x] \in Int /\ u[x] = v[x] + w[x]
  PROVE  Total(u, S) = Total(v, S) + Total(w, S)
<1> DEFINE G == {T \in SUBSET S : Total(u, T) = Total(v, T) + Total(w, T)}
<1>1. {} \in G
  BY SumEmpty
<1>2. ASSUME NEW T \in SUBSET S, NEW a \in S \ T, T \in G
      PROVE  T \cup {a} \in G
  <2>1. IsFiniteSet(T) /\ v[a] \in Int /\ w[a] \in Int /\ u[a] = v[a] + w[a]
    BY FS_Subset
  <2>2. Total(v, T \cup {a}) = Total(v, T) + v[a] /\ Total(v, T) \in Int
    BY SumGrows
  <2>3. Total(w, T \cup {a}) = Total(w, T) + w[a] /\ Total(w, T) \in Int
    BY SumGrows
  <2>4. Total(u, T \cup {a}) = Total(u, T) + u[a]
    <3>1. \A x \in S : u[x] \in Int
      OBVIOUS
    <3> QED BY <3>1, SumGrows
  <2>5. Total(u, T) = Total(v, T) + Total(w, T)
    BY <1>2
  <2>6. Total(u, T \cup {a}) = Total(v, T \cup {a}) + Total(w, T \cup {a})
    BY <2>1, <2>2, <2>3, <2>4, <2>5
  <2> QED BY <2>6
<1>3. S \in G
  <2> HIDE DEF G
  <2> QED BY <1>1, <1>2, SetInduction
<1> QED BY <1>3

\* Adding up group by group: key says which group a member belongs to.
Grouped(v, K, w, S, key) == \A k \in K : v[k] = Total(w, {x \in S : key[x] = k})

LEMMA SumGroups ==
  ASSUME NEW S, IsFiniteSet(S), NEW w, \A x \in S : w[x] \in Int,
         NEW K, IsFiniteSet(K), NEW key, \A x \in S : key[x] \in K,
         NEW v, Grouped(v, K, w, S, key)
  PROVE  Total(w, S) = Total(v, K)
<1> DEFINE Of(L) == {x \in S : key[x] \in L}
           G == {L \in SUBSET K : Total(w, Of(L)) = Total(v, L)}
<1> USE DEF Grouped
<1>0. \A T \in SUBSET S : IsFiniteSet(T) /\ Total(w, T) \in Int
  BY FS_Subset, SumRemove
<1>1. {} \in G
  <2>1. Of({}) = {}
    OBVIOUS
  <2> HIDE DEF Of
  <2> QED BY <2>1, SumEmpty
<1>2. ASSUME NEW L \in SUBSET K, NEW a \in K \ L, L \in G
      PROVE  L \cup {a} \in G
  <2>1. \A k \in K : v[k] \in Int
    BY <1>0
  <2>2. Total(v, L \cup {a}) = Total(v, L) + v[a]
    BY <2>1, SumGrows
  <2> DEFINE A == {x \in S : key[x] = a}
  <2>3. Of(L \cup {a}) = Of(L) \cup A /\ Of(L) \cap A = {} /\ Of(L) \subseteq S /\ A \subseteq S
    OBVIOUS
  <2>4. v[a] = Total(w, A)
    OBVIOUS
  <2> HIDE DEF A, Of
  <2>5. Total(w, Of(L) \cup A) = Total(w, Of(L)) + Total(w, A)
    BY <1>0, <2>3, SumUnion
  <2>6. Total(w, Of(L)) = Total(v, L)
    BY <1>2
  <2>7. Total(w, Of(L \cup {a})) = Total(v, L \cup {a})
    BY <2>2, <2>3, <2>4, <2>5, <2>6
  <2> QED BY <2>7
<1>3. K \in G
  <2> HIDE DEF G
  <2> QED BY <1>1, <1>2, SetInduction
<1>4. Of(K) = S
  OBVIOUS
<1> HIDE DEF Of
<1> QED BY <1>3, <1>4

\* Adding up under other names.
LEMMA SumRenamed ==
  ASSUME NEW S, IsFiniteSet(S), NEW w, NEW v, NEW f, \A x, y \in S : f[x] = f[y] => x = y,
         \A x \in S : w[x] \in Int /\ v[f[x]] = w[x]
  PROVE  Total(v, {f[x] : x \in S}) = Total(w, S)
<1> DEFINE I(T) == {f[x] : x \in T}
           G == {T \in SUBSET S : IsFiniteSet(I(T)) /\ Total(v, I(T)) = Total(w, T)}
<1>1. {} \in G
  <2>1. I({}) = {}
    OBVIOUS
  <2> HIDE DEF I
  <2> QED BY <2>1, SumEmpty, FS_EmptySet
<1>2. ASSUME NEW T \in SUBSET S, NEW a \in S \ T, T \in G
      PROVE  T \cup {a} \in G
  <2>1. IsFiniteSet(T) /\ IsFiniteSet(I(T)) /\ Total(v, I(T)) = Total(w, T)
    BY <1>2, FS_Subset
  <2>2. I(T \cup {a}) = I(T) \cup {f[a]} /\ f[a] \notin I(T)
    OBVIOUS
  <2>3. \A y \in I(T) : v[y] \in Int
    OBVIOUS
  <2>4. v[f[a]] = w[a] /\ w[a] \in Int
    OBVIOUS
  <2> HIDE DEF I
  <2>5. IsFiniteSet(I(T) \cup {f[a]}) /\ Total(v, I(T) \cup {f[a]}) = Total(v, I(T)) + v[f[a]]
    <3> PICK J, b : J = I(T) /\ b = f[a]
      OBVIOUS
    <3>1. IsFiniteSet(J) /\ b \notin J /\ v[b] \in Int /\ \A y \in J : v[y] \in Int
      BY <2>1, <2>2, <2>3, <2>4
    <3>2. IsFiniteSet(J \cup {b}) /\ Total(v, J \cup {b}) = Total(v, J) + v[b]
      BY ONLY <3>1, SumAdd
    <3> QED BY <3>2
  <2>6. Total(w, T \cup {a}) = Total(w, T) + w[a]
    BY SumGrows
  <2>7. IsFiniteSet(I(T \cup {a})) /\ Total(v, I(T \cup {a})) = Total(w, T \cup {a})
    BY <2>1, <2>2, <2>4, <2>5, <2>6
  <2> QED BY <2>7
<1>3. S \in G
  <2> HIDE DEF G
  <2> QED BY <1>1, <1>2, SetInduction
<1> QED BY <1>3

-----------------------------------------------------------------------------
\* Sums of the amounts of records.
AmountSum(S) == MapThenSumSet(LAMBDA l : l.amount, S)

AddingAmounts(D, g) == [s \in D |-> IF s = {} THEN 0 ELSE Pick(s).amount + g[s \ {Pick(s)}]]
LEMMA AmountsAre ==
  ASSUME NEW S
  PROVE  AmountSum(S) = (CHOOSE g : g = AddingAmounts(SUBSET S, g))[S]
  BY Zenon DEF AmountSum, MapThenSumSet, MapThenFoldSet, AddingAmounts, Pick

\* They are sums of any function that knows the amounts.
LEMMA AmountsTotal ==
  ASSUME NEW S, NEW w, \A l \in S : w[l] = l.amount
  PROVE  AmountSum(S) = Total(w, S)
<1>1. ASSUME NEW g PROVE AddingAmounts(SUBSET S, g) = Adding(w, SUBSET S, g)
  <2>1. \A s \in SUBSET S : s # {} => Pick(s) \in S
    BY Picked
  <2> QED BY <2>1 DEF AddingAmounts, Adding
<1> DEFINE A(g) == g = AddingAmounts(SUBSET S, g)
           B(g) == g = Adding(w, SUBSET S, g)
<1>2. \A g : A(g) <=> B(g)
  BY <1>1
<1> HIDE DEF A, B
<1>3. (CHOOSE g : A(g)) = (CHOOSE g : B(g))
  BY <1>2
<1>4. (CHOOSE g : A(g)) = (CHOOSE g : g = AddingAmounts(SUBSET S, g))
  BY Zenon DEF A
<1>5. (CHOOSE g : B(g)) = (CHOOSE g : g = Adding(w, SUBSET S, g))
  BY Zenon DEF B
<1>6. Total(w, S) = (CHOOSE g : B(g))[S]
  BY <1>5, SumIs
<1>7. AmountSum(S) = (CHOOSE g : A(g))[S]
  BY <1>4, AmountsAre
<1> QED BY <1>3, <1>6, <1>7

\* The algebra of amounts.
LEMMA AmountFacts ==
  ASSUME NEW S, IsFiniteSet(S), \A l \in S : l.amount \in Int
  PROVE  /\ AmountSum({}) = 0
         /\ \A T \in SUBSET S : IsFiniteSet(T) /\ AmountSum(T) \in Int
         /\ \A T, U \in SUBSET S : T \cap U = {} => AmountSum(T \cup U) = AmountSum(T) + AmountSum(U)
         /\ \A x \in S : AmountSum({x}) = x.amount
         /\ \A x, y \in S : x # y => AmountSum({x, y}) = x.amount + y.amount
<1> PICK w : w = [l \in S |-> l.amount]
  OBVIOUS
<1>1. \A l \in S : w[l] = l.amount /\ w[l] \in Int
  OBVIOUS
<1>2. \A T \in SUBSET S : AmountSum(T) = Total(w, T)
  BY <1>1, AmountsTotal
<1>3. AmountSum({}) = 0
  BY <1>2, SumEmpty
<1>4. \A T \in SUBSET S : IsFiniteSet(T) /\ AmountSum(T) \in Int
  <2>1. \A x \in S : w[x] \in Int
    BY <1>1
  <2>2. \A T \in SUBSET S : IsFiniteSet(T) /\ Total(w, T) \in Int
    BY <2>1, SumGrows
  <2> QED BY <1>2, <2>2
<1>5. ASSUME NEW T \in SUBSET S, NEW U \in SUBSET S, T \cap U = {}
      PROVE  AmountSum(T \cup U) = AmountSum(T) + AmountSum(U)
  <2>1. Total(w, T \cup U) = Total(w, T) + Total(w, U)
    BY <1>1, <1>4, <1>5, SumUnion
  <2> QED BY <1>2, <2>1
<1>6. ASSUME NEW x \in S PROVE AmountSum({x}) = x.amount
  <2>1. Total(w, {x}) = w[x]
    BY <1>1, SumOne
  <2>2. AmountSum({x}) = Total(w, {x})
    BY <1>2
  <2> QED BY <1>1, <2>1, <2>2
<1>7. ASSUME NEW x \in S, NEW y \in S, x # y PROVE AmountSum({x, y}) = x.amount + y.amount
  <2>1. Total(w, {x, y}) = w[x] + w[y]
    BY <1>1, <1>7, SumTwo
  <2>2. AmountSum({x, y}) = Total(w, {x, y})
    BY <1>2
  <2> QED BY <1>1, <2>1, <2>2
<1> QED BY <1>3, <1>4, <1>5, <1>6, <1>7

\* Sums of the amounts in the rows of a table.
RowSum(f, S) == MapThenSumSet(LAMBDA p : f[p].amount, S)

AddingRows(f, D, g) == [s \in D |-> IF s = {} THEN 0 ELSE f[Pick(s)].amount + g[s \ {Pick(s)}]]
LEMMA RowsAre ==
  ASSUME NEW f, NEW S
  PROVE  RowSum(f, S) = (CHOOSE g : g = AddingRows(f, SUBSET S, g))[S]
  BY Zenon DEF RowSum, MapThenSumSet, MapThenFoldSet, AddingRows, Pick

\* They are sums of any function that gives the amounts of the rows.
LEMMA RowsTotal ==
  ASSUME NEW f, NEW S, NEW w, \A l \in S : w[l] = f[l].amount
  PROVE  RowSum(f, S) = Total(w, S)
<1>1. ASSUME NEW g PROVE AddingRows(f, SUBSET S, g) = Adding(w, SUBSET S, g)
  <2>1. \A s \in SUBSET S : s # {} => Pick(s) \in S
    BY Picked
  <2> QED BY <2>1 DEF AddingRows, Adding
<1> DEFINE A(g) == g = AddingRows(f, SUBSET S, g)
           B(g) == g = Adding(w, SUBSET S, g)
<1>2. \A g : A(g) <=> B(g)
  BY <1>1
<1> HIDE DEF A, B
<1>3. (CHOOSE g : A(g)) = (CHOOSE g : B(g))
  BY <1>2
<1>4. (CHOOSE g : A(g)) = (CHOOSE g : g = AddingRows(f, SUBSET S, g))
  BY Zenon DEF A
<1>5. (CHOOSE g : B(g)) = (CHOOSE g : g = Adding(w, SUBSET S, g))
  BY Zenon DEF B
<1>6. Total(w, S) = (CHOOSE g : B(g))[S]
  BY <1>5, SumIs
<1>7. RowSum(f, S) = (CHOOSE g : A(g))[S]
  BY <1>4, RowsAre
<1> QED BY <1>3, <1>6, <1>7
===========================================================================
