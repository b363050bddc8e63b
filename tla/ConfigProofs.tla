---------------------------- MODULE ConfigProofs ----------------------------
(***************************************************************************)
(* Proofs about what is checked before a configuration is served: the      *)
(* calls between its plugins (module PluginGraph) and the files it is      *)
(* loaded from (module ConfigLoad), for every configuration, every tree of *)
(* files and every limit.                                                  *)
(***************************************************************************)
EXTENDS PluginGraph, ConfigLoad, FiniteSetTheorems, NaturalsInduction, WellFoundedInduction,
        SequenceTheorems, TLAPS

LEMMA Least ==
  ASSUME NEW T, T \subseteq Nat, T # {}
  PROVE  \E x \in T : \A y \in T : x <= y
<1>1. PICK x \in T : \A y \in T : ~ (<< y, x >> \in OpToRel(<, Nat))
  BY NatLessThanWellFounded, WFMin
<1>2. \A y \in T : x <= y
  <2>1. SUFFICES ASSUME NEW y \in T, y < x PROVE FALSE
    OBVIOUS
  <2>2. << y, x >> \in OpToRel(<, Nat)
    BY <2>1 DEF OpToRel
  <2>3. QED
    BY <1>1, <2>2
<1>3. QED
  BY <1>2

(* A set that holds 0 and with every i - 1 the i after it, up to n. *)
LEMMA UpTo ==
  ASSUME NEW n \in Nat, NEW P, 0 \in P, \A i \in 1 .. n : i - 1 \in P => i \in P
  PROVE  n \in P
<1>1. SUFFICES ASSUME NEW T, T = {i \in 0 .. n : i \notin P}, T # {} PROVE FALSE
  <2>1. n \in 0 .. n
    OBVIOUS
  <2>2. QED
    BY <2>1
<1>2. PICK i \in T : \A m \in T : i <= m
  <2>1. T \subseteq Nat
    BY <1>1
  <2>2. QED
    BY <1>1, <2>1, Least
<1>3. i \in 1 .. n /\ i - 1 \in 0 .. n
  BY <1>1, <1>2
<1>4. i - 1 \in P
  BY <1>1, <1>2, <1>3
<1>5. QED
  BY <1>1, <1>3, <1>4

-----------------------------------------------------------------------------

-----------------------------------------------------------------------------
(* ChainCheck.  What its iterations compute. *)

Iterate(step, start, n) ==
  LET round[k \in 0 .. n] == IF k = 0 THEN start ELSE step[round[k - 1]]
  IN  round[n]

RoundAt(f, step, start, k) == IF k = 0 THEN start ELSE step[f[k - 1]]

Rounds(f, step, start, n) == f = [k \in 0 .. n |-> RoundAt(f, step, start, k)]

LEMMA RoundsExist ==
  ASSUME NEW step, NEW start, NEW n \in Nat
  PROVE  \E f : Rounds(f, step, start, n)
<1>1. PICK P : P = {i \in 0 .. n : \E f : Rounds(f, step, start, i)}
  OBVIOUS
<1>2. 0 \in P
  <2>1. PICK f : f = [j \in 0 .. 0 |-> start]
    OBVIOUS
  <2>2. Rounds(f, step, start, 0)
    BY <2>1 DEF Rounds, RoundAt
  <2>3. QED
    BY <1>1, <2>2
<1>3. ASSUME NEW i \in 1 .. n, i - 1 \in P PROVE i \in P
  <2>1. PICK f : f = [j \in 0 .. (i - 1) |-> RoundAt(f, step, start, j)]
    BY <1>1, <1>3 DEF Rounds
  <2>2. PICK g : g = [j \in 0 .. i |-> IF j = i THEN RoundAt(f, step, start, i) ELSE f[j]]
    OBVIOUS
  <2>3. \A j \in 0 .. i : g[j] = RoundAt(g, step, start, j)
    <3>1. SUFFICES ASSUME NEW j \in 0 .. i PROVE g[j] = RoundAt(g, step, start, j)
      OBVIOUS
    <3>2. \A m \in 0 .. (i - 1) : g[m] = f[m]
      BY <2>2
    <3>3. j # 0 => g[j - 1] = f[j - 1]
      BY <3>1, <3>2
    <3>4. RoundAt(g, step, start, j) = RoundAt(f, step, start, j)
      BY <3>1, <3>3 DEF RoundAt
    <3>5. CASE j = i
      BY <2>2, <3>4, <3>5
    <3>6. CASE j # i
      <4>1. j \in 0 .. (i - 1)
        BY <3>6
      <4>2. f[j] = RoundAt(f, step, start, j)
        BY <2>1, <4>1
      <4>3. QED
        BY <3>2, <3>4, <4>1, <4>2
    <3>7. QED
      BY <3>5, <3>6
  <2>4. g = [j \in 0 .. i |-> RoundAt(g, step, start, j)]
    BY <2>2, <2>3
  <2>5. QED
    BY <1>1, <2>4 DEF Rounds
<1>4. n \in P
  BY <1>2, <1>3, UpTo
<1>5. QED
  BY <1>1, <1>4

LEMMA IterateRounds ==
  ASSUME NEW step, NEW start, NEW n \in Nat
  PROVE  \E f : Rounds(f, step, start, n) /\ Iterate(step, start, n) = f[n]
<1>1. PICK g : g = (CHOOSE f : Rounds(f, step, start, n))
  OBVIOUS
<1>2. Rounds(g, step, start, n)
  BY <1>1, RoundsExist
<1>3. Iterate(step, start, n) = (CHOOSE f : Rounds(f, step, start, n))[n]
  BY Zenon DEF Iterate, Rounds, RoundAt
<1>4. QED
  BY <1>1, <1>2, <1>3

LEMMA RoundsAgree ==
  ASSUME NEW step, NEW start, NEW n \in Nat, NEW m \in Nat, n <= m, NEW f, NEW g,
         Rounds(f, step, start, n), Rounds(g, step, start, m)
  PROVE  f[n] = g[n]
<1>1. /\ \A k \in 0 .. n : f[k] = RoundAt(f, step, start, k)
      /\ \A k \in 0 .. m : g[k] = RoundAt(g, step, start, k)
  BY DEF Rounds
<1>2. PICK P : P = {k \in 0 .. n : f[k] = g[k]}
  OBVIOUS
<1>3. 0 \in P
  BY <1>1, <1>2 DEF RoundAt
<1>4. ASSUME NEW i \in 1 .. n, i - 1 \in P PROVE i \in P
  <2>1. f[i - 1] = g[i - 1] /\ i \in 0 .. n /\ i \in 0 .. m /\ i # 0
    BY <1>2, <1>4
  <2>2. f[i] = step[f[i - 1]] /\ g[i] = step[g[i - 1]]
    BY <1>1, <2>1 DEF RoundAt
  <2>3. QED
    BY <1>2, <2>1, <2>2
<1>5. n \in P
  BY <1>3, <1>4, UpTo
<1>6. QED
  BY <1>2, <1>5

LEMMA IterateStep ==
  ASSUME NEW step, NEW start
  PROVE  /\ Iterate(step, start, 0) = start
         /\ \A n \in Nat \ {0} : Iterate(step, start, n) = step[Iterate(step, start, n - 1)]
<1>1. Iterate(step, start, 0) = start
  <2>1. PICK f : Rounds(f, step, start, 0) /\ Iterate(step, start, 0) = f[0]
    BY IterateRounds
  <2>2. QED
    BY <2>1 DEF Rounds, RoundAt
<1>2. ASSUME NEW n \in Nat \ {0} PROVE Iterate(step, start, n) = step[Iterate(step, start, n - 1)]
  <2>1. PICK f : Rounds(f, step, start, n) /\ Iterate(step, start, n) = f[n]
    BY IterateRounds
  <2>2. PICK m \in Nat : m = n - 1 /\ m <= n /\ m \in 0 .. n
    OBVIOUS
  <2>3. PICK g : Rounds(g, step, start, m) /\ Iterate(step, start, m) = g[m]
    BY IterateRounds
  <2>4. g[m] = f[m]
    BY <2>1, <2>2, <2>3, RoundsAgree
  <2>5. f[n] = RoundAt(f, step, start, n)
    BY <2>1 DEF Rounds
  <2>6. f[n] = step[f[m]]
    BY <2>2, <2>5 DEF RoundAt
  <2>7. QED
    BY <2>1, <2>2, <2>3, <2>4, <2>6
<1>3. QED
  BY <1>1, <1>2

(* step carries larger sets to larger ones, and start to a larger one. *)
Climbs(N, step, start) ==
  /\ step \in [SUBSET N -> SUBSET N] /\ start \in SUBSET N /\ start \subseteq step[start]
  /\ \A A, B \in SUBSET N : A \subseteq B => step[A] \subseteq step[B]

LEMMA IterateClimbs ==
  ASSUME NEW N, NEW step, NEW start, Climbs(N, step, start), NEW n \in Nat
  PROVE  /\ Iterate(step, start, n) \in SUBSET N /\ start \subseteq Iterate(step, start, n)
         /\ Iterate(step, start, n) \subseteq step[Iterate(step, start, n)]
<1>1. PICK P : P = {k \in 0 .. n : /\ Iterate(step, start, k) \in SUBSET N
                                   /\ start \subseteq Iterate(step, start, k)
                                   /\ Iterate(step, start, k) \subseteq step[Iterate(step, start, k)]}
  OBVIOUS
<1>2. 0 \in P
  BY <1>1, IterateStep DEF Climbs
<1>3. ASSUME NEW i \in 1 .. n, i - 1 \in P PROVE i \in P
  <2>1. PICK A \in SUBSET N : A = Iterate(step, start, i - 1) /\ start \subseteq A /\ A \subseteq step[A]
    BY <1>1, <1>3
  <2>2. PICK B \in SUBSET N : B = step[A]
    BY DEF Climbs
  <2>3. Iterate(step, start, i) = B
    <3>1. i \in Nat \ {0}
      OBVIOUS
    <3>2. Iterate(step, start, i) = step[Iterate(step, start, i - 1)]
      BY <3>1, IterateStep, Zenon
    <3>3. QED
      BY <2>1, <2>2, <3>2
  <2>4. B \subseteq step[B]
    BY <2>1, <2>2 DEF Climbs
  <2>5. QED
    BY <1>1, <2>1, <2>2, <2>3, <2>4
<1>4. n \in P
  BY <1>2, <1>3, UpTo
<1>5. QED
  BY <1>1, <1>4

LEMMA IterateBelow ==
  ASSUME NEW N, NEW step, NEW start, Climbs(N, step, start), NEW n \in Nat,
         NEW T \in SUBSET N, start \subseteq T, step[T] \subseteq T
  PROVE  Iterate(step, start, n) \subseteq T
<1>1. PICK P : P = {k \in 0 .. n : Iterate(step, start, k) \subseteq T}
  OBVIOUS
<1>2. 0 \in P
  BY <1>1, IterateStep
<1>3. ASSUME NEW i \in 1 .. n, i - 1 \in P PROVE i \in P
  <2>1. PICK A \in SUBSET N : A = Iterate(step, start, i - 1) /\ A \subseteq T
    <3>1. i - 1 \in Nat
      OBVIOUS
    <3>2. QED
      BY <1>1, <1>3, <3>1, IterateClimbs
  <2>2. Iterate(step, start, i) = step[A]
    <3>1. i \in Nat \ {0}
      OBVIOUS
    <3>2. Iterate(step, start, i) = step[Iterate(step, start, i - 1)]
      BY <3>1, IterateStep, Zenon
    <3>3. QED
      BY <2>1, <3>2
  <2>3. step[A] \subseteq step[T]
    BY <2>1 DEF Climbs
  <2>4. QED
    BY <1>1, <2>2, <2>3
<1>4. n \in P
  BY <1>2, <1>3, UpTo
<1>5. QED
  BY <1>1, <1>4

(* In a set of n elements nothing is gained after n rounds. *)
LEMMA IterateSettles ==
  ASSUME NEW N, IsFiniteSet(N), NEW step, NEW start, Climbs(N, step, start),
         NEW n \in Nat, n = Cardinality(N)
  PROVE  step[Iterate(step, start, n)] = Iterate(step, start, n)
<1>1. PICK P : P = {k \in 0 .. n : \/ step[Iterate(step, start, k)] = Iterate(step, start, k)
                                   \/ Cardinality(Iterate(step, start, k)) >= k}
  OBVIOUS
<1>2. 0 \in P
  <2>1. IsFiniteSet(start)
    BY FS_Subset DEF Climbs
  <2>2. Cardinality(start) \in Nat
    BY <2>1, FS_CardinalityType
  <2>3. Iterate(step, start, 0) = start
    BY IterateStep
  <2>4. QED
    BY <1>1, <2>2, <2>3
<1>3. ASSUME NEW i \in 1 .. n, i - 1 \in P PROVE i \in P
  <2>1. PICK A \in SUBSET N : A = Iterate(step, start, i - 1) /\ A \subseteq step[A]
    <3>1. i - 1 \in Nat
      OBVIOUS
    <3>2. QED
      BY <3>1, IterateClimbs
  <2>2. PICK B \in SUBSET N : B = step[A]
    BY DEF Climbs
  <2>3. Iterate(step, start, i) = B
    <3>1. i \in Nat \ {0}
      OBVIOUS
    <3>2. Iterate(step, start, i) = step[Iterate(step, start, i - 1)]
      BY <3>1, IterateStep, Zenon
    <3>3. QED
      BY <2>1, <2>2, <3>2
  <2>4. CASE A = B
    BY <1>1, <2>2, <2>3, <2>4
  <2>5. CASE A # B
    <3>1. IsFiniteSet(A) /\ IsFiniteSet(B) /\ Cardinality(A) \in Nat /\ Cardinality(B) \in Nat
      BY FS_Subset, FS_CardinalityType
    <3>2. Cardinality(A) < Cardinality(B)
      BY <2>1, <2>2, <2>5, <3>1, FS_Subset
    <3>3. Cardinality(A) >= i - 1
      BY <1>1, <1>3, <2>1, <2>2, <2>5
    <3>4. Cardinality(B) >= i
      BY <3>1, <3>2, <3>3
    <3>5. QED
      BY <1>1, <2>3, <3>4
  <2>6. QED
    BY <2>4, <2>5
<1>4. n \in P
  BY <1>2, <1>3, UpTo
<1>5. PICK A \in SUBSET N : A = Iterate(step, start, n) /\ A \subseteq step[A]
  BY IterateClimbs
<1>6. CASE Cardinality(A) >= n
  <2>1. A = N
    <3>1. IsFiniteSet(A) /\ Cardinality(A) \in Nat
      BY FS_Subset, FS_CardinalityType
    <3>2. Cardinality(A) <= Cardinality(N)
      BY FS_Subset
    <3>3. Cardinality(A) = Cardinality(N)
      BY <1>6, <3>1, <3>2
    <3>4. QED
      BY <3>3, FS_Subset
  <2>2. step[A] \in SUBSET N
    BY DEF Climbs
  <2>3. QED
    BY <1>5, <2>1, <2>2
<1>7. QED
  BY <1>1, <1>4, <1>5, <1>6

(* A graph G over the nodes N, as in ChainCheck. *)
RefsIn(G, x) == IF x \in DOMAIN G THEN G[x] ELSE {}

Graph(N, G) == DOMAIN G \subseteq N /\ \A x \in DOMAIN G : G[x] \subseteq N

Above(N, G, T) == {x \in N : RefsIn(G, x) \cap T # {}}

Longer(N, G) == [T \in SUBSET N |-> Above(N, G, T)]
Further(N, G) == [T \in SUBSET N |-> T \cup UNION {RefsIn(G, x) : x \in T}]

(* Those that start a chain of k + 1 members, and those that are reached. *)
Chains(N, G, k) == Iterate(Longer(N, G), N, k)
ReachOf(N, G, R) == Iterate(Further(N, G), R, Cardinality(N))

LEMMA ChainsZero ==
  ASSUME NEW N, NEW G
  PROVE  Chains(N, G, 0) = N
  BY IterateStep, Zenon DEF Chains

LEMMA ChainsIn ==
  ASSUME NEW N, NEW G, NEW k \in Nat
  PROVE  Chains(N, G, k) \in SUBSET N
<1>1. PICK P : P = {j \in 0 .. k : Chains(N, G, j) \in SUBSET N}
  OBVIOUS
<1>2. 0 \in P
  BY <1>1, ChainsZero
<1>3. ASSUME NEW i \in 1 .. k, i - 1 \in P PROVE i \in P
  <2>1. i \in Nat \ {0}
    OBVIOUS
  <2>2. PICK A \in SUBSET N : A = Chains(N, G, i - 1)
    BY <1>1, <1>3
  <2>3. Chains(N, G, i) = Longer(N, G)[A]
    BY <2>1, <2>2, IterateStep, Zenon DEF Chains
  <2>4. Longer(N, G)[A] \in SUBSET N
    BY DEF Longer, Above
  <2>5. QED
    BY <1>1, <2>3, <2>4
<1>4. k \in P
  BY <1>2, <1>3, UpTo
<1>5. QED
  BY <1>1, <1>4

LEMMA ChainsBefore ==
  ASSUME NEW N, NEW G, NEW n \in Nat \ {0}
  PROVE  Chains(N, G, n) = Above(N, G, Chains(N, G, n - 1))
<1>1. n - 1 \in Nat
  OBVIOUS
<1>2. PICK A \in SUBSET N : A = Chains(N, G, n - 1)
  BY <1>1, ChainsIn
<1>3. Chains(N, G, n) = Longer(N, G)[A]
  BY <1>2, IterateStep, Zenon DEF Chains
<1>4. QED
  BY <1>2, <1>3 DEF Longer

LEMMA ChainsNext ==
  ASSUME NEW N, NEW G, NEW k \in Nat, NEW n \in Nat, n = k + 1
  PROVE  Chains(N, G, n) = Above(N, G, Chains(N, G, k))
<1>1. n \in Nat \ {0} /\ n - 1 = k
  OBVIOUS
<1>2. QED
  BY <1>1, ChainsBefore

(* The end of a chain can be cut off. *)
LEMMA ChainsFall ==
  ASSUME NEW N, NEW G, NEW k \in Nat
  PROVE  Chains(N, G, k + 1) \subseteq Chains(N, G, k)
<1>1. PICK P : P = {j \in 0 .. k : Chains(N, G, j + 1) \subseteq Chains(N, G, j)}
  OBVIOUS
<1>2. 0 \in P
  <2>1. Chains(N, G, 0 + 1) \in SUBSET N /\ Chains(N, G, 0) = N
    BY ChainsIn, ChainsZero
  <2>2. QED
    BY <1>1, <2>1
<1>3. ASSUME NEW i \in 1 .. k, i - 1 \in P PROVE i \in P
  <2>1. PICK m \in Nat : m = i - 1 /\ i = m + 1
    OBVIOUS
  <2>2. Chains(N, G, m + 1) \subseteq Chains(N, G, m)
    BY <1>1, <1>3, <2>1
  <2>3. Chains(N, G, i) = Above(N, G, Chains(N, G, m))
    BY <2>1, ChainsNext
  <2>4. Chains(N, G, i + 1) = Above(N, G, Chains(N, G, i))
    <3>1. i \in Nat /\ i + 1 \in Nat
      OBVIOUS
    <3>2. QED
      BY <3>1, ChainsNext
  <2>5. PICK A : A = Chains(N, G, m)
    OBVIOUS
  <2>6. PICK B : B = Chains(N, G, i)
    OBVIOUS
  <2>7. B \subseteq A
    BY <2>1, <2>2, <2>5, <2>6
  <2>8. Chains(N, G, i + 1) \subseteq Chains(N, G, i)
    BY <2>3, <2>4, <2>5, <2>6, <2>7 DEF Above
  <2>9. QED
    BY <1>1, <2>8
<1>4. k \in P
  BY <1>2, <1>3, UpTo
<1>5. QED
  BY <1>1, <1>4

LEMMA ChainsShorter ==
  ASSUME NEW N, NEW G, NEW k \in Nat, NEW j \in 0 .. k
  PROVE  Chains(N, G, k) \subseteq Chains(N, G, j)
<1>1. PICK n \in Nat : n = k - j
  OBVIOUS
<1>2. PICK P : P = {i \in 0 .. n : Chains(N, G, j + i) \subseteq Chains(N, G, j)}
  OBVIOUS
<1>3. 0 \in P
  BY <1>2
<1>4. ASSUME NEW i \in 1 .. n, i - 1 \in P PROVE i \in P
  <2>1. PICK m \in Nat : m = j + (i - 1) /\ j + i = m + 1
    OBVIOUS
  <2>2. Chains(N, G, m) \subseteq Chains(N, G, j)
    BY <1>2, <1>4, <2>1
  <2>3. Chains(N, G, m + 1) \subseteq Chains(N, G, m)
    BY ChainsFall
  <2>4. QED
    BY <1>2, <2>1, <2>2, <2>3
<1>5. n \in P
  BY <1>3, <1>4, UpTo
<1>6. j + n = k
  BY <1>1
<1>7. QED
  BY <1>2, <1>5, <1>6

(* Members of a cycle start chains of any length. *)
LEMMA CyclesEndless ==
  ASSUME NEW N, NEW G, NEW Z \in SUBSET N, \A z \in Z : RefsIn(G, z) \cap Z # {}, NEW k \in Nat
  PROVE  Z \subseteq Chains(N, G, k)
<1>1. PICK P : P = {j \in 0 .. k : Z \subseteq Chains(N, G, j)}
  OBVIOUS
<1>2. 0 \in P
  BY <1>1, ChainsZero
<1>3. ASSUME NEW i \in 1 .. k, i - 1 \in P PROVE i \in P
  <2>1. PICK m \in Nat : m = i - 1 /\ i = m + 1
    OBVIOUS
  <2>2. PICK A : A = Chains(N, G, m) /\ Z \subseteq A
    BY <1>1, <1>3, <2>1
  <2>3. Chains(N, G, i) = Above(N, G, A)
    BY <2>1, <2>2, ChainsNext
  <2>4. Z \subseteq Chains(N, G, i)
    BY <2>2, <2>3 DEF Above
  <2>5. QED
    BY <1>1, <2>4
<1>4. k \in P
  BY <1>2, <1>3, UpTo
<1>5. QED
  BY <1>1, <1>4

(* Only they do: what starts a chain of as many members as there are nodes *)
(* refers to another that does.                                            *)
LEMMA EndlessStep ==
  ASSUME NEW N, IsFiniteSet(N), NEW G, NEW W, W = Chains(N, G, Cardinality(N))
  PROVE  W \in SUBSET N /\ \A x \in N : RefsIn(G, x) \cap W = {} => x \notin W
<1>1. PICK n \in Nat : n = Cardinality(N)
  BY FS_CardinalityType
<1>2. PICK step : step = [T \in SUBSET N |-> N \ Above(N, G, N \ T)]
  OBVIOUS
<1>3. \A T \in SUBSET N : step[T] = N \ Above(N, G, N \ T)
  BY <1>2
<1>4. Climbs(N, step, {})
  <2>1. step \in [SUBSET N -> SUBSET N]
    BY <1>2
  <2>2. \A A, B \in SUBSET N : A \subseteq B => step[A] \subseteq step[B]
    <3>1. SUFFICES ASSUME NEW A \in SUBSET N, NEW B \in SUBSET N, A \subseteq B
                   PROVE  step[A] \subseteq step[B]
      OBVIOUS
    <3>2. Above(N, G, N \ B) \subseteq Above(N, G, N \ A)
      BY <3>1 DEF Above
    <3>3. QED
      BY <1>3, <3>2
  <2>3. QED
    BY <2>1, <2>2 DEF Climbs
<1>5. PICK P : P = {k \in 0 .. n : Iterate(step, {}, k) = N \ Chains(N, G, k)}
  OBVIOUS
<1>6. 0 \in P
  BY <1>5, IterateStep, ChainsZero
<1>7. ASSUME NEW i \in 1 .. n, i - 1 \in P PROVE i \in P
  <2>1. PICK m \in Nat : m = i - 1 /\ i = m + 1 /\ i \in Nat \ {0}
    OBVIOUS
  <2>2. PICK C \in SUBSET N : C = Chains(N, G, m)
    BY ChainsIn
  <2>3. Chains(N, G, i) = Above(N, G, C)
    BY <2>1, <2>2, ChainsNext
  <2>4. Iterate(step, {}, i - 1) = N \ C
    BY <1>5, <1>7, <2>1, <2>2
  <2>5. Iterate(step, {}, i) = step[Iterate(step, {}, i - 1)]
    BY <2>1, IterateStep, Zenon
  <2>6. N \ C \in SUBSET N /\ N \ (N \ C) = C
    BY <2>2
  <2>7. step[N \ C] = N \ Above(N, G, C)
    BY <1>3, <2>6
  <2>8. Iterate(step, {}, i) = N \ Chains(N, G, i)
    BY <2>3, <2>4, <2>5, <2>7
  <2>9. QED
    BY <1>5, <2>8
<1>8. n \in P
  BY <1>6, <1>7, UpTo
<1>9. W \in SUBSET N
  BY <1>1, ChainsIn
<1>10. Iterate(step, {}, n) = N \ W
  BY <1>1, <1>5, <1>8
<1>11. step[Iterate(step, {}, n)] = Iterate(step, {}, n)
  BY <1>1, <1>4, IterateSettles
<1>12. N \ W = N \ Above(N, G, W)
  <2>1. N \ W \in SUBSET N /\ N \ (N \ W) = W
    BY <1>9
  <2>2. step[N \ W] = N \ Above(N, G, W)
    BY <1>3, <2>1
  <2>3. QED
    BY <1>10, <1>11, <2>2
<1>13. QED
  BY <1>9, <1>12 DEF Above

LEMMA FurtherClimbs ==
  ASSUME NEW N, NEW G, Graph(N, G), NEW R \in SUBSET N
  PROVE  Climbs(N, Further(N, G), R)
<1>1. PICK step : step = Further(N, G)
  OBVIOUS
<1>2. \A T \in SUBSET N : step[T] = T \cup UNION {RefsIn(G, x) : x \in T}
  BY <1>1 DEF Further
<1>3. \A x \in N : RefsIn(G, x) \subseteq N
  BY DEF Graph, RefsIn
<1>4. step \in [SUBSET N -> SUBSET N]
  <2>1. \A T \in SUBSET N : (T \cup UNION {RefsIn(G, x) : x \in T}) \in SUBSET N
    BY <1>3
  <2>2. QED
    BY <1>1, <2>1 DEF Further
<1>5. R \subseteq step[R]
  BY <1>2
<1>6. \A S, T \in SUBSET N : S \subseteq T => step[S] \subseteq step[T]
  <2>1. SUFFICES ASSUME NEW S \in SUBSET N, NEW T \in SUBSET N, S \subseteq T
                 PROVE  step[S] \subseteq step[T]
    OBVIOUS
  <2>2. SUFFICES ASSUME NEW y \in step[S] PROVE y \in step[T]
    OBVIOUS
  <2>3. y \in S \/ \E x \in S : y \in RefsIn(G, x)
    BY <1>2, <2>1, <2>2
  <2>4. y \in T \/ \E x \in T : y \in RefsIn(G, x)
    BY <2>1, <2>3
  <2>5. QED
    BY <1>2, <2>1, <2>4
<1>7. QED
  BY <1>1, <1>4, <1>5, <1>6 DEF Climbs

(* What is reached contains the roots and what its members refer to. *)
LEMMA ReachClosed ==
  ASSUME NEW N, IsFiniteSet(N), NEW G, Graph(N, G), NEW R \in SUBSET N, NEW A, A = ReachOf(N, G, R)
  PROVE  A \in SUBSET N /\ R \subseteq A /\ \A x \in A : RefsIn(G, x) \subseteq A
<1>1. PICK n \in Nat : n = Cardinality(N)
  BY FS_CardinalityType
<1>2. PICK step : step = Further(N, G)
  OBVIOUS
<1>3. \A T \in SUBSET N : step[T] = T \cup UNION {RefsIn(G, x) : x \in T}
  BY <1>2 DEF Further
<1>5. Climbs(N, step, R)
  BY <1>2, FurtherClimbs
<1>6. A = Iterate(step, R, n)
  BY <1>1, <1>2 DEF ReachOf
<1>7. A \in SUBSET N
  BY <1>5, <1>6, IterateClimbs
<1>8. step[A] = A
  BY <1>1, <1>5, <1>6, IterateSettles
<1>9. A = A \cup UNION {RefsIn(G, x) : x \in A}
  BY <1>3, <1>7, <1>8
<1>10. R \subseteq A
  BY <1>5, <1>6, IterateClimbs
<1>11. QED
  BY <1>7, <1>9, <1>10

(* Nothing else is reached. *)
LEMMA ReachLeast ==
  ASSUME NEW N, IsFiniteSet(N), NEW G, Graph(N, G), NEW R \in SUBSET N,
         NEW T \in SUBSET N, R \subseteq T, \A x \in T : RefsIn(G, x) \subseteq T
  PROVE  ReachOf(N, G, R) \subseteq T
<1>1. PICK n \in Nat : n = Cardinality(N)
  BY FS_CardinalityType
<1>2. Climbs(N, Further(N, G), R)
  BY FurtherClimbs
<1>3. Further(N, G)[T] \subseteq T
  BY DEF Further
<1>4. QED
  BY <1>1, <1>2, <1>3, IterateBelow DEF ReachOf

(* A way through the graph: each member of s refers to the next. *)
Way(N, G, s, n) ==
  /\ \A i \in 1 .. n : s[i] \in N
  /\ \A i \in 1 .. n - 1 : s[i + 1] \in RefsIn(G, s[i])

(* A way leads to what starts a chain: its first member starts a longer one. *)
LEMMA WayChains ==
  ASSUME NEW N, NEW G, NEW s, NEW n \in Nat \ {0}, Way(N, G, s, n), NEW j \in Nat, s[n] \in Chains(N, G, j)
  PROVE  s[1] \in Chains(N, G, j + (n - 1))
<1>1. PICK l \in Nat : l = n - 1
  OBVIOUS
<1>2. PICK P : P = {m \in 0 .. l : s[n - m] \in Chains(N, G, j + m)}
  OBVIOUS
<1>3. 0 \in P
  BY <1>2
<1>4. ASSUME NEW i \in 1 .. l, i - 1 \in P PROVE i \in P
  <2>1. PICK a \in 1 .. n - 1 : a = n - i /\ a + 1 = n - (i - 1)
    BY <1>1
  <2>2. PICK k \in Nat : k = j + (i - 1) /\ j + i = k + 1
    OBVIOUS
  <2>3. s[a + 1] \in Chains(N, G, k)
    BY <1>2, <1>4, <2>1, <2>2
  <2>4. s[a] \in N /\ s[a + 1] \in RefsIn(G, s[a])
    BY <2>1 DEF Way
  <2>5. s[a] \in Above(N, G, Chains(N, G, k))
    BY <2>3, <2>4 DEF Above
  <2>6. Chains(N, G, j + i) = Above(N, G, Chains(N, G, k))
    <3>1. j + i \in Nat
      OBVIOUS
    <3>2. QED
      BY <2>2, <3>1, ChainsNext
  <2>7. QED
    BY <1>2, <2>1, <2>5, <2>6
<1>5. l \in P
  BY <1>3, <1>4, UpTo
<1>6. n - l = 1
  BY <1>1
<1>7. QED
  BY <1>1, <1>2, <1>5, <1>6

LEMMA WayReached ==
  ASSUME NEW N, IsFiniteSet(N), NEW G, Graph(N, G), NEW R \in SUBSET N,
         NEW s, NEW n \in Nat, Way(N, G, s, n), n # 0 => s[1] \in R, NEW i \in 1 .. n
  PROVE  s[i] \in ReachOf(N, G, R)
<1>1. PICK A : A = ReachOf(N, G, R)
  OBVIOUS
<1>2. R \subseteq A /\ \A x \in A : RefsIn(G, x) \subseteq A
  BY <1>1, ReachClosed
<1>3. PICK l \in Nat : l = i - 1
  OBVIOUS
<1>4. PICK P : P = {m \in 0 .. l : s[m + 1] \in A}
  OBVIOUS
<1>5. 0 \in P
  BY <1>2, <1>4
<1>6. ASSUME NEW k \in 1 .. l, k - 1 \in P PROVE k \in P
  <2>1. s[k] \in A
    BY <1>4, <1>6
  <2>2. s[k + 1] \in RefsIn(G, s[k])
    BY <1>3 DEF Way
  <2>3. QED
    BY <1>2, <1>4, <2>1, <2>2
<1>7. l \in P
  BY <1>5, <1>6, UpTo
<1>8. QED
  BY <1>1, <1>3, <1>4, <1>7

(* A way whose last member refers to an earlier one goes round. *)
LEMMA WayCycles ==
  ASSUME NEW N, NEW G, NEW s, NEW n \in Nat, Way(N, G, s, n), NEW i \in 1 .. n,
         s[i] \in RefsIn(G, s[n]), NEW k \in Nat
  PROVE  s[i] \in Chains(N, G, k)
<1>1. PICK Z : Z = {s[j] : j \in i .. n}
  OBVIOUS
<1>2. Z \in SUBSET N
  BY <1>1 DEF Way
<1>3. \A z \in Z : RefsIn(G, z) \cap Z # {}
  <2>1. SUFFICES ASSUME NEW j \in i .. n PROVE RefsIn(G, s[j]) \cap Z # {}
    BY <1>1
  <2>2. CASE j = n
    BY <1>1, <2>2
  <2>3. CASE j # n
    <3>1. j \in 1 .. n - 1 /\ j + 1 \in i .. n
      BY <2>1, <2>3
    <3>2. s[j + 1] \in RefsIn(G, s[j])
      BY <3>1 DEF Way
    <3>3. QED
      BY <1>1, <3>1, <3>2
  <2>4. QED
    BY <2>2, <2>3
<1>4. Z \subseteq Chains(N, G, k)
  BY <1>2, <1>3, CyclesEndless
<1>5. QED
  BY <1>1, <1>4

(* Those from which every chain ends, at something that exists: the least  *)
(* set that has whatever refers to none but its members.                   *)
Bears(N, G, T) == \A x \in DOMAIN G : G[x] \subseteq T => x \in T

Sound(N, G) == {x \in N : \A T \in SUBSET N : Bears(N, G, T) => x \in T}

LEMMA SoundStep ==
  ASSUME NEW N, NEW G, Graph(N, G), NEW x \in DOMAIN G, G[x] \subseteq Sound(N, G)
  PROVE  x \in Sound(N, G)
<1>1. x \in N
  BY DEF Graph
<1>2. ASSUME NEW T \in SUBSET N, Bears(N, G, T) PROVE x \in T
  BY <1>2 DEF Bears, Sound
<1>3. QED
  BY <1>1, <1>2 DEF Sound

LEMMA SoundRefs ==
  ASSUME NEW N, NEW G, Graph(N, G), NEW x \in Sound(N, G)
  PROVE  x \in DOMAIN G /\ G[x] \subseteq Sound(N, G)
<1>1. PICK T : T = {y \in DOMAIN G : y \in Sound(N, G) /\ G[y] \subseteq Sound(N, G)}
  OBVIOUS
<1>2. T \in SUBSET N
  BY <1>1 DEF Graph
<1>3. Bears(N, G, T)
  <2>1. SUFFICES ASSUME NEW y \in DOMAIN G, G[y] \subseteq T PROVE y \in T
    BY DEF Bears
  <2>2. G[y] \subseteq Sound(N, G)
    BY <1>1, <2>1
  <2>3. y \in Sound(N, G)
    BY <2>2, SoundStep
  <2>4. QED
    BY <1>1, <2>2, <2>3
<1>4. x \in T
  BY <1>2, <1>3 DEF Sound
<1>5. QED
  BY <1>1, <1>4

(* Sound roots: everything reached exists, and no chain is endless. *)
LEMMA SoundRoots ==
  ASSUME NEW N, IsFiniteSet(N), NEW G, Graph(N, G), NEW R, R \subseteq Sound(N, G)
  PROVE  /\ ReachOf(N, G, R) \subseteq DOMAIN G
         /\ ReachOf(N, G, R) \cap Chains(N, G, Cardinality(N)) = {}
<1>1. PICK S \in SUBSET N : S = Sound(N, G)
  BY DEF Sound
<1>2. \A x \in S : x \in DOMAIN G /\ RefsIn(G, x) \subseteq S
  BY <1>1, SoundRefs DEF RefsIn
<1>3. ReachOf(N, G, R) \subseteq S
  BY <1>1, <1>2, ReachLeast
<1>4. PICK W : W = Chains(N, G, Cardinality(N))
  OBVIOUS
<1>5. W \in SUBSET N /\ \A x \in N : RefsIn(G, x) \cap W = {} => x \notin W
  BY <1>4, EndlessStep
<1>6. Bears(N, G, N \ W)
  <2>1. SUFFICES ASSUME NEW x \in DOMAIN G, G[x] \subseteq N \ W PROVE x \in N \ W
    BY DEF Bears
  <2>2. RefsIn(G, x) \cap W = {} /\ x \in N
    BY <2>1 DEF RefsIn, Graph
  <2>3. QED
    BY <1>5, <2>2
<1>7. S \subseteq N \ W
  BY <1>1, <1>6 DEF Sound
<1>8. QED
  BY <1>2, <1>3, <1>4, <1>7

(* When all references start chains of at most k members, chains are at    *)
(* most one longer.                                                        *)
LEMMA ChainsBounded ==
  ASSUME NEW N, NEW G, NEW x, NEW k \in Nat, NEW n \in Nat, n = k + 1,
         RefsIn(G, x) \cap Chains(N, G, k) = {}
  PROVE  x \notin Chains(N, G, n)
  BY ChainsNext DEF Above

-----------------------------------------------------------------------------
(* PluginGraph.  The memo ranks the calls, and the requests on what was    *)
(* accepted nest no deeper than MaxDepth.  The properties are not          *)
(* inductive.  What carries them is that a frame drops a call from its     *)
(* list only once the callee is finished, with a smaller depth (Pending),  *)
(* that the stack and the finished plugins do not overlap (Stacked), that  *)
(* nothing is forgotten (Covered), and that the plugins a request is       *)
(* inside of have falling depths (Falling).                                *)

(* A frame of visit_plugin, for a memo D: what it has left are calls of    *)
(* its plugin, and the calls it is through with are finished and less deep. *)
Pending(f, D) ==
  /\ f.tag \in DOMAIN plugins /\ f.tag \notin DOMAIN D
  /\ f.todo \subseteq Calls(f.tag)
  /\ f.depth >= 1
  /\ \A y \in Calls(f.tag) \ f.todo : y \in DOMAIN D /\ D[y] < f.depth

Stacked ==
  /\ \A i \in 1 .. Len(active) : Pending(active[i], depths)
  /\ \A i, j \in 1 .. Len(active) : i # j => active[i].tag # active[j].tag
  /\ active # << >> => AllKnown

Shallow == \A x \in Done : depths[x] >= 1 /\ depths[x] <= MaxDepth

Covered ==
  /\ verdict = "none" => \A x \in DOMAIN plugins :
                            x \in roots \/ x \in Done \/ OnStack(x)
  /\ verdict = "ok" => DOMAIN plugins \subseteq Done

Falling ==
  /\ request # << >> => verdict = "ok"
  /\ \A i \in 1 .. Len(request) :
       request[i] \in DOMAIN plugins /\ depths[request[i]] + i <= MaxDepth + 1

IInv == TypeOK /\ Stacked /\ Shallow /\ MemoRanksCalls /\ Covered /\ Falling

-----------------------------------------------------------------------------
(* What the operators do. *)

(* The calls of a plugin are the tags it runs. *)
LEMMA CallsAreTargets ==
  ASSUME TypeOK, NEW x \in DOMAIN plugins
  PROVE  Calls(x) = plugins[x].targets /\ Calls(x) \subseteq Tag
BY DEF TypeOK, Calls, Plugin

(* Deepen keeps the plugin, takes the callee off the list, and makes the   *)
(* depth exceed the callee's.                                              *)
LEMMA DeepenFields ==
  ASSUME NEW f \in Frame, NEW tag, NEW d \in Nat
  PROVE  /\ Deepen(f, tag, d) \in Frame
         /\ Deepen(f, tag, d).tag = f.tag
         /\ Deepen(f, tag, d).todo = f.todo \ {tag}
         /\ Deepen(f, tag, d).depth >= f.depth
         /\ Deepen(f, tag, d).depth > d
<1> DEFINE n == IF 1 + d > f.depth THEN 1 + d ELSE f.depth
<1>1. f.tag \in Tag /\ f.todo \in SUBSET Tag /\ f.depth \in Nat
  BY DEF Frame
<1>2. Deepen(f, tag, d) = [tag |-> f.tag, todo |-> f.todo \ {tag}, depth |-> n]
  BY DEF Deepen
<1>3. n \in Nat /\ n >= f.depth /\ n > d
  BY <1>1
<1>4. f.todo \ {tag} \in SUBSET Tag
  BY <1>1
<1> HIDE DEF n
<1> QED
  BY <1>1, <1>2, <1>3, <1>4 DEF Frame

(* A stack without its top. *)
LEMMA PoppedSeq ==
  ASSUME NEW S, NEW st \in Seq(S), st # << >>
  PROVE  /\ SubSeq(st, 1, Len(st) - 1) \in Seq(S)
         /\ Len(SubSeq(st, 1, Len(st) - 1)) = Len(st) - 1
         /\ \A i \in 1 .. Len(st) - 1 : SubSeq(st, 1, Len(st) - 1)[i] = st[i]
<1>1. Len(st) \in Nat /\ Len(st) >= 1
  BY EmptySeq, LenProperties
<1>2. PICK m \in Nat : m = Len(st) - 1
  BY <1>1
<1>3. \A i \in 1 .. m : st[i] \in S
  BY <1>1, <1>2, ElementOfSeq
<1>4. /\ SubSeq(st, 1, m) \in Seq(S)
      /\ Len(SubSeq(st, 1, m)) = IF 1 <= m THEN m - 1 + 1 ELSE 0
      /\ \A i \in 1 .. m - 1 + 1 : SubSeq(st, 1, m)[i] = st[1 + i - 1]
  BY <1>3, SubSeqProperties
<1>5. Len(SubSeq(st, 1, m)) = m /\ \A i \in 1 .. m : SubSeq(st, 1, m)[i] = st[i]
  BY <1>4
<1> QED
  BY <1>2, <1>4, <1>5

(* NoteDepth changes the top frame only. *)
LEMMA NoteDepthFrames ==
  ASSUME NEW st \in Seq(Frame), NEW tag, NEW d \in Nat
  PROVE  /\ NoteDepth(st, tag, d) \in Seq(Frame)
         /\ Len(NoteDepth(st, tag, d)) = Len(st)
         /\ \A i \in 1 .. Len(st) : NoteDepth(st, tag, d)[i] =
              IF i = Len(st) THEN Deepen(st[i], tag, d) ELSE st[i]
<1>1. CASE st = << >>
  BY <1>1 DEF NoteDepth
<1>2. CASE st # << >>
  <2>1. Len(st) \in 1 .. Len(st) /\ st[Len(st)] \in Frame
    BY <1>2, EmptySeq, LenProperties, ElementOfSeq
  <2>2. Deepen(st[Len(st)], tag, d) \in Frame
    BY <2>1, DeepenFields
  <2>3. NoteDepth(st, tag, d) = [st EXCEPT ![Len(st)] = Deepen(st[Len(st)], tag, d)]
    BY <1>2 DEF NoteDepth
  <2> QED
    BY <2>1, <2>2, <2>3, ExceptSeq
<1> QED
  BY <1>1, <1>2

(* Returning a depth to the caller keeps the caller's frame in order, when *)
(* what it returns is the depth of a finished plugin.                      *)
LEMMA DeepenPending ==
  ASSUME NEW D, NEW f \in Frame, Pending(f, D), NEW tag \in DOMAIN D,
         \A y \in DOMAIN D : D[y] \in Nat
  PROVE  Pending(Deepen(f, tag, D[tag]), D)
<1> DEFINE g == Deepen(f, tag, D[tag])
<1>1. f.depth \in Nat
  BY DEF Frame
<1>2. /\ g \in Frame /\ g.tag = f.tag /\ g.todo = f.todo \ {tag}
      /\ g.depth >= f.depth /\ g.depth > D[tag]
  BY DeepenFields
<1>3. g.depth \in Nat
  BY <1>2 DEF Frame
<1> HIDE DEF g
<1>4. \A y \in Calls(f.tag) \ (f.todo \ {tag}) : y \in DOMAIN D /\ D[y] < g.depth
  BY <1>1, <1>2, <1>3 DEF Pending
<1>5. Pending(g, D)
  BY <1>1, <1>2, <1>3, <1>4 DEF Pending
<1> QED
  BY <1>5 DEF g

(* The same for a whole stack: the frames stay in order, and keep their    *)
(* plugins.                                                                *)
LEMMA NoteDepthPending ==
  ASSUME NEW D, NEW st \in Seq(Frame), \A i \in 1 .. Len(st) : Pending(st[i], D),
         NEW tag \in DOMAIN D, \A y \in DOMAIN D : D[y] \in Nat,
         NEW st2, st2 = NoteDepth(st, tag, D[tag])
  PROVE  /\ st2 \in Seq(Frame) /\ Len(st2) = Len(st)
         /\ \A i \in 1 .. Len(st) : st2[i].tag = st[i].tag /\ Pending(st2[i], D)
<1>1. /\ st2 \in Seq(Frame) /\ Len(st2) = Len(st)
      /\ \A i \in 1 .. Len(st) : st2[i] = IF i = Len(st) THEN Deepen(st[i], tag, D[tag]) ELSE st[i]
  BY NoteDepthFrames
<1>2. ASSUME NEW i \in 1 .. Len(st)
      PROVE  st2[i].tag = st[i].tag /\ Pending(st2[i], D)
  <2>1. st[i] \in Frame /\ Pending(st[i], D)
    BY ElementOfSeq
  <2>2. Deepen(st[i], tag, D[tag]).tag = st[i].tag /\ Pending(Deepen(st[i], tag, D[tag]), D)
    BY <2>1, DeepenPending, DeepenFields
  <2> QED
    BY <1>1, <2>1, <2>2
<1> QED
  BY <1>1, <1>2

-----------------------------------------------------------------------------
(* The invariant holds at the start and every step keeps it. *)

LEMMA InitIInv == Init => IInv
<1> SUFFICES ASSUME Init PROVE IInv
  OBVIOUS
<1>1. Done = {}
  BY DEF Init, Done
<1>2. Len(active) = 0 /\ active \in Seq(Frame) /\ Len(request) = 0 /\ request \in Seq(Tag)
  BY DEF Init
<1>3. MaxDepth \in Nat /\ 0 <= MaxDepth
  BY PluginGraphAssumption
<1>4. DOMAIN plugins \subseteq Tag /\ \A x \in DOMAIN plugins : plugins[x] \in Plugin
  BY PluginGraphAssumption DEF Init
<1>5. TypeOK
  BY <1>1, <1>2, <1>3, <1>4 DEF Init, TypeOK
<1>6. Stacked /\ Falling
  BY <1>2 DEF Init, Stacked, Falling
<1>7. Shallow /\ MemoRanksCalls
  BY <1>1 DEF Shallow, MemoRanksCalls
<1>8. Covered
  BY DEF Init, Covered
<1> QED
  BY <1>5, <1>6, <1>7, <1>8 DEF IInv

(* What is said of the memo and of a request stays true while both, and    *)
(* the configuration, stay as they are.                                    *)
LEMMA MemoKept ==
  ASSUME IInv, UNCHANGED << plugins, depths >>
  PROVE  Shallow' /\ MemoRanksCalls' /\ Done' = Done /\ \A x : Calls(x)' = Calls(x)
<1>1. Done' = Done /\ \A x : Calls(x)' = Calls(x)
  BY DEF Done, Calls
<1>2. Shallow'
  BY <1>1 DEF IInv, Shallow
<1>3. MemoRanksCalls'
  BY <1>1 DEF IInv, MemoRanksCalls
<1> QED
  BY <1>1, <1>2, <1>3

(* A stack of frames in order is in order still when only the              *)
(* configuration's name is primed.                                         *)
LEMMA StackedNext ==
  ASSUME UNCHANGED plugins,
         \A i \in 1 .. Len(active') : Pending(active'[i], depths'),
         \A i, j \in 1 .. Len(active') : i # j => active'[i].tag # active'[j].tag,
         active' # << >> => AllKnown
  PROVE  Stacked'
<1>1. \A x : Calls(x)' = Calls(x)
  BY DEF Calls
<1>2. AllKnown' <=> AllKnown
  BY <1>1 DEF AllKnown
<1>3. ASSUME NEW i \in 1 .. Len(active') PROVE Pending(active[i], depths)'
  <2>1. Pending(active'[i], depths')
    OBVIOUS
  <2> QED
    BY <1>1, <2>1 DEF Pending
<1> QED
  BY <1>2, <1>3 DEF Stacked

(* visit_plugin, whoever calls it. *)
LEMMA VisitKeeps ==
  ASSUME IInv, NEW tag \in DOMAIN plugins, verdict = "none", AllKnown, Visit(tag),
         UNCHANGED << plugins, depths, request >>,
         roots' \subseteq roots, roots \subseteq roots' \cup {tag}
  PROVE  IInv'
<1>1. TypeOK /\ Stacked /\ Covered /\ Falling
  BY DEF IInv
<1>2. Shallow' /\ MemoRanksCalls' /\ Done' = Done
  BY MemoKept
<1>3. request = << >> /\ tag \in Tag /\ MaxDepth \in Nat /\ active \in Seq(Frame) /\ Len(active) \in Nat
  BY <1>1, PluginGraphAssumption, LenProperties DEF Falling, TypeOK
<1>4. Falling'
  BY <1>3 DEF Falling
<1>5. CASE tag \in Done /\ active' = NoteDepth(active, tag, depths[tag]) /\ UNCHANGED verdict
  <2>1. /\ active' \in Seq(Frame) /\ Len(active') = Len(active)
        /\ \A i \in 1 .. Len(active) : active'[i].tag = active[i].tag /\ Pending(active'[i], depths)
    BY <1>1, <1>3, <1>5, NoteDepthPending DEF Stacked, TypeOK, Done
  <2>2. TypeOK'
    BY <1>1, <1>2, <1>5, <2>1 DEF TypeOK
  <2>3. Stacked'
    BY <1>1, <2>1, StackedNext DEF Stacked
  <2>4. Covered'
    BY <1>1, <1>2, <1>5, <2>1 DEF Covered, OnStack
  <2> QED
    BY <1>2, <1>4, <2>2, <2>3, <2>4 DEF IInv
<1>6. CASE verdict' \in {"cycle", "deep"} /\ UNCHANGED active
  <2>1. TypeOK'
    BY <1>1, <1>2, <1>6 DEF TypeOK
  <2>2. Stacked'
    BY <1>1, <1>6, StackedNext DEF Stacked
  <2>3. Covered'
    BY <1>6 DEF Covered
  <2> QED
    BY <1>2, <1>4, <2>1, <2>2, <2>3 DEF IInv
<1>7. CASE /\ tag \notin Done /\ ~OnStack(tag) /\ Len(active) < MaxDepth
           /\ active' = Append(active, [tag |-> tag, todo |-> Calls(tag), depth |-> 1])
           /\ UNCHANGED verdict
  <2> DEFINE f == [tag |-> tag, todo |-> Calls(tag), depth |-> 1]
  <2>1. f \in Frame /\ f.tag = tag /\ f.todo = Calls(tag) /\ f.depth = 1
    BY <1>1, <1>3, CallsAreTargets DEF Frame
  <2>2. Pending(f, depths)
    BY <1>7, <2>1 DEF Pending, Done
  <2>3. active' = Append(active, f)
    BY <1>7
  <2> HIDE DEF f
  <2>4. /\ active' \in Seq(Frame) /\ Len(active') = Len(active) + 1
        /\ \A i \in 1 .. Len(active) : active'[i] = active[i]
        /\ active'[Len(active) + 1] = f
    BY <1>3, <2>1, <2>3
  <2>5. TypeOK'
    BY <1>1, <1>2, <1>3, <1>7, <2>4 DEF TypeOK
  <2>6. \A i \in 1 .. Len(active') : Pending(active'[i], depths)
    BY <1>1, <1>3, <2>2, <2>4 DEF Stacked
  <2>7. \A i, j \in 1 .. Len(active') : i # j => active'[i].tag # active'[j].tag
    BY <1>1, <1>3, <1>7, <2>1, <2>4 DEF Stacked, OnStack
  <2>8. Stacked'
    BY <2>6, <2>7, StackedNext
  <2>9. Covered'
    <3>1. \A x : OnStack(x) => OnStack(x)'
      BY <1>3, <2>4 DEF OnStack
    <3>2. OnStack(tag)'
      BY <1>3, <2>1, <2>4 DEF OnStack
    <3> QED
      BY <1>1, <1>2, <1>7, <3>1, <3>2 DEF Covered
  <2> QED
    BY <1>2, <1>4, <2>5, <2>8, <2>9 DEF IInv
<1> QED
  BY <1>5, <1>6, <1>7 DEF Visit

(* The loop over edges.keys(). *)
LEMMA VisitRootKeeps ==
  ASSUME IInv, NEW tag \in Tag, VisitRoot(tag)
  PROVE  IInv'
<1>1. tag \in DOMAIN plugins
  BY DEF IInv, TypeOK, VisitRoot
<1> QED
  BY <1>1, VisitKeeps DEF VisitRoot

(* The loop over the calls of the top frame. *)
LEMMA VisitCalleeKeeps ==
  ASSUME IInv, NEW tag \in Tag, VisitCallee(tag)
  PROVE  IInv'
<1>1. TypeOK /\ Stacked
  BY DEF IInv
<1>2. active \in Seq(Frame) /\ active # << >>
  BY <1>1 DEF TypeOK, VisitCallee
<1>3. Len(active) \in 1 .. Len(active)
  BY <1>2, EmptySeq, LenProperties
<1>4. Pending(active[Len(active)], depths) /\ AllKnown
  BY <1>1, <1>2, <1>3 DEF Stacked
<1>5. tag \in DOMAIN plugins
  BY <1>4 DEF VisitCallee, Pending, AllKnown
<1> QED
  BY <1>4, <1>5, VisitKeeps DEF VisitCallee

(* The frame on top is finished: its plugin moves from the stack to the    *)
(* memo, with a depth above those of its calls, and the caller is told.    *)
LEMMA FinishVisitKeeps ==
  ASSUME IInv, FinishVisit
  PROVE  IInv'
<1>1. TypeOK /\ Stacked /\ Shallow /\ MemoRanksCalls /\ Covered /\ Falling
  BY DEF IInv
<1> DEFINE n == Len(active)
           f == active[n]
<1>2. active \in Seq(Frame) /\ active # << >> /\ MaxDepth \in Nat
  BY <1>1, PluginGraphAssumption DEF TypeOK, FinishVisit
<1>3. n \in 1 .. n /\ n \in Nat /\ n >= 1 /\ f \in Frame
  BY <1>2, EmptySeq, LenProperties, ElementOfSeq
<1>4. Pending(f, depths) /\ AllKnown
  BY <1>1, <1>2, <1>3 DEF Stacked
<1>5. f.tag \in DOMAIN plugins /\ f.tag \notin Done /\ f.depth \in Nat /\ f.depth >= 1
  BY <1>3, <1>4 DEF Pending, Done, Frame
<1>6. /\ verdict = "none" /\ request = << >> /\ f.todo = {}
      /\ UNCHANGED << plugins, roots, request >>
  BY <1>1 DEF FinishVisit, Falling
<1>7. \A y \in Calls(f.tag) : y \in Done /\ depths[y] < f.depth
  BY <1>4, <1>6 DEF Pending, Done
<1>8. Falling'
  BY <1>6 DEF Falling
<1> HIDE DEF n, f
<1>9. CASE verdict' = "deep" /\ UNCHANGED << active, depths >>
  <2>1. Shallow' /\ MemoRanksCalls' /\ Done' = Done
    BY <1>6, <1>9, MemoKept
  <2>2. TypeOK'
    BY <1>1, <1>6, <1>9, <2>1 DEF TypeOK
  <2>3. Stacked'
    BY <1>1, <1>6, <1>9, StackedNext DEF Stacked
  <2>4. Covered'
    BY <1>9 DEF Covered
  <2> QED
    BY <1>8, <2>1, <2>2, <2>3, <2>4 DEF IInv
<1>10. CASE /\ f.depth <= MaxDepth /\ UNCHANGED verdict
            /\ depths' = [x \in Done \cup {f.tag} |-> IF x = f.tag THEN f.depth ELSE depths[x]]
            /\ active' = NoteDepth(SubSeq(active, 1, n - 1), f.tag, f.depth)
  <2> DEFINE st == SubSeq(active, 1, n - 1)
  <2>1. /\ DOMAIN depths' = Done \cup {f.tag} /\ Done' = Done \cup {f.tag}
        /\ depths'[f.tag] = f.depth /\ \A x \in Done : depths'[x] = depths[x]
    BY <1>5, <1>10 DEF Done
  <2>2. \A x \in Done : depths[x] \in Nat
    BY <1>1 DEF TypeOK
  <2>3. \A x \in Done' : depths'[x] \in Nat
    BY <1>5, <2>1, <2>2
  <2>4. /\ st \in Seq(Frame) /\ Len(st) = n - 1
        /\ \A i \in 1 .. n - 1 : st[i] = active[i]
    BY <1>2, PoppedSeq DEF n
  <2> HIDE DEF st
  <2>5. ASSUME NEW i \in 1 .. n - 1 PROVE Pending(st[i], depths')
    <3>1. i \in 1 .. Len(active) /\ i # n /\ n \in 1 .. Len(active)
      BY <1>3 DEF n
    <3>2. Pending(active[i], depths) /\ active[i].tag # f.tag
      BY <1>1, <3>1 DEF Stacked, f
    <3> QED
      BY <2>1, <2>4, <3>2 DEF Pending, Done
  <2>6. active' = NoteDepth(st, f.tag, depths'[f.tag])
    BY <1>10, <2>1 DEF st
  <2>7. /\ active' \in Seq(Frame) /\ Len(active') = n - 1
        /\ \A i \in 1 .. n - 1 : active'[i].tag = active[i].tag /\ Pending(active'[i], depths')
    <3>1. /\ active' \in Seq(Frame) /\ Len(active') = Len(st)
          /\ \A i \in 1 .. Len(st) : active'[i].tag = st[i].tag /\ Pending(active'[i], depths')
      BY <2>1, <2>3, <2>4, <2>5, <2>6, NoteDepthPending DEF Done
    <3> QED
      BY <2>4, <3>1
  <2>8. TypeOK'
    BY <1>1, <1>2, <1>3, <1>5, <1>6, <1>10, <2>1, <2>3, <2>7 DEF TypeOK, n
  <2>9. Stacked'
    <3>1. \A i, j \in 1 .. Len(active') : i # j => active'[i].tag # active'[j].tag
      BY <1>1, <1>3, <2>7 DEF Stacked, n
    <3> QED
      BY <1>4, <1>6, <2>7, <3>1, StackedNext
  <2>10. Shallow'
    BY <1>1, <1>5, <1>10, <2>1 DEF Shallow
  <2>11. MemoRanksCalls'
    <3>1. \A x : Calls(x)' = Calls(x)
      BY <1>6 DEF Calls
    <3>2. \A x \in Done : Calls(x) \subseteq Done /\ \A y \in Calls(x) : depths[y] < depths[x]
      BY <1>1 DEF MemoRanksCalls
    <3>3. \A x \in Done' : Calls(x) \subseteq Done' /\ \A y \in Calls(x) : depths'[y] < depths'[x]
      BY <1>5, <1>7, <2>1, <3>2
    <3> QED
      BY <3>1, <3>3 DEF MemoRanksCalls
  <2>12. Covered'
    <3>1. ASSUME NEW x, OnStack(x), x # f.tag PROVE OnStack(x)'
      <4>1. PICK i \in 1 .. n : active[i].tag = x
        BY <3>1 DEF OnStack, n
      <4>2. i \in 1 .. n - 1
        BY <1>3, <3>1, <4>1 DEF f
      <4> QED
        BY <2>7, <4>1, <4>2 DEF OnStack
    <3> QED
      BY <1>1, <1>6, <1>10, <2>1, <3>1 DEF Covered
  <2> QED
    BY <1>8, <2>8, <2>9, <2>10, <2>11, <2>12 DEF IInv
<1> QED
  BY <1>9, <1>10 DEF FinishVisit, n, f

(* The ends of the validation. *)
LEMMA VerdictKeeps ==
  ASSUME IInv, RejectUnknown \/ Accept
  PROVE  IInv'
<1>1. TypeOK /\ Stacked /\ Covered /\ Falling
  BY DEF IInv
<1>2. /\ verdict = "none" /\ verdict' \in {"unknown", "ok"}
      /\ UNCHANGED << plugins, roots, active, depths, request >>
  BY DEF RejectUnknown, Accept
<1>3. Shallow' /\ MemoRanksCalls' /\ Done' = Done
  BY <1>2, MemoKept
<1>4. TypeOK'
  BY <1>1, <1>2, <1>3 DEF TypeOK
<1>5. Stacked'
  BY <1>1, <1>2, StackedNext DEF Stacked
<1>6. Falling'
  BY <1>1, <1>2 DEF Falling
<1>7. Covered'
  <2>1. CASE RejectUnknown
    BY <2>1 DEF RejectUnknown, Covered
  <2>2. CASE Accept
    <3>1. \A x : ~OnStack(x)
      BY <2>2 DEF Accept, OnStack
    <3>2. DOMAIN plugins \subseteq Done
      BY <1>1, <2>2, <3>1 DEF Accept, Covered
    <3> QED
      BY <1>2, <1>3, <2>2, <3>2 DEF Accept, Covered
  <2> QED
    BY <2>1, <2>2
<1> QED
  BY <1>3, <1>4, <1>5, <1>6, <1>7 DEF IInv

(* A step of a request leaves the validation's state alone. *)
LEMMA RequestKeeps ==
  ASSUME IInv, UNCHANGED << plugins, roots, active, depths, verdict >>,
         request' \in Seq(Tag), Falling'
  PROVE  IInv'
<1>1. TypeOK /\ Stacked /\ Covered
  BY DEF IInv
<1>2. Shallow' /\ MemoRanksCalls' /\ Done' = Done
  BY MemoKept
<1>3. TypeOK'
  BY <1>1, <1>2 DEF TypeOK
<1>4. Stacked'
  BY <1>1, StackedNext DEF Stacked
<1>5. Covered'
  BY <1>1, <1>2 DEF Covered, OnStack
<1> QED
  BY <1>2, <1>3, <1>4, <1>5 DEF IInv

LEMMA EnterKeeps ==
  ASSUME IInv, NEW tag \in Tag, Enter(tag)
  PROVE  IInv'
<1>1. TypeOK /\ Shallow /\ Covered /\ MaxDepth \in Nat
  BY PluginGraphAssumption DEF IInv
<1>2. /\ verdict = "ok" /\ tag \in DOMAIN plugins /\ request' = << tag >>
      /\ UNCHANGED << plugins, roots, active, depths, verdict >>
  BY DEF Enter
<1>3. request' \in Seq(Tag) /\ Len(request') = 1 /\ request'[1] = tag
  BY <1>2
<1>4. tag \in Done /\ depths[tag] \in Nat /\ depths[tag] <= MaxDepth
  BY <1>1, <1>2 DEF Covered, Shallow, TypeOK
<1>5. Falling'
  BY <1>1, <1>2, <1>3, <1>4 DEF Falling
<1> QED
  BY <1>2, <1>3, <1>5, RequestKeeps

(* A callee is less deep than its caller. *)
LEMMA CallPluginKeeps ==
  ASSUME IInv, NEW tag \in Tag, CallPlugin(tag)
  PROVE  IInv'
<1>1. TypeOK /\ Shallow /\ MemoRanksCalls /\ Covered /\ Falling /\ MaxDepth \in Nat
  BY PluginGraphAssumption DEF IInv
<1> DEFINE n == Len(request)
           x == request[n]
<1>2. request \in Seq(Tag) /\ request # << >> /\ verdict = "ok"
  BY <1>1 DEF CallPlugin, Falling, TypeOK
<1>3. n \in 1 .. n /\ n \in Nat
  BY <1>2, EmptySeq, LenProperties
<1>4. /\ request' = Append(request, tag) /\ tag \in DOMAIN plugins
      /\ tag \in plugins[x].targets
      /\ UNCHANGED << plugins, roots, active, depths, verdict >>
  BY DEF CallPlugin
<1>5. x \in DOMAIN plugins /\ depths[x] + n <= MaxDepth + 1
  BY <1>1, <1>3 DEF Falling
<1>6. x \in Done /\ tag \in Done /\ tag \in Calls(x)
  BY <1>1, <1>2, <1>4, <1>5, CallsAreTargets DEF Covered
<1>7. depths[tag] < depths[x] /\ depths[tag] \in Nat /\ depths[x] \in Nat
  BY <1>1, <1>6 DEF MemoRanksCalls, TypeOK
<1>8. /\ request' \in Seq(Tag) /\ Len(request') = n + 1 /\ request'[n + 1] = tag
      /\ \A i \in 1 .. n : request'[i] = request[i]
  BY <1>2, <1>4
<1> HIDE DEF n, x
<1>9. depths[tag] + (n + 1) <= MaxDepth + 1
  BY <1>1, <1>3, <1>5, <1>7
<1>10. \A i \in 1 .. n : request[i] \in DOMAIN plugins /\ depths[request[i]] + i <= MaxDepth + 1
  BY <1>1 DEF Falling, n
<1>11. Falling'
  BY <1>2, <1>3, <1>4, <1>8, <1>9, <1>10 DEF Falling
<1> QED
  BY <1>4, <1>8, <1>11, RequestKeeps

LEMMA ReturnKeeps ==
  ASSUME IInv, Return
  PROVE  IInv'
<1>1. TypeOK /\ Falling
  BY DEF IInv
<1>2. request \in Seq(Tag) /\ request # << >> /\ Len(request) \in Nat
  BY <1>1, LenProperties DEF Return, TypeOK
<1>3. /\ request' \in Seq(Tag) /\ Len(request') = Len(request) - 1
      /\ \A i \in 1 .. Len(request) - 1 : request'[i] = request[i]
  BY <1>2, PoppedSeq DEF Return
<1>4. Falling'
  BY <1>1, <1>2, <1>3 DEF Falling, Return
<1> QED
  BY <1>3, <1>4, RequestKeeps DEF Return

LEMMA NextIInv == IInv /\ [Next]_vars => IInv'
<1> SUFFICES ASSUME IInv, [Next]_vars PROVE IInv'
  OBVIOUS
<1>1. CASE \E tag \in Tag : VisitRoot(tag) \/ VisitCallee(tag)
  BY <1>1, VisitRootKeeps, VisitCalleeKeeps
<1>2. CASE FinishVisit
  BY <1>2, FinishVisitKeeps
<1>3. CASE RejectUnknown \/ Accept
  BY <1>3, VerdictKeeps
<1>4. CASE \E tag \in Tag : Enter(tag) \/ CallPlugin(tag)
  BY <1>4, EnterKeeps, CallPluginKeeps
<1>5. CASE Return
  BY <1>5, ReturnKeeps
<1>6. CASE UNCHANGED vars
  <2>1. request' \in Seq(Tag) /\ Falling'
    BY <1>6 DEF vars, IInv, TypeOK, Falling
  <2> QED
    BY <1>6, <2>1, RequestKeeps DEF vars
<1> QED
  BY <1>1, <1>2, <1>3, <1>4, <1>5, <1>6 DEF Next, Validate

THEOREM Invariance == Spec => []IInv
BY InitIInv, NextIInv, PTL DEF Spec

-----------------------------------------------------------------------------

(* For every configuration the search keeps its types, and its recursion   *)
(* stays within MaxDepth frames (visit_plugin's check of active.len()).    *)
THEOREM TypeCorrect == Spec => []TypeOK
<1>1. IInv => TypeOK
  BY DEF IInv
<1> QED
  BY <1>1, Invariance, PTL

(* For every configuration the memo of visit_plugin ranks the calls.       *)
THEOREM MemoCorrect == Spec => []MemoRanksCalls
<1>1. IInv => MemoRanksCalls
  BY DEF IInv
<1> QED
  BY <1>1, Invariance, PTL

(* For every configuration that validate_plugin_graph accepts, of any size *)
(* and for any limit, no request nests its calls deeper than the limit.    *)
THEOREM DepthCorrect == Spec => []RequestDepthBounded
<1>1. IInv => RequestDepthBounded
  <2> SUFFICES ASSUME IInv, request # << >> PROVE Len(request) <= MaxDepth
    BY PluginGraphAssumption DEF RequestDepthBounded
  <2>1. TypeOK /\ Shallow /\ Covered /\ Falling /\ MaxDepth \in Nat
    BY PluginGraphAssumption DEF IInv
  <2>2. request \in Seq(Tag) /\ Len(request) \in Nat /\ Len(request) \in 1 .. Len(request)
    BY <2>1, EmptySeq, LenProperties DEF TypeOK
  <2> DEFINE x == request[Len(request)]
  <2>3. x \in Done /\ depths[x] + Len(request) <= MaxDepth + 1
    BY <2>1, <2>2 DEF Falling, Covered
  <2>4. depths[x] \in Nat /\ depths[x] >= 1
    BY <2>1, <2>3 DEF Shallow, TypeOK
  <2> HIDE DEF x
  <2> QED
    BY <2>1, <2>2, <2>3, <2>4
<1> QED
  BY <1>1, Invariance, PTL

-----------------------------------------------------------------------------
(* The verdict is the one the graph deserves.  What a rejection needs is   *)
(* that the stack is a way through the graph (Linked), and that the depths *)
(* are those of real chains (Long).                                        *)

CallGraph == [x \in DOMAIN plugins |-> Calls(x)]

Linked(st) == \A i \in 1 .. Len(st) - 1 : st[i + 1].tag \in st[i].todo

Long(G, f) == f.tag \in Chains(Tag, G, f.depth - 1)

Deserved ==
  /\ Linked(active)
  /\ \A i \in 1 .. Len(active) : Long(CallGraph, active[i])
  /\ \A x \in Done : x \in Chains(Tag, CallGraph, depths[x] - 1)

LEMMA CallGraphFacts ==
  ASSUME TypeOK
  PROVE  /\ Graph(Tag, CallGraph) /\ DOMAIN CallGraph = DOMAIN plugins
         /\ \A x \in DOMAIN plugins : CallGraph[x] = Calls(x) /\ RefsIn(CallGraph, x) = Calls(x)
<1>1. DOMAIN CallGraph = DOMAIN plugins /\ \A x \in DOMAIN plugins : CallGraph[x] = Calls(x)
  BY DEF CallGraph
<1>2. \A x \in DOMAIN plugins : RefsIn(CallGraph, x) = Calls(x)
  BY <1>1 DEF RefsIn
<1>3. DOMAIN plugins \subseteq Tag /\ \A x \in DOMAIN plugins : Calls(x) \subseteq Tag
  BY CallsAreTargets DEF TypeOK
<1>4. QED
  BY <1>1, <1>2, <1>3 DEF Graph

(* A caller is one deeper than what it calls. *)
LEMMA CallerLong ==
  ASSUME TypeOK, NEW x \in DOMAIN plugins, NEW y \in Calls(x), NEW d \in Nat \ {0},
         y \in Chains(Tag, CallGraph, d - 1)
  PROVE  x \in Chains(Tag, CallGraph, d)
<1>1. x \in Tag /\ y \in RefsIn(CallGraph, x)
  BY CallGraphFacts DEF TypeOK
<1>2. Chains(Tag, CallGraph, d) = Above(Tag, CallGraph, Chains(Tag, CallGraph, d - 1))
  BY ChainsBefore
<1>3. QED
  BY <1>1, <1>2 DEF Above

LEMMA DeepenLong ==
  ASSUME TypeOK, NEW f \in Frame, f.tag \in DOMAIN plugins, Long(CallGraph, f),
         NEW tag \in Calls(f.tag), NEW d \in Nat \ {0}, tag \in Chains(Tag, CallGraph, d - 1)
  PROVE  Long(CallGraph, Deepen(f, tag, d))
<1>1. f.depth \in Nat
  BY DEF Frame
<1>2. PICK n \in Nat : n = IF 1 + d > f.depth THEN 1 + d ELSE f.depth
  BY <1>1
<1>3. PICK g : g = Deepen(f, tag, d)
  OBVIOUS
<1>4. g.tag = f.tag /\ g.depth = n
  BY <1>2, <1>3 DEF Deepen
<1>5. CASE n = 1 + d
  <2>1. f.tag \in Chains(Tag, CallGraph, d)
    BY CallerLong
  <2>2. n - 1 = d
    BY <1>5
  <2>3. QED
    BY <1>3, <1>4, <2>1, <2>2 DEF Long
<1>6. CASE n = f.depth
  BY <1>3, <1>4, <1>6 DEF Long
<1>7. QED
  BY <1>2, <1>5, <1>6

LEMMA NoteDepthLong ==
  ASSUME TypeOK, NEW st \in Seq(Frame), Linked(st),
         \A i \in 1 .. Len(st) : st[i].tag \in DOMAIN plugins /\ Long(CallGraph, st[i]),
         NEW tag, st # << >> => tag \in Calls(st[Len(st)].tag),
         NEW d \in Nat \ {0}, tag \in Chains(Tag, CallGraph, d - 1),
         NEW r, r = NoteDepth(st, tag, d)
  PROVE  Linked(r) /\ \A i \in 1 .. Len(r) : Long(CallGraph, r[i])
<1>1. PICK n \in Nat : n = Len(st)
  OBVIOUS
<1>2. /\ r \in Seq(Frame) /\ Len(r) = n
      /\ \A i \in 1 .. n : r[i] = IF i = n THEN Deepen(st[i], tag, d) ELSE st[i]
  BY <1>1, NoteDepthFrames
<1>3. \A i \in 1 .. n : st[i] \in Frame
  BY <1>1
<1>4. \A i \in 1 .. n : r[i].tag = st[i].tag
  BY <1>2, <1>3, DeepenFields
<1>5. Linked(r)
  <2>1. SUFFICES ASSUME NEW i \in 1 .. n - 1 PROVE r[i + 1].tag \in r[i].todo
    BY <1>2 DEF Linked
  <2>2. st[i + 1].tag \in st[i].todo
    BY <1>1 DEF Linked
  <2>3. i \in 1 .. n /\ i # n /\ i + 1 \in 1 .. n
    OBVIOUS
  <2>4. QED
    BY <1>2, <1>4, <2>2, <2>3
<1>6. ASSUME NEW i \in 1 .. n PROVE Long(CallGraph, r[i])
  <2>1. CASE i # n
    BY <1>1, <1>2, <2>1
  <2>2. CASE i = n
    <3>1. st # << >> /\ st[n] \in Frame /\ st[n].tag \in DOMAIN plugins /\ Long(CallGraph, st[n])
      BY <1>1, <1>3, <2>2
    <3>2. tag \in Calls(st[n].tag)
      BY <1>1, <3>1
    <3>3. Long(CallGraph, Deepen(st[n], tag, d))
      BY <3>1, <3>2, DeepenLong
    <3>4. QED
      BY <1>2, <2>2, <3>3
  <2>3. QED
    BY <2>1, <2>2
<1>7. QED
  BY <1>2, <1>5, <1>6

(* What the stack and the memo know, for the step lemmas. *)
LEMMA FramesKnown ==
  ASSUME IInv
  PROVE  /\ active \in Seq(Frame) /\ Len(active) \in Nat
         /\ \A i \in 1 .. Len(active) : /\ active[i] \in Frame /\ active[i].tag \in DOMAIN plugins
                                        /\ active[i].todo \subseteq Calls(active[i].tag)
         /\ \A x \in Done : depths[x] \in Nat \ {0} /\ depths[x] <= MaxDepth
<1>1. TypeOK /\ Stacked /\ Shallow
  BY DEF IInv
<1>2. active \in Seq(Frame) /\ Len(active) \in Nat
  BY <1>1 DEF TypeOK
<1>3. \A i \in 1 .. Len(active) : /\ active[i] \in Frame /\ active[i].tag \in DOMAIN plugins
                                  /\ active[i].todo \subseteq Calls(active[i].tag)
  BY <1>1, <1>2 DEF Stacked, Pending
<1>4. \A x \in Done : depths[x] \in Nat \ {0} /\ depths[x] <= MaxDepth
  BY <1>1 DEF TypeOK, Shallow
<1>5. QED
  BY <1>2, <1>3, <1>4

(* The graph stays; what is left is the stack and the memo. *)
LEMMA DeservedNext ==
  ASSUME UNCHANGED plugins, Linked(active'), NEW G, G = CallGraph,
         \A i \in 1 .. Len(active') : Long(G, active'[i]),
         \A x \in DOMAIN depths' : x \in Chains(Tag, G, depths'[x] - 1)
  PROVE  Deserved'
<1>1. CallGraph' = G
  BY DEF CallGraph, Calls
<1>2. QED
  BY <1>1 DEF Deserved, Done

(* visit_plugin; its caller has tag on its list. *)
LEMMA VisitDeserved ==
  ASSUME IInv, Deserved, NEW tag \in DOMAIN plugins, Visit(tag), UNCHANGED << plugins, depths >>,
         active # << >> => tag \in active[Len(active)].todo
  PROVE  Deserved'
<1>1. TypeOK /\ tag \in Tag
  BY DEF IInv, TypeOK
<1>2. PICK n \in Nat : n = Len(active)
  BY FramesKnown
<1>3. PICK G : G = CallGraph
  OBVIOUS
<1>4. \A x \in DOMAIN depths' : x \in Chains(Tag, G, depths'[x] - 1)
  BY <1>3 DEF Deserved, Done
<1>5. Linked(active) /\ \A i \in 1 .. n : Long(G, active[i])
  BY <1>2, <1>3 DEF Deserved
<1>6. active # << >> => n \in 1 .. n
  BY <1>2, FramesKnown, EmptySeq
<1>7. CASE tag \in Done /\ active' = NoteDepth(active, tag, depths[tag])
  <2>1. depths[tag] \in Nat \ {0} /\ tag \in Chains(Tag, CallGraph, depths[tag] - 1)
    BY <1>7, FramesKnown DEF Deserved
  <2>2. active # << >> => tag \in Calls(active[Len(active)].tag)
    BY <1>2, <1>6, FramesKnown
  <2>3. \A i \in 1 .. Len(active) : active[i].tag \in DOMAIN plugins /\ Long(CallGraph, active[i])
    BY <1>2, <1>3, <1>5, FramesKnown
  <2>4. active \in Seq(Frame)
    BY FramesKnown
  <2>5. Linked(active') /\ \A i \in 1 .. Len(active') : Long(CallGraph, active'[i])
    BY <1>1, <1>5, <1>7, <2>1, <2>2, <2>3, <2>4, NoteDepthLong
  <2>6. QED
    BY <1>3, <1>4, <2>5, DeservedNext
<1>8. CASE UNCHANGED active
  BY <1>2, <1>3, <1>4, <1>5, <1>8, DeservedNext
<1>9. CASE active' = Append(active, [tag |-> tag, todo |-> Calls(tag), depth |-> 1])
  <2>1. PICK f : f = [tag |-> tag, todo |-> Calls(tag), depth |-> 1]
    OBVIOUS
  <2>2. f.tag = tag /\ f.depth - 1 = 0
    BY <2>1
  <2>3. Long(G, f)
    BY <1>1, <2>2, ChainsZero DEF Long
  <2>4. PICK r : r = Append(active, f)
    OBVIOUS
  <2>5. active' = r /\ Len(r) = n + 1 /\ r[n + 1] = f /\ \A i \in 1 .. n : r[i] = active[i]
    BY <1>2, <1>9, <2>1, <2>4, FramesKnown
  <2>6. Linked(r)
    <3>1. SUFFICES ASSUME NEW i \in 1 .. n PROVE r[i + 1].tag \in r[i].todo
      BY <2>5 DEF Linked
    <3>2. CASE i = n
      <4>1. active # << >>
        BY <1>2, <3>1, <3>2
      <4>2. QED
        BY <1>2, <2>2, <2>5, <3>2, <4>1
    <3>3. CASE i # n
      <4>1. i \in 1 .. n - 1 /\ i + 1 \in 1 .. n
        BY <3>1, <3>3
      <4>2. active[i + 1].tag \in active[i].todo
        BY <1>2, <1>5, <4>1 DEF Linked
      <4>3. QED
        BY <2>5, <4>1, <4>2
    <3>4. QED
      BY <3>2, <3>3
  <2>7. \A i \in 1 .. n + 1 : Long(G, r[i])
    BY <1>5, <2>3, <2>5
  <2>8. QED
    BY <1>3, <1>4, <2>5, <2>6, <2>7, DeservedNext
<1>10. QED
  BY <1>7, <1>8, <1>9 DEF Visit

LEMMA FinishDeserved ==
  ASSUME IInv, Deserved, FinishVisit
  PROVE  Deserved'
<1>1. TypeOK
  BY DEF IInv
<1>2. PICK n \in Nat \ {0} : n = Len(active) /\ active \in Seq(Frame)
  BY FramesKnown, EmptySeq DEF FinishVisit
<1>3. PICK f \in Frame : f = active[n]
  BY <1>2
<1>4. PICK G : G = CallGraph
  OBVIOUS
<1>5. UNCHANGED plugins
  BY DEF FinishVisit
<1>6. /\ Linked(active) /\ \A i \in 1 .. n : Long(G, active[i])
      /\ \A x \in Done : x \in Chains(Tag, G, depths[x] - 1)
  BY <1>2, <1>4 DEF Deserved
<1>7. CASE UNCHANGED << active, depths >>
  BY <1>2, <1>4, <1>5, <1>6, <1>7, DeservedNext DEF Done
<1>8. CASE /\ depths' = [x \in Done \cup {f.tag} |-> IF x = f.tag THEN f.depth ELSE depths[x]]
           /\ active' = NoteDepth(SubSeq(active, 1, n - 1), f.tag, f.depth)
  <2>1. f.tag \in Chains(Tag, G, f.depth - 1) /\ f.depth \in Nat \ {0}
    <3>1. Pending(f, depths) /\ n \in 1 .. n
      BY <1>2, <1>3 DEF IInv, Stacked
    <3>2. QED
      BY <1>3, <1>6, <3>1 DEF Long, Pending, Frame
  <2>2. \A x \in DOMAIN depths' : x \in Chains(Tag, G, depths'[x] - 1)
    BY <1>6, <1>8, <2>1
  <2>3. PICK st : st = SubSeq(active, 1, n - 1)
    OBVIOUS
  <2>4. st \in Seq(Frame) /\ Len(st) = n - 1 /\ \A i \in 1 .. n - 1 : st[i] = active[i]
    BY <1>2, <2>3, EmptySeq, PoppedSeq
  <2>5. Linked(st)
    <3>1. SUFFICES ASSUME NEW i \in 1 .. (n - 1) - 1 PROVE st[i + 1].tag \in st[i].todo
      BY <2>4 DEF Linked
    <3>2. i \in 1 .. n - 1 /\ i + 1 \in 1 .. n - 1
      BY <3>1
    <3>3. active[i + 1].tag \in active[i].todo
      BY <1>2, <1>6, <3>2 DEF Linked
    <3>4. QED
      BY <2>4, <3>2, <3>3
  <2>6. \A i \in 1 .. Len(st) : st[i].tag \in DOMAIN plugins /\ Long(CallGraph, st[i])
    BY <1>2, <1>4, <1>6, <2>4, FramesKnown
  <2>7. st # << >> => f.tag \in Calls(st[Len(st)].tag)
    <3>1. SUFFICES ASSUME st # << >> PROVE f.tag \in Calls(st[n - 1].tag)
      BY <2>4
    <3>2. n - 1 \in 1 .. n - 1 /\ (n - 1) + 1 = n /\ n - 1 \in 1 .. n
      BY <2>4, <3>1, EmptySeq
    <3>3. f.tag \in active[n - 1].todo
      BY <1>2, <1>3, <1>6, <3>2 DEF Linked
    <3>4. active[n - 1].todo \subseteq Calls(active[n - 1].tag)
      BY <1>2, <3>2, FramesKnown
    <3>5. QED
      BY <2>4, <3>2, <3>3, <3>4
  <2>8. active' = NoteDepth(st, f.tag, f.depth)
    BY <1>8, <2>3
  <2>9. Linked(active') /\ \A i \in 1 .. Len(active') : Long(CallGraph, active'[i])
    BY <1>1, <1>4, <2>1, <2>4, <2>5, <2>6, <2>7, <2>8, NoteDepthLong
  <2>10. QED
    BY <1>4, <1>5, <2>2, <2>9, DeservedNext
<1>9. QED
  BY <1>2, <1>3, <1>7, <1>8 DEF FinishVisit

LEMMA NextDeserved == IInv /\ Deserved /\ [Next]_vars => Deserved'
<1> SUFFICES ASSUME IInv, Deserved, [Next]_vars PROVE Deserved'
  OBVIOUS
<1>1. CASE \E tag \in Tag : VisitRoot(tag)
  <2>1. PICK tag \in Tag : VisitRoot(tag)
    BY <1>1
  <2>2. tag \in DOMAIN plugins /\ active = << >> /\ UNCHANGED << plugins, depths >> /\ Visit(tag)
    BY <2>1 DEF VisitRoot, IInv, TypeOK
  <2>3. QED
    BY <2>2, VisitDeserved
<1>2. CASE \E tag \in Tag : VisitCallee(tag)
  <2>1. PICK tag \in Tag : VisitCallee(tag)
    BY <1>2
  <2>2. /\ tag \in active[Len(active)].todo /\ active # << >>
        /\ UNCHANGED << plugins, depths >> /\ Visit(tag)
    BY <2>1 DEF VisitCallee
  <2>3. Len(active) \in 1 .. Len(active) /\ AllKnown
    BY <2>2, FramesKnown, EmptySeq DEF IInv, Stacked
  <2>4. tag \in DOMAIN plugins
    BY <2>2, <2>3, FramesKnown DEF AllKnown
  <2>5. QED
    BY <2>2, <2>4, VisitDeserved
<1>3. CASE FinishVisit
  BY <1>3, FinishDeserved
<1>4. CASE UNCHANGED << plugins, active, depths >>
  <2>1. PICK G : G = CallGraph
    OBVIOUS
  <2>2. QED
    BY <1>4, <2>1, DeservedNext DEF Deserved, Done
<1> QED
  BY <1>1, <1>2, <1>3, <1>4
     DEF Next, Validate, RejectUnknown, Accept, Enter, CallPlugin, Return, vars

LEMMA PromiseChains ==
  ASSUME NEW k
  PROVE  Promise!StartsChain(k) = Chains(Tag, CallGraph, k)
  BY Zenon DEF Promise!StartsChain, Promise!Iterate, Promise!Refs, Chains, Iterate, Longer, Above,
               RefsIn, CallGraph

LEMMA PromiseIterate ==
  ASSUME NEW step, NEW start, NEW n
  PROVE  Promise!Iterate(step, start, n) = Iterate(step, start, n)
  BY Zenon DEF Promise!Iterate, Iterate

LEMMA PromiseCardinality == Promise!Cardinality(Tag) = Cardinality(Tag)
  BY Zenon DEF Promise!Cardinality, Cardinality

LEMMA PromiseReached == Promise!Reached = ReachOf(Tag, CallGraph, DOMAIN plugins)
<1>1. \A x : Promise!Refs(x) = RefsIn(CallGraph, x)
  BY Zenon DEF Promise!Refs, RefsIn, CallGraph
<1>2. \A T : {Promise!Refs(x) : x \in T} = {RefsIn(CallGraph, x) : x \in T}
  BY <1>1
<1>3. [T \in SUBSET Tag |-> T \cup UNION {Promise!Refs(x) : x \in T}] = Further(Tag, CallGraph)
  BY <1>2 DEF Further
<1>4. QED
  BY <1>3, PromiseIterate, PromiseCardinality, Zenon DEF Promise!Reached, ReachOf

(* The reasons of ChainCheck, in terms of the call graph. *)
LEMMA PromiseReasons ==
  ASSUME TypeOK
  PROVE  /\ Promise!Unknown <=> ~(ReachOf(Tag, CallGraph, DOMAIN plugins) \subseteq DOMAIN plugins)
         /\ Promise!TooDeep <=> DOMAIN plugins \cap Chains(Tag, CallGraph, MaxDepth) # {}
         /\ Promise!Cyclic <=> ReachOf(Tag, CallGraph, DOMAIN plugins)
                                 \cap Chains(Tag, CallGraph, Cardinality(Tag)) # {}
<1>1. DOMAIN [x \in DOMAIN plugins |-> Calls(x)] = DOMAIN plugins
  OBVIOUS
<1>2. Promise!Unknown <=> ~(ReachOf(Tag, CallGraph, DOMAIN plugins) \subseteq DOMAIN plugins)
  BY <1>1, PromiseReached, Zenon DEF Promise!Unknown
<1>3. Promise!TooDeep <=> DOMAIN plugins \cap Chains(Tag, CallGraph, MaxDepth) # {}
  BY PromiseChains, Zenon DEF Promise!TooDeep
<1>4. Promise!Cyclic <=> ReachOf(Tag, CallGraph, DOMAIN plugins)
                           \cap Chains(Tag, CallGraph, Cardinality(Tag)) # {}
  BY PromiseChains, PromiseReached, PromiseCardinality, Zenon DEF Promise!Cyclic
<1>5. QED
  BY <1>2, <1>3, <1>4

LEMMA PromiseVerdicts ==
  ASSUME NEW v \in {"ok", "unknown", "deep", "cycle"},
         v = "ok" => ~Promise!Unknown /\ ~Promise!TooDeep /\ ~Promise!Cyclic,
         v = "unknown" => Promise!Unknown, v = "deep" => Promise!TooDeep,
         v = "cycle" => Promise!Cyclic
  PROVE  v \in Promise!Verdicts
  BY DEF Promise!Verdicts

(* The plugins are the roots: they are reached. *)
LEMMA PluginsReached ==
  ASSUME TypeOK
  PROVE  /\ DOMAIN plugins \subseteq ReachOf(Tag, CallGraph, DOMAIN plugins)
         /\ \A x \in DOMAIN plugins : Calls(x) \subseteq ReachOf(Tag, CallGraph, DOMAIN plugins)
<1>1. IsFiniteSet(Tag) /\ DOMAIN plugins \in SUBSET Tag /\ Graph(Tag, CallGraph)
  BY PluginGraphAssumption, CallGraphFacts DEF TypeOK
<1>2. PICK A : A = ReachOf(Tag, CallGraph, DOMAIN plugins)
  OBVIOUS
<1>3. DOMAIN plugins \subseteq A /\ \A x \in A : RefsIn(CallGraph, x) \subseteq A
  BY <1>1, <1>2, ReachClosed
<1>4. QED
  BY <1>2, <1>3, CallGraphFacts

(* The stack is a way through the graph. *)
LEMMA StackWay ==
  ASSUME IInv, Deserved, NEW s, s = [i \in 1 .. Len(active) |-> active[i].tag]
  PROVE  /\ Way(Tag, CallGraph, s, Len(active))
         /\ \A i \in 1 .. Len(active) : s[i] = active[i].tag /\ s[i] \in DOMAIN plugins
<1>1. TypeOK
  BY DEF IInv
<1>2. PICK n \in Nat : n = Len(active)
  BY FramesKnown
<1>3. \A i \in 1 .. n : s[i] = active[i].tag /\ s[i] \in DOMAIN plugins
  BY <1>2, FramesKnown
<1>4. \A i \in 1 .. n : s[i] \in Tag
  BY <1>1, <1>3 DEF TypeOK
<1>5. ASSUME NEW i \in 1 .. n - 1 PROVE s[i + 1] \in RefsIn(CallGraph, s[i])
  <2>1. i \in 1 .. n /\ i + 1 \in 1 .. n
    OBVIOUS
  <2>2. active[i + 1].tag \in active[i].todo
    BY <1>2 DEF Deserved, Linked
  <2>3. active[i].todo \subseteq Calls(active[i].tag)
    BY <1>2, <2>1, FramesKnown
  <2>4. s[i + 1] \in Calls(s[i])
    BY <1>3, <2>1, <2>2, <2>3
  <2>5. QED
    BY <1>1, <1>3, <2>1, <2>4, CallGraphFacts
<1>6. QED
  BY <1>2, <1>3, <1>4, <1>5 DEF Way

(* Rejected by visit_plugin: the stack and the plugin visited show why. *)
LEMMA VisitRejects ==
  ASSUME IInv, Deserved, NEW tag \in DOMAIN plugins, Visit(tag), verdict' # verdict,
         active # << >> => tag \in active[Len(active)].todo
  PROVE  \/ verdict' = "cycle" /\ Promise!Cyclic
         \/ verdict' = "deep" /\ Promise!TooDeep
<1>1. TypeOK /\ tag \in Tag
  BY DEF IInv, TypeOK
<1>2. PICK n \in Nat : n = Len(active)
  BY FramesKnown
<1>3. PICK s : s = [i \in 1 .. Len(active) |-> active[i].tag]
  OBVIOUS
<1>4. Way(Tag, CallGraph, s, n) /\ \A i \in 1 .. n : s[i] = active[i].tag /\ s[i] \in DOMAIN plugins
  BY <1>2, <1>3, StackWay
<1>5. n # 0 => tag \in RefsIn(CallGraph, s[n])
  <2>1. SUFFICES ASSUME n # 0 PROVE tag \in RefsIn(CallGraph, s[n])
    OBVIOUS
  <2>2. n \in 1 .. n /\ active # << >>
    BY <1>2, <2>1
  <2>3. tag \in Calls(s[n])
    BY <1>2, <1>4, <2>2, FramesKnown
  <2>4. QED
    BY <1>1, <1>4, <2>2, <2>3, CallGraphFacts
<1>6. CASE verdict' = "cycle" /\ OnStack(tag)
  <2>1. PICK i \in 1 .. n : s[i] = tag
    BY <1>2, <1>4, <1>6 DEF OnStack
  <2>2. PICK k \in Nat : k = Cardinality(Tag)
    BY PluginGraphAssumption, FS_CardinalityType
  <2>3. tag \in Chains(Tag, CallGraph, k)
    <3>1. n # 0
      BY <2>1
    <3>2. s[i] \in RefsIn(CallGraph, s[n])
      BY <1>5, <2>1, <3>1
    <3>3. QED
      BY <1>4, <2>1, <3>2, WayCycles
  <2>4. tag \in ReachOf(Tag, CallGraph, DOMAIN plugins)
    BY <1>1, PluginsReached
  <2>5. QED
    BY <1>1, <1>6, <2>2, <2>3, <2>4, PromiseReasons
<1>7. CASE verdict' = "deep" /\ Len(active) >= MaxDepth
  <2>1. n = MaxDepth /\ n \in Nat \ {0} /\ n \in 1 .. n
    BY <1>1, <1>2, <1>7, PluginGraphAssumption DEF TypeOK
  <2>2. s[n] \in Chains(Tag, CallGraph, 1)
    <3>1. Chains(Tag, CallGraph, 1) = Above(Tag, CallGraph, Chains(Tag, CallGraph, 0))
      BY ChainsNext
    <3>2. tag \in Chains(Tag, CallGraph, 0)
      BY <1>1, ChainsZero
    <3>3. s[n] \in Tag /\ tag \in RefsIn(CallGraph, s[n])
      BY <1>4, <1>5, <2>1 DEF Way
    <3>4. QED
      BY <3>1, <3>2, <3>3 DEF Above
  <2>3. s[1] \in Chains(Tag, CallGraph, 1 + (n - 1))
    BY <1>4, <2>1, <2>2, WayChains
  <2>4. 1 + (n - 1) = MaxDepth /\ s[1] \in DOMAIN plugins
    BY <1>4, <2>1
  <2>5. QED
    BY <1>1, <1>7, <2>3, <2>4, PromiseReasons
<1>8. QED
  BY <1>6, <1>7 DEF Visit

(* Rejected at the end of a visit: the depth counted is that of a chain. *)
LEMMA FinishRejects ==
  ASSUME IInv, Deserved, FinishVisit, verdict' # verdict
  PROVE  verdict' = "deep" /\ Promise!TooDeep
<1>1. TypeOK /\ MaxDepth \in Nat
  BY PluginGraphAssumption DEF IInv
<1>2. PICK n \in Nat \ {0} : n = Len(active) /\ active \in Seq(Frame)
  BY FramesKnown, EmptySeq DEF FinishVisit
<1>3. PICK f \in Frame : f = active[n] /\ Long(CallGraph, f) /\ f.tag \in DOMAIN plugins
  BY <1>2, FramesKnown DEF Deserved
<1>4. verdict' = "deep" /\ f.depth > MaxDepth
  BY <1>2, <1>3 DEF FinishVisit
<1>5. PICK k \in Nat : k = f.depth - 1 /\ MaxDepth \in 0 .. k
  BY <1>1, <1>3, <1>4 DEF Frame
<1>6. f.tag \in Chains(Tag, CallGraph, MaxDepth)
  <2>1. Chains(Tag, CallGraph, k) \subseteq Chains(Tag, CallGraph, MaxDepth)
    BY <1>5, ChainsShorter
  <2>2. QED
    BY <1>3, <1>5, <2>1 DEF Long
<1>7. QED
  BY <1>1, <1>3, <1>4, <1>6, PromiseReasons

LEMMA UnknownRejects ==
  ASSUME IInv, RejectUnknown
  PROVE  verdict' = "unknown" /\ Promise!Unknown
<1>1. TypeOK /\ verdict' = "unknown" /\ ~AllKnown
  BY DEF IInv, RejectUnknown
<1>2. PICK x \in DOMAIN plugins : ~(Calls(x) \subseteq DOMAIN plugins)
  BY <1>1 DEF AllKnown
<1>3. Calls(x) \subseteq ReachOf(Tag, CallGraph, DOMAIN plugins)
  BY <1>1, PluginsReached
<1>4. QED
  BY <1>1, <1>2, <1>3, PromiseReasons

(* Accepted: the depths rank the calls, so that no chain is endless, and   *)
(* bound the chains.                                                       *)
LEMMA AcceptRight ==
  ASSUME IInv, Accept
  PROVE  verdict' = "ok" /\ ~Promise!Unknown /\ ~Promise!TooDeep /\ ~Promise!Cyclic
<1>1. /\ TypeOK /\ MemoRanksCalls /\ verdict' = "ok" /\ AllKnown /\ active = << >> /\ roots = {}
      /\ verdict = "none"
  BY DEF IInv, Accept
<1>2. DOMAIN plugins = Done
  <2>1. Len(active) = 0
    BY <1>1
  <2>2. \A x : ~OnStack(x)
    BY <2>1 DEF OnStack
  <2>3. DOMAIN plugins \subseteq Done
    BY <1>1, <2>2 DEF IInv, Covered
  <2>4. Done \subseteq DOMAIN plugins
    BY <1>1 DEF TypeOK
  <2>5. QED
    BY <2>3, <2>4
<1>3. PICK G : G = CallGraph
  OBVIOUS
<1>4. /\ Graph(Tag, G) /\ DOMAIN G = DOMAIN plugins
      /\ \A x \in DOMAIN plugins : G[x] = Calls(x) /\ RefsIn(G, x) = Calls(x)
  BY <1>1, <1>3, CallGraphFacts
<1>5. \A x \in DOMAIN plugins : /\ depths[x] \in Nat \ {0} /\ depths[x] <= MaxDepth
                                /\ Calls(x) \subseteq DOMAIN plugins
                                /\ \A y \in Calls(x) : depths[y] < depths[x]
  BY <1>1, <1>2, FramesKnown DEF MemoRanksCalls
<1>6. DOMAIN plugins \subseteq Sound(Tag, G)
  <2>0. PICK D : D = {depths[x] : x \in DOMAIN plugins \ Sound(Tag, G)}
    OBVIOUS
  <2>1. SUFFICES ASSUME D # {} PROVE FALSE
    BY <2>0
  <2>2. D \subseteq Nat
    BY <1>5, <2>0
  <2>3. PICK d \in D : \A e \in D : d <= e
    BY <2>1, <2>2, Least
  <2>4. PICK x \in DOMAIN plugins : x \notin Sound(Tag, G) /\ depths[x] = d
    BY <2>0
  <2>5. ASSUME NEW y \in Calls(x) PROVE y \in Sound(Tag, G)
    <3>1. y \in DOMAIN plugins /\ depths[y] < depths[x] /\ depths[y] \in Nat /\ depths[x] \in Nat
      BY <1>5, <2>4
    <3>2. depths[y] \notin D
      BY <2>2, <2>3, <2>4, <3>1
    <3>3. QED
      BY <2>0, <3>1, <3>2
  <2>6. x \in DOMAIN G /\ G[x] \subseteq Sound(Tag, G)
    BY <1>4, <2>4, <2>5
  <2>7. QED
    BY <1>4, <2>4, <2>6, SoundStep
<1>7. /\ ReachOf(Tag, G, DOMAIN plugins) \subseteq DOMAIN plugins
      /\ ReachOf(Tag, G, DOMAIN plugins) \cap Chains(Tag, G, Cardinality(Tag)) = {}
  <2>1. IsFiniteSet(Tag)
    BY PluginGraphAssumption
  <2>2. QED
    BY <1>4, <1>6, <2>1, SoundRoots
<1>8. DOMAIN plugins \cap Chains(Tag, G, MaxDepth) = {}
  <2>1. PICK M \in Nat : M = MaxDepth
    BY PluginGraphAssumption
  <2>2. PICK P : P = {k \in 0 .. M : \A x \in DOMAIN plugins \cap Chains(Tag, G, k) : depths[x] > k}
    OBVIOUS
  <2>3. 0 \in P
    BY <1>5, <2>2
  <2>4. ASSUME NEW k \in 1 .. M, k - 1 \in P PROVE k \in P
    <3>1. SUFFICES ASSUME NEW x \in DOMAIN plugins, x \in Chains(Tag, G, k) PROVE depths[x] > k
      BY <2>2
    <3>2. Chains(Tag, G, k) = Above(Tag, G, Chains(Tag, G, k - 1))
      <4>1. k \in Nat \ {0}
        OBVIOUS
      <4>2. QED
        BY <4>1, ChainsBefore
    <3>3. PICK y \in Calls(x) : y \in Chains(Tag, G, k - 1)
      BY <1>4, <3>1, <3>2 DEF Above
    <3>4. y \in DOMAIN plugins /\ depths[y] < depths[x] /\ depths[y] \in Nat /\ depths[x] \in Nat
      BY <1>5, <3>1, <3>3
    <3>5. depths[y] > k - 1
      BY <2>2, <2>4, <3>3, <3>4
    <3>6. QED
      BY <3>4, <3>5
  <2>5. M \in P
    BY <2>3, <2>4, UpTo
  <2>6. QED
    BY <1>5, <2>1, <2>2, <2>5
<1>9. QED
  BY <1>1, <1>3, <1>7, <1>8, PromiseReasons

LEMMA RefineVerdict == IInv /\ Deserved /\ [Next]_vars => [Promise!Decide]_(Promise!vars)
<1> SUFFICES ASSUME IInv, Deserved, [Next]_vars PROVE [Promise!Decide]_(Promise!vars)
  OBVIOUS
<1>1. UNCHANGED plugins
  BY DEF Next, Validate, RejectUnknown, VisitRoot, VisitCallee, FinishVisit, Accept,
         Enter, CallPlugin, Return, vars
<1>2. UNCHANGED << [x \in DOMAIN plugins |-> Calls(x)], DOMAIN plugins >>
  BY <1>1 DEF Calls
<1>3. CASE UNCHANGED verdict
  BY <1>2, <1>3 DEF Promise!vars
<1>4. CASE verdict' # verdict
  <2>1. verdict = "none"
    BY <1>4 DEF Next, Validate, RejectUnknown, VisitRoot, VisitCallee, FinishVisit, Accept,
                Enter, CallPlugin, Return, vars
  <2>2. /\ verdict' \in {"ok", "unknown", "deep", "cycle"}
        /\ verdict' = "ok" => ~Promise!Unknown /\ ~Promise!TooDeep /\ ~Promise!Cyclic
        /\ verdict' = "unknown" => Promise!Unknown
        /\ verdict' = "deep" => Promise!TooDeep
        /\ verdict' = "cycle" => Promise!Cyclic
    <3>1. CASE RejectUnknown
      BY <3>1, UnknownRejects
    <3>2. CASE Accept
      BY <3>2, AcceptRight
    <3>3. CASE FinishVisit
      BY <1>4, <3>3, FinishRejects
    <3>4. CASE \E tag \in Tag : VisitRoot(tag) \/ VisitCallee(tag)
      <4>1. PICK tag \in Tag : VisitRoot(tag) \/ VisitCallee(tag)
        BY <3>4
      <4>2. Visit(tag) /\ (active # << >> => tag \in active[Len(active)].todo)
        BY <4>1 DEF VisitRoot, VisitCallee
      <4>3. tag \in DOMAIN plugins
        <5>1. CASE VisitRoot(tag)
          BY <5>1 DEF VisitRoot, IInv, TypeOK
        <5>2. CASE VisitCallee(tag)
          <6>1. active # << >> /\ tag \in active[Len(active)].todo
            BY <5>2 DEF VisitCallee
          <6>2. Len(active) \in 1 .. Len(active) /\ AllKnown
            BY <6>1, FramesKnown, EmptySeq DEF IInv, Stacked
          <6>3. QED
            BY <6>1, <6>2, FramesKnown DEF AllKnown
        <5>3. QED
          BY <4>1, <5>1, <5>2
      <4>4. QED
        BY <1>4, <4>2, <4>3, VisitRejects
    <3>5. QED
      BY <1>4, <3>1, <3>2, <3>3, <3>4 DEF Next, Validate, Enter, CallPlugin, Return, vars
  <2>3. verdict' \in Promise!Verdicts
    BY <2>2, PromiseVerdicts
  <2>4. verdict' # "none"
    BY <2>2
  <2>5. QED
    BY <1>2, <2>1, <2>3, <2>4 DEF Promise!Decide
<1>5. QED
  BY <1>3, <1>4

(* validate_plugin_graph implements ChainCheck, but for the promise to     *)
(* end: whatever the calls and in whatever order the plugins come, it      *)
(* accepts only graphs without a fault, and names a fault that is there.   *)
THEOREM VerdictCorrect == Spec => Promise!Safety
<1>1. Init => Promise!Init /\ Deserved
  <2>1. SUFFICES ASSUME Init PROVE Promise!Init /\ Deserved
    OBVIOUS
  <2>2. active = << >> /\ Done = {} /\ verdict = "none"
    BY <2>1 DEF Init, Done
  <2>3. QED
    BY <2>2 DEF Promise!Init, Deserved, Linked
<1>2. IInv /\ Deserved /\ [Next]_vars => Deserved' /\ [Promise!Decide]_(Promise!vars)
  BY NextDeserved, RefineVerdict
<1>3. QED
  BY <1>1, <1>2, Invariance, PTL DEF Spec, Promise!Safety

-----------------------------------------------------------------------------
(* ConfigLoad.  While files are being loaded, each one on the stack has    *)
(* merged the text of the includes it is through with: the level of the    *)
(* text falls with the place on the stack.                                 *)

(* One round of Lines. *)
LineAt(f, tr, x, below, n) ==
  IF n = 0 THEN << x >> ELSE f[n - 1] \o below[Canon[tr[x].include[n]]]

LinesTo(tr, x, below, n) ==
  /\ Lines(tr, x, below)[0] = << x >>
  /\ \A i \in 1 .. n :
       Lines(tr, x, below)[i] = Lines(tr, x, below)[i - 1] \o below[Canon[tr[x].include[i]]]

LEMMA LinesRounds ==
  ASSUME NEW tr, NEW x, NEW below, NEW n \in Nat, n = Len(tr[x].include)
  PROVE  LinesTo(tr, x, below, n)
<1>2. PICK P : P = {i \in 0 .. n : \E f : f = [j \in 0 .. i |-> LineAt(f, tr, x, below, j)]}
  OBVIOUS
<1>3. 0 \in P
  <2>1. PICK f : f = [j \in 0 .. 0 |-> << x >>]
    OBVIOUS
  <2>2. f = [j \in 0 .. 0 |-> LineAt(f, tr, x, below, j)]
    BY <2>1 DEF LineAt
  <2>3. QED
    BY <1>2, <2>2
<1>4. ASSUME NEW i \in 1 .. n, i - 1 \in P PROVE i \in P
  <2>1. PICK f : f = [j \in 0 .. (i - 1) |-> LineAt(f, tr, x, below, j)]
    BY <1>2, <1>4
  <2>2. PICK g : g = [j \in 0 .. i |-> IF j = i THEN LineAt(f, tr, x, below, i) ELSE f[j]]
    OBVIOUS
  <2>3. \A j \in 0 .. i : g[j] = LineAt(g, tr, x, below, j)
    <3>1. SUFFICES ASSUME NEW j \in 0 .. i PROVE g[j] = LineAt(g, tr, x, below, j)
      OBVIOUS
    <3>2. \A m \in 0 .. (i - 1) : g[m] = f[m]
      BY <2>2
    <3>3. j # 0 => g[j - 1] = f[j - 1]
      BY <3>1, <3>2
    <3>4. LineAt(g, tr, x, below, j) = LineAt(f, tr, x, below, j)
      BY <3>1, <3>3 DEF LineAt
    <3>5. CASE j = i
      BY <2>2, <3>4, <3>5
    <3>6. CASE j # i
      <4>1. j \in 0 .. (i - 1)
        BY <3>6
      <4>2. f[j] = LineAt(f, tr, x, below, j)
        BY <2>1, <4>1
      <4>3. QED
        BY <3>2, <3>4, <4>1, <4>2
    <3>7. QED
      BY <3>5, <3>6
  <2>4. g = [j \in 0 .. i |-> LineAt(g, tr, x, below, j)]
    BY <2>2, <2>3
  <2>5. QED
    BY <1>2, <2>4
<1>5. n \in P
  BY <1>3, <1>4, UpTo
<1>6. PICK f : f = [i \in 0 .. n |-> LineAt(f, tr, x, below, i)]
  BY <1>2, <1>5
<1>7. PICK g : g = (CHOOSE h : h = [i \in 0 .. Len(tr[x].include) |-> LineAt(h, tr, x, below, i)])
  OBVIOUS
<1>8. g = [i \in 0 .. n |-> LineAt(g, tr, x, below, i)]
  BY <1>6, <1>7
<1>9. Lines(tr, x, below) = g
  <2>1. Lines(tr, x, below) = (CHOOSE h : h = [i \in 0 .. Len(tr[x].include) |-> LineAt(h, tr, x, below, i)])
    BY Zenon DEF Lines, LineAt
  <2>2. QED
    BY <1>7, <2>1, Zenon
<1>10. \A i \in 0 .. n : g[i] = LineAt(g, tr, x, below, i)
  BY <1>8
<1>11. 0 \in 0 .. n /\ LineAt(g, tr, x, below, 0) = << x >>
  BY DEF LineAt
<1>12. ASSUME NEW i \in 1 .. n PROVE g[i] = g[i - 1] \o below[Canon[tr[x].include[i]]]
  <2>1. i \in 0 .. n /\ i # 0
    OBVIOUS
  <2>2. LineAt(g, tr, x, below, i) = g[i - 1] \o below[Canon[tr[x].include[i]]]
    BY <2>1, Zenon DEF LineAt
  <2>3. QED
    BY <1>10, <2>1, <2>2, Zenon
<1>13. QED
  BY <1>9, <1>10, <1>11, <1>12, Zenon DEF LinesTo

(* One level of Texts. *)
TextAt(f, tr, d) ==
  IF d = 0 THEN [x \in File |-> << x >>]
  ELSE [x \in File |-> Lines(tr, x, f[d - 1])[Len(tr[x].include)]]

LEMMA TextsLevels ==
  ASSUME NEW tr
  PROVE  \A d \in 1 .. MaxIncludeDepth : \A x \in File :
           Texts(tr)[d][x] = Lines(tr, x, Texts(tr)[d - 1])[Len(tr[x].include)]
<1>1. PICK n \in Nat : n = MaxIncludeDepth
  BY ConfigLoadAssumption
<1>2. PICK P : P = {i \in 0 .. n : \E f : f = [j \in 0 .. i |-> TextAt(f, tr, j)]}
  OBVIOUS
<1>3. 0 \in P
  <2>1. PICK f : f = [j \in 0 .. 0 |-> [x \in File |-> << x >>]]
    OBVIOUS
  <2>2. f = [j \in 0 .. 0 |-> TextAt(f, tr, j)]
    BY <2>1 DEF TextAt
  <2>3. QED
    BY <1>2, <2>2
<1>4. ASSUME NEW i \in 1 .. n, i - 1 \in P PROVE i \in P
  <2>1. PICK f : f = [j \in 0 .. (i - 1) |-> TextAt(f, tr, j)]
    BY <1>2, <1>4
  <2>2. PICK g : g = [j \in 0 .. i |-> IF j = i THEN TextAt(f, tr, i) ELSE f[j]]
    OBVIOUS
  <2>3. \A j \in 0 .. i : g[j] = TextAt(g, tr, j)
    <3>1. SUFFICES ASSUME NEW j \in 0 .. i PROVE g[j] = TextAt(g, tr, j)
      OBVIOUS
    <3>2. \A m \in 0 .. (i - 1) : g[m] = f[m]
      BY <2>2
    <3>3. j # 0 => g[j - 1] = f[j - 1]
      BY <3>1, <3>2
    <3>4. TextAt(g, tr, j) = TextAt(f, tr, j)
      BY <3>1, <3>3 DEF TextAt
    <3>5. CASE j = i
      BY <2>2, <3>4, <3>5
    <3>6. CASE j # i
      <4>1. j \in 0 .. (i - 1)
        BY <3>6
      <4>2. f[j] = TextAt(f, tr, j)
        BY <2>1, <4>1
      <4>3. QED
        BY <3>2, <3>4, <4>1, <4>2
    <3>7. QED
      BY <3>5, <3>6
  <2>4. g = [j \in 0 .. i |-> TextAt(g, tr, j)]
    BY <2>2, <2>3
  <2>5. QED
    BY <1>2, <2>4
<1>5. n \in P
  BY <1>3, <1>4, UpTo
<1>6. PICK f : f = [i \in 0 .. n |-> TextAt(f, tr, i)]
  BY <1>2, <1>5
<1>7. PICK g : g = (CHOOSE h : h = [i \in 0 .. MaxIncludeDepth |-> TextAt(h, tr, i)])
  OBVIOUS
<1>8. g = [i \in 0 .. n |-> TextAt(g, tr, i)]
  BY <1>1, <1>6, <1>7
<1>9. Texts(tr) = g
  <2>1. Texts(tr) = (CHOOSE h : h = [i \in 0 .. MaxIncludeDepth |-> TextAt(h, tr, i)])
    BY Zenon DEF Texts, TextAt
  <2>2. QED
    BY <1>7, <2>1, Zenon
<1>10. \A i \in 0 .. n : g[i] = TextAt(g, tr, i)
  BY <1>8
<1>11. SUFFICES ASSUME NEW d \in 1 .. n, NEW x \in File
                PROVE  g[d][x] = Lines(tr, x, g[d - 1])[Len(tr[x].include)]
  BY <1>1, <1>9, Zenon
<1>12. d \in 0 .. n /\ d # 0
  OBVIOUS
<1>13. TextAt(g, tr, d) = [y \in File |-> Lines(tr, y, g[d - 1])[Len(tr[y].include)]]
  BY <1>12, Zenon DEF TextAt
<1>14. QED
  BY <1>10, <1>12, <1>13, Zenon

(* What is merged so far of file x stands for `text`. *)
Merged(tr, x, cfg, text) ==
  /\ cfg.plugins = text /\ cfg.servers = text /\ FirstApi(tr, text, cfg.api) /\ cfg.log = x

LoadedConfig == [plugins : Seq(File), servers : Seq(File), api : File \cup {Absent}, log : File]

LoadFrame == [file : File, todo : Seq(Name), cfg : LoadedConfig]

(* The includes of a frame that are merged or being loaded. *)
Passed(tr, f) == Len(tr[f.file].include) - Len(f.todo)

(* The include graph: the files that parse and what they lead to. *)
Node == File \cup {"gone"}
Leads(tr, x) == {Canon[n] : n \in Range(tr[x].include)}
IncludeGraph(tr) == [x \in {y \in File : tr[y].valid} |-> Leads(tr, x)]

(* No chain of includes from x fails, or has more than k members. *)
Clear(tr, x, k) == x \in Sound(Node, IncludeGraph(tr)) /\ x \notin Chains(Node, IncludeGraph(tr), k)

Cleared(tr, x, k, n) == \A j \in 1 .. n : Clear(tr, Canon[tr[x].include[j]], k)

(* What a frame has left is the end of its file's list. *)
Rest(tr, f) ==
  /\ tr[f.file].valid
  /\ Passed(tr, f) \in 0 .. Len(tr[f.file].include)
  /\ \A j \in 1 .. Len(f.todo) : f.todo[j] = tr[f.file].include[Passed(tr, f) + j]

(* The frame at place i has merged n includes, and found nothing wrong. *)
Holds(tr, i, f, n) ==
  /\ Merged(tr, f.file, f.cfg, Lines(tr, f.file, Texts(tr)[MaxIncludeDepth - i])[n])
  /\ Cleared(tr, f.file, MaxIncludeDepth - i, n)

(* The frame f at place i waits for file x. *)
Waits(tr, i, f, x) ==
  /\ Rest(tr, f) /\ Passed(tr, f) >= 1
  /\ Canon[tr[f.file].include[Passed(tr, f)]] = x
  /\ Holds(tr, i, f, Passed(tr, f) - 1)

Works(tr, i, f) == Rest(tr, f) /\ Holds(tr, i, f, Passed(tr, f))

StackOK(tr, st) ==
  /\ st \in Seq(LoadFrame) /\ Len(st) <= MaxIncludeDepth
  /\ st # << >> => st[1].file = Main /\ Works(tr, Len(st), st[Len(st)])
  /\ \A i \in 1 .. Len(st) - 1 : Waits(tr, i, st[i], st[i + 1].file)

LoadInv ==
  /\ tree \in Trees
  /\ outcome = "none" => StackOK(tree, stack)
  /\ MergedInOrder

LEMMA FirstApiOf ==
  ASSUME NEW tr, NEW p \in Seq(File), NEW q \in Seq(File), NEW a, NEW b,
         FirstApi(tr, p, a), FirstApi(tr, q, b)
  PROVE  FirstApi(tr, p \o q, IF a = Absent THEN b ELSE a)
<1>1. /\ p \o q \in Seq(File) /\ Len(p \o q) = Len(p) + Len(q)
      /\ \A i \in 1 .. Len(p) : (p \o q)[i] = p[i]
      /\ \A i \in 1 .. Len(q) : (p \o q)[Len(p) + i] = q[i]
  OBVIOUS
<1>2. PICK r : r = p \o q
  OBVIOUS
<1>3. CASE a = Absent
  <2>1. \A i \in 1 .. Len(p) : ~tr[r[i]].api
    <3>1. ~ \E i \in 1 .. Len(p) : a = p[i]
      BY <1>3, ConfigLoadAssumption
    <3>2. \A i \in 1 .. Len(p) : ~tr[p[i]].api
      BY <3>1 DEF FirstApi
    <3>3. QED
      BY <1>1, <1>2, <3>2
  <2>2. CASE b = Absent /\ \A i \in 1 .. Len(q) : ~tr[q[i]].api
    <3>1. \A i \in 1 .. Len(r) : ~tr[r[i]].api
      <4>1. SUFFICES ASSUME NEW i \in 1 .. Len(r) PROVE ~tr[r[i]].api
        OBVIOUS
      <4>2. CASE i <= Len(p)
        BY <2>1, <4>2
      <4>3. CASE i > Len(p)
        <5>1. i - Len(p) \in 1 .. Len(q) /\ Len(p) + (i - Len(p)) = i
          BY <1>1, <1>2, <4>3
        <5>2. r[i] = q[i - Len(p)]
          BY <1>1, <1>2, <5>1
        <5>3. QED
          BY <2>2, <5>1, <5>2
      <4>4. QED
        BY <4>2, <4>3
    <3>2. QED
      BY <1>2, <1>3, <2>2, <3>1 DEF FirstApi
  <2>3. CASE \E i \in 1 .. Len(q) : /\ tr[q[i]].api /\ b = q[i]
                                    /\ \A j \in 1 .. i - 1 : ~tr[q[j]].api
    <3>1. PICK i \in 1 .. Len(q) : /\ tr[q[i]].api /\ b = q[i]
                                   /\ \A j \in 1 .. i - 1 : ~tr[q[j]].api
      BY <2>3
    <3>2. Len(p) + i \in 1 .. Len(r) /\ r[Len(p) + i] = q[i]
      BY <1>1, <1>2
    <3>3. \A j \in 1 .. (Len(p) + i) - 1 : ~tr[r[j]].api
      <4>1. SUFFICES ASSUME NEW j \in 1 .. (Len(p) + i) - 1 PROVE ~tr[r[j]].api
        OBVIOUS
      <4>2. CASE j <= Len(p)
        BY <2>1, <4>2
      <4>3. CASE j > Len(p)
        <5>1. j - Len(p) \in 1 .. i - 1 /\ j - Len(p) \in 1 .. Len(q) /\ Len(p) + (j - Len(p)) = j
          BY <4>3
        <5>2. r[j] = q[j - Len(p)]
          BY <1>1, <1>2, <5>1
        <5>3. QED
          BY <3>1, <5>1, <5>2
      <4>4. QED
        BY <4>2, <4>3
    <3>4. QED
      BY <1>2, <1>3, <3>1, <3>2, <3>3 DEF FirstApi
  <2>4. QED
    BY <2>2, <2>3 DEF FirstApi
<1>4. CASE a # Absent
  <2>1. PICK i \in 1 .. Len(p) : /\ tr[p[i]].api /\ a = p[i]
                                 /\ \A j \in 1 .. i - 1 : ~tr[p[j]].api
    BY <1>4 DEF FirstApi
  <2>2. i \in 1 .. Len(r) /\ r[i] = p[i] /\ \A j \in 1 .. i - 1 : r[j] = p[j]
    BY <1>1, <1>2
  <2>3. QED
    BY <1>2, <1>4, <2>1, <2>2 DEF FirstApi
<1>5. QED
  BY <1>3, <1>4

(* Config::merge appends the text of the file included. *)
LEMMA MergeText ==
  ASSUME NEW tr, NEW x, NEW y, NEW c \in LoadedConfig, NEW e \in LoadedConfig, NEW t, NEW u,
         Merged(tr, x, c, t), Merged(tr, y, e, u)
  PROVE  Merge(c, e) \in LoadedConfig /\ Merged(tr, x, Merge(c, e), t \o u)
<1>1. /\ c.plugins = t /\ c.servers = t /\ FirstApi(tr, t, c.api) /\ c.log = x
      /\ e.plugins = u /\ e.servers = u /\ FirstApi(tr, u, e.api)
  BY DEF Merged
<1>2. t \in Seq(File) /\ u \in Seq(File) /\ c.api \in File \cup {Absent} /\ e.api \in File \cup {Absent}
      /\ x \in File
  BY <1>1 DEF LoadedConfig
<1>3. PICK a : a = IF c.api = Absent THEN e.api ELSE c.api
  OBVIOUS
<1>4. PICK r \in Seq(File) : r = t \o u
  BY <1>2, ConcatProperties, Zenon
<1>5. FirstApi(tr, r, a)
  BY <1>1, <1>2, <1>3, <1>4, FirstApiOf
<1>6. PICK m : m = Merge(c, e)
  OBVIOUS
<1>7. m = [c EXCEPT !.plugins = r, !.servers = r, !.api = a]
  BY <1>1, <1>3, <1>4, <1>6 DEF Merge
<1>8. m \in LoadedConfig /\ m.plugins = r /\ m.servers = r /\ m.api = a /\ m.log = x
  BY <1>1, <1>2, <1>3, <1>7 DEF LoadedConfig
<1>9. QED
  BY <1>4, <1>5, <1>6, <1>8 DEF Merged

LEMMA OwnText ==
  ASSUME NEW f \in File
  PROVE  Own(f) \in LoadedConfig /\ Merged(tree, f, Own(f), << f >>)
<1>1. PICK a : a = IF tree[f].api THEN f ELSE Absent
  OBVIOUS
<1>2. PICK m : m = Own(f)
  OBVIOUS
<1>3. m = [plugins |-> << f >>, servers |-> << f >>, api |-> a, log |-> f]
  BY <1>1, <1>2 DEF Own
<1>4. << f >> \in Seq(File) /\ a \in File \cup {Absent}
  BY <1>1
<1>5. m \in LoadedConfig /\ m.plugins = << f >> /\ m.servers = << f >> /\ m.api = a /\ m.log = f
  BY <1>3, <1>4 DEF LoadedConfig
<1>6. FirstApi(tree, << f >>, a)
  BY <1>1 DEF FirstApi
<1>7. QED
  BY <1>2, <1>5, <1>6 DEF Merged

LEMMA TreeFacts ==
  ASSUME tree \in Trees, NEW x \in File
  PROVE  tree[x] \in Content /\ tree[x].include \in Seq(Name) /\ Len(tree[x].include) \in Nat
<1>1. tree[x] \in Content
  BY ConfigLoadAssumption
<1>2. QED
  BY <1>1 DEF Content

(* A file is opened: nothing of its list is merged. *)
LEMMA OpenedWorks ==
  ASSUME tree \in Trees, NEW i, NEW x \in File, tree[x].valid,
         NEW f, f = [file |-> x, todo |-> tree[x].include, cfg |-> Own(x)]
  PROVE  f \in LoadFrame /\ f.file = x /\ Works(tree, i, f)
<1>1. PICK inc \in Seq(Name) : inc = tree[x].include
  BY TreeFacts
<1>2. PICK c \in LoadedConfig : c = Own(x) /\ Merged(tree, x, c, << x >>)
  BY OwnText
<1>3. f \in LoadFrame /\ f.file = x /\ f.todo = inc /\ f.cfg = c
  BY <1>1, <1>2 DEF LoadFrame
<1>4. Passed(tree, f) = 0
  BY <1>1, <1>3 DEF Passed
<1>5. Rest(tree, f)
  BY <1>1, <1>3, <1>4 DEF Rest
<1>6. PICK b : b = Texts(tree)[MaxIncludeDepth - i]
  OBVIOUS
<1>7. Lines(tree, x, b)[0] = << x >>
  BY TreeFacts, LinesRounds DEF LinesTo
<1>8. Holds(tree, i, f, 0)
  <2>1. Cleared(tree, x, MaxIncludeDepth - i, 0)
    BY DEF Cleared
  <2>2. QED
    BY <1>2, <1>3, <1>6, <1>7, <2>1, Zenon DEF Holds
<1>9. QED
  BY <1>3, <1>4, <1>5, <1>8, Zenon DEF Works

(* The next include is taken from the list. *)
LEMMA TakenWaits ==
  ASSUME tree \in Trees, NEW i, NEW f \in LoadFrame, Works(tree, i, f), f.todo # << >>,
         NEW g, g = [f EXCEPT !.todo = Tail(f.todo)]
  PROVE  /\ g \in LoadFrame /\ g.file = f.file /\ Head(f.todo) \in Name
         /\ Waits(tree, i, g, Canon[Head(f.todo)])
<1>1. PICK x \in File : x = f.file
  BY DEF LoadFrame
<1>2. PICK inc \in Seq(Name) : inc = tree[x].include
  BY TreeFacts
<1>3. PICK k \in 0 .. Len(inc) : k = Passed(tree, f)
  BY <1>1, <1>2 DEF Works, Rest
<1>4. PICK s \in Seq(Name) : s = f.todo
  BY DEF LoadFrame
<1>5. s # << >> /\ Len(s) = Len(inc) - k /\ \A j \in 1 .. Len(s) : s[j] = inc[k + j]
  <2>1. k = Len(inc) - Len(s)
    BY <1>1, <1>2, <1>3, <1>4, Zenon DEF Passed
  <2>2. \A j \in 1 .. Len(f.todo) : f.todo[j] = tree[f.file].include[Passed(tree, f) + j]
    BY Zenon DEF Works, Rest
  <2>3. \A j \in 1 .. Len(s) : s[j] = inc[k + j]
    BY <1>1, <1>2, <1>3, <1>4, <2>2, Zenon
  <2>4. QED
    BY <1>4, <2>1, <2>3
<1>6. PICK t \in Seq(Name) : t = Tail(s)
  BY <1>5, HeadTailProperties, Zenon
<1>7. g \in LoadFrame /\ g.file = x /\ g.todo = t /\ g.cfg = f.cfg
  BY <1>1, <1>4, <1>6 DEF LoadFrame
<1>8. Len(t) = Len(s) - 1 /\ Head(s) = s[1] /\ s[1] \in Name /\ \A j \in 1 .. Len(t) : t[j] = s[j + 1]
  BY <1>4, <1>6
<1>9. k + 1 \in 1 .. Len(inc) /\ Head(s) = inc[k + 1] /\ Len(t) = Len(inc) - (k + 1)
  BY <1>5, <1>8
<1>10. \A j \in 1 .. Len(t) : t[j] = inc[(k + 1) + j]
  <2>1. SUFFICES ASSUME NEW j \in 1 .. Len(t) PROVE t[j] = inc[(k + 1) + j]
    OBVIOUS
  <2>2. j + 1 \in 1 .. Len(s) /\ k + (j + 1) = (k + 1) + j
    BY <1>8, <2>1
  <2>3. t[j] = s[j + 1] /\ s[j + 1] = inc[k + (j + 1)]
    BY <1>5, <1>8, <2>2
  <2>4. QED
    BY <2>2, <2>3
<1>11. Passed(tree, g) = k + 1
  <2>1. Passed(tree, g) = Len(inc) - Len(t)
    BY <1>2, <1>7, Zenon DEF Passed
  <2>2. QED
    BY <1>9, <2>1
<1>12. Rest(tree, g)
  <2>1. k + 1 \in 0 .. Len(inc) /\ tree[x].valid
    BY <1>1, <1>9 DEF Works, Rest
  <2>2. QED
    BY <1>2, <1>7, <1>10, <1>11, <2>1, Zenon DEF Rest
<1>13. Holds(tree, i, f, k)
  BY <1>3 DEF Works
<1>14. Holds(tree, i, g, k)
  BY <1>1, <1>7, <1>13, Zenon DEF Holds
<1>15. Passed(tree, g) - 1 = k /\ Passed(tree, g) >= 1
  BY <1>11
<1>16. Canon[tree[g.file].include[Passed(tree, g)]] = Canon[Head(f.todo)]
  BY <1>2, <1>4, <1>7, <1>9, <1>11, Zenon
<1>17. QED
  BY <1>1, <1>4, <1>7, <1>8, <1>12, <1>14, <1>15, <1>16, Zenon DEF Waits

(* The stack st waits for the file of name. *)
Awaits(tr, st, name) ==
  /\ st \in Seq(LoadFrame)
  /\ st = << >> => Canon[name] = Main
  /\ st # << >> => st[1].file = Main /\ Waits(tr, Len(st), st[Len(st)], Canon[name])
  /\ \A i \in 1 .. Len(st) - 1 : Waits(tr, i, st[i], st[i + 1].file)

LEMMA LoadKeeps ==
  ASSUME tree \in Trees, outcome = "none", NEW name \in Name, NEW st, Awaits(tree, st, name),
         Load(name, st), stack' = stack => StackOK(tree, stack)
  PROVE  outcome' # "ok" /\ (outcome' = "none" => StackOK(tree, stack'))
<1>1. CASE outcome' \in {"deep", "unknown", "cycle"}
  BY <1>1
<1>2. CASE /\ Len(st) < MaxIncludeDepth /\ Canon[name] # "gone" /\ tree[Canon[name]].valid
           /\ stack' = Append(st, [file |-> Canon[name], todo |-> tree[Canon[name]].include,
                                   cfg |-> Own(Canon[name])])
           /\ UNCHANGED outcome
  <2>1. PICK x \in File : x = Canon[name]
    BY <1>2, ConfigLoadAssumption
  <2>2. PICK f : f = [file |-> x, todo |-> tree[x].include, cfg |-> Own(x)]
    OBVIOUS
  <2>3. PICK n \in Nat : n = Len(st) /\ st \in Seq(LoadFrame)
    BY DEF Awaits
  <2>4. f \in LoadFrame /\ f.file = x /\ Works(tree, n + 1, f)
    BY <1>2, <2>1, <2>2, OpenedWorks
  <2>5. PICK r \in Seq(LoadFrame) : r = Append(st, f)
    BY <2>3, <2>4, AppendProperties, Zenon
  <2>6. /\ stack' = r /\ Len(r) = n + 1 /\ r[n + 1] = f /\ \A i \in 1 .. n : r[i] = st[i]
    BY <1>2, <2>1, <2>2, <2>3, <2>5
  <2>7. r[1].file = Main
    BY <2>1, <2>3, <2>4, <2>6 DEF Awaits
  <2>8. \A i \in 1 .. n : Waits(tree, i, r[i], r[i + 1].file)
    <3>1. SUFFICES ASSUME NEW i \in 1 .. n PROVE Waits(tree, i, r[i], r[i + 1].file)
      OBVIOUS
    <3>2. CASE i = n
      <4>1. st # << >> /\ r[i] = st[i] /\ r[i + 1].file = x
        BY <2>3, <2>4, <2>6, <3>1, <3>2
      <4>2. Waits(tree, n, st[n], x)
        BY <2>1, <2>3, <4>1 DEF Awaits
      <4>3. QED
        BY <3>2, <4>1, <4>2
    <3>3. CASE i # n
      <4>1. i \in 1 .. n - 1 /\ r[i] = st[i] /\ r[i + 1] = st[i + 1]
        BY <2>6, <3>1, <3>3
      <4>2. Waits(tree, i, st[i], st[i + 1].file)
        BY <2>3, <4>1 DEF Awaits
      <4>3. QED
        BY <4>1, <4>2
    <3>4. QED
      BY <3>2, <3>3
  <2>9. StackOK(tree, r)
    <3>1. Len(r) - 1 = n /\ Len(r) <= MaxIncludeDepth
      BY <1>2, <2>3, <2>6, ConfigLoadAssumption
    <3>2. QED
      BY <2>4, <2>5, <2>6, <2>7, <2>8, <3>1 DEF StackOK
  <2>10. QED
    BY <1>2, <2>6, <2>9
<1>3. QED
  BY <1>1, <1>2 DEF Load

LEMMA LoadFileKeeps ==
  ASSUME LoadInv, LoadFile
  PROVE  LoadInv'
<1>1. tree \in Trees /\ outcome = "none" /\ stack = << >> /\ UNCHANGED tree
  BY DEF LoadInv, LoadFile
<1>2. PICK name \in Name : Canon[name] = Main /\ Load(name, << >>)
  BY <1>1 DEF LoadFile
<1>3. Awaits(tree, << >>, name)
  BY <1>2 DEF Awaits
<1>4. StackOK(tree, stack)
  BY <1>1 DEF LoadInv
<1>5. outcome' # "ok" /\ (outcome' = "none" => StackOK(tree, stack'))
  BY <1>1, <1>2, <1>3, <1>4, LoadKeeps
<1>6. QED
  BY <1>1, <1>5 DEF LoadInv, MergedInOrder

(* load_contents takes a name: the stack waits for its file. *)
LEMMA IncludeAwaits ==
  ASSUME LoadInv, Include
  PROVE  \E name \in Name : \E st : /\ Awaits(tree, st, name) /\ Load(name, st) /\ Len(stack) = Len(st)
                                    /\ \A i \in 1 .. Len(st) : stack[i].file = st[i].file
<1>1. tree \in Trees /\ outcome = "none" /\ stack # << >> /\ UNCHANGED tree /\ StackOK(tree, stack)
  BY DEF LoadInv, Include
<1>2. PICK n \in Nat \ {0} : n = Len(stack) /\ stack \in Seq(LoadFrame)
  BY <1>1 DEF StackOK
<1>3. PICK f \in LoadFrame : f = stack[n] /\ f = Last(stack)
  BY <1>2 DEF Last
<1>4. PICK g : g = [f EXCEPT !.todo = Tail(f.todo)]
  OBVIOUS
<1>5. f.todo # << >>
  BY <1>3 DEF Include
<1>6. Works(tree, n, f)
  BY <1>1, <1>2, <1>3 DEF StackOK
<1>7. g \in LoadFrame /\ g.file = f.file /\ Head(f.todo) \in Name /\ Waits(tree, n, g, Canon[Head(f.todo)])
  BY <1>1, <1>4, <1>5, <1>6, TakenWaits
<1>8. PICK st : st = [stack EXCEPT ![n] = g]
  OBVIOUS
<1>9. [stack EXCEPT ![Len(stack)].todo = Tail(@)] = st
  BY <1>2, <1>3, <1>4, <1>8
<1>10. PICK name \in Name : name = Head(f.todo)
  BY <1>7
<1>11. Load(name, st)
  BY <1>3, <1>9, <1>10 DEF Include
<1>12. /\ st \in Seq(LoadFrame) /\ Len(st) = n /\ st[n] = g
       /\ \A i \in 1 .. n - 1 : st[i] = stack[i]
  BY <1>2, <1>7, <1>8
<1>13. st[1].file = Main
  <2>1. stack[1].file = Main
    BY <1>1 DEF StackOK
  <2>2. CASE n = 1
    BY <1>3, <1>7, <1>12, <2>1, <2>2
  <2>3. CASE n # 1
    BY <1>12, <2>1, <2>3
  <2>4. QED
    BY <2>2, <2>3
<1>14. \A i \in 1 .. n - 1 : Waits(tree, i, st[i], st[i + 1].file)
  <2>1. SUFFICES ASSUME NEW i \in 1 .. n - 1 PROVE Waits(tree, i, st[i], st[i + 1].file)
    OBVIOUS
  <2>2. Waits(tree, i, stack[i], stack[i + 1].file)
    BY <1>1, <1>2 DEF StackOK
  <2>3. st[i + 1].file = stack[i + 1].file
    <3>1. CASE i + 1 = n
      BY <1>3, <1>7, <1>12, <3>1
    <3>2. CASE i + 1 # n
      BY <1>12, <3>2
    <3>3. QED
      BY <3>1, <3>2
  <2>4. QED
    BY <1>12, <2>2, <2>3
<1>15. Awaits(tree, st, name)
  <2>1. st # << >>
    BY <1>12
  <2>2. QED
    BY <1>7, <1>10, <1>12, <1>13, <1>14, <2>1 DEF Awaits
<1>16. \A i \in 1 .. n : stack[i].file = st[i].file
  <2>1. SUFFICES ASSUME NEW i \in 1 .. n PROVE stack[i].file = st[i].file
    OBVIOUS
  <2>2. CASE i = n
    BY <1>3, <1>7, <1>12, <2>2
  <2>3. CASE i # n
    BY <1>12, <2>3
  <2>4. QED
    BY <2>2, <2>3
<1>17. QED
  BY <1>2, <1>11, <1>12, <1>15, <1>16

LEMMA IncludeKeeps ==
  ASSUME LoadInv, Include
  PROVE  LoadInv'
<1>1. tree \in Trees /\ outcome = "none" /\ UNCHANGED tree /\ StackOK(tree, stack)
  BY DEF LoadInv, Include
<1>2. PICK name, st : name \in Name /\ Awaits(tree, st, name) /\ Load(name, st)
  BY IncludeAwaits
<1>3. outcome' # "ok" /\ (outcome' = "none" => StackOK(tree, stack'))
  BY <1>1, <1>2, LoadKeeps
<1>4. QED
  BY <1>1, <1>3 DEF LoadInv, MergedInOrder

(* A file whose list is empty stands for its whole text. *)
LEMMA WholeText ==
  ASSUME tree \in Trees, NEW i \in 1 .. MaxIncludeDepth, NEW f \in LoadFrame, Works(tree, i, f),
         f.todo = << >>
  PROVE  Merged(tree, f.file, f.cfg, Texts(tree)[(MaxIncludeDepth - i) + 1][f.file])
<1>1. PICK x \in File : x = f.file
  BY DEF LoadFrame
<1>2. PICK inc \in Seq(Name) : inc = tree[x].include
  BY TreeFacts
<1>3. PICK M \in Nat : M = MaxIncludeDepth
  BY ConfigLoadAssumption
<1>4. PICK d \in 1 .. M : d = (M - i) + 1 /\ d - 1 = M - i
  BY <1>3
<1>5. Passed(tree, f) = Len(inc)
  <2>1. Passed(tree, f) = Len(inc) - 0
    BY <1>1, <1>2 DEF Passed
  <2>2. QED
    BY <2>1
<1>6. Holds(tree, i, f, Len(inc))
  BY <1>5 DEF Works
<1>7. Merged(tree, x, f.cfg, Lines(tree, x, Texts(tree)[d - 1])[Len(inc)])
  BY <1>1, <1>3, <1>4, <1>6, Zenon DEF Holds
<1>8. Texts(tree)[d][x] = Lines(tree, x, Texts(tree)[d - 1])[Len(inc)]
  BY <1>2, <1>3, TextsLevels, Zenon
<1>9. QED
  BY <1>1, <1>3, <1>4, <1>7, <1>8, Zenon

LEMMA IncludeGraphFacts ==
  ASSUME tree \in Trees
  PROVE  /\ Graph(Node, IncludeGraph(tree)) /\ IsFiniteSet(Node) /\ "gone" \notin DOMAIN IncludeGraph(tree)
         /\ \A x \in File : x \in DOMAIN IncludeGraph(tree) <=> tree[x].valid
         /\ \A x \in File : tree[x].valid =>
              /\ RefsIn(IncludeGraph(tree), x) = IncludeGraph(tree)[x]
              /\ \A y : y \in IncludeGraph(tree)[x]
                          <=> \E j \in 1 .. Len(tree[x].include) : y = Canon[tree[x].include[j]]
<1>1. PICK G : G = IncludeGraph(tree)
  OBVIOUS
<1>2. DOMAIN G = {x \in File : tree[x].valid} /\ \A x \in DOMAIN G : G[x] = Leads(tree, x)
  BY <1>1 DEF IncludeGraph
<1>3. \A x \in DOMAIN G : RefsIn(G, x) = G[x]
  BY DEF RefsIn
<1>4. ASSUME NEW x \in File, NEW y
      PROVE  y \in Leads(tree, x) <=> \E j \in 1 .. Len(tree[x].include) : y = Canon[tree[x].include[j]]
  <2>1. PICK inc \in Seq(Name) : inc = tree[x].include
    BY TreeFacts
  <2>2. DOMAIN inc = 1 .. Len(inc)
    BY <2>1
  <2>3. Range(inc) = {inc[j] : j \in 1 .. Len(inc)}
    BY <2>2 DEF Range
  <2>4. QED
    BY <2>1, <2>3 DEF Leads
<1>5. ASSUME NEW x \in File PROVE Leads(tree, x) \subseteq Node
  <2>1. PICK inc \in Seq(Name) : inc = tree[x].include
    BY TreeFacts
  <2>2. \A j \in 1 .. Len(inc) : inc[j] \in Name
    BY <2>1
  <2>3. \A n \in Name : Canon[n] \in Node
    BY ConfigLoadAssumption DEF Node
  <2>4. QED
    BY <1>4, <2>1, <2>2, <2>3
<1>6. Graph(Node, G)
  BY <1>2, <1>5 DEF Graph, Node
<1>7. IsFiniteSet(Node)
  BY ConfigLoadAssumption, FS_Singleton, FS_Union DEF Node
<1>8. "gone" \notin File
  BY ConfigLoadAssumption
<1>9. QED
  BY <1>1, <1>2, <1>3, <1>4, <1>6, <1>7, <1>8

(* A file whose includes are clear is clear, one level further up. *)
LEMMA WholeClear ==
  ASSUME tree \in Trees, NEW i \in 1 .. MaxIncludeDepth, NEW f \in LoadFrame, Works(tree, i, f),
         f.todo = << >>
  PROVE  Clear(tree, f.file, (MaxIncludeDepth - i) + 1)
<1>1. PICK x \in File : x = f.file
  BY DEF LoadFrame
<1>2. PICK inc \in Seq(Name) : inc = tree[x].include
  BY TreeFacts
<1>3. PICK k \in Nat : k = MaxIncludeDepth - i
  BY ConfigLoadAssumption
<1>4. Passed(tree, f) = Len(inc)
  <2>1. Passed(tree, f) = Len(inc) - 0
    BY <1>1, <1>2 DEF Passed
  <2>2. QED
    BY <2>1
<1>5. Holds(tree, i, f, Len(inc)) /\ tree[x].valid
  BY <1>1, <1>4 DEF Works, Rest
<1>6. Cleared(tree, x, k, Len(inc))
  BY <1>1, <1>3, <1>5, Zenon DEF Holds
<1>7. \A j \in 1 .. Len(inc) : Clear(tree, Canon[inc[j]], k)
  BY <1>2, <1>6, Zenon DEF Cleared
<1>8. PICK G : G = IncludeGraph(tree)
  OBVIOUS
<1>9. /\ Graph(Node, G) /\ x \in DOMAIN G /\ RefsIn(G, x) = G[x]
      /\ \A y : y \in G[x] <=> \E j \in 1 .. Len(inc) : y = Canon[inc[j]]
  BY <1>2, <1>5, <1>8, IncludeGraphFacts
<1>10. \A y \in G[x] : y \in Sound(Node, G) /\ y \notin Chains(Node, G, k)
  BY <1>7, <1>8, <1>9 DEF Clear
<1>11. x \in Sound(Node, G)
  BY <1>9, <1>10, SoundStep
<1>12. x \notin Chains(Node, G, k + 1)
  <2>1. k + 1 \in Nat /\ RefsIn(G, x) \cap Chains(Node, G, k) = {}
    BY <1>9, <1>10
  <2>2. QED
    BY <2>1, ChainsBounded
<1>13. QED
  BY <1>1, <1>3, <1>8, <1>11, <1>12 DEF Clear

LEMMA FinishKeeps ==
  ASSUME LoadInv, Finish
  PROVE  LoadInv'
<1>1. tree \in Trees /\ outcome = "none" /\ stack # << >> /\ UNCHANGED tree /\ StackOK(tree, stack)
  BY DEF LoadInv, Finish
<1>2. PICK n \in Nat \ {0} : n = Len(stack) /\ stack \in Seq(LoadFrame) /\ n <= MaxIncludeDepth
  BY <1>1 DEF StackOK
<1>3. PICK f \in LoadFrame : f = stack[n] /\ f = Last(stack)
  BY <1>2 DEF Last
<1>4. f.todo = << >>
  BY <1>3 DEF Finish
<1>5. Works(tree, n, f)
  BY <1>1, <1>2, <1>3 DEF StackOK
<1>6. PICK M \in Nat : M = MaxIncludeDepth
  BY ConfigLoadAssumption
<1>7. n \in 1 .. M
  BY <1>2, <1>6
<1>8. PICK u : u = Texts(tree)[(M - n) + 1][f.file] /\ Merged(tree, f.file, f.cfg, u)
  BY <1>1, <1>4, <1>5, <1>6, <1>7, WholeText
<1>clear. Clear(tree, f.file, (M - n) + 1)
  BY <1>1, <1>4, <1>5, <1>6, <1>7, WholeClear
<1>9. CASE n = 1
  <2>1. loaded' = << f.cfg >> /\ outcome' = "ok"
    BY <1>2, <1>3, <1>9 DEF Finish
  <2>2. f.file = Main
    BY <1>1, <1>2, <1>3, <1>9 DEF StackOK
  <2>3. (M - n) + 1 = M
    BY <1>9
  <2>4. Merged(tree, Main, f.cfg, Texts(tree)[MaxIncludeDepth][Main])
    BY <1>6, <1>8, <2>2, <2>3
  <2>5. PICK c : c = f.cfg
    OBVIOUS
  <2>6. loaded'[1] = c
    BY <2>1, <2>5
  <2>7. MergedInOrder'
    BY <1>1, <2>4, <2>5, <2>6 DEF MergedInOrder, Merged
  <2>8. QED
    BY <1>1, <2>1, <2>7 DEF LoadInv
<1>10. CASE n # 1
  <2>1. PICK m \in Nat \ {0} : m = n - 1 /\ n = m + 1
    BY <1>10
  <2>2. PICK p \in LoadFrame : p = stack[m]
    BY <1>2, <2>1
  <2>3. Waits(tree, m, p, f.file)
    <3>1. m \in 1 .. Len(stack) - 1
      BY <1>2, <2>1
    <3>2. QED
      BY <1>1, <1>3, <2>1, <2>2, <3>1 DEF StackOK
  <2>4. PICK x \in File : x = p.file
    BY <2>2 DEF LoadFrame
  <2>5. PICK inc \in Seq(Name) : inc = tree[x].include
    BY <1>1, TreeFacts
  <2>6. PICK k \in 1 .. Len(inc) : k = Passed(tree, p)
    BY <2>3, <2>4, <2>5 DEF Waits, Rest
  <2>7. PICK b : b = Texts(tree)[MaxIncludeDepth - m]
    OBVIOUS
  <2>8. Merged(tree, x, p.cfg, Lines(tree, x, b)[k - 1])
    BY <2>3, <2>4, <2>6, <2>7, Zenon DEF Waits, Holds
  <2>9. u = b[f.file]
    <3>1. (M - n) + 1 = M - m
      BY <2>1
    <3>2. QED
      BY <1>6, <1>8, <2>7, <3>1, Zenon
  <2>10. Lines(tree, x, b)[k] = Lines(tree, x, b)[k - 1] \o u
    <3>1. Lines(tree, x, b)[k] = Lines(tree, x, b)[k - 1] \o b[Canon[tree[x].include[k]]]
      <4>1. PICK l \in Nat : l = Len(tree[x].include) /\ k \in 1 .. l
        BY <2>5, <2>6
      <4>2. LinesTo(tree, x, b, l)
        BY <4>1, LinesRounds
      <4>3. QED
        BY <4>1, <4>2, Zenon DEF LinesTo
    <3>2. Canon[tree[x].include[k]] = f.file
      BY <2>3, <2>4, <2>6, Zenon DEF Waits
    <3>3. QED
      BY <2>9, <3>1, <3>2, Zenon
  <2>11. PICK c : c = Merge(p.cfg, f.cfg)
    OBVIOUS
  <2>12. c \in LoadedConfig /\ Merged(tree, x, c, Lines(tree, x, b)[k])
    <3>1. p.cfg \in LoadedConfig /\ f.cfg \in LoadedConfig
      BY <1>3, <2>2 DEF LoadFrame
    <3>2. PICK t : t = Lines(tree, x, b)[k - 1]
      OBVIOUS
    <3>3. Merge(p.cfg, f.cfg) \in LoadedConfig /\ Merged(tree, x, Merge(p.cfg, f.cfg), t \o u)
      BY <1>8, <2>8, <3>1, <3>2, MergeText
    <3>4. QED
      BY <2>10, <2>11, <3>2, <3>3, Zenon
  <2>13. PICK q : q = [p EXCEPT !.cfg = c]
    OBVIOUS
  <2>14. q \in LoadFrame /\ q.file = x /\ q.todo = p.todo /\ q.cfg = c
    BY <2>2, <2>4, <2>12, <2>13 DEF LoadFrame
  <2>15. Works(tree, m, q)
    <3>1. Passed(tree, q) = k /\ Rest(tree, p)
      BY <2>3, <2>4, <2>6, <2>14, Zenon DEF Passed, Waits
    <3>2. Rest(tree, q)
      BY <2>4, <2>6, <2>14, <3>1, Zenon DEF Rest
    <3>3. Holds(tree, m, q, k)
      <4>1. PICK e \in Nat : e = MaxIncludeDepth - m /\ e = (M - n) + 1
        BY <1>6, <1>7, <2>1
      <4>2. Cleared(tree, x, e, k - 1)
        BY <2>3, <2>4, <2>6, <4>1, Zenon DEF Waits, Holds
      <4>3. Canon[tree[x].include[k]] = f.file
        BY <2>3, <2>4, <2>6, Zenon DEF Waits
      <4>4. Clear(tree, Canon[tree[x].include[k]], e)
        BY <1>clear, <4>1, <4>3, Zenon
      <4>5. \A j \in 1 .. k : j = k \/ j \in 1 .. (k - 1)
        OBVIOUS
      <4>6. Cleared(tree, x, e, k)
        BY <4>2, <4>4, <4>5, Zenon DEF Cleared
      <4>7. QED
        BY <2>7, <2>12, <2>14, <4>1, <4>6, Zenon DEF Holds
    <3>4. QED
      BY <3>1, <3>2, <3>3, Zenon DEF Works
  <2>16. PICK s \in Seq(LoadFrame) : /\ s = Front(stack) /\ Len(s) = m
                                     /\ \A i \in 1 .. m : s[i] = stack[i]
    <3>1. Front(stack) = SubSeq(stack, 1, m)
      BY <1>2, <2>1 DEF Front
    <3>2. PICK s : s = SubSeq(stack, 1, m)
      OBVIOUS
    <3>3. s \in Seq(LoadFrame) /\ Len(s) = m /\ \A i \in 1 .. m : s[i] = stack[i]
      BY <1>2, <2>1, <3>2
    <3>4. QED
      BY <3>1, <3>2, <3>3
  <2>17. PICK r : r = [s EXCEPT ![m] = q]
    OBVIOUS
  <2>18. stack' = r /\ outcome' = "none"
    <3>1. /\ stack' = [Front(stack) EXCEPT ![Len(stack) - 1].cfg = Merge(@, Last(stack).cfg)]
          /\ UNCHANGED outcome
      BY <1>2, <1>10 DEF Finish
    <3>2. stack' = [s EXCEPT ![m].cfg = Merge(@, f.cfg)]
      BY <1>2, <1>3, <2>1, <2>16, <3>1
    <3>3. s[m] = p /\ m \in DOMAIN s
      BY <2>2, <2>16
    <3>4. stack' = [s EXCEPT ![m] = [p EXCEPT !.cfg = Merge(p.cfg, f.cfg)]]
      BY <3>2, <3>3
    <3>5. QED
      BY <1>1, <2>11, <2>13, <2>17, <3>1, <3>4
  <2>19. /\ r \in Seq(LoadFrame) /\ Len(r) = m /\ r[m] = q
         /\ \A i \in 1 .. m - 1 : r[i] = stack[i]
    BY <2>14, <2>16, <2>17
  <2>20. \A i \in 1 .. m : r[i].file = stack[i].file
    BY <2>2, <2>4, <2>14, <2>19
  <2>21. r # << >> /\ r[1].file = Main
    BY <1>1, <1>2, <2>1, <2>19, <2>20 DEF StackOK
  <2>22. \A i \in 1 .. m - 1 : Waits(tree, i, r[i], r[i + 1].file)
    <3>1. SUFFICES ASSUME NEW i \in 1 .. m - 1 PROVE Waits(tree, i, r[i], r[i + 1].file)
      OBVIOUS
    <3>2. i \in 1 .. Len(stack) - 1 /\ i + 1 \in 1 .. m
      BY <1>2, <2>1
    <3>3. Waits(tree, i, stack[i], stack[i + 1].file)
      BY <1>1, <3>2 DEF StackOK
    <3>4. QED
      BY <2>19, <2>20, <3>2, <3>3
  <2>23. StackOK(tree, r)
    <3>1. Len(r) <= MaxIncludeDepth
      BY <1>2, <1>6, <2>1, <2>19
    <3>2. QED
      BY <2>15, <2>19, <2>21, <2>22, <3>1 DEF StackOK
  <2>24. QED
    BY <1>1, <2>18, <2>23 DEF LoadInv, MergedInOrder
<1>11. QED
  BY <1>9, <1>10

LEMMA LoadNextKeeps == LoadInv /\ [LoadNext]_loadVars => LoadInv'
<1>1. SUFFICES ASSUME LoadInv, [LoadNext]_loadVars PROVE LoadInv'
  OBVIOUS
<1>2. CASE UNCHANGED loadVars
  BY <1>1, <1>2 DEF loadVars, LoadInv, MergedInOrder
<1>3. QED
  BY <1>1, <1>2, LoadFileKeeps, IncludeKeeps, FinishKeeps DEF LoadNext

LEMMA InitLoadInv == LoadInit => LoadInv
<1>1. SUFFICES ASSUME LoadInit PROVE LoadInv
  OBVIOUS
<1>2. tree \in Trees /\ stack = << >> /\ outcome = "none"
  BY <1>1 DEF LoadInit
<1>3. StackOK(tree, << >>)
  BY ConfigLoadAssumption DEF StackOK
<1>4. QED
  BY <1>2, <1>3 DEF LoadInv, MergedInOrder

(* Whatever the files contain and however they include each other: an      *)
(* accepted configuration is the text with every include replaced.         *)
THEOREM MergeCorrect == LoadSpec => []MergedInOrder
<1>1. LoadInv => MergedInOrder
  BY DEF LoadInv
<1>2. QED
  BY <1>1, InitLoadInv, LoadNextKeeps, PTL DEF LoadSpec

(* What ChainCheck says of the include graph. *)
LEMMA IncludeRefs ==
  ASSUME NEW x
  PROVE  IncludeCheck!Refs(x) = RefsIn(IncludeGraph(tree), x)
  BY Zenon DEF IncludeCheck!Refs, RefsIn, IncludeGraph, Leads

LEMMA IncludeIterate ==
  ASSUME NEW step, NEW start, NEW n
  PROVE  IncludeCheck!Iterate(step, start, n) = Iterate(step, start, n)
  BY Zenon DEF IncludeCheck!Iterate, Iterate

LEMMA IncludeCardinality == IncludeCheck!Cardinality(Node) = Cardinality(Node)
  BY Zenon DEF IncludeCheck!Cardinality, Cardinality

LEMMA IncludeChains ==
  ASSUME NEW k
  PROVE  IncludeCheck!StartsChain(k) = Chains(Node, IncludeGraph(tree), k)
<1>1. \A T : {x \in Node : IncludeCheck!Refs(x) \cap T # {}} = Above(Node, IncludeGraph(tree), T)
  BY IncludeRefs DEF Above
<1>2. [T \in SUBSET Node |-> {x \in Node : IncludeCheck!Refs(x) \cap T # {}}] = Longer(Node, IncludeGraph(tree))
  BY <1>1 DEF Longer
<1>3. QED
  BY <1>2, IncludeIterate, Zenon DEF IncludeCheck!StartsChain, Chains, Node

LEMMA IncludeReached == IncludeCheck!Reached = ReachOf(Node, IncludeGraph(tree), {Main})
<1>1. \A T : {IncludeCheck!Refs(x) : x \in T} = {RefsIn(IncludeGraph(tree), x) : x \in T}
  BY IncludeRefs
<1>2. [T \in SUBSET Node |-> T \cup UNION {IncludeCheck!Refs(x) : x \in T}] = Further(Node, IncludeGraph(tree))
  BY <1>1 DEF Further
<1>3. QED
  BY <1>2, IncludeIterate, IncludeCardinality, Zenon DEF IncludeCheck!Reached, ReachOf, Node

LEMMA IncludeReasons ==
  ASSUME tree \in Trees, NEW G, G = IncludeGraph(tree)
  PROVE  /\ IncludeCheck!Unknown <=> ~(ReachOf(Node, G, {Main}) \subseteq DOMAIN G)
         /\ IncludeCheck!TooDeep <=> {Main} \cap Chains(Node, G, MaxIncludeDepth) # {}
         /\ IncludeCheck!Cyclic <=> ReachOf(Node, G, {Main}) \cap Chains(Node, G, Cardinality(Node)) # {}
<1>1. IncludeCheck!Unknown <=> ~(ReachOf(Node, G, {Main}) \subseteq DOMAIN G)
  BY IncludeReached, Zenon DEF IncludeCheck!Unknown, IncludeGraph, Leads
<1>2. IncludeCheck!TooDeep <=> {Main} \cap Chains(Node, G, MaxIncludeDepth) # {}
  BY IncludeChains, Zenon DEF IncludeCheck!TooDeep
<1>3. IncludeCheck!Cyclic <=> ReachOf(Node, G, {Main}) \cap Chains(Node, G, Cardinality(Node)) # {}
  BY IncludeChains, IncludeReached, IncludeCardinality, Zenon DEF IncludeCheck!Cyclic, Node
<1>4. QED
  BY <1>1, <1>2, <1>3

LEMMA IncludeVerdicts ==
  ASSUME NEW v \in {"ok", "unknown", "deep", "cycle"},
         v = "ok" => ~IncludeCheck!Unknown /\ ~IncludeCheck!TooDeep /\ ~IncludeCheck!Cyclic,
         v = "unknown" => IncludeCheck!Unknown, v = "deep" => IncludeCheck!TooDeep,
         v = "cycle" => IncludeCheck!Cyclic
  PROVE  v \in IncludeCheck!Verdicts
  BY DEF IncludeCheck!Verdicts

(* The files on the stack are a way through the include graph, and the     *)
(* next one is referred to by the last.                                    *)
LEMMA IncludeWay ==
  ASSUME tree \in Trees, NEW G, G = IncludeGraph(tree), NEW name \in Name, NEW st, Awaits(tree, st, name),
         NEW n \in Nat, n = Len(st), NEW s, s = [i \in 1 .. n + 1 |-> IF i = n + 1 THEN Canon[name] ELSE st[i].file]
  PROVE  Way(Node, G, s, n + 1) /\ s[1] = Main /\ s[n + 1] = Canon[name] /\ \A i \in 1 .. n : s[i] = st[i].file
<1>1. s[n + 1] = Canon[name] /\ \A i \in 1 .. n : s[i] = st[i].file
  OBVIOUS
<1>2. \A i \in 1 .. n : st[i] \in LoadFrame
  BY DEF Awaits
<1>3. \A i \in 1 .. n : s[i] \in File
  BY <1>1, <1>2 DEF LoadFrame
<1>4. Canon[name] \in Node
  BY ConfigLoadAssumption DEF Node
<1>5. \A i \in 1 .. n + 1 : s[i] \in Node
  <2>1. \A i \in 1 .. n + 1 : i = n + 1 \/ i \in 1 .. n
    OBVIOUS
  <2>2. \A i \in 1 .. n : s[i] \in Node
    BY <1>3, Zenon DEF Node
  <2>3. s[n + 1] \in Node
    BY <1>1, <1>4, Zenon
  <2>4. QED
    BY <2>1, <2>2, <2>3, Zenon
<1>6. s[1] = Main
  <2>1. CASE n = 0
    <3>1. n + 1 = 1
      BY <2>1
    <3>2. st = << >>
      BY <2>1, EmptySeq DEF Awaits
    <3>3. Canon[name] = Main
      BY <3>2, Zenon DEF Awaits
    <3>4. QED
      BY <1>1, <3>1, <3>3
  <2>2. CASE n # 0
    <3>1. st # << >> /\ 1 \in 1 .. n
      BY <2>2
    <3>2. QED
      BY <1>1, <3>1 DEF Awaits
  <2>3. QED
    BY <2>1, <2>2
<1>7. ASSUME NEW i \in 1 .. n PROVE s[i + 1] \in RefsIn(G, s[i])
  <2>1. Waits(tree, i, st[i], s[i + 1])
    <3>1. CASE i = n
      <4>1. st # << >>
        BY <3>1
      <4>2. QED
        BY <1>1, <3>1, <4>1 DEF Awaits
    <3>2. CASE i # n
      <4>1. i \in 1 .. Len(st) - 1 /\ i + 1 \in 1 .. n
        BY <3>2
      <4>2. QED
        BY <1>1, <4>1 DEF Awaits
    <3>3. QED
      BY <3>1, <3>2
  <2>2. PICK x \in File : x = s[i] /\ x = st[i].file
    BY <1>1, <1>3
  <2>3. PICK k : k = Passed(tree, st[i])
    OBVIOUS
  <2>4. tree[x].valid /\ k \in 1 .. Len(tree[x].include) /\ Canon[tree[x].include[k]] = s[i + 1]
    <3>1. PICK l \in Nat : l = Len(tree[x].include)
      BY TreeFacts
    <3>2. tree[x].valid /\ k \in 0 .. l /\ k >= 1 /\ Canon[tree[x].include[k]] = s[i + 1]
      BY <2>1, <2>2, <2>3, <3>1, Zenon DEF Waits, Rest
    <3>3. QED
      BY <3>1, <3>2
  <2>5. QED
    BY <2>2, <2>4, IncludeGraphFacts
<1>8. QED
  BY <1>1, <1>5, <1>6, <1>7 DEF Way

(* Rejected by load_with_stack: the stack and the name show why. *)
LEMMA LoadRejects ==
  ASSUME tree \in Trees, NEW name \in Name, NEW st, Awaits(tree, st, name), Load(name, st),
         Len(stack) = Len(st), \A i \in 1 .. Len(st) : stack[i].file = st[i].file, outcome' # outcome
  PROVE  \/ outcome' = "deep" /\ IncludeCheck!TooDeep
         \/ outcome' = "unknown" /\ IncludeCheck!Unknown
         \/ outcome' = "cycle" /\ IncludeCheck!Cyclic
<1>1. PICK G : G = IncludeGraph(tree)
  OBVIOUS
<1>2. PICK n \in Nat : n = Len(st)
  BY DEF Awaits
<1>3. PICK s : s = [i \in 1 .. n + 1 |-> IF i = n + 1 THEN Canon[name] ELSE st[i].file]
  OBVIOUS
<1>4. /\ Way(Node, G, s, n + 1) /\ s[1] = Main /\ s[n + 1] = Canon[name]
      /\ \A i \in 1 .. n : s[i] = st[i].file
  BY <1>1, <1>2, <1>3, IncludeWay
<1>5. IsFiniteSet(Node) /\ Graph(Node, G) /\ {Main} \in SUBSET Node
  BY <1>1, IncludeGraphFacts, ConfigLoadAssumption DEF Node
<1>6. PICK m \in Nat \ {0} : m = n + 1
  OBVIOUS
<1>7. \A i \in 1 .. m : s[i] \in ReachOf(Node, G, {Main})
  <2>1. Way(Node, G, s, m) /\ s[1] \in {Main}
    BY <1>4, <1>6
  <2>2. QED
    BY <1>5, <2>1, WayReached
<1>8. Canon[name] \in ReachOf(Node, G, {Main})
  <2>1. m \in 1 .. m /\ s[m] = Canon[name]
    BY <1>4, <1>6
  <2>2. QED
    BY <1>7, <2>1, Zenon
<1>9. CASE outcome' = "deep" /\ Len(st) >= MaxIncludeDepth
  <2>1. s[m] \in Chains(Node, G, 0)
    BY <1>4, <1>6, ChainsZero DEF Way
  <2>2. s[1] \in Chains(Node, G, 0 + (m - 1))
    BY <1>4, <1>6, <2>1, WayChains
  <2>3. MaxIncludeDepth \in 0 .. n /\ 0 + (m - 1) = n
    BY <1>2, <1>6, <1>9, ConfigLoadAssumption
  <2>4. Chains(Node, G, n) \subseteq Chains(Node, G, MaxIncludeDepth)
    BY <2>3, ChainsShorter
  <2>5. QED
    BY <1>1, <1>4, <1>9, <2>2, <2>3, <2>4, IncludeReasons
<1>10. CASE outcome' = "unknown" /\ Canon[name] = "gone"
  <2>1. Canon[name] \notin DOMAIN G
    BY <1>1, <1>10, IncludeGraphFacts
  <2>2. QED
    BY <1>1, <1>8, <1>10, <2>1, IncludeReasons
<1>11. CASE outcome' = "unknown" /\ Canon[name] # "gone" /\ ~tree[Canon[name]].valid
  <2>1. Canon[name] \in File
    BY <1>11, ConfigLoadAssumption
  <2>2. Canon[name] \notin DOMAIN G
    BY <1>1, <1>11, <2>1, IncludeGraphFacts
  <2>3. QED
    BY <1>1, <1>8, <1>11, <2>2, IncludeReasons
<1>12. CASE outcome' = "cycle" /\ Including(name)
  <2>1. PICK i \in 1 .. n : stack[i].file = Canon[name]
    BY <1>2, <1>12 DEF Including
  <2>2. s[i] = Canon[name] /\ i \in 1 .. m
    BY <1>2, <1>4, <1>6, <2>1
  <2>3. n \in 1 .. m - 1 /\ n + 1 = m /\ n \in 1 .. n
    BY <1>6, <2>1
  <2>4. Way(Node, G, s, n) /\ s[i] \in RefsIn(G, s[n])
    BY <1>4, <1>6, <2>2, <2>3 DEF Way
  <2>5. PICK k \in Nat : k = Cardinality(Node)
    BY <1>5, FS_CardinalityType
  <2>6. s[i] \in Chains(Node, G, k)
    BY <2>4, WayCycles
  <2>7. QED
    BY <1>1, <1>8, <1>12, <2>2, <2>5, <2>6, IncludeReasons
<1>13. QED
  BY <1>9, <1>10, <1>11, <1>12 DEF Load

(* Accepted: the main file is clear. *)
LEMMA LoadAccepts ==
  ASSUME LoadInv, Finish, outcome' # outcome
  PROVE  outcome' = "ok" /\ ~IncludeCheck!Unknown /\ ~IncludeCheck!TooDeep /\ ~IncludeCheck!Cyclic
<1>1. /\ tree \in Trees /\ StackOK(tree, stack) /\ Len(stack) = 1 /\ outcome' = "ok" /\ stack # << >>
      /\ Last(stack).todo = << >>
  BY DEF LoadInv, Finish
<1>2. PICK f \in LoadFrame : f = stack[1] /\ f = Last(stack)
  BY <1>1 DEF StackOK, Last
<1>3. f.file = Main /\ Works(tree, 1, f) /\ f.todo = << >>
  BY <1>1, <1>2 DEF StackOK
<1>4. PICK M \in Nat \ {0} : M = MaxIncludeDepth /\ (M - 1) + 1 = M /\ 1 \in 1 .. M
  BY ConfigLoadAssumption
<1>5. Clear(tree, Main, M)
  BY <1>1, <1>3, <1>4, WholeClear
<1>6. PICK G : G = IncludeGraph(tree)
  OBVIOUS
<1>7. {Main} \subseteq Sound(Node, G) /\ {Main} \cap Chains(Node, G, MaxIncludeDepth) = {}
  BY <1>4, <1>5, <1>6 DEF Clear
<1>8. IsFiniteSet(Node) /\ Graph(Node, G)
  BY <1>1, <1>6, IncludeGraphFacts
<1>9. /\ ReachOf(Node, G, {Main}) \subseteq DOMAIN G
      /\ ReachOf(Node, G, {Main}) \cap Chains(Node, G, Cardinality(Node)) = {}
  BY <1>7, <1>8, SoundRoots
<1>10. QED
  BY <1>1, <1>6, <1>7, <1>9, IncludeReasons

LEMMA RefineLoad == LoadInv /\ [LoadNext]_loadVars => [IncludeCheck!Decide]_(IncludeCheck!vars)
<1> SUFFICES ASSUME LoadInv, [LoadNext]_loadVars PROVE [IncludeCheck!Decide]_(IncludeCheck!vars)
  OBVIOUS
<1>1. UNCHANGED tree
  BY DEF LoadNext, LoadFile, Include, Finish, loadVars
<1>2. UNCHANGED << [f \in {x \in File : tree[x].valid} |-> {Canon[n] : n \in Range(tree[f].include)}], {Main} >>
  BY <1>1
<1>3. CASE UNCHANGED outcome
  BY <1>2, <1>3 DEF IncludeCheck!vars
<1>4. CASE outcome' # outcome
  <2>1. outcome = "none" /\ tree \in Trees
    BY <1>4 DEF LoadInv, LoadNext, LoadFile, Include, Finish, loadVars
  <2>2. /\ outcome' \in {"ok", "unknown", "deep", "cycle"}
        /\ outcome' = "ok" => ~IncludeCheck!Unknown /\ ~IncludeCheck!TooDeep /\ ~IncludeCheck!Cyclic
        /\ outcome' = "unknown" => IncludeCheck!Unknown
        /\ outcome' = "deep" => IncludeCheck!TooDeep
        /\ outcome' = "cycle" => IncludeCheck!Cyclic
    <3>1. CASE LoadFile
      <4>1. stack = << >>
        BY <3>1 DEF LoadFile
      <4>2. PICK name \in Name : Canon[name] = Main /\ Load(name, << >>)
        BY <3>1, <4>1 DEF LoadFile
      <4>3. Awaits(tree, << >>, name)
        BY <4>2 DEF Awaits
      <4>4. QED
        BY <1>4, <2>1, <4>1, <4>2, <4>3, LoadRejects
    <3>2. CASE Include
      <4>1. PICK name, st : /\ name \in Name /\ Awaits(tree, st, name) /\ Load(name, st) /\ Len(stack) = Len(st)
                            /\ \A i \in 1 .. Len(st) : stack[i].file = st[i].file
        BY <3>2, IncludeAwaits
      <4>2. QED
        BY <1>4, <2>1, <4>1, LoadRejects
    <3>3. CASE Finish
      BY <1>4, <3>3, LoadAccepts
    <3>4. QED
      BY <1>4, <3>1, <3>2, <3>3 DEF LoadNext, loadVars
  <2>3. outcome' \in IncludeCheck!Verdicts
    BY <2>2, IncludeVerdicts
  <2>4. outcome' # "none"
    BY <2>2
  <2>5. QED
    BY <1>2, <2>1, <2>3, <2>4 DEF IncludeCheck!Decide
<1>5. QED
  BY <1>3, <1>4

(* Config::load_file implements ChainCheck, but for the promise to end:    *)
(* whatever the include graph and the spellings in it, a configuration is  *)
(* accepted only when nothing reached is missing, does not parse, goes     *)
(* round or nests too deep, and a rejection names a fault that is there.   *)
THEOREM IncludesCorrect == LoadSpec => IncludeCheck!Safety
<1>1. LoadInit => LoadInv /\ IncludeCheck!Init
  BY InitLoadInv DEF LoadInit, IncludeCheck!Init
<1>2. LoadInv /\ [LoadNext]_loadVars => LoadInv' /\ [IncludeCheck!Decide]_(IncludeCheck!vars)
  BY LoadNextKeeps, RefineLoad
<1>3. QED
  BY <1>1, <1>2, PTL DEF LoadSpec, IncludeCheck!Safety
=============================================================================
