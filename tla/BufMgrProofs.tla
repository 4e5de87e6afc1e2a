--------------------------- MODULE BufMgrProofs ----------------------------
(***************************************************************************)
(* What the functions of tbm_bufmgr.c, and the loops of surfaces over      *)
(* their bos, do to a manager that meets what is expected of it (Meets),   *)
(* and the references, mappings and back pointers that threads and         *)
(* surfaces stand for: lemmas about operators, for SurfaceProofs.tla.      *)
(***************************************************************************)
EXTENDS Surface, ListHeadProofs, FiniteSetTheorems

\* The function that a sum is defined by.
SummedBy(f, it) ==
    it = [s \in SUBSET (DOMAIN f) |->
            IF s = {} THEN 0
            ELSE f[CHOOSE x \in s : TRUE] + it[s \ {CHOOSE x \in s : TRUE}]]

\* The function that a fold over a set is defined by exists: F takes an element
\* and the result for the others.
SetFoldedBy(D, base, F, it) ==
    it = [s \in SUBSET D |->
            IF s = {} THEN base
            ELSE F[<<CHOOSE x \in s : TRUE, it[s \ {CHOOSE x \in s : TRUE}]>>]]

\* Such a function exists where the set is finite.
LEMMA SetFoldExists ==
    ASSUME NEW D, IsFiniteSet(D), NEW S, NEW base \in S, NEW F \in [D \X S -> S]
    PROVE  \E it \in [SUBSET D -> S] : SetFoldedBy(D, base, F, it)
  <1> DEFINE c(s) == CHOOSE x \in s : TRUE
             Upto(n) == {s \in SUBSET D : Cardinality(s) <= n}
             Ok(it, n) == \A s \in Upto(n) :
                            it[s] = IF s = {} THEN base ELSE F[<<c(s), it[s \ {c(s)}]>>]
             P == {n \in Nat : \E it \in [Upto(n) -> S] : Ok(it, n)}
  <1>0. ASSUME NEW s \in SUBSET D
        PROVE  /\ IsFiniteSet(s) /\ Cardinality(s) \in Nat
               /\ s # {} => /\ c(s) \in s /\ s \ {c(s)} \in SUBSET D
                            /\ Cardinality(s \ {c(s)}) = Cardinality(s) - 1
               /\ Cardinality(s) = 0 <=> s = {}
    <2>1. IsFiniteSet(s) /\ Cardinality(s) \in Nat
      BY FS_Subset, FS_CardinalityType
    <2>2. ASSUME s # {} PROVE c(s) \in s
      BY <2>2
    <2>3. ASSUME NEW y \in s PROVE Cardinality(s \ {y}) = Cardinality(s) - 1
      BY <2>1, FS_RemoveElement
    <2>4. Cardinality(s) = 0 <=> s = {}
      BY <2>1, FS_EmptySet
    <2> HIDE DEF c
    <2> QED BY <2>1, <2>2, <2>3, <2>4
  <1>1. 0 \in P
    <2> DEFINE it == [s \in Upto(0) |-> base]
    <2>1. it \in [Upto(0) -> S]
      OBVIOUS
    <2>2. ASSUME NEW s \in Upto(0) PROVE s = {}
      <3>1. s \in SUBSET D /\ Cardinality(s) <= 0
        OBVIOUS
      <3>2. Cardinality(s) \in Nat /\ (Cardinality(s) = 0 <=> s = {})
        BY <1>0, <3>1
      <3> QED BY <3>1, <3>2
    <2>3. Ok(it, 0)
      BY <2>2
    <2> HIDE DEF it
    <2> QED BY <2>1, <2>3
  <1>2. ASSUME NEW n \in Nat, n \in P PROVE n + 1 \in P
    <2> HIDE DEF Ok, Upto
    <2>1. PICK it \in [Upto(n) -> S] : Ok(it, n)
      BY <1>2
    <2> USE DEF Ok, Upto
    <2> DEFINE jt == [s \in Upto(n + 1) |->
                        IF s \in Upto(n) THEN it[s] ELSE F[<<c(s), it[s \ {c(s)}]>>]]
    <2>2. ASSUME NEW s \in Upto(n + 1), s # {}
          PROVE  c(s) \in D /\ s \ {c(s)} \in Upto(n) /\ s \ {c(s)} \in Upto(n + 1)
      <3>1. s \in SUBSET D /\ Cardinality(s) <= n + 1
        OBVIOUS
      <3>2. /\ c(s) \in s /\ s \ {c(s)} \in SUBSET D
            /\ Cardinality(s) \in Nat
            /\ Cardinality(s \ {c(s)}) = Cardinality(s) - 1
        BY <1>0, <2>2
      <3> HIDE DEF c
      <3> QED BY <3>1, <3>2
    <2>3. ASSUME NEW s \in Upto(n + 1), s \notin Upto(n) PROVE s # {}
      <3>1. {} \in SUBSET D /\ Cardinality({}) = 0
        BY FS_EmptySet
      <3>2. {} \in Upto(n)
        BY <3>1
      <3> HIDE DEF Upto
      <3> QED BY <2>3, <3>2
    <2>4. jt \in [Upto(n + 1) -> S]
      <3> SUFFICES ASSUME NEW s \in Upto(n + 1)
                   PROVE  (IF s \in Upto(n) THEN it[s] ELSE F[<<c(s), it[s \ {c(s)}]>>]) \in S
        OBVIOUS
      <3> HIDE DEF c, Upto
      <3> QED BY <2>2, <2>3
    <2>5. ASSUME NEW s \in Upto(n + 1)
          PROVE  jt[s] = IF s = {} THEN base ELSE F[<<c(s), jt[s \ {c(s)}]>>]
      <3>1. CASE s = {}
        <4>1. s \in Upto(n)
          BY <3>1, FS_EmptySet
        <4>2. jt[s] = it[s]
          BY <4>1
        <4>3. it[s] = base
          BY <2>1, <3>1, <4>1
        <4> HIDE DEF jt
        <4> QED BY <3>1, <4>2, <4>3
      <3>2. CASE s # {}
        <4>1. jt[s \ {c(s)}] = it[s \ {c(s)}]
          <5> HIDE DEF c, Upto
          <5> QED BY <2>2, <3>2
        <4>2. jt[s] = F[<<c(s), it[s \ {c(s)}]>>]
          <5>1. s \in Upto(n) => it[s] = F[<<c(s), it[s \ {c(s)}]>>]
            <6> HIDE DEF c, Upto
            <6> QED BY <2>1, <3>2
          <5> HIDE DEF c, Upto
          <5> QED BY <5>1
        <4> HIDE DEF jt, c
        <4> QED BY <3>2, <4>1, <4>2
      <3> QED BY <3>1, <3>2
    <2>6. Ok(jt, n + 1)
      <3> HIDE DEF jt, c, Upto
      <3> QED BY <2>5
    <2> HIDE DEF jt, Ok, Upto
    <2> QED BY <2>4, <2>6
  <1>3. \A n \in Nat : n \in P
    <2> HIDE DEF P
    <2> QED BY <1>1, <1>2, Induct
  <1>4. Cardinality(D) \in Nat /\ \A s \in SUBSET D : Cardinality(s) <= Cardinality(D)
    BY FS_CardinalityType, FS_Subset
  <1>5. Upto(Cardinality(D)) = SUBSET D
    BY <1>4
  <1>6. Cardinality(D) \in P
    <2> HIDE DEF P
    <2> QED BY <1>3, <1>4
  <1>7. PICK it \in [Upto(Cardinality(D)) -> S] : Ok(it, Cardinality(D))
    <2> HIDE DEF Upto, Ok
    <2> QED BY <1>6
  <1>8. it \in [SUBSET D -> S]
    <2> HIDE DEF Upto, Ok
    <2> QED BY <1>5, <1>7
  <1>9. it = [s \in SUBSET D |-> IF s = {} THEN base ELSE F[<<c(s), it[s \ {c(s)}]>>]]
    <2>1. \A s \in SUBSET D : it[s] = IF s = {} THEN base ELSE F[<<c(s), it[s \ {c(s)}]>>]
      <3> HIDE DEF Upto, c
      <3> QED BY <1>5, <1>7
    <2> HIDE DEF Upto, c, P, Ok
    <2> QED BY <1>8, <2>1
  <1> HIDE DEF Upto, P, Ok
  <1> QED BY <1>8, <1>9 DEF SetFoldedBy
\* A sum is defined: its function exists, with integers as values.
LEMMA SumExists ==
    ASSUME NEW D, IsFiniteSet(D), NEW f \in [D -> Int]
    PROVE  \E it \in [SUBSET D -> Int] : SummedBy(f, it)
  <1> DEFINE F == [z \in D \X Int |-> f[z[1]] + z[2]]
             c(s) == CHOOSE x \in s : TRUE
  <1>1. F \in [D \X Int -> Int]
    OBVIOUS
  <1>2. PICK it \in [SUBSET D -> Int] : SetFoldedBy(D, 0, F, it)
    <2> HIDE DEF F
    <2> QED BY <1>1, 0 \in Int, SetFoldExists
  <1>3. it = [s \in SUBSET D |-> IF s = {} THEN 0 ELSE F[<<c(s), it[s \ {c(s)}]>>]]
    <2> HIDE DEF F
    <2> QED BY <1>2 DEF SetFoldedBy
  <1>4. ASSUME NEW s \in SUBSET D, s # {}
        PROVE  F[<<c(s), it[s \ {c(s)}]>>] = f[c(s)] + it[s \ {c(s)}]
    <2>1. c(s) \in s
      BY <1>4
    <2> HIDE DEF c
    <2>2. <<c(s), it[s \ {c(s)}]>> \in D \X Int
      BY <2>1
    <2> QED BY <2>2
  <1> HIDE DEF F, c
  <1>5. it = [s \in SUBSET D |-> IF s = {} THEN 0 ELSE f[c(s)] + it[s \ {c(s)}]]
    BY <1>3, <1>4
  <1> QED BY <1>5 DEF SummedBy, c

\* A sum of the same elements of two functions that agree on them.
LEMMA SumAgree ==
    ASSUME NEW f, NEW g, NEW D, NEW E \in SUBSET D,
           IsFiniteSet(D), DOMAIN f = D, DOMAIN g = E, \A x \in E : f[x] = g[x],
           NEW it, SummedBy(f, it), NEW jt, SummedBy(g, jt)
    PROVE  \A s \in SUBSET E : it[s] = jt[s]
  <1> DEFINE c(s) == CHOOSE x \in s : TRUE
             P == {n \in Nat : \A s \in SUBSET E : Cardinality(s) <= n => it[s] = jt[s]}
  <1>0. ASSUME NEW s \in SUBSET E
        PROVE  /\ IsFiniteSet(s) /\ Cardinality(s) \in Nat
               /\ s # {} => /\ c(s) \in s /\ s \ {c(s)} \in SUBSET E
                            /\ Cardinality(s \ {c(s)}) = Cardinality(s) - 1
               /\ Cardinality(s) = 0 <=> s = {}
    <2>1. IsFiniteSet(s) /\ Cardinality(s) \in Nat
      BY FS_Subset, FS_CardinalityType
    <2>2. ASSUME s # {} PROVE c(s) \in s
      BY <2>2
    <2>3. ASSUME NEW y \in s PROVE Cardinality(s \ {y}) = Cardinality(s) - 1
      BY <2>1, FS_RemoveElement
    <2>4. Cardinality(s) = 0 <=> s = {}
      BY <2>1, FS_EmptySet
    <2> HIDE DEF c
    <2> QED BY <2>1, <2>2, <2>3, <2>4
  <1>1. ASSUME NEW s \in SUBSET E
        PROVE  /\ it[s] = IF s = {} THEN 0 ELSE f[c(s)] + it[s \ {c(s)}]
               /\ jt[s] = IF s = {} THEN 0 ELSE g[c(s)] + jt[s \ {c(s)}]
    <2>1. s \in SUBSET (DOMAIN f) /\ s \in SUBSET (DOMAIN g)
      OBVIOUS
    <2>2. it[s] = IF s = {} THEN 0 ELSE f[c(s)] + it[s \ {c(s)}]
      BY <2>1 DEF SummedBy
    <2>3. jt[s] = IF s = {} THEN 0 ELSE g[c(s)] + jt[s \ {c(s)}]
      BY <2>1 DEF SummedBy
    <2> QED BY <2>2, <2>3
  <1> HIDE DEF c
  <1>2. 0 \in P
    <2>1. ASSUME NEW s \in SUBSET E, Cardinality(s) <= 0 PROVE it[s] = jt[s]
      <3>0. Cardinality(s) \in Nat /\ (Cardinality(s) = 0 <=> s = {})
        BY <1>0
      <3>1. s = {}
        BY <2>1, <3>0
      <3> QED BY <1>1, <3>1
    <2> QED BY <2>1
  <1>3. ASSUME NEW n \in Nat, n \in P PROVE n + 1 \in P
    <2>1. ASSUME NEW s \in SUBSET E, Cardinality(s) <= n + 1 PROVE it[s] = jt[s]
      <3>1. CASE s = {}
        BY <1>1, <3>1
      <3>2. CASE s # {}
        <4>1. c(s) \in E /\ s \ {c(s)} \in SUBSET E /\ Cardinality(s \ {c(s)}) <= n
          BY <1>0, <2>1, <3>2
        <4>2. it[s \ {c(s)}] = jt[s \ {c(s)}]
          BY <1>3, <4>1
        <4>3. f[c(s)] = g[c(s)]
          BY <4>1
        <4> QED BY <1>1, <3>2, <4>2, <4>3
      <3> QED BY <3>1, <3>2
    <2> QED BY <2>1
  <1>4. \A n \in Nat : n \in P
    <2> HIDE DEF P
    <2> QED BY <1>2, <1>3, Induct
  <1>5. ASSUME NEW s \in SUBSET E PROVE it[s] = jt[s]
    <2>1. Cardinality(s) \in Nat
      BY <1>0
    <2>2. Cardinality(s) \in P
      <3> HIDE DEF P
      <3> QED BY <1>4, <2>1
    <2> QED BY <2>1, <2>2
  <1> QED BY <1>5

\* The element that is taken out of a sum first does not matter.
AnyFirst(D, f, it) == \A s \in SUBSET D : \A x \in s : it[s] = f[x] + it[s \ {x}]

\* The sum does not depend on which element is taken first.
LEMMA SumAny ==
    ASSUME NEW D, IsFiniteSet(D), NEW f \in [D -> Int],
           NEW it \in [SUBSET D -> Int], SummedBy(f, it)
    PROVE  AnyFirst(D, f, it)
  <1> DEFINE c(s) == CHOOSE x \in s : TRUE
             P == {n \in Nat : \A s \in SUBSET D : \A x \in s :
                        Cardinality(s) <= n => it[s] = f[x] + it[s \ {x}]}
  <1>0. ASSUME NEW s \in SUBSET D
        PROVE  /\ IsFiniteSet(s) /\ Cardinality(s) \in Nat
               /\ s # {} => c(s) \in s
               /\ \A y \in s : Cardinality(s \ {y}) = Cardinality(s) - 1
               /\ Cardinality(s) = 0 <=> s = {}
    <2>1. IsFiniteSet(s) /\ Cardinality(s) \in Nat
      BY FS_Subset, FS_CardinalityType
    <2>2. ASSUME s # {} PROVE c(s) \in s
      BY <2>2
    <2>3. ASSUME NEW y \in s PROVE Cardinality(s \ {y}) = Cardinality(s) - 1
      BY <2>1, FS_RemoveElement
    <2>4. Cardinality(s) = 0 <=> s = {}
      BY <2>1, FS_EmptySet
    <2> HIDE DEF c
    <2> QED BY <2>1, <2>2, <2>3, <2>4
  <1>1. ASSUME NEW s \in SUBSET D, s # {} PROVE it[s] = f[c(s)] + it[s \ {c(s)}]
    <2>1. s \in SUBSET (DOMAIN f)
      OBVIOUS
    <2> QED BY <1>1, <2>1 DEF SummedBy
  <1> HIDE DEF c
  <1>2. 0 \in P
    <2>1. ASSUME NEW s \in SUBSET D, NEW x \in s, Cardinality(s) <= 0 PROVE FALSE
      <3>1. Cardinality(s) \in Nat /\ (Cardinality(s) = 0 <=> s = {})
        BY <1>0
      <3> QED BY <2>1, <3>1
    <2> QED BY <2>1
  <1>3. ASSUME NEW n \in Nat, n \in P PROVE n + 1 \in P
    <2>1. ASSUME NEW s \in SUBSET D, NEW x \in s, Cardinality(s) <= n + 1
          PROVE  it[s] = f[x] + it[s \ {x}]
      <3>0. c(s) \in s /\ it[s] = f[c(s)] + it[s \ {c(s)}]
        BY <1>0, <1>1
      <3>1. CASE x = c(s)
        BY <3>0, <3>1
      <3>2. CASE x # c(s)
        <4> DEFINE y == c(s)
                   r == (s \ {y}) \ {x}
        <4>1. /\ y \in s /\ x \in s \ {y} /\ y \in s \ {x} /\ r = (s \ {x}) \ {y}
              /\ s \ {y} \in SUBSET D /\ s \ {x} \in SUBSET D /\ r \in SUBSET D
          BY <3>0, <3>2
        <4>2. Cardinality(s \ {y}) <= n /\ Cardinality(s \ {x}) <= n
          <5>1. /\ Cardinality(s) \in Nat
                /\ Cardinality(s \ {y}) = Cardinality(s) - 1
                /\ Cardinality(s \ {x}) = Cardinality(s) - 1
            BY <1>0, <4>1
          <5> HIDE DEF y
          <5> QED BY <2>1, <5>1
        <4> HIDE DEF y
        <4>3. it[s \ {y}] = f[x] + it[r]
          BY <1>3, <4>1, <4>2
        <4>4. it[s \ {x}] = f[y] + it[r]
          <5>1. it[s \ {x}] = f[y] + it[(s \ {x}) \ {y}]
            <6> HIDE DEF r
            <6> QED BY <1>3, <4>1, <4>2
          <5>2. (s \ {x}) \ {y} = r
            BY <4>1
          <5> QED BY <5>1, <5>2
        <4>5. f[x] \in Int /\ f[y] \in Int /\ it[r] \in Int
          BY <4>1
        <4>6. it[s] = f[y] + it[s \ {y}]
          BY <3>0 DEF y
        <4> HIDE DEF r
        <4> QED BY <4>3, <4>4, <4>5, <4>6
      <3> QED BY <3>1, <3>2
    <2> QED BY <2>1
  <1>4. \A n \in Nat : n \in P
    <2> HIDE DEF P
    <2> QED BY <1>2, <1>3, Induct
  <1>5. ASSUME NEW s \in SUBSET D, NEW x \in s PROVE it[s] = f[x] + it[s \ {x}]
    <2>1. Cardinality(s) \in Nat
      BY <1>0
    <2>2. Cardinality(s) \in P
      <3> HIDE DEF P
      <3> QED BY <1>4, <2>1
    <2> QED BY <2>1, <2>2
  <1> QED BY <1>5 DEF AnyFirst

\* What SumFunction is.
LEMMA SumIs ==
    ASSUME NEW D, IsFiniteSet(D), NEW f \in [D -> Int]
    PROVE  \E it \in [SUBSET D -> Int] : SummedBy(f, it) /\ SumFunction(f) = it[D]
  <1>0. DOMAIN f = D
    OBVIOUS
  <1>1. PICK it \in [SUBSET D -> Int] : SummedBy(f, it)
    BY SumExists
  <1>2. PICK jt : SummedBy(f, jt) /\ SumFunction(f) = jt[DOMAIN f]
    BY <1>1 DEF SummedBy, SumFunction, SumFunctionOnSet, FoldFunctionOnSet, MapThenFoldSet
  <1>3. \A s \in SUBSET D : it[s] = jt[s]
    BY <1>0, <1>1, <1>2, SumAgree
  <1>4. SumFunction(f) = it[D]
    BY <1>0, <1>2, <1>3
  <1> QED BY <1>1, <1>4

\* The sum over all places is the value at one and the sum over the others.
LEMMA SumSplit ==
    ASSUME NEW D, IsFiniteSet(D), NEW f \in [D -> Int], NEW x \in D
    PROVE  /\ SumFunction(f) \in Int
           /\ SumFunction([y \in D \ {x} |-> f[y]]) \in Int
           /\ SumFunction(f) = f[x] + SumFunction([y \in D \ {x} |-> f[y]])
  <1> DEFINE E == D \ {x}
             g == [y \in E |-> f[y]]
  <1>1. E \in SUBSET D /\ g \in [E -> Int] /\ DOMAIN g = E /\ \A y \in E : f[y] = g[y]
    OBVIOUS
  <1>2. IsFiniteSet(E)
    BY FS_Subset
  <1>3. PICK it \in [SUBSET D -> Int] : SummedBy(f, it) /\ SumFunction(f) = it[D]
    BY SumIs
  <1>4. PICK jt \in [SUBSET E -> Int] : SummedBy(g, jt) /\ SumFunction(g) = jt[E]
    <2> HIDE DEF g, E
    <2> QED BY <1>1, <1>2, SumIs
  <1>5. \A s \in SUBSET E : it[s] = jt[s]
    <2>1. DOMAIN f = D
      OBVIOUS
    <2> HIDE DEF g, E
    <2> QED BY <1>1, <1>3, <1>4, <2>1, SumAgree
  <1>6. it[D] = f[x] + it[E]
    <2>1. AnyFirst(D, f, it)
      BY <1>3, SumAny
    <2>2. D \in SUBSET D
      OBVIOUS
    <2> QED BY <2>1, <2>2 DEF AnyFirst
  <1>7. SumFunction(g) = it[E] /\ it[E] \in Int /\ it[D] \in Int
    <2> HIDE DEF g
    <2> QED BY <1>1, <1>4, <1>5
  <1> QED BY <1>3, <1>6, <1>7
\* The values of a sum whose terms are in a set of numbers closed under +.
LEMMA SumIn ==
    ASSUME NEW D, IsFiniteSet(D), NEW N \in SUBSET Int, 0 \in N,
           \A i, j \in N : i + j \in N, NEW f \in [D -> N]
    PROVE  SumFunction(f) \in N
  <1>0. f \in [D -> Int]
    OBVIOUS
  <1>1. PICK it \in [SUBSET D -> Int] : SummedBy(f, it) /\ SumFunction(f) = it[D]
    BY <1>0, SumIs
  <1>2. AnyFirst(D, f, it)
    BY <1>0, <1>1, SumAny
  <1> DEFINE P == {n \in Nat : \A s \in SUBSET D : Cardinality(s) <= n => it[s] \in N}
  <1>3. ASSUME NEW s \in SUBSET D
        PROVE  /\ Cardinality(s) \in Nat
               /\ \A y \in s : Cardinality(s \ {y}) = Cardinality(s) - 1
               /\ s = {} => it[s] \in N
               /\ Cardinality(s) <= 0 => s = {}
    <2>1. IsFiniteSet(s) /\ Cardinality(s) \in Nat
      BY FS_Subset, FS_CardinalityType
    <2>2. ASSUME NEW y \in s PROVE Cardinality(s \ {y}) = Cardinality(s) - 1
      BY <2>1, FS_RemoveElement
    <2>3. Cardinality(s) <= 0 => s = {}
      <3>1. Cardinality(s) = 0 <=> s = {}
        BY <2>1, FS_EmptySet
      <3> QED BY <2>1, <3>1
    <2>4. it[{}] = 0
      <3>1. {} \in SUBSET (DOMAIN f)
        OBVIOUS
      <3> QED BY <1>1, <3>1 DEF SummedBy
    <2> QED BY <2>1, <2>2, <2>3, <2>4
  <1>4. 0 \in P
    BY <1>3
  <1>5. ASSUME NEW n \in Nat, n \in P PROVE n + 1 \in P
    <2>1. ASSUME NEW s \in SUBSET D, Cardinality(s) <= n + 1, NEW x \in s PROVE it[s] \in N
      <3>1. s \ {x} \in SUBSET D /\ Cardinality(s \ {x}) <= n
        BY <1>3, <2>1
      <3>2. it[s \ {x}] \in N /\ f[x] \in N
        BY <1>5, <3>1
      <3>3. it[s] = f[x] + it[s \ {x}]
        BY <1>2 DEF AnyFirst
      <3>4. f[x] + it[s \ {x}] \in N
        BY <3>2, Zenon
      <3> QED BY <3>3, <3>4, Zenon
    <2>2. ASSUME NEW s \in SUBSET D, Cardinality(s) <= n + 1 PROVE it[s] \in N
      BY <1>3, <2>1, <2>2
    <2> QED BY <2>2
  <1>6. \A n \in Nat : n \in P
    <2> HIDE DEF P
    <2> QED BY <1>4, <1>5, Induct
  <1>7. D \in SUBSET D /\ Cardinality(D) \in Nat
    BY <1>3
  <1>8. Cardinality(D) \in P
    <2> HIDE DEF P
    <2> QED BY <1>6, <1>7
  <1> QED BY <1>1, <1>7, <1>8

\* A sum of natural numbers is no smaller than each of them.
LEMMA SumNat ==
    ASSUME NEW D, IsFiniteSet(D), NEW f \in [D -> Nat]
    PROVE  SumFunction(f) \in Nat /\ \A x \in D : f[x] <= SumFunction(f)
  <1>1. SumFunction(f) \in Nat
    <2>1. Nat \in SUBSET Int /\ 0 \in Nat /\ \A i, j \in Nat : i + j \in Nat
      OBVIOUS
    <2> QED BY <2>1, SumIn
  <1>2. ASSUME NEW x \in D PROVE f[x] <= SumFunction(f)
    <2> DEFINE g == [y \in D \ {x} |-> f[y]]
    <2>1. SumFunction(g) \in Nat
      <3>1. Nat \in SUBSET Int /\ 0 \in Nat /\ \A i, j \in Nat : i + j \in Nat
        OBVIOUS
      <3>2. IsFiniteSet(D \ {x})
        BY FS_Subset
      <3>3. g \in [D \ {x} -> Nat]
        OBVIOUS
      <3> HIDE DEF g
      <3> QED BY <3>1, <3>2, <3>3, SumIn
    <2>2. SumFunction(f) = f[x] + SumFunction(g)
      <3>1. f \in [D -> Int]
        OBVIOUS
      <3> QED BY <3>1, SumSplit
    <2>3. f[x] \in Nat
      OBVIOUS
    <2> HIDE DEF g
    <2> QED BY <2>1, <2>2, <2>3
  <1> QED BY <1>1, <1>2

\* A sum of zeros.
LEMMA SumZero ==
    ASSUME NEW D, IsFiniteSet(D), NEW f \in [D -> {0}]
    PROVE  SumFunction(f) = 0
  <1>1. {0} \in SUBSET Int /\ 0 \in {0} /\ \A i, j \in {0} : i + j \in {0}
    OBVIOUS
  <1>2. SumFunction(f) \in {0}
    BY <1>1, SumIn
  <1> QED BY <1>2

\* A sum that is not zero has a term that is not.
LEMMA SumPositive ==
    ASSUME NEW D, IsFiniteSet(D), NEW f \in [D -> Nat], SumFunction(f) # 0
    PROVE  \E x \in D : f[x] > 0
  <1> SUFFICES ASSUME \A x \in D : ~(f[x] > 0) PROVE FALSE
    OBVIOUS
  <1>1. ASSUME NEW x \in D PROVE f[x] = 0
    <2>1. f[x] \in Nat /\ ~(f[x] > 0)
      OBVIOUS
    <2> QED BY <2>1
  <1>2. f \in [D -> {0}]
    BY <1>1
  <1> QED BY <1>2, SumZero

\* One term changes.
LEMMA SumChange ==
    ASSUME NEW D, IsFiniteSet(D), NEW f \in [D -> Int], NEW g \in [D -> Int],
           NEW x \in D, \A y \in D \ {x} : f[y] = g[y]
    PROVE  /\ SumFunction(f) \in Int /\ SumFunction(g) \in Int
           /\ SumFunction(g) = SumFunction(f) + g[x] - f[x]
  <1> DEFINE h == [y \in D \ {x} |-> f[y]]
  <1>1. h = [y \in D \ {x} |-> g[y]]
    OBVIOUS
  <1>2. /\ SumFunction(f) \in Int /\ SumFunction(h) \in Int
        /\ SumFunction(f) = f[x] + SumFunction(h)
    BY SumSplit
  <1>3. SumFunction(g) \in Int /\ SumFunction(g) = g[x] + SumFunction([y \in D \ {x} |-> g[y]])
    BY SumSplit
  <1>4. SumFunction(g) = g[x] + SumFunction(h)
    BY <1>1, <1>3
  <1>5. f[x] \in Int /\ g[x] \in Int
    OBVIOUS
  <1> HIDE DEF h
  <1> QED BY <1>2, <1>3, <1>4, <1>5

\* One term is added.
LEMMA SumMore ==
    ASSUME NEW D, IsFiniteSet(D), NEW x, x \notin D,
           NEW f \in [D -> Int], NEW g \in [D \cup {x} -> Int],
           \A y \in D : f[y] = g[y]
    PROVE  /\ SumFunction(f) \in Int /\ SumFunction(g) \in Int
           /\ SumFunction(g) = SumFunction(f) + g[x]
  <1> DEFINE E == D \cup {x}
  <1>1. IsFiniteSet(E) /\ x \in E /\ g \in [E -> Int] /\ E \ {x} = D
    BY FS_AddElement
  <1>2. f = [y \in E \ {x} |-> g[y]]
    BY <1>1
  <1> HIDE DEF E
  <1>3. /\ SumFunction(g) \in Int
        /\ SumFunction([y \in E \ {x} |-> g[y]]) \in Int
        /\ SumFunction(g) = g[x] + SumFunction([y \in E \ {x} |-> g[y]])
    BY <1>1, SumSplit
  <1>4. g[x] \in Int
    BY <1>1
  <1> QED BY <1>2, <1>3, <1>4

\* How often b is among the first i elements of bs.
OfFirst(b, bs, i) == Cardinality({j \in 1 .. i : bs[j] = b})

\* One element more.
LEMMA OfFirstSteps ==
    ASSUME NEW b, NEW bs, NEW i \in Nat
    PROVE  /\ OfFirst(b, bs, i) \in Nat
           /\ OfFirst(b, bs, 0) = 0
           /\ OfFirst(b, bs, i + 1) =
                IF bs[i + 1] = b THEN OfFirst(b, bs, i) + 1 ELSE OfFirst(b, bs, i)
           /\ OfFirst(b, bs, i) > 0 <=> \E j \in 1 .. i : bs[j] = b
  <1> DEFINE S(n) == {j \in 1 .. n : bs[j] = b}
  <1>1. ASSUME NEW n \in Nat PROVE IsFiniteSet(S(n)) /\ Cardinality(S(n)) \in Nat
    <2>1. IsFiniteSet(1 .. n)
      BY FS_Interval
    <2>2. S(n) \in SUBSET (1 .. n)
      OBVIOUS
    <2>3. IsFiniteSet(S(n))
      <3> HIDE DEF S
      <3> QED BY <2>1, <2>2, FS_Subset
    <2> QED BY <2>3, FS_CardinalityType
  <1>2. S(0) = {}
    OBVIOUS
  <1>3. S(i + 1) = IF bs[i + 1] = b THEN S(i) \cup {i + 1} ELSE S(i)
    OBVIOUS
  <1>4. i + 1 \notin S(i) /\ i + 1 \in Nat
    OBVIOUS
  <1>5. Cardinality(S(i)) > 0 <=> S(i) # {}
    <2>1. Cardinality(S(i)) = 0 <=> S(i) = {}
      <3> HIDE DEF S
      <3> QED BY <1>1, FS_EmptySet
    <2> HIDE DEF S
    <2> QED BY <1>1, <2>1
  <1>6. S(i) # {} <=> \E j \in 1 .. i : bs[j] = b
    OBVIOUS
  <1>7. Cardinality(S(i) \cup {i + 1}) = Cardinality(S(i)) + 1
    <2> HIDE DEF S
    <2> QED BY <1>1, <1>4, FS_AddElement
  <1>8. Cardinality(S(0)) = 0
    BY <1>2, FS_EmptySet
  <1>9. /\ OfFirst(b, bs, i) = Cardinality(S(i)) /\ OfFirst(b, bs, 0) = Cardinality(S(0))
        /\ OfFirst(b, bs, i + 1) = Cardinality(S(i + 1))
    BY DEF OfFirst
  <1> HIDE DEF S
  <1> QED BY <1>1, <1>3, <1>5, <1>6, <1>7, <1>8, <1>9

\* All elements of a sequence.
LEMMA OfFirstTimes ==
    ASSUME NEW X, NEW bs \in Seq(X), NEW b, NEW i \in 0 .. Len(bs)
    PROVE  /\ Times(b, bs) = OfFirst(b, bs, Len(bs))
           /\ Times(b, SubSeq(bs, 1, i)) = OfFirst(b, bs, i)
           /\ Times(b, bs) \in Nat
           /\ Times(b, bs) > 0 <=> \E j \in 1 .. Len(bs) : bs[j] = b
  <1>1. Times(b, bs) = OfFirst(b, bs, Len(bs))
    BY DEF Times, OfFirst
  <1>2. Times(b, SubSeq(bs, 1, i)) = OfFirst(b, bs, i)
    <2> DEFINE q == SubSeq(bs, 1, i)
    <2>1. Len(q) = i /\ \A j \in 1 .. i : q[j] = bs[j]
      OBVIOUS
    <2> HIDE DEF q
    <2>2. {j \in 1 .. Len(q) : q[j] = b} = {j \in 1 .. i : bs[j] = b}
      BY <2>1
    <2>3. Times(b, q) = OfFirst(b, bs, i)
      BY <2>2 DEF Times, OfFirst
    <2> QED BY <2>3 DEF q
  <1>3. Len(bs) \in Nat
    OBVIOUS
  <1>4. /\ OfFirst(b, bs, Len(bs)) \in Nat
        /\ OfFirst(b, bs, Len(bs)) > 0 <=> \E j \in 1 .. Len(bs) : bs[j] = b
    BY <1>3, OfFirstSteps
  <1> QED BY <1>1, <1>2, <1>4
-----------------------------------------------------------------------------
\* The records of bos, the tables of live bos and the managers.
BoRec == [ref_cnt : Int, lock_cnt : Int, map_cnt : Int, priv : Priv,
          surface : Surf \cup {NULL}]
BoTable == UNION {[D -> BoRec] : D \in SUBSET Bo}
Mgr == [ref_count : Nat, bos : BoTable, bo_cnt : Nat, held : [Priv -> Int],
        env : DOMAIN Envs]

\* LockBalance is about clients that swap no locked bos and, where a lock is
\* taken once for all mappings, about one thread.
LocksKept(env) == ~SwapBusy /\ (env = "once" => \A t, u \in Thread : t = u)

\* ref_cnt is what is expected, w, and a bo lives as long as this is not 0.
RefsMeet(mgr, w) ==
    \A b \in Bo : IF b \in DOMAIN mgr.bos
                  THEN mgr.bos[b].ref_cnt = w[b] /\ w[b] > 0 ELSE w[b] = 0

\* map_cnt is what is expected, u.
MapsMeet(mgr, u) ==
    \A b \in Bo : u[b] = IF b \in DOMAIN mgr.bos THEN mgr.bos[b].map_cnt ELSE 0

\* No two live bos share a backend bo.
PrivsMeet(mgr) ==
    \A b, c \in DOMAIN mgr.bos : mgr.bos[b].priv = mgr.bos[c].priv => b = c

\* bo_cnt, which tbm_surface_internal_create_with_flags leaves alone where
\* SurfaceBoAlloc says that the backend allocates the bos of a surface.
CountMeets(mgr) == ~SurfaceBoAlloc => mgr.bo_cnt = Cardinality(DOMAIN mgr.bos)

\* The locks of a bo, n of them not yet counted.
LockMeets(mgr, b, n) ==
    /\ mgr.held[mgr.bos[b].priv] = mgr.bos[b].lock_cnt + n
    /\ LockType(mgr) = "TRY_ALWAYS" => mgr.bos[b].lock_cnt = mgr.bos[b].map_cnt
    /\ LockType(mgr) = "TRY_ONCE" => mgr.bos[b].lock_cnt >= 0 /\ mgr.bos[b].lock_cnt + n <= 1
    /\ LockType(mgr) = "TRY_NEVER" => mgr.bos[b].lock_cnt = 0 /\ n = 0

\* The locks of all bos; no lock is left on a backend bo that no bo has.
LocksMeet(mgr, k) ==
    LocksKept(mgr.env) =>
      /\ \A b \in Bo : IF b \in DOMAIN mgr.bos THEN LockMeets(mgr, b, k[b]) ELSE k[b] = 0
      /\ \A p \in Priv \ PrivsInUse(mgr) : mgr.held[p] = 0

\* A back pointer is one of the pairs of P.
BackMeet(mgr, P) ==
    \A b \in DOMAIN mgr.bos :
        mgr.bos[b].surface # NULL => <<b, mgr.bos[b].surface>> \in P

\* All that a manager is expected to meet: w references, u mappings, k locks
\* not yet counted, and the pairs P of bos and surfaces.
Meets(mgr, w, u, k, P) ==
    /\ mgr \in Mgr
    /\ RefsMeet(mgr, w) /\ MapsMeet(mgr, u) /\ PrivsMeet(mgr)
    /\ CountMeets(mgr) /\ LocksMeet(mgr, k) /\ BackMeet(mgr, P)

Counts == [Bo -> Nat]

\* The fields of a manager.
LEMMA MgrFields ==
    ASSUME NEW mgr \in Mgr
    PROVE  /\ mgr.bos \in [DOMAIN mgr.bos -> BoRec] /\ DOMAIN mgr.bos \in SUBSET Bo
           /\ IsFiniteSet(DOMAIN mgr.bos)
           /\ Cardinality(DOMAIN mgr.bos) \in Nat
           /\ Cardinality(DOMAIN mgr.bos) < UIntMod
           /\ mgr.bo_cnt \in Nat /\ mgr.ref_count \in Nat
           /\ mgr.held \in [Priv -> Int] /\ mgr.env \in DOMAIN Envs
  <1>1. mgr.bos \in BoTable /\ mgr.bo_cnt \in Nat /\ mgr.ref_count \in Nat
        /\ mgr.held \in [Priv -> Int] /\ mgr.env \in DOMAIN Envs
    BY DEF Mgr
  <1>2. PICK D \in SUBSET Bo : mgr.bos \in [D -> BoRec]
    BY <1>1 DEF BoTable
  <1>3. DOMAIN mgr.bos = D
    BY <1>2
  <1>4. IsFiniteSet(D) /\ Cardinality(D) \in Nat /\ Cardinality(D) <= Cardinality(Bo)
        /\ Cardinality(Bo) \in Nat
    BY <1>2, FS_Subset, FS_CardinalityType, BufMgrAssumption
  <1>5. UIntMod \in Nat /\ UIntMod > Cardinality(Bo)
    BY BufMgrAssumption
  <1>6. Cardinality(D) < UIntMod
    BY <1>4, <1>5
  <1> QED BY <1>1, <1>2, <1>3, <1>4, <1>6

\* A bo more.
LEMMA TableMade ==
    ASSUME NEW D \in SUBSET Bo, NEW f \in [D -> BoRec]
    PROVE  f \in BoTable
BY DEF BoTable

\* Counting bos does not wrap around.
LEMMA Counting ==
    ASSUME NEW n \in Nat
    PROVE  /\ (n + 1) % UIntMod \in Nat /\ (n - 1) % UIntMod \in Nat
           /\ n + 1 < UIntMod => (n + 1) % UIntMod = n + 1
           /\ n > 0 /\ n < UIntMod => (n - 1) % UIntMod = n - 1
  <1>1. UIntMod \in Nat /\ UIntMod > 0
    <2>1. Cardinality(Bo) \in Nat
      BY FS_CardinalityType, BufMgrAssumption
    <2> QED BY <2>1, BufMgrAssumption
  <1> QED BY <1>1
-----------------------------------------------------------------------------
(* What the functions on a manager do to what is expected of it.           *)

\* tbm_bo_alloc
LEMMA AllocMeets ==
    ASSUME NEW mgr, NEW w \in Counts, NEW u \in Counts, NEW k \in Counts, NEW P,
           Meets(mgr, w, u, k, P),
           NEW b \in Bo, b \notin DOMAIN mgr.bos,
           NEW p \in Priv, p \notin PrivsInUse(mgr),
           NEW n \in Nat, ~SurfaceBoAlloc => n = (mgr.bo_cnt + 1) % UIntMod
    PROVE  Meets([mgr EXCEPT !.bos = Link(@, b, NewBo(p)), !.bo_cnt = n],
                 [w EXCEPT ![b] = 1], u, k, P)
  <1> DEFINE f == Link(mgr.bos, b, NewBo(p))
             D == DOMAIN mgr.bos
             x == [mgr EXCEPT !.bos = f, !.bo_cnt = n]
             v == [w EXCEPT ![b] = 1]
  <1>0. mgr \in Mgr
    BY DEF Meets
  <1>1. /\ mgr.bos \in [D -> BoRec] /\ D \in SUBSET Bo
        /\ IsFiniteSet(D) /\ Cardinality(D) \in Nat /\ Cardinality(D) < UIntMod
        /\ mgr.held \in [Priv -> Int] /\ mgr.env \in DOMAIN Envs /\ mgr.ref_count \in Nat
        /\ mgr.bo_cnt \in Nat
    BY <1>0, MgrFields
  <1>2. NewBo(p) \in BoRec
    BY DEF NewBo, BoRec
  <1>3. /\ f \in [D \cup {b} -> BoRec] /\ f[b] = NewBo(p)
        /\ \A c \in D : f[c] = mgr.bos[c]
    BY <1>1, <1>2 DEF Link
  <1>4. /\ x.bos = f /\ x.bo_cnt = n /\ x.held = mgr.held /\ x.env = mgr.env
        /\ x \in Mgr
    <2>1. D \cup {b} \in SUBSET Bo
      BY <1>1
    <2>2. f \in BoTable
      <3> HIDE DEF f, D
      <3> QED BY <1>3, <2>1, TableMade
    <2> HIDE DEF f
    <2> QED BY <1>0, <2>2 DEF Mgr
  <1>5. DOMAIN x.bos = D \cup {b} /\ b \notin D
    BY <1>3, <1>4
  <1>6. /\ f[b].ref_cnt = 1 /\ f[b].lock_cnt = 0 /\ f[b].map_cnt = 0 /\ f[b].priv = p
        /\ f[b].surface = NULL
    BY <1>3 DEF NewBo
  <1>7. v \in Counts /\ v[b] = 1 /\ \A c \in Bo \ {b} : v[c] = w[c]
    BY DEF Counts
  <1> HIDE DEF f, x, v
  <1>8. RefsMeet(x, v)
    <2>1. RefsMeet(mgr, w)
      BY DEF Meets
    <2> QED BY <1>1, <1>3, <1>4, <1>5, <1>6, <1>7, <2>1 DEF RefsMeet
  <1>9. MapsMeet(x, u)
    <2>1. MapsMeet(mgr, u)
      BY DEF Meets
    <2> QED BY <1>1, <1>3, <1>4, <1>5, <1>6, <2>1 DEF MapsMeet
  <1>10. PrivsMeet(x)
    <2>1. PrivsMeet(mgr)
      BY DEF Meets
    <2> QED BY <1>1, <1>3, <1>4, <1>5, <1>6, <2>1 DEF PrivsMeet, PrivsInUse
  <1>11. CountMeets(x)
    <2>1. CountMeets(mgr)
      BY DEF Meets
    <2>2. Cardinality(D \cup {b}) = Cardinality(D) + 1
      BY <1>1, <1>5, FS_AddElement
    <2>3. Cardinality(D) + 1 < UIntMod
      <3>1. D \cup {b} \in SUBSET Bo /\ IsFiniteSet(Bo)
        BY <1>1, BufMgrAssumption
      <3>2. Cardinality(D \cup {b}) <= Cardinality(Bo) /\ Cardinality(Bo) \in Nat
        <4> HIDE DEF D
        <4> QED BY <3>1, FS_Subset, FS_CardinalityType
      <3>3. UIntMod \in Nat /\ UIntMod > Cardinality(Bo)
        BY BufMgrAssumption
      <3> QED BY <1>1, <2>2, <3>2, <3>3
    <2>4. (Cardinality(D) + 1) % UIntMod = Cardinality(D) + 1
      BY <1>1, <2>3, Counting
    <2> QED BY <1>4, <1>5, <2>1, <2>2, <2>4 DEF CountMeets
  <1>12. LocksMeet(x, k)
    <2>1. LocksMeet(mgr, k) /\ LockType(x) = LockType(mgr)
      BY <1>4 DEF Meets, LockType
    <2> SUFFICES ASSUME LocksKept(mgr.env)
                 PROVE  /\ \A c \in Bo : IF c \in DOMAIN x.bos THEN LockMeets(x, c, k[c])
                                         ELSE k[c] = 0
                        /\ \A q \in Priv \ PrivsInUse(x) : x.held[q] = 0
      BY <1>4 DEF LocksMeet
    <2>2. /\ \A c \in Bo : IF c \in D THEN LockMeets(mgr, c, k[c]) ELSE k[c] = 0
          /\ \A q \in Priv \ PrivsInUse(mgr) : mgr.held[q] = 0
      BY <2>1 DEF LocksMeet
    <2>3. ASSUME NEW c \in D PROVE LockMeets(x, c, k[c])
      BY <1>1, <1>3, <1>4, <2>1, <2>2, <2>3 DEF LockMeets
    <2>4. LockMeets(x, b, k[b])
      <3>1. k[b] = 0 /\ mgr.held[p] = 0
        BY <1>5, <2>2
      <3> QED BY <1>4, <1>6, <2>1, <3>1 DEF LockMeets
    <2>5. ASSUME NEW q \in Priv, q \notin PrivsInUse(x) PROVE x.held[q] = 0
      <3>1. q \notin PrivsInUse(mgr)
        BY <1>3, <1>4, <1>5, <2>5 DEF PrivsInUse
      <3> QED BY <1>4, <2>2, <3>1
    <2> QED BY <1>5, <2>2, <2>3, <2>4, <2>5
  <1>13. BackMeet(x, P)
    <2>1. BackMeet(mgr, P)
      BY DEF Meets
    <2> QED BY <1>3, <1>4, <1>5, <1>6, <2>1 DEF BackMeet
  <1>14. Meets(x, v, u, k, P)
    BY <1>4, <1>8, <1>9, <1>10, <1>11, <1>12, <1>13 DEF Meets
  <1> QED BY <1>14 DEF x, v, f
\* x is mgr with another state of the bo b and of its locks.
Touches(mgr, x, b) ==
    /\ x \in Mgr /\ x.env = mgr.env /\ x.bo_cnt = mgr.bo_cnt
    /\ DOMAIN x.bos = DOMAIN mgr.bos
    /\ \A c \in DOMAIN mgr.bos : c # b => x.bos[c] = mgr.bos[c]
    /\ x.bos[b].priv = mgr.bos[b].priv
    /\ \A p \in Priv : p # mgr.bos[b].priv => x.held[p] = mgr.held[p]

\* Two functions, two sets of pairs that differ at most for b.
AlikeBut(b, f, g) == \A c \in Bo : c # b => g[c] = f[c]
PairsBut(b, P, Q) == \A c \in Bo, s \in Surf : c # b /\ <<c, s>> \in P => <<c, s>> \in Q

LEMMA Alike == \A b, f, P : AlikeBut(b, f, f) /\ PairsBut(b, P, P)
BY DEF AlikeBut, PairsBut

\* A manager still meets what is expected where one bo has changed as expected.
LEMMA TouchMeets ==
    ASSUME NEW mgr, NEW w \in Counts, NEW u \in Counts, NEW k \in Counts, NEW P,
           Meets(mgr, w, u, k, P),
           NEW b \in DOMAIN mgr.bos, NEW x, Touches(mgr, x, b),
           NEW v \in Counts, NEW y \in Counts, NEW l \in Counts, NEW Q,
           x.bos[b].ref_cnt = v[b], v[b] > 0, x.bos[b].map_cnt = y[b],
           LocksKept(mgr.env) => LockMeets(x, b, l[b]),
           x.bos[b].surface # NULL => <<b, x.bos[b].surface>> \in Q,
           AlikeBut(b, w, v), AlikeBut(b, u, y), AlikeBut(b, k, l), PairsBut(b, P, Q)
    PROVE  Meets(x, v, y, l, Q)
  <1> DEFINE D == DOMAIN mgr.bos
  <1>0. mgr \in Mgr
    BY DEF Meets
  <1>1. mgr.bos \in [D -> BoRec] /\ D \in SUBSET Bo
    BY <1>0, MgrFields
  <1>2. /\ x \in Mgr /\ x.env = mgr.env /\ x.bo_cnt = mgr.bo_cnt
        /\ DOMAIN x.bos = D
        /\ \A c \in D : c # b => x.bos[c] = mgr.bos[c]
        /\ x.bos[b].priv = mgr.bos[b].priv
        /\ \A p \in Priv : p # mgr.bos[b].priv => x.held[p] = mgr.held[p]
    BY DEF Touches
  <1>3. \A c \in D : mgr.bos[c].priv \in Priv /\ mgr.bos[c].surface \in Surf \cup {NULL}
    BY <1>1 DEF BoRec
  <1>4. \A c \in D : x.bos[c].priv = mgr.bos[c].priv
    BY <1>2
  <1>b. /\ \A c \in Bo : c # b => v[c] = w[c] /\ y[c] = u[c] /\ l[c] = k[c]
        /\ \A c \in Bo, s \in Surf : c # b /\ <<c, s>> \in P => <<c, s>> \in Q
    BY DEF AlikeBut, PairsBut
  <1>5. RefsMeet(x, v)
    <2>1. RefsMeet(mgr, w)
      BY DEF Meets
    <2> QED BY <1>1, <1>2, <1>b, <2>1 DEF RefsMeet
  <1>6. MapsMeet(x, y)
    <2>1. MapsMeet(mgr, u)
      BY DEF Meets
    <2> QED BY <1>1, <1>2, <1>b, <2>1 DEF MapsMeet
  <1>7. PrivsMeet(x)
    <2>1. PrivsMeet(mgr)
      BY DEF Meets
    <2> QED BY <1>2, <1>4, <2>1 DEF PrivsMeet
  <1>8. CountMeets(x)
    <2>1. CountMeets(mgr)
      BY DEF Meets
    <2> QED BY <1>2, <2>1 DEF CountMeets
  <1>9. LocksMeet(x, l)
    <2>1. LocksMeet(mgr, k) /\ LockType(x) = LockType(mgr)
      BY <1>2 DEF Meets, LockType
    <2>2. PrivsMeet(mgr)
      BY DEF Meets
    <2> SUFFICES ASSUME LocksKept(mgr.env)
                 PROVE  /\ \A c \in Bo : IF c \in DOMAIN x.bos THEN LockMeets(x, c, l[c])
                                         ELSE l[c] = 0
                        /\ \A q \in Priv \ PrivsInUse(x) : x.held[q] = 0
      BY <1>2 DEF LocksMeet
    <2>3. /\ \A c \in Bo : IF c \in D THEN LockMeets(mgr, c, k[c]) ELSE k[c] = 0
          /\ \A q \in Priv \ PrivsInUse(mgr) : mgr.held[q] = 0
      BY <2>1 DEF LocksMeet
    <2>4. ASSUME NEW c \in D, c # b PROVE LockMeets(x, c, l[c])
      <3>1. x.held[mgr.bos[c].priv] = mgr.held[mgr.bos[c].priv]
        BY <1>2, <1>3, <2>2, <2>4 DEF PrivsMeet
      <3>2. LockMeets(mgr, c, k[c]) /\ l[c] = k[c] /\ x.bos[c] = mgr.bos[c]
        BY <1>1, <1>2, <1>b, <2>3, <2>4
      <3> QED BY <2>1, <3>1, <3>2 DEF LockMeets
    <2>5. ASSUME NEW q \in Priv, q \notin PrivsInUse(x) PROVE x.held[q] = 0
      <3>1. q \notin PrivsInUse(mgr)
        BY <1>2, <1>4, <2>5 DEF PrivsInUse
      <3>2. q # mgr.bos[b].priv
        BY <3>1 DEF PrivsInUse
      <3> QED BY <1>2, <2>3, <3>1, <3>2
    <2>6. ASSUME NEW c \in Bo, c \notin D PROVE l[c] = 0
      BY <1>b, <2>3, <2>6
    <2> QED BY <1>2, <2>4, <2>5, <2>6
  <1>10. BackMeet(x, Q)
    <2>1. BackMeet(mgr, P)
      BY DEF Meets
    <2> QED BY <1>1, <1>2, <1>3, <1>b, <2>1 DEF BackMeet
  <1> QED BY <1>2, <1>5, <1>6, <1>7, <1>8, <1>9, <1>10 DEF Meets

\* Changes of one field of a bo.
LEMMA BoFieldChanged ==
    ASSUME NEW mgr \in Mgr, NEW b \in Bo, NEW i \in Int, NEW s \in Surf \cup {NULL}
    PROVE  /\ [mgr EXCEPT !.bos[b].ref_cnt = i] \in Mgr
           /\ [mgr EXCEPT !.bos[b].lock_cnt = i] \in Mgr
           /\ [mgr EXCEPT !.bos[b].map_cnt = i] \in Mgr
           /\ [mgr EXCEPT !.bos[b].surface = s] \in Mgr
           /\ b \in DOMAIN mgr.bos =>
                /\ Touches(mgr, [mgr EXCEPT !.bos[b].ref_cnt = i], b)
                /\ Touches(mgr, [mgr EXCEPT !.bos[b].lock_cnt = i], b)
                /\ Touches(mgr, [mgr EXCEPT !.bos[b].map_cnt = i], b)
                /\ Touches(mgr, [mgr EXCEPT !.bos[b].surface = s], b)
  <1> DEFINE D == DOMAIN mgr.bos
  <1>1. mgr.bos \in [D -> BoRec] /\ D \in SUBSET Bo
    BY MgrFields
  <1>2. ASSUME NEW r, b \in D => r \in BoRec
        PROVE  [mgr EXCEPT !.bos[b] = r] \in Mgr
    <2> DEFINE g == [mgr.bos EXCEPT ![b] = r]
    <2>1. g \in [D -> BoRec]
      BY <1>1, <1>2
    <2>2. g \in BoTable
      <3> HIDE DEF g, D
      <3> QED BY <1>1, <2>1, TableMade
    <2> HIDE DEF g
    <2>3. [mgr EXCEPT !.bos = g] \in Mgr
      BY <2>2 DEF Mgr
    <2> QED BY <2>3 DEF g
  <1>3. ASSUME b \in D
        PROVE  /\ [mgr.bos[b] EXCEPT !.ref_cnt = i] \in BoRec
               /\ [mgr.bos[b] EXCEPT !.lock_cnt = i] \in BoRec
               /\ [mgr.bos[b] EXCEPT !.map_cnt = i] \in BoRec
               /\ [mgr.bos[b] EXCEPT !.surface = s] \in BoRec
    BY <1>1, <1>3 DEF BoRec
  <1>4. /\ [mgr EXCEPT !.bos[b].ref_cnt = i] \in Mgr
        /\ [mgr EXCEPT !.bos[b].lock_cnt = i] \in Mgr
        /\ [mgr EXCEPT !.bos[b].map_cnt = i] \in Mgr
        /\ [mgr EXCEPT !.bos[b].surface = s] \in Mgr
    BY <1>2, <1>3
  <1>5. ASSUME b \in D, NEW r \in BoRec, r.priv = mgr.bos[b].priv,
               [mgr EXCEPT !.bos[b] = r] \in Mgr
        PROVE  Touches(mgr, [mgr EXCEPT !.bos[b] = r], b)
    BY <1>1, <1>5 DEF Touches, Mgr
  <1>6. ASSUME b \in D
        PROVE  /\ [mgr.bos[b] EXCEPT !.ref_cnt = i].priv = mgr.bos[b].priv
               /\ [mgr.bos[b] EXCEPT !.lock_cnt = i].priv = mgr.bos[b].priv
               /\ [mgr.bos[b] EXCEPT !.map_cnt = i].priv = mgr.bos[b].priv
               /\ [mgr.bos[b] EXCEPT !.surface = s].priv = mgr.bos[b].priv
    BY <1>1, <1>6 DEF BoRec
  <1>7. ASSUME b \in D
        PROVE  /\ Touches(mgr, [mgr EXCEPT !.bos[b].ref_cnt = i], b)
               /\ Touches(mgr, [mgr EXCEPT !.bos[b].lock_cnt = i], b)
               /\ Touches(mgr, [mgr EXCEPT !.bos[b].map_cnt = i], b)
               /\ Touches(mgr, [mgr EXCEPT !.bos[b].surface = s], b)
    BY <1>3, <1>4, <1>5, <1>6, <1>7
  <1> QED BY <1>4, <1>7

\* What a changed field is.
LEMMA BoFieldValues ==
    ASSUME NEW mgr \in Mgr, NEW b \in DOMAIN mgr.bos, NEW i \in Int, NEW s \in Surf \cup {NULL}
    PROVE  LET r == mgr.bos[b]
           IN  /\ [mgr EXCEPT !.bos[b].ref_cnt = i].bos[b] = [r EXCEPT !.ref_cnt = i]
               /\ [mgr EXCEPT !.bos[b].lock_cnt = i].bos[b] = [r EXCEPT !.lock_cnt = i]
               /\ [mgr EXCEPT !.bos[b].map_cnt = i].bos[b] = [r EXCEPT !.map_cnt = i]
               /\ [mgr EXCEPT !.bos[b].surface = s].bos[b] = [r EXCEPT !.surface = s]
               /\ [mgr EXCEPT !.bos[b].ref_cnt = i].held = mgr.held
               /\ [mgr EXCEPT !.bos[b].lock_cnt = i].held = mgr.held
               /\ [mgr EXCEPT !.bos[b].map_cnt = i].held = mgr.held
               /\ [mgr EXCEPT !.bos[b].surface = s].held = mgr.held
BY DEF Mgr

\* What the lock, map and reference counts of a bo of a manager are.
LEMMA BoOf ==
    ASSUME NEW mgr \in Mgr, NEW b \in DOMAIN mgr.bos
    PROVE  /\ mgr.bos[b] \in BoRec /\ b \in Bo
           /\ mgr.bos[b].ref_cnt \in Int /\ mgr.bos[b].lock_cnt \in Int
           /\ mgr.bos[b].map_cnt \in Int /\ mgr.bos[b].priv \in Priv
           /\ mgr.bos[b].surface \in Surf \cup {NULL}
BY MgrFields DEF BoRec

\* What a manager meets at one bo.
LEMMA MeetsAt ==
    ASSUME NEW mgr, NEW w \in Counts, NEW u \in Counts, NEW k \in Counts, NEW P,
           Meets(mgr, w, u, k, P), NEW b \in DOMAIN mgr.bos
    PROVE  /\ mgr \in Mgr /\ b \in Bo
           /\ mgr.bos[b].ref_cnt = w[b] /\ w[b] > 0 /\ w[b] \in Nat
           /\ mgr.bos[b].map_cnt = u[b] /\ u[b] \in Nat /\ k[b] \in Nat
           /\ LocksKept(mgr.env) => LockMeets(mgr, b, k[b])
           /\ mgr.bos[b].surface # NULL => <<b, mgr.bos[b].surface>> \in P
  <1>1. mgr \in Mgr
    BY DEF Meets
  <1>2. b \in Bo
    BY <1>1, BoOf
  <1>3. mgr.bos[b].ref_cnt = w[b] /\ w[b] > 0
    BY <1>2 DEF Meets, RefsMeet
  <1>4. mgr.bos[b].map_cnt = u[b]
    BY <1>2 DEF Meets, MapsMeet
  <1>5. LocksKept(mgr.env) => LockMeets(mgr, b, k[b])
    BY <1>2 DEF Meets, LocksMeet
  <1>6. mgr.bos[b].surface # NULL => <<b, mgr.bos[b].surface>> \in P
    BY DEF Meets, BackMeet
  <1>7. w[b] \in Nat /\ u[b] \in Nat /\ k[b] \in Nat
    BY <1>2 DEF Counts
  <1> QED BY <1>1, <1>2, <1>3, <1>4, <1>5, <1>6, <1>7

\* A bo lives where a reference to it is expected.
LEMMA MeetsLive ==
    ASSUME NEW mgr, NEW w \in Counts, NEW u \in Counts, NEW k \in Counts, NEW P,
           Meets(mgr, w, u, k, P), NEW b \in Bo
    PROVE  /\ b \in DOMAIN mgr.bos <=> w[b] > 0
           /\ b \notin DOMAIN mgr.bos => w[b] = 0 /\ u[b] = 0
           /\ b \notin DOMAIN mgr.bos /\ LocksKept(mgr.env) => k[b] = 0
  <1>1. w[b] \in Nat
    BY DEF Counts
  <1>2. b \in DOMAIN mgr.bos <=> w[b] > 0
    BY <1>1 DEF Meets, RefsMeet
  <1>3. b \notin DOMAIN mgr.bos => w[b] = 0 /\ u[b] = 0
    BY DEF Meets, RefsMeet, MapsMeet
  <1>4. b \notin DOMAIN mgr.bos /\ LocksKept(mgr.env) => k[b] = 0
    BY DEF Meets, LocksMeet
  <1> QED BY <1>2, <1>3, <1>4

\* tbm_bo_ref
LEMMA BoRefMeets ==
    ASSUME NEW mgr, NEW w \in Counts, NEW u \in Counts, NEW k \in Counts, NEW P,
           Meets(mgr, w, u, k, P), NEW b \in DOMAIN mgr.bos
    PROVE  Meets(BoRef(mgr, b), [w EXCEPT ![b] = @ + 1], u, k, P)
  <1> DEFINE r == mgr.bos[b]
             i == r.ref_cnt + 1
             x == [mgr EXCEPT !.bos[b].ref_cnt = i]
             v == [w EXCEPT ![b] = @ + 1]
  <1>1. /\ mgr \in Mgr /\ b \in Bo
        /\ r.ref_cnt = w[b] /\ w[b] > 0 /\ w[b] \in Nat
        /\ r.map_cnt = u[b] /\ u[b] \in Nat /\ k[b] \in Nat
        /\ LocksKept(mgr.env) => LockMeets(mgr, b, k[b])
        /\ r.surface # NULL => <<b, r.surface>> \in P
    BY MeetsAt
  <1>2. r \in BoRec /\ r.ref_cnt \in Int
    BY <1>1, BoOf
  <1>3. i \in Int /\ i = w[b] + 1
    BY <1>1, <1>2
  <1>4. NULL \in Surf \cup {NULL}
    OBVIOUS
  <1> HIDE DEF i
  <1>5. Touches(mgr, x, b) /\ x.bos[b] = [r EXCEPT !.ref_cnt = i] /\ x.held = mgr.held
    <2>1. Touches(mgr, x, b)
      BY <1>1, <1>3, <1>4, BoFieldChanged
    <2> QED BY <1>1, <1>3, <1>4, <2>1, BoFieldValues
  <1>6. /\ x.bos[b].ref_cnt = i /\ x.bos[b].map_cnt = r.map_cnt
        /\ x.bos[b].lock_cnt = r.lock_cnt /\ x.bos[b].priv = r.priv
        /\ x.bos[b].surface = r.surface
    <2> HIDE DEF x, r
    <2> QED BY <1>2, <1>5 DEF BoRec
  <1>7. v \in Counts /\ v[b] = w[b] + 1 /\ AlikeBut(b, w, v)
    BY <1>1 DEF Counts, AlikeBut
  <1>8. x = BoRef(mgr, b)
    BY DEF BoRef, i
  <1>9. x.env = mgr.env
    BY <1>5 DEF Touches
  <1> HIDE DEF x, v
  <1>10. LocksKept(mgr.env) => LockMeets(x, b, k[b])
    BY <1>1, <1>5, <1>6, <1>9 DEF LockMeets, LockType
  <1>11. v[b] > 0 /\ x.bos[b].ref_cnt = v[b] /\ x.bos[b].map_cnt = u[b]
    BY <1>1, <1>3, <1>6, <1>7
  <1>12. x.bos[b].surface # NULL => <<b, x.bos[b].surface>> \in P
    BY <1>1, <1>6
  <1> HIDE DEF r
  <1>13. Meets(x, v, u, k, P)
    BY <1>5, <1>7, <1>10, <1>11, <1>12, Alike, TouchMeets, ZenonT(30)
  <1> QED BY <1>8, <1>13 DEF v
\* The last reference to a bo goes.
LEMMA BoFreeMeets ==
    ASSUME NEW mgr, NEW w \in Counts, NEW u \in Counts, NEW k \in Counts, NEW P,
           Meets(mgr, w, u, k, P), NEW b \in DOMAIN mgr.bos,
           LocksKept(mgr.env) => k[b] = 0
    PROVE  Meets(BoFree(mgr, b), [w EXCEPT ![b] = 0], [u EXCEPT ![b] = 0], k, P)
  <1> DEFINE r == mgr.bos[b]
             D == DOMAIN mgr.bos
             f == Unlink(mgr.bos, b)
             h == [mgr.held EXCEPT ![r.priv] = @ - r.lock_cnt]
             n == (mgr.bo_cnt - 1) % UIntMod
             x == BoFree(mgr, b)
             v == [w EXCEPT ![b] = 0]
             y == [u EXCEPT ![b] = 0]
  <1>0. mgr \in Mgr
    BY DEF Meets
  <1>1. /\ mgr.bos \in [D -> BoRec] /\ D \in SUBSET Bo
        /\ IsFiniteSet(D) /\ Cardinality(D) \in Nat /\ Cardinality(D) < UIntMod
        /\ mgr.held \in [Priv -> Int] /\ mgr.env \in DOMAIN Envs /\ mgr.ref_count \in Nat
        /\ mgr.bo_cnt \in Nat
    BY <1>0, MgrFields
  <1>2. r \in BoRec /\ b \in Bo /\ r.lock_cnt \in Int /\ r.priv \in Priv
    BY <1>0, BoOf
  <1>3. f \in [D \ {b} -> BoRec] /\ \A c \in D \ {b} : f[c] = mgr.bos[c]
    BY <1>1 DEF Unlink
  <1>4. /\ h \in [Priv -> Int] /\ h[r.priv] = mgr.held[r.priv] - r.lock_cnt
        /\ \A p \in Priv : p # r.priv => h[p] = mgr.held[p]
    <2> HIDE DEF r
    <2> QED BY <1>1, <1>2
  <1>5. n \in Nat
    BY <1>1, Counting
  <1>6. x.bos = f /\ x.bo_cnt = n /\ x.held = h /\ x.env = mgr.env /\ x \in Mgr
    <2>1. D \ {b} \in SUBSET Bo
      BY <1>1
    <2>2. f \in BoTable
      <3> HIDE DEF f, D
      <3> QED BY <1>3, <2>1, TableMade
    <2> DEFINE z == [mgr EXCEPT !.held = h, !.bos = f, !.bo_cnt = n]
    <2>3. x = z
      BY DEF BoFree
    <2> HIDE DEF f, h, n, x
    <2>4. z.bos = f /\ z.bo_cnt = n /\ z.held = h /\ z.env = mgr.env /\ z \in Mgr
      BY <1>0, <1>4, <1>5, <2>2 DEF Mgr
    <2> HIDE DEF z
    <2> QED BY <2>3, <2>4
  <1>7. DOMAIN x.bos = D \ {b}
    BY <1>3, <1>6
  <1>8. /\ v \in Counts /\ v[b] = 0 /\ \A c \in Bo : c # b => v[c] = w[c]
        /\ y \in Counts /\ y[b] = 0 /\ \A c \in Bo : c # b => y[c] = u[c]
    BY <1>2 DEF Counts
  <1> HIDE DEF f, h, n, x, v, y
  <1>9. RefsMeet(x, v)
    <2>1. RefsMeet(mgr, w)
      BY DEF Meets
    <2> QED BY <1>1, <1>3, <1>6, <1>7, <1>8, <2>1 DEF RefsMeet
  <1>10. MapsMeet(x, y)
    <2>1. MapsMeet(mgr, u)
      BY DEF Meets
    <2> QED BY <1>1, <1>3, <1>6, <1>7, <1>8, <2>1 DEF MapsMeet
  <1>11. PrivsMeet(x)
    <2>1. PrivsMeet(mgr)
      BY DEF Meets
    <2> QED BY <1>3, <1>6, <1>7, <2>1 DEF PrivsMeet
  <1>12. CountMeets(x)
    <2>1. CountMeets(mgr)
      BY DEF Meets
    <2>2. Cardinality(D \ {b}) = Cardinality(D) - 1
      BY <1>1, FS_RemoveElement
    <2>3. Cardinality(D) > 0
      <3>1. Cardinality(D) # 0
        BY <1>1, FS_EmptySet
      <3> QED BY <1>1, <3>1
    <2>4. (Cardinality(D) - 1) % UIntMod = Cardinality(D) - 1
      BY <1>1, <2>3, Counting
    <2> QED BY <1>6, <1>7, <2>1, <2>2, <2>4 DEF CountMeets, n
  <1>13. LocksMeet(x, k)
    <2>1. LocksMeet(mgr, k) /\ LockType(x) = LockType(mgr) /\ PrivsMeet(mgr)
      BY <1>6 DEF Meets, LockType
    <2> SUFFICES ASSUME LocksKept(mgr.env)
                 PROVE  /\ \A c \in Bo : IF c \in DOMAIN x.bos THEN LockMeets(x, c, k[c])
                                         ELSE k[c] = 0
                        /\ \A q \in Priv \ PrivsInUse(x) : x.held[q] = 0
      BY <1>6 DEF LocksMeet
    <2>2. /\ \A c \in Bo : IF c \in D THEN LockMeets(mgr, c, k[c]) ELSE k[c] = 0
          /\ \A q \in Priv \ PrivsInUse(mgr) : mgr.held[q] = 0
      BY <2>1 DEF LocksMeet
    <2>3. ASSUME NEW c \in D \ {b} PROVE LockMeets(x, c, k[c])
      <3>1. mgr.bos[c].priv \in Priv /\ mgr.bos[c].priv # r.priv
        BY <1>1, <2>1 DEF BoRec, PrivsMeet
      <3>2. x.held[mgr.bos[c].priv] = mgr.held[mgr.bos[c].priv]
        BY <1>4, <1>6, <3>1
      <3>3. x.bos[c] = mgr.bos[c] /\ LockMeets(mgr, c, k[c])
        BY <1>1, <1>3, <1>6, <2>2
      <3> QED BY <2>1, <3>2, <3>3 DEF LockMeets
    <2>4. k[b] = 0
      OBVIOUS
    <2>5. h[r.priv] = 0
      <3>1. mgr.held[r.priv] = r.lock_cnt + k[b]
        BY <1>2, <2>2 DEF LockMeets
      <3> QED BY <1>2, <1>4, <2>4, <3>1
    <2>6. ASSUME NEW q \in Priv, q \notin PrivsInUse(x) PROVE x.held[q] = 0
      <3>1. CASE q = r.priv
        BY <1>6, <2>5, <3>1
      <3>2. CASE q # r.priv
        <4>1. q \notin PrivsInUse(mgr)
          BY <1>3, <1>6, <1>7, <2>6, <3>2 DEF PrivsInUse
        <4> QED BY <1>4, <1>6, <2>2, <3>2, <4>1
      <3> QED BY <3>1, <3>2
    <2> QED BY <1>7, <2>2, <2>3, <2>4, <2>6
  <1>14. BackMeet(x, P)
    <2>1. BackMeet(mgr, P)
      BY DEF Meets
    <2> QED BY <1>3, <1>6, <1>7, <2>1 DEF BackMeet
  <1>15. Meets(x, v, y, k, P)
    BY <1>6, <1>9, <1>10, <1>11, <1>12, <1>13, <1>14 DEF Meets
  <1> QED BY <1>15 DEF x, v, y

\* tbm_bo_unref: a reference fewer is expected, and no mapping of a bo that
\* goes with it.
LEMMA BoUnrefMeets ==
    ASSUME NEW mgr, NEW w \in Counts, NEW u \in Counts, NEW k \in Counts, NEW P,
           Meets(mgr, w, u, k, P), NEW b \in DOMAIN mgr.bos,
           LocksKept(mgr.env) /\ w[b] = 1 => k[b] = 0
    PROVE  Meets(BoUnref(mgr, b), [w EXCEPT ![b] = @ - 1],
                 IF w[b] = 1 THEN [u EXCEPT ![b] = 0] ELSE u, k, P)
  <1> DEFINE r == mgr.bos[b]
             v == [w EXCEPT ![b] = @ - 1]
  <1>1. /\ mgr \in Mgr /\ b \in Bo
        /\ r.ref_cnt = w[b] /\ w[b] > 0 /\ w[b] \in Nat
        /\ r.map_cnt = u[b] /\ u[b] \in Nat /\ k[b] \in Nat
        /\ LocksKept(mgr.env) => LockMeets(mgr, b, k[b])
        /\ r.surface # NULL => <<b, r.surface>> \in P
    BY MeetsAt
  <1>2. r \in BoRec /\ r.ref_cnt \in Int
    BY <1>1, BoOf
  <1>3. CASE w[b] = 1
    <2>1. BoUnref(mgr, b) = BoFree(mgr, b)
      BY <1>1, <1>3 DEF BoUnref
    <2>2. v = [w EXCEPT ![b] = 0]
      BY <1>3
    <2>3. Meets(BoFree(mgr, b), [w EXCEPT ![b] = 0], [u EXCEPT ![b] = 0], k, P)
      BY <1>3, BoFreeMeets
    <2> QED BY <1>3, <2>1, <2>2, <2>3
  <1>4. CASE w[b] # 1
    <2> DEFINE i == r.ref_cnt - 1
               x == [mgr EXCEPT !.bos[b].ref_cnt = i]
    <2>3. i \in Int /\ i = w[b] - 1
      BY <1>1, <1>2
    <2>4. NULL \in Surf \cup {NULL}
      OBVIOUS
    <2> HIDE DEF i
    <2>5. Touches(mgr, x, b) /\ x.bos[b] = [r EXCEPT !.ref_cnt = i] /\ x.held = mgr.held
      <3>1. Touches(mgr, x, b)
        BY <1>1, <2>3, <2>4, BoFieldChanged
      <3> QED BY <1>1, <2>3, <2>4, <3>1, BoFieldValues
    <2>6. /\ x.bos[b].ref_cnt = i /\ x.bos[b].map_cnt = r.map_cnt
          /\ x.bos[b].lock_cnt = r.lock_cnt /\ x.bos[b].priv = r.priv
          /\ x.bos[b].surface = r.surface
      <3> HIDE DEF x, r
      <3> QED BY <1>2, <2>5 DEF BoRec
    <2>7. v \in Counts /\ v[b] = w[b] - 1 /\ AlikeBut(b, w, v)
      BY <1>1, <1>4 DEF Counts, AlikeBut
    <2>8. x = BoUnref(mgr, b)
      BY <1>1, <1>4 DEF BoUnref, i
    <2>9. x.env = mgr.env
      BY <2>5 DEF Touches
    <2> HIDE DEF x, v
    <2>10. LocksKept(mgr.env) => LockMeets(x, b, k[b])
      BY <1>1, <2>5, <2>6, <2>9 DEF LockMeets, LockType
    <2>11. v[b] > 0 /\ x.bos[b].ref_cnt = v[b] /\ x.bos[b].map_cnt = u[b]
      BY <1>1, <1>4, <2>3, <2>6, <2>7
    <2>12. x.bos[b].surface # NULL => <<b, x.bos[b].surface>> \in P
      BY <1>1, <2>6
    <2> HIDE DEF r
    <2>13. Meets(x, v, u, k, P)
      BY <2>5, <2>7, <2>10, <2>11, <2>12, Alike, TouchMeets
    <2> QED BY <1>4, <2>8, <2>13 DEF v
  <1> QED BY <1>3, <1>4
\* A back pointer is set, to NULL or to s.
LEMMA SetSurfaceMeets ==
    ASSUME NEW mgr, NEW w \in Counts, NEW u \in Counts, NEW k \in Counts, NEW P,
           Meets(mgr, w, u, k, P), NEW b \in DOMAIN mgr.bos, NEW s \in Surf \cup {NULL},
           NEW Q, PairsBut(b, P, Q), s # NULL => <<b, s>> \in Q
    PROVE  Meets(SetSurface(mgr, b, s), w, u, k, Q)
  <1> DEFINE r == mgr.bos[b]
             x == [mgr EXCEPT !.bos[b].surface = s]
  <1>1. /\ mgr \in Mgr /\ b \in Bo
        /\ r.ref_cnt = w[b] /\ w[b] > 0 /\ w[b] \in Nat
        /\ r.map_cnt = u[b] /\ u[b] \in Nat /\ k[b] \in Nat
        /\ LocksKept(mgr.env) => LockMeets(mgr, b, k[b])
        /\ r.surface # NULL => <<b, r.surface>> \in P
    BY MeetsAt
  <1>2. r \in BoRec /\ 0 \in Int
    BY <1>1, BoOf
  <1>5. Touches(mgr, x, b) /\ x.bos[b] = [r EXCEPT !.surface = s] /\ x.held = mgr.held
    <2>1. Touches(mgr, x, b)
      BY <1>1, <1>2, BoFieldChanged
    <2> QED BY <1>1, <1>2, <2>1, BoFieldValues
  <1>6. /\ x.bos[b].ref_cnt = r.ref_cnt /\ x.bos[b].map_cnt = r.map_cnt
        /\ x.bos[b].lock_cnt = r.lock_cnt /\ x.bos[b].priv = r.priv
        /\ x.bos[b].surface = s
    <2> HIDE DEF x, r
    <2> QED BY <1>2, <1>5 DEF BoRec
  <1>8. x = SetSurface(mgr, b, s)
    BY DEF SetSurface
  <1>9. x.env = mgr.env
    BY <1>5 DEF Touches
  <1> HIDE DEF x
  <1>10. LocksKept(mgr.env) => LockMeets(x, b, k[b])
    BY <1>1, <1>5, <1>6, <1>9 DEF LockMeets, LockType
  <1>11. w[b] > 0 /\ x.bos[b].ref_cnt = w[b] /\ x.bos[b].map_cnt = u[b]
    BY <1>1, <1>6
  <1>12. x.bos[b].surface # NULL => <<b, x.bos[b].surface>> \in Q
    BY <1>6
  <1> HIDE DEF r
  <1>13. Meets(x, w, u, k, Q)
    BY <1>5, <1>10, <1>11, <1>12, Alike, TouchMeets
  <1> QED BY <1>8, <1>13
-----------------------------------------------------------------------------
(* Locks and mappings of one bo.                                           *)

\* x is mgr with i as lock_cnt and j as map_cnt of b, and h backend locks.
IsSet(mgr, x, b, i, j, h) ==
    /\ Touches(mgr, x, b)
    /\ x.bos[b].ref_cnt = mgr.bos[b].ref_cnt
    /\ x.bos[b].surface = mgr.bos[b].surface
    /\ x.bos[b].lock_cnt = i /\ x.bos[b].map_cnt = j
    /\ x.held[mgr.bos[b].priv] = h

\* A bo whose counts do not change.
LEMMA NotSet ==
    ASSUME NEW mgr \in Mgr, NEW b \in DOMAIN mgr.bos
    PROVE  IsSet(mgr, mgr, b, mgr.bos[b].lock_cnt, mgr.bos[b].map_cnt,
                 mgr.held[mgr.bos[b].priv])
BY DEF IsSet, Touches

\* The counts of a bo that has changed.
LEMMA SetCounts ==
    ASSUME NEW mgr \in Mgr, NEW b \in DOMAIN mgr.bos, NEW x,
           NEW i \in Int, NEW j \in Int, NEW h \in Int, IsSet(mgr, x, b, i, j, h),
           NEW n \in Int
    PROVE  /\ IsSet(mgr, [x EXCEPT !.bos[b].lock_cnt = n], b, n, j, h)
           /\ IsSet(mgr, [x EXCEPT !.bos[b].map_cnt = n], b, i, n, h)
           /\ IsSet(mgr, [x EXCEPT !.held[mgr.bos[b].priv] = n], b, i, j, n)
  <1>1. /\ x \in Mgr /\ b \in DOMAIN x.bos /\ NULL \in Surf \cup {NULL}
        /\ x.bos[b].priv = mgr.bos[b].priv
    BY DEF IsSet, Touches
  <1>2. b \in Bo /\ x.bos[b] \in BoRec /\ mgr.bos[b].priv \in Priv
    BY <1>1, BoOf
  <1>3. ASSUME NEW y, Touches(x, y, b) PROVE Touches(mgr, y, b)
    BY <1>3 DEF IsSet, Touches
  <1>4. IsSet(mgr, [x EXCEPT !.bos[b].lock_cnt = n], b, n, j, h)
    <2> DEFINE y == [x EXCEPT !.bos[b].lock_cnt = n]
    <2>1. Touches(x, y, b)
      BY <1>1, <1>2, BoFieldChanged
    <2>2. y.bos[b] = [x.bos[b] EXCEPT !.lock_cnt = n] /\ y.held = x.held
      BY <1>1, BoFieldValues
    <2> HIDE DEF y
    <2>3. /\ y.bos[b].ref_cnt = x.bos[b].ref_cnt /\ y.bos[b].surface = x.bos[b].surface
          /\ y.bos[b].lock_cnt = n /\ y.bos[b].map_cnt = x.bos[b].map_cnt
      BY <1>2, <2>2 DEF BoRec
    <2>4. Touches(mgr, y, b)
      BY <1>3, <2>1
    <2>5. IsSet(mgr, y, b, n, j, h)
      BY <2>2, <2>3, <2>4 DEF IsSet
    <2> QED BY <2>5 DEF y
  <1>5. IsSet(mgr, [x EXCEPT !.bos[b].map_cnt = n], b, i, n, h)
    <2> DEFINE y == [x EXCEPT !.bos[b].map_cnt = n]
    <2>1. Touches(x, y, b)
      BY <1>1, <1>2, BoFieldChanged
    <2>2. y.bos[b] = [x.bos[b] EXCEPT !.map_cnt = n] /\ y.held = x.held
      BY <1>1, BoFieldValues
    <2> HIDE DEF y
    <2>3. /\ y.bos[b].ref_cnt = x.bos[b].ref_cnt /\ y.bos[b].surface = x.bos[b].surface
          /\ y.bos[b].map_cnt = n /\ y.bos[b].lock_cnt = x.bos[b].lock_cnt
      BY <1>2, <2>2 DEF BoRec
    <2>4. Touches(mgr, y, b)
      BY <1>3, <2>1
    <2>5. IsSet(mgr, y, b, i, n, h)
      BY <2>2, <2>3, <2>4 DEF IsSet
    <2> QED BY <2>5 DEF y
  <1>6. IsSet(mgr, [x EXCEPT !.held[mgr.bos[b].priv] = n], b, i, j, n)
    <2> DEFINE p == mgr.bos[b].priv
               g == [x.held EXCEPT ![p] = n]
               y == [x EXCEPT !.held = g]
    <2>1. g \in [Priv -> Int] /\ g[p] = n /\ \A q \in Priv : q # p => g[q] = x.held[q]
      <3>1. x.held \in [Priv -> Int]
        BY <1>1, MgrFields
      <3> HIDE DEF p
      <3> QED BY <1>2, <3>1 DEF p
    <2>2. y.held = g /\ y.bos = x.bos /\ y.env = x.env /\ y.bo_cnt = x.bo_cnt /\ y \in Mgr
      <3> HIDE DEF g
      <3> QED BY <1>1, <2>1 DEF Mgr
    <2>3. y = [x EXCEPT !.held[mgr.bos[b].priv] = n]
      OBVIOUS
    <2> HIDE DEF y, g
    <2>4. Touches(x, y, b)
      BY <1>1, <2>1, <2>2 DEF Touches
    <2>5. Touches(mgr, y, b)
      BY <1>3, <2>4
    <2>6. IsSet(mgr, y, b, i, j, n)
      BY <2>1, <2>2, <2>5 DEF IsSet
    <2> QED BY <2>3, <2>6
  <1> QED BY <1>4, <1>5, <1>6

\* What has to hold for a manager with other locks and mappings of b.
LEMMA SetMeets ==
    ASSUME NEW mgr, NEW w \in Counts, NEW u \in Counts, NEW k \in Counts, NEW P,
           Meets(mgr, w, u, k, P), NEW b \in DOMAIN mgr.bos, NEW x,
           NEW i \in Int, NEW j \in Int, NEW h \in Int, IsSet(mgr, x, b, i, j, h),
           NEW y \in Counts, NEW l \in Counts, AlikeBut(b, u, y), AlikeBut(b, k, l),
           y[b] = j,
           LocksKept(mgr.env) =>
             /\ h = i + l[b]
             /\ LockType(mgr) = "TRY_ALWAYS" => i = j
             /\ LockType(mgr) = "TRY_ONCE" => i >= 0 /\ i + l[b] <= 1
             /\ LockType(mgr) = "TRY_NEVER" => i = 0 /\ l[b] = 0
    PROVE  Meets(x, w, y, l, P)
  <1> DEFINE r == mgr.bos[b]
  <1>1. /\ mgr \in Mgr /\ b \in Bo
        /\ r.ref_cnt = w[b] /\ w[b] > 0 /\ w[b] \in Nat
        /\ r.map_cnt = u[b] /\ u[b] \in Nat /\ k[b] \in Nat
        /\ LocksKept(mgr.env) => LockMeets(mgr, b, k[b])
        /\ r.surface # NULL => <<b, r.surface>> \in P
    BY MeetsAt
  <1>2. /\ Touches(mgr, x, b) /\ x.env = mgr.env /\ x.bos[b].priv = r.priv
        /\ x.bos[b].ref_cnt = r.ref_cnt /\ x.bos[b].surface = r.surface
        /\ x.bos[b].lock_cnt = i /\ x.bos[b].map_cnt = j /\ x.held[r.priv] = h
    BY DEF IsSet, Touches
  <1>3. LocksKept(mgr.env) => LockMeets(x, b, l[b])
    <2>1. LockType(x) = LockType(mgr)
      BY <1>2 DEF LockType
    <2> QED BY <1>2, <2>1 DEF LockMeets
  <1>4. w[b] > 0 /\ x.bos[b].ref_cnt = w[b] /\ x.bos[b].map_cnt = y[b]
    BY <1>1, <1>2
  <1>5. x.bos[b].surface # NULL => <<b, x.bos[b].surface>> \in P
    BY <1>1, <1>2
  <1> HIDE DEF r
  <1> QED BY <1>2, <1>3, <1>4, <1>5, Alike, TouchMeets
\* _tbm_bo_unlock
LEMMA UnlockSet ==
    ASSUME NEW mgr \in Mgr, NEW b \in DOMAIN mgr.bos, NEW x,
           NEW i \in Int, NEW j \in Int, NEW h \in Int, IsSet(mgr, x, b, i, j, h)
    PROVE  /\ LockType(mgr) = "TRY_NEVER" \/ i = 0 => IsSet(mgr, BoUnlock(x, b), b, i, j, h)
           /\ LockType(mgr) # "TRY_NEVER" /\ i # 0 =>
                IsSet(mgr, BoUnlock(x, b), b, i - 1, j,
                      IF LockType(mgr) = "TRY_ALWAYS" \/ i = 1 THEN h - 1 ELSE h)
  <1>1. /\ x.bos[b].lock_cnt = i /\ x.held[mgr.bos[b].priv] = h /\ x.env = mgr.env
        /\ x.bos[b].priv = mgr.bos[b].priv /\ x \in Mgr
    BY DEF IsSet, Touches
  <1>2. LockType(x) = LockType(mgr)
    BY <1>1 DEF LockType
  <1>3. ASSUME LockType(mgr) = "TRY_NEVER" \/ i = 0
        PROVE  IsSet(mgr, BoUnlock(x, b), b, i, j, h)
    BY <1>1, <1>2, <1>3 DEF BoUnlock
  <1>4. ASSUME LockType(mgr) # "TRY_NEVER", i # 0
        PROVE  IsSet(mgr, BoUnlock(x, b), b, i - 1, j,
                     IF LockType(mgr) = "TRY_ALWAYS" \/ i = 1 THEN h - 1 ELSE h)
    <2> DEFINE y == [x EXCEPT !.bos[b].lock_cnt = x.bos[b].lock_cnt - 1]
               p == x.bos[b].priv
               n == IF LockType(mgr) = "TRY_ALWAYS" \/ i = 1 THEN h - 1 ELSE h
               z == [y EXCEPT !.held[p] = IF LockType(x) = "TRY_ALWAYS"
                                               \/ x.bos[b].lock_cnt = 1
                                          THEN @ - 1 ELSE @]
    <2>1. i - 1 \in Int /\ n \in Int
      OBVIOUS
    <2>2. IsSet(mgr, y, b, i - 1, j, h)
      <3>1. y = [x EXCEPT !.bos[b].lock_cnt = i - 1]
        BY <1>1
      <3>2. ASSUME NEW q \in Int PROVE IsSet(mgr, [x EXCEPT !.bos[b].lock_cnt = q], b, q, j, h)
        BY SetCounts
      <3>3. IsSet(mgr, [x EXCEPT !.bos[b].lock_cnt = i - 1], b, i - 1, j, h)
        BY <2>1, <3>2
      <3> QED BY <3>1, <3>3
    <2>3. y.held[p] = h
      <3> HIDE DEF y
      <3> QED BY <1>1, <2>2 DEF IsSet
    <2>4. z = [y EXCEPT !.held[mgr.bos[b].priv] = n]
      <3> HIDE DEF y
      <3> QED BY <1>1, <1>2, <2>3
    <2>5. BoUnlock(x, b) = z
      BY <1>1, <1>2, <1>4 DEF BoUnlock
    <2> HIDE DEF y, z
    <2>6. IsSet(mgr, [y EXCEPT !.held[mgr.bos[b].priv] = n], b, i - 1, j, n)
      <3> HIDE DEF n
      <3> QED BY <2>1, <2>2, SetCounts
    <2> QED BY <2>4, <2>5, <2>6
  <1> QED BY <1>3, <1>4

\* The lock types of the backends.
LEMMA LockTypes ==
    ASSUME NEW mgr
    PROVE  LockType(mgr) \in {"TRY_ALWAYS", "TRY_NEVER", "TRY_ONCE"}
BY DEF LockType

\* What a manager's locks and mappings of a bo are to start with.
StartSet(mgr, u, k, b) ==
    /\ mgr \in Mgr /\ b \in Bo
    /\ mgr.bos[b].lock_cnt \in Int /\ mgr.bos[b].map_cnt \in Int
    /\ mgr.held[mgr.bos[b].priv] \in Int
    /\ IsSet(mgr, mgr, b, mgr.bos[b].lock_cnt, mgr.bos[b].map_cnt,
             mgr.held[mgr.bos[b].priv])
    /\ mgr.bos[b].map_cnt = u[b] /\ u[b] \in Nat /\ k[b] \in Nat
    /\ LocksKept(mgr.env) =>
         /\ mgr.held[mgr.bos[b].priv] = mgr.bos[b].lock_cnt + k[b]
         /\ LockType(mgr) = "TRY_ALWAYS" => mgr.bos[b].lock_cnt = mgr.bos[b].map_cnt
         /\ LockType(mgr) = "TRY_ONCE" => mgr.bos[b].lock_cnt >= 0
                                          /\ mgr.bos[b].lock_cnt + k[b] <= 1
         /\ LockType(mgr) = "TRY_NEVER" => mgr.bos[b].lock_cnt = 0 /\ k[b] = 0

\* What is known of the bo before its counts change.
LEMMA SetStart ==
    ASSUME NEW mgr, NEW w \in Counts, NEW u \in Counts, NEW k \in Counts, NEW P,
           Meets(mgr, w, u, k, P), NEW b \in DOMAIN mgr.bos
    PROVE  StartSet(mgr, u, k, b)
  <1>1. /\ mgr \in Mgr /\ b \in Bo
        /\ mgr.bos[b].ref_cnt = w[b] /\ w[b] > 0 /\ w[b] \in Nat
        /\ mgr.bos[b].map_cnt = u[b] /\ u[b] \in Nat /\ k[b] \in Nat
        /\ LocksKept(mgr.env) => LockMeets(mgr, b, k[b])
        /\ mgr.bos[b].surface # NULL => <<b, mgr.bos[b].surface>> \in P
    BY MeetsAt
  <1>2. mgr.bos[b].lock_cnt \in Int /\ mgr.bos[b].map_cnt \in Int /\ mgr.bos[b].priv \in Priv
    BY <1>1, BoOf
  <1>3. mgr.held[mgr.bos[b].priv] \in Int
    BY <1>1, <1>2, MgrFields
  <1>4. IsSet(mgr, mgr, b, mgr.bos[b].lock_cnt, mgr.bos[b].map_cnt,
              mgr.held[mgr.bos[b].priv])
    BY <1>1, NotSet
  <1> QED BY <1>1, <1>2, <1>3, <1>4 DEF LockMeets, StartSet

\* The backend maps a bo for which no lock is needed, ...
LEMMA MapPlainMeets ==
    ASSUME NEW mgr, NEW w \in Counts, NEW u \in Counts, NEW k \in Counts, NEW P,
           Meets(mgr, w, u, k, P), NEW b \in DOMAIN mgr.bos, ~NeedsLock(mgr, b)
    PROVE  Meets([mgr EXCEPT !.bos[b].map_cnt = @ + 1], w, [u EXCEPT ![b] = @ + 1], k, P)
  <1> DEFINE i == mgr.bos[b].lock_cnt
             j == mgr.bos[b].map_cnt
             h == mgr.held[mgr.bos[b].priv]
             x == [mgr EXCEPT !.bos[b].map_cnt = j + 1]
             y == [u EXCEPT ![b] = @ + 1]
  <1>1. /\ mgr \in Mgr /\ b \in Bo /\ i \in Int /\ j \in Int /\ h \in Int
        /\ IsSet(mgr, mgr, b, i, j, h)
        /\ j = u[b] /\ u[b] \in Nat /\ k[b] \in Nat
        /\ LocksKept(mgr.env) =>
             /\ h = i + k[b]
             /\ LockType(mgr) = "TRY_ALWAYS" => i = j
             /\ LockType(mgr) = "TRY_ONCE" => i >= 0 /\ i + k[b] <= 1
             /\ LockType(mgr) = "TRY_NEVER" => i = 0 /\ k[b] = 0
    BY SetStart DEF StartSet
  <1>2. LockType(mgr) # "TRY_ALWAYS"
    BY DEF NeedsLock
  <1>3. y \in Counts /\ AlikeBut(b, u, y) /\ y[b] = j + 1 /\ j + 1 \in Int
    BY <1>1 DEF Counts, AlikeBut
  <1> HIDE DEF i, j, h, y
  <1>4. IsSet(mgr, x, b, i, j + 1, h)
    BY <1>1, <1>3, SetCounts
  <1>5. LocksKept(mgr.env) =>
          /\ h = i + k[b]
          /\ LockType(mgr) = "TRY_ALWAYS" => i = j + 1
          /\ LockType(mgr) = "TRY_ONCE" => i >= 0 /\ i + k[b] <= 1
          /\ LockType(mgr) = "TRY_NEVER" => i = 0 /\ k[b] = 0
    BY <1>1, <1>2
  <1> HIDE DEF x
  <1>6. Meets(x, w, y, k, P)
    BY <1>1, <1>3, <1>4, <1>5, Alike, SetMeets
  <1> QED BY <1>6 DEF x, y, j

\* ... or fails to.
LEMMA FailPlainMeets ==
    ASSUME NEW mgr, NEW w \in Counts, NEW u \in Counts, NEW k \in Counts, NEW P,
           Meets(mgr, w, u, k, P), NEW b \in DOMAIN mgr.bos, ~NeedsLock(mgr, b)
    PROVE  Meets(BoUnlock(mgr, b), w, u, k, P)
  <1> DEFINE i == mgr.bos[b].lock_cnt
             j == mgr.bos[b].map_cnt
             h == mgr.held[mgr.bos[b].priv]
             x == BoUnlock(mgr, b)
             n == IF LockType(mgr) = "TRY_ALWAYS" \/ i = 1 THEN h - 1 ELSE h
  <1>1. /\ mgr \in Mgr /\ b \in Bo /\ i \in Int /\ j \in Int /\ h \in Int
        /\ IsSet(mgr, mgr, b, i, j, h)
        /\ j = u[b] /\ u[b] \in Nat /\ k[b] \in Nat
        /\ LocksKept(mgr.env) =>
             /\ h = i + k[b]
             /\ LockType(mgr) = "TRY_ALWAYS" => i = j
             /\ LockType(mgr) = "TRY_ONCE" => i >= 0 /\ i + k[b] <= 1
             /\ LockType(mgr) = "TRY_NEVER" => i = 0 /\ k[b] = 0
    BY SetStart DEF StartSet
  <1>2. LockType(mgr) # "TRY_ALWAYS"
    BY DEF NeedsLock
  <1> HIDE DEF i, j, h
  <1>3. /\ LockType(mgr) = "TRY_NEVER" \/ i = 0 => IsSet(mgr, x, b, i, j, h)
        /\ LockType(mgr) # "TRY_NEVER" /\ i # 0 => IsSet(mgr, x, b, i - 1, j, n)
    BY <1>1, UnlockSet
  <1> HIDE DEF x
  <1>4. ASSUME LockType(mgr) = "TRY_NEVER" \/ i = 0
        PROVE  Meets(x, w, u, k, P)
    BY <1>1, <1>3, <1>4, Alike, SetMeets
  <1>5. ASSUME LockType(mgr) # "TRY_NEVER" /\ i # 0
        PROVE  Meets(x, w, u, k, P)
    <2>1. i - 1 \in Int /\ n \in Int
      BY <1>1
    <2>2. LocksKept(mgr.env) =>
          /\ n = (i - 1) + k[b]
          /\ LockType(mgr) = "TRY_ALWAYS" => i - 1 = j
          /\ LockType(mgr) = "TRY_ONCE" => i - 1 >= 0 /\ (i - 1) + k[b] <= 1
          /\ LockType(mgr) = "TRY_NEVER" => i - 1 = 0 /\ k[b] = 0
      BY <1>1, <1>2, <1>5, LockTypes
    <2> HIDE DEF n
    <2> QED BY <1>1, <1>3, <1>5, <2>1, <2>2, Alike, SetMeets
  <1>6. Meets(x, w, u, k, P)
    BY <1>4, <1>5
  <1> QED BY <1>6 DEF x
\* The lock that the backend took is counted.
Relocked(mgr, b) == [mgr EXCEPT !.bos[b].lock_cnt = @ + 1]

\* The backend maps a bo that it has locked, ...
LEMMA MapLockedMeets ==
    ASSUME NEW mgr, NEW w \in Counts, NEW u \in Counts, NEW k \in Counts, NEW P,
           Meets(mgr, w, u, k, P), NEW b \in DOMAIN mgr.bos, k[b] > 0
    PROVE  Meets([Relocked(mgr, b) EXCEPT !.bos[b].map_cnt = @ + 1],
                 w, [u EXCEPT ![b] = @ + 1], [k EXCEPT ![b] = @ - 1], P)
  <1> DEFINE i == mgr.bos[b].lock_cnt
             j == mgr.bos[b].map_cnt
             h == mgr.held[mgr.bos[b].priv]
             x == [mgr EXCEPT !.bos[b].lock_cnt = i + 1]
             z == [x EXCEPT !.bos[b].map_cnt = j + 1]
             y == [u EXCEPT ![b] = @ + 1]
             l == [k EXCEPT ![b] = @ - 1]
  <1>1. /\ mgr \in Mgr /\ b \in Bo /\ i \in Int /\ j \in Int /\ h \in Int
        /\ IsSet(mgr, mgr, b, i, j, h)
        /\ j = u[b] /\ u[b] \in Nat /\ k[b] \in Nat
        /\ LocksKept(mgr.env) =>
             /\ h = i + k[b]
             /\ LockType(mgr) = "TRY_ALWAYS" => i = j
             /\ LockType(mgr) = "TRY_ONCE" => i >= 0 /\ i + k[b] <= 1
             /\ LockType(mgr) = "TRY_NEVER" => i = 0 /\ k[b] = 0
    BY SetStart DEF StartSet
  <1>2. y \in Counts /\ AlikeBut(b, u, y) /\ y[b] = j + 1 /\ j + 1 \in Int /\ i + 1 \in Int
    BY <1>1 DEF Counts, AlikeBut
  <1>3. l \in Counts /\ AlikeBut(b, k, l) /\ l[b] = k[b] - 1
    BY <1>1 DEF Counts, AlikeBut
  <1>4. x = Relocked(mgr, b)
    BY DEF Relocked
  <1> HIDE DEF i, j, h, y, l
  <1>5. IsSet(mgr, x, b, i + 1, j, h)
    <2>1. ASSUME NEW q \in Int PROVE IsSet(mgr, [mgr EXCEPT !.bos[b].lock_cnt = q], b, q, j, h)
      BY <1>1, SetCounts
    <2> QED BY <1>2, <2>1
  <1> HIDE DEF x
  <1>6. IsSet(mgr, z, b, i + 1, j + 1, h)
    <2> DEFINE i1 == i + 1
    <2>1. IsSet(mgr, x, b, i1, j, h) /\ i1 \in Int
      BY <1>2, <1>5
    <2> HIDE DEF i1
    <2>2. ASSUME NEW q \in Int PROVE IsSet(mgr, [x EXCEPT !.bos[b].map_cnt = q], b, i1, q, h)
      BY <1>1, <2>1, SetCounts
    <2>3. IsSet(mgr, z, b, i1, j + 1, h)
      BY <1>2, <2>2
    <2> QED BY <2>3 DEF i1
  <1>7. x.bos[b].map_cnt = j
    BY <1>5 DEF IsSet
  <1>8. LocksKept(mgr.env) =>
          /\ h = (i + 1) + l[b]
          /\ LockType(mgr) = "TRY_ALWAYS" => i + 1 = j + 1
          /\ LockType(mgr) = "TRY_ONCE" => i + 1 >= 0 /\ (i + 1) + l[b] <= 1
          /\ LockType(mgr) = "TRY_NEVER" => i + 1 = 0 /\ l[b] = 0
    BY <1>1, <1>3
  <1>9. z = [x EXCEPT !.bos[b].map_cnt = @ + 1]
    BY <1>7
  <1> HIDE DEF z
  <1>10. Meets(z, w, y, l, P)
    <2> DEFINE i1 == i + 1
               j1 == j + 1
    <2>1. /\ IsSet(mgr, z, b, i1, j1, h) /\ i1 \in Int /\ j1 \in Int /\ y[b] = j1
          /\ LocksKept(mgr.env) =>
               /\ h = i1 + l[b]
               /\ LockType(mgr) = "TRY_ALWAYS" => i1 = j1
               /\ LockType(mgr) = "TRY_ONCE" => i1 >= 0 /\ i1 + l[b] <= 1
               /\ LockType(mgr) = "TRY_NEVER" => i1 = 0 /\ l[b] = 0
      BY <1>2, <1>6, <1>8
    <2> HIDE DEF i1, j1
    <2> QED BY <1>1, <1>2, <1>3, <2>1, SetMeets
  <1> QED BY <1>4, <1>9, <1>10 DEF y, l

\* ... or fails to, and the lock is undone.
LEMMA FailLockedMeets ==
    ASSUME NEW mgr, NEW w \in Counts, NEW u \in Counts, NEW k \in Counts, NEW P,
           Meets(mgr, w, u, k, P), NEW b \in DOMAIN mgr.bos, k[b] > 0,
           LocksKept(mgr.env) /\ LockType(mgr) = "TRY_ONCE" => mgr.bos[b].lock_cnt = 0
    PROVE  Meets(BoUnlock(Relocked(mgr, b), b), w, u, [k EXCEPT ![b] = @ - 1], P)
  <1> DEFINE i == mgr.bos[b].lock_cnt
             j == mgr.bos[b].map_cnt
             h == mgr.held[mgr.bos[b].priv]
             x == [mgr EXCEPT !.bos[b].lock_cnt = i + 1]
             z == BoUnlock(x, b)
             l == [k EXCEPT ![b] = @ - 1]
             i1 == i + 1
             n == IF LockType(mgr) = "TRY_ALWAYS" \/ i1 = 1 THEN h - 1 ELSE h
  <1>1. /\ mgr \in Mgr /\ b \in Bo /\ i \in Int /\ j \in Int /\ h \in Int
        /\ IsSet(mgr, mgr, b, i, j, h)
        /\ j = u[b] /\ u[b] \in Nat /\ k[b] \in Nat
        /\ LocksKept(mgr.env) =>
             /\ h = i + k[b]
             /\ LockType(mgr) = "TRY_ALWAYS" => i = j
             /\ LockType(mgr) = "TRY_ONCE" => i >= 0 /\ i + k[b] <= 1
             /\ LockType(mgr) = "TRY_NEVER" => i = 0 /\ k[b] = 0
    BY SetStart DEF StartSet
  <1>a. LocksKept(mgr.env) /\ LockType(mgr) = "TRY_ONCE" => i = 0
    OBVIOUS
  <1>3. l \in Counts /\ AlikeBut(b, k, l) /\ l[b] = k[b] - 1
    BY <1>1 DEF Counts, AlikeBut
  <1>4. x = Relocked(mgr, b)
    BY DEF Relocked
  <1> HIDE DEF i, j, h, l
  <1>5. IsSet(mgr, x, b, i1, j, h) /\ i1 \in Int
    <2>0. i1 \in Int
      BY <1>1
    <2>1. ASSUME NEW q \in Int PROVE IsSet(mgr, [mgr EXCEPT !.bos[b].lock_cnt = q], b, q, j, h)
      BY <1>1, SetCounts
    <2> QED BY <2>0, <2>1
  <1> HIDE DEF x
  <1>6. /\ LockType(mgr) = "TRY_NEVER" \/ i1 = 0 => IsSet(mgr, z, b, i1, j, h)
        /\ LockType(mgr) # "TRY_NEVER" /\ i1 # 0 => IsSet(mgr, z, b, i1 - 1, j, n)
    <2> HIDE DEF i1
    <2> QED BY <1>1, <1>5, UnlockSet
  <1> HIDE DEF z
  <1>7. ASSUME LockType(mgr) = "TRY_NEVER" \/ i1 = 0 PROVE Meets(z, w, u, l, P)
    <2>1. LocksKept(mgr.env) => FALSE
      BY <1>1, <1>a, <1>7, LockTypes
    <2> HIDE DEF i1
    <2> QED BY <1>1, <1>3, <1>5, <1>6, <1>7, <2>1, Alike, SetMeets
  <1>8. ASSUME LockType(mgr) # "TRY_NEVER" /\ i1 # 0 PROVE Meets(z, w, u, l, P)
    <2> DEFINE i2 == i1 - 1
    <2>1. i2 \in Int /\ n \in Int /\ i2 = i
      BY <1>1
    <2>2. LocksKept(mgr.env) =>
          /\ n = i2 + l[b]
          /\ LockType(mgr) = "TRY_ALWAYS" => i2 = j
          /\ LockType(mgr) = "TRY_ONCE" => i2 >= 0 /\ i2 + l[b] <= 1
          /\ LockType(mgr) = "TRY_NEVER" => i2 = 0 /\ l[b] = 0
      BY <1>1, <1>3, <1>a, <1>8, LockTypes
    <2>3. IsSet(mgr, z, b, i2, j, n)
      BY <1>6, <1>8
    <2> HIDE DEF n, i1, i2
    <2> QED BY <1>1, <1>3, <2>1, <2>2, <2>3, Alike, SetMeets
  <1>9. Meets(z, w, u, l, P)
    BY <1>7, <1>8
  <1> QED BY <1>4, <1>9 DEF z, l

\* The backend locks a bo, which it is asked to only if this is so.
Lockable(mgr, b, n) ==
    /\ LockType(mgr) # "TRY_NEVER"
    /\ LockType(mgr) = "TRY_ONCE" => mgr.bos[b].lock_cnt = 0 /\ n = 0

\* The backend locks a bo: one lock more that is not yet counted.
LEMMA BackendLockMeets ==
    ASSUME NEW mgr, NEW w \in Counts, NEW u \in Counts, NEW k \in Counts, NEW P,
           Meets(mgr, w, u, k, P), NEW b \in DOMAIN mgr.bos,
           LocksKept(mgr.env) => Lockable(mgr, b, k[b])
    PROVE  Meets([mgr EXCEPT !.held[mgr.bos[b].priv] = @ + 1], w, u,
                 [k EXCEPT ![b] = @ + 1], P)
  <1> DEFINE i == mgr.bos[b].lock_cnt
             j == mgr.bos[b].map_cnt
             h == mgr.held[mgr.bos[b].priv]
             h1 == h + 1
             x == [mgr EXCEPT !.held[mgr.bos[b].priv] = h + 1]
             l == [k EXCEPT ![b] = @ + 1]
  <1>1. /\ mgr \in Mgr /\ b \in Bo /\ i \in Int /\ j \in Int /\ h \in Int
        /\ IsSet(mgr, mgr, b, i, j, h)
        /\ j = u[b] /\ u[b] \in Nat /\ k[b] \in Nat
        /\ LocksKept(mgr.env) =>
             /\ h = i + k[b]
             /\ LockType(mgr) = "TRY_ALWAYS" => i = j
             /\ LockType(mgr) = "TRY_ONCE" => i >= 0 /\ i + k[b] <= 1
             /\ LockType(mgr) = "TRY_NEVER" => i = 0 /\ k[b] = 0
    <2>1. StartSet(mgr, u, k, b)
      BY SetStart
    <2> QED BY <2>1 DEF StartSet
  <1>a. LocksKept(mgr.env) => /\ LockType(mgr) # "TRY_NEVER"
                              /\ LockType(mgr) = "TRY_ONCE" => i = 0 /\ k[b] = 0
    BY DEF Lockable
  <1>3. l \in Counts /\ AlikeBut(b, k, l) /\ l[b] = k[b] + 1
    BY <1>1 DEF Counts, AlikeBut
  <1>4. x = [mgr EXCEPT !.held[mgr.bos[b].priv] = @ + 1]
    OBVIOUS
  <1> HIDE DEF i, j, l
  <1>5. IsSet(mgr, x, b, i, j, h1) /\ h1 \in Int
    <2>0. h1 \in Int
      BY <1>1
    <2>1. ASSUME NEW q \in Int
          PROVE  IsSet(mgr, [mgr EXCEPT !.held[mgr.bos[b].priv] = q], b, i, j, q)
      <3> HIDE DEF h
      <3> QED BY <1>1, SetCounts
    <2> QED BY <2>0, <2>1
  <1> HIDE DEF x
  <1>6. LocksKept(mgr.env) =>
          /\ h1 = i + l[b]
          /\ LockType(mgr) = "TRY_ALWAYS" => i = j
          /\ LockType(mgr) = "TRY_ONCE" => i >= 0 /\ i + l[b] <= 1
          /\ LockType(mgr) = "TRY_NEVER" => i = 0 /\ l[b] = 0
    <2> HIDE DEF h
    <2> QED BY <1>1, <1>3, <1>a
  <1> HIDE DEF h, h1
  <1>7. Meets(x, w, u, l, P)
    BY <1>1, <1>3, <1>5, <1>6, Alike, SetMeets
  <1> QED BY <1>4, <1>7 DEF l

\* tbm_bo_unmap
LEMMA BoUnmapMeets ==
    ASSUME NEW mgr, NEW w \in Counts, NEW u \in Counts, NEW k \in Counts, NEW P,
           Meets(mgr, w, u, k, P), NEW b \in DOMAIN mgr.bos, u[b] > 0
    PROVE  Meets(BoUnmap(mgr, b), w, [u EXCEPT ![b] = @ - 1], k, P)
  <1> DEFINE i == mgr.bos[b].lock_cnt
             j == mgr.bos[b].map_cnt
             h == mgr.held[mgr.bos[b].priv]
             j1 == j - 1
             x == [mgr EXCEPT !.bos[b].map_cnt = j - 1]
             z == BoUnlock(x, b)
             y == [u EXCEPT ![b] = @ - 1]
             n == IF LockType(mgr) = "TRY_ALWAYS" \/ i = 1 THEN h - 1 ELSE h
  <1>1. /\ mgr \in Mgr /\ b \in Bo /\ i \in Int /\ j \in Int /\ h \in Int
        /\ IsSet(mgr, mgr, b, i, j, h)
        /\ j = u[b] /\ u[b] \in Nat /\ k[b] \in Nat
        /\ LocksKept(mgr.env) =>
             /\ h = i + k[b]
             /\ LockType(mgr) = "TRY_ALWAYS" => i = j
             /\ LockType(mgr) = "TRY_ONCE" => i >= 0 /\ i + k[b] <= 1
             /\ LockType(mgr) = "TRY_NEVER" => i = 0 /\ k[b] = 0
    BY SetStart DEF StartSet
  <1>3. y \in Counts /\ AlikeBut(b, u, y) /\ y[b] = j1 /\ j1 \in Int
    BY <1>1 DEF Counts, AlikeBut
  <1>4. z = BoUnmap(mgr, b)
    BY DEF BoUnmap
  <1> HIDE DEF i, j, h, y
  <1>5. IsSet(mgr, x, b, i, j1, h)
    <2>1. ASSUME NEW q \in Int PROVE IsSet(mgr, [mgr EXCEPT !.bos[b].map_cnt = q], b, i, q, h)
      BY <1>1, SetCounts
    <2> QED BY <1>3, <2>1
  <1> HIDE DEF x
  <1>6. /\ LockType(mgr) = "TRY_NEVER" \/ i = 0 => IsSet(mgr, z, b, i, j1, h)
        /\ LockType(mgr) # "TRY_NEVER" /\ i # 0 => IsSet(mgr, z, b, i - 1, j1, n)
    <2> HIDE DEF j1
    <2> QED BY <1>1, <1>3, <1>5, UnlockSet
  <1> HIDE DEF z
  <1>7. ASSUME LockType(mgr) = "TRY_NEVER" \/ i = 0 PROVE Meets(z, w, y, k, P)
    <2>1. LocksKept(mgr.env) =>
          /\ h = i + k[b]
          /\ LockType(mgr) = "TRY_ALWAYS" => i = j1
          /\ LockType(mgr) = "TRY_ONCE" => i >= 0 /\ i + k[b] <= 1
          /\ LockType(mgr) = "TRY_NEVER" => i = 0 /\ k[b] = 0
      BY <1>1, <1>7
    <2> HIDE DEF j1
    <2> QED BY <1>1, <1>3, <1>6, <1>7, <2>1, Alike, SetMeets
  <1>8. ASSUME LockType(mgr) # "TRY_NEVER" /\ i # 0 PROVE Meets(z, w, y, k, P)
    <2> DEFINE i2 == i - 1
    <2>1. i2 \in Int /\ n \in Int
      BY <1>1
    <2>2. LocksKept(mgr.env) =>
          /\ n = i2 + k[b]
          /\ LockType(mgr) = "TRY_ALWAYS" => i2 = j1
          /\ LockType(mgr) = "TRY_ONCE" => i2 >= 0 /\ i2 + k[b] <= 1
          /\ LockType(mgr) = "TRY_NEVER" => i2 = 0 /\ k[b] = 0
      BY <1>1, <1>8, LockTypes
    <2>3. IsSet(mgr, z, b, i2, j1, n)
      BY <1>6, <1>8
    <2> HIDE DEF n, i2, j1
    <2> QED BY <1>1, <1>3, <2>1, <2>2, <2>3, Alike, SetMeets
  <1>9. Meets(z, w, y, k, P)
    BY <1>7, <1>8
  <1> QED BY <1>4, <1>9 DEF y

\* Only the reference count of the manager changes.
LEMMA RefCountMeets ==
    ASSUME NEW mgr, NEW w, NEW u, NEW k, NEW P, Meets(mgr, w, u, k, P), NEW n \in Nat
    PROVE  /\ Meets([mgr EXCEPT !.ref_count = n], w, u, k, P)
           /\ [mgr EXCEPT !.ref_count = n].ref_count = n
           /\ [mgr EXCEPT !.ref_count = n].bos = mgr.bos
           /\ [mgr EXCEPT !.ref_count = n].env = mgr.env
  <1> DEFINE x == [mgr EXCEPT !.ref_count = n]
  <1>0. mgr \in Mgr
    BY DEF Meets
  <1>1. /\ x \in Mgr /\ x.bos = mgr.bos /\ x.held = mgr.held /\ x.env = mgr.env
        /\ x.bo_cnt = mgr.bo_cnt /\ x.ref_count = n
    BY <1>0 DEF Mgr
  <1> HIDE DEF x
  <1>2. LockType(x) = LockType(mgr) /\ PrivsInUse(x) = PrivsInUse(mgr)
    BY <1>1 DEF LockType, PrivsInUse
  <1>3. ASSUME NEW b, NEW j PROVE LockMeets(mgr, b, j) => LockMeets(x, b, j)
    BY <1>1, <1>2 DEF LockMeets
  <1>4. LocksMeet(x, k)
    BY <1>1, <1>2, <1>3 DEF LocksMeet, Meets
  <1>5. RefsMeet(x, w) /\ MapsMeet(x, u) /\ PrivsMeet(x) /\ CountMeets(x) /\ BackMeet(x, P)
    BY <1>1 DEF Meets, RefsMeet, MapsMeet, PrivsMeet, CountMeets, BackMeet
  <1>6. Meets(x, w, u, k, P)
    BY <1>1, <1>4, <1>5 DEF Meets
  <1> QED BY <1>1, <1>6 DEF x

\* An import of a backend object that a bo has is a reference to that bo.
LEMMA ImportMeets ==
    ASSUME NEW mgr, NEW w \in Counts, NEW u \in Counts, NEW k \in Counts, NEW P,
           Meets(mgr, w, u, k, P), NEW p, NEW b,
           NEW c \in DOMAIN mgr.bos, mgr.bos[c].priv = p
    PROVE  /\ Meets(BoImport(mgr, b, p), [w EXCEPT ![c] = @ + 1], u, k, P)
           /\ BoImport(mgr, b, p).env = mgr.env
           /\ BoImport(mgr, b, p).ref_count = mgr.ref_count
           /\ DOMAIN BoImport(mgr, b, p).bos = DOMAIN mgr.bos
           /\ \A d \in DOMAIN mgr.bos :
                BoImport(mgr, b, p).bos[d].lock_cnt = mgr.bos[d].lock_cnt
  <1>0. mgr \in Mgr /\ PrivsMeet(mgr)
    BY DEF Meets
  <1>1. c \in DOMAIN mgr.bos /\ mgr.bos[c].priv = p /\ p \in PrivsInUse(mgr)
    BY DEF PrivsInUse
  <1>2. \A d \in DOMAIN mgr.bos : mgr.bos[d].priv = p <=> d = c
    BY <1>0, <1>1 DEF PrivsMeet
  <1> DEFINE f == mgr.bos
             D == DOMAIN mgr.bos
             g == [d \in D |-> IF f[d].priv = p THEN [f[d] EXCEPT !.ref_cnt = @ + 1]
                                                ELSE f[d]]
             x == [mgr EXCEPT !.bos = g]
             v == [w EXCEPT ![c] = @ + 1]
  <1>3. f \in [D -> BoRec] /\ D \in SUBSET Bo
    BY <1>0, MgrFields
  <1>4. /\ f[c] \in BoRec /\ f[c].ref_cnt \in Int /\ f[c].ref_cnt = w[c] /\ w[c] > 0 /\ w[c] \in Nat /\ c \in Bo
        /\ f[c].map_cnt = u[c]
        /\ LocksKept(mgr.env) => LockMeets(mgr, c, k[c])
        /\ f[c].surface # NULL => <<c, f[c].surface>> \in P
    <2>1. f[c] \in BoRec /\ f[c].ref_cnt \in Int
      BY <1>0, <1>1, BoOf
    <2> QED BY <1>1, <2>1, MeetsAt
  <1>5. [f[c] EXCEPT !.ref_cnt = @ + 1] \in BoRec
    <2>1. ASSUME NEW r \in BoRec PROVE [r EXCEPT !.ref_cnt = @ + 1] \in BoRec
      BY DEF BoRec
    <2> QED BY <1>4, <2>1
  <1>6. /\ g[c] = [f[c] EXCEPT !.ref_cnt = @ + 1]
        /\ \A d \in D : d # c => g[d] = f[d]
    <2> HIDE DEF f
    <2> QED BY <1>1, <1>2 DEF f
  <1>7. g \in [D -> BoRec] /\ DOMAIN g = D
    <2>1. \A d \in D : g[d] \in BoRec
      <3> HIDE DEF g, f, D
      <3> QED BY <1>3, <1>5, <1>6
    <2> HIDE DEF f, D
    <2> QED BY <2>1
  <1>8. g \in BoTable
    <2> HIDE DEF g, D
    <2> QED BY <1>3, <1>7, TableMade
  <1>9. /\ g[c].ref_cnt = w[c] + 1 /\ g[c].lock_cnt = f[c].lock_cnt
        /\ g[c].map_cnt = f[c].map_cnt /\ g[c].surface = f[c].surface
        /\ g[c].priv = f[c].priv
    <2> HIDE DEF g, f
    <2> QED BY <1>4, <1>6 DEF BoRec
  <1>10. BoImport(mgr, b, p) = x
    BY <1>1, Zenon DEF BoImport
  <1>11. /\ x \in Mgr /\ x.bos = g /\ x.held = mgr.held /\ x.env = mgr.env
         /\ x.bo_cnt = mgr.bo_cnt /\ x.ref_count = mgr.ref_count
    <2> HIDE DEF g
    <2> QED BY <1>0, <1>8 DEF Mgr
  <1> HIDE DEF x, g
  <1>12. Touches(mgr, x, c)
    BY <1>6, <1>7, <1>9, <1>11 DEF Touches
  <1>13. v \in Counts /\ v[c] = w[c] + 1 /\ v[c] > 0 /\ AlikeBut(c, w, v)
    BY <1>4 DEF Counts, AlikeBut
  <1>14. LocksKept(mgr.env) => LockMeets(x, c, k[c])
    <2>1. LockType(x) = LockType(mgr)
      BY <1>11 DEF LockType
    <2> QED BY <1>4, <1>9, <1>11, <2>1 DEF LockMeets
  <1>15. AlikeBut(c, u, u) /\ AlikeBut(c, k, k) /\ PairsBut(c, P, P)
    BY Alike
  <1>16. /\ x.bos[c].ref_cnt = v[c] /\ x.bos[c].map_cnt = u[c]
         /\ x.bos[c].surface # NULL => <<c, x.bos[c].surface>> \in P
    <2> HIDE DEF v
    <2> QED BY <1>4, <1>9, <1>11, <1>13
  <1>17. Meets(x, v, u, k, P)
    <2> HIDE DEF v, f, D
    <2> QED BY <1>1, <1>12, <1>13, <1>14, <1>15, <1>16, TouchMeets
  <1>18. \A d \in D : x.bos[d].lock_cnt = f[d].lock_cnt
    BY <1>6, <1>9, <1>11
  <1> QED BY <1>1, <1>7, <1>10, <1>11, <1>17, <1>18

\* tbm_bo_swap of two bos that are not locked.
Swapped(mgr, b, c) ==
    [mgr EXCEPT !.bos[b].priv = mgr.bos[c].priv, !.bos[c].priv = mgr.bos[b].priv]

\* tbm_bo_swap, with no locks on the bos or no claim about them.
LEMMA SwapMeets ==
    ASSUME NEW mgr, NEW w \in Counts, NEW u \in Counts, NEW k \in Counts, NEW P,
           Meets(mgr, w, u, k, P),
           NEW b \in DOMAIN mgr.bos, NEW c \in DOMAIN mgr.bos, b # c,
           LocksKept(mgr.env) =>
             /\ mgr.bos[b].lock_cnt <= 0 /\ k[b] = 0
             /\ mgr.bos[c].lock_cnt <= 0 /\ k[c] = 0
    PROVE  /\ Meets(Swapped(mgr, b, c), w, u, k, P)
           /\ Swapped(mgr, b, c).env = mgr.env
           /\ Swapped(mgr, b, c).ref_count = mgr.ref_count
  <1> DEFINE f == mgr.bos
             D == DOMAIN mgr.bos
             g == [f EXCEPT ![b].priv = f[c].priv]
             e == [g EXCEPT ![c].priv = f[b].priv]
             x == [mgr EXCEPT !.bos[b].priv = mgr.bos[c].priv,
                              !.bos[c].priv = mgr.bos[b].priv]
  <1>0. mgr \in Mgr
    BY DEF Meets
  <1>1. f \in [D -> BoRec] /\ D \in SUBSET Bo
    BY <1>0, MgrFields
  <1>2. f[b] \in BoRec /\ f[c] \in BoRec /\ f[b].priv \in Priv /\ f[c].priv \in Priv
        /\ b \in D /\ c \in D
    BY <1>1 DEF BoRec
  <1>3. /\ g \in [D -> BoRec] /\ g[b] = [f[b] EXCEPT !.priv = f[c].priv]
        /\ \A d \in D : d # b => g[d] = f[d]
    <2>1. [f[b] EXCEPT !.priv = f[c].priv] \in BoRec
      BY <1>2 DEF BoRec
    <2> HIDE DEF f, D
    <2> QED BY <1>1, <1>2, <2>1
  <1>4. /\ e \in [D -> BoRec] /\ e[c] = [f[c] EXCEPT !.priv = f[b].priv]
        /\ \A d \in D : d # c => e[d] = g[d]
    <2>1. [f[c] EXCEPT !.priv = f[b].priv] \in BoRec /\ g[c] = f[c]
      <3> HIDE DEF g, f, D
      <3> QED BY <1>2, <1>3 DEF BoRec
    <2> HIDE DEF f, D, g
    <2> QED BY <1>2, <1>3, <2>1
  <1>5. /\ \A d \in D : d # b /\ d # c => e[d] = f[d]
        /\ e[b].priv = f[c].priv /\ e[c].priv = f[b].priv
        /\ \A d \in D : /\ e[d].ref_cnt = f[d].ref_cnt /\ e[d].lock_cnt = f[d].lock_cnt
                        /\ e[d].map_cnt = f[d].map_cnt /\ e[d].surface = f[d].surface
    <2>1. /\ e[b] = [f[b] EXCEPT !.priv = f[c].priv]
          /\ e[c] = [f[c] EXCEPT !.priv = f[b].priv]
          /\ \A d \in D : d # b /\ d # c => e[d] = f[d]
      <3> HIDE DEF e, g, f, D
      <3> QED BY <1>2, <1>3, <1>4
    <2>2. /\ e[b].priv = f[c].priv /\ e[b].ref_cnt = f[b].ref_cnt
          /\ e[b].lock_cnt = f[b].lock_cnt
          /\ e[b].map_cnt = f[b].map_cnt /\ e[b].surface = f[b].surface
      <3> HIDE DEF e, g, f, D
      <3> QED BY <1>2, <2>1 DEF BoRec
    <2>3. /\ e[c].priv = f[b].priv /\ e[c].ref_cnt = f[c].ref_cnt
          /\ e[c].lock_cnt = f[c].lock_cnt
          /\ e[c].map_cnt = f[c].map_cnt /\ e[c].surface = f[c].surface
      <3> HIDE DEF e, g, f, D
      <3> QED BY <1>2, <2>1 DEF BoRec
    <2> HIDE DEF e, g, f, D
    <2> QED BY <2>1, <2>2, <2>3
  <1>6. /\ x \in Mgr /\ x.bos = e /\ x.held = mgr.held /\ x.env = mgr.env
        /\ x.bo_cnt = mgr.bo_cnt /\ x.ref_count = mgr.ref_count
    <2>1. e \in BoTable
      <3> HIDE DEF e, D
      <3> QED BY <1>1, <1>4, TableMade
    <2> DEFINE y == [mgr EXCEPT !.bos = g]
    <2>2. y.bos = g /\ y.held = mgr.held /\ y.env = mgr.env /\ y.bo_cnt = mgr.bo_cnt
          /\ y.ref_count = mgr.ref_count /\ y \in Mgr
      <3>1. g \in BoTable
        <4> HIDE DEF g, D
        <4> QED BY <1>1, <1>3, TableMade
      <3> HIDE DEF g
      <3> QED BY <1>0, <3>1 DEF Mgr
    <2>3. x = [y EXCEPT !.bos = [y.bos EXCEPT ![c].priv = mgr.bos[b].priv]]
      OBVIOUS
    <2>4. x = [y EXCEPT !.bos = e]
      <3> HIDE DEF y, g
      <3> QED BY <2>2, <2>3
    <2> HIDE DEF y, e, x
    <2> QED BY <2>1, <2>2, <2>4 DEF Mgr
  <1>7. DOMAIN x.bos = D
    <2> HIDE DEF x, e
    <2> QED BY <1>4, <1>6
  <1> HIDE DEF x, e, g
  <1>8. RefsMeet(x, w)
    BY <1>1, <1>5, <1>6, <1>7 DEF Meets, RefsMeet
  <1>9. MapsMeet(x, u)
    BY <1>1, <1>5, <1>6, <1>7 DEF Meets, MapsMeet
  <1>10. PrivsMeet(x)
    BY <1>2, <1>5, <1>6, <1>7 DEF Meets, PrivsMeet
  <1>11. CountMeets(x) /\ BackMeet(x, P)
    BY <1>5, <1>6, <1>7 DEF Meets, CountMeets, BackMeet
  <1>12. LocksMeet(x, k)
    <2>1. LocksMeet(mgr, k) /\ LockType(x) = LockType(mgr) /\ PrivsMeet(mgr)
      BY <1>6 DEF Meets, LockType
    <2> SUFFICES ASSUME LocksKept(mgr.env)
                 PROVE  /\ \A d \in Bo : IF d \in DOMAIN x.bos THEN LockMeets(x, d, k[d])
                                         ELSE k[d] = 0
                        /\ \A q \in Priv \ PrivsInUse(x) : x.held[q] = 0
      BY <1>6 DEF LocksMeet
    <2>2. /\ \A d \in Bo : IF d \in D THEN LockMeets(mgr, d, k[d]) ELSE k[d] = 0
          /\ \A q \in Priv \ PrivsInUse(mgr) : mgr.held[q] = 0
      BY <2>1 DEF LocksMeet
    <2>3. PrivsInUse(x) = PrivsInUse(mgr)
      BY <1>2, <1>5, <1>6, <1>7 DEF PrivsInUse
    <2>4. LockMeets(mgr, b, 0) /\ LockMeets(mgr, c, 0) /\ k[b] = 0 /\ k[c] = 0
          /\ f[b].lock_cnt <= 0 /\ f[c].lock_cnt <= 0
      BY <1>1, <1>2, <2>2
    <2>5. \A d \in D : mgr.bos[d].map_cnt >= 0 /\ mgr.bos[d].lock_cnt \in Int
      <3>1. \A d \in D : mgr.bos[d].map_cnt \in Nat
        BY <1>1 DEF Meets, MapsMeet, Counts
      <3>2. \A d \in D : mgr.bos[d].lock_cnt \in Int
        BY <1>1 DEF BoRec
      <3> QED BY <3>1, <3>2
    <2>6. f[b].lock_cnt = 0 /\ f[c].lock_cnt = 0
      BY <1>2, <2>4, <2>5, LockTypes DEF LockMeets
    <2>7. mgr.held[f[b].priv] = 0 /\ mgr.held[f[c].priv] = 0
      BY <2>4, <2>6 DEF LockMeets
    <2>8. LockMeets(x, b, k[b])
      <3>1. /\ x.bos[b].priv = f[c].priv /\ x.bos[b].lock_cnt = f[b].lock_cnt
            /\ x.bos[b].map_cnt = f[b].map_cnt /\ x.held = mgr.held
        BY <1>2, <1>5, <1>6
      <3> QED BY <2>1, <2>4, <2>6, <2>7, <3>1 DEF LockMeets
    <2>9. LockMeets(x, c, k[c])
      <3>1. /\ x.bos[c].priv = f[b].priv /\ x.bos[c].lock_cnt = f[c].lock_cnt
            /\ x.bos[c].map_cnt = f[c].map_cnt /\ x.held = mgr.held
        BY <1>2, <1>5, <1>6
      <3> QED BY <2>1, <2>4, <2>6, <2>7, <3>1 DEF LockMeets
    <2>10. ASSUME NEW d \in D, d # b, d # c PROVE LockMeets(x, d, k[d])
      <3>1. x.bos[d] = mgr.bos[d] /\ LockMeets(mgr, d, k[d]) /\ x.held = mgr.held
        BY <1>1, <1>5, <1>6, <2>2, <2>10
      <3> QED BY <2>1, <3>1 DEF LockMeets
    <2> QED BY <1>6, <1>7, <2>2, <2>3, <2>8, <2>9, <2>10
  <1>13. Meets(x, w, u, k, P)
    BY <1>6, <1>8, <1>9, <1>10, <1>11, <1>12 DEF Meets
  <1>14. x = Swapped(mgr, b, c)
    BY DEF x, Swapped
  <1> QED BY <1>6, <1>13, <1>14

\* What an operation on bos leaves alone.
Same(mgr, x) == x.env = mgr.env /\ x.ref_count = mgr.ref_count

\* Same is reflexive and transitive.
LEMMA SameSame ==
    ASSUME NEW mgr, NEW x, NEW y, Same(mgr, x), Same(x, y)
    PROVE  Same(mgr, y) /\ Same(mgr, mgr)
BY DEF Same

\* tbm_bo_ref and tbm_bo_unref make managers of managers.
LEMMA BoRefMgr ==
    ASSUME NEW mgr \in Mgr, NEW b \in Bo
    PROVE  BoRef(mgr, b) \in Mgr /\ Same(mgr, BoRef(mgr, b))
  <1>1. CASE b \in DOMAIN mgr.bos
    <2>1. mgr.bos[b].ref_cnt + 1 \in Int
      BY <1>1, BoOf
    <2> DEFINE n == mgr.bos[b].ref_cnt + 1
    <2>2. BoRef(mgr, b) = [mgr EXCEPT !.bos[b].ref_cnt = n]
      BY <1>1 DEF BoRef
    <2>3. n \in Int
      BY <2>1
    <2> HIDE DEF n
    <2>4. [mgr EXCEPT !.bos[b].ref_cnt = n] \in Mgr
      BY <2>3, NULL \in Surf \cup {NULL}, BoFieldChanged
    <2>5. Same(mgr, [mgr EXCEPT !.bos[b].ref_cnt = n])
      BY DEF Mgr, Same
    <2> QED BY <2>2, <2>4, <2>5
  <1>2. CASE b \notin DOMAIN mgr.bos
    BY <1>2 DEF BoRef, Same
  <1> QED BY <1>1, <1>2

LEMMA BoFreeMgr ==
    ASSUME NEW mgr \in Mgr, NEW b \in DOMAIN mgr.bos
    PROVE  BoFree(mgr, b) \in Mgr /\ Same(mgr, BoFree(mgr, b))
           /\ DOMAIN BoFree(mgr, b).bos = DOMAIN mgr.bos \ {b}
  <1> DEFINE h == [mgr.held EXCEPT ![mgr.bos[b].priv] = @ - mgr.bos[b].lock_cnt]
             f == Unlink(mgr.bos, b)
             n == (mgr.bo_cnt - 1) % UIntMod
             x == [mgr EXCEPT !.held = h, !.bos = f, !.bo_cnt = n]
  <1>1. h \in [Priv -> Int]
    <2>1. mgr.bos[b].lock_cnt \in Int /\ mgr.bos[b].priv \in Priv /\ mgr.held \in [Priv -> Int]
      BY BoOf, MgrFields
    <2> QED BY <2>1
  <1>2. f \in BoTable /\ DOMAIN f = DOMAIN mgr.bos \ {b}
    <2>1. mgr.bos \in [DOMAIN mgr.bos -> BoRec] /\ DOMAIN mgr.bos \in SUBSET Bo
      BY MgrFields
    <2>2. f \in [DOMAIN mgr.bos \ {b} -> BoRec]
      BY <2>1 DEF Unlink
    <2> HIDE DEF f
    <2>3. DOMAIN mgr.bos \ {b} \in SUBSET Bo
      BY <2>1
    <2> DEFINE D == DOMAIN mgr.bos \ {b}
    <2> HIDE DEF D
    <2>4. D \in SUBSET Bo /\ f \in [D -> BoRec]
      BY <2>2, <2>3 DEF D
    <2> QED BY <2>2, <2>4, TableMade
  <1>3. n \in Nat
    BY Counting, MgrFields
  <1>4. BoFree(mgr, b) = x
    BY DEF BoFree
  <1> HIDE DEF h, f, n
  <1>5. x \in Mgr /\ x.bos = f /\ Same(mgr, x)
    BY <1>1, <1>2, <1>3 DEF Mgr, Same
  <1> QED BY <1>2, <1>4, <1>5

LEMMA BoUnrefMgr ==
    ASSUME NEW mgr \in Mgr, NEW b \in Bo
    PROVE  BoUnref(mgr, b) \in Mgr /\ Same(mgr, BoUnref(mgr, b))
  <1>1. CASE b \notin DOMAIN mgr.bos \/ mgr.bos[b].ref_cnt <= 0
    BY <1>1 DEF BoUnref, Same
  <1>2. CASE b \in DOMAIN mgr.bos /\ ~(mgr.bos[b].ref_cnt <= 0)
    <2>1. CASE mgr.bos[b].ref_cnt = 1
      <3>1. BoUnref(mgr, b) = BoFree(mgr, b)
        BY <1>2, <2>1 DEF BoUnref
      <3> QED BY <1>2, <3>1, BoFreeMgr
    <2>2. CASE mgr.bos[b].ref_cnt # 1
      <3> DEFINE n == mgr.bos[b].ref_cnt - 1
      <3>1. n \in Int
        BY <1>2, BoOf
      <3>2. BoUnref(mgr, b) = [mgr EXCEPT !.bos[b].ref_cnt = n]
        BY <1>2, <2>2 DEF BoUnref
      <3> HIDE DEF n
      <3>3. [mgr EXCEPT !.bos[b].ref_cnt = n] \in Mgr
        BY <3>1, NULL \in Surf \cup {NULL}, BoFieldChanged
      <3>4. Same(mgr, [mgr EXCEPT !.bos[b].ref_cnt = n])
        BY DEF Mgr, Same
      <3> QED BY <3>2, <3>3, <3>4
    <2> QED BY <2>1, <2>2
  <1> QED BY <1>1, <1>2

LEMMA SetSurfaceMgr ==
    ASSUME NEW mgr \in Mgr, NEW b \in Bo, NEW s \in Surf \cup {NULL}
    PROVE  SetSurface(mgr, b, s) \in Mgr /\ Same(mgr, SetSurface(mgr, b, s))
           /\ DOMAIN SetSurface(mgr, b, s).bos = DOMAIN mgr.bos
  <1>1. SetSurface(mgr, b, s) = [mgr EXCEPT !.bos[b].surface = s]
    BY DEF SetSurface
  <1>2. DOMAIN [mgr EXCEPT !.bos[b].surface = s].bos = DOMAIN mgr.bos
    BY DEF Mgr
  <1>3. [mgr EXCEPT !.bos[b].surface = s] \in Mgr
    BY BoFieldChanged, 0 \in Int
  <1>4. Same(mgr, [mgr EXCEPT !.bos[b].surface = s])
    BY DEF Mgr, Same
  <1> QED BY <1>1, <1>2, <1>3, <1>4
LEMMA BoUnlockSame ==
    ASSUME NEW mgr \in Mgr, NEW b \in Bo
    PROVE  Same(mgr, BoUnlock(mgr, b))
  <1>1. CASE LockType(mgr) = "TRY_NEVER" \/ mgr.bos[b].lock_cnt = 0
    BY <1>1 DEF BoUnlock, Same
  <1>2. CASE ~(LockType(mgr) = "TRY_NEVER" \/ mgr.bos[b].lock_cnt = 0)
    <2> DEFINE f == [mgr.bos EXCEPT ![b].lock_cnt = @ - 1]
               p == mgr.bos[b].priv
               h == [mgr.held EXCEPT ![p] = IF LockType(mgr) = "TRY_ALWAYS"
                                               \/ mgr.bos[b].lock_cnt = 1
                                            THEN @ - 1 ELSE @]
    <2>1. BoUnlock(mgr, b) = [mgr EXCEPT !.bos = f, !.held = h]
      BY <1>2 DEF BoUnlock
    <2> HIDE DEF f, h
    <2> QED BY <2>1 DEF Mgr, Same
  <1> QED BY <1>1, <1>2

\* tbm_bo_unmap keeps the bos.
LEMMA BoUnmapMgr ==
    ASSUME NEW mgr \in Mgr, NEW b \in DOMAIN mgr.bos
    PROVE  /\ BoUnmap(mgr, b) \in Mgr /\ Same(mgr, BoUnmap(mgr, b))
           /\ DOMAIN BoUnmap(mgr, b).bos = DOMAIN mgr.bos
  <1> DEFINE i == mgr.bos[b].lock_cnt
             j == mgr.bos[b].map_cnt - 1
             h == mgr.held[mgr.bos[b].priv]
             x == [mgr EXCEPT !.bos[b].map_cnt = j]
  <1>1. i \in Int /\ j \in Int /\ h \in Int /\ mgr.bos[b].map_cnt \in Int /\ b \in Bo
    BY BoOf, MgrFields
  <1>2. IsSet(mgr, mgr, b, i, mgr.bos[b].map_cnt, h)
    BY NotSet
  <1>3. IsSet(mgr, x, b, i, j, h)
    <2> DEFINE q == mgr.bos[b].map_cnt
    <2>1. IsSet(mgr, mgr, b, i, q, h) /\ q \in Int
      BY <1>1, <1>2
    <2> HIDE DEF i, j, h, q
    <2> QED BY <1>1, <2>1, SetCounts
  <1>4. BoUnmap(mgr, b) = BoUnlock(x, b)
    BY DEF BoUnmap
  <1>5. Touches(mgr, BoUnlock(x, b), b)
    <2> DEFINE y == BoUnlock(x, b)
               l == IF LockType(mgr) = "TRY_ALWAYS" \/ i = 1 THEN h - 1 ELSE h
    <2>1. \/ IsSet(mgr, y, b, i, j, h)
          \/ IsSet(mgr, y, b, i - 1, j, l)
      <3> HIDE DEF i, j, h, x
      <3> QED BY <1>1, <1>3, UnlockSet
    <2>2. Touches(mgr, y, b)
      <3> HIDE DEF y, i, j, h, l
      <3> QED BY <2>1 DEF IsSet
    <2> QED BY <2>2
  <1>6. x \in Mgr /\ Same(mgr, x)
    <2>1. x \in Mgr
      BY <1>3 DEF IsSet, Touches
    <2> HIDE DEF j
    <2> QED BY <2>1 DEF Mgr, Same
  <1> HIDE DEF x
  <1>7. Same(x, BoUnlock(x, b))
    BY <1>1, <1>6, BoUnlockSame
  <1> QED BY <1>4, <1>5, <1>6, <1>7 DEF Touches, Same

\* A new bo of a surface.
LinkedBo(mgr, b, p, n) == [mgr EXCEPT !.bos = Link(@, b, NewBo(p)), !.bo_cnt = n]

\* It is linked, and tbm_bo_alloc counts it where that is the way of it.
LEMMA SurfaceBoIs ==
    ASSUME NEW mgr \in Mgr, NEW b \in Bo, NEW p \in Priv
    PROVE  \E n \in Nat :
             /\ ~SurfaceBoAlloc => n = (mgr.bo_cnt + 1) % UIntMod
             /\ SurfaceBo(mgr, b, p) = LinkedBo(mgr, b, p, n)
  <1>1. CASE SurfaceBoAlloc
    <2> DEFINE f == Link(mgr.bos, b, NewBo(p))
    <2>1. SurfaceBo(mgr, b, p) = [mgr EXCEPT !.bos = f]
      BY <1>1 DEF SurfaceBo
    <2>2. [mgr EXCEPT !.bos = f] = [mgr EXCEPT !.bos = f, !.bo_cnt = mgr.bo_cnt]
      <3> HIDE DEF f
      <3> QED BY DEF Mgr
    <2>3. mgr.bo_cnt \in Nat
      BY MgrFields
    <2>4. SurfaceBo(mgr, b, p) = LinkedBo(mgr, b, p, mgr.bo_cnt)
      BY <2>1, <2>2 DEF LinkedBo
    <2> QED BY <1>1, <2>3, <2>4
  <1>2. CASE ~SurfaceBoAlloc
    <2> DEFINE n == (mgr.bo_cnt + 1) % UIntMod
    <2>1. n \in Nat
      BY MgrFields, Counting
    <2>2. SurfaceBo(mgr, b, p) = LinkedBo(mgr, b, p, n)
      BY <1>2 DEF SurfaceBo, BoAlloc, LinkedBo
    <2> HIDE DEF n
    <2>3. ~SurfaceBoAlloc => n = (mgr.bo_cnt + 1) % UIntMod
      BY DEF n
    <2> QED BY <2>1, <2>2, <2>3
  <1> QED BY <1>1, <1>2

LEMMA LinkMgr ==
    ASSUME NEW mgr \in Mgr, NEW b \in Bo, NEW p \in Priv, NEW n \in Nat
    PROVE  LET x == LinkedBo(mgr, b, p, n)
           IN  x \in Mgr /\ Same(mgr, x) /\ DOMAIN x.bos = DOMAIN mgr.bos \cup {b}
               /\ x.bos[b] = NewBo(p)
               /\ \A c \in DOMAIN mgr.bos : c # b => x.bos[c] = mgr.bos[c]
  <1> DEFINE f == Link(mgr.bos, b, NewBo(p))
             D == DOMAIN mgr.bos \cup {b}
  <1>1. NewBo(p) \in BoRec
    BY DEF NewBo, BoRec
  <1>2. mgr.bos \in [DOMAIN mgr.bos -> BoRec] /\ DOMAIN mgr.bos \in SUBSET Bo
    BY MgrFields
  <1>3. f \in [D -> BoRec] /\ D \in SUBSET Bo /\ f[b] = NewBo(p)
        /\ \A c \in DOMAIN mgr.bos : c # b => f[c] = mgr.bos[c]
    BY <1>1, <1>2 DEF Link
  <1>4. f \in BoTable
    <2> HIDE DEF f, D
    <2> QED BY <1>3, TableMade
  <1> HIDE DEF f
  <1>5. [mgr EXCEPT !.bos = f, !.bo_cnt = n] \in Mgr
        /\ Same(mgr, [mgr EXCEPT !.bos = f, !.bo_cnt = n])
        /\ [mgr EXCEPT !.bos = f, !.bo_cnt = n].bos = f
    BY <1>4 DEF Mgr, Same
  <1> QED BY <1>3, <1>5 DEF f, LinkedBo

LEMMA SurfaceBoMgr ==
    ASSUME NEW mgr \in Mgr, NEW b \in Bo, NEW p \in Priv
    PROVE  LET x == SurfaceBo(mgr, b, p)
           IN  x \in Mgr /\ Same(mgr, x) /\ DOMAIN x.bos = DOMAIN mgr.bos \cup {b}
               /\ x.bos[b] = NewBo(p)
               /\ \A c \in DOMAIN mgr.bos : c # b => x.bos[c] = mgr.bos[c]
  <1>1. PICK n \in Nat : SurfaceBo(mgr, b, p) = LinkedBo(mgr, b, p, n)
    BY SurfaceBoIs
  <1> QED BY <1>1, LinkMgr

(* The states a loop over bos goes through: a fold is defined by a         *)
(* function it on the sets of places, which exists, and has at 1 .. i the  *)
(* state after i bos.                                                      *)

\* Where a loop stands: the last place of a set and the others.
LEMMA LastPlace ==
    ASSUME NEW n \in Nat, NEW s \in SUBSET (1 .. n), s # {}
    PROVE  Max(s) \in 1 .. n /\ s \ {Max(s)} \in SUBSET (1 .. n)
BY MaxOfSome

\* The loops over the bos of a surface, as sequences of managers: M[i] is the
\* manager after i bos.
LEMMA UnrefSteps ==
    ASSUME NEW mgr \in Mgr, NEW bs \in Seq(Bo)
    PROVE  \E v : /\ v[0] = mgr
                  /\ \A i \in 1 .. Len(bs) : v[i] = BoUnref(v[i - 1], bs[i])
                  /\ UnrefAll(mgr, bs) = v[Len(bs)]
  <1> DEFINE n == Len(bs)
             F == [x \in Mgr \X (1 .. n) |-> BoUnref(x[1], bs[x[2]])]
             G(g) == [s \in SUBSET (1 .. n) |->
                         IF s = {} THEN mgr ELSE BoUnref(g[s \ {Max(s)}], bs[Max(s)])]
             it == CHOOSE z : z = G(z)
             v == [i \in 0 .. n |-> it[1 .. i]]
  <1>1. n \in Nat /\ DOMAIN bs = 1 .. n
    OBVIOUS
  <1>2. UnrefAll(mgr, bs) = it[1 .. n]
    BY <1>1 DEF UnrefAll, FoldLeft, MapThenFoldSet
  <1>3. \A i \in 1 .. n : bs[i] \in Bo
    OBVIOUS
  <1> HIDE DEF n
  <1>4. \A x \in Mgr, i \in 1 .. n : BoUnref(x, bs[i]) \in Mgr
    BY <1>3, BoUnrefMgr
  <1>5. PICK z : FoldedBy(Mgr, n, mgr, F, z)
    <2>1. F \in [Mgr \X (1 .. n) -> Mgr]
      BY <1>4
    <2> HIDE DEF F
    <2> QED BY <1>1, <2>1, FoldExists
  <1>6. z = G(z)
    <2>1. ASSUME NEW s \in SUBSET (1 .. n), s # {}
          PROVE  z[s] = BoUnref(z[s \ {Max(s)}], bs[Max(s)])
      <3>1. /\ Max(s) \in 1 .. n /\ <<z[s \ {Max(s)}], Max(s)>> \in Mgr \X (1 .. n)
            /\ z[s] = F[<<z[s \ {Max(s)}], Max(s)>>]
        <4> HIDE DEF F
        <4> QED BY <1>1, <1>5, <2>1, LastPlace DEF FoldedBy
      <3> QED BY <1>3, <3>1
    <2> HIDE DEF F
    <2> QED BY <1>5, <2>1 DEF FoldedBy
  <1>7. it = G(it)
    <2> HIDE DEF G
    <2> QED BY <1>6
  <1> HIDE DEF it
  <1>8. v[0] = mgr /\ v[n] = it[1 .. n]
    <2>1. 1 .. 0 = {} /\ {} \in SUBSET (1 .. n) /\ 0 \in 0 .. n /\ n \in 0 .. n
      BY <1>1
    <2> QED BY <1>7, <2>1
  <1>9. ASSUME NEW i \in 1 .. n PROVE v[i] = BoUnref(v[i - 1], bs[i])
    <2>1. /\ (1 .. i) \in SUBSET (1 .. n) /\ 1 .. i # {} /\ Max(1 .. i) = i
          /\ (1 .. i) \ {i} = 1 .. (i - 1)
      BY <1>1, UpTo
    <2>2. i \in 0 .. n /\ i - 1 \in 0 .. n
      BY <1>1
    <2>3. it[1 .. i] = BoUnref(it[1 .. (i - 1)], bs[i])
      BY <1>3, <1>7, <2>1
    <2> QED BY <2>2, <2>3
  <1> HIDE DEF v, G
  <1> QED BY <1>2, <1>8, <1>9 DEF n

LEMMA RefSteps ==
    ASSUME NEW mgr \in Mgr, NEW sf \in Surf, NEW bs \in Seq(Bo)
    PROVE  \E v : /\ v[0] = mgr
                  /\ \A i \in 1 .. Len(bs) : v[i] = SetSurface(BoRef(v[i - 1], bs[i]), bs[i], sf)
                  /\ RefAll(mgr, sf, bs) = v[Len(bs)]
  <1> DEFINE n == Len(bs)
             F == [x \in Mgr \X (1 .. n) |-> SetSurface(BoRef(x[1], bs[x[2]]), bs[x[2]], sf)]
             G(g) == [s \in SUBSET (1 .. n) |->
                         IF s = {} THEN mgr ELSE SetSurface(BoRef(g[s \ {Max(s)}], bs[Max(s)]), bs[Max(s)], sf)]
             it == CHOOSE z : z = G(z)
             v == [i \in 0 .. n |-> it[1 .. i]]
  <1>1. n \in Nat /\ DOMAIN bs = 1 .. n
    OBVIOUS
  <1>2. RefAll(mgr, sf, bs) = it[1 .. n]
    BY <1>1 DEF RefAll, FoldLeft, MapThenFoldSet
  <1>3. \A i \in 1 .. n : bs[i] \in Bo
    OBVIOUS
  <1> HIDE DEF n
  <1>4. \A x \in Mgr, i \in 1 .. n : SetSurface(BoRef(x, bs[i]), bs[i], sf) \in Mgr
    BY <1>3, BoRefMgr, SetSurfaceMgr
  <1>5. PICK z : FoldedBy(Mgr, n, mgr, F, z)
    <2>1. F \in [Mgr \X (1 .. n) -> Mgr]
      BY <1>4
    <2> HIDE DEF F
    <2> QED BY <1>1, <2>1, FoldExists
  <1>6. z = G(z)
    <2>1. ASSUME NEW s \in SUBSET (1 .. n), s # {}
          PROVE  z[s] = SetSurface(BoRef(z[s \ {Max(s)}], bs[Max(s)]), bs[Max(s)], sf)
      <3>1. /\ Max(s) \in 1 .. n /\ <<z[s \ {Max(s)}], Max(s)>> \in Mgr \X (1 .. n)
            /\ z[s] = F[<<z[s \ {Max(s)}], Max(s)>>]
        <4> HIDE DEF F
        <4> QED BY <1>1, <1>5, <2>1, LastPlace DEF FoldedBy
      <3> QED BY <1>3, <3>1
    <2> HIDE DEF F
    <2> QED BY <1>5, <2>1 DEF FoldedBy
  <1>7. it = G(it)
    <2> HIDE DEF G
    <2> QED BY <1>6
  <1> HIDE DEF it
  <1>8. v[0] = mgr /\ v[n] = it[1 .. n]
    <2>1. 1 .. 0 = {} /\ {} \in SUBSET (1 .. n) /\ 0 \in 0 .. n /\ n \in 0 .. n
      BY <1>1
    <2> QED BY <1>7, <2>1
  <1>9. ASSUME NEW i \in 1 .. n PROVE v[i] = SetSurface(BoRef(v[i - 1], bs[i]), bs[i], sf)
    <2>1. /\ (1 .. i) \in SUBSET (1 .. n) /\ 1 .. i # {} /\ Max(1 .. i) = i
          /\ (1 .. i) \ {i} = 1 .. (i - 1)
      BY <1>1, UpTo
    <2>2. i \in 0 .. n /\ i - 1 \in 0 .. n
      BY <1>1
    <2>3. it[1 .. i] = SetSurface(BoRef(it[1 .. (i - 1)], bs[i]), bs[i], sf)
      BY <1>3, <1>7, <2>1
    <2> QED BY <2>2, <2>3
  <1> HIDE DEF v, G
  <1> QED BY <1>2, <1>8, <1>9 DEF n

LEMMA DropSteps ==
    ASSUME NEW mgr \in Mgr, NEW bs \in Seq(Bo)
    PROVE  \E v : /\ v[0] = mgr
                  /\ \A i \in 1 .. Len(bs) : v[i] = BoUnref(SetSurface(v[i - 1], bs[i], NULL), bs[i])
                  /\ DropBos(mgr, bs) = v[Len(bs)]
  <1> DEFINE n == Len(bs)
             F == [x \in Mgr \X (1 .. n) |-> BoUnref(SetSurface(x[1], bs[x[2]], NULL), bs[x[2]])]
             G(g) == [s \in SUBSET (1 .. n) |->
                         IF s = {} THEN mgr ELSE BoUnref(SetSurface(g[s \ {Max(s)}], bs[Max(s)], NULL), bs[Max(s)])]
             it == CHOOSE z : z = G(z)
             v == [i \in 0 .. n |-> it[1 .. i]]
  <1>1. n \in Nat /\ DOMAIN bs = 1 .. n
    OBVIOUS
  <1>2. DropBos(mgr, bs) = it[1 .. n]
    BY <1>1 DEF DropBos, FoldLeft, MapThenFoldSet
  <1>3. \A i \in 1 .. n : bs[i] \in Bo
    OBVIOUS
  <1> HIDE DEF n
  <1>4. \A x \in Mgr, i \in 1 .. n : BoUnref(SetSurface(x, bs[i], NULL), bs[i]) \in Mgr
    BY <1>3, BoUnrefMgr, SetSurfaceMgr
  <1>5. PICK z : FoldedBy(Mgr, n, mgr, F, z)
    <2>1. F \in [Mgr \X (1 .. n) -> Mgr]
      BY <1>4
    <2> HIDE DEF F
    <2> QED BY <1>1, <2>1, FoldExists
  <1>6. z = G(z)
    <2>1. ASSUME NEW s \in SUBSET (1 .. n), s # {}
          PROVE  z[s] = BoUnref(SetSurface(z[s \ {Max(s)}], bs[Max(s)], NULL), bs[Max(s)])
      <3>1. /\ Max(s) \in 1 .. n /\ <<z[s \ {Max(s)}], Max(s)>> \in Mgr \X (1 .. n)
            /\ z[s] = F[<<z[s \ {Max(s)}], Max(s)>>]
        <4> HIDE DEF F
        <4> QED BY <1>1, <1>5, <2>1, LastPlace DEF FoldedBy
      <3> QED BY <1>3, <3>1
    <2> HIDE DEF F
    <2> QED BY <1>5, <2>1 DEF FoldedBy
  <1>7. it = G(it)
    <2> HIDE DEF G
    <2> QED BY <1>6
  <1> HIDE DEF it
  <1>8. v[0] = mgr /\ v[n] = it[1 .. n]
    <2>1. 1 .. 0 = {} /\ {} \in SUBSET (1 .. n) /\ 0 \in 0 .. n /\ n \in 0 .. n
      BY <1>1
    <2> QED BY <1>7, <2>1
  <1>9. ASSUME NEW i \in 1 .. n PROVE v[i] = BoUnref(SetSurface(v[i - 1], bs[i], NULL), bs[i])
    <2>1. /\ (1 .. i) \in SUBSET (1 .. n) /\ 1 .. i # {} /\ Max(1 .. i) = i
          /\ (1 .. i) \ {i} = 1 .. (i - 1)
      BY <1>1, UpTo
    <2>2. i \in 0 .. n /\ i - 1 \in 0 .. n
      BY <1>1
    <2>3. it[1 .. i] = BoUnref(SetSurface(it[1 .. (i - 1)], bs[i], NULL), bs[i])
      BY <1>3, <1>7, <2>1
    <2> QED BY <2>2, <2>3
  <1> HIDE DEF v, G
  <1> QED BY <1>2, <1>8, <1>9 DEF n

LEMMA UnmapSteps ==
    ASSUME NEW mgr \in Mgr, NEW bs \in Seq(DOMAIN mgr.bos)
    PROVE  \E v : /\ v[0] = mgr
                  /\ \A i \in 1 .. Len(bs) : v[i] = BoUnmap(v[i - 1], bs[i])
                  /\ FoldLeft(BoUnmap, mgr, bs) = v[Len(bs)]
  <1> DEFINE n == Len(bs)
             S == {x \in Mgr : DOMAIN x.bos = DOMAIN mgr.bos}
             F == [x \in S \X (1 .. n) |-> BoUnmap(x[1], bs[x[2]])]
             G(g) == [s \in SUBSET (1 .. n) |->
                         IF s = {} THEN mgr ELSE BoUnmap(g[s \ {Max(s)}], bs[Max(s)])]
             it == CHOOSE z : z = G(z)
             v == [i \in 0 .. n |-> it[1 .. i]]
  <1>1. n \in Nat /\ DOMAIN bs = 1 .. n
    OBVIOUS
  <1>2. FoldLeft(BoUnmap, mgr, bs) = it[1 .. n]
    BY <1>1 DEF FoldLeft, MapThenFoldSet
  <1>3. \A i \in 1 .. n : bs[i] \in DOMAIN mgr.bos
    OBVIOUS
  <1> HIDE DEF n
  <1>4. mgr \in S /\ \A x \in S, i \in 1 .. n : BoUnmap(x, bs[i]) \in S
    BY <1>3, BoUnmapMgr
  <1> HIDE DEF S
  <1>5. PICK z : FoldedBy(S, n, mgr, F, z)
    <2>1. F \in [S \X (1 .. n) -> S]
      BY <1>4
    <2> HIDE DEF F
    <2> QED BY <1>1, <1>4, <2>1, FoldExists
  <1>6. z = G(z)
    <2>1. ASSUME NEW s \in SUBSET (1 .. n), s # {}
          PROVE  z[s] = BoUnmap(z[s \ {Max(s)}], bs[Max(s)])
      <3>1. /\ Max(s) \in 1 .. n /\ <<z[s \ {Max(s)}], Max(s)>> \in S \X (1 .. n)
            /\ z[s] = F[<<z[s \ {Max(s)}], Max(s)>>]
        <4> HIDE DEF F
        <4> QED BY <1>1, <1>5, <2>1, LastPlace DEF FoldedBy
      <3> QED BY <1>3, <3>1
    <2> HIDE DEF F
    <2> QED BY <1>5, <2>1 DEF FoldedBy
  <1>7. it = G(it)
    <2> HIDE DEF G
    <2> QED BY <1>6
  <1> HIDE DEF it
  <1>8. v[0] = mgr /\ v[n] = it[1 .. n]
    <2>1. 1 .. 0 = {} /\ {} \in SUBSET (1 .. n) /\ 0 \in 0 .. n /\ n \in 0 .. n
      BY <1>1
    <2> QED BY <1>7, <2>1
  <1>9. ASSUME NEW i \in 1 .. n PROVE v[i] = BoUnmap(v[i - 1], bs[i])
    <2>1. /\ (1 .. i) \in SUBSET (1 .. n) /\ 1 .. i # {} /\ Max(1 .. i) = i
          /\ (1 .. i) \ {i} = 1 .. (i - 1)
      BY <1>1, UpTo
    <2>2. i \in 0 .. n /\ i - 1 \in 0 .. n
      BY <1>1
    <2>3. it[1 .. i] = BoUnmap(it[1 .. (i - 1)], bs[i])
      BY <1>3, <1>7, <2>1
    <2> QED BY <2>2, <2>3
  <1> HIDE DEF v, G
  <1> QED BY <1>2, <1>8, <1>9 DEF n

LEMMA AllocSteps ==
    ASSUME NEW mgr \in Mgr, NEW sf \in Surf, NEW bs \in Seq(Bo), NEW ps \in [1 .. Len(bs) -> Priv]
    PROVE  \E v : /\ v[0] = mgr
                  /\ \A i \in 1 .. Len(bs) : v[i] = SetSurface(SurfaceBo(v[i - 1], bs[i], ps[i]), bs[i], sf)
                  /\ AllocAll(mgr, sf, bs, ps) = v[Len(bs)]
  <1> DEFINE n == Len(bs)
             F == [x \in Mgr \X (1 .. n) |-> SetSurface(SurfaceBo(x[1], bs[x[2]], ps[x[2]]), bs[x[2]], sf)]
             G(g) == [s \in SUBSET (1 .. n) |->
                         IF s = {} THEN mgr ELSE LET j == [l \in 1 .. n |-> l][Max(s)]
                                                 IN  SetSurface(SurfaceBo(g[s \ {Max(s)}], bs[j], ps[j]), bs[j], sf)]
             it == CHOOSE z : z = G(z)
             v == [i \in 0 .. n |-> it[1 .. i]]
  <1>1. n \in Nat /\ DOMAIN bs = 1 .. n
    OBVIOUS
  <1>2. AllocAll(mgr, sf, bs, ps) = it[1 .. n]
    BY <1>1 DEF AllocAll, FoldLeft, MapThenFoldSet
  <1>3. \A i \in 1 .. n : bs[i] \in Bo /\ ps[i] \in Priv /\ [j \in 1 .. n |-> j][i] = i
    OBVIOUS
  <1> HIDE DEF n
  <1>4. \A x \in Mgr, i \in 1 .. n : SetSurface(SurfaceBo(x, bs[i], ps[i]), bs[i], sf) \in Mgr
    BY <1>3, SurfaceBoMgr, SetSurfaceMgr
  <1>5. PICK z : FoldedBy(Mgr, n, mgr, F, z)
    <2>1. F \in [Mgr \X (1 .. n) -> Mgr]
      BY <1>4
    <2> HIDE DEF F
    <2> QED BY <1>1, <2>1, FoldExists
  <1>6. z = G(z)
    <2>1. ASSUME NEW s \in SUBSET (1 .. n), s # {}
          PROVE  z[s] = LET j == [l \in 1 .. n |-> l][Max(s)]
                        IN  SetSurface(SurfaceBo(z[s \ {Max(s)}], bs[j], ps[j]), bs[j], sf)
      <3>1. /\ Max(s) \in 1 .. n /\ <<z[s \ {Max(s)}], Max(s)>> \in Mgr \X (1 .. n)
            /\ z[s] = F[<<z[s \ {Max(s)}], Max(s)>>]
        <4> HIDE DEF F
        <4> QED BY <1>1, <1>5, <2>1, LastPlace DEF FoldedBy
      <3> QED BY <1>3, <3>1
    <2> HIDE DEF F
    <2> QED BY <1>5, <2>1 DEF FoldedBy
  <1>7. it = G(it)
    <2> HIDE DEF G
    <2> QED BY <1>6
  <1> HIDE DEF it
  <1>8. v[0] = mgr /\ v[n] = it[1 .. n]
    <2>1. 1 .. 0 = {} /\ {} \in SUBSET (1 .. n) /\ 0 \in 0 .. n /\ n \in 0 .. n
      BY <1>1
    <2> QED BY <1>7, <2>1
  <1>9. ASSUME NEW i \in 1 .. n PROVE v[i] = SetSurface(SurfaceBo(v[i - 1], bs[i], ps[i]), bs[i], sf)
    <2>1. /\ (1 .. i) \in SUBSET (1 .. n) /\ 1 .. i # {} /\ Max(1 .. i) = i
          /\ (1 .. i) \ {i} = 1 .. (i - 1)
      BY <1>1, UpTo
    <2>2. i \in 0 .. n /\ i - 1 \in 0 .. n
      BY <1>1
    <2>3. it[1 .. i] = SetSurface(SurfaceBo(it[1 .. (i - 1)], bs[i], ps[i]), bs[i], sf)
      <3>1. [l \in 1 .. n |-> l][Max(1 .. i)] = i
        BY <2>1
      <3>2. it[1 .. i] = LET j == [l \in 1 .. n |-> l][Max(1 .. i)]
                        IN  SetSurface(SurfaceBo(it[(1 .. i) \ {Max(1 .. i)}], bs[j], ps[j]), bs[j], sf)
        BY <1>7, <2>1
      <3> HIDE DEF G
      <3> QED BY <2>1, <3>1, <3>2
    <2> QED BY <2>2, <2>3
  <1> HIDE DEF v, G
  <1> QED BY <1>2, <1>8, <1>9 DEF n

\* The number of places among the first i grows with i.
LEMMA OfFirstGrows ==
    ASSUME NEW b, NEW bs, NEW n \in Nat, NEW i \in 0 .. n
    PROVE  OfFirst(b, bs, i) \in Nat /\ OfFirst(b, bs, n) \in Nat
           /\ OfFirst(b, bs, i) <= OfFirst(b, bs, n)
  <1> DEFINE A == {j \in 1 .. i : bs[j] = b}
             B == {j \in 1 .. n : bs[j] = b}
  <1>1. A \in SUBSET B
    OBVIOUS
  <1>2. IsFiniteSet(B)
    <2>1. IsFiniteSet(1 .. n) /\ B \subseteq 1 .. n
      BY FS_Interval
    <2> HIDE DEF B
    <2> QED BY <2>1, FS_Subset
  <1> HIDE DEF A, B
  <1>3. IsFiniteSet(A) /\ Cardinality(A) <= Cardinality(B)
    BY <1>1, <1>2, FS_Subset
  <1>4. Cardinality(A) \in Nat /\ Cardinality(B) \in Nat
    BY <1>2, <1>3, FS_CardinalityType
  <1> QED BY <1>3, <1>4 DEF OfFirst, A, B

\* More pairs are as good.
LEMMA PairsMeet ==
    ASSUME NEW mgr, NEW w, NEW u, NEW k, NEW P, Meets(mgr, w, u, k, P),
           NEW Q, \A c \in Bo, s \in Surf : <<c, s>> \in P => <<c, s>> \in Q
    PROVE  Meets(mgr, w, u, k, Q)
  <1>1. mgr \in Mgr /\ BackMeet(mgr, P)
    BY DEF Meets
  <1>2. ASSUME NEW b \in DOMAIN mgr.bos, mgr.bos[b].surface # NULL
        PROVE  <<b, mgr.bos[b].surface>> \in Q
    <2>1. b \in Bo /\ mgr.bos[b].surface \in Surf
      BY <1>1, <1>2, BoOf
    <2> QED BY <1>1, <1>2, <2>1 DEF BackMeet
  <1>3. BackMeet(mgr, Q)
    BY <1>2 DEF BackMeet
  <1> QED BY <1>3 DEF Meets

\* Two functions on bos are the same where their values are.
LEMMA CountsSame ==
    ASSUME NEW f \in Counts, NEW g \in Counts, \A b \in Bo : f[b] = g[b]
    PROVE  f = g
BY DEF Counts

\* What is expected of a manager after i of the bos bs are unreferenced.
LessRefs(w, bs, i) == [b \in Bo |-> w[b] - OfFirst(b, bs, i)]
LeftMaps(w, u, bs, i) == [b \in Bo |-> IF w[b] = OfFirst(b, bs, i) THEN 0 ELSE u[b]]

\* The references that the loop gives up are there, and with a bo that goes
\* there are no locks to be counted.
Unrefable(env, w, k, bs) ==
    \A b \in Bo : /\ Times(b, bs) <= w[b]
                  /\ LocksKept(env) /\ Times(b, bs) > 0 /\ Times(b, bs) = w[b] => k[b] = 0

\* One reference less is one step of the loop.
LEMMA LessRefsSteps ==
    ASSUME NEW w \in Counts, NEW u \in Counts, NEW k \in Counts, NEW bs \in Seq(Bo), NEW env,
           Unrefable(env, w, k, bs), NEW i \in Nat, i < Len(bs)
    PROVE  LET b == bs[i + 1]
               v == LessRefs(w, bs, i)
               y == LeftMaps(w, u, bs, i)
           IN  /\ v \in Counts /\ y \in Counts /\ b \in Bo /\ v[b] > 0
               /\ LocksKept(env) /\ v[b] = 1 => k[b] = 0
               /\ LessRefs(w, bs, i + 1) = [v EXCEPT ![b] = @ - 1]
               /\ LeftMaps(w, u, bs, i + 1) = IF v[b] = 1 THEN [y EXCEPT ![b] = 0] ELSE y
  <1> DEFINE a == bs[i + 1]
             v == LessRefs(w, bs, i)
             y == LeftMaps(w, u, bs, i)
             n == Len(bs)
  <1>0. i + 1 \in 1 .. n /\ i + 1 \in 0 .. n /\ i \in 0 .. n /\ n \in Nat
    OBVIOUS
  <1>1. a \in Bo
    BY <1>0
  <1>2. ASSUME NEW b \in Bo
        PROVE  /\ w[b] \in Nat /\ u[b] \in Nat /\ k[b] \in Nat
               /\ OfFirst(b, bs, i) \in Nat /\ OfFirst(b, bs, i + 1) \in Nat
               /\ OfFirst(b, bs, i) <= w[b] /\ OfFirst(b, bs, i + 1) <= w[b]
               /\ OfFirst(b, bs, i + 1) =
                    IF a = b THEN OfFirst(b, bs, i) + 1 ELSE OfFirst(b, bs, i)
               /\ LocksKept(env) /\ OfFirst(b, bs, i + 1) = w[b] /\ a = b => k[b] = 0
    <2>1. w[b] \in Nat /\ u[b] \in Nat /\ k[b] \in Nat
      BY DEF Counts
    <2>2. /\ OfFirst(b, bs, i) \in Nat /\ OfFirst(b, bs, i + 1) \in Nat
          /\ OfFirst(b, bs, n) \in Nat
          /\ OfFirst(b, bs, i) <= OfFirst(b, bs, n)
          /\ OfFirst(b, bs, i + 1) <= OfFirst(b, bs, n)
      <3> HIDE DEF n
      <3> QED BY <1>0, OfFirstGrows
    <2>3. Times(b, bs) = OfFirst(b, bs, n)
      BY <1>0, OfFirstTimes
    <2>4. OfFirst(b, bs, i + 1) =
                    IF a = b THEN OfFirst(b, bs, i) + 1 ELSE OfFirst(b, bs, i)
      BY OfFirstSteps, ZenonT(30)
    <2>5. /\ OfFirst(b, bs, n) <= w[b]
          /\ LocksKept(env) /\ OfFirst(b, bs, n) > 0 /\ OfFirst(b, bs, n) = w[b] => k[b] = 0
      <3> HIDE DEF n
      <3> QED BY <2>3 DEF Unrefable
    <2> HIDE DEF n, a
    <2> QED BY <2>1, <2>2, <2>4, <2>5
  <1> HIDE DEF a, n
  <1>3. v \in Counts
    <2>1. \A b \in Bo : w[b] - OfFirst(b, bs, i) \in Nat
      BY <1>2
    <2> QED BY <2>1 DEF Counts, LessRefs
  <1>4. y \in Counts
    BY <1>2 DEF Counts, LeftMaps
  <1>5. v[a] = w[a] - OfFirst(a, bs, i) /\ v[a] > 0
    BY <1>1, <1>2 DEF LessRefs
  <1>6. LocksKept(env) /\ v[a] = 1 => k[a] = 0
    BY <1>1, <1>2, <1>5
  <1>7. LessRefs(w, bs, i + 1) = [v EXCEPT ![a] = @ - 1]
    <2>1. ASSUME NEW b \in Bo
          PROVE  LessRefs(w, bs, i + 1)[b] = [v EXCEPT ![a] = @ - 1][b]
      BY <1>1, <1>2 DEF LessRefs
    <2>2. LessRefs(w, bs, i + 1) \in Counts
      <3>1. \A b \in Bo : w[b] - OfFirst(b, bs, i + 1) \in Nat
        BY <1>2
      <3> QED BY <3>1 DEF Counts, LessRefs
    <2>3. [v EXCEPT ![a] = @ - 1] \in Counts
      <3> HIDE DEF v
      <3> QED BY <1>1, <1>3, <1>5 DEF Counts
    <2> HIDE DEF v
    <2> QED BY <2>1, <2>2, <2>3, CountsSame
  <1>8. LeftMaps(w, u, bs, i + 1) = IF v[a] = 1 THEN [y EXCEPT ![a] = 0] ELSE y
    <2> DEFINE z == IF v[a] = 1 THEN [y EXCEPT ![a] = 0] ELSE y
    <2>1. ASSUME NEW b \in Bo PROVE LeftMaps(w, u, bs, i + 1)[b] = z[b]
      <3>1. CASE a = b
        <4>1. y[b] = u[b]
          BY <1>2, <1>5, <3>1 DEF LeftMaps
        <4>2. LeftMaps(w, u, bs, i + 1)[b] = IF v[a] = 1 THEN 0 ELSE u[b]
          BY <1>2, <1>5, <3>1 DEF LeftMaps
        <4> HIDE DEF y, v
        <4> QED BY <1>4, <3>1, <4>1, <4>2 DEF Counts
      <3>2. CASE a # b
        <4>1. LeftMaps(w, u, bs, i + 1)[b] = y[b]
          BY <1>2, <3>2 DEF LeftMaps
        <4> HIDE DEF y, v
        <4> QED BY <1>4, <3>2, <4>1 DEF Counts
      <3> QED BY <3>1, <3>2
    <2>2. LeftMaps(w, u, bs, i + 1) \in Counts
      BY <1>2 DEF Counts, LeftMaps
    <2>3. z \in Counts
      <3> HIDE DEF y, v
      <3> QED BY <1>1, <1>4 DEF Counts
    <2> HIDE DEF z
    <2> QED BY <2>1, <2>2, <2>3, CountsSame DEF z
  <1> HIDE DEF v, y
  <1> QED BY <1>1, <1>3, <1>4, <1>5, <1>6, <1>7, <1>8 DEF a, v, y

\* One reference less, where nothing is said of mappings and locks.
LEMMA LessRefsOne ==
    ASSUME NEW w \in Counts, NEW bs \in Seq(Bo), \A b \in Bo : Times(b, bs) <= w[b],
           NEW i \in Nat, i < Len(bs)
    PROVE  /\ LessRefs(w, bs, i) \in Counts /\ bs[i + 1] \in Bo
           /\ LessRefs(w, bs, i)[bs[i + 1]] > 0
           /\ LessRefs(w, bs, i + 1) = [LessRefs(w, bs, i) EXCEPT ![bs[i + 1]] = @ - 1]
  <1> DEFINE z == [b \in Bo |-> 0]
  <1>1. z \in Counts
    BY DEF Counts
  <1>2. Unrefable(0, w, z, bs)
    BY DEF Unrefable
  <1> HIDE DEF z
  <1>3. LET b == bs[i + 1]
            v == LessRefs(w, bs, i)
            y == LeftMaps(w, w, bs, i)
        IN  /\ v \in Counts /\ y \in Counts /\ b \in Bo /\ v[b] > 0
            /\ LocksKept(0) /\ v[b] = 1 => z[b] = 0
            /\ LessRefs(w, bs, i + 1) = [v EXCEPT ![b] = @ - 1]
            /\ LeftMaps(w, w, bs, i + 1) = IF v[b] = 1 THEN [y EXCEPT ![b] = 0] ELSE y
    BY <1>1, <1>2, LessRefsSteps, SMTT(60)
  <1> QED BY <1>3

\* The loop over no bo.
LEMMA NoRefsLess ==
    ASSUME NEW mgr, NEW w \in Counts, NEW u \in Counts, NEW k \in Counts, NEW P,
           Meets(mgr, w, u, k, P), NEW bs
    PROVE  LessRefs(w, bs, 0) = w /\ LeftMaps(w, u, bs, 0) = u
  <1>1. ASSUME NEW b \in Bo
        PROVE  w[b] \in Nat /\ u[b] \in Nat /\ OfFirst(b, bs, 0) = 0 /\ (w[b] = 0 => u[b] = 0)
    <2>1. w[b] \in Nat /\ u[b] \in Nat
      BY DEF Counts
    <2>2. w[b] = 0 => u[b] = 0
      <3>1. b \in DOMAIN mgr.bos <=> w[b] > 0
        BY MeetsLive
      <3>2. b \notin DOMAIN mgr.bos => u[b] = 0
        BY MeetsLive
      <3> QED BY <2>1, <3>1, <3>2
    <2> QED BY <2>1, <2>2, OfFirstSteps
  <1>2. LessRefs(w, bs, 0) = w
    <2>1. [b \in Bo |-> w[b]] = w
      BY DEF Counts
    <2> QED BY <1>1, <2>1 DEF LessRefs
  <1>3. LeftMaps(w, u, bs, 0) = u
    <2>1. [b \in Bo |-> u[b]] = u
      BY DEF Counts
    <2> QED BY <1>1, <2>1 DEF LeftMaps
  <1> QED BY <1>2, <1>3

\* The loop that gives the references to bs back.
LEMMA UnrefAllMeets ==
    ASSUME NEW mgr, NEW w \in Counts, NEW u \in Counts, NEW k \in Counts, NEW P,
           Meets(mgr, w, u, k, P), NEW bs \in Seq(Bo), Unrefable(mgr.env, w, k, bs)
    PROVE  /\ Meets(UnrefAll(mgr, bs), LessRefs(w, bs, Len(bs)),
                    LeftMaps(w, u, bs, Len(bs)), k, P)
           /\ Same(mgr, UnrefAll(mgr, bs))
  <1> DEFINE n == Len(bs)
  <1>0. n \in Nat /\ mgr \in Mgr
    BY DEF Meets
  <1>1. PICK v : /\ v[0] = mgr
                 /\ \A i \in 1 .. n : v[i] = BoUnref(v[i - 1], bs[i])
                 /\ UnrefAll(mgr, bs) = v[n]
    BY <1>0, UnrefSteps
  <1> DEFINE Ok(i) == /\ Meets(v[i], LessRefs(w, bs, i), LeftMaps(w, u, bs, i), k, P)
                      /\ Same(mgr, v[i])
             N == {i \in Nat : i <= n => Ok(i)}
  <1>2. 0 \in N
    BY <1>1, NoRefsLess DEF Same
  <1>3. ASSUME NEW i \in Nat, i \in N PROVE i + 1 \in N
    <2> SUFFICES ASSUME i + 1 <= n PROVE Ok(i + 1)
      OBVIOUS
    <2> DEFINE b == bs[i + 1]
               x == v[i]
               W == LessRefs(w, bs, i)
               U == LeftMaps(w, u, bs, i)
    <2>0. i < n /\ i + 1 \in 1 .. n /\ (i + 1) - 1 = i
      BY <1>0
    <2>1. Meets(x, W, U, k, P) /\ Same(mgr, x)
      BY <1>3, <2>0
    <2>2. v[i + 1] = BoUnref(x, b)
      BY <1>1, <2>0
    <2>3. /\ W \in Counts /\ U \in Counts /\ b \in Bo /\ W[b] > 0
          /\ LocksKept(mgr.env) /\ W[b] = 1 => k[b] = 0
          /\ LessRefs(w, bs, i + 1) = [W EXCEPT ![b] = @ - 1]
          /\ LeftMaps(w, u, bs, i + 1) = IF W[b] = 1 THEN [U EXCEPT ![b] = 0] ELSE U
      BY <2>0, LessRefsSteps
    <2> HIDE DEF b, x, W, U
    <2>4. b \in DOMAIN x.bos /\ x.env = mgr.env /\ x \in Mgr
      BY <2>1, <2>3, MeetsLive DEF Same, Meets
    <2>5. Meets(BoUnref(x, b), [W EXCEPT ![b] = @ - 1],
                IF W[b] = 1 THEN [U EXCEPT ![b] = 0] ELSE U, k, P)
      <3>1. LocksKept(x.env) /\ W[b] = 1 => k[b] = 0
        BY <2>3, <2>4
      <3> QED BY <2>1, <2>3, <2>4, <3>1, BoUnrefMeets
    <2>6. Same(x, BoUnref(x, b))
      BY <2>3, <2>4, BoUnrefMgr
    <2> QED BY <2>1, <2>2, <2>3, <2>5, <2>6 DEF Same
  <1>4. \A i \in Nat : i \in N
    <2> HIDE DEF N
    <2> QED BY <1>2, <1>3, Induct
  <1>5. Ok(n)
    <2> HIDE DEF Ok, n
    <2> QED BY <1>0, <1>4
  <1> QED BY <1>1, <1>5

\* The loop that lets go of the bos bs of a surface.
LEMMA DropBosMeets ==
    ASSUME NEW mgr, NEW w \in Counts, NEW u \in Counts, NEW k \in Counts, NEW P,
           Meets(mgr, w, u, k, P), NEW bs \in Seq(Bo), Unrefable(mgr.env, w, k, bs),
           NEW Q,
           \A c \in Bo, s \in Surf : <<c, s>> \in P /\ Times(c, bs) = 0 => <<c, s>> \in Q
    PROVE  /\ Meets(DropBos(mgr, bs), LessRefs(w, bs, Len(bs)),
                    LeftMaps(w, u, bs, Len(bs)), k, Q)
           /\ Same(mgr, DropBos(mgr, bs))
  <1> DEFINE n == Len(bs)
             R(i) == {z \in Bo \X Surf : z \in P /\ OfFirst(z[1], bs, i) = 0}
  <1>0. n \in Nat /\ mgr \in Mgr
    BY DEF Meets
  <1>1. PICK v : /\ v[0] = mgr
                 /\ \A i \in 1 .. n : v[i] = BoUnref(SetSurface(v[i - 1], bs[i], NULL), bs[i])
                 /\ DropBos(mgr, bs) = v[n]
    BY <1>0, DropSteps
  <1> DEFINE Ok(i) == /\ Meets(v[i], LessRefs(w, bs, i), LeftMaps(w, u, bs, i), k, R(i))
                      /\ Same(mgr, v[i])
             N == {i \in Nat : i <= n => Ok(i)}
  <1>2. 0 \in N
    <2>1. \A c \in Bo, s \in Surf : <<c, s>> \in P => <<c, s>> \in R(0)
      BY OfFirstSteps, ZenonT(30)
    <2> HIDE DEF R
    <2>2. Meets(mgr, w, u, k, R(0))
      BY <2>1, PairsMeet
    <2> QED BY <1>1, <2>2, NoRefsLess DEF Same
  <1>3. ASSUME NEW i \in Nat, i \in N PROVE i + 1 \in N
    <2> SUFFICES ASSUME i + 1 <= n PROVE Ok(i + 1)
      OBVIOUS
    <2> DEFINE b == bs[i + 1]
               x == v[i]
               y == SetSurface(x, b, NULL)
               W == LessRefs(w, bs, i)
               U == LeftMaps(w, u, bs, i)
    <2>0. i < n /\ i + 1 \in 1 .. n /\ (i + 1) - 1 = i
      BY <1>0
    <2>1. Meets(x, W, U, k, R(i)) /\ Same(mgr, x)
      BY <1>3, <2>0
    <2>2. v[i + 1] = BoUnref(y, b)
      BY <1>1, <2>0
    <2>3. /\ W \in Counts /\ U \in Counts /\ b \in Bo /\ W[b] > 0
          /\ LocksKept(mgr.env) /\ W[b] = 1 => k[b] = 0
          /\ LessRefs(w, bs, i + 1) = [W EXCEPT ![b] = @ - 1]
          /\ LeftMaps(w, u, bs, i + 1) = IF W[b] = 1 THEN [U EXCEPT ![b] = 0] ELSE U
      BY <2>0, LessRefsSteps
    <2>a. PairsBut(b, R(i), R(i + 1))
      <3>1. \A c \in Bo : c # b => OfFirst(c, bs, i + 1) = OfFirst(c, bs, i)
        BY OfFirstSteps, ZenonT(30)
      <3> HIDE DEF b
      <3> QED BY <3>1 DEF PairsBut
    <2> HIDE DEF b, x, W, U, R
    <2>4. b \in DOMAIN x.bos /\ x.env = mgr.env /\ x \in Mgr
      BY <2>1, <2>3, MeetsLive DEF Same, Meets
    <2>b. Meets(y, W, U, k, R(i + 1))
      BY <2>1, <2>3, <2>4, <2>a, NULL \in Surf \cup {NULL}, SetSurfaceMeets
    <2>c. y \in Mgr /\ Same(x, y) /\ DOMAIN y.bos = DOMAIN x.bos
      BY <2>3, <2>4, NULL \in Surf \cup {NULL}, SetSurfaceMgr
    <2> HIDE DEF y
    <2>d. y.env = mgr.env /\ b \in DOMAIN y.bos
      BY <2>4, <2>c DEF Same
    <2>5. Meets(BoUnref(y, b), [W EXCEPT ![b] = @ - 1],
                IF W[b] = 1 THEN [U EXCEPT ![b] = 0] ELSE U, k, R(i + 1))
      <3>1. LocksKept(y.env) /\ W[b] = 1 => k[b] = 0
        BY <2>3, <2>d
      <3> QED BY <2>b, <2>3, <2>d, <3>1, BoUnrefMeets
    <2>6. Same(y, BoUnref(y, b))
      BY <2>3, <2>c, BoUnrefMgr
    <2> QED BY <2>1, <2>2, <2>3, <2>5, <2>6, <2>c DEF Same
  <1>4. \A i \in Nat : i \in N
    <2> HIDE DEF N
    <2> QED BY <1>2, <1>3, Induct
  <1>5. Ok(n)
    <2> HIDE DEF Ok, n
    <2> QED BY <1>0, <1>4
  <1>6. \A c \in Bo, s \in Surf : <<c, s>> \in R(n) => <<c, s>> \in Q
    <2>1. \A c \in Bo : Times(c, bs) = OfFirst(c, bs, n)
      BY <1>0, OfFirstTimes, n \in 0 .. n
    <2> HIDE DEF n
    <2> QED BY <2>1
  <1> HIDE DEF R, n
  <1>7. Meets(v[n], LessRefs(w, bs, n), LeftMaps(w, u, bs, n), k, Q)
    BY <1>5, <1>6, PairsMeet
  <1> QED BY <1>1, <1>5, <1>7 DEF n

\* What is expected after i of the bos bs have a reference more.
MoreRefs(w, bs, i) == [b \in Bo |-> w[b] + OfFirst(b, bs, i)]

\* One reference more is one step of the loop.
LEMMA MoreRefsSteps ==
    ASSUME NEW w \in Counts, NEW bs \in Seq(Bo), NEW i \in Nat, i < Len(bs)
    PROVE  LET b == bs[i + 1]
               v == MoreRefs(w, bs, i)
           IN  /\ v \in Counts /\ b \in Bo /\ v[b] = w[b] + OfFirst(b, bs, i)
               /\ v[b] >= w[b] /\ w[b] \in Nat /\ OfFirst(b, bs, i) \in Nat
               /\ MoreRefs(w, bs, i + 1) = [v EXCEPT ![b] = @ + 1]
               /\ MoreRefs(w, bs, 0) = w
  <1> DEFINE a == bs[i + 1]
             v == MoreRefs(w, bs, i)
  <1>1. a \in Bo
    OBVIOUS
  <1>2. ASSUME NEW b \in Bo
        PROVE  /\ w[b] \in Nat /\ OfFirst(b, bs, 0) = 0
               /\ OfFirst(b, bs, i) \in Nat
               /\ OfFirst(b, bs, i + 1) =
                    IF a = b THEN OfFirst(b, bs, i) + 1 ELSE OfFirst(b, bs, i)
    BY OfFirstSteps, ZenonT(30) DEF Counts
  <1> HIDE DEF a
  <1>3. v \in Counts /\ v[a] = w[a] + OfFirst(a, bs, i) /\ v[a] >= w[a]
    BY <1>1, <1>2, SMTT(30) DEF Counts, MoreRefs
  <1>4. MoreRefs(w, bs, i + 1) = [v EXCEPT ![a] = @ + 1]
    <2>1. \A b \in Bo : MoreRefs(w, bs, i + 1)[b] = [v EXCEPT ![a] = @ + 1][b]
      <3>1. \A b \in Bo : v[b] = w[b] + OfFirst(b, bs, i)
        BY DEF MoreRefs
      <3>2. \A b \in Bo : MoreRefs(w, bs, i + 1)[b] = w[b] + OfFirst(b, bs, i + 1)
        BY DEF MoreRefs
      <3> HIDE DEF v
      <3>3. \A b \in Bo : [v EXCEPT ![a] = @ + 1][b] = IF a = b THEN v[b] + 1 ELSE v[b]
        BY <1>1, <1>3 DEF Counts
      <3>4. \A b \in Bo : MoreRefs(w, bs, i + 1)[b] = IF a = b THEN v[b] + 1 ELSE v[b]
        <4> SUFFICES ASSUME NEW b \in Bo
                     PROVE  MoreRefs(w, bs, i + 1)[b] = IF a = b THEN v[b] + 1 ELSE v[b]
          OBVIOUS
        <4>1. /\ w[b] \in Nat /\ OfFirst(b, bs, i) \in Nat
              /\ OfFirst(b, bs, i + 1) =
                    IF a = b THEN OfFirst(b, bs, i) + 1 ELSE OfFirst(b, bs, i)
          BY <1>2
        <4>2. /\ v[b] = w[b] + OfFirst(b, bs, i)
              /\ MoreRefs(w, bs, i + 1)[b] = w[b] + OfFirst(b, bs, i + 1)
          BY <3>1, <3>2
        <4>3. CASE a = b
          BY <4>1, <4>2, <4>3
        <4>4. CASE a # b
          BY <4>1, <4>2, <4>4
        <4> QED BY <4>3, <4>4
      <3> QED BY <3>3, <3>4
    <2>2. MoreRefs(w, bs, i + 1) \in Counts
      <3>1. \A b \in Bo : w[b] + OfFirst(b, bs, i + 1) \in Nat
        BY <1>2
      <3> QED BY <3>1 DEF Counts, MoreRefs
    <2>3. [v EXCEPT ![a] = @ + 1] \in Counts
      <3> HIDE DEF v
      <3> QED BY <1>1, <1>3 DEF Counts
    <2> HIDE DEF v
    <2> QED BY <2>1, <2>2, <2>3, CountsSame
  <1>5. MoreRefs(w, bs, 0) = w
    <2>1. [b \in Bo |-> w[b]] = w
      BY DEF Counts
    <2> QED BY <1>2, <2>1 DEF MoreRefs
  <1> HIDE DEF v
  <1> QED BY <1>1, <1>2, <1>3, <1>4, <1>5 DEF a, v

\* The loop over no bo.
LEMMA NoRefsMore ==
    ASSUME NEW w \in Counts, NEW bs
    PROVE  MoreRefs(w, bs, 0) = w
  <1>1. ASSUME NEW b \in Bo PROVE w[b] \in Nat /\ OfFirst(b, bs, 0) = 0
    BY OfFirstSteps, ZenonT(30) DEF Counts
  <1>2. [b \in Bo |-> w[b]] = w
    BY DEF Counts
  <1> QED BY <1>1, <1>2 DEF MoreRefs

\* The loop in which the surface s takes references to bs.
LEMMA RefAllMeets ==
    ASSUME NEW mgr, NEW w \in Counts, NEW u \in Counts, NEW k \in Counts, NEW P,
           Meets(mgr, w, u, k, P), NEW s \in Surf, NEW bs \in Seq(DOMAIN mgr.bos),
           NEW Q, \A c \in Bo, r \in Surf : <<c, r>> \in P => <<c, r>> \in Q,
           \A i \in 1 .. Len(bs) : <<bs[i], s>> \in Q
    PROVE  /\ Meets(RefAll(mgr, s, bs), MoreRefs(w, bs, Len(bs)), u, k, Q)
           /\ Same(mgr, RefAll(mgr, s, bs))
  <1> DEFINE n == Len(bs)
  <1>0. n \in Nat /\ mgr \in Mgr
    BY DEF Meets
  <1>a. bs \in Seq(Bo) /\ \A i \in 1 .. n : bs[i] \in DOMAIN mgr.bos
    <2>1. DOMAIN mgr.bos \subseteq Bo
      BY <1>0, MgrFields
    <2> QED BY <2>1
  <1>1. PICK v : /\ v[0] = mgr
                 /\ \A i \in 1 .. n : v[i] = SetSurface(BoRef(v[i - 1], bs[i]), bs[i], s)
                 /\ RefAll(mgr, s, bs) = v[n]
    BY <1>0, <1>a, RefSteps
  <1> DEFINE Ok(i) == Meets(v[i], MoreRefs(w, bs, i), u, k, Q) /\ Same(mgr, v[i])
             N == {i \in Nat : i <= n => Ok(i)}
  <1>2. 0 \in N
    <2>1. Meets(mgr, w, u, k, Q)
      BY PairsMeet
    <2> QED BY <1>1, <2>1, NoRefsMore DEF Same
  <1>3. ASSUME NEW i \in Nat, i \in N PROVE i + 1 \in N
    <2> SUFFICES ASSUME i + 1 <= n PROVE Ok(i + 1)
      OBVIOUS
    <2> DEFINE b == bs[i + 1]
               x == v[i]
               y == BoRef(x, b)
               W == MoreRefs(w, bs, i)
               V == [W EXCEPT ![b] = @ + 1]
    <2>0. i < n /\ i + 1 \in 1 .. n /\ (i + 1) - 1 = i
      BY <1>0
    <2>1. Meets(x, W, u, k, Q) /\ Same(mgr, x)
      BY <1>3, <2>0
    <2>2. v[i + 1] = SetSurface(y, b, s)
      BY <1>1, <2>0
    <2>3. /\ W \in Counts /\ b \in Bo /\ W[b] >= w[b] /\ W[b] \in Nat /\ w[b] \in Nat
          /\ MoreRefs(w, bs, i + 1) = V
      BY <1>a, <2>0, MoreRefsSteps DEF Counts
    <2>a. b \in DOMAIN mgr.bos /\ w[b] > 0 /\ <<b, s>> \in Q
      <3>1. b \in DOMAIN mgr.bos /\ <<b, s>> \in Q
        BY <1>a, <2>0
      <3> QED BY <3>1, MeetsAt
    <2> HIDE DEF b, x, W
    <2>4. b \in DOMAIN x.bos /\ x \in Mgr
      <3>1. W[b] > 0
        BY <2>3, <2>a
      <3> QED BY <2>1, <2>3, <3>1, MeetsLive DEF Meets
    <2>b. Meets(y, V, u, k, Q)
      BY <2>1, <2>3, <2>4, BoRefMeets
    <2>c. y \in Mgr /\ Same(x, y)
      BY <2>3, <2>4, BoRefMgr
    <2>d. V \in Counts /\ V[b] > 0
      BY <2>3 DEF Counts
    <2> HIDE DEF y, V
    <2>e. b \in DOMAIN y.bos
      BY <2>3, <2>b, <2>d, MeetsLive
    <2>5. Meets(SetSurface(y, b, s), V, u, k, Q)
      <3>1. PairsBut(b, Q, Q) /\ s \in Surf \cup {NULL}
        BY Alike
      <3> QED BY <2>b, <2>d, <2>e, <2>a, <3>1, SetSurfaceMeets
    <2>6. Same(y, SetSurface(y, b, s))
      BY <2>3, <2>c, SetSurfaceMgr
    <2> QED BY <2>1, <2>2, <2>3, <2>5, <2>6, <2>c DEF Same
  <1>4. \A i \in Nat : i \in N
    <2> HIDE DEF N
    <2> QED BY <1>2, <1>3, Induct
  <1>5. Ok(n)
    <2> HIDE DEF Ok, n
    <2> QED BY <1>0, <1>4
  <1> QED BY <1>1, <1>5

\* The loop that unmaps bs.
LEMMA UnmapAllMeets ==
    ASSUME NEW mgr, NEW w \in Counts, NEW u \in Counts, NEW k \in Counts, NEW P,
           Meets(mgr, w, u, k, P), NEW bs \in Seq(DOMAIN mgr.bos),
           \A b \in Bo : Times(b, bs) <= u[b]
    PROVE  /\ Meets(FoldLeft(BoUnmap, mgr, bs), w, LessRefs(u, bs, Len(bs)), k, P)
           /\ Same(mgr, FoldLeft(BoUnmap, mgr, bs))
  <1> DEFINE n == Len(bs)
  <1>0. n \in Nat /\ mgr \in Mgr
    BY DEF Meets
  <1>a. bs \in Seq(Bo) /\ \A i \in 1 .. n : bs[i] \in DOMAIN mgr.bos
    <2>1. DOMAIN mgr.bos \subseteq Bo
      BY <1>0, MgrFields
    <2> QED BY <2>1
  <1>1. PICK v : /\ v[0] = mgr
                 /\ \A i \in 1 .. n : v[i] = BoUnmap(v[i - 1], bs[i])
                 /\ FoldLeft(BoUnmap, mgr, bs) = v[n]
    BY <1>0, UnmapSteps
  <1> DEFINE Ok(i) == Meets(v[i], w, LessRefs(u, bs, i), k, P) /\ Same(mgr, v[i])
             N == {i \in Nat : i <= n => Ok(i)}
  <1>2. 0 \in N
    <2>1. LessRefs(u, bs, 0) = u
      <3>1. ASSUME NEW b \in Bo PROVE u[b] \in Nat /\ OfFirst(b, bs, 0) = 0
        BY OfFirstSteps, ZenonT(30) DEF Counts
      <3>2. [b \in Bo |-> u[b]] = u
        BY DEF Counts
      <3> QED BY <3>1, <3>2 DEF LessRefs
    <2> QED BY <1>1, <2>1 DEF Same
  <1>3. ASSUME NEW i \in Nat, i \in N PROVE i + 1 \in N
    <2> SUFFICES ASSUME i + 1 <= n PROVE Ok(i + 1)
      OBVIOUS
    <2> DEFINE b == bs[i + 1]
               x == v[i]
               U == LessRefs(u, bs, i)
    <2>0. i < n /\ i + 1 \in 1 .. n /\ (i + 1) - 1 = i
      BY <1>0
    <2>1. Meets(x, w, U, k, P) /\ Same(mgr, x)
      BY <1>3, <2>0
    <2>2. v[i + 1] = BoUnmap(x, b)
      BY <1>1, <2>0
    <2>3. /\ U \in Counts /\ b \in Bo /\ U[b] > 0
          /\ LessRefs(u, bs, i + 1) = [U EXCEPT ![b] = @ - 1]
      <3>1. bs \in Seq(Bo) /\ i < Len(bs)
        BY <1>a, <2>0
      <3> HIDE DEF n
      <3> QED BY <3>1, LessRefsOne
    <2>a. b \in DOMAIN mgr.bos /\ w[b] > 0
      <3>1. b \in DOMAIN mgr.bos
        BY <1>a, <2>0
      <3> QED BY <3>1, MeetsAt
    <2> HIDE DEF b, x, U
    <2>4. b \in DOMAIN x.bos /\ x \in Mgr
      BY <2>1, <2>3, <2>a, MeetsLive DEF Meets
    <2>5. Meets(BoUnmap(x, b), w, [U EXCEPT ![b] = @ - 1], k, P)
      BY <2>1, <2>3, <2>4, BoUnmapMeets
    <2>6. Same(x, BoUnmap(x, b))
      BY <2>4, BoUnmapMgr
    <2> QED BY <2>1, <2>2, <2>3, <2>5, <2>6 DEF Same
  <1>4. \A i \in Nat : i \in N
    <2> HIDE DEF N
    <2> QED BY <1>2, <1>3, Induct
  <1>5. Ok(n)
    <2> HIDE DEF Ok, n
    <2> QED BY <1>0, <1>4
  <1> QED BY <1>1, <1>5

\* The backend objects after a bo of a surface is made.
LEMMA AllocOnePrivs ==
    ASSUME NEW x \in Mgr, NEW b \in Bo, b \notin DOMAIN x.bos, NEW p \in Priv, NEW s \in Surf,
           NEW V, \A c \in DOMAIN x.bos : x.bos[c].priv \in V
    PROVE  LET y == SetSurface(SurfaceBo(x, b, p), b, s)
           IN  \A c \in DOMAIN y.bos : y.bos[c].priv \in V \cup {p}
  <1> DEFINE y == SurfaceBo(x, b, p)
             z == SetSurface(y, b, s)
  <1>1. /\ y \in Mgr /\ DOMAIN y.bos = DOMAIN x.bos \cup {b} /\ y.bos[b] = NewBo(p)
        /\ \A c \in DOMAIN x.bos : c # b => y.bos[c] = x.bos[c]
    BY SurfaceBoMgr
  <1>2. y.bos[b].priv = p
    <2> HIDE DEF y
    <2> QED BY <1>1 DEF NewBo
  <1> HIDE DEF y
  <1>3. Touches(y, z, b)
    <2>1. z = [y EXCEPT !.bos[b].surface = s]
      BY DEF SetSurface
    <2>2. s \in Surf \cup {NULL} /\ b \in DOMAIN y.bos
      BY <1>1
    <2> HIDE DEF z
    <2> QED BY <1>1, <2>1, <2>2, 0 \in Int, BoFieldChanged
  <1> HIDE DEF z
  <1>4. \A c \in DOMAIN z.bos : z.bos[c].priv \in V \cup {p}
    BY <1>1, <1>2, <1>3 DEF Touches
  <1> QED BY <1>4 DEF z, y

\* The loop that makes the bos bs of the surface s.
LEMMA AllocAllMeets ==
    ASSUME NEW mgr, NEW w \in Counts, NEW u \in Counts, NEW k \in Counts, NEW P,
           Meets(mgr, w, u, k, P), NEW s \in Surf, NEW bs \in Seq(Bo),
           NEW ps \in [1 .. Len(bs) -> Priv],
           \A i, j \in 1 .. Len(bs) : bs[i] = bs[j] => i = j,
           \A i, j \in 1 .. Len(bs) : ps[i] = ps[j] => i = j,
           \A i \in 1 .. Len(bs) : bs[i] \notin DOMAIN mgr.bos
                                   /\ ps[i] \notin PrivsInUse(mgr),
           NEW Q, \A c \in Bo, r \in Surf : <<c, r>> \in P => <<c, r>> \in Q,
           \A i \in 1 .. Len(bs) : <<bs[i], s>> \in Q
    PROVE  /\ Meets(AllocAll(mgr, s, bs, ps), MoreRefs(w, bs, Len(bs)), u, k, Q)
           /\ Same(mgr, AllocAll(mgr, s, bs, ps))
  <1> DEFINE n == Len(bs)
  <1>0. n \in Nat /\ mgr \in Mgr
    BY DEF Meets
  <1>1. PICK v : /\ v[0] = mgr
                 /\ \A i \in 1 .. n :
                      v[i] = SetSurface(SurfaceBo(v[i - 1], bs[i], ps[i]), bs[i], s)
                 /\ AllocAll(mgr, s, bs, ps) = v[n]
    BY <1>0, AllocSteps
  <1> DEFINE R(i) == PrivsInUse(mgr) \cup {ps[j] : j \in 1 .. i}
             Ok(i) == /\ Meets(v[i], MoreRefs(w, bs, i), u, k, Q) /\ Same(mgr, v[i])
                      /\ \A c \in DOMAIN v[i].bos : v[i].bos[c].priv \in R(i)
             N == {i \in Nat : i <= n => Ok(i)}
  <1>2. 0 \in N
    <2>1. Meets(mgr, w, u, k, Q)
      BY PairsMeet
    <2>2. \A c \in DOMAIN mgr.bos : mgr.bos[c].priv \in R(0)
      BY DEF PrivsInUse
    <2> HIDE DEF R
    <2> QED BY <1>1, <2>1, <2>2, NoRefsMore DEF Same
  <1>3. ASSUME NEW i \in Nat, i \in N PROVE i + 1 \in N
    <2> SUFFICES ASSUME i + 1 <= n PROVE Ok(i + 1)
      OBVIOUS
    <2> DEFINE b == bs[i + 1]
               p == ps[i + 1]
               x == v[i]
               y == SurfaceBo(x, b, p)
               W == MoreRefs(w, bs, i)
               V == [W EXCEPT ![b] = @ + 1]
    <2>0. i < n /\ i + 1 \in 1 .. n /\ (i + 1) - 1 = i
      BY <1>0
    <2>1. /\ Meets(x, W, u, k, Q) /\ Same(mgr, x)
          /\ \A c \in DOMAIN x.bos : x.bos[c].priv \in R(i)
      BY <1>3, <2>0
    <2>2. v[i + 1] = SetSurface(y, b, s)
      BY <1>1, <2>0
    <2>3. /\ W \in Counts /\ b \in Bo /\ W[b] = w[b] + OfFirst(b, bs, i)
          /\ OfFirst(b, bs, i) \in Nat /\ w[b] \in Nat
          /\ MoreRefs(w, bs, i + 1) = V
      BY <2>0, MoreRefsSteps
    <2>a. W[b] = 0 /\ p \in Priv /\ p \notin R(i) /\ <<b, s>> \in Q
      <3>1. b \notin DOMAIN mgr.bos /\ p \notin PrivsInUse(mgr) /\ p \in Priv /\ <<b, s>> \in Q
        BY <2>0
      <3>2. w[b] = 0
        <4> HIDE DEF b
        <4> QED BY <2>3, <3>1, MeetsLive
      <3>3. ~ \E j \in 1 .. i : bs[j] = b
        BY <1>0, <2>0
      <3>4. OfFirst(b, bs, i) = 0
        <4>1. OfFirst(b, bs, i) > 0 <=> \E j \in 1 .. i : bs[j] = b
          BY OfFirstSteps, ZenonT(30)
        <4> QED BY <2>3, <3>3, <4>1
      <3>5. ~ \E j \in 1 .. i : ps[j] = p
        BY <1>0, <2>0
      <3> HIDE DEF b, p, W
      <3> QED BY <2>3, <3>1, <3>2, <3>4, <3>5
    <2>b. R(i + 1) = R(i) \cup {p}
      <3>1. \A j : j \in 1 .. i + 1 <=> j \in 1 .. i \/ j = i + 1
        OBVIOUS
      <3> QED BY <3>1
    <2> HIDE DEF b, p, x, W, R
    <2>4. b \notin DOMAIN x.bos /\ x \in Mgr /\ p \notin PrivsInUse(x)
      <3>1. b \notin DOMAIN x.bos
        <4>1. b \in DOMAIN x.bos <=> W[b] > 0
          BY <2>1, <2>3, MeetsLive
        <4> QED BY <2>a, <4>1
      <3> QED BY <2>1, <2>a, <3>1 DEF Meets, PrivsInUse
    <2>5. /\ y \in Mgr /\ Same(x, y) /\ b \in DOMAIN y.bos
      BY <2>3, <2>4, <2>a, SurfaceBoMgr
    <2>6. Meets(y, V, u, k, Q)
      <3>1. PICK q \in Nat : /\ ~SurfaceBoAlloc => q = (x.bo_cnt + 1) % UIntMod
                             /\ y = LinkedBo(x, b, p, q)
        BY <2>3, <2>4, <2>a, SurfaceBoIs
      <3>2. Meets(LinkedBo(x, b, p, q), [W EXCEPT ![b] = 1], u, k, Q)
        BY <2>1, <2>3, <2>4, <2>a, <3>1, AllocMeets DEF LinkedBo
      <3>3. V = [W EXCEPT ![b] = 1]
        BY <2>a, 0 + 1 = 1
      <3> QED BY <3>1, <3>2, <3>3
    <2>7. V \in Counts
      <3>1. W[b] + 1 \in Nat
        BY <2>a
      <3> QED BY <2>3, <3>1 DEF Counts
    <2>8. \A c \in DOMAIN v[i + 1].bos : v[i + 1].bos[c].priv \in R(i + 1)
      BY <2>1, <2>2, <2>3, <2>4, <2>a, <2>b, AllocOnePrivs
    <2> HIDE DEF y, V
    <2>9. Meets(SetSurface(y, b, s), V, u, k, Q)
      <3>1. PairsBut(b, Q, Q) /\ s \in Surf \cup {NULL}
        BY Alike
      <3> QED BY <2>5, <2>6, <2>7, <2>a, <3>1, SetSurfaceMeets
    <2>10. Same(y, SetSurface(y, b, s))
      BY <2>3, <2>5, SetSurfaceMgr
    <2> QED BY <2>1, <2>2, <2>3, <2>5, <2>8, <2>9, <2>10 DEF Same
  <1>4. \A i \in Nat : i \in N
    <2> HIDE DEF N
    <2> QED BY <1>2, <1>3, Induct
  <1>5. Ok(n)
    <2> HIDE DEF Ok, n
    <2> QED BY <1>0, <1>4
  <1> QED BY <1>1, <1>5

\* Only the pairs of bos that live matter.
LEMMA LivePairsMeet ==
    ASSUME NEW mgr, NEW w, NEW u, NEW k, NEW P, Meets(mgr, w, u, k, P),
           NEW Q, \A c \in Bo, s \in Surf : w[c] > 0 /\ <<c, s>> \in P => <<c, s>> \in Q
    PROVE  Meets(mgr, w, u, k, Q)
  <1>1. mgr \in Mgr /\ BackMeet(mgr, P) /\ RefsMeet(mgr, w)
    BY DEF Meets
  <1>2. ASSUME NEW b \in DOMAIN mgr.bos, mgr.bos[b].surface # NULL
        PROVE  <<b, mgr.bos[b].surface>> \in Q
    <2>1. b \in Bo /\ mgr.bos[b].surface \in Surf
      BY <1>1, <1>2, BoOf
    <2>2. w[b] > 0
      BY <1>1, <2>1 DEF RefsMeet
    <2> QED BY <1>1, <1>2, <2>1, <2>2 DEF BackMeet
  <1>3. BackMeet(mgr, Q)
    BY <1>2 DEF BackMeet
  <1> QED BY <1>3 DEF Meets

\* References that are taken and given back.
LEMMA MoreAndLess ==
    ASSUME NEW mgr, NEW w \in Counts, NEW u \in Counts, NEW k \in Counts, NEW P,
           Meets(mgr, w, u, k, P), NEW bs \in Seq(Bo)
    PROVE  LET v == MoreRefs(w, bs, Len(bs))
           IN  /\ v \in Counts /\ Unrefable(mgr.env, v, k, bs)
               /\ LessRefs(v, bs, Len(bs)) = w /\ LeftMaps(v, u, bs, Len(bs)) = u
  <1> DEFINE n == Len(bs)
             v == MoreRefs(w, bs, n)
  <1>1. n \in Nat
    OBVIOUS
  <1>2. ASSUME NEW b \in Bo
        PROVE  /\ v[b] = w[b] + OfFirst(b, bs, n) /\ v[b] \in Nat
               /\ w[b] \in Nat /\ u[b] \in Nat /\ OfFirst(b, bs, n) \in Nat
               /\ Times(b, bs) = OfFirst(b, bs, n)
               /\ w[b] = 0 => u[b] = 0
               /\ w[b] = 0 /\ LocksKept(mgr.env) => k[b] = 0
    <2>1. w[b] \in Nat /\ u[b] \in Nat
      BY DEF Counts
    <2>2. OfFirst(b, bs, n) \in Nat
      BY <1>1, OfFirstSteps
    <2>3. Times(b, bs) = OfFirst(b, bs, n)
      BY <1>1, OfFirstTimes, n \in 0 .. n
    <2>4. v[b] = w[b] + OfFirst(b, bs, n)
      BY DEF MoreRefs
    <2>5. b \in DOMAIN mgr.bos <=> w[b] > 0
      BY MeetsLive
    <2>6. /\ b \notin DOMAIN mgr.bos => u[b] = 0
          /\ b \notin DOMAIN mgr.bos /\ LocksKept(mgr.env) => k[b] = 0
      BY MeetsLive
    <2> HIDE DEF v, n
    <2> QED BY <2>1, <2>2, <2>3, <2>4, <2>5, <2>6
  <1>3. v \in Counts
    <2>1. v = [b \in Bo |-> v[b]]
      BY DEF MoreRefs
    <2> HIDE DEF v, n
    <2> QED BY <1>2, <2>1 DEF Counts
  <1> HIDE DEF v, n
  <1>4. Unrefable(mgr.env, v, k, bs)
    BY <1>2 DEF Unrefable
  <1>5. LessRefs(v, bs, n) = w
    <2>1. w = [b \in Bo |-> w[b]]
      BY DEF Counts
    <2>2. \A b \in Bo : v[b] - OfFirst(b, bs, n) = w[b]
      BY <1>2
    <2> QED BY <2>1, <2>2 DEF LessRefs
  <1>6. LeftMaps(v, u, bs, n) = u
    <2>1. u = [b \in Bo |-> u[b]]
      BY DEF Counts
    <2>2. \A b \in Bo : (IF v[b] = OfFirst(b, bs, n) THEN 0 ELSE u[b]) = u[b]
      BY <1>2
    <2> QED BY <2>1, <2>2 DEF LeftMaps
  <1> QED BY <1>3, <1>4, <1>5, <1>6 DEF v, n

\* The managers that tbm_bufmgr_deinit goes through: it[s] is what is left when
\* the bos of s are freed.
FreedFrom(mgr, it) ==
    /\ it[{}] = mgr
    /\ \A s \in SUBSET (DOMAIN mgr.bos) :
         s # {} => LET b == CHOOSE x \in s : TRUE
                       y == it[s \ {b}]
                   IN  b \in DOMAIN y.bos => it[s] = BoFree(y, b)

Without(w, s) == [b \in Bo |-> IF b \in s THEN 0 ELSE w[b]]

\* Each manager of tbm_bufmgr_deinit expects nothing of the bos freed so far.
LEMMA FreedMeets ==
    ASSUME NEW mgr, NEW w \in Counts, NEW u \in Counts, NEW k \in Counts, NEW P,
           Meets(mgr, w, u, k, P), LocksKept(mgr.env) => \A b \in Bo : k[b] = 0,
           NEW it, FreedFrom(mgr, it)
    PROVE  \A s \in SUBSET (DOMAIN mgr.bos) :
             Meets(it[s], Without(w, s), Without(u, s), k, P) /\ Same(mgr, it[s])
  <1> DEFINE D == DOMAIN mgr.bos
             c(s) == CHOOSE x \in s : TRUE
             Ok(s) == Meets(it[s], Without(w, s), Without(u, s), k, P) /\ Same(mgr, it[s])
             N == {n \in Nat : \A s \in SUBSET D : Cardinality(s) = n => Ok(s)}
  <1>0. mgr \in Mgr /\ IsFiniteSet(D) /\ D \in SUBSET Bo
    <2>1. mgr \in Mgr
      BY DEF Meets
    <2> QED BY <2>1, MgrFields
  <1>1. ASSUME NEW s \in SUBSET D
        PROVE  /\ IsFiniteSet(s) /\ Cardinality(s) \in Nat
               /\ s # {} => /\ c(s) \in s /\ s \ {c(s)} \in SUBSET D
                            /\ Cardinality(s \ {c(s)}) = Cardinality(s) - 1
               /\ Cardinality(s) = 0 <=> s = {}
    <2>1. IsFiniteSet(s) /\ Cardinality(s) \in Nat
      BY <1>0, FS_Subset, FS_CardinalityType
    <2>2. ASSUME s # {} PROVE c(s) \in s
      BY <2>2
    <2>3. ASSUME NEW y \in s PROVE Cardinality(s \ {y}) = Cardinality(s) - 1
      BY <2>1, FS_RemoveElement
    <2>4. Cardinality(s) = 0 <=> s = {}
      BY <2>1, FS_EmptySet
    <2> HIDE DEF c
    <2> QED BY <2>1, <2>2, <2>3, <2>4
  <1>2. Without(w, {}) = w /\ Without(u, {}) = u
    BY DEF Without, Counts
  <1>3. ASSUME NEW s PROVE Without(w, s) \in Counts /\ Without(u, s) \in Counts
    BY DEF Without, Counts
  <1>4. Ok({})
    BY <1>2 DEF FreedFrom, Same
  <1>5. 0 \in N
    <2> HIDE DEF Ok
    <2> QED BY <1>1, <1>4
  <1>6. ASSUME NEW n \in Nat, n \in N PROVE n + 1 \in N
    <2> SUFFICES ASSUME NEW s \in SUBSET D, Cardinality(s) = n + 1 PROVE Ok(s)
      BY DEF N
    <2> DEFINE b == c(s)
               r == s \ {b}
               y == it[r]
    <2>1. s # {} /\ b \in s /\ r \in SUBSET D /\ Cardinality(r) = n
      <3>1. s # {}
        <4>1. Cardinality(s) # 0
          OBVIOUS
        <4> QED BY <1>1, <4>1
      <3>2. /\ c(s) \in s /\ s \ {c(s)} \in SUBSET D
            /\ Cardinality(s \ {c(s)}) = Cardinality(s) - 1
        BY <1>1, <3>1
      <3> HIDE DEF c, D
      <3> QED BY <3>1, <3>2
    <2>2. Ok(r)
      <3> HIDE DEF Ok, r
      <3> QED BY <1>6, <2>1
    <2>3. b \in D /\ b \in Bo /\ Without(w, r)[b] = w[b] /\ w[b] > 0
      <3>1. b \in D /\ b \in Bo
        BY <1>0, <2>1
      <3>2. w[b] > 0
        <4> HIDE DEF b
        <4> QED BY <3>1, MeetsAt
      <3>3. b \notin r
        <4> HIDE DEF b
        <4> QED OBVIOUS
      <3> HIDE DEF b, r
      <3> QED BY <3>1, <3>2, <3>3 DEF Without
    <2>4. Meets(y, Without(w, r), Without(u, r), k, P) /\ Same(mgr, y)
      BY <2>2
    <2>5. s # {} /\ b \in DOMAIN y.bos => it[s] = BoFree(y, b)
      BY DEF FreedFrom
    <2> HIDE DEF y, b
    <2>6. b \in DOMAIN y.bos /\ y \in Mgr /\ (LocksKept(y.env) => k[b] = 0)
      <3>1. Without(w, r) \in Counts /\ Without(u, r) \in Counts
        BY <1>3
      <3> HIDE DEF r
      <3> QED BY <2>3, <2>4, <3>1, MeetsLive DEF Same, Meets
    <2>7. Meets(BoFree(y, b), [Without(w, r) EXCEPT ![b] = 0], [Without(u, r) EXCEPT ![b] = 0], k, P)
      <3>1. Without(w, r) \in Counts /\ Without(u, r) \in Counts
        BY <1>3
      <3> HIDE DEF r
      <3> QED BY <2>4, <2>6, <3>1, BoFreeMeets
    <2>8. /\ [Without(w, r) EXCEPT ![b] = 0] = Without(w, s)
          /\ [Without(u, r) EXCEPT ![b] = 0] = Without(u, s)
      BY <2>1, <2>3 DEF Without
    <2>9. Same(y, BoFree(y, b))
      BY <2>6, BoFreeMgr
    <2> QED BY <2>1, <2>4, <2>5, <2>6, <2>7, <2>8, <2>9 DEF Same
  <1>7. \A n \in Nat : n \in N
    <2> HIDE DEF N
    <2> QED BY <1>5, <1>6, Induct
  <1> HIDE DEF Ok
  <1>8. \A s \in SUBSET D : Ok(s)
    BY <1>1, <1>7
  <1> QED BY <1>8 DEF Ok

\* The last tbm_bufmgr_deinit: no bo is left.
LEMMA LastDeinitMeets ==
    ASSUME NEW mgr, NEW w \in Counts, NEW u \in Counts, NEW k \in Counts, NEW P,
           Meets(mgr, w, u, k, P), LocksKept(mgr.env) => \A b \in Bo : k[b] = 0,
           ~(mgr.ref_count > 1), NEW z, z = [b \in Bo |-> 0]
    PROVE  /\ Meets(MgrDeinit(mgr), z, z, k, P)
           /\ MgrDeinit(mgr).ref_count = 0 /\ MgrDeinit(mgr).env = mgr.env
           /\ DOMAIN MgrDeinit(mgr).bos = {}
  <1> DEFINE D == DOMAIN mgr.bos
             c(s) == CHOOSE x \in s : TRUE
             F == [y \in D \X Mgr |-> IF y[1] \in DOMAIN y[2].bos THEN BoFree(y[2], y[1])
                                      ELSE y[2]]
             G(it) == [s \in SUBSET D |-> IF s = {} THEN mgr
                                          ELSE BoFree(it[s \ {c(s)}], c(s))]
  <1>0. mgr \in Mgr /\ IsFiniteSet(D) /\ D \in SUBSET Bo
    <2>1. mgr \in Mgr
      BY DEF Meets
    <2> QED BY <2>1, MgrFields
  <1>1. F \in [D \X Mgr -> Mgr]
    <2>1. ASSUME NEW x \in D, NEW y \in Mgr
          PROVE  (IF x \in DOMAIN y.bos THEN BoFree(y, x) ELSE y) \in Mgr
      BY BoFreeMgr
    <2> HIDE DEF D
    <2> QED BY <2>1
  <1>2. PICK it \in [SUBSET D -> Mgr] : SetFoldedBy(D, mgr, F, it)
    <2> HIDE DEF F, D
    <2> QED BY <1>0, <1>1, SetFoldExists
  <1>3. it = [s \in SUBSET D |-> IF s = {} THEN mgr ELSE F[<<c(s), it[s \ {c(s)}]>>]]
    <2> HIDE DEF F, D
    <2> QED BY <1>2 DEF SetFoldedBy
  <1>4. ASSUME NEW s \in SUBSET D, s # {}
        PROVE  /\ c(s) \in s /\ c(s) \in D /\ s \ {c(s)} \in SUBSET D
               /\ F[<<c(s), it[s \ {c(s)}]>>] =
                     IF c(s) \in DOMAIN it[s \ {c(s)}].bos THEN BoFree(it[s \ {c(s)}], c(s))
                     ELSE it[s \ {c(s)}]
    <2>1. c(s) \in s
      BY <1>4
    <2> HIDE DEF c, D
    <2>2. <<c(s), it[s \ {c(s)}]>> \in D \X Mgr
      BY <2>1
    <2> QED BY <2>1, <2>2
  <1> HIDE DEF F
  <1>5. FreedFrom(mgr, it)
    <2>1. it[{}] = mgr
      <3> HIDE DEF D, c
      <3> QED BY <1>3
    <2>2. ASSUME NEW s \in SUBSET D, s # {}, c(s) \in DOMAIN it[s \ {c(s)}].bos
          PROVE  it[s] = BoFree(it[s \ {c(s)}], c(s))
      <3> HIDE DEF D, c
      <3>1. it[s] = F[<<c(s), it[s \ {c(s)}]>>]
        BY <1>3, <2>2
      <3>2. F[<<c(s), it[s \ {c(s)}]>>] = BoFree(it[s \ {c(s)}], c(s))
        BY <1>4, <2>2
      <3> QED BY <3>1, <3>2
    <2> QED BY <2>1, <2>2 DEF FreedFrom
  <1>6. \A s \in SUBSET D :
             Meets(it[s], Without(w, s), Without(u, s), k, P) /\ Same(mgr, it[s])
    BY <1>5, FreedMeets
  <1>7. ASSUME NEW s \in SUBSET D, s # {} PROVE c(s) \in DOMAIN it[s \ {c(s)}].bos
    <2> DEFINE b == c(s)
               r == s \ {b}
    <2>1. b \in D /\ b \notin r /\ r \in SUBSET D /\ b \in Bo
      BY <1>0, <1>4, <1>7
    <2> HIDE DEF b, r
    <2>2. w[b] > 0
      BY <2>1, MeetsAt
    <2>3. Without(w, r)[b] > 0
      BY <2>1, <2>2 DEF Without
    <2>4. Without(w, r) \in Counts /\ Without(u, r) \in Counts
      BY DEF Without, Counts
    <2>5. b \in DOMAIN it[r].bos
      BY <1>6, <2>1, <2>3, <2>4, MeetsLive
    <2> QED BY <2>5 DEF b, r
  <1>8. it = G(it)
    <2> HIDE DEF D, c
    <2> QED BY <1>3, <1>4, <1>7
  <1>9. PICK jt : /\ jt = G(jt)
                  /\ MgrDeinit(mgr) = [jt[D] EXCEPT !.ref_count = 0, !.bo_cnt = 0]
    <2> DEFINE y == CHOOSE q : q = G(q)
    <2>1. MgrDeinit(mgr) = [y[D] EXCEPT !.ref_count = 0, !.bo_cnt = 0]
      BY DEF MgrDeinit, FoldSet, MapThenFoldSet
    <2>2. y = G(y)
      <3> HIDE DEF G
      <3> QED BY <1>8
    <2> HIDE DEF y, G
    <2> QED BY <2>1, <2>2
  <1>10. FreedFrom(mgr, jt)
    <2>1. jt[{}] = mgr
      <3> HIDE DEF D, c
      <3> QED BY <1>9
    <2>2. ASSUME NEW s \in SUBSET D, s # {} PROVE jt[s] = BoFree(jt[s \ {c(s)}], c(s))
      <3> HIDE DEF D, c
      <3> QED BY <1>9, <2>2
    <2> QED BY <2>1, <2>2 DEF FreedFrom
  <1> DEFINE f == jt[D]
  <1>11. Meets(f, Without(w, D), Without(u, D), k, P) /\ Same(mgr, f)
    BY <1>10, FreedMeets
  <1>12. Without(w, D) = z /\ Without(u, D) = z
    <2>1. ASSUME NEW b \in Bo, b \notin D PROVE w[b] = 0 /\ u[b] = 0
      BY <2>1, MeetsLive
    <2> QED BY <2>1 DEF Without
  <1>13. z \in Counts
    BY DEF Counts
  <1> HIDE DEF f, G
  <1>14. f \in Mgr /\ Meets(f, z, z, k, P) /\ DOMAIN f.bos = {}
    <2>1. f \in Mgr /\ Meets(f, z, z, k, P)
      BY <1>11, <1>12 DEF Meets
    <2>2. DOMAIN f.bos \in SUBSET Bo
      BY <2>1, MgrFields
    <2>3. ASSUME NEW b \in DOMAIN f.bos PROVE FALSE
      <3>1. z[b] > 0 /\ b \in Bo
        BY <1>13, <2>1, MeetsAt
      <3> QED BY <3>1
    <2> QED BY <2>1, <2>3
  <1> DEFINE x == [f EXCEPT !.ref_count = 0, !.bo_cnt = 0]
  <1>15. /\ x \in Mgr /\ x.ref_count = 0 /\ x.bo_cnt = 0 /\ x.bos = f.bos /\ x.held = f.held
         /\ x.env = f.env
    BY <1>14 DEF Mgr
  <1>16. Meets(x, z, z, k, P)
    <2> HIDE DEF x
    <2>1. LockType(x) = LockType(f) /\ PrivsInUse(x) = PrivsInUse(f)
      BY <1>15 DEF LockType, PrivsInUse
    <2>2. LocksMeet(x, k)
      BY <1>14, <1>15, <2>1 DEF Meets, LocksMeet
    <2>3. CountMeets(x)
      BY <1>14, <1>15, FS_EmptySet DEF CountMeets
    <2>4. RefsMeet(x, z) /\ MapsMeet(x, z) /\ PrivsMeet(x) /\ BackMeet(x, P)
      BY <1>14, <1>15 DEF Meets, RefsMeet, MapsMeet, PrivsMeet, BackMeet
    <2> QED BY <1>15, <2>2, <2>3, <2>4 DEF Meets
  <1>17. MgrDeinit(mgr) = x
    BY <1>9 DEF f
  <1> HIDE DEF x
  <1> QED BY <1>11, <1>14, <1>15, <1>16, <1>17 DEF Same

(* The references and mappings that a manager is expected to know of, as    *)
(* functions of what clients and surfaces hold.                             *)

\* The records of surfaces and the tables of counts.
SurfRec == [refcnt : Nat, bos : Seq(Bo)]
SurfTable == UNION {[D -> SurfRec] : D \in SUBSET Surf}
Table(X) == [Thread -> [X -> Nat]]
Mappings == [Thread -> [surf : Surf \cup {NULL}, i : Nat]]

\* The references of clients, of surfaces, and all with those of others, x.
RefsIn(R, b) == SumFunction([t \in Thread |-> R[t][b]])
SurfRefsIn(sf, b) == SumFunction([s \in DOMAIN sf |-> Times(b, sf[s].bos)])
WantOf(x, R, sf) == [b \in Bo |-> x[b] + RefsIn(R, b) + SurfRefsIn(sf, b)]

\* The fields of a surface.
LEMMA SurfFields ==
    ASSUME NEW sf \in SurfTable
    PROVE  /\ sf \in [DOMAIN sf -> SurfRec] /\ DOMAIN sf \in SUBSET Surf
           /\ IsFiniteSet(DOMAIN sf)
           /\ \A s \in DOMAIN sf : sf[s].bos \in Seq(Bo) /\ sf[s].refcnt \in Nat
                                   /\ Len(sf[s].bos) \in Nat
  <1>1. sf \in [DOMAIN sf -> SurfRec] /\ DOMAIN sf \in SUBSET Surf
    BY DEF SurfTable
  <1>2. IsFiniteSet(DOMAIN sf)
    BY <1>1, FS_Subset, BufMgrAssumption DEF BufMgrAssumption
  <1>3. ASSUME NEW s \in DOMAIN sf
        PROVE  sf[s].bos \in Seq(Bo) /\ sf[s].refcnt \in Nat /\ Len(sf[s].bos) \in Nat
    <2>1. sf[s] \in SurfRec
      BY <1>1
    <2>2. sf[s].bos \in Seq(Bo) /\ sf[s].refcnt \in Nat
      BY <2>1 DEF SurfRec
    <2> QED BY <2>2
  <1> QED BY <1>1, <1>2, <1>3

\* The sets that are summed over are finite.
LEMMA ThreadsFinite == IsFiniteSet(Thread) /\ IsFiniteSet(Bo) /\ IsFiniteSet(Surf)
BY BufMgrAssumption DEF BufMgrAssumption

\* Sums over threads of what a table has for z.
LEMMA RefsInNat ==
    ASSUME NEW X, NEW R \in Table(X), NEW z \in X
    PROVE  RefsIn(R, z) \in Nat /\ \A t \in Thread : R[t][z] \in Nat /\ R[t][z] <= RefsIn(R, z)
  <1> DEFINE f == [t \in Thread |-> R[t][z]]
  <1>1. f \in [Thread -> Nat] /\ \A t \in Thread : f[t] = R[t][z]
    BY DEF Table
  <1> HIDE DEF f
  <1>2. SumFunction(f) \in Nat /\ \A t \in Thread : f[t] <= SumFunction(f)
    BY <1>1, ThreadsFinite, SumNat
  <1>3. RefsIn(R, z) = SumFunction(f)
    BY DEF RefsIn, f
  <1> QED BY <1>1, <1>2, <1>3

\* A sum that is not 0 has a thread with a count that is not 0.
LEMMA RefsInSome ==
    ASSUME NEW X, NEW R \in Table(X), NEW z \in X, RefsIn(R, z) # 0
    PROVE  \E t \in Thread : R[t][z] > 0
  <1> DEFINE f == [t \in Thread |-> R[t][z]]
  <1>1. f \in [Thread -> Nat] /\ \A t \in Thread : f[t] = R[t][z]
    BY DEF Table
  <1>2. SumFunction(f) # 0
    BY DEF RefsIn
  <1> HIDE DEF f
  <1>3. \E t \in Thread : f[t] > 0
    BY <1>1, <1>2, ThreadsFinite, SumPositive
  <1> QED BY <1>1, <1>3

\* The table with another count.
Put(R, t, z, n) == [R EXCEPT ![t][z] = n]

LEMMA TableChanged ==
    ASSUME NEW X, NEW R \in Table(X), NEW t \in Thread, NEW z \in X, NEW n \in Nat
    PROVE  /\ Put(R, t, z, n) \in Table(X)
           /\ Put(R, t, z, n)[t][z] = n
           /\ \A u \in Thread, y \in X :
                <<u, y>> # <<t, z>> => Put(R, t, z, n)[u][y] = R[u][y]
           /\ R[t][z] \in Nat
BY DEF Table, Put

\* One count changes.
LEMMA RefsInChanged ==
    ASSUME NEW X, NEW R \in Table(X), NEW t \in Thread, NEW z \in X, NEW n \in Nat
    PROVE  /\ RefsIn(Put(R, t, z, n), z) = RefsIn(R, z) + n - R[t][z]
           /\ \A y \in X : y # z => RefsIn(Put(R, t, z, n), y) = RefsIn(R, y)
  <1> DEFINE S == Put(R, t, z, n)
             f == [u \in Thread |-> R[u][z]]
             g == [u \in Thread |-> S[u][z]]
  <1>1. /\ S \in Table(X) /\ S[t][z] = n
        /\ \A u \in Thread, y \in X : <<u, y>> # <<t, z>> => S[u][y] = R[u][y]
    BY TableChanged
  <1> HIDE DEF S
  <1>2. f \in [Thread -> Int] /\ g \in [Thread -> Int] /\ f[t] = R[t][z] /\ g[t] = n
        /\ \A u \in Thread \ {t} : f[u] = g[u]
    BY <1>1 DEF Table
  <1> HIDE DEF f, g
  <1>3. SumFunction(g) = SumFunction(f) + g[t] - f[t]
    BY <1>2, ThreadsFinite, SumChange
  <1>4. ASSUME NEW y \in X, y # z PROVE RefsIn(S, y) = RefsIn(R, y)
    <2>1. \A u \in Thread : S[u][y] = R[u][y]
      BY <1>1, <1>4
    <2>2. [u \in Thread |-> S[u][y]] = [u \in Thread |-> R[u][y]]
      BY <2>1
    <2> QED BY <2>2 DEF RefsIn
  <1>5. RefsIn(S, z) = SumFunction(g) /\ RefsIn(R, z) = SumFunction(f)
    BY DEF RefsIn, f, g
  <1> QED BY <1>2, <1>3, <1>4, <1>5 DEF S

\* The references of surfaces.
LEMMA SurfRefsInNat ==
    ASSUME NEW sf \in SurfTable, NEW b
    PROVE  /\ SurfRefsIn(sf, b) \in Nat
           /\ \A s \in DOMAIN sf : Times(b, sf[s].bos) \in Nat
                                   /\ Times(b, sf[s].bos) <= SurfRefsIn(sf, b)
  <1> DEFINE f == [s \in DOMAIN sf |-> Times(b, sf[s].bos)]
  <1>0. ASSUME NEW s \in DOMAIN sf PROVE Times(b, sf[s].bos) \in Nat
    <2>1. sf[s].bos \in Seq(Bo) /\ 0 \in 0 .. Len(sf[s].bos)
      BY SurfFields
    <2> QED BY <2>1, OfFirstTimes
  <1>1. f \in [DOMAIN sf -> Nat] /\ \A s \in DOMAIN sf : f[s] = Times(b, sf[s].bos)
    BY <1>0
  <1> HIDE DEF f
  <1>2. SumFunction(f) \in Nat /\ \A s \in DOMAIN sf : f[s] <= SumFunction(f)
    BY <1>1, SurfFields, SumNat
  <1>3. SurfRefsIn(sf, b) = SumFunction(f)
    BY DEF SurfRefsIn, f
  <1> QED BY <1>0, <1>1, <1>2, <1>3

\* A surface comes or goes, or is referenced.
LEMMA SurfLinked ==
    ASSUME NEW sf \in SurfTable, NEW s \in Surf, s \notin DOMAIN sf, NEW r \in SurfRec
    PROVE  LET sg == Link(sf, s, r)
           IN  /\ sg \in SurfTable /\ DOMAIN sg = DOMAIN sf \cup {s} /\ sg[s] = r
               /\ \A q \in DOMAIN sf : sg[q] = sf[q]
               /\ \A b : SurfRefsIn(sg, b) = SurfRefsIn(sf, b) + Times(b, r.bos)
  <1> DEFINE sg == Link(sf, s, r)
             D == DOMAIN sf
             E == D \cup {s}
  <1>0. sf \in [D -> SurfRec] /\ D \in SUBSET Surf /\ IsFiniteSet(D)
    BY SurfFields
  <1>1. sg \in [E -> SurfRec] /\ sg[s] = r /\ \A q \in D : sg[q] = sf[q]
    BY <1>0 DEF Link
  <1>2. E \in SUBSET Surf
    BY <1>0
  <1> HIDE DEF sg, E
  <1>3. sg \in SurfTable /\ DOMAIN sg = E
    BY <1>1, <1>2 DEF SurfTable
  <1>4. ASSUME NEW b PROVE SurfRefsIn(sg, b) = SurfRefsIn(sf, b) + Times(b, r.bos)
    <2> DEFINE f == [q \in D |-> Times(b, sf[q].bos)]
               g == [q \in E |-> Times(b, sg[q].bos)]
    <2>1. f \in [D -> Int] /\ g \in [E -> Int]
      <3>1. \A q \in D : Times(b, sf[q].bos) \in Nat
        BY SurfRefsInNat
      <3>2. \A q \in E : Times(b, sg[q].bos) \in Nat
        BY <1>3, SurfRefsInNat
      <3> QED BY <3>1, <3>2
    <2>2. g[s] = Times(b, r.bos) /\ \A q \in D : f[q] = g[q]
      BY <1>1 DEF E
    <2> HIDE DEF f, g
    <2>3. SumFunction(g) = SumFunction(f) + g[s]
      BY <1>0, <2>1, <2>2, SumMore DEF E
    <2>4. SurfRefsIn(sg, b) = SumFunction(g) /\ SurfRefsIn(sf, b) = SumFunction(f)
      BY <1>3 DEF SurfRefsIn, f, g
    <2> QED BY <2>2, <2>3, <2>4
  <1> QED BY <1>1, <1>3, <1>4 DEF sg, E

\* A surface less, whose bos are no longer referred to.
LEMMA SurfUnlinked ==
    ASSUME NEW sf \in SurfTable, NEW s \in DOMAIN sf
    PROVE  LET sg == Unlink(sf, s)
           IN  /\ sg \in SurfTable /\ DOMAIN sg = DOMAIN sf \ {s}
               /\ \A q \in DOMAIN sg : sg[q] = sf[q]
               /\ \A b : SurfRefsIn(sf, b) = SurfRefsIn(sg, b) + Times(b, sf[s].bos)
  <1> DEFINE sg == Unlink(sf, s)
             D == DOMAIN sf
             E == D \ {s}
  <1>0. sf \in [D -> SurfRec] /\ D \in SUBSET Surf /\ IsFiniteSet(D)
    BY SurfFields
  <1>1. sg \in [E -> SurfRec] /\ \A q \in E : sg[q] = sf[q]
    BY <1>0 DEF Unlink
  <1>2. E \in SUBSET Surf /\ IsFiniteSet(E) /\ s \notin E /\ E \cup {s} = D
    <2>1. E \in SUBSET Surf /\ E \subseteq D /\ s \notin E /\ E \cup {s} = D
      BY <1>0
    <2> HIDE DEF E
    <2> QED BY <1>0, <2>1, FS_Subset
  <1> HIDE DEF sg, E
  <1>3. sg \in SurfTable /\ DOMAIN sg = E
    BY <1>1, <1>2 DEF SurfTable
  <1>4. ASSUME NEW b PROVE SurfRefsIn(sf, b) = SurfRefsIn(sg, b) + Times(b, sf[s].bos)
    <2> DEFINE g == [q \in D |-> Times(b, sf[q].bos)]
               f == [q \in E |-> Times(b, sg[q].bos)]
    <2>1. f \in [E -> Int] /\ g \in [D -> Int]
      <3>1. \A q \in D : Times(b, sf[q].bos) \in Nat
        BY SurfRefsInNat
      <3>2. \A q \in E : Times(b, sg[q].bos) \in Nat
        BY <1>3, SurfRefsInNat
      <3> QED BY <3>1, <3>2
    <2>2. g[s] = Times(b, sf[s].bos) /\ \A q \in E : f[q] = g[q]
      BY <1>1, <1>2
    <2> HIDE DEF f, g, D
    <2>3. SumFunction(g) = SumFunction(f) + g[s]
      <3>1. g \in [E \cup {s} -> Int]
        BY <1>2, <2>1
      <3> QED BY <1>2, <2>1, <2>2, <3>1, SumMore
    <2>4. SurfRefsIn(sg, b) = SumFunction(f) /\ SurfRefsIn(sf, b) = SumFunction(g)
      BY <1>3 DEF SurfRefsIn, f, g, D
    <2> QED BY <2>2, <2>3, <2>4
  <1> QED BY <1>1, <1>3, <1>4 DEF sg, E

\* The same surfaces with the same bos.
SameBos(sf, sg) ==
    DOMAIN sg = DOMAIN sf /\ \A s \in DOMAIN sf : sg[s].bos = sf[s].bos

\* The surfaces with another reference count of s.
Recount(sf, s, n) == [sf EXCEPT ![s].refcnt = n]
LEMMA SurfCounted ==
    ASSUME NEW sf \in SurfTable, NEW s \in DOMAIN sf, NEW n \in Nat,
           NEW sg, sg = Recount(sf, s, n)
    PROVE  /\ sg \in SurfTable /\ SameBos(sf, sg) /\ sg[s].refcnt = n
           /\ \A q \in DOMAIN sf : q # s => sg[q] = sf[q]
  <1> DEFINE D == DOMAIN sf
  <1>0. sf \in [D -> SurfRec] /\ D \in SUBSET Surf
    BY SurfFields
  <1>1. sf[s] \in SurfRec
    BY <1>0
  <1>2. [sf[s] EXCEPT !.refcnt = n] \in SurfRec /\ [sf[s] EXCEPT !.refcnt = n].refcnt = n
        /\ [sf[s] EXCEPT !.refcnt = n].bos = sf[s].bos
    BY <1>1 DEF SurfRec
  <1>3. sg \in [D -> SurfRec] /\ sg[s] = [sf[s] EXCEPT !.refcnt = n]
        /\ \A q \in D : q # s => sg[q] = sf[q]
    BY <1>0, <1>2 DEF Recount
  <1>4. sg \in SurfTable /\ DOMAIN sg = D
    BY <1>0, <1>3 DEF SurfTable
  <1>5. SameBos(sf, sg)
    BY <1>2, <1>3, <1>4 DEF SameBos
  <1> QED BY <1>2, <1>3, <1>4, <1>5

\* A change of counts leaves the references of surfaces alone.
LEMMA SameBosRefs ==
    ASSUME NEW sf, NEW sg, SameBos(sf, sg), NEW b
    PROVE  SurfRefsIn(sg, b) = SurfRefsIn(sf, b)
  <1>1. [s \in DOMAIN sg |-> Times(b, sg[s].bos)] = [s \in DOMAIN sf |-> Times(b, sf[s].bos)]
    BY DEF SameBos
  <1> QED BY <1>1 DEF SurfRefsIn
-----------------------------------------------------------------------------
\* What is expected as ref_cnt.
LEMMA WantCounts ==
    ASSUME NEW x \in Counts, NEW R \in Table(Bo), NEW sf \in SurfTable
    PROVE  /\ WantOf(x, R, sf) \in Counts
           /\ \A b \in Bo : /\ WantOf(x, R, sf)[b] = x[b] + RefsIn(R, b) + SurfRefsIn(sf, b)
                            /\ x[b] \in Nat /\ RefsIn(R, b) \in Nat /\ SurfRefsIn(sf, b) \in Nat
                            /\ WantOf(x, R, sf)[b] \in Nat
                            /\ \A t \in Thread : R[t][b] \in Nat
                                 /\ R[t][b] + x[b] <= WantOf(x, R, sf)[b]
                            /\ \A s \in DOMAIN sf : Times(b, sf[s].bos) \in Nat
                                 /\ Times(b, sf[s].bos) + x[b] <= WantOf(x, R, sf)[b]
  <1>1. ASSUME NEW b \in Bo
        PROVE  /\ x[b] \in Nat /\ RefsIn(R, b) \in Nat /\ SurfRefsIn(sf, b) \in Nat
               /\ \A t \in Thread : R[t][b] \in Nat /\ R[t][b] <= RefsIn(R, b)
               /\ \A s \in DOMAIN sf : Times(b, sf[s].bos) \in Nat
                                       /\ Times(b, sf[s].bos) <= SurfRefsIn(sf, b)
    <2>1. x[b] \in Nat
      BY DEF Counts
    <2> QED BY <2>1, RefsInNat, SurfRefsInNat
  <1>2. WantOf(x, R, sf) \in Counts
    BY <1>1 DEF WantOf, Counts
  <1>3. \A b \in Bo : WantOf(x, R, sf)[b] = x[b] + RefsIn(R, b) + SurfRefsIn(sf, b)
    BY DEF WantOf
  <1> QED BY <1>1, <1>2, <1>3

\* A thread's references to a bo change.
LEMMA WantRefs ==
    ASSUME NEW x \in Counts, NEW R \in Table(Bo), NEW sf \in SurfTable,
           NEW t \in Thread, NEW b \in Bo, NEW n \in Nat
    PROVE  WantOf(x, Put(R, t, b, n), sf)
             = [WantOf(x, R, sf) EXCEPT ![b] = @ + n - R[t][b]]
  <1> DEFINE S == Put(R, t, b, n)
             w == WantOf(x, R, sf)
             v == WantOf(x, S, sf)
  <1>1. S \in Table(Bo) /\ R[t][b] \in Nat
    BY TableChanged
  <1>2. /\ RefsIn(S, b) = RefsIn(R, b) + n - R[t][b]
        /\ \A c \in Bo : c # b => RefsIn(S, c) = RefsIn(R, c)
    BY RefsInChanged
  <1> HIDE DEF S
  <1>3. /\ w \in Counts /\ v \in Counts
        /\ \A c \in Bo : /\ w[c] = x[c] + RefsIn(R, c) + SurfRefsIn(sf, c)
                         /\ v[c] = x[c] + RefsIn(S, c) + SurfRefsIn(sf, c)
                         /\ x[c] \in Nat /\ RefsIn(R, c) \in Nat /\ SurfRefsIn(sf, c) \in Nat
                         /\ RefsIn(S, c) \in Nat
    BY <1>1, WantCounts
  <1> HIDE DEF w, v
  <1>4. v[b] = w[b] + n - R[t][b]
    BY <1>1, <1>2, <1>3
  <1>5. \A c \in Bo : c # b => v[c] = w[c]
    BY <1>2, <1>3
  <1>6. v = [w EXCEPT ![b] = w[b] + n - R[t][b]]
    <2> DEFINE q == w[b] + n - R[t][b]
    <2>1. v[b] = q
      BY <1>4
    <2> HIDE DEF q
    <2>2. v = [w EXCEPT ![b] = q]
      BY <1>3, <1>5, <2>1 DEF Counts
    <2> QED BY <2>2 DEF q
  <1> QED BY <1>6 DEF v, w, S

\* A surface comes.
LEMMA WantLinked ==
    ASSUME NEW x \in Counts, NEW R \in Table(Bo), NEW sf \in SurfTable,
           NEW s \in Surf, s \notin DOMAIN sf, NEW r \in SurfRec
    PROVE  WantOf(x, R, Link(sf, s, r)) = MoreRefs(WantOf(x, R, sf), r.bos, Len(r.bos))
  <1> DEFINE sg == Link(sf, s, r)
             w == WantOf(x, R, sf)
             v == WantOf(x, R, sg)
             bs == r.bos
  <1>0. bs \in Seq(Bo) /\ Len(bs) \in 0 .. Len(bs)
    <2>1. bs \in Seq(Bo)
      BY DEF SurfRec
    <2> QED BY <2>1
  <1>1. sg \in SurfTable /\ \A b : SurfRefsIn(sg, b) = SurfRefsIn(sf, b) + Times(b, bs)
    BY SurfLinked, ZenonT(30)
  <1>2. \A b \in Bo : Times(b, bs) = OfFirst(b, bs, Len(bs)) /\ Times(b, bs) \in Nat
    <2> HIDE DEF bs
    <2> QED BY <1>0, OfFirstTimes
  <1> HIDE DEF sg, bs
  <1>3. /\ w \in Counts /\ v \in Counts
        /\ \A c \in Bo : /\ w[c] = x[c] + RefsIn(R, c) + SurfRefsIn(sf, c)
                         /\ v[c] = x[c] + RefsIn(R, c) + SurfRefsIn(sg, c)
                         /\ x[c] \in Nat /\ RefsIn(R, c) \in Nat /\ SurfRefsIn(sf, c) \in Nat
                         /\ SurfRefsIn(sg, c) \in Nat
    BY <1>1, WantCounts
  <1> HIDE DEF w, v
  <1>4. \A b \in Bo : v[b] = w[b] + OfFirst(b, bs, Len(bs))
    BY <1>1, <1>2, <1>3
  <1>5. v = MoreRefs(w, bs, Len(bs))
    <2>1. v = [b \in Bo |-> v[b]]
      BY <1>3 DEF Counts
    <2> QED BY <1>4, <2>1 DEF MoreRefs
  <1> QED BY <1>5 DEF v, w, sg, bs

\* A surface goes.
LEMMA WantUnlinked ==
    ASSUME NEW x \in Counts, NEW R \in Table(Bo), NEW sf \in SurfTable, NEW s \in DOMAIN sf
    PROVE  WantOf(x, R, Unlink(sf, s))
             = LessRefs(WantOf(x, R, sf), sf[s].bos, Len(sf[s].bos))
  <1> DEFINE sg == Unlink(sf, s)
             w == WantOf(x, R, sf)
             v == WantOf(x, R, sg)
             bs == sf[s].bos
  <1>0. bs \in Seq(Bo) /\ Len(bs) \in 0 .. Len(bs)
    <2>1. bs \in Seq(Bo)
      BY SurfFields
    <2> QED BY <2>1
  <1>1. sg \in SurfTable /\ \A b : SurfRefsIn(sf, b) = SurfRefsIn(sg, b) + Times(b, bs)
    BY SurfUnlinked
  <1>2. \A b \in Bo : Times(b, bs) = OfFirst(b, bs, Len(bs)) /\ Times(b, bs) \in Nat
    <2> HIDE DEF bs
    <2> QED BY <1>0, OfFirstTimes
  <1> HIDE DEF sg, bs
  <1>3. /\ w \in Counts /\ v \in Counts
        /\ \A c \in Bo : /\ w[c] = x[c] + RefsIn(R, c) + SurfRefsIn(sf, c)
                         /\ v[c] = x[c] + RefsIn(R, c) + SurfRefsIn(sg, c)
                         /\ x[c] \in Nat /\ RefsIn(R, c) \in Nat /\ SurfRefsIn(sf, c) \in Nat
                         /\ SurfRefsIn(sg, c) \in Nat
    BY <1>1, WantCounts
  <1> HIDE DEF w, v
  <1>4. \A b \in Bo : v[b] = w[b] - OfFirst(b, bs, Len(bs))
    BY <1>1, <1>2, <1>3
  <1>5. v = LessRefs(w, bs, Len(bs))
    <2>1. v = [b \in Bo |-> v[b]]
      BY <1>3 DEF Counts
    <2> QED BY <1>4, <2>1 DEF LessRefs
  <1> QED BY <1>5 DEF v, w, sg, bs

LEMMA WantSame ==
    ASSUME NEW x, NEW R, NEW sf, NEW sg, SameBos(sf, sg)
    PROVE  WantOf(x, R, sg) = WantOf(x, R, sf)
  <1>1. \A b : SurfRefsIn(sg, b) = SurfRefsIn(sf, b)
    BY SameBosRefs
  <1> QED BY <1>1 DEF WantOf

\* Mappings of b: through surfaces, by the call g, of one thread, of all.
SurfMapsIn(sf, M, b) == SumFunction([s \in DOMAIN sf |-> M[s] * Times(b, sf[s].bos)])

\* The mappings of b by the call g of tbm_surface_map that is under way, and
\* all mappings that thread t accounts for.
CallMaps(sf, g, b) ==
    IF g = NotMapping THEN 0 ELSE Times(b, SubSeq(sf[g.surf].bos, 1, g.i - 1))
TermOf(mp, sf, sm, mg, t, b) ==
    mp[t][b] + (SurfMapsIn(sf, sm[t], b) + CallMaps(sf, mg[t], b))
Terms(mp, sf, sm, mg) == [t \in Thread |-> [b \in Bo |-> TermOf(mp, sf, sm, mg, t, b)]]
MapsOf(mp, sf, sm, mg) == [b \in Bo |-> RefsIn(Terms(mp, sf, sm, mg), b)]

\* A call that maps a surface has come to one of its bos.
GoodCall(sf, g) ==
    g # NotMapping => g.surf \in DOMAIN sf /\ g.i \in 1 .. Len(sf[g.surf].bos)

\* Products of counts.
LEMMA Products ==
    ASSUME NEW a \in Nat, NEW c \in Nat
    PROVE  /\ a * c \in Nat /\ (a + 1) * c = a * c + c
           /\ a * c # 0 => a > 0 /\ c > 0
           /\ a = 0 => a * c = 0
  <1>1. a * c \in Nat
    OBVIOUS
  <1>2. (a + 1) * c = a * c + c
    OBVIOUS
  <1>3. a = 0 => a * c = 0
    OBVIOUS
  <1>4. c = 0 => a * c = 0
    OBVIOUS
  <1> QED BY <1>1, <1>2, <1>3, <1>4

\* Mappings through surfaces are counted by naturals.
LEMMA SurfMapsNat ==
    ASSUME NEW sf \in SurfTable, NEW M \in [Surf -> Nat], NEW b
    PROVE  /\ SurfMapsIn(sf, M, b) \in Nat
           /\ \A s \in DOMAIN sf : Times(b, sf[s].bos) \in Nat /\ M[s] \in Nat
           /\ SurfMapsIn(sf, M, b) # 0 =>
                \E s \in DOMAIN sf : M[s] > 0 /\ Times(b, sf[s].bos) > 0
           /\ \A s \in DOMAIN sf :
                M[s] * Times(b, sf[s].bos) <= SurfMapsIn(sf, M, b)
  <1> DEFINE D == DOMAIN sf
             f == [s \in D |-> M[s] * Times(b, sf[s].bos)]
  <1>1. ASSUME NEW s \in D PROVE Times(b, sf[s].bos) \in Nat /\ M[s] \in Nat
    <2>1. s \in Surf
      BY SurfFields
    <2> QED BY <2>1, SurfRefsInNat
  <1>2. ASSUME NEW s \in D
        PROVE  /\ M[s] * Times(b, sf[s].bos) \in Nat
               /\ M[s] * Times(b, sf[s].bos) # 0 => M[s] > 0 /\ Times(b, sf[s].bos) > 0
    BY <1>1, Products
  <1>3. f \in [D -> Nat] /\ \A s \in D : f[s] = M[s] * Times(b, sf[s].bos)
    BY <1>2
  <1>4. SurfMapsIn(sf, M, b) = SumFunction(f)
    BY DEF SurfMapsIn
  <1> HIDE DEF f
  <1>5. SumFunction(f) \in Nat /\ \A s \in D : f[s] <= SumFunction(f)
    BY <1>3, SurfFields, SumNat
  <1>6. SumFunction(f) # 0 => \E s \in D : f[s] > 0
    BY <1>3, SurfFields, SumPositive
  <1>7. SumFunction(f) # 0 => \E s \in D : M[s] > 0 /\ Times(b, sf[s].bos) > 0
    <2>1. \A s \in D : f[s] > 0 => M[s] > 0 /\ Times(b, sf[s].bos) > 0
      <3>1. \A s \in D : f[s] > 0 => f[s] # 0
        BY <1>3
      <3> QED BY <1>2, <1>3, <3>1
    <2> QED BY <1>6, <2>1
  <1> QED BY <1>1, <1>3, <1>4, <1>5, <1>7

\* A thread has a surface mapped once more.
LEMMA SurfMapsMore ==
    ASSUME NEW sf \in SurfTable, NEW M \in [Surf -> Nat], NEW L \in [Surf -> Nat],
           NEW s \in DOMAIN sf, L[s] = M[s] + 1, \A q \in Surf : q # s => L[q] = M[q], NEW b
    PROVE  SurfMapsIn(sf, L, b) = SurfMapsIn(sf, M, b) + Times(b, sf[s].bos)
  <1> DEFINE D == DOMAIN sf
             f == [q \in D |-> M[q] * Times(b, sf[q].bos)]
             g == [q \in D |-> L[q] * Times(b, sf[q].bos)]
  <1>0. IsFiniteSet(D) /\ D \in SUBSET Surf
    BY SurfFields
  <1>1. \A q \in D : Times(b, sf[q].bos) \in Nat /\ M[q] \in Nat /\ L[q] \in Nat
    BY SurfMapsNat
  <1>2. \A q \in D : M[q] * Times(b, sf[q].bos) \in Int /\ L[q] * Times(b, sf[q].bos) \in Int
    BY <1>1
  <1>3. f \in [D -> Int] /\ g \in [D -> Int] /\ \A q \in D \ {s} : f[q] = g[q]
    BY <1>0, <1>2
  <1>4. L[s] * Times(b, sf[s].bos) = M[s] * Times(b, sf[s].bos) + Times(b, sf[s].bos)
    BY <1>1, Products
  <1>5. g[s] = f[s] + Times(b, sf[s].bos) /\ f[s] \in Int /\ Times(b, sf[s].bos) \in Int
    BY <1>1, <1>2, <1>4
  <1>6. SurfMapsIn(sf, M, b) = SumFunction(f) /\ SurfMapsIn(sf, L, b) = SumFunction(g)
    BY DEF SurfMapsIn
  <1> HIDE DEF f, g
  <1>7. /\ SumFunction(f) \in Int /\ SumFunction(g) \in Int
        /\ SumFunction(g) = SumFunction(f) + g[s] - f[s]
    BY <1>0, <1>3, SumChange
  <1> QED BY <1>5, <1>6, <1>7

\* A surface that the thread has not mapped comes or goes.
LEMMA SurfMapsLinked ==
    ASSUME NEW sf \in SurfTable, NEW M \in [Surf -> Nat], NEW s \in Surf, s \notin DOMAIN sf,
           M[s] = 0, NEW r \in SurfRec, NEW b
    PROVE  SurfMapsIn(Link(sf, s, r), M, b) = SurfMapsIn(sf, M, b)
  <1> DEFINE D == DOMAIN sf
             sg == Link(sf, s, r)
             f == [q \in D |-> M[q] * Times(b, sf[q].bos)]
             g == [q \in D \cup {s} |-> M[q] * Times(b, sg[q].bos)]
  <1>0. IsFiniteSet(D) /\ D \in SUBSET Surf
    BY SurfFields
  <1>1. sg \in SurfTable /\ DOMAIN sg = D \cup {s} /\ \A q \in D : sg[q] = sf[q]
    BY SurfLinked, ZenonT(30)
  <1> HIDE DEF sg
  <1>2. /\ \A q \in D : Times(b, sf[q].bos) \in Nat /\ M[q] \in Nat
        /\ \A q \in D \cup {s} : Times(b, sg[q].bos) \in Nat /\ M[q] \in Nat
    BY <1>1, SurfMapsNat
  <1>3. f \in [D -> Int] /\ g \in [D \cup {s} -> Int] /\ \A q \in D : f[q] = g[q]
    <2>1. \A q \in D : M[q] * Times(b, sf[q].bos) \in Int
      BY <1>2
    <2>2. \A q \in D \cup {s} : M[q] * Times(b, sg[q].bos) \in Int
      BY <1>2
    <2> QED BY <1>1, <2>1, <2>2
  <1>4. g[s] = 0
    BY <1>2, Products
  <1>5. SurfMapsIn(sf, M, b) = SumFunction(f) /\ SurfMapsIn(sg, M, b) = SumFunction(g)
    BY <1>1 DEF SurfMapsIn
  <1> HIDE DEF f, g, D
  <1>6. /\ SumFunction(f) \in Int /\ SumFunction(g) \in Int
        /\ SumFunction(g) = SumFunction(f) + g[s]
    <2>1. s \notin D
      BY DEF D
    <2> QED BY <1>0, <1>3, <2>1, SumMore
  <1> QED BY <1>4, <1>5, <1>6 DEF sg

\* A surface that is not mapped goes.
LEMMA SurfMapsUnlinked ==
    ASSUME NEW sf \in SurfTable, NEW M \in [Surf -> Nat], NEW s \in DOMAIN sf,
           M[s] = 0, NEW b
    PROVE  SurfMapsIn(Unlink(sf, s), M, b) = SurfMapsIn(sf, M, b)
  <1> DEFINE D == DOMAIN sf
             E == D \ {s}
             sg == Unlink(sf, s)
             f == [q \in E |-> M[q] * Times(b, sg[q].bos)]
             g == [q \in D |-> M[q] * Times(b, sf[q].bos)]
  <1>0. IsFiniteSet(E) /\ s \notin E /\ E \cup {s} = D
    <2>1. IsFiniteSet(D) /\ E \subseteq D /\ s \notin E /\ E \cup {s} = D
      BY SurfFields
    <2> HIDE DEF E
    <2> QED BY <2>1, FS_Subset
  <1>1. sg \in SurfTable /\ DOMAIN sg = E /\ \A q \in E : sg[q] = sf[q]
    BY SurfUnlinked
  <1> HIDE DEF sg, E
  <1>2. /\ \A q \in D : Times(b, sf[q].bos) \in Nat /\ M[q] \in Nat
        /\ \A q \in E : Times(b, sg[q].bos) \in Nat /\ M[q] \in Nat
    BY <1>1, SurfMapsNat
  <1>3. f \in [E -> Int] /\ g \in [D -> Int] /\ \A q \in E : f[q] = g[q]
    <2>1. \A q \in D : M[q] * Times(b, sf[q].bos) \in Int
      BY <1>2
    <2>2. \A q \in E : M[q] * Times(b, sg[q].bos) \in Int
      BY <1>2
    <2> QED BY <1>0, <1>1, <2>1, <2>2
  <1>4. g[s] = 0
    BY <1>2, Products
  <1>5. SurfMapsIn(sf, M, b) = SumFunction(g) /\ SurfMapsIn(sg, M, b) = SumFunction(f)
    BY <1>1 DEF SurfMapsIn
  <1> HIDE DEF f, g, D
  <1>6. /\ SumFunction(f) \in Int /\ SumFunction(g) \in Int
        /\ SumFunction(g) = SumFunction(f) + g[s]
    <2>1. g \in [E \cup {s} -> Int]
      BY <1>0, <1>3
    <2> QED BY <1>0, <1>3, <2>1, SumMore
  <1> QED BY <1>4, <1>5, <1>6 DEF sg

\* Counts of references do not matter.
LEMMA SurfMapsSame ==
    ASSUME NEW sf, NEW sg, SameBos(sf, sg), NEW M, NEW b
    PROVE  SurfMapsIn(sg, M, b) = SurfMapsIn(sf, M, b)
  <1>1. [s \in DOMAIN sg |-> M[s] * Times(b, sg[s].bos)]
          = [s \in DOMAIN sf |-> M[s] * Times(b, sf[s].bos)]
    BY DEF SameBos
  <1> QED BY <1>1 DEF SurfMapsIn
-----------------------------------------------------------------------------
\* The mappings of one thread.
LEMMA CallMapsIs ==
    ASSUME NEW sf \in SurfTable, NEW g \in [surf : Surf \cup {NULL}, i : Nat],
           GoodCall(sf, g), NEW b
    PROVE  /\ CallMaps(sf, g, b) \in Nat
           /\ g = NotMapping => CallMaps(sf, g, b) = 0
           /\ g # NotMapping =>
                /\ CallMaps(sf, g, b) = OfFirst(b, sf[g.surf].bos, g.i - 1)
                /\ CallMaps(sf, g, b) <= Times(b, sf[g.surf].bos)
                /\ Times(b, sf[g.surf].bos) \in Nat
  <1>1. CASE g = NotMapping
    BY <1>1 DEF CallMaps
  <1>2. CASE g # NotMapping
    <2> DEFINE bs == sf[g.surf].bos
               i == g.i - 1
    <2>1. g.surf \in DOMAIN sf /\ g.i \in 1 .. Len(bs)
      BY <1>2 DEF GoodCall
    <2>2. bs \in Seq(Bo) /\ Len(bs) \in Nat
      BY <2>1, SurfFields
    <2>3. i \in 0 .. Len(bs)
      <3> HIDE DEF bs
      <3> QED BY <2>1, <2>2
    <2>4. CallMaps(sf, g, b) = Times(b, SubSeq(bs, 1, i))
      BY <1>2 DEF CallMaps
    <2> HIDE DEF bs, i
    <2>5. Times(b, SubSeq(bs, 1, i)) = OfFirst(b, bs, i) /\ Times(b, bs) \in Nat
          /\ Times(b, bs) = OfFirst(b, bs, Len(bs))
      BY <2>2, <2>3, OfFirstTimes
    <2>6. OfFirst(b, bs, i) \in Nat /\ OfFirst(b, bs, i) <= OfFirst(b, bs, Len(bs))
      BY <2>2, <2>3, OfFirstGrows
    <2> QED BY <1>2, <2>4, <2>5, <2>6 DEF bs, i
  <1> QED BY <1>1, <1>2

Calls0(sf, mg) == mg \in Mappings /\ \A t \in Thread : GoodCall(sf, mg[t])

\* What a thread accounts for is a natural.
LEMMA TermNat ==
    ASSUME NEW mp \in Table(Bo), NEW sf \in SurfTable, NEW sm \in Table(Surf), NEW mg,
           Calls0(sf, mg), NEW t \in Thread, NEW b \in Bo
    PROVE  /\ TermOf(mp, sf, sm, mg, t, b) \in Nat
           /\ mp[t][b] \in Nat /\ SurfMapsIn(sf, sm[t], b) \in Nat
           /\ CallMaps(sf, mg[t], b) \in Nat
           /\ TermOf(mp, sf, sm, mg, t, b)
                = mp[t][b] + (SurfMapsIn(sf, sm[t], b) + CallMaps(sf, mg[t], b))
           /\ sm[t] \in [Surf -> Nat] /\ mg[t] \in [surf : Surf \cup {NULL}, i : Nat]
           /\ GoodCall(sf, mg[t])
  <1>1. mp[t][b] \in Nat /\ sm[t] \in [Surf -> Nat]
    BY DEF Table
  <1>2. mg[t] \in [surf : Surf \cup {NULL}, i : Nat] /\ GoodCall(sf, mg[t])
    BY DEF Calls0, Mappings
  <1>3. SurfMapsIn(sf, sm[t], b) \in Nat
    BY <1>1, SurfMapsNat
  <1>4. CallMaps(sf, mg[t], b) \in Nat
    BY <1>2, CallMapsIs
  <1> QED BY <1>1, <1>2, <1>3, <1>4 DEF TermOf

\* The mappings of a bo are counted by a natural.
LEMMA MapsCounts ==
    ASSUME NEW mp \in Table(Bo), NEW sf \in SurfTable, NEW sm \in Table(Surf), NEW mg,
           Calls0(sf, mg)
    PROVE  /\ Terms(mp, sf, sm, mg) \in Table(Bo)
           /\ MapsOf(mp, sf, sm, mg) \in Counts
           /\ \A b \in Bo : MapsOf(mp, sf, sm, mg)[b] = RefsIn(Terms(mp, sf, sm, mg), b)
           /\ \A t \in Thread, b \in Bo :
                /\ TermOf(mp, sf, sm, mg, t, b) \in Nat
                /\ TermOf(mp, sf, sm, mg, t, b) = Terms(mp, sf, sm, mg)[t][b]
                /\ TermOf(mp, sf, sm, mg, t, b) <= MapsOf(mp, sf, sm, mg)[b]
  <1> DEFINE T == Terms(mp, sf, sm, mg)
             u == MapsOf(mp, sf, sm, mg)
  <1>1. \A t \in Thread, b \in Bo : TermOf(mp, sf, sm, mg, t, b) \in Nat
    BY TermNat
  <1>2. T \in Table(Bo) /\ \A t \in Thread, b \in Bo : TermOf(mp, sf, sm, mg, t, b) = T[t][b]
    BY <1>1 DEF Terms, Table
  <1>3. u = [b \in Bo |-> RefsIn(T, b)]
    BY DEF MapsOf
  <1> HIDE DEF T
  <1>4. \A b \in Bo : RefsIn(T, b) \in Nat /\ \A t \in Thread : T[t][b] <= RefsIn(T, b)
    BY <1>2, RefsInNat
  <1>5. u \in Counts
    <2> HIDE DEF u
    <2> QED BY <1>3, <1>4 DEF Counts
  <1> QED BY <1>1, <1>2, <1>3, <1>4, <1>5 DEF T

\* A bo that is mapped has a user: a thread that mapped it, or a surface that a
\* thread has mapped or is mapping.
LEMMA MapsSome ==
    ASSUME NEW mp \in Table(Bo), NEW sf \in SurfTable, NEW sm \in Table(Surf), NEW mg,
           Calls0(sf, mg), NEW b \in Bo, MapsOf(mp, sf, sm, mg)[b] # 0
    PROVE  \E t \in Thread :
             \/ mp[t][b] > 0
             \/ \E s \in DOMAIN sf : /\ Times(b, sf[s].bos) > 0
                                     /\ sm[t][s] > 0 \/ (mg[t] # NotMapping /\ mg[t].surf = s)
  <1> DEFINE T == Terms(mp, sf, sm, mg)
  <1>1. /\ T \in Table(Bo) /\ RefsIn(T, b) # 0
        /\ \A t \in Thread : TermOf(mp, sf, sm, mg, t, b) = T[t][b]
    BY MapsCounts
  <1> HIDE DEF T
  <1>2. PICK t \in Thread : T[t][b] > 0
    BY <1>1, RefsInSome
  <1>3. /\ mp[t][b] \in Nat /\ SurfMapsIn(sf, sm[t], b) \in Nat
        /\ CallMaps(sf, mg[t], b) \in Nat
        /\ T[t][b] = mp[t][b] + (SurfMapsIn(sf, sm[t], b) + CallMaps(sf, mg[t], b))
        /\ sm[t] \in [Surf -> Nat] /\ mg[t] \in [surf : Surf \cup {NULL}, i : Nat]
        /\ GoodCall(sf, mg[t])
    BY <1>1, TermNat
  <1>4. mp[t][b] > 0 \/ SurfMapsIn(sf, sm[t], b) # 0 \/ CallMaps(sf, mg[t], b) # 0
    BY <1>2, <1>3
  <1>5. CASE SurfMapsIn(sf, sm[t], b) # 0
    BY <1>3, <1>5, SurfMapsNat
  <1>6. CASE CallMaps(sf, mg[t], b) # 0
    <2>1. mg[t] # NotMapping
      BY <1>3, <1>6, CallMapsIs
    <2>2. /\ CallMaps(sf, mg[t], b) <= Times(b, sf[mg[t].surf].bos)
          /\ Times(b, sf[mg[t].surf].bos) \in Nat
      BY <1>3, <2>1, CallMapsIs
    <2>3. Times(b, sf[mg[t].surf].bos) > 0
      BY <1>3, <1>6, <2>2
    <2>4. mg[t].surf \in DOMAIN sf
      BY <1>3, <2>1 DEF GoodCall
    <2> QED BY <2>1, <2>3, <2>4
  <1> QED BY <1>4, <1>5, <1>6

\* The mappings of one thread change.
LEMMA RowChanged ==
    ASSUME NEW R \in Table(Bo), NEW S \in Table(Bo), NEW t \in Thread, NEW b \in Bo,
           \A u \in Thread : u # t => S[u][b] = R[u][b]
    PROVE  RefsIn(S, b) = RefsIn(R, b) + S[t][b] - R[t][b]
  <1> DEFINE f == [u \in Thread |-> R[u][b]]
             g == [u \in Thread |-> S[u][b]]
  <1>1. f \in [Thread -> Int] /\ g \in [Thread -> Int] /\ f[t] = R[t][b] /\ g[t] = S[t][b]
        /\ \A u \in Thread \ {t} : f[u] = g[u]
    BY DEF Table
  <1>2. RefsIn(S, b) = SumFunction(g) /\ RefsIn(R, b) = SumFunction(f)
    BY DEF RefsIn
  <1> HIDE DEF f, g
  <1>3. SumFunction(g) = SumFunction(f) + g[t] - f[t]
    BY <1>1, ThreadsFinite, SumChange
  <1> QED BY <1>1, <1>2, <1>3

\* The state of clients that mappings depend on.
MapState(mp, sf, sm, mg) ==
    mp \in Table(Bo) /\ sf \in SurfTable /\ sm \in Table(Surf) /\ Calls0(sf, mg)

\* What changes when only thread t changes.
LEMMA MapsOneRow ==
    ASSUME NEW mp, NEW sf, NEW sm, NEW mg, MapState(mp, sf, sm, mg),
           NEW mq, NEW sg, NEW sn, NEW mh, MapState(mq, sg, sn, mh),
           NEW t \in Thread, NEW b \in Bo,
           \A u \in Thread : u # t =>
             TermOf(mq, sg, sn, mh, u, b) = TermOf(mp, sf, sm, mg, u, b)
    PROVE  /\ MapsOf(mq, sg, sn, mh)[b] = MapsOf(mp, sf, sm, mg)[b]
                + TermOf(mq, sg, sn, mh, t, b) - TermOf(mp, sf, sm, mg, t, b)
           /\ MapsOf(mp, sf, sm, mg)[b] \in Nat /\ MapsOf(mq, sg, sn, mh)[b] \in Nat
           /\ TermOf(mq, sg, sn, mh, t, b) \in Nat /\ TermOf(mp, sf, sm, mg, t, b) \in Nat
           /\ TermOf(mp, sf, sm, mg, t, b) <= MapsOf(mp, sf, sm, mg)[b]
  <1> DEFINE R == Terms(mp, sf, sm, mg)
             S == Terms(mq, sg, sn, mh)
             y == MapsOf(mp, sf, sm, mg)
             z == MapsOf(mq, sg, sn, mh)
  <1>1. /\ R \in Table(Bo) /\ y \in Counts /\ y[b] = RefsIn(R, b)
        /\ \A u \in Thread : /\ TermOf(mp, sf, sm, mg, u, b) \in Nat
                             /\ TermOf(mp, sf, sm, mg, u, b) = R[u][b]
                             /\ TermOf(mp, sf, sm, mg, u, b) <= y[b]
    BY MapsCounts DEF MapState
  <1>2. /\ S \in Table(Bo) /\ z \in Counts /\ z[b] = RefsIn(S, b)
        /\ \A u \in Thread : /\ TermOf(mq, sg, sn, mh, u, b) \in Nat
                             /\ TermOf(mq, sg, sn, mh, u, b) = S[u][b]
    BY MapsCounts DEF MapState
  <1> HIDE DEF R, S, y, z
  <1>3. RefsIn(S, b) = RefsIn(R, b) + S[t][b] - R[t][b]
    BY <1>1, <1>2, RowChanged
  <1>4. y[b] \in Nat /\ z[b] \in Nat
    BY <1>1, <1>2 DEF Counts
  <1> QED BY <1>1, <1>2, <1>3, <1>4 DEF y, z

LEMMA MapsNoRow ==
    ASSUME NEW mp, NEW sf, NEW sm, NEW mg, MapState(mp, sf, sm, mg),
           NEW mq, NEW sg, NEW sn, NEW mh, MapState(mq, sg, sn, mh), NEW b \in Bo,
           \A u \in Thread :
             TermOf(mq, sg, sn, mh, u, b) = TermOf(mp, sf, sm, mg, u, b)
    PROVE  MapsOf(mq, sg, sn, mh)[b] = MapsOf(mp, sf, sm, mg)[b]
  <1> DEFINE R == Terms(mp, sf, sm, mg)
             S == Terms(mq, sg, sn, mh)
             y == MapsOf(mp, sf, sm, mg)
             z == MapsOf(mq, sg, sn, mh)
  <1>1. /\ y[b] = RefsIn(R, b)
        /\ \A u \in Thread : TermOf(mp, sf, sm, mg, u, b) = R[u][b]
    BY MapsCounts DEF MapState
  <1>2. /\ z[b] = RefsIn(S, b)
        /\ \A u \in Thread : TermOf(mq, sg, sn, mh, u, b) = S[u][b]
    BY MapsCounts DEF MapState
  <1> HIDE DEF R, S, y, z
  <1>3. [u \in Thread |-> R[u][b]] = [u \in Thread |-> S[u][b]]
    BY <1>1, <1>2
  <1>4. RefsIn(R, b) = RefsIn(S, b)
    BY <1>3 DEF RefsIn
  <1> QED BY <1>1, <1>2, <1>4 DEF y, z

LEMMA MapsIn ==
    ASSUME NEW mp, NEW sf, NEW sm, NEW mg, MapState(mp, sf, sm, mg)
    PROVE  /\ MapsOf(mp, sf, sm, mg) \in Counts
           /\ \A b \in Bo : MapsOf(mp, sf, sm, mg)[b] \in Nat
  <1>1. MapsOf(mp, sf, sm, mg) \in Counts
    BY MapsCounts DEF MapState
  <1> QED BY <1>1 DEF Counts

\* A thread maps or unmaps a bo itself.
LEMMA MapsPut ==
    ASSUME NEW mp, NEW sf, NEW sm, NEW mg, MapState(mp, sf, sm, mg),
           NEW t \in Thread, NEW c \in Bo, NEW n \in Nat
    PROVE  /\ MapState(Put(mp, t, c, n), sf, sm, mg)
           /\ MapsOf(Put(mp, t, c, n), sf, sm, mg)
                = [MapsOf(mp, sf, sm, mg) EXCEPT ![c] = @ + n - mp[t][c]]
           /\ mp[t][c] <= MapsOf(mp, sf, sm, mg)[c]
  <1> DEFINE mq == Put(mp, t, c, n)
             y == MapsOf(mp, sf, sm, mg)
             z == MapsOf(mq, sf, sm, mg)
  <1>1. mp \in Table(Bo) /\ sf \in SurfTable /\ sm \in Table(Surf) /\ Calls0(sf, mg)
    BY DEF MapState
  <1>2. /\ mq \in Table(Bo) /\ mq[t][c] = n /\ mp[t][c] \in Nat
        /\ \A u \in Thread, b \in Bo : <<u, b>> # <<t, c>> => mq[u][b] = mp[u][b]
    BY <1>1, TableChanged
  <1> HIDE DEF mq
  <1>3. MapState(mq, sf, sm, mg)
    BY <1>1, <1>2 DEF MapState
  <1>4. \A u \in Thread, b \in Bo : <<u, b>> # <<t, c>> =>
          TermOf(mq, sf, sm, mg, u, b) = TermOf(mp, sf, sm, mg, u, b)
    BY <1>2 DEF TermOf
  <1>5. TermOf(mq, sf, sm, mg, t, c) - TermOf(mp, sf, sm, mg, t, c) = n - mp[t][c]
        /\ TermOf(mp, sf, sm, mg, t, c) >= mp[t][c]
    <2>1. /\ SurfMapsIn(sf, sm[t], c) \in Nat /\ CallMaps(sf, mg[t], c) \in Nat
          /\ TermOf(mp, sf, sm, mg, t, c)
               = mp[t][c] + (SurfMapsIn(sf, sm[t], c) + CallMaps(sf, mg[t], c))
      BY <1>1, TermNat
    <2>2. TermOf(mq, sf, sm, mg, t, c)
            = mq[t][c] + (SurfMapsIn(sf, sm[t], c) + CallMaps(sf, mg[t], c))
      BY <1>1, <1>2, TermNat
    <2> QED BY <1>2, <2>1, <2>2
  <1>6. z[c] = y[c] + n - mp[t][c] /\ mp[t][c] <= y[c]
    <2>1. \A u \in Thread : u # t =>
             TermOf(mq, sf, sm, mg, u, c) = TermOf(mp, sf, sm, mg, u, c)
      BY <1>4
    <2>2. /\ z[c] = y[c] + TermOf(mq, sf, sm, mg, t, c) - TermOf(mp, sf, sm, mg, t, c)
          /\ y[c] \in Nat /\ z[c] \in Nat
          /\ TermOf(mq, sf, sm, mg, t, c) \in Nat /\ TermOf(mp, sf, sm, mg, t, c) \in Nat
          /\ TermOf(mp, sf, sm, mg, t, c) <= y[c]
      BY <1>3, <2>1, MapsOneRow
    <2> QED BY <1>2, <1>5, <2>2
  <1>7. ASSUME NEW b \in Bo, b # c PROVE z[b] = y[b]
    <2>1. \A u \in Thread : TermOf(mq, sf, sm, mg, u, b) = TermOf(mp, sf, sm, mg, u, b)
      BY <1>4, <1>7
    <2> QED BY <1>3, <2>1, MapsNoRow
  <1>8. y \in Counts /\ z \in Counts
    BY <1>3, MapsIn
  <1> HIDE DEF y, z
  <1>9. z = [y EXCEPT ![c] = @ + n - mp[t][c]]
    BY <1>6, <1>7, <1>8 DEF Counts
  <1> QED BY <1>3, <1>6, <1>9 DEF y, z, mq

\* A surface is unmapped.
LEMMA MapsSurfLess ==
    ASSUME NEW mp, NEW sf, NEW sm, NEW mg, MapState(mp, sf, sm, mg),
           NEW t \in Thread, NEW s \in DOMAIN sf, sm[t][s] > 0
    PROVE  LET sn == Put(sm, t, s, sm[t][s] - 1)
               bs == sf[s].bos
           IN  /\ MapState(mp, sf, sn, mg)
               /\ MapsOf(mp, sf, sn, mg) = LessRefs(MapsOf(mp, sf, sm, mg), bs, Len(bs))
               /\ \A b \in Bo : Times(b, bs) <= MapsOf(mp, sf, sm, mg)[b]
  <1> DEFINE sn == Put(sm, t, s, sm[t][s] - 1)
             bs == sf[s].bos
             y == MapsOf(mp, sf, sm, mg)
             z == MapsOf(mp, sf, sn, mg)
  <1>1. mp \in Table(Bo) /\ sf \in SurfTable /\ sm \in Table(Surf) /\ Calls0(sf, mg) /\ s \in Surf
    BY SurfFields DEF MapState
  <1>2. /\ sn \in Table(Surf) /\ sn[t][s] = sm[t][s] - 1 /\ sm[t][s] \in Nat
        /\ \A u \in Thread, q \in Surf : <<u, q>> # <<t, s>> => sn[u][q] = sm[u][q]
    <2>1. sm[t][s] \in Nat /\ sm[t][s] - 1 \in Nat
      BY <1>1 DEF Table
    <2> QED BY <1>1, <2>1, TableChanged
  <1> HIDE DEF sn
  <1>3. MapState(mp, sf, sn, mg)
    BY <1>1, <1>2 DEF MapState
  <1>4. ASSUME NEW b \in Bo
        PROVE  z[b] = y[b] - OfFirst(b, bs, Len(bs)) /\ Times(b, bs) <= y[b]
    <2>1. \A u \in Thread : u # t =>
            TermOf(mp, sf, sn, mg, u, b) = TermOf(mp, sf, sm, mg, u, b)
      <3>1. \A u \in Thread : u # t => sn[u] = sm[u]
        BY <1>1, <1>2 DEF Table
      <3> QED BY <3>1 DEF TermOf
    <2>2. /\ mp[t][b] \in Nat
          /\ SurfMapsIn(sf, sm[t], b) \in Nat /\ CallMaps(sf, mg[t], b) \in Nat
          /\ TermOf(mp, sf, sm, mg, t, b)
               = mp[t][b] + (SurfMapsIn(sf, sm[t], b) + CallMaps(sf, mg[t], b))
          /\ sm[t] \in [Surf -> Nat]
      BY <1>1, TermNat
    <2>3. /\ SurfMapsIn(sf, sn[t], b) \in Nat
          /\ TermOf(mp, sf, sn, mg, t, b)
               = mp[t][b] + (SurfMapsIn(sf, sn[t], b) + CallMaps(sf, mg[t], b))
          /\ sn[t] \in [Surf -> Nat]
      BY <1>1, <1>2, TermNat
    <2>4. SurfMapsIn(sf, sm[t], b) = SurfMapsIn(sf, sn[t], b) + Times(b, bs)
      <3>1. sm[t][s] = sn[t][s] + 1 /\ \A q \in Surf : q # s => sm[t][q] = sn[t][q]
        BY <1>2
      <3> QED BY <1>1, <2>2, <2>3, <3>1, SurfMapsMore
    <2>5. /\ z[b] = y[b] + TermOf(mp, sf, sn, mg, t, b) - TermOf(mp, sf, sm, mg, t, b)
          /\ y[b] \in Nat /\ z[b] \in Nat
          /\ TermOf(mp, sf, sm, mg, t, b) <= y[b]
      BY <1>3, <2>1, MapsOneRow
    <2>6. Times(b, bs) = OfFirst(b, bs, Len(bs)) /\ Times(b, bs) \in Nat
      <3>1. bs \in Seq(Bo) /\ 0 \in 0 .. Len(bs)
        BY <1>1, SurfFields
      <3> QED BY <3>1, OfFirstTimes
    <2> HIDE DEF y, z, bs
    <2>7. TermOf(mp, sf, sn, mg, t, b) + Times(b, bs) = TermOf(mp, sf, sm, mg, t, b)
          /\ Times(b, bs) <= TermOf(mp, sf, sm, mg, t, b)
          /\ TermOf(mp, sf, sm, mg, t, b) \in Nat /\ TermOf(mp, sf, sn, mg, t, b) \in Nat
      <3> DEFINE p == TermOf(mp, sf, sm, mg, t, b)
                 q == TermOf(mp, sf, sn, mg, t, b)
                 i == mp[t][b]
                 j == SurfMapsIn(sf, sm[t], b)
                 k == SurfMapsIn(sf, sn[t], b)
                 l == CallMaps(sf, mg[t], b)
                 n == Times(b, bs)
      <3>1. i \in Nat /\ j \in Nat /\ k \in Nat /\ l \in Nat /\ n \in Nat
            /\ p = i + (j + l) /\ q = i + (k + l) /\ j = k + n
        BY <2>2, <2>3, <2>4, <2>6
      <3> HIDE DEF p, q, i, j, k, l, n
      <3>2. q + n = p /\ n <= p /\ p \in Nat /\ q \in Nat
        BY <3>1
      <3> QED BY <3>2 DEF p, q, n
    <2>8. z[b] = y[b] - Times(b, bs) /\ Times(b, bs) <= y[b]
      BY <2>5, <2>6, <2>7
    <2> QED BY <2>6, <2>8
  <1>5. y \in Counts /\ z \in Counts
    BY <1>3, MapsIn
  <1> HIDE DEF y, z, bs
  <1>6. z = LessRefs(y, bs, Len(bs))
    <2>1. z = [b \in Bo |-> z[b]]
      BY <1>5 DEF Counts
    <2>2. [b \in Bo |-> z[b]] = [b \in Bo |-> y[b] - OfFirst(b, bs, Len(bs))]
      BY <1>4
    <2> QED BY <2>1, <2>2 DEF LessRefs
  <1> QED BY <1>3, <1>4, <1>6 DEF y, z, sn, bs

\* The calls of tbm_surface_map.
Call == [surf : Surf \cup {NULL}, i : Nat]
SetAt(mg, t, g) == [mg EXCEPT ![t] = g]

\* The table of calls after one changes.
LEMMA CallChanged ==
    ASSUME NEW sf, NEW mg, Calls0(sf, mg), NEW t \in Thread, NEW g \in Call, GoodCall(sf, g)
    PROVE  /\ Calls0(sf, SetAt(mg, t, g)) /\ SetAt(mg, t, g)[t] = g
           /\ \A u \in Thread : u # t => SetAt(mg, t, g)[u] = mg[u]
           /\ mg[t] \in Call /\ GoodCall(sf, mg[t])
  <1>1. mg \in [Thread -> Call]
    BY DEF Calls0, Mappings, Call
  <1>2. SetAt(mg, t, g) \in [Thread -> Call] /\ SetAt(mg, t, g)[t] = g
        /\ \A u \in Thread : u # t => SetAt(mg, t, g)[u] = mg[u]
    BY <1>1 DEF SetAt
  <1>3. \A u \in Thread : GoodCall(sf, mg[u])
    BY DEF Calls0
  <1>4. \A u \in Thread : GoodCall(sf, SetAt(mg, t, g)[u])
    BY <1>2, <1>3
  <1> QED BY <1>1, <1>2, <1>3, <1>4 DEF Calls0, Mappings, Call

\* What the call of one thread, and the surfaces it has mapped, do to the mappings of b.
LEMMA MapsCall ==
    ASSUME NEW mp, NEW sf, NEW sm, NEW mg, MapState(mp, sf, sm, mg),
           NEW t \in Thread, NEW g \in Call, GoodCall(sf, g)
    PROVE  /\ MapState(mp, sf, sm, SetAt(mg, t, g))
           /\ \A b \in Bo :
                /\ MapsOf(mp, sf, sm, SetAt(mg, t, g))[b]
                     = MapsOf(mp, sf, sm, mg)[b] + CallMaps(sf, g, b) - CallMaps(sf, mg[t], b)
                /\ CallMaps(sf, g, b) \in Nat /\ CallMaps(sf, mg[t], b) \in Nat
                /\ CallMaps(sf, mg[t], b) <= MapsOf(mp, sf, sm, mg)[b]
                /\ MapsOf(mp, sf, sm, mg)[b] \in Nat
  <1> DEFINE mh == SetAt(mg, t, g)
             y == MapsOf(mp, sf, sm, mg)
             z == MapsOf(mp, sf, sm, mh)
  <1>1. mp \in Table(Bo) /\ sf \in SurfTable /\ sm \in Table(Surf) /\ Calls0(sf, mg)
    BY DEF MapState
  <1>2. Calls0(sf, mh) /\ mh[t] = g /\ \A u \in Thread : u # t => mh[u] = mg[u]
    BY <1>1, CallChanged
  <1> HIDE DEF mh
  <1>3. MapState(mp, sf, sm, mh)
    BY <1>1, <1>2 DEF MapState
  <1>4. ASSUME NEW b \in Bo
        PROVE  /\ z[b] = y[b] + CallMaps(sf, g, b) - CallMaps(sf, mg[t], b)
               /\ CallMaps(sf, g, b) \in Nat /\ CallMaps(sf, mg[t], b) \in Nat
               /\ CallMaps(sf, mg[t], b) <= y[b] /\ y[b] \in Nat
    <2> DEFINE i == TermOf(mp, sf, sm, mg, t, b)
               j == TermOf(mp, sf, sm, mh, t, b)
               k == mp[t][b]
               l == SurfMapsIn(sf, sm[t], b)
               n == CallMaps(sf, mg[t], b)
               o == CallMaps(sf, g, b)
    <2>1. i = k + (l + n) /\ k \in Nat /\ l \in Nat /\ n \in Nat
      BY <1>1, TermNat
    <2>2. j = k + (l + o) /\ o \in Nat
      BY <1>1, <1>2, TermNat
    <2>3. \A u \in Thread : u # t =>
            TermOf(mp, sf, sm, mh, u, b) = TermOf(mp, sf, sm, mg, u, b)
      BY <1>2 DEF TermOf
    <2>4. z[b] = y[b] + j - i /\ y[b] \in Nat /\ z[b] \in Nat /\ i <= y[b]
      BY <1>3, <2>3, MapsOneRow
    <2> HIDE DEF i, j, k, l, n, o, y, z
    <2>5. z[b] = y[b] + o - n /\ n <= y[b]
      BY <2>1, <2>2, <2>4
    <2> QED BY <2>1, <2>2, <2>4, <2>5 DEF o, n
  <1> QED BY <1>3, <1>4 DEF mh

\* A thread that is in no call.
LEMMA NoCall == NotMapping \in Call /\ \A sf, b : GoodCall(sf, NotMapping)
                                                /\ CallMaps(sf, NotMapping, b) = 0
BY DEF NotMapping, Call, GoodCall, CallMaps

\* A call at bo i of surface s.
LEMMA AtBo ==
    ASSUME NEW sf \in SurfTable, NEW s \in DOMAIN sf, NEW i \in 1 .. Len(sf[s].bos)
    PROVE  LET g == [surf |-> s, i |-> i]
           IN  /\ g \in Call /\ GoodCall(sf, g) /\ g # NotMapping
               /\ i \in Nat /\ sf[s].bos[i] \in Bo
               /\ \A b : CallMaps(sf, g, b) = OfFirst(b, sf[s].bos, i - 1)
                         /\ OfFirst(b, sf[s].bos, i - 1) \in Nat
                         /\ OfFirst(b, sf[s].bos, i)
                              = IF sf[s].bos[i] = b THEN OfFirst(b, sf[s].bos, i - 1) + 1
                                ELSE OfFirst(b, sf[s].bos, i - 1)
  <1> DEFINE g == [surf |-> s, i |-> i]
             bs == sf[s].bos
  <1>1. bs \in Seq(Bo) /\ Len(bs) \in Nat /\ s \in Surf
    BY SurfFields
  <1>2. i \in Nat /\ i - 1 \in Nat /\ (i - 1) + 1 = i /\ bs[i] \in Bo
    <2> HIDE DEF bs
    <2>1. i \in 1 .. Len(bs)
      BY DEF bs
    <2> QED BY <1>1, <2>1
  <1>3. g \in Call /\ g.surf = s /\ g.i = i
    BY <1>1, <1>2 DEF Call
  <1>4. g # NotMapping
    BY <1>1, BufMgrAssumption DEF BufMgrAssumption, NotMapping
  <1>5. GoodCall(sf, g)
    BY <1>3 DEF GoodCall
  <1> HIDE DEF g
  <1>6. ASSUME NEW b
        PROVE  CallMaps(sf, g, b) = OfFirst(b, bs, i - 1)
    <2>1. CallMaps(sf, g, b) = OfFirst(b, sf[g.surf].bos, g.i - 1)
      BY <1>3, <1>4, <1>5, CallMapsIs DEF Call
    <2> QED BY <1>3, <2>1
  <1>7. ASSUME NEW b
        PROVE  /\ OfFirst(b, bs, i - 1) \in Nat
               /\ OfFirst(b, bs, i)
                    = IF bs[i] = b THEN OfFirst(b, bs, i - 1) + 1 ELSE OfFirst(b, bs, i - 1)
    <2> HIDE DEF bs
    <2> DEFINE j == i - 1
    <2>1. j \in Nat /\ j + 1 = i
      BY <1>2
    <2> HIDE DEF j
    <2>2. OfFirst(b, bs, j) \in Nat
          /\ OfFirst(b, bs, j + 1) = IF bs[j + 1] = b THEN OfFirst(b, bs, j) + 1 ELSE OfFirst(b, bs, j)
      BY <2>1, OfFirstSteps
    <2>3. OfFirst(b, bs, i) = IF bs[i] = b THEN OfFirst(b, bs, j) + 1 ELSE OfFirst(b, bs, j)
      BY <2>1, <2>2
    <2> QED BY <2>2, <2>3 DEF j
  <1> QED BY <1>2, <1>3, <1>4, <1>5, <1>6, <1>7 DEF g, bs

\* A thread begins to map a surface.
LEMMA MapsBegun ==
    ASSUME NEW mp, NEW sf, NEW sm, NEW mg, MapState(mp, sf, sm, mg),
           NEW t \in Thread, mg[t] = NotMapping, NEW s \in DOMAIN sf, sf[s].bos # <<>>
    PROVE  LET mh == SetAt(mg, t, [surf |-> s, i |-> 1])
           IN  /\ MapState(mp, sf, sm, mh)
               /\ MapsOf(mp, sf, sm, mh) = MapsOf(mp, sf, sm, mg)
  <1> DEFINE g == [surf |-> s, i |-> 1]
             bs == sf[s].bos
             y == MapsOf(mp, sf, sm, mg)
             z == MapsOf(mp, sf, sm, SetAt(mg, t, g))
  <1>1. sf \in SurfTable
    BY DEF MapState
  <1>2. 1 \in 1 .. Len(bs)
    <2>1. bs \in Seq(Bo)
      BY <1>1, SurfFields
    <2> QED BY <2>1
  <1>3. /\ g \in Call /\ GoodCall(sf, g)
        /\ \A b : CallMaps(sf, g, b) = OfFirst(b, bs, 1 - 1)
    BY <1>1, <1>2, AtBo
  <1> HIDE DEF g
  <1>4. MapState(mp, sf, sm, SetAt(mg, t, g))
    BY <1>3, MapsCall
  <1>5. ASSUME NEW b \in Bo PROVE z[b] = y[b]
    <2>1. z[b] = y[b] + CallMaps(sf, g, b) - CallMaps(sf, mg[t], b) /\ y[b] \in Nat
      BY <1>3, MapsCall
    <2>2. CallMaps(sf, mg[t], b) = 0
      BY NoCall
    <2>3. CallMaps(sf, g, b) = 0
      BY <1>3, OfFirstSteps
    <2> HIDE DEF y, z
    <2> QED BY <2>1, <2>2, <2>3
  <1>6. y \in Counts /\ z \in Counts
    BY <1>4, MapsIn
  <1> HIDE DEF y, z
  <1>7. z = y
    BY <1>5, <1>6, CountsSame
  <1> QED BY <1>4, <1>7 DEF y, z, g

\* It has mapped a bo that is not the last one of the surface.
LEMMA MapsAdvanced ==
    ASSUME NEW mp, NEW sf, NEW sm, NEW mg, MapState(mp, sf, sm, mg),
           NEW t \in Thread, NEW s \in DOMAIN sf, NEW i \in 1 .. Len(sf[s].bos),
           mg[t] = [surf |-> s, i |-> i], i # Len(sf[s].bos)
    PROVE  LET mh == SetAt(mg, t, [surf |-> s, i |-> i + 1])
           IN  /\ MapState(mp, sf, sm, mh)
               /\ MapsOf(mp, sf, sm, mh) = [MapsOf(mp, sf, sm, mg) EXCEPT ![sf[s].bos[i]] = @ + 1]
  <1> DEFINE h == [surf |-> s, i |-> i]
             g == [surf |-> s, i |-> i + 1]
             bs == sf[s].bos
             y == MapsOf(mp, sf, sm, mg)
             z == MapsOf(mp, sf, sm, SetAt(mg, t, g))
  <1>1. sf \in SurfTable
    BY DEF MapState
  <1>2. i + 1 \in 1 .. Len(bs) /\ i \in Nat /\ (i + 1) - 1 = i
    <2>1. Len(bs) \in Nat /\ i \in 1 .. Len(bs) /\ i # Len(bs)
      BY <1>1, SurfFields
    <2> HIDE DEF bs
    <2> QED BY <2>1
  <1>3. /\ g \in Call /\ GoodCall(sf, g)
        /\ \A b : CallMaps(sf, g, b) = OfFirst(b, bs, (i + 1) - 1)
    BY <1>1, <1>2, AtBo
  <1>4. /\ bs[i] \in Bo
        /\ \A b : CallMaps(sf, h, b) = OfFirst(b, bs, i - 1)
                  /\ OfFirst(b, bs, i - 1) \in Nat
                  /\ OfFirst(b, bs, i) = IF bs[i] = b THEN OfFirst(b, bs, i - 1) + 1
                                         ELSE OfFirst(b, bs, i - 1)
    BY <1>1, AtBo
  <1> HIDE DEF g, bs
  <1>5. MapState(mp, sf, sm, SetAt(mg, t, g))
    BY <1>3, MapsCall
  <1>6. ASSUME NEW b \in Bo PROVE z[b] = IF b = bs[i] THEN y[b] + 1 ELSE y[b]
    <2>1. z[b] = y[b] + CallMaps(sf, g, b) - CallMaps(sf, h, b) /\ y[b] \in Nat
      BY <1>3, MapsCall
    <2>2. CallMaps(sf, g, b) = OfFirst(b, bs, i)
      BY <1>2, <1>3
    <2> HIDE DEF y, z, h
    <2> QED BY <1>4, <2>1, <2>2
  <1>7. y \in Counts /\ z \in Counts
    BY <1>5, MapsIn
  <1> HIDE DEF y, z, h
  <1>8. z = [y EXCEPT ![bs[i]] = @ + 1]
    BY <1>4, <1>6, <1>7 DEF Counts
  <1> QED BY <1>5, <1>8 DEF y, z, g, bs

\* A count changed back.
LEMMA PutBack ==
    ASSUME NEW sm \in Table(Surf), NEW t \in Thread, NEW s \in Surf
    PROVE  LET sn == Put(sm, t, s, sm[t][s] + 1)
           IN  sn \in Table(Surf) /\ sn[t][s] = sm[t][s] + 1 /\ sn[t][s] > 0
               /\ Put(sn, t, s, sn[t][s] - 1) = sm
  <1>1. sm[t][s] \in Nat /\ sm[t][s] + 1 \in Nat
    BY DEF Table
  <1> DEFINE sn == Put(sm, t, s, sm[t][s] + 1)
             so == Put(sn, t, s, sn[t][s] - 1)
  <1>2. /\ sn \in Table(Surf) /\ sn[t][s] = sm[t][s] + 1
        /\ \A u \in Thread, q \in Surf : <<u, q>> # <<t, s>> => sn[u][q] = sm[u][q]
    BY <1>1 DEF Table, Put
  <1> HIDE DEF sn
  <1>3. sn[t][s] - 1 = sm[t][s] /\ sn[t][s] - 1 \in Nat /\ sn[t][s] > 0
    BY <1>1, <1>2
  <1>4. /\ so \in Table(Surf) /\ so[t][s] = sn[t][s] - 1
        /\ \A u \in Thread, q \in Surf : <<u, q>> # <<t, s>> => so[u][q] = sn[u][q]
    <2> DEFINE n == sn[t][s] - 1
    <2>1. n \in Nat /\ so = Put(sn, t, s, n)
      BY <1>3
    <2> HIDE DEF n, so
    <2>2. /\ Put(sn, t, s, n) \in Table(Surf) /\ Put(sn, t, s, n)[t][s] = n
          /\ \A u \in Thread, q \in Surf : <<u, q>> # <<t, s>> => Put(sn, t, s, n)[u][q] = sn[u][q]
      BY <1>2, <2>1 DEF Table, Put
    <2> QED BY <2>1, <2>2 DEF n
  <1> HIDE DEF so
  <1>5. \A u \in Thread, q \in Surf : so[u][q] = sm[u][q]
    BY <1>2, <1>3, <1>4
  <1>6. \A u \in Thread : so[u] = sm[u]
    BY <1>4, <1>5 DEF Table
  <1>7. so = sm
    BY <1>4, <1>6 DEF Table
  <1> QED BY <1>2, <1>3, <1>7 DEF sn, so

\* A thread has mapped the last bo of the surface.
LEMMA MapsDone ==
    ASSUME NEW mp, NEW sf, NEW sm, NEW mg, MapState(mp, sf, sm, mg),
           NEW t \in Thread, NEW s \in DOMAIN sf, NEW i \in 1 .. Len(sf[s].bos),
           mg[t] = [surf |-> s, i |-> i], i = Len(sf[s].bos)
    PROVE  LET mh == SetAt(mg, t, NotMapping)
               sn == Put(sm, t, s, sm[t][s] + 1)
           IN  /\ MapState(mp, sf, sn, mh)
               /\ MapsOf(mp, sf, sn, mh) = [MapsOf(mp, sf, sm, mg) EXCEPT ![sf[s].bos[i]] = @ + 1]
  <1> DEFINE mh == SetAt(mg, t, NotMapping)
             sn == Put(sm, t, s, sm[t][s] + 1)
             h == [surf |-> s, i |-> i]
             bs == sf[s].bos
             x == MapsOf(mp, sf, sm, mg)
             y == MapsOf(mp, sf, sm, mh)
             z == MapsOf(mp, sf, sn, mh)
  <1>1. mp \in Table(Bo) /\ sf \in SurfTable /\ sm \in Table(Surf) /\ Calls0(sf, mg)
        /\ s \in Surf
    BY SurfFields DEF MapState
  <1>2. /\ bs[i] \in Bo
        /\ \A b : CallMaps(sf, h, b) = OfFirst(b, bs, i - 1)
                  /\ OfFirst(b, bs, i - 1) \in Nat
                  /\ OfFirst(b, bs, i) = IF bs[i] = b THEN OfFirst(b, bs, i - 1) + 1
                                         ELSE OfFirst(b, bs, i - 1)
    BY <1>1, AtBo
  <1>3. /\ MapState(mp, sf, sm, mh)
        /\ \A b \in Bo : /\ y[b] = x[b] + CallMaps(sf, NotMapping, b) - CallMaps(sf, h, b)
                         /\ x[b] \in Nat /\ CallMaps(sf, h, b) <= x[b]
    BY NoCall, MapsCall
  <1> HIDE DEF mh
  <1>4. sn \in Table(Surf) /\ sn[t][s] > 0 /\ Put(sn, t, s, sn[t][s] - 1) = sm
    BY <1>1, PutBack
  <1> HIDE DEF sn
  <1>5. MapState(mp, sf, sn, mh)
    BY <1>3, <1>4 DEF MapState
  <1>6. y = LessRefs(z, bs, Len(bs))
    <2> DEFINE so == Put(sn, t, s, sn[t][s] - 1)
    <2>1. MapsOf(mp, sf, so, mh) = LessRefs(MapsOf(mp, sf, sn, mh), bs, Len(bs))
      BY <1>4, <1>5, MapsSurfLess
    <2> QED BY <1>4, <2>1
  <1>7. z \in Counts /\ x \in Counts
    BY <1>5, MapsIn
  <1> HIDE DEF bs, h, x, y, z
  <1>8. ASSUME NEW b \in Bo PROVE z[b] = IF b = bs[i] THEN x[b] + 1 ELSE x[b]
    <2>1. y[b] = x[b] - OfFirst(b, bs, i - 1)
      <3>1. y[b] = x[b] + 0 - OfFirst(b, bs, i - 1)
        BY <1>2, <1>3, NoCall
      <3> QED BY <1>2, <1>3, <3>1
    <2>2. y[b] = z[b] - OfFirst(b, bs, i)
      BY <1>6 DEF LessRefs, bs
    <2>3. z[b] \in Nat /\ x[b] \in Nat
      BY <1>7 DEF Counts
    <2> QED BY <1>2, <2>1, <2>2, <2>3
  <1>9. z = [x EXCEPT ![bs[i]] = @ + 1]
    BY <1>2, <1>7, <1>8 DEF Counts
  <1> QED BY <1>5, <1>9 DEF x, z, mh, sn, bs

\* The call fails: the bos that it mapped are unmapped.
Before(bs, i) == SubSeq(bs, 1, i - 1)

\* A call of tbm_surface_map gives up: what it mapped is unmapped.
LEMMA MapsFailed ==
    ASSUME NEW mp, NEW sf, NEW sm, NEW mg, MapState(mp, sf, sm, mg),
           NEW t \in Thread, NEW s \in DOMAIN sf, NEW i \in 1 .. Len(sf[s].bos),
           mg[t] = [surf |-> s, i |-> i]
    PROVE  /\ MapState(mp, sf, sm, SetAt(mg, t, NotMapping))
           /\ Before(sf[s].bos, i) \in Seq(Bo)
           /\ \A b \in Bo : Times(b, Before(sf[s].bos, i)) > 0 => Times(b, sf[s].bos) > 0
           /\ MapsOf(mp, sf, sm, SetAt(mg, t, NotMapping))
                = LessRefs(MapsOf(mp, sf, sm, mg), Before(sf[s].bos, i), Len(Before(sf[s].bos, i)))
           /\ \A b \in Bo : Times(b, Before(sf[s].bos, i)) <= MapsOf(mp, sf, sm, mg)[b]
  <1> DEFINE mh == SetAt(mg, t, NotMapping)
             h == [surf |-> s, i |-> i]
             cs == sf[s].bos
             bs == SubSeq(cs, 1, i - 1)
             x == MapsOf(mp, sf, sm, mg)
             y == MapsOf(mp, sf, sm, mh)
  <1>1. mp \in Table(Bo) /\ sf \in SurfTable /\ sm \in Table(Surf) /\ Calls0(sf, mg)
        /\ s \in Surf
    BY SurfFields DEF MapState
  <1>2. cs \in Seq(Bo) /\ Len(cs) \in Nat /\ i \in 1 .. Len(cs)
    BY <1>1, SurfFields
  <1>3. \A b : CallMaps(sf, h, b) = OfFirst(b, cs, i - 1) /\ OfFirst(b, cs, i - 1) \in Nat
    BY <1>1, AtBo
  <1>4. /\ MapState(mp, sf, sm, mh)
        /\ \A b \in Bo : /\ y[b] = x[b] + CallMaps(sf, NotMapping, b) - CallMaps(sf, h, b)
                         /\ x[b] \in Nat /\ CallMaps(sf, h, b) <= x[b]
    BY NoCall, MapsCall
  <1> HIDE DEF cs
  <1>5. /\ bs \in Seq(Bo) /\ Len(bs) = i - 1 /\ Len(bs) \in Nat
        /\ \A j \in 1 .. Len(bs) : bs[j] = cs[j] /\ j \in 1 .. Len(cs)
    BY <1>2
  <1>6. ASSUME NEW b
        PROVE  Times(b, bs) = OfFirst(b, cs, i - 1) /\ OfFirst(b, bs, Len(bs)) = Times(b, bs)
               /\ Times(b, bs) <= Times(b, cs) /\ Times(b, bs) \in Nat /\ Times(b, cs) \in Nat
    <2>1. i - 1 \in 0 .. Len(cs)
      BY <1>2
    <2>2. Times(b, bs) = OfFirst(b, cs, i - 1)
      BY <1>2, <2>1, OfFirstTimes
    <2>3. Times(b, cs) = OfFirst(b, cs, Len(cs)) /\ Times(b, cs) \in Nat
      BY <1>2, <2>1, OfFirstTimes
    <2>4. OfFirst(b, cs, i - 1) \in Nat /\ OfFirst(b, cs, i - 1) <= OfFirst(b, cs, Len(cs))
      BY <1>2, <2>1, OfFirstGrows
    <2> HIDE DEF bs
    <2>5. OfFirst(b, bs, Len(bs)) = Times(b, bs)
      <3>1. 0 \in 0 .. Len(bs)
        BY <1>5
      <3> QED BY <1>5, <3>1, OfFirstTimes
    <2> QED BY <2>2, <2>3, <2>4, <2>5
  <1>7. y \in Counts /\ x \in Counts
    BY <1>4, MapsIn
  <1> HIDE DEF bs, h, x, y, mh
  <1>8. ASSUME NEW b \in Bo
        PROVE  y[b] = x[b] - OfFirst(b, bs, Len(bs)) /\ Times(b, bs) <= x[b]
    <2>1. CallMaps(sf, NotMapping, b) = 0 /\ CallMaps(sf, h, b) = Times(b, bs)
      BY <1>3, <1>6, NoCall
    <2> QED BY <1>4, <1>6, <2>1
  <1>9. y = LessRefs(x, bs, Len(bs))
    <2>1. y = [b \in Bo |-> y[b]]
      BY <1>7 DEF Counts
    <2>2. [b \in Bo |-> y[b]] = [b \in Bo |-> x[b] - OfFirst(b, bs, Len(bs))]
      BY <1>8
    <2> QED BY <2>1, <2>2 DEF LessRefs
  <1>10. \A b : Times(b, bs) > 0 => Times(b, cs) > 0
    BY <1>6
  <1>11. bs = Before(sf[s].bos, i)
    BY DEF bs, cs, Before
  <1> QED BY <1>4, <1>5, <1>8, <1>9, <1>10, <1>11 DEF x, y, mh, cs
-----------------------------------------------------------------------------
\* Surfaces come and go, and their counts change.
LEMMA TermsSame ==
    ASSUME NEW mp, NEW sf, NEW sm, NEW mg, MapState(mp, sf, sm, mg),
           NEW sg, MapState(mp, sg, sm, mg),
           \A t \in Thread, b \in Bo :
             /\ SurfMapsIn(sg, sm[t], b) = SurfMapsIn(sf, sm[t], b)
             /\ CallMaps(sg, mg[t], b) = CallMaps(sf, mg[t], b)
    PROVE  MapsOf(mp, sg, sm, mg) = MapsOf(mp, sf, sm, mg)
  <1> DEFINE x == MapsOf(mp, sf, sm, mg)
             y == MapsOf(mp, sg, sm, mg)
  <1>1. \A t \in Thread, b \in Bo : TermOf(mp, sg, sm, mg, t, b) = TermOf(mp, sf, sm, mg, t, b)
    BY DEF TermOf
  <1>2. \A b \in Bo : y[b] = x[b]
    BY <1>1, MapsNoRow
  <1>3. x \in Counts /\ y \in Counts
    BY MapsIn
  <1> HIDE DEF x, y
  <1>4. x = y
    BY <1>2, <1>3, CountsSame
  <1> QED BY <1>4 DEF x, y

\* The mappings with other reference counts of surfaces.
LEMMA MapsSameBos ==
    ASSUME NEW mp, NEW sf, NEW sm, NEW mg, MapState(mp, sf, sm, mg),
           NEW sg \in SurfTable, SameBos(sf, sg)
    PROVE  MapState(mp, sg, sm, mg) /\ MapsOf(mp, sg, sm, mg) = MapsOf(mp, sf, sm, mg)
  <1>1. mp \in Table(Bo) /\ sf \in SurfTable /\ sm \in Table(Surf) /\ Calls0(sf, mg)
    BY DEF MapState
  <1>2. \A t \in Thread : mg[t] # NotMapping => sg[mg[t].surf].bos = sf[mg[t].surf].bos
    BY <1>1 DEF SameBos, Calls0, GoodCall
  <1>3. Calls0(sg, mg)
    BY <1>1, <1>2 DEF SameBos, Calls0, GoodCall
  <1>4. MapState(mp, sg, sm, mg)
    BY <1>1, <1>3 DEF MapState
  <1>5. \A t \in Thread, b \in Bo :
          /\ SurfMapsIn(sg, sm[t], b) = SurfMapsIn(sf, sm[t], b)
          /\ CallMaps(sg, mg[t], b) = CallMaps(sf, mg[t], b)
    BY <1>2, SurfMapsSame DEF CallMaps
  <1> QED BY <1>4, <1>5, TermsSame

\* The mappings with a surface more and a surface less.
LEMMA MapsLinked ==
    ASSUME NEW mp, NEW sf, NEW sm, NEW mg, MapState(mp, sf, sm, mg),
           NEW s \in Surf, s \notin DOMAIN sf, NEW r \in SurfRec,
           \A t \in Thread : sm[t][s] = 0
    PROVE  /\ MapState(mp, Link(sf, s, r), sm, mg)
           /\ MapsOf(mp, Link(sf, s, r), sm, mg) = MapsOf(mp, sf, sm, mg)
  <1> DEFINE sg == Link(sf, s, r)
  <1>1. mp \in Table(Bo) /\ sf \in SurfTable /\ sm \in Table(Surf) /\ Calls0(sf, mg)
    BY DEF MapState
  <1>2. /\ sg \in SurfTable /\ DOMAIN sg = DOMAIN sf \cup {s}
        /\ \A q \in DOMAIN sf : sg[q] = sf[q]
    BY <1>1, SurfLinked, ZenonT(30)
  <1>3. \A t \in Thread, b \in Bo : SurfMapsIn(sg, sm[t], b) = SurfMapsIn(sf, sm[t], b)
    <2>1. \A t \in Thread : sm[t] \in [Surf -> Nat]
      BY <1>1 DEF Table
    <2> QED BY <1>1, <2>1, SurfMapsLinked
  <1> HIDE DEF sg
  <1>4. \A t \in Thread : mg[t] # NotMapping =>
          sg[mg[t].surf].bos = sf[mg[t].surf].bos /\ mg[t].surf \in DOMAIN sg
    BY <1>1, <1>2 DEF Calls0, GoodCall
  <1>5. Calls0(sg, mg)
    BY <1>1, <1>4 DEF Calls0, GoodCall
  <1>6. MapState(mp, sg, sm, mg)
    BY <1>1, <1>2, <1>5 DEF MapState
  <1>7. \A t \in Thread, b \in Bo : CallMaps(sg, mg[t], b) = CallMaps(sf, mg[t], b)
    BY <1>4 DEF CallMaps
  <1>8. MapsOf(mp, sg, sm, mg) = MapsOf(mp, sf, sm, mg)
    BY <1>3, <1>6, <1>7, TermsSame
  <1> QED BY <1>6, <1>8 DEF sg

LEMMA MapsUnlinked ==
    ASSUME NEW mp, NEW sf, NEW sm, NEW mg, MapState(mp, sf, sm, mg),
           NEW s \in DOMAIN sf,
           \A t \in Thread : sm[t][s] = 0 /\ (mg[t] # NotMapping => mg[t].surf # s)
    PROVE  /\ MapState(mp, Unlink(sf, s), sm, mg)
           /\ MapsOf(mp, Unlink(sf, s), sm, mg) = MapsOf(mp, sf, sm, mg)
  <1> DEFINE sg == Unlink(sf, s)
  <1>1. mp \in Table(Bo) /\ sf \in SurfTable /\ sm \in Table(Surf) /\ Calls0(sf, mg)
    BY DEF MapState
  <1>2. /\ sg \in SurfTable /\ DOMAIN sg = DOMAIN sf \ {s}
        /\ \A q \in DOMAIN sg : sg[q] = sf[q]
    BY <1>1, SurfUnlinked
  <1>3. \A t \in Thread, b \in Bo : SurfMapsIn(sg, sm[t], b) = SurfMapsIn(sf, sm[t], b)
    <2>1. \A t \in Thread : sm[t] \in [Surf -> Nat]
      BY <1>1 DEF Table
    <2> QED BY <1>1, <2>1, SurfMapsUnlinked
  <1> HIDE DEF sg
  <1>4. \A t \in Thread : mg[t] # NotMapping =>
          sg[mg[t].surf].bos = sf[mg[t].surf].bos /\ mg[t].surf \in DOMAIN sg
    BY <1>1, <1>2 DEF Calls0, GoodCall
  <1>5. Calls0(sg, mg)
    BY <1>1, <1>4 DEF Calls0, GoodCall
  <1>6. MapState(mp, sg, sm, mg)
    BY <1>1, <1>2, <1>5 DEF MapState
  <1>7. \A t \in Thread, b \in Bo : CallMaps(sg, mg[t], b) = CallMaps(sf, mg[t], b)
    BY <1>4 DEF CallMaps
  <1>8. MapsOf(mp, sg, sm, mg) = MapsOf(mp, sf, sm, mg)
    BY <1>3, <1>6, <1>7, TermsSame
  <1> QED BY <1>6, <1>8 DEF sg

\* Threads whose backend lock of b has yet to be counted.
FlyersOf(pp, ag, b) == {t \in Thread : pp[t] = "locked" /\ ag[t] = b}

\* The locks that threads took and have not counted yet.
FlyingOf(pp, ag) == [b \in Bo |-> Cardinality(FlyersOf(pp, ag, b))]

\* There are finitely many of them.
LEMMA FlyCounts ==
    ASSUME NEW pp, NEW ag
    PROVE  /\ FlyingOf(pp, ag) \in Counts
           /\ \A b \in Bo :
                /\ FlyingOf(pp, ag)[b] = Cardinality(FlyersOf(pp, ag, b))
                /\ FlyingOf(pp, ag)[b] \in Nat /\ IsFiniteSet(FlyersOf(pp, ag, b))
                /\ FlyingOf(pp, ag)[b] = 0 <=>
                     \A t \in Thread : ~(pp[t] = "locked" /\ ag[t] = b)
  <1>1. ASSUME NEW b \in Bo
        PROVE  /\ Cardinality(FlyersOf(pp, ag, b)) \in Nat /\ IsFiniteSet(FlyersOf(pp, ag, b))
               /\ Cardinality(FlyersOf(pp, ag, b)) = 0 <=> FlyersOf(pp, ag, b) = {}
    <2>1. FlyersOf(pp, ag, b) \subseteq Thread
      BY DEF FlyersOf
    <2>2. IsFiniteSet(FlyersOf(pp, ag, b))
      BY <2>1, ThreadsFinite, FS_Subset
    <2> QED BY <2>2, FS_CardinalityType, FS_EmptySet
  <1>2. ASSUME NEW b \in Bo
        PROVE  FlyersOf(pp, ag, b) = {} <=> \A t \in Thread : ~(pp[t] = "locked" /\ ag[t] = b)
    BY DEF FlyersOf
  <1>3. \A b \in Bo : FlyingOf(pp, ag)[b] = Cardinality(FlyersOf(pp, ag, b))
    BY DEF FlyingOf
  <1>4. FlyingOf(pp, ag) \in Counts
    BY <1>1 DEF FlyingOf, Counts
  <1> QED BY <1>1, <1>2, <1>3, <1>4

\* Steps of other calls do not change them.
LEMMA FlySame ==
    ASSUME NEW pp, NEW ag, NEW pq, NEW ah,
           \A t \in Thread : /\ pq[t] = "locked" <=> pp[t] = "locked"
                             /\ pp[t] = "locked" => ah[t] = ag[t]
    PROVE  FlyingOf(pq, ah) = FlyingOf(pp, ag)
  <1>1. \A b : FlyersOf(pq, ah, b) = FlyersOf(pp, ag, b)
    BY DEF FlyersOf
  <1> QED BY <1>1 DEF FlyingOf

\* Thread t, with bo b, is in pq a thread that the backend has locked a bo for.
Flies(pp, pq, ag, t, b) ==
    /\ t \in Thread /\ b \in Bo /\ ag[t] = b
    /\ pp[t] # "locked" /\ pq[t] = "locked" /\ \A u \in Thread : u # t => pq[u] = pp[u]

\* A thread takes a lock of b and has not counted it.
LEMMA FlyMore ==
    ASSUME NEW pp, NEW ag, NEW pq, NEW t, NEW b, Flies(pp, pq, ag, t, b)
    PROVE  /\ FlyingOf(pq, ag) = [FlyingOf(pp, ag) EXCEPT ![b] = @ + 1]
           /\ FlyingOf(pp, ag) = [FlyingOf(pq, ag) EXCEPT ![b] = @ - 1]
           /\ FlyingOf(pq, ag)[b] > 0
  <1>0. /\ t \in Thread /\ b \in Bo /\ ag[t] = b /\ pp[t] # "locked" /\ pq[t] = "locked"
        /\ \A u \in Thread : u # t => pq[u] = pp[u]
    BY DEF Flies
  <1> DEFINE k == FlyingOf(pp, ag)
             l == FlyingOf(pq, ag)
  <1>1. /\ k \in Counts /\ l \in Counts
        /\ \A c \in Bo : /\ k[c] = Cardinality(FlyersOf(pp, ag, c))
                         /\ l[c] = Cardinality(FlyersOf(pq, ag, c))
                         /\ IsFiniteSet(FlyersOf(pp, ag, c))
    BY FlyCounts
  <1> HIDE DEF k, l
  <1>2. FlyersOf(pq, ag, b) = FlyersOf(pp, ag, b) \cup {t} /\ t \notin FlyersOf(pp, ag, b)
    BY <1>0 DEF FlyersOf
  <1>3. l[b] = k[b] + 1
    BY <1>0, <1>1, <1>2, FS_AddElement
  <1>4. ASSUME NEW c \in Bo, c # b PROVE l[c] = k[c]
    <2>1. FlyersOf(pq, ag, c) = FlyersOf(pp, ag, c)
      BY <1>0, <1>4 DEF FlyersOf
    <2> QED BY <1>1, <2>1
  <1>5. l = [k EXCEPT ![b] = @ + 1]
    BY <1>0, <1>1, <1>3, <1>4 DEF Counts
  <1>6. k[b] = l[b] - 1 /\ l[b] > 0
    <2>1. k[b] \in Nat
      BY <1>0, <1>1 DEF Counts
    <2> QED BY <1>3, <2>1
  <1>7. k = [l EXCEPT ![b] = @ - 1]
    BY <1>0, <1>1, <1>4, <1>6 DEF Counts
  <1> QED BY <1>5, <1>6, <1>7 DEF k, l
-----------------------------------------------------------------------------
\* Where back pointers may lead.
PointersOf(env, sf) ==
    IF Envs[env].null_bos THEN Bo \X Surf
    ELSE {z \in Bo \X Surf : z[2] \in DOMAIN sf /\ Times(z[1], sf[z[2]].bos) > 0}

\* A bo of a surface may point to it.
LEMMA PointerIn ==
    ASSUME NEW env, NEW sf, NEW b \in Bo, NEW s \in Surf
    PROVE  <<b, s>> \in PointersOf(env, sf) <=>
             \/ Envs[env].null_bos
             \/ s \in DOMAIN sf /\ Times(b, sf[s].bos) > 0
BY DEF PointersOf

\* The back pointers when surfaces come, go and are counted.
LEMMA PointersLinked ==
    ASSUME NEW env, NEW sf \in SurfTable, NEW s \in Surf, s \notin DOMAIN sf, NEW r \in SurfRec
    PROVE  /\ \A c \in Bo, q \in Surf :
                <<c, q>> \in PointersOf(env, sf) => <<c, q>> \in PointersOf(env, Link(sf, s, r))
           /\ \A i \in 1 .. Len(r.bos) : <<r.bos[i], s>> \in PointersOf(env, Link(sf, s, r))
  <1> DEFINE sg == Link(sf, s, r)
  <1>1. /\ sg \in SurfTable /\ DOMAIN sg = DOMAIN sf \cup {s} /\ sg[s] = r
        /\ \A q \in DOMAIN sf : sg[q] = sf[q]
    BY SurfLinked, ZenonT(30)
  <1> HIDE DEF sg
  <1>2. \A c \in Bo, q \in Surf : <<c, q>> \in PointersOf(env, sf) => <<c, q>> \in PointersOf(env, sg)
    BY <1>1, PointerIn
  <1>3. ASSUME NEW i \in 1 .. Len(r.bos) PROVE <<r.bos[i], s>> \in PointersOf(env, sg)
    <2>1. r.bos \in Seq(Bo) /\ 0 \in 0 .. Len(r.bos)
      BY DEF SurfRec
    <2>2. r.bos[i] \in Bo
      BY <2>1
    <2>3. Times(r.bos[i], r.bos) > 0
      BY <2>1, OfFirstTimes
    <2> QED BY <1>1, <2>2, <2>3, PointerIn
  <1> QED BY <1>2, <1>3 DEF sg

LEMMA PointersUnlinked ==
    ASSUME NEW env, NEW sf \in SurfTable, NEW s \in DOMAIN sf, NEW c \in Bo, NEW q \in Surf,
           <<c, q>> \in PointersOf(env, sf), Times(c, sf[s].bos) = 0
    PROVE  <<c, q>> \in PointersOf(env, Unlink(sf, s))
  <1> DEFINE sg == Unlink(sf, s)
  <1>1. /\ sg \in SurfTable /\ DOMAIN sg = DOMAIN sf \ {s}
        /\ \A p \in DOMAIN sg : sg[p] = sf[p]
    BY SurfUnlinked
  <1> HIDE DEF sg
  <1>2. CASE Envs[env].null_bos
    BY <1>2, PointerIn DEF sg
  <1>3. CASE q \in DOMAIN sf /\ Times(c, sf[q].bos) > 0
    <2>1. q # s
      BY <1>3
    <2>2. q \in DOMAIN sg /\ Times(c, sg[q].bos) > 0
      BY <1>1, <1>3, <2>1
    <2> QED BY <2>2, PointerIn DEF sg
  <1> QED BY <1>2, <1>3, PointerIn

LEMMA PointersSame ==
    ASSUME NEW env, NEW sf, NEW sg, SameBos(sf, sg)
    PROVE  PointersOf(env, sg) = PointersOf(env, sf)
BY DEF PointersOf, SameBos
-----------------------------------------------------------------------------
\* What is left when clients and surfaces have nothing.
LEMMA NothingWanted ==
    ASSUME NEW x \in Counts, NEW sf \in SurfTable, DOMAIN sf = {}
    PROVE  /\ WantOf(x, Nobody, sf) = x /\ Nobody \in Table(Bo)
  <1>0. Nobody \in Table(Bo) /\ \A t \in Thread, b \in Bo : Nobody[t][b] = 0
    BY DEF Nobody, Table
  <1>1. ASSUME NEW b \in Bo PROVE RefsIn(Nobody, b) = 0
    <2>1. RefsIn(Nobody, b) # 0 => \E t \in Thread : Nobody[t][b] > 0
      BY <1>0, RefsInSome
    <2> QED BY <1>0, <2>1
  <1>2. ASSUME NEW b \in Bo PROVE SurfRefsIn(sf, b) = 0
    <2> DEFINE f == [s \in DOMAIN sf |-> Times(b, sf[s].bos)]
    <2>1. f \in [{} -> Nat]
      OBVIOUS
    <2>2. SurfRefsIn(sf, b) = SumFunction(f)
      BY DEF SurfRefsIn
    <2> HIDE DEF f
    <2>3. SumFunction(f) = 0
      <3>1. SumFunction(f) # 0 => \E s \in {} : f[s] > 0
        BY <2>1, FS_EmptySet, SumPositive
      <3> QED BY <3>1
    <2> QED BY <2>2, <2>3
  <1>3. \A b \in Bo : x[b] + RefsIn(Nobody, b) + SurfRefsIn(sf, b) = x[b]
    BY <1>1, <1>2 DEF Counts
  <1>4. WantOf(x, Nobody, sf) = x
    BY <1>3 DEF WantOf, Counts
  <1> QED BY <1>0, <1>4
=============================================================================
