--------------------------- MODULE ListHeadProofs ---------------------------
(***************************************************************************)
(* What the operations of list.h preserve, for lists of any length: the    *)
(* links of a set of cells stay inverse to each other and inside the set   *)
(* when a cell from outside is inserted and when a cell is removed; and a  *)
(* walk finds the elements of a list in their order.                       *)
(*                                                                         *)
(* Induction is used through sets: a set of numbers that holds 0 and, with *)
(* a number, the next one.                                                 *)
(***************************************************************************)
EXTENDS ListHead, FiniteSetsExt, WellFoundedInduction, TLAPS

\* The heaps over the cells C.
Heaps(C) == [next : [C -> C], prev : [C -> C]]

\* list_inithead makes a ring of one cell, and leaves the others alone.
LEMMA InitHeadWellLinked ==
    ASSUME NEW C, NEW S \in SUBSET C, NEW h \in Heaps(C), WellLinked(h, S),
           NEW item \in C \ S
    PROVE  /\ ListInitHead(h, item) \in Heaps(C)
           /\ WellLinked(ListInitHead(h, item), S)
BY DEF WellLinked, ListInitHead, Heaps

\* list_addtail of a cell from outside.
LEMMA AddTailWellLinked ==
    ASSUME NEW C, NEW S \in SUBSET C, NEW h \in Heaps(C), WellLinked(h, S),
           NEW list \in S, NEW item \in C \ S
    PROVE  /\ ListAddTail(h, item, list) \in Heaps(C)
           /\ WellLinked(ListAddTail(h, item, list), S \cup {item})
BY DEF WellLinked, ListAddTail, Heaps

\* list_add of a cell from outside.
LEMMA AddWellLinked ==
    ASSUME NEW C, NEW S \in SUBSET C, NEW h \in Heaps(C), WellLinked(h, S),
           NEW list \in S, NEW item \in C \ S
    PROVE  /\ ListAdd(h, item, list) \in Heaps(C)
           /\ WellLinked(ListAdd(h, item, list), S \cup {item})
BY DEF WellLinked, ListAdd, Heaps

\* list_del of a cell that is linked: what is left is linked as before.
LEMMA DelWellLinked ==
    ASSUME NEW C, NEW S \in SUBSET C, NEW h \in Heaps(C), WellLinked(h, S),
           NEW item \in S
    PROVE  /\ ListDel(h, item) \in Heaps(C)
           /\ WellLinked(ListDel(h, item), S \ {item})
BY DEF WellLinked, ListDel, Heaps
-----------------------------------------------------------------------------
(* Induction and folds.                                                    *)

\* A set of numbers that is not empty has a smallest one.
LEMMA SmallestNat ==
    ASSUME NEW S \in SUBSET Nat, S # {}
    PROVE  \E x \in S : \A y \in S : x <= y
  <1>1. \E x \in S : \A y \in S : ~(<<y, x>> \in OpToRel(<, Nat))
    BY NatLessThanWellFounded, WFMin
  <1>2. PICK x \in S : \A y \in S : ~(y < x)
    BY <1>1 DEF OpToRel
  <1>3. ASSUME NEW y \in S PROVE x <= y
    <2>1. x \in Nat /\ y \in Nat /\ ~(y < x)
      BY <1>2
    <2> QED BY <2>1
  <1> QED BY <1>3

\* Induction over the natural numbers.
LEMMA Induct ==
    ASSUME NEW P, 0 \in P, \A n \in Nat : n \in P => n + 1 \in P
    PROVE  \A n \in Nat : n \in P
  <1> SUFFICES ASSUME NEW m \in Nat, m \notin P PROVE FALSE
    OBVIOUS
  <1> DEFINE S == {n \in Nat : n \notin P}
  <1>1. S \in SUBSET Nat /\ S # {}
    OBVIOUS
  <1>2. PICK x \in S : \A y \in S : x <= y
    <2> HIDE DEF S
    <2> QED BY <1>1, SmallestNat
  <1>3. x \in Nat /\ x # 0
    OBVIOUS
  <1>4. x - 1 \in Nat /\ (x - 1) + 1 = x /\ ~(x <= x - 1)
    BY <1>3
  <1>5. x - 1 \in P
    BY <1>2, <1>4
  <1> QED BY <1>4, <1>5

\* The largest of some numbers up to n.
LEMMA MaxOfSome ==
    ASSUME NEW n \in Nat, NEW S \in SUBSET (1 .. n), S # {}
    PROVE  Max(S) \in S /\ \A y \in S : y <= Max(S)
  <1>0. S \subseteq Int
    OBVIOUS
  <1> DEFINE T == {n - r : r \in S}
  <1>1. T \in SUBSET Nat /\ T # {}
    OBVIOUS
  <1>2. PICK x \in T : \A y \in T : x <= y
    <2> HIDE DEF T
    <2> QED BY <1>1, SmallestNat
  <1>3. PICK r \in S : x = n - r
    BY <1>2
  <1>4. ASSUME NEW y \in S PROVE r >= y
    <2>1. n - y \in T /\ y \in Int /\ r \in Int
      BY <1>0
    <2>2. n - r <= n - y
      BY <1>2, <1>3, <2>1
    <2> QED BY <2>1, <2>2
  <1>5. \E a \in S : \A y \in S : a >= y
    BY <1>4
  <1>6. Max(S) \in S /\ \A y \in S : Max(S) >= y
    BY <1>5, Zenon DEF Max
  <1> QED
    <2>1. ASSUME NEW y \in S PROVE y <= Max(S)
      <3>1. y \in Int /\ Max(S) \in Int /\ Max(S) >= y
        BY <1>0, <1>6
      <3> QED BY <3>1
    <2> QED BY <1>6, <2>1

\* The function that a fold from the left over n elements is defined by exists:
\* F takes the result so far and the place of the next element.
FoldedBy(S, n, base, F, it) ==
    /\ it \in [SUBSET (1 .. n) -> S]
    /\ \A s \in SUBSET (1 .. n) :
         it[s] = IF s = {} THEN base ELSE F[<<it[s \ {Max(s)}], Max(s)>>]

LEMMA FoldExists ==
    ASSUME NEW S, NEW n \in Nat, NEW base \in S, NEW F \in [S \X (1 .. n) -> S]
    PROVE  \E it : FoldedBy(S, n, base, F, it)
  <1> DEFINE Ok(it, m) == \A s \in SUBSET (1 .. m) :
               it[s] = IF s = {} THEN base ELSE F[<<it[s \ {Max(s)}], Max(s)>>]
             P == {m \in Nat : m <= n => \E it \in [SUBSET (1 .. m) -> S] : Ok(it, m)}
  <1>1. 0 \in P
    <2>1. [s \in SUBSET (1 .. 0) |-> base] \in [SUBSET (1 .. 0) -> S]
      OBVIOUS
    <2>2. Ok([s \in SUBSET (1 .. 0) |-> base], 0)
      OBVIOUS
    <2> QED BY <2>1, <2>2
  <1>2. ASSUME NEW m \in Nat, m \in P PROVE m + 1 \in P
    <2> HIDE DEF Ok
    <2>a. m + 1 \in Nat /\ (m + 1 <= n => m <= n)
      OBVIOUS
    <2> SUFFICES ASSUME m + 1 <= n
                 PROVE  \E it \in [SUBSET (1 .. m + 1) -> S] : Ok(it, m + 1)
      BY <2>a
    <2>1. PICK it \in [SUBSET (1 .. m) -> S] : Ok(it, m)
      BY <1>2, <2>a
    <2> USE DEF Ok
    <2> DEFINE k == m + 1
               jt == [s \in SUBSET (1 .. k) |->
                        IF k \in s THEN F[<<it[s \ {k}], k>>] ELSE it[s]]
    <2>2. ASSUME NEW s \in SUBSET (1 .. k)
          PROVE  s \ {k} \in SUBSET (1 .. m) /\ (k \notin s => s \in SUBSET (1 .. m))
      <3>1. ASSUME NEW x \in s, x # k PROVE x \in 1 .. m
        BY <3>1
      <3> QED BY <3>1
    <2>3. k \in 1 .. n
      OBVIOUS
    <2>4. jt \in [SUBSET (1 .. k) -> S]
      <3> SUFFICES ASSUME NEW s \in SUBSET (1 .. k)
                   PROVE  (IF k \in s THEN F[<<it[s \ {k}], k>>] ELSE it[s]) \in S
        OBVIOUS
      <3>1. it[s \ {k}] \in S
        BY <2>2
      <3>2. <<it[s \ {k}], k>> \in S \X (1 .. n)
        BY <2>3, <3>1
      <3> QED BY <2>2, <3>2
    <2>5. ASSUME NEW s \in SUBSET (1 .. k)
          PROVE  jt[s] = IF s = {} THEN base ELSE F[<<jt[s \ {Max(s)}], Max(s)>>]
      <3>1. CASE k \in s
        <4>1. Max(s) \in s /\ \A y \in s : y <= Max(s)
          <5>1. k \in Nat /\ s # {}
            BY <3>1
          <5> HIDE DEF k
          <5> QED BY <5>1, MaxOfSome
        <4>2. Max(s) = k
          <5>1. Max(s) \in 1 .. k /\ k <= Max(s)
            BY <3>1, <4>1
          <5> QED BY <5>1
        <4>3. s \ {k} \in SUBSET (1 .. m) /\ s \ {k} \in SUBSET (1 .. k) /\ k \notin s \ {k}
          BY <2>2
        <4>4. jt[s \ {k}] = it[s \ {k}]
          BY <4>3
        <4> QED BY <3>1, <4>2, <4>4
      <3>2. CASE k \notin s
        <4>1. s \in SUBSET (1 .. m)
          BY <2>2, <3>2
        <4>2. jt[s] = it[s]
          BY <3>2
        <4>3. jt[s \ {Max(s)}] = it[s \ {Max(s)}]
          <5>1. s \ {Max(s)} \in SUBSET (1 .. k) /\ k \notin s \ {Max(s)}
            BY <3>2
          <5> QED BY <5>1
        <4> HIDE DEF jt
        <4> QED BY <2>1, <4>1, <4>2, <4>3
      <3> QED BY <3>1, <3>2
    <2> HIDE DEF jt
    <2> QED BY <2>4, <2>5
  <1>3. \A m \in Nat : m \in P
    <2> HIDE DEF P
    <2> QED BY <1>1, <1>2, Induct
  <1>4. n \in P /\ n <= n
    <2> HIDE DEF P
    <2> QED BY <1>3
  <1> HIDE DEF Ok
  <1>5. PICK it \in [SUBSET (1 .. n) -> S] : Ok(it, n)
    BY <1>4
  <1> QED BY <1>5 DEF Ok, FoldedBy

\* The numbers up to i, as the subsets a fold from the left goes through.
LEMMA UpTo ==
    ASSUME NEW n \in Nat, NEW i \in 1 .. n
    PROVE  /\ (1 .. i) \in SUBSET (1 .. n) /\ 1 .. i # {}
           /\ Max(1 .. i) = i
           /\ (1 .. i) \ {i} = 1 .. (i - 1)
  <1>1. i \in Nat /\ i \in 1 .. i /\ (1 .. i) \in SUBSET (1 .. i) /\ 1 .. i # {}
    OBVIOUS
  <1>2. Max(1 .. i) \in 1 .. i /\ \A y \in 1 .. i : y <= Max(1 .. i)
    BY <1>1, MaxOfSome
  <1>3. Max(1 .. i) = i
    BY <1>1, <1>2
  <1>4. ASSUME NEW x PROVE x \in (1 .. i) \ {i} <=> x \in 1 .. (i - 1)
    OBVIOUS
  <1> QED BY <1>1, <1>3, <1>4
-----------------------------------------------------------------------------
(* The elements of a list, in order.                                       *)

\* The cell at place i of the list w of head, which is a ring through head.
At(w, head, i) == IF i \in 1 .. Len(w) THEN w[i] ELSE head

\* The links of the heap h make w the list of head.
Chain(h, head, w) ==
    \A i \in 0 .. Len(w) : /\ h.next[At(w, head, i)] = At(w, head, i + 1)
                           /\ h.prev[At(w, head, i + 1)] = At(w, head, i)

\* A head is empty exactly if its list is.
LEMMA ChainEmpty ==
    ASSUME NEW E, NEW h, NEW head, NEW w \in Seq(E), head \notin E, Chain(h, head, w)
    PROVE  /\ ListIsEmpty(h, head) <=> w = << >>
           /\ w # << >> => h.next[head] = w[1]
  <1>1. Len(w) \in Nat /\ 0 \in 0 .. Len(w)
    OBVIOUS
  <1>2. h.next[At(w, head, 0)] = At(w, head, 0 + 1)
    BY <1>1 DEF Chain
  <1>3. h.next[head] = At(w, head, 1)
    BY <1>1, <1>2 DEF At
  <1>4. CASE w = << >>
    BY <1>3, <1>4 DEF At, ListIsEmpty
  <1>5. CASE w # << >>
    <2>1. 1 \in 1 .. Len(w) /\ w[1] \in E
      BY <1>5
    <2> QED BY <1>3, <1>5, <2>1 DEF At, ListIsEmpty
  <1> QED BY <1>4, <1>5

\* A walk that may take as many steps as the list is long visits the list.
LEMMA WalkChain ==
    ASSUME NEW E, NEW h, NEW head, NEW w \in Seq(E), head \notin E, Chain(h, head, w),
           NEW n \in Nat, Len(w) <= n
    PROVE  ListWalk(h, head, n) = w
  <1> DEFINE W(f, k) == IF k = 0 THEN << >>
                        ELSE IF Len(f[k - 1]) < k - 1 \/
                                h.next[IF f[k - 1] = << >> THEN head
                                       ELSE f[k - 1][Len(f[k - 1])]] = head
                             THEN f[k - 1]
                             ELSE Append(f[k - 1],
                                         h.next[IF f[k - 1] = << >> THEN head
                                                ELSE f[k - 1][Len(f[k - 1])]])
             Upto(k) == IF k <= Len(w) THEN SubSeq(w, 1, k) ELSE w
             g == [k \in 0 .. n |-> Upto(k)]
  <1>1. ASSUME NEW f, f[0] = << >>, \A k \in 1 .. n : f[k] = W(f, k)
        PROVE  \A k \in 0 .. n : f[k] = Upto(k)
    <2> DEFINE P == {k \in Nat : k <= n => f[k] = Upto(k)}
    <2>1. 0 \in P
      <3>1. SubSeq(w, 1, 0) = << >> /\ 0 <= Len(w)
        OBVIOUS
      <3> QED BY <1>1, <3>1
    <2>2. ASSUME NEW k \in Nat, k \in P PROVE k + 1 \in P
      <3>0. k + 1 \in Nat /\ (k + 1 <= n => k <= n) /\ (k + 1 <= n => k + 1 \in 1 .. n)
            /\ (k + 1) - 1 = k /\ k + 1 # 0
        OBVIOUS
      <3> SUFFICES ASSUME k + 1 <= n PROVE f[k + 1] = Upto(k + 1)
        BY <3>0
      <3>1. f[k] = Upto(k)
        BY <2>2, <3>0
      <3>2. f[k + 1] = W(f, k + 1)
        BY <1>1, <3>0
      <3> DEFINE v == f[k]
                 c == IF v = << >> THEN head ELSE v[Len(v)]
      <3>3. f[k + 1] = IF Len(v) < k \/ h.next[c] = head THEN v ELSE Append(v, h.next[c])
        BY <3>0, <3>2
      <3>4. CASE k > Len(w)
        BY <3>1, <3>3, <3>4
      <3>5. CASE k = Len(w)
        <4>1. v = w
          BY <3>1, <3>5
        <4>2. c = At(w, head, k)
          BY <3>5, <4>1 DEF At
        <4>3. h.next[c] = At(w, head, k + 1)
          BY <3>5, <4>2 DEF Chain
        <4>4. At(w, head, k + 1) = head
          BY <3>5 DEF At
        <4> QED BY <3>3, <3>5, <4>1, <4>3, <4>4
      <3>6. CASE k < Len(w)
        <4>1. v = SubSeq(w, 1, k) /\ Len(v) = k /\ (k > 0 => v[k] = w[k])
          BY <3>1, <3>6
        <4>2. c = At(w, head, k)
          BY <3>6, <4>1 DEF At
        <4>3. h.next[c] = At(w, head, k + 1)
          BY <3>6, <4>2 DEF Chain
        <4>4. At(w, head, k + 1) = w[k + 1] /\ w[k + 1] \in E
          BY <3>6 DEF At
        <4>5. f[k + 1] = Append(v, w[k + 1])
          <5> HIDE DEF v, c
          <5>1. ~(Len(v) < k) /\ h.next[c] # head /\ h.next[c] = w[k + 1]
            BY <4>1, <4>3, <4>4
          <5> QED BY <3>3, <5>1
        <4>6. Append(SubSeq(w, 1, k), w[k + 1]) = SubSeq(w, 1, k + 1)
          BY <3>6
        <4> QED BY <3>6, <4>1, <4>5, <4>6
      <3> QED BY <3>4, <3>5, <3>6
    <2>3. \A k \in Nat : k \in P
      <3> HIDE DEF P
      <3> QED BY <2>1, <2>2, Induct
    <2> QED BY <2>3
  <1>2. g = [k \in 0 .. n |-> W(g, k)]
    <2> SUFFICES ASSUME NEW k \in 0 .. n PROVE Upto(k) = W(g, k)
      OBVIOUS
    <2>1. CASE k = 0
      BY <2>1
    <2> SUFFICES ASSUME k # 0 PROVE Upto(k) = W(g, k)
      BY <2>1
    <2> DEFINE v == Upto(k - 1)
               c == IF v = << >> THEN head ELSE v[Len(v)]
    <2>2. k - 1 \in 0 .. n /\ k - 1 \in Nat /\ g[k - 1] = v
      OBVIOUS
    <2>3. W(g, k) = IF Len(v) < k - 1 \/ h.next[c] = head THEN v ELSE Append(v, h.next[c])
      <3> HIDE DEF v, g
      <3> QED BY <2>2
    <2>4. CASE k - 1 > Len(w)
      <3>1. Len(w) \in Nat /\ ~(k - 1 <= Len(w)) /\ ~(k <= Len(w)) /\ Len(w) < k - 1
        BY <2>2, <2>4
      <3>2. v = w /\ Upto(k) = w
        BY <3>1
      <3> HIDE DEF v, Upto, W, g
      <3> QED BY <2>3, <3>1, <3>2
    <2>5. CASE k - 1 = Len(w)
      <3>1. v = w
        BY <2>5
      <3>2. c = At(w, head, k - 1)
        BY <2>5, <3>1 DEF At
      <3>3. h.next[c] = At(w, head, (k - 1) + 1)
        BY <2>2, <2>5, <3>2 DEF Chain
      <3>4. At(w, head, (k - 1) + 1) = head
        BY <2>5 DEF At
      <3>5. Upto(k) = w
        BY <2>5
      <3> HIDE DEF W, v, c, Upto
      <3> QED BY <2>3, <3>1, <3>3, <3>4, <3>5
    <2>6. CASE k - 1 < Len(w)
      <3>1. v = SubSeq(w, 1, k - 1) /\ Len(v) = k - 1 /\ (k - 1 > 0 => v[k - 1] = w[k - 1])
        BY <2>6
      <3>2. c = At(w, head, k - 1)
        BY <2>6, <3>1 DEF At
      <3>3. h.next[c] = At(w, head, (k - 1) + 1)
        <4>1. k - 1 \in 0 .. Len(w)
          BY <2>2, <2>6
        <4> HIDE DEF c
        <4> QED BY <3>2, <4>1 DEF Chain
      <3>4. At(w, head, (k - 1) + 1) = w[k] /\ w[k] \in E
        BY <2>6 DEF At
      <3>5. W(g, k) = Append(v, w[k])
        <4> HIDE DEF v, c, W
        <4>1. ~(Len(v) < k - 1) /\ h.next[c] # head /\ h.next[c] = w[k]
          BY <3>1, <3>3, <3>4
        <4> QED BY <2>3, <4>1
      <3>6. Append(SubSeq(w, 1, k - 1), w[k]) = SubSeq(w, 1, k)
        BY <2>6
      <3>7. Upto(k) = SubSeq(w, 1, k)
        BY <2>6
      <3> HIDE DEF W, v, Upto
      <3> QED BY <3>1, <3>5, <3>6, <3>7
    <2>7. k - 1 > Len(w) \/ k - 1 = Len(w) \/ k - 1 < Len(w)
      OBVIOUS
    <2> HIDE DEF W, Upto
    <2> QED BY <2>4, <2>5, <2>6, <2>7
  <1> HIDE DEF g
  <1>3. PICK f : f = [k \in 0 .. n |-> W(f, k)] /\ ListWalk(h, head, n) = f[n]
    BY <1>2 DEF ListWalk
  <1>4. f[0] = << >> /\ \A k \in 1 .. n : f[k] = W(f, k)
    <2>1. W(f, 0) = << >> /\ 0 \in 0 .. n /\ \A k \in 1 .. n : k \in 0 .. n
      OBVIOUS
    <2> HIDE DEF W
    <2> QED BY <1>3, <2>1
  <1> HIDE DEF W, Upto
  <1>5. f[n] = Upto(n)
    BY <1>1, <1>4
  <1> QED BY <1>3, <1>5 DEF Upto

\* The element n is on one of the lists L of the heads H.
OnList(H, L, n) == \E a \in H : \E i \in 1 .. Len(L[a]) : L[a][i] = n

\* The heap h links the lists L of the heads H, of elements from E: every list
\* is a ring through its head, and no element is on the lists twice.
Linked(h, H, E, L) ==
    /\ \A a \in H : L[a] \in Seq(E) /\ Chain(h, a, L[a])
    /\ \A a, b \in H : \A i \in 1 .. Len(L[a]), j \in 1 .. Len(L[b]) :
         L[a][i] = L[b][j] => a = b /\ i = j

\* The cells of linked lists are told apart by list and place.
LEMMA CellsApart ==
    ASSUME NEW H, NEW E, H \cap E = {}, NEW h, NEW L, Linked(h, H, E, L),
           NEW a \in H, NEW b \in H,
           NEW i \in 0 .. Len(L[a]), NEW j \in 0 .. Len(L[b]),
           At(L[a], a, i) = At(L[b], b, j)
    PROVE  a = b /\ i = j
  <1>1. L[a] \in Seq(E) /\ L[b] \in Seq(E)
    BY DEF Linked
  <1>2. /\ i # 0 => i \in 1 .. Len(L[a]) /\ L[a][i] \in E
        /\ j # 0 => j \in 1 .. Len(L[b]) /\ L[b][j] \in E
    BY <1>1
  <1>3. CASE i = 0 /\ j = 0
    BY <1>1, <1>3 DEF At
  <1>4. CASE i = 0 /\ j # 0
    <2>1. At(L[a], a, i) \in H /\ At(L[b], b, j) \in E
      BY <1>1, <1>2, <1>4 DEF At
    <2> QED BY <2>1
  <1>5. CASE i # 0 /\ j = 0
    <2>1. At(L[a], a, i) \in E /\ At(L[b], b, j) \in H
      BY <1>1, <1>2, <1>5 DEF At
    <2> QED BY <2>1
  <1>6. CASE i # 0 /\ j # 0
    <2>1. L[a][i] = L[b][j]
      BY <1>2, <1>6 DEF At
    <2> QED BY <1>2, <1>6, <2>1 DEF Linked
  <1> QED BY <1>3, <1>4, <1>5, <1>6

\* Around the ring of one of the lists.
LEMMA ChainLinks ==
    ASSUME NEW H, NEW E, NEW h, NEW L, Linked(h, H, E, L), NEW a \in H
    PROVE  /\ Len(L[a]) \in Nat
           /\ At(L[a], a, 0) = a /\ At(L[a], a, Len(L[a]) + 1) = a
           /\ \A i \in 1 .. Len(L[a]) : At(L[a], a, i) = L[a][i] /\ L[a][i] \in E
           /\ \A i \in 0 .. Len(L[a]) : At(L[a], a, i) \in H \cup E
           /\ h.next[a] = At(L[a], a, 1)
           /\ h.prev[a] = At(L[a], a, Len(L[a]))
  <1>1. L[a] \in Seq(E) /\ Len(L[a]) \in Nat
    BY DEF Linked
  <1>2. /\ At(L[a], a, 0) = a /\ At(L[a], a, Len(L[a]) + 1) = a
        /\ \A i \in 1 .. Len(L[a]) : At(L[a], a, i) = L[a][i] /\ L[a][i] \in E
    BY <1>1 DEF At
  <1>3. ASSUME NEW i \in 0 .. Len(L[a]) PROVE At(L[a], a, i) \in H \cup E
    BY <1>1, <1>2
  <1>4. 0 \in 0 .. Len(L[a]) /\ Len(L[a]) \in 0 .. Len(L[a]) /\ 0 + 1 = 1
    BY <1>1
  <1>5. /\ h.next[At(L[a], a, 0)] = At(L[a], a, 0 + 1)
        /\ h.prev[At(L[a], a, Len(L[a]) + 1)] = At(L[a], a, Len(L[a]))
    BY <1>4 DEF Linked, Chain
  <1> QED BY <1>1, <1>2, <1>3, <1>4, <1>5

\* list_addtail puts an element that is on no list at the end of one.
LEMMA LinkedAddTail ==
    ASSUME NEW H, NEW E, H \cap E = {}, NEW h \in Heaps(H \cup E), NEW L \in [H -> Seq(E)],
           Linked(h, H, E, L), NEW a \in H, NEW n \in E, ~OnList(H, L, n)
    PROVE  Linked(ListAddTail(h, n, a), H, E, [L EXCEPT ![a] = Append(@, n)])
  <1> DEFINE w == L[a]
             M == [L EXCEPT ![a] = Append(@, n)]
             k == Len(w)
             last == At(w, a, k)
             g == ListAddTail(h, n, a)
  <1>0. /\ k \in Nat /\ w \in Seq(E) /\ last \in H \cup E /\ h.prev[a] = last
        /\ M \in [H -> Seq(E)] /\ M[a] = Append(w, n)
        /\ \A b \in H : b # a => M[b] = L[b]
        /\ k \in 0 .. k
    BY ChainLinks
  <1>a. \A b, c \in H : \A i \in 0 .. Len(L[b]), j \in 0 .. Len(L[c]) :
          At(L[b], b, i) = At(L[c], c, j) => b = c /\ i = j
    <2> HIDE DEF w, M, k, last, g
    <2> QED BY CellsApart
  <1>1. ASSUME NEW b \in H, NEW i \in 0 .. Len(L[b]) PROVE At(L[b], b, i) # n
    <2>1. CASE i = 0
      BY <2>1 DEF At
    <2>2. CASE i # 0
      <3>1. Len(L[b]) \in Nat /\ i \in 1 .. Len(L[b])
        BY <2>2
      <3> QED BY <3>1 DEF At, OnList
    <2> QED BY <2>1, <2>2
  <1>2. last # n
    BY <1>0, <1>1
  <1>3. /\ g.next[n] = a /\ g.next[last] = n
        /\ \A c \in H \cup E : c # n /\ c # last => g.next[c] = h.next[c]
        /\ g.prev[n] = last /\ g.prev[a] = n
        /\ \A c \in H \cup E : c # n /\ c # a => g.prev[c] = h.prev[c]
    <2>1. a # n /\ a \in H \cup E /\ n \in H \cup E
      OBVIOUS
    <2> HIDE DEF last, M, k, w
    <2> QED BY <1>0, <1>2, <2>1 DEF ListAddTail, Heaps
  <1>4. ASSUME NEW b \in H, b # a PROVE Chain(g, b, L[b])
    <2>0. Len(L[b]) \in Nat /\ Chain(h, b, L[b]) /\ At(L[b], b, Len(L[b]) + 1) = b
          /\ At(L[b], b, 0) = b
      <3>1. Chain(h, b, L[b])
        BY DEF Linked
      <3> QED BY <3>1, ChainLinks
    <2> SUFFICES ASSUME NEW i \in 0 .. Len(L[b])
                 PROVE  /\ g.next[At(L[b], b, i)] = At(L[b], b, i + 1)
                        /\ g.prev[At(L[b], b, i + 1)] = At(L[b], b, i)
      BY DEF Chain
    <2>1. /\ h.next[At(L[b], b, i)] = At(L[b], b, i + 1)
          /\ h.prev[At(L[b], b, i + 1)] = At(L[b], b, i)
      BY <2>0 DEF Chain
    <2>2. PICK j \in 0 .. Len(L[b]) : At(L[b], b, i + 1) = At(L[b], b, j)
      <3>1. CASE i + 1 <= Len(L[b])
        BY <2>0, <3>1
      <3>2. CASE i = Len(L[b])
        BY <2>0, <3>2
      <3> QED BY <2>0, <3>1, <3>2
    <2>3. At(L[b], b, i) # last /\ At(L[b], b, j) # a
      <3>1. At(w, a, 0) = a /\ 0 \in 0 .. k
        BY <1>0, ChainLinks
      <3>2. Len(L[a]) \in 0 .. Len(L[a]) /\ 0 \in 0 .. Len(L[a])
        BY <1>0, <3>1
      <3>3. At(L[b], b, i) # At(L[a], a, Len(L[a])) /\ At(L[b], b, j) # At(L[a], a, 0)
        BY <1>a, <1>4, <3>2
      <3> QED BY <3>1, <3>3
    <2>4. /\ At(L[b], b, i) \in H \cup E /\ At(L[b], b, j) \in H \cup E
          /\ At(L[b], b, i) # n /\ At(L[b], b, j) # n
      BY <1>1, ChainLinks
    <2> HIDE DEF last, g
    <2> QED BY <1>3, <2>1, <2>2, <2>3, <2>4
  <1>5. Chain(g, a, Append(w, n))
    <2> DEFINE v == Append(w, n)
    <2>0. /\ Len(v) = k + 1 /\ Chain(h, a, w)
          /\ At(v, a, 0) = a /\ At(v, a, k + 1) = n /\ At(v, a, k + 2) = a
          /\ \A i \in 0 .. k : At(v, a, i) = At(w, a, i)
      BY <1>0 DEF At, Linked
    <2> SUFFICES ASSUME NEW i \in 0 .. k + 1
                 PROVE  /\ g.next[At(v, a, i)] = At(v, a, i + 1)
                        /\ g.prev[At(v, a, i + 1)] = At(v, a, i)
      BY <2>0 DEF Chain
    <2>1. CASE i = k + 1
      <3>1. i + 1 = k + 2
        BY <2>1
      <3> HIDE DEF v, g
      <3> QED BY <1>3, <2>0, <2>1, <3>1
    <2>2. CASE i = k
      <3>1. i \in 0 .. k
        BY <2>2
      <3> HIDE DEF v, g
      <3> QED BY <1>3, <2>0, <2>2, <3>1
    <2>3. CASE i < k
      <3>1. i \in 0 .. k /\ i + 1 \in 0 .. k /\ i + 1 # 0 /\ i # k
        BY <1>0, <2>3
      <3>2. At(v, a, i) = At(w, a, i) /\ At(v, a, i + 1) = At(w, a, i + 1)
        BY <2>0, <3>1
      <3>3. /\ h.next[At(w, a, i)] = At(w, a, i + 1)
            /\ h.prev[At(w, a, i + 1)] = At(w, a, i)
        BY <2>0, <3>1 DEF Chain
      <3>4. At(w, a, i) # last
        <4>1. i \in 0 .. Len(L[a]) /\ Len(L[a]) \in 0 .. Len(L[a]) /\ i # Len(L[a])
          BY <1>0, <3>1
        <4>2. At(L[a], a, i) # At(L[a], a, Len(L[a]))
          BY <1>a, <4>1
        <4> QED BY <4>2
      <3>5. At(w, a, i + 1) # a
        <4>1. At(w, a, 0) = a /\ 0 \in 0 .. k
          BY <1>0, ChainLinks
        <4> QED BY <1>a, <1>0, <3>1, <4>1
      <3>6. /\ At(w, a, i) \in H \cup E /\ At(w, a, i + 1) \in H \cup E
            /\ At(w, a, i) # n /\ At(w, a, i + 1) # n
        BY <1>1, <3>1, ChainLinks
      <3> HIDE DEF v, g, last
      <3> QED BY <1>3, <3>2, <3>3, <3>4, <3>5, <3>6
    <2> QED BY <1>0, <2>1, <2>2, <2>3
  <1>6. ASSUME NEW b \in H, NEW c \in H, NEW i \in 1 .. Len(M[b]), NEW j \in 1 .. Len(M[c]),
               M[b][i] = M[c][j]
        PROVE  b = c /\ i = j
    <2>1. ASSUME NEW d \in H, NEW x \in 1 .. Len(M[d])
          PROVE  \/ d = a /\ x = k + 1 /\ M[d][x] = n
                 \/ x \in 1 .. Len(L[d]) /\ M[d][x] = L[d][x] /\ M[d][x] # n
      <3>1. CASE d # a
        BY <1>0, <3>1 DEF OnList
      <3>2. CASE d = a
        <4>1. Len(M[d]) = k + 1 /\ (x = k + 1 => M[d][x] = n)
              /\ (x # k + 1 => x \in 1 .. k /\ M[d][x] = w[x])
          BY <1>0, <3>2
        <4> QED BY <3>2, <4>1 DEF OnList
      <3> QED BY <3>1, <3>2
    <2> HIDE DEF M
    <2> QED BY <1>6, <2>1 DEF Linked
  <1>7. ASSUME NEW b \in H PROVE M[b] \in Seq(E) /\ Chain(g, b, M[b])
    <2> HIDE DEF g
    <2> QED BY <1>0, <1>4, <1>5
  <1> HIDE DEF M, g
  <1>8. Linked(g, H, E, M)
    BY <1>6, <1>7 DEF Linked
  <1> QED BY <1>8 DEF M, g

\* list_del takes the first element off its list.
LEMMA LinkedDelFirst ==
    ASSUME NEW H, NEW E, H \cap E = {}, NEW h \in Heaps(H \cup E), NEW L \in [H -> Seq(E)],
           Linked(h, H, E, L), NEW a \in H, L[a] # << >>
    PROVE  Linked(ListDel(h, L[a][1]), H, E, [L EXCEPT ![a] = Tail(@)])
  <1> DEFINE w == L[a]
             M == [L EXCEPT ![a] = Tail(@)]
             k == Len(w)
             n == w[1]
             c2 == At(w, a, 2)
             g == ListDel(h, n)
  <1>0. /\ k \in Nat /\ k >= 1 /\ w \in Seq(E) /\ n = At(w, a, 1) /\ n \in E
        /\ M \in [H -> Seq(E)] /\ M[a] = Tail(w)
        /\ \A b \in H : b # a => M[b] = L[b]
        /\ At(w, a, 0) = a /\ At(w, a, k + 1) = a /\ 0 \in 0 .. k /\ 1 \in 0 .. k
    BY DEF At
  <1>a. \A b, c \in H : \A i \in 0 .. Len(L[b]), j \in 0 .. Len(L[c]) :
          At(L[b], b, i) = At(L[c], c, j) => b = c /\ i = j
    <2> HIDE DEF w, M, k, n, c2, g
    <2> QED BY CellsApart
  <1>b. \A b \in H : \A i \in 0 .. Len(L[b]) : At(L[b], b, i) \in H \cup E
    <2> HIDE DEF w, M, k, n, c2, g
    <2> QED BY ChainLinks
  <1>c. /\ Chain(h, a, w)
        /\ h.prev[n] = a /\ h.next[n] = c2
    <2>1. Chain(h, a, w)
      BY DEF Linked
    <2>2. /\ h.prev[At(w, a, 0 + 1)] = At(w, a, 0)
          /\ h.next[At(w, a, 1)] = At(w, a, 1 + 1)
      <3> HIDE DEF w, M, n, c2, g
      <3> QED BY <1>0, <2>1 DEF Chain
    <2> QED BY <1>0, <2>1, <2>2
  <1>d. PICK j2 \in 0 .. k : c2 = At(w, a, j2) /\ (k >= 2 => j2 = 2) /\ (k = 1 => j2 = 0)
    <2>1. CASE k >= 2
      <3> HIDE DEF k
      <3>1. 2 \in 0 .. k /\ k # 1
        BY <1>0, <2>1
      <3> QED BY <3>1
    <2>2. CASE k = 1
      BY <2>2, <1>0
    <2> QED BY <1>0, <2>1, <2>2
  <1>3. /\ g.next[a] = c2
        /\ \A c \in H \cup E : c # a => g.next[c] = h.next[c]
        /\ g.prev[c2] = a
        /\ \A c \in H \cup E : c # c2 => g.prev[c] = h.prev[c]
    <2>1. a \in H \cup E /\ c2 \in H \cup E
      BY <1>b, <1>d
    <2> HIDE DEF c2, M, k, w, n
    <2> QED BY <1>c, <2>1 DEF ListDel, Heaps
  <1>4. ASSUME NEW b \in H, b # a PROVE Chain(g, b, L[b])
    <2>0. Len(L[b]) \in Nat /\ Chain(h, b, L[b]) /\ At(L[b], b, Len(L[b]) + 1) = b
          /\ At(L[b], b, 0) = b
      <3>1. Chain(h, b, L[b])
        BY DEF Linked
      <3> QED BY <3>1, ChainLinks
    <2> SUFFICES ASSUME NEW i \in 0 .. Len(L[b])
                 PROVE  /\ g.next[At(L[b], b, i)] = At(L[b], b, i + 1)
                        /\ g.prev[At(L[b], b, i + 1)] = At(L[b], b, i)
      BY DEF Chain
    <2>1. /\ h.next[At(L[b], b, i)] = At(L[b], b, i + 1)
          /\ h.prev[At(L[b], b, i + 1)] = At(L[b], b, i)
      BY <2>0 DEF Chain
    <2>2. PICK j \in 0 .. Len(L[b]) : At(L[b], b, i + 1) = At(L[b], b, j)
      <3>1. CASE i + 1 <= Len(L[b])
        BY <2>0, <3>1
      <3>2. CASE i = Len(L[b])
        BY <2>0, <3>2
      <3> QED BY <2>0, <3>1, <3>2
    <2>3. At(L[b], b, i) # a /\ At(L[b], b, j) # c2
      <3> HIDE DEF c2
      <3> QED BY <1>0, <1>a, <1>d, <1>4
    <2>4. At(L[b], b, i) \in H \cup E /\ At(L[b], b, j) \in H \cup E
      BY <1>b
    <2> HIDE DEF c2, g
    <2> QED BY <1>3, <2>1, <2>2, <2>3, <2>4
  <1>5. Chain(g, a, Tail(w))
    <2> DEFINE v == Tail(w)
    <2>0. /\ Len(v) = k - 1
          /\ At(v, a, 0) = a
          /\ \A i \in 1 .. k : At(v, a, i) = At(w, a, i + 1)
      <3>1. v \in Seq(E) /\ Len(v) = k - 1 /\ \A i \in 1 .. k - 1 : v[i] = w[i + 1]
        BY <1>0
      <3>2. At(v, a, 0) = a /\ At(v, a, k) = a
        BY <1>0, <3>1 DEF At
      <3>3. ASSUME NEW i \in 1 .. k - 1 PROVE At(v, a, i) = At(w, a, i + 1)
        <4>1. i \in 1 .. Len(v) /\ i + 1 \in 1 .. Len(w)
          BY <1>0, <3>1
        <4> HIDE DEF v
        <4> QED BY <3>1, <4>1 DEF At
      <3> HIDE DEF v, w
      <3>4. ASSUME NEW i \in 1 .. k PROVE At(v, a, i) = At(w, a, i + 1)
        <4>1. i = k \/ i \in 1 .. k - 1
          BY <1>0
        <4> QED BY <1>0, <3>2, <3>3, <4>1
      <3> QED BY <3>1, <3>2, <3>4
    <2> SUFFICES ASSUME NEW i \in 0 .. k - 1
                 PROVE  /\ g.next[At(v, a, i)] = At(v, a, i + 1)
                        /\ g.prev[At(v, a, i + 1)] = At(v, a, i)
      BY <2>0 DEF Chain
    <2>1. CASE i = 0
      <3>1. At(v, a, i + 1) = c2
        <4>1. 1 \in 1 .. k
          BY <1>0
        <4> HIDE DEF v
        <4> QED BY <2>0, <2>1, <4>1
      <3> HIDE DEF v, g, c2
      <3> QED BY <1>3, <2>0, <2>1, <3>1
    <2>2. CASE i # 0
      <3>1. /\ i \in 1 .. k /\ i + 1 \in 1 .. k /\ i + 1 \in 0 .. k /\ i + 1 # 0
            /\ (i + 1) + 1 = i + 2
        BY <1>0, <2>2
      <3>2. At(v, a, i) = At(w, a, i + 1) /\ At(v, a, i + 1) = At(w, a, i + 2)
        <4> HIDE DEF v, w, k
        <4> QED BY <2>0, <3>1
      <3>3. /\ h.next[At(w, a, i + 1)] = At(w, a, i + 2)
            /\ h.prev[At(w, a, i + 2)] = At(w, a, i + 1)
        <4> HIDE DEF w
        <4> QED BY <1>c, <3>1 DEF Chain
      <3>4. At(w, a, i + 1) # a
        BY <1>0, <1>a, <3>1
      <3>5. PICK j \in 0 .. k : At(w, a, i + 2) = At(w, a, j) /\ j # j2
        <4>1. CASE i + 2 <= k
          <5>1. i + 2 \in 0 .. k /\ i + 2 # j2
            BY <1>0, <1>d, <2>2, <4>1
          <5> QED BY <5>1
        <4>2. CASE i + 2 = k + 1
          <5>1. 0 # j2 /\ At(w, a, i + 2) = At(w, a, 0)
            BY <1>0, <1>d, <2>2, <4>2
          <5> QED BY <1>0, <5>1
        <4> QED BY <1>0, <4>1, <4>2
      <3>6. At(w, a, i + 2) # c2
        <4> HIDE DEF c2
        <4> QED BY <1>a, <1>d, <3>5
      <3>7. At(w, a, i + 1) \in H \cup E /\ At(w, a, i + 2) \in H \cup E
        BY <1>b, <3>1, <3>5
      <3> HIDE DEF v, g, c2
      <3> QED BY <1>3, <3>2, <3>3, <3>4, <3>6, <3>7
    <2> QED BY <2>1, <2>2
  <1>6. ASSUME NEW b \in H, NEW c \in H, NEW i \in 1 .. Len(M[b]), NEW j \in 1 .. Len(M[c]),
               M[b][i] = M[c][j]
        PROVE  b = c /\ i = j
    <2>1. ASSUME NEW d \in H, NEW x \in 1 .. Len(M[d])
          PROVE  \/ d # a /\ x \in 1 .. Len(L[d]) /\ M[d][x] = L[d][x]
                 \/ d = a /\ x \in Nat /\ x + 1 \in 1 .. Len(L[d]) /\ M[d][x] = L[d][x + 1]
      <3>1. CASE d # a
        BY <1>0, <3>1
      <3>2. CASE d = a
        <4>1. Len(M[d]) = k - 1 /\ M[d][x] = w[x + 1]
          BY <1>0, <3>2
        <4> QED BY <1>0, <3>2, <4>1
      <3> QED BY <3>1, <3>2
    <2>2. \A b1, b2 \in H : \A i1 \in 1 .. Len(L[b1]), i2 \in 1 .. Len(L[b2]) :
            L[b1][i1] = L[b2][i2] => b1 = b2 /\ i1 = i2
      BY DEF Linked
    <2> HIDE DEF M
    <2> QED BY <1>6, <2>1, <2>2
  <1>7. ASSUME NEW b \in H PROVE M[b] \in Seq(E) /\ Chain(g, b, M[b])
    <2> HIDE DEF g
    <2> QED BY <1>0, <1>4, <1>5
  <1> HIDE DEF M, g
  <1>8. Linked(g, H, E, M)
    BY <1>6, <1>7 DEF Linked
  <1> QED BY <1>8 DEF M, g

\* The heads and the listed elements form proper rings.
LEMMA LinkedWellLinked ==
    ASSUME NEW H, NEW E, H \cap E = {}, NEW h, NEW L, Linked(h, H, E, L)
    PROVE  WellLinked(h, H \cup {n \in E : OnList(H, L, n)})
  <1> DEFINE S == H \cup {n \in E : OnList(H, L, n)}
  <1>1. ASSUME NEW a \in H, NEW i \in 0 .. Len(L[a]) + 1 PROVE At(L[a], a, i) \in S
    <2>1. Len(L[a]) \in Nat /\ \A j \in 1 .. Len(L[a]) : At(L[a], a, j) = L[a][j] /\ L[a][j] \in E
      BY ChainLinks
    <2>2. CASE i \in 1 .. Len(L[a])
      BY <2>1, <2>2 DEF OnList
    <2>3. CASE i \notin 1 .. Len(L[a])
      BY <2>3 DEF At
    <2> QED BY <2>2, <2>3
  <1>2. ASSUME NEW c \in S
        PROVE  \E a \in H : \E i \in 0 .. Len(L[a]) : c = At(L[a], a, i)
    <2>1. CASE c \in H
      <3>1. Len(L[c]) \in Nat /\ At(L[c], c, 0) = c /\ 0 \in 0 .. Len(L[c])
        BY <2>1, ChainLinks
      <3> QED BY <2>1, <3>1
    <2>2. CASE c \in E /\ OnList(H, L, c)
      <3>1. PICK a \in H : \E i \in 1 .. Len(L[a]) : L[a][i] = c
        BY <2>2 DEF OnList
      <3>2. PICK i \in 1 .. Len(L[a]) : L[a][i] = c
        BY <3>1
      <3>3. Len(L[a]) \in Nat /\ At(L[a], a, i) = c
        BY <3>2, ChainLinks
      <3> QED BY <3>3
    <2> QED BY <2>1, <2>2
  <1> HIDE DEF S
  <1>3. ASSUME NEW c \in S
        PROVE  /\ h.next[c] \in S /\ h.prev[c] \in S
               /\ h.prev[h.next[c]] = c /\ h.next[h.prev[c]] = c
    <2>1. PICK a \in H : \E i \in 0 .. Len(L[a]) : c = At(L[a], a, i)
      BY <1>2
    <2>2. PICK i \in 0 .. Len(L[a]) : c = At(L[a], a, i)
      BY <2>1
    <2>3. /\ Len(L[a]) \in Nat /\ Chain(h, a, L[a])
          /\ At(L[a], a, 0) = a /\ At(L[a], a, Len(L[a]) + 1) = a
      <3>1. Chain(h, a, L[a])
        BY DEF Linked
      <3> QED BY <3>1, ChainLinks
    <2>4. h.next[c] = At(L[a], a, i + 1) /\ h.prev[At(L[a], a, i + 1)] = c
      BY <2>2, <2>3 DEF Chain
    <2>5. PICK j \in 0 .. Len(L[a]) : c = At(L[a], a, j + 1)
      <3>1. CASE i = 0
        BY <2>2, <2>3, <3>1
      <3>2. CASE i # 0
        <4>1. i - 1 \in 0 .. Len(L[a]) /\ (i - 1) + 1 = i
          BY <2>3, <3>2
        <4> QED BY <2>2, <4>1
      <3> QED BY <3>1, <3>2
    <2>6. h.prev[c] = At(L[a], a, j) /\ h.next[At(L[a], a, j)] = c
      BY <2>3, <2>5 DEF Chain
    <2>7. i + 1 \in 0 .. Len(L[a]) + 1 /\ j \in 0 .. Len(L[a]) + 1
      BY <2>3
    <2> QED BY <1>1, <2>4, <2>6, <2>7
  <1>4. WellLinked(h, S)
    BY <1>3 DEF WellLinked
  <1> QED BY <1>4 DEF S

\* Writing the links of an element that is on no list changes no list.
LEMMA LinkedInitOther ==
    ASSUME NEW H, NEW E, H \cap E = {}, NEW h \in Heaps(H \cup E), NEW L,
           Linked(h, H, E, L), NEW n \in E, ~OnList(H, L, n)
    PROVE  Linked(ListInitHead(h, n), H, E, L)
  <1> DEFINE g == ListInitHead(h, n)
  <1>1. \A c \in H \cup E : c # n => g.next[c] = h.next[c] /\ g.prev[c] = h.prev[c]
    BY DEF ListInitHead, Heaps
  <1> HIDE DEF g
  <1>2. ASSUME NEW a \in H PROVE Chain(g, a, L[a])
    <2>1. ASSUME NEW i \in 0 .. Len(L[a]) + 1 PROVE At(L[a], a, i) \in (H \cup E) \ {n}
      <3>1. CASE i \in 1 .. Len(L[a])
        <4>1. L[a][i] \in E /\ L[a][i] # n
          BY <3>1 DEF Linked, OnList
        <4> QED BY <3>1, <4>1 DEF At
      <3>2. CASE i \notin 1 .. Len(L[a])
        BY <3>2 DEF At
      <3> QED BY <3>1, <3>2
    <2>2. Len(L[a]) \in Nat /\ Chain(h, a, L[a])
      BY DEF Linked
    <2>3. ASSUME NEW i \in 0 .. Len(L[a])
          PROVE  /\ g.next[At(L[a], a, i)] = At(L[a], a, i + 1)
                 /\ g.prev[At(L[a], a, i + 1)] = At(L[a], a, i)
      <3>1. i \in 0 .. Len(L[a]) + 1 /\ i + 1 \in 0 .. Len(L[a]) + 1
        BY <2>2
      <3>2. /\ h.next[At(L[a], a, i)] = At(L[a], a, i + 1)
            /\ h.prev[At(L[a], a, i + 1)] = At(L[a], a, i)
        BY <2>2 DEF Chain
      <3> QED BY <1>1, <2>1, <3>1, <3>2
    <2> QED BY <2>3 DEF Chain
  <1>3. Linked(g, H, E, L)
    BY <1>2 DEF Linked
  <1> QED BY <1>3 DEF g

\* Heads that point to themselves have empty lists.
LEMMA LinkedEmpty ==
    ASSUME NEW H, NEW E, NEW h, \A a \in H : h.next[a] = a /\ h.prev[a] = a
    PROVE  Linked(h, H, E, [a \in H |-> << >>])
  <1> DEFINE L == [a \in H |-> << >>]
  <1>1. << >> \in Seq(E) /\ Len(<< >>) = 0
    OBVIOUS
  <1>2. ASSUME NEW a \in H PROVE Chain(h, a, << >>)
    BY <1>1 DEF Chain, At
  <1> QED BY <1>1, <1>2 DEF Linked
=============================================================================
