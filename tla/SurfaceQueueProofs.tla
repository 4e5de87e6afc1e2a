------------------------- MODULE SurfaceQueueProofs -------------------------
(***************************************************************************)
(* The surface queue of SurfaceQueue.tla, proved for any number of         *)
(* surfaces and any size, and at the end its callback lists, NotifyList.   *)
(***************************************************************************)
EXTENDS SurfaceQueue, NotifyList, ListHeadProofs, FiniteSetTheorems

\* The queue records.
Queue ==
    [impl : {"default", "sequence"}, queue_size : Nat, num_attached : Int,
     alloc_cb : BOOLEAN, heap : Heaps(Cells), list : Seq(Surface),
     type : [Surface -> NodeTypes], priv_flags : [Surface -> {0, 1}],
     uaf : BOOLEAN]

\* The surfaces in a sequence are there once.
Once(s) == \A i, j \in 1 .. Len(s) : s[i] = s[j] => i = j

\* The contents of the three lists.
Lines == [Heads -> Seq(Surface)]

\* The lists after a push at the end and after a pop of the first node.
Put(L, a, n) == [L EXCEPT ![a] = Append(@, n)]
Take(L, a) == [L EXCEPT ![a] = Tail(@)]

\* No cell leads to the dequeue_list of a default queue, which has none.
Unused(h) ==
    \A c \in Cells \ {"dequeue_list"} :
      h.next[c] # "dequeue_list" /\ h.prev[c] # "dequeue_list"

\* The queue u is sound and its lists are L.
QueueOK(u, L) ==
    /\ u \in Queue /\ L \in Lines
    /\ Linked(u.heap, Heads, Surface, L)
    /\ \A n \in Surface : OnList(Heads, L, n) => n \in Nodes(u)
    /\ ~IsSequence(u) => L["dequeue_list"] = << >> /\ Unused(u.heap)
    /\ Once(u.list) /\ u.num_attached = Len(u.list)
    /\ \A n \in Surface \ Nodes(u) : u.type[n] = "NONE"

\* What list operations leave alone.
SameNodes(u, v) ==
    /\ v.impl = u.impl /\ v.queue_size = u.queue_size
    /\ v.num_attached = u.num_attached /\ v.alloc_cb = u.alloc_cb
    /\ v.list = u.list /\ v.type = u.type /\ v.priv_flags = u.priv_flags
-----------------------------------------------------------------------------
(* Sequences as sets.                                                      *)

LEMMA ToSetFacts ==
    ASSUME NEW E, NEW w \in Seq(E)
    PROVE  /\ \A x : x \in ToSet(w) <=> \E i \in 1 .. Len(w) : w[i] = x
           /\ ToSet(w) \subseteq E
           /\ ToSet(w) = {} <=> w = << >>
           /\ \A x \in E : ToSet(Append(w, x)) = ToSet(w) \cup {x}
           /\ w # << >> => w[1] \in ToSet(w)
  <1>1. \A x : x \in ToSet(w) <=> \E i \in 1 .. Len(w) : w[i] = x
    BY DEF ToSet
  <1>2. ToSet(w) \subseteq E
    BY <1>1
  <1>3. ToSet(w) = {} <=> w = << >>
    <2>1. CASE w = << >>
      BY <1>1, <2>1
    <2>2. CASE w # << >>
      <3>1. 1 \in 1 .. Len(w)
        BY <2>2
      <3> QED BY <1>1, <2>2, <3>1
    <2> QED BY <2>1, <2>2
  <1>4. ASSUME NEW x \in E PROVE ToSet(Append(w, x)) = ToSet(w) \cup {x}
    <2>1. DOMAIN Append(w, x) = 1 .. Len(w) + 1 /\ DOMAIN w = 1 .. Len(w) /\ Len(w) \in Nat
          /\ Append(w, x)[Len(w) + 1] = x
          /\ \A i \in 1 .. Len(w) : Append(w, x)[i] = w[i]
      OBVIOUS
    <2>2. \A i : i \in 1 .. Len(w) + 1 <=> i \in 1 .. Len(w) \/ i = Len(w) + 1
      BY <2>1
    <2> QED BY <2>1, <2>2, Zenon DEF ToSet
  <1>5. ASSUME w # << >> PROVE w[1] \in ToSet(w)
    <2>1. 1 \in 1 .. Len(w)
      BY <1>5
    <2> QED BY <1>1, <2>1
  <1> QED BY <1>1, <1>2, <1>3, <1>4, <1>5

LEMMA AppendConcat ==
    ASSUME NEW a \in Seq(Surface), NEW b \in Seq(Surface), NEW x \in Surface
    PROVE  Append(a \o b, x) = a \o Append(b, x)
  <1> DEFINE l == Append(a \o b, x)
             r == a \o Append(b, x)
  <1>1. /\ a \o b \in Seq(Surface) /\ Append(b, x) \in Seq(Surface) /\ l \in Seq(Surface) /\ r \in Seq(Surface)
        /\ Len(a) \in Nat /\ Len(b) \in Nat
        /\ Len(l) = Len(a) + Len(b) + 1 /\ Len(r) = Len(a) + Len(b) + 1
    OBVIOUS
  <1>2. ASSUME NEW i \in 1 .. Len(l) PROVE l[i] = r[i]
    <2>1. CASE i <= Len(a)
      BY <1>1, <2>1
    <2>2. CASE i > Len(a) /\ i <= Len(a) + Len(b)
      BY <1>1, <2>2
    <2>3. CASE i = Len(a) + Len(b) + 1
      BY <1>1, <2>3
    <2> QED BY <1>1, <2>1, <2>2, <2>3
  <1> HIDE DEF l, r
  <1>3. l = r
    BY <1>1, <1>2
  <1> QED BY <1>3 DEF l, r

LEMMA TailConcat ==
    ASSUME NEW a \in Seq(Surface), NEW b \in Seq(Surface), a # << >>
    PROVE  /\ Tail(a \o b) = Tail(a) \o b
           /\ a \o b # << >> /\ (a \o b)[1] = a[1]
  <1> DEFINE l == Tail(a \o b)
             r == Tail(a) \o b
  <1>1. /\ a \o b \in Seq(Surface) /\ Tail(a) \in Seq(Surface)
        /\ Len(a) \in Nat /\ Len(a) >= 1 /\ Len(b) \in Nat
        /\ Len(a \o b) = Len(a) + Len(b) /\ Len(Tail(a)) = Len(a) - 1
    OBVIOUS
  <1>2. a \o b # << >> /\ (a \o b)[1] = a[1]
    BY <1>1
  <1>3. /\ l \in Seq(Surface) /\ r \in Seq(Surface)
        /\ Len(l) = Len(a) + Len(b) - 1 /\ Len(r) = Len(a) + Len(b) - 1
    BY <1>1, <1>2
  <1>4. ASSUME NEW i \in 1 .. Len(l) PROVE l[i] = r[i]
    <2>1. l[i] = (a \o b)[i + 1]
      BY <1>1, <1>2, <1>3
    <2>2. CASE i < Len(a)
      BY <1>1, <1>3, <2>1, <2>2
    <2>3. CASE i >= Len(a)
      BY <1>1, <1>3, <2>1, <2>3
    <2> QED BY <1>1, <1>3, <2>2, <2>3
  <1> HIDE DEF l, r
  <1>5. l = r
    BY <1>3, <1>4
  <1> QED BY <1>2, <1>5 DEF l, r

\* RemoveFirst of the first element.
LEMMA RemoveHead ==
    ASSUME NEW w \in Seq(Surface), w # << >>
    PROVE  RemoveFirst(w, w[1]) = Tail(w)
  <1> DEFINE I == {i \in 1 .. Len(w) : w[i] = w[1]}
  <1>1. 1 \in I /\ \A i \in I : 1 <= i
    OBVIOUS
  <1>2. Min(I) = 1
    <2>1. \E x \in I : \A y \in I : x <= y
      BY <1>1
    <2>2. Min(I) \in I /\ \A y \in I : Min(I) <= y
      <3> HIDE DEF I
      <3> QED BY <2>1 DEF Min
    <2> QED BY <1>1, <2>2
  <1>3. RemoveFirst(w, w[1]) = SubSeq(w, 1, Min(I) - 1) \o SubSeq(w, Min(I) + 1, Len(w))
    <2>1. (\E i \in 1 .. Len(w) : w[i] = w[1]) /\ I # {}
      BY <1>1
    <2> QED BY <2>1 DEF RemoveFirst, SelectInSeq, RemoveAt
  <1>4. SubSeq(w, 1, 0) = << >> /\ SubSeq(w, 2, Len(w)) = Tail(w) /\ Tail(w) \in Seq(Surface)
    OBVIOUS
  <1>5. RemoveFirst(w, w[1]) = SubSeq(w, 1, 0) \o SubSeq(w, 2, Len(w))
    <2> HIDE DEF I
    <2> QED BY <1>2, <1>3
  <1> QED BY <1>4, <1>5

LEMMA TailSubSeq ==
    ASSUME NEW w \in Seq(Surface), NEW i \in Nat, i < Len(w)
    PROVE  /\ SubSeq(w, i + 1, Len(w)) # << >> /\ SubSeq(w, i + 1, Len(w))[1] = w[i + 1]
           /\ Tail(SubSeq(w, i + 1, Len(w))) = SubSeq(w, i + 2, Len(w))
  <1>0. Len(w) \in Nat
    OBVIOUS
  <1> DEFINE z == SubSeq(w, i + 1, Len(w))
             zz == SubSeq(w, i + 2, Len(w))
  <1>1. z \in Seq(Surface) /\ Len(z) = Len(w) - i /\ \A j \in 1 .. Len(w) - i : z[j] = w[i + j]
    BY <1>0
  <1>2. zz \in Seq(Surface) /\ Len(zz) = Len(w) - i - 1
        /\ \A j \in 1 .. Len(w) - i - 1 : zz[j] = w[i + 1 + j]
    BY <1>0
  <1> HIDE DEF z, zz
  <1>3. z # << >> /\ z[1] = w[i + 1]
    BY <1>0, <1>1
  <1>4. Tail(z) \in Seq(Surface) /\ Len(Tail(z)) = Len(zz)
        /\ \A j \in 1 .. Len(zz) : Tail(z)[j] = zz[j]
    <2>1. Tail(z) \in Seq(Surface) /\ Len(Tail(z)) = Len(zz)
      BY <1>0, <1>1, <1>2, <1>3
    <2>2. ASSUME NEW j \in 1 .. Len(zz) PROVE Tail(z)[j] = zz[j]
      <3>1. Tail(z)[j] = z[j + 1]
        BY <1>1, <1>3, <2>1
      <3>2. z[j + 1] = w[i + (j + 1)] /\ zz[j] = w[i + 1 + j] /\ i + (j + 1) = i + 1 + j
        BY <1>0, <1>1, <1>2
      <3> QED BY <3>1, <3>2
    <2> QED BY <2>1, <2>2
  <1>5. Tail(z) = zz
    <2> DEFINE tz == Tail(z)
    <2> HIDE DEF tz
    <2>1. tz \in Seq(Surface) /\ Len(tz) = Len(zz) /\ \A j \in 1 .. Len(zz) : tz[j] = zz[j]
      BY <1>4 DEF tz
    <2>2. tz = zz
      BY <1>2, <2>1
    <2> QED BY <2>2 DEF tz
  <1> QED BY <1>3, <1>5 DEF z, zz

LEMMA TailSet ==
    ASSUME NEW E, NEW w \in Seq(E), w # << >>, Once(w)
    PROVE  ToSet(Tail(w)) = ToSet(w) \ {w[1]} /\ Once(Tail(w))
  <1>1. /\ Len(w) \in Nat /\ Len(w) >= 1 /\ Tail(w) \in Seq(E) /\ Len(Tail(w)) = Len(w) - 1
        /\ \A i \in 1 .. Len(w) - 1 : Tail(w)[i] = w[i + 1]
    OBVIOUS
  <1>2. ASSUME NEW x PROVE x \in ToSet(Tail(w)) <=> x \in ToSet(w) \ {w[1]}
    <2>1. ASSUME x \in ToSet(Tail(w)) PROVE x \in ToSet(w) \ {w[1]}
      <3>1. PICK i \in 1 .. Len(Tail(w)) : Tail(w)[i] = x
        BY <1>1, <2>1, ToSetFacts
      <3>2. i + 1 \in 1 .. Len(w) /\ w[i + 1] = x /\ 1 \in 1 .. Len(w) /\ i + 1 # 1
        BY <1>1, <3>1
      <3> QED BY <3>2, ToSetFacts DEF Once
    <2>2. ASSUME x \in ToSet(w) \ {w[1]} PROVE x \in ToSet(Tail(w))
      <3>1. PICK i \in 1 .. Len(w) : w[i] = x
        BY <2>2, ToSetFacts
      <3>2. i - 1 \in 1 .. Len(Tail(w)) /\ i - 1 \in 1 .. Len(w) - 1 /\ (i - 1) + 1 = i
        BY <1>1, <2>2, <3>1
      <3>3. Tail(w)[i - 1] = x
        BY <1>1, <3>1, <3>2
      <3>4. \A y : y \in ToSet(Tail(w)) <=> \E j \in 1 .. Len(Tail(w)) : Tail(w)[j] = y
        BY <1>1, ToSetFacts
      <3> QED BY <3>2, <3>3, <3>4
    <2> QED BY <2>1, <2>2
  <1>3. ASSUME NEW i \in 1 .. Len(Tail(w)), NEW j \in 1 .. Len(Tail(w)), Tail(w)[i] = Tail(w)[j]
        PROVE  i = j
    <2>1. i + 1 \in 1 .. Len(w) /\ j + 1 \in 1 .. Len(w) /\ w[i + 1] = w[j + 1]
      BY <1>1, <1>3
    <2>2. i + 1 = j + 1
      BY <2>1 DEF Once
    <2> QED BY <2>2
  <1> QED BY <1>2, <1>3 DEF Once

LEMMA RemoveFirstType ==
    ASSUME NEW w \in Seq(Surface), NEW n
    PROVE  RemoveFirst(w, n) \in Seq(Surface)
  <1> DEFINE I == {i \in 1 .. Len(w) : w[i] = n}
  <1>1. CASE I = {}
    <2>1. ~\E i \in 1 .. Len(w) : w[i] = n
      BY <1>1
    <2> QED BY <2>1 DEF RemoveFirst
  <1>2. CASE I # {}
    <2>1. \E i \in 1 .. Len(w) : w[i] = n
      BY <1>2
    <2>2. RemoveFirst(w, n) = SubSeq(w, 1, Min(I) - 1) \o SubSeq(w, Min(I) + 1, Len(w))
      BY <1>2, <2>1 DEF RemoveFirst, SelectInSeq, RemoveAt
    <2>3. Min(I) \in 1 .. Len(w)
      <3>1. I \in SUBSET Nat
        OBVIOUS
      <3>2. \E x \in I : \A y \in I : x <= y
        <4> HIDE DEF I
        <4> QED BY <1>2, <3>1, SmallestNat
      <3>3. Min(I) \in I
        <4> HIDE DEF I
        <4> QED BY <3>2 DEF Min
      <3> QED BY <3>3
    <2>4. ASSUME NEW k \in 1 .. Len(w)
          PROVE  SubSeq(w, 1, k - 1) \o SubSeq(w, k + 1, Len(w)) \in Seq(Surface)
      <3>1. SubSeq(w, 1, k - 1) \in Seq(Surface) /\ SubSeq(w, k + 1, Len(w)) \in Seq(Surface)
        OBVIOUS
      <3> QED BY <3>1
    <2> HIDE DEF I
    <2> QED BY <2>2, <2>3, <2>4
  <1> QED BY <1>1, <1>2

\* RemoveFirst takes the one occurrence of n out.
LEMMA RemoveFirstFacts ==
    ASSUME NEW E, NEW w \in Seq(E), Once(w), NEW n \in ToSet(w)
    PROVE  /\ RemoveFirst(w, n) \in Seq(E) /\ Once(RemoveFirst(w, n))
           /\ Len(RemoveFirst(w, n)) = Len(w) - 1
           /\ ToSet(RemoveFirst(w, n)) = ToSet(w) \ {n}
           /\ n = w[1] => RemoveFirst(w, n) = Tail(w)
  <1> DEFINE v == RemoveFirst(w, n)
  <1>1. PICK k \in 1 .. Len(w) : w[k] = n
    BY ToSetFacts
  <1>2. v = SubSeq(w, 1, k - 1) \o SubSeq(w, k + 1, Len(w))
    <2>1. {i \in 1 .. Len(w) : w[i] = n} = {k}
      BY <1>1 DEF Once
    <2>2. Min({k}) = k
      <3>1. \E x \in {k} : \A y \in {k} : x <= y
        OBVIOUS
      <3> QED BY <3>1 DEF Min
    <2> QED BY <1>1, <2>1, <2>2 DEF RemoveFirst, SelectInSeq, RemoveAt
  <1> HIDE DEF v
  <1>3. /\ Len(w) \in Nat /\ v \in Seq(E) /\ Len(v) = Len(w) - 1
        /\ \A i \in 1 .. Len(v) : v[i] = IF i < k THEN w[i] ELSE w[i + 1]
    <2>1. /\ Len(w) \in Nat /\ SubSeq(w, 1, k - 1) \in Seq(E) /\ SubSeq(w, k + 1, Len(w)) \in Seq(E)
          /\ Len(SubSeq(w, 1, k - 1)) = k - 1 /\ Len(SubSeq(w, k + 1, Len(w))) = Len(w) - k
      OBVIOUS
    <2> DEFINE a == SubSeq(w, 1, k - 1)
               b == SubSeq(w, k + 1, Len(w))
    <2>a. (\A i \in 1 .. k - 1 : a[i] = w[i]) /\ \A i \in 1 .. Len(w) - k : b[i] = w[k + i]
      OBVIOUS
    <2>b. a \in Seq(E) /\ b \in Seq(E) /\ Len(a) = k - 1 /\ Len(b) = Len(w) - k /\ v = a \o b
      BY <1>2, <2>1
    <2> HIDE DEF a, b
    <2>2. v \in Seq(E) /\ Len(v) = Len(w) - 1
      BY <2>b
    <2>3. ASSUME NEW i \in 1 .. Len(v) PROVE v[i] = IF i < k THEN w[i] ELSE w[i + 1]
      <3>1. CASE i < k
        <4>1. v[i] = a[i] /\ i \in 1 .. k - 1
          BY <2>1, <2>2, <2>b, <3>1
        <4> QED BY <2>a, <3>1, <4>1
      <3>2. CASE ~(i < k)
        <4>1. v[i] = b[i - (k - 1)] /\ i - (k - 1) \in 1 .. Len(w) - k /\ k + (i - (k - 1)) = i + 1
          BY <2>1, <2>2, <2>b, <3>2, SMTT(30)
        <4> QED BY <2>a, <3>2, <4>1
      <3> QED BY <3>1, <3>2
    <2> QED BY <2>1, <2>2, <2>3
  <1>4. ASSUME NEW i \in 1 .. Len(v)
        PROVE  \E j \in 1 .. Len(w) : v[i] = w[j] /\ j # k /\ j = IF i < k THEN i ELSE i + 1
    BY <1>3
  <1>5. ASSUME NEW i \in 1 .. Len(v), NEW j \in 1 .. Len(v), v[i] = v[j] PROVE i = j
    <2>1. PICK x \in 1 .. Len(w) : v[i] = w[x] /\ x # k /\ x = IF i < k THEN i ELSE i + 1
      BY <1>4
    <2>2. PICK y \in 1 .. Len(w) : v[j] = w[y] /\ y # k /\ y = IF j < k THEN j ELSE j + 1
      BY <1>4
    <2>3. x = y
      BY <1>5, <2>1, <2>2 DEF Once
    <2> QED BY <2>1, <2>2, <2>3
  <1>6. ASSUME NEW x PROVE x \in ToSet(v) <=> x \in ToSet(w) \ {n}
    <2>1. ASSUME x \in ToSet(v) PROVE x \in ToSet(w) \ {n}
      <3>1. PICK i \in 1 .. Len(v) : v[i] = x
        BY <1>3, <2>1, ToSetFacts
      <3>2. PICK j \in 1 .. Len(w) : v[i] = w[j] /\ j # k
        BY <1>4
      <3> QED BY <1>1, <3>1, <3>2, ToSetFacts DEF Once
    <2>2. ASSUME x \in ToSet(w) \ {n} PROVE x \in ToSet(v)
      <3>1. PICK j \in 1 .. Len(w) : w[j] = x
        BY <2>2, ToSetFacts
      <3>2. j # k
        BY <1>1, <2>2, <3>1
      <3>3. CASE j < k
        <4>1. j \in 1 .. Len(v) /\ v[j] = x
          BY <1>3, <3>1, <3>3
        <4> QED BY <1>3, <4>1, ToSetFacts
      <3>4. CASE j > k
        <4>1. j - 1 \in 1 .. Len(v) /\ v[j - 1] = x
          BY <1>3, <3>1, <3>4
        <4> QED BY <1>3, <4>1, ToSetFacts
      <3> QED BY <3>2, <3>3, <3>4
    <2> QED BY <2>1, <2>2
  <1>7. ASSUME n = w[1] PROVE v = Tail(w)
    <2>1. k = 1
      BY <1>1, <1>7 DEF Once
    <2> QED BY <1>2, <1>3, <2>1
  <1> QED BY <1>3, <1>5, <1>6, <1>7 DEF Once, v

-----------------------------------------------------------------------------
(* The operations on the lists.                                            *)

\* What the lists of a sound queue are: a walk finds them, a node is on one
\* of them at most, and the links of listed nodes lead to listed nodes.
LEMMA ListFacts ==
    ASSUME NEW u, NEW L, QueueOK(u, L)
    PROVE  /\ \A a \in Heads : /\ Walk(u, a) = L[a]
                               /\ L[a] \in Seq(Surface) /\ Once(L[a])
                               /\ ToSet(L[a]) \subseteq Nodes(u)
                               /\ IsEmpty(u, a) <=> L[a] = << >>
                               /\ L[a] # << >> => u.heap.next[a] = L[a][1]
           /\ \A a, b \in Heads : a # b => ToSet(L[a]) \cap ToSet(L[b]) = {}
           /\ \A n : OnList(Heads, L, n) <=> \E a \in Heads : n \in ToSet(L[a])
           /\ Nodes(u) \subseteq Surface
  <1>0. /\ u \in Queue /\ L \in Lines /\ Linked(u.heap, Heads, Surface, L)
        /\ Heads \cap Surface = {} /\ IsFiniteSet(Surface)
    BY SurfaceQueueAssumption DEF QueueOK
  <1>1. \A a \in Heads : \A x : x \in ToSet(L[a]) <=> \E i \in 1 .. Len(L[a]) : L[a][i] = x
    <2> SUFFICES ASSUME NEW a \in Heads
                 PROVE  \A x : x \in ToSet(L[a]) <=> \E i \in 1 .. Len(L[a]) : L[a][i] = x
      OBVIOUS
    <2>1. L[a] \in Seq(Surface)
      BY <1>0 DEF Lines
    <2> QED BY <2>1, ToSetFacts
  <1>2. \A n : OnList(Heads, L, n) <=> \E a \in Heads : n \in ToSet(L[a])
    BY <1>1 DEF OnList
  <1>3. \A a, b \in Heads : a # b => ToSet(L[a]) \cap ToSet(L[b]) = {}
    <2> SUFFICES ASSUME NEW a \in Heads, NEW b \in Heads, a # b,
                        NEW x \in ToSet(L[a]), x \in ToSet(L[b])
                 PROVE  FALSE
      OBVIOUS
    <2>1. PICK i \in 1 .. Len(L[a]) : L[a][i] = x
      BY <1>1
    <2>2. PICK j \in 1 .. Len(L[b]) : L[b][j] = x
      BY <1>1
    <2> QED BY <1>0, <2>1, <2>2 DEF Linked
  <1>4. Nodes(u) \subseteq Surface
    <2>1. u.list \in Seq(Surface)
      BY <1>0 DEF Queue
    <2> QED BY <2>1, ToSetFacts DEF Nodes
  <1>5. ASSUME NEW a \in Heads
        PROVE  /\ Walk(u, a) = L[a]
               /\ L[a] \in Seq(Surface) /\ Once(L[a])
               /\ ToSet(L[a]) \subseteq Nodes(u)
               /\ IsEmpty(u, a) <=> L[a] = << >>
               /\ L[a] # << >> => u.heap.next[a] = L[a][1]
    <2>1. L[a] \in Seq(Surface) /\ Chain(u.heap, a, L[a]) /\ a \notin Surface
      BY <1>0 DEF Lines, Linked
    <2>2. Once(L[a])
      BY <1>0 DEF Linked, Once
    <2>3. ToSet(L[a]) \subseteq Nodes(u)
      <3>1. ToSet(L[a]) \subseteq Surface
        BY <2>1, ToSetFacts
      <3> QED BY <1>2, <3>1 DEF QueueOK
    <2>4. (IsEmpty(u, a) <=> L[a] = << >>) /\ (L[a] # << >> => u.heap.next[a] = L[a][1])
      BY <2>1, ChainEmpty DEF IsEmpty
    <2>5. Len(L[a]) <= Cardinality(Surface) /\ Cardinality(Surface) \in Nat
      <3>1. Len(L[a]) \in Nat /\ L[a] \in [1 .. Len(L[a]) -> Surface]
        BY <2>1
      <3>2. L[a] \in Injection(1 .. Len(L[a]), Surface)
        BY <2>2, <3>1 DEF Once, Injection, IsInjective
      <3>3. Cardinality(1 .. Len(L[a])) = Len(L[a])
        BY <3>1, FS_Interval
      <3>4. Cardinality(1 .. Len(L[a])) <= Cardinality(Surface)
        BY <1>0, <3>2, FS_Injection
      <3> QED BY <1>0, <3>3, <3>4, FS_CardinalityType
    <2>6. Walk(u, a) = L[a]
      BY <2>1, <2>5, WalkChain DEF Walk
    <2> QED BY <2>1, <2>2, <2>3, <2>4, <2>6
  <1> QED BY <1>2, <1>3, <1>4, <1>5

\* The contents of the lists are determined by the queue.
LEMMA SameLines ==
    ASSUME NEW u, NEW L, QueueOK(u, L)
    PROVE  L = [a \in Heads |-> Walk(u, a)]
BY ListFacts, SMTT(30) DEF QueueOK, Lines

\* _queue_get_node of a sound queue.
LEMMA GetNodeIs ==
    ASSUME NEW u, NEW L, QueueOK(u, L), NEW s
    PROVE  /\ GetNode(u, s) = "NODE_LIST" <=>
                s \in Nodes(u) \ (ToSet(L["free_queue"]) \cup ToSet(L["dirty_queue"]))
           /\ s \in ToSet(L["free_queue"]) => GetNode(u, s) = "FREE_QUEUE"
  <1>1. Walk(u, "free_queue") = L["free_queue"] /\ Walk(u, "dirty_queue") = L["dirty_queue"]
    BY ListFacts DEF Heads
  <1> QED BY <1>1 DEF GetNode

\* The record that _queue_node_push_back leaves.
LEMMA PushBackFields ==
    ASSUME NEW u \in Queue, NEW a \in Heads, NEW n \in Surface
    PROVE  LET v == PushBack(u, a, n)
           IN  /\ v \in Queue /\ SameNodes(u, v)
               /\ v.heap = ListAddTail(u.heap, n, a)
               /\ v.uaf = (u.uaf \/ ({u.heap.prev[a]} \cap Surface) \ Nodes(u) # {})
  <1> DEFINE v == PushBack(u, a, n)
             t == Touch(u, {u.heap.prev[a]})
  <1>1. u.heap \in Heaps(Cells) /\ a \in Cells /\ n \in Cells /\ u.heap.prev[a] \in Cells
    BY DEF Queue, Heaps, Cells
  <1>2. ListAddTail(u.heap, n, a) \in Heaps(Cells)
    BY <1>1 DEF ListAddTail, Heaps
  <1>3. /\ t \in Queue /\ SameNodes(u, t) /\ t.heap = u.heap
        /\ t.uaf = (u.uaf \/ ({u.heap.prev[a]} \cap Surface) \ Nodes(u) # {})
    BY DEF Touch, Queue, SameNodes
  <1> HIDE DEF t
  <1>4. v = [t EXCEPT !.heap = ListAddTail(u.heap, n, a)]
    BY <1>3 DEF PushBack, t
  <1>5. v \in Queue /\ SameNodes(t, v) /\ v.heap = ListAddTail(u.heap, n, a) /\ v.uaf = t.uaf
    BY <1>2, <1>3, <1>4 DEF Queue, SameNodes
  <1> QED BY <1>3, <1>5 DEF SameNodes

\* The record that _queue_node_pop leaves.
LEMMA PopFields ==
    ASSUME NEW u \in Queue, NEW n \in Surface
    PROVE  LET v == Pop(u, n)
           IN  /\ v \in Queue /\ SameNodes(u, v)
               /\ v.heap = ListDel(u.heap, n)
               /\ v.uaf = (u.uaf \/ ({n, u.heap.prev[n], u.heap.next[n]} \cap Surface)
                                       \ Nodes(u) # {})
  <1> DEFINE v == Pop(u, n)
             cs == {n, u.heap.prev[n], u.heap.next[n]}
             t == Touch(u, cs)
  <1>1. u.heap \in Heaps(Cells) /\ n \in Cells
    BY DEF Queue, Cells
  <1>2. ListDel(u.heap, n) \in Heaps(Cells)
    BY <1>1 DEF ListDel, Heaps
  <1>3. /\ t \in Queue /\ SameNodes(u, t) /\ t.heap = u.heap
        /\ t.uaf = (u.uaf \/ (cs \cap Surface) \ Nodes(u) # {})
    <2> HIDE DEF cs
    <2> QED BY DEF Touch, Queue, SameNodes
  <1> HIDE DEF t
  <1>4. v = [t EXCEPT !.heap = ListDel(u.heap, n)]
    BY <1>3 DEF Pop, t
  <1>5. v \in Queue /\ SameNodes(t, v) /\ v.heap = ListDel(u.heap, n) /\ v.uaf = t.uaf
    BY <1>2, <1>3, <1>4 DEF Queue, SameNodes
  <1> QED BY <1>3, <1>5 DEF SameNodes

\* The other parts of a sound queue stay when a list operation keeps the nodes.
LEMMA StillOK ==
    ASSUME NEW u, NEW L, QueueOK(u, L), NEW v \in Queue, SameNodes(u, v), NEW M \in Lines,
           Linked(v.heap, Heads, Surface, M),
           \A n \in Surface : OnList(Heads, M, n) => n \in Nodes(u),
           ~IsSequence(u) => M["dequeue_list"] = << >> /\ Unused(v.heap)
    PROVE  QueueOK(v, M) /\ Nodes(v) = Nodes(u)
BY DEF QueueOK, SameNodes, Nodes, IsSequence

\* _queue_node_push_back of a node that is on no list.
LEMMA PushBackOK ==
    ASSUME NEW u, NEW L, QueueOK(u, L), NEW a \in Heads, NEW n \in Nodes(u),
           \A b \in Heads : n \notin ToSet(L[b]), a = "dequeue_list" => IsSequence(u)
    PROVE  LET v == PushBack(u, a, n)
           IN  /\ QueueOK(v, Put(L, a, n))
               /\ SameNodes(u, v) /\ v.uaf = u.uaf
  <1> DEFINE v == PushBack(u, a, n)
             M == [L EXCEPT ![a] = Append(@, n)]
  <1>0. /\ u \in Queue /\ L \in [Heads -> Seq(Surface)] /\ Linked(u.heap, Heads, Surface, L)
        /\ Heads \cap Surface = {} /\ n \in Surface /\ ~OnList(Heads, L, n)
        /\ u.heap \in Heaps(Heads \cup Surface) /\ M \in Lines
    <2>1. u \in Queue /\ L \in [Heads -> Seq(Surface)] /\ Linked(u.heap, Heads, Surface, L)
      BY DEF QueueOK, Lines
    <2>2. n \in Surface /\ ~OnList(Heads, L, n)
      BY ListFacts
    <2>3. M \in Lines
      BY <2>1, <2>2 DEF Lines
    <2>4. u.heap \in Heaps(Heads \cup Surface)
      BY <2>1 DEF Queue, Cells
    <2> QED BY <2>1, <2>2, <2>3, <2>4, SurfaceQueueAssumption
  <1>1. /\ v \in Queue /\ SameNodes(u, v) /\ v.heap = ListAddTail(u.heap, n, a)
        /\ v.uaf = (u.uaf \/ ({u.heap.prev[a]} \cap Surface) \ Nodes(u) # {})
    BY <1>0, PushBackFields
  <1>2. Linked(v.heap, Heads, Surface, M)
    <2>1. Linked(ListAddTail(u.heap, n, a), Heads, Surface, [L EXCEPT ![a] = Append(@, n)])
      <3> HIDE DEF v, M
      <3> QED BY <1>0, LinkedAddTail
    <2> QED BY <1>1, <2>1
  <1>3. ({u.heap.prev[a]} \cap Surface) \ Nodes(u) = {} /\ u.heap.prev[a] \in Cells
    <2>1. /\ u.heap.prev[a] = At(L[a], a, Len(L[a])) /\ Len(L[a]) \in Nat
          /\ \A i \in 1 .. Len(L[a]) : At(L[a], a, i) = L[a][i]
          /\ At(L[a], a, 0) = a
      BY <1>0, ChainLinks
    <2>2. CASE Len(L[a]) = 0
      BY <1>0, <2>1, <2>2 DEF Cells
    <2>3. CASE Len(L[a]) # 0
      <3>1. Len(L[a]) \in 1 .. Len(L[a])
        BY <2>1, <2>3
      <3>2. u.heap.prev[a] \in ToSet(L[a])
        BY <1>0, <2>1, <3>1, ToSetFacts
      <3> QED BY <3>2, ListFacts DEF Cells
    <2> QED BY <2>2, <2>3
  <1>4. \A m \in Surface : OnList(Heads, M, m) => m \in Nodes(u)
    <2> SUFFICES ASSUME NEW m \in Surface, NEW b \in Heads, NEW i \in 1 .. Len(M[b]), M[b][i] = m
                 PROVE  m \in Nodes(u)
      BY DEF OnList
    <2>1. M[b] \in Seq(Surface) /\ L[b] \in Seq(Surface)
      BY <1>0 DEF Lines
    <2>2. m \in ToSet(M[b])
      <3> HIDE DEF M
      <3> QED BY <2>1, ToSetFacts
    <2>3. ToSet(M[b]) \subseteq ToSet(L[b]) \cup {n}
      <3>1. CASE b = a
        BY <1>0, <2>1, <3>1, ToSetFacts
      <3>2. CASE b # a
        BY <1>0, <3>2
      <3> QED BY <3>1, <3>2
    <2> QED BY <2>2, <2>3, ListFacts
  <1>5. ASSUME ~IsSequence(u) PROVE M["dequeue_list"] = << >> /\ Unused(v.heap)
    <2>1. a # "dequeue_list" /\ L["dequeue_list"] = << >> /\ Unused(u.heap) /\ n # "dequeue_list"
      BY <1>0, <1>5 DEF QueueOK, Heads
    <2>2. u.heap.prev[a] # "dequeue_list"
      BY <2>1 DEF Unused, Cells
    <2>3. M["dequeue_list"] = << >>
      BY <1>0, <2>1 DEF Heads
    <2>4. Unused(v.heap)
      <3>1. u.heap \in Heaps(Cells) /\ a \in Cells /\ n \in Cells
        BY <1>0 DEF Cells
      <3> HIDE DEF v
      <3> QED BY <1>1, <1>3, <2>1, <2>2, <3>1 DEF Unused, ListAddTail, Heaps
    <2> QED BY <2>3, <2>4
  <1> HIDE DEF v, M
  <1>6. QueueOK(v, M)
    BY <1>0, <1>1, <1>2, <1>4, <1>5, StillOK
  <1> QED BY <1>0, <1>1, <1>3, <1>6 DEF v, M, Queue, Put

\* _queue_node_pop of the first node of a list.
LEMMA PopOK ==
    ASSUME NEW u, NEW L, QueueOK(u, L), NEW a \in Heads, L[a] # << >>
    PROVE  LET v == Pop(u, L[a][1])
           IN  /\ QueueOK(v, Take(L, a))
               /\ SameNodes(u, v) /\ v.uaf = u.uaf
  <1> DEFINE n == L[a][1]
             v == Pop(u, n)
             M == [L EXCEPT ![a] = Tail(@)]
  <1>0. /\ u \in Queue /\ L \in [Heads -> Seq(Surface)] /\ Linked(u.heap, Heads, Surface, L)
        /\ Heads \cap Surface = {} /\ n \in ToSet(L[a]) /\ n \in Nodes(u) /\ n \in Surface
        /\ u.heap \in Heaps(Heads \cup Surface) /\ M \in Lines /\ L[a] \in Seq(Surface)
    <2>1. u \in Queue /\ L \in [Heads -> Seq(Surface)] /\ L[a] \in Seq(Surface)
      BY DEF QueueOK, Lines
    <2>2. n \in ToSet(L[a])
      BY <2>1, ToSetFacts
    <2>3. n \in Nodes(u) /\ n \in Surface
      BY <2>2, ListFacts
    <2>4. Tail(L[a]) \in Seq(Surface)
      BY <2>1
    <2>5. M \in Lines
      BY <2>1, <2>4 DEF Lines
    <2> QED BY <2>1, <2>2, <2>3, <2>5, SurfaceQueueAssumption DEF QueueOK, Queue, Cells
  <1>1. /\ v \in Queue /\ SameNodes(u, v) /\ v.heap = ListDel(u.heap, n)
        /\ v.uaf = (u.uaf \/ ({n, u.heap.prev[n], u.heap.next[n]} \cap Surface)
                                       \ Nodes(u) # {})
    <2> HIDE DEF n
    <2> QED BY <1>0, PopFields
  <1>2. Linked(v.heap, Heads, Surface, M)
    <2>1. Linked(ListDel(u.heap, L[a][1]), Heads, Surface, [L EXCEPT ![a] = Tail(@)])
      <3> HIDE DEF v, M, n
      <3> QED BY <1>0, LinkedDelFirst
    <2> QED BY <1>1, <2>1
  <1>3. ({n, u.heap.prev[n], u.heap.next[n]} \cap Surface) \ Nodes(u) = {}
    <2>1. WellLinked(u.heap, Heads \cup {m \in Surface : OnList(Heads, L, m)})
      BY <1>0, LinkedWellLinked
    <2>2. n \in {m \in Surface : OnList(Heads, L, m)}
      BY <1>0, ListFacts
    <2>3. {u.heap.prev[n], u.heap.next[n]} \subseteq Heads \cup {m \in Surface : OnList(Heads, L, m)}
      <3> HIDE DEF n
      <3> QED BY <2>1, <2>2 DEF WellLinked
    <2>4. {m \in Surface : OnList(Heads, L, m)} \subseteq Nodes(u)
      BY DEF QueueOK
    <2> HIDE DEF n
    <2> QED BY <1>0, <2>3, <2>4
  <1>4. \A m \in Surface : OnList(Heads, M, m) => m \in Nodes(u)
    <2> SUFFICES ASSUME NEW m \in Surface, NEW b \in Heads, NEW i \in 1 .. Len(M[b]), M[b][i] = m
                 PROVE  m \in Nodes(u)
      BY DEF OnList
    <2>1. M[b] \in Seq(Surface) /\ L[b] \in Seq(Surface)
      BY <1>0 DEF Lines
    <2>2. m \in ToSet(M[b])
      <3> HIDE DEF M
      <3> QED BY <2>1, ToSetFacts
    <2>3. ToSet(M[b]) \subseteq ToSet(L[b])
      <3>1. CASE b = a
        <4>1. M[b] = Tail(L[b]) /\ Once(L[b]) /\ L[b] # << >>
          BY <1>0, <3>1, ListFacts
        <4> QED BY <2>1, <4>1, TailSet
      <3>2. CASE b # a
        BY <1>0, <3>2
      <3> QED BY <3>1, <3>2
    <2> QED BY <2>2, <2>3, ListFacts
  <1>5. ASSUME ~IsSequence(u) PROVE M["dequeue_list"] = << >> /\ Unused(v.heap)
    <2>1. a # "dequeue_list" /\ L["dequeue_list"] = << >> /\ Unused(u.heap) /\ n # "dequeue_list"
      BY <1>0, <1>5 DEF QueueOK, Heads
    <2>3. M["dequeue_list"] = << >>
      BY <1>0, <2>1 DEF Heads
    <2>4. Unused(v.heap)
      <3>1. u.heap \in Heaps(Cells) /\ n \in Cells
        BY <1>0 DEF Cells
      <3> HIDE DEF v, n
      <3> QED BY <1>1, <2>1, <3>1 DEF Unused, ListDel, Heaps
    <2> QED BY <2>3, <2>4
  <1> HIDE DEF v, M
  <1>6. QueueOK(v, M)
    BY <1>0, <1>1, <1>2, <1>4, <1>5, StillOK
  <1> HIDE DEF n
  <1> QED BY <1>0, <1>1, <1>3, <1>6 DEF v, M, Queue, n, Take

-----------------------------------------------------------------------------
(* Who has the surfaces.                                                   *)

\* Every node is on one list or in a client's hands: p and c are the surfaces
\* producers and consumers hold.  A sequence queue keeps what a producer holds
\* on dequeue_list, marked by priv_flags, so there only consumers hold a node
\* that is on no list.
Kept(u, L, p, c, n) ==
    /\ n \in ToSet(L["free_queue"]) \cup ToSet(L["dirty_queue"]) => n \notin p \cup c
    /\ n \in ToSet(L["dequeue_list"]) => n \notin c /\ (n \in p <=> u.priv_flags[n] = 1)
    /\ (\A a \in Heads : n \notin ToSet(L[a])) =>
         n \in p \cup c /\ (IsSequence(u) => n \in c)
    /\ u.type[n] = "ACQUIRE" <=> n \in c
    /\ n \in p => u.type[n] = "DEQUEUE"
    /\ u.type[n] = "DEQUEUE" =>
         \/ n \in p
         \/ IsSequence(u) /\ n \in ToSet(L["dirty_queue"]) \cup ToSet(L["dequeue_list"])

Custody(u, L, p, c) == \A n \in Nodes(u) : Kept(u, L, p, c, n)

\* The first surface on dequeue_list is still with its producer: otherwise
\* enqueue would have moved it on.
FirstOut(u, L) ==
    L["dequeue_list"] # << >> => u.priv_flags[L["dequeue_list"][1]] = 1

\* The order o in which consumers must get surfaces is the one of the lists.
InOrder(u, L, o) ==
    o = IF IsSequence(u) THEN L["dirty_queue"] \o L["dequeue_list"] ELSE L["dirty_queue"]

Good(u, L, p, c, o) ==
    QueueOK(u, L) /\ Custody(u, L, p, c) /\ FirstOut(u, L) /\ InOrder(u, L, o)

\* What an operation that moves nodes between lists leaves alone.
Frame(u, v) ==
    /\ v.list = u.list /\ v.num_attached = u.num_attached
    /\ v.queue_size = u.queue_size /\ v.alloc_cb = u.alloc_cb
    /\ v.impl = u.impl /\ v.uaf = u.uaf

\* The contents of the lists of the queue.
QueueLines == [a \in Heads |-> Walk(q, a)]

\* A producer inside alloc_cb has a place kept for its surface.
Room ==
    q.num_attached + (IF NoneAllocating THEN 0 ELSE 1) <= q.queue_size

Clients ==
    /\ manner \in Manners /\ valid \in BOOLEAN
    /\ allocating \in [Producers -> {"no", "dequeue", "can_dequeue"}]
    /\ prod \subseteq Surface /\ cons \subseteq Surface
    /\ q.alloc_cb => manner.alloc_cb
    /\ ~NoneAllocating => valid /\ manner.alloc_cb
    /\ ~valid => q.list = << >>

\* The inductive invariant.
IInv ==
    /\ Clients
    /\ Good(q, QueueLines, prod, cons, order)
    /\ Room
    /\ NoUseAfterFree

-----------------------------------------------------------------------------
(* What the operations do to the lists and to the surfaces' keepers.       *)

\* The elements of the lists after a push and after a pop.
LEMMA PutSet ==
    ASSUME NEW L \in Lines, NEW a \in Heads, NEW n \in Surface
    PROVE  ToSet(Put(L, a, n)[a]) = ToSet(L[a]) \cup {n}
  <1>1. L[a] \in Seq(Surface) /\ L \in [Heads -> Seq(Surface)]
    BY DEF Lines
  <1>2. ToSet(Append(L[a], n)) = ToSet(L[a]) \cup {n}
    BY <1>1, ToSetFacts
  <1> QED BY <1>1, <1>2 DEF Put

LEMMA PutLines ==
    ASSUME NEW L \in Lines, NEW a \in Heads, NEW n \in Surface
    PROVE  /\ Put(L, a, n) \in Lines /\ Put(L, a, n)[a] = Append(L[a], n)
           /\ \A b \in Heads : b # a => Put(L, a, n)[b] = L[b]
  <1>1. L[a] \in Seq(Surface) /\ L \in [Heads -> Seq(Surface)]
    BY DEF Lines
  <1>2. Append(L[a], n) \in Seq(Surface)
    BY <1>1
  <1> QED BY <1>1, <1>2 DEF Lines, Put

LEMMA TakeSet ==
    ASSUME NEW L \in Lines, NEW a \in Heads, L[a] # << >>, Once(L[a])
    PROVE  ToSet(Take(L, a)[a]) = ToSet(L[a]) \ {L[a][1]} /\ L[a][1] \in ToSet(L[a])
  <1>1. L[a] \in Seq(Surface) /\ L \in [Heads -> Seq(Surface)]
    BY DEF Lines
  <1>2. ToSet(Tail(L[a])) = ToSet(L[a]) \ {L[a][1]}
    BY <1>1, TailSet
  <1>3. L[a][1] \in ToSet(L[a])
    BY <1>1, ToSetFacts
  <1> QED BY <1>1, <1>2, <1>3 DEF Take

LEMMA TakeLines ==
    ASSUME NEW L \in Lines, NEW a \in Heads, L[a] # << >>
    PROVE  /\ Take(L, a) \in Lines /\ Take(L, a)[a] = Tail(L[a])
           /\ \A b \in Heads : b # a => Take(L, a)[b] = L[b]
  <1>1. L[a] \in Seq(Surface) /\ L \in [Heads -> Seq(Surface)]
    BY DEF Lines
  <1>2. Tail(L[a]) \in Seq(Surface)
    BY <1>1
  <1> QED BY <1>1, <1>2 DEF Lines, Take

\* A new type for a node.
LEMMA RetypeOK ==
    ASSUME NEW u, NEW L, QueueOK(u, L), NEW n \in Nodes(u), NEW t \in NodeTypes
    PROVE  LET v == [u EXCEPT !.type[n] = t]
           IN  /\ QueueOK(v, L) /\ Nodes(v) = Nodes(u)
               /\ v.impl = u.impl /\ v.queue_size = u.queue_size /\ v.list = u.list
               /\ v.num_attached = u.num_attached /\ v.alloc_cb = u.alloc_cb
               /\ v.priv_flags = u.priv_flags /\ v.uaf = u.uaf
               /\ v.type[n] = t /\ \A m \in Surface : m # n => v.type[m] = u.type[m]
  <1> DEFINE ty == [u.type EXCEPT ![n] = t]
             v == [u EXCEPT !.type = ty]
  <1>0. u \in Queue /\ n \in Surface
    BY ListFacts DEF QueueOK
  <1>1. /\ ty \in [Surface -> NodeTypes] /\ ty[n] = t
        /\ \A m \in Surface : m # n => ty[m] = u.type[m]
    BY <1>0 DEF Queue
  <1> HIDE DEF ty
  <1>2. /\ v \in Queue /\ v.impl = u.impl /\ v.queue_size = u.queue_size /\ v.list = u.list
        /\ v.num_attached = u.num_attached /\ v.alloc_cb = u.alloc_cb /\ v.heap = u.heap
        /\ v.priv_flags = u.priv_flags /\ v.uaf = u.uaf /\ v.type = ty
    BY <1>0, <1>1 DEF Queue
  <1>3. [u EXCEPT !.type[n] = t] = v
    BY DEF ty
  <1> HIDE DEF v
  <1>4. QueueOK(v, L) /\ Nodes(v) = Nodes(u)
    BY <1>1, <1>2 DEF QueueOK, Nodes, IsSequence
  <1> QED BY <1>1, <1>2, <1>3, <1>4

\* A new priv_flags for a node.
LEMMA ReflagOK ==
    ASSUME NEW u, NEW L, QueueOK(u, L), NEW n \in Nodes(u), NEW f \in {0, 1}
    PROVE  LET v == [u EXCEPT !.priv_flags[n] = f]
           IN  /\ QueueOK(v, L) /\ Nodes(v) = Nodes(u)
               /\ v.impl = u.impl /\ v.queue_size = u.queue_size /\ v.list = u.list
               /\ v.num_attached = u.num_attached /\ v.alloc_cb = u.alloc_cb
               /\ v.type = u.type /\ v.uaf = u.uaf
               /\ v.priv_flags[n] = f
               /\ \A m \in Surface : m # n => v.priv_flags[m] = u.priv_flags[m]
  <1> DEFINE fl == [u.priv_flags EXCEPT ![n] = f]
             v == [u EXCEPT !.priv_flags = fl]
  <1>0. u \in Queue /\ n \in Surface
    BY ListFacts DEF QueueOK
  <1>1. /\ fl \in [Surface -> {0, 1}] /\ fl[n] = f
        /\ \A m \in Surface : m # n => fl[m] = u.priv_flags[m]
    BY <1>0 DEF Queue
  <1> HIDE DEF fl
  <1>2. /\ v \in Queue /\ v.impl = u.impl /\ v.queue_size = u.queue_size /\ v.list = u.list
        /\ v.num_attached = u.num_attached /\ v.alloc_cb = u.alloc_cb /\ v.heap = u.heap
        /\ v.type = u.type /\ v.uaf = u.uaf /\ v.priv_flags = fl
    BY <1>0, <1>1 DEF Queue
  <1>3. [u EXCEPT !.priv_flags[n] = f] = v
    BY DEF fl
  <1> HIDE DEF v
  <1>4. QueueOK(v, L) /\ Nodes(v) = Nodes(u)
    BY <1>1, <1>2 DEF QueueOK, Nodes, IsSequence
  <1> QED BY <1>1, <1>2, <1>3, <1>4

\* _tbm_surface_queue_attach of a surface nobody has.
LEMMA AttachGood ==
    ASSUME NEW u, NEW L, NEW p, NEW c, NEW o, Good(u, L, p, c, o),
           NEW s \in Surface \ (Nodes(u) \cup p \cup c)
    PROVE  LET v == Attach(u, s)
           IN  /\ Good(v, Put(L, "free_queue", s), p, c, o)
               /\ Nodes(v) = Nodes(u) \cup {s}
               /\ v.num_attached = u.num_attached + 1 /\ v.queue_size = u.queue_size
               /\ v.alloc_cb = u.alloc_cb /\ v.impl = u.impl /\ v.uaf = u.uaf
  <1> DEFINE t == [u EXCEPT !.list = Append(@, s), !.num_attached = @ + 1]
             v == Attach(u, s)
             M == Put(L, "free_queue", s)
  <1>0. u \in Queue /\ L \in Lines /\ QueueOK(u, L) /\ u.list \in Seq(Surface) /\ u.num_attached \in Int
    BY DEF Good, QueueOK, Queue
  <1>1. /\ t \in Queue /\ t.list = Append(u.list, s) /\ t.num_attached = u.num_attached + 1
        /\ t.impl = u.impl /\ t.queue_size = u.queue_size /\ t.alloc_cb = u.alloc_cb
        /\ t.heap = u.heap /\ t.type = u.type /\ t.priv_flags = u.priv_flags /\ t.uaf = u.uaf
    <2>1. Append(u.list, s) \in Seq(Surface) /\ u.num_attached + 1 \in Int
      BY <1>0
    <2> QED BY <1>0, <2>1 DEF Queue
  <1> HIDE DEF t
  <1>2. Nodes(t) = Nodes(u) \cup {s}
    BY <1>0, <1>1, ToSetFacts DEF Nodes
  <1>3. Once(t.list) /\ t.num_attached = Len(t.list)
    <2>1. /\ Once(u.list) /\ u.num_attached = Len(u.list) /\ Len(u.list) \in Nat
          /\ Len(t.list) = Len(u.list) + 1 /\ t.list[Len(u.list) + 1] = s
          /\ \A i \in 1 .. Len(u.list) : t.list[i] = u.list[i] /\ u.list[i] # s
      <3>1. \A i \in 1 .. Len(u.list) : u.list[i] \in Nodes(u)
        BY <1>0, ToSetFacts DEF Nodes
      <3> QED BY <1>0, <1>1, <3>1 DEF QueueOK
    <2>2. ASSUME NEW i \in 1 .. Len(t.list), NEW j \in 1 .. Len(t.list), t.list[i] = t.list[j]
          PROVE  i = j
      <3>1. /\ i = Len(u.list) + 1 \/ i \in 1 .. Len(u.list)
            /\ j = Len(u.list) + 1 \/ j \in 1 .. Len(u.list)
        BY <2>1
      <3> QED BY <2>1, <2>2, <3>1 DEF Once
    <2> QED BY <1>1, <2>1, <2>2 DEF Once
  <1>4. QueueOK(t, L)
    BY <1>0, <1>1, <1>2, <1>3 DEF QueueOK, IsSequence
  <1>5. \A b \in Heads : s \notin ToSet(L[b])
    BY <1>0, ListFacts
  <1>6. QueueOK(v, M) /\ SameNodes(t, v) /\ v.uaf = t.uaf
    <2>1. v = PushBack(t, "free_queue", s)
      BY DEF Attach, t
    <2>2. s \in Nodes(t) /\ "free_queue" \in Heads /\ "free_queue" # "dequeue_list"
      BY <1>2 DEF Heads
    <2> HIDE DEF v, M
    <2>3. QueueOK(v, Put(L, "free_queue", s)) /\ SameNodes(t, v) /\ v.uaf = t.uaf
      BY <1>4, <1>5, <2>1, <2>2, PushBackOK
    <2> QED BY <2>3 DEF M
  <1>7. /\ ToSet(M["free_queue"]) = ToSet(L["free_queue"]) \cup {s}
        /\ M["dirty_queue"] = L["dirty_queue"] /\ M["dequeue_list"] = L["dequeue_list"]
    <2>1. "free_queue" \in Heads /\ "dirty_queue" \in Heads /\ "dequeue_list" \in Heads
      BY DEF Heads
    <2>2. ToSet(M["free_queue"]) = ToSet(L["free_queue"]) \cup {s}
      BY <1>0, <2>1, PutSet
    <2>3. \A b \in Heads : b # "free_queue" => M[b] = L[b]
      BY <1>0, <2>1, PutLines
    <2> QED BY <2>1, <2>2, <2>3
  <1>8. /\ Nodes(v) = Nodes(u) \cup {s} /\ v.type = u.type /\ v.priv_flags = u.priv_flags
        /\ v.impl = u.impl /\ u.type[s] = "NONE" /\ (IsSequence(v) <=> IsSequence(u))
    BY <1>0, <1>1, <1>2, <1>6 DEF SameNodes, Nodes, QueueOK, IsSequence
  <1> HIDE DEF v, M
  <1>9. Custody(v, M, p, c)
    <2> SUFFICES ASSUME NEW n \in Nodes(v) PROVE Kept(v, M, p, c, n)
      BY DEF Custody
    <2>1. CASE n = s
      BY <1>5, <1>7, <1>8, <2>1 DEF Heads, Kept
    <2>2. CASE n # s
      BY <1>7, <1>8, <2>2 DEF Good, Custody, Heads, Kept
    <2> QED BY <2>1, <2>2
  <1>10. FirstOut(v, M) /\ InOrder(v, M, o)
    BY <1>7, <1>8 DEF Good, FirstOut, InOrder
  <1>11. Good(v, M, p, c, o)
    BY <1>6, <1>9, <1>10 DEF Good
  <1> QED BY <1>1, <1>6, <1>8, <1>11 DEF v, M, SameNodes

LEMMA HeadNames ==
    /\ "free_queue" \in Heads /\ "dirty_queue" \in Heads /\ "dequeue_list" \in Heads
    /\ \A a \in Heads : a = "free_queue" \/ a = "dirty_queue" \/ a = "dequeue_list"
BY DEF Heads

\* _tbm_surface_queue_dequeue: the oldest free surface goes to a producer.
LEMMA DequeueGood ==
    ASSUME NEW u, NEW L, NEW p, NEW c, NEW o, Good(u, L, p, c, o),
           L["free_queue"] # << >>, ~IsSequence(u)
    PROVE  LET n == L["free_queue"][1]
               v == [ImplDequeue(u, n) EXCEPT !.type[n] = "DEQUEUE"]
           IN  /\ Good(v, Take(L, "free_queue"), p \cup {n}, c, o)
               /\ Frame(u, v) /\ n \in Nodes(u)
  <1> DEFINE n == L["free_queue"][1]
             t == Pop(u, n)
             v == [t EXCEPT !.type[n] = "DEQUEUE"]
             M == Take(L, "free_queue")
  <1>0. u \in Queue /\ L \in Lines /\ QueueOK(u, L)
    BY DEF Good, QueueOK
  <1>1. QueueOK(t, M) /\ SameNodes(u, t) /\ t.uaf = u.uaf
    BY <1>0, PopOK, HeadNames
  <1>2. ToSet(M["free_queue"]) = ToSet(L["free_queue"]) \ {n} /\ n \in ToSet(L["free_queue"])
    <2>1. Once(L["free_queue"])
      BY <1>0, ListFacts, HeadNames
    <2> QED BY <1>0, <2>1, TakeSet, HeadNames
  <1>3. M["dirty_queue"] = L["dirty_queue"] /\ M["dequeue_list"] = L["dequeue_list"]
    BY <1>0, TakeLines, HeadNames
  <1>4. n \in Nodes(u) /\ n \notin ToSet(L["dirty_queue"]) /\ n \notin ToSet(L["dequeue_list"])
    BY <1>0, <1>2, ListFacts, HeadNames, ZenonT(30)
  <1> HIDE DEF n, t
  <1>5. /\ QueueOK(v, M) /\ Nodes(v) = Nodes(t) /\ Nodes(t) = Nodes(u)
        /\ v.impl = t.impl /\ v.queue_size = t.queue_size /\ v.list = t.list
        /\ v.num_attached = t.num_attached /\ v.alloc_cb = t.alloc_cb
        /\ v.priv_flags = t.priv_flags /\ v.uaf = t.uaf
        /\ v.type[n] = "DEQUEUE" /\ \A m \in Surface : m # n => v.type[m] = t.type[m]
    <2>1. Nodes(t) = Nodes(u) /\ n \in Nodes(t) /\ "DEQUEUE" \in NodeTypes
      BY <1>1, <1>4 DEF SameNodes, Nodes, NodeTypes
    <2> HIDE DEF M
    <2> QED BY <1>1, <2>1, RetypeOK
  <1> HIDE DEF v, M
  <1>6. ~IsSequence(v) /\ Nodes(v) \subseteq Surface /\ Frame(u, v)
    BY <1>0, <1>1, <1>5, ListFacts DEF IsSequence, SameNodes, Frame
  <1>7. Custody(v, M, p \cup {n}, c)
    <2> SUFFICES ASSUME NEW m \in Nodes(v) PROVE Kept(v, M, p \cup {n}, c, m)
      BY DEF Custody
    <2>1. Kept(u, L, p, c, m) /\ v.priv_flags[m] = u.priv_flags[m]
      BY <1>1, <1>5 DEF Good, Custody, SameNodes
    <2>2. \A a \in Heads : m \notin ToSet(M[a]) <=> m = n \/ m \notin ToSet(L[a])
      BY <1>2, <1>3, <1>4, HeadNames
    <2>3. CASE m = n
      BY <1>2, <1>3, <1>4, <1>5, <1>6, <2>1, <2>3 DEF Kept
    <2>4. CASE m # n
      <3>1. v.type[m] = u.type[m]
        BY <1>1, <1>5, <1>6, <2>4 DEF SameNodes
      <3> QED BY <1>2, <1>3, <1>6, <2>1, <2>2, <2>4, <3>1 DEF Kept
    <2> QED BY <2>3, <2>4
  <1>8. FirstOut(v, M) /\ InOrder(v, M, o)
    BY <1>1, <1>3, <1>5, <1>6 DEF Good, FirstOut, InOrder, SameNodes
  <1>9. ImplDequeue(u, n) = t
    BY DEF ImplDequeue, t
  <1> QED BY <1>4, <1>5, <1>6, <1>7, <1>8, <1>9 DEF Good, v, M, n

\* __tbm_queue_sequence_dequeue: it also goes to the end of dequeue_list.
LEMMA SequenceDequeueGood ==
    ASSUME NEW u, NEW L, NEW p, NEW c, NEW o, Good(u, L, p, c, o),
           L["free_queue"] # << >>, IsSequence(u)
    PROVE  LET n == L["free_queue"][1]
               v == [ImplDequeue(u, n) EXCEPT !.type[n] = "DEQUEUE"]
           IN  /\ Good(v, Put(Take(L, "free_queue"), "dequeue_list", n), p \cup {n}, c, Append(o, n))
               /\ Frame(u, v) /\ n \in Nodes(u)
  <1> DEFINE n == L["free_queue"][1]
             t == Pop(u, n)
             M == Take(L, "free_queue")
             w == PushBack(t, "dequeue_list", n)
             N == Put(M, "dequeue_list", n)
             x == [w EXCEPT !.priv_flags[n] = 1]
             v == [x EXCEPT !.type[n] = "DEQUEUE"]
  <1>0. u \in Queue /\ L \in Lines /\ QueueOK(u, L)
    BY DEF Good, QueueOK
  <1>1. QueueOK(t, M) /\ SameNodes(u, t) /\ t.uaf = u.uaf
    BY <1>0, PopOK, HeadNames
  <1>2. ToSet(M["free_queue"]) = ToSet(L["free_queue"]) \ {n} /\ n \in ToSet(L["free_queue"])
    <2>1. Once(L["free_queue"])
      BY <1>0, ListFacts, HeadNames
    <2> QED BY <1>0, <2>1, TakeSet, HeadNames
  <1>3. M["dirty_queue"] = L["dirty_queue"] /\ M["dequeue_list"] = L["dequeue_list"] /\ M \in Lines
    BY <1>0, TakeLines, HeadNames
  <1>4. /\ n \in Nodes(u) /\ n \notin ToSet(L["dirty_queue"]) /\ n \notin ToSet(L["dequeue_list"])
        /\ n \in Surface
    BY <1>0, <1>2, ListFacts, HeadNames, ZenonT(30)
  <1> HIDE DEF n, t, M
  <1>5. Nodes(t) = Nodes(u) /\ IsSequence(t)
    BY <1>1 DEF SameNodes, Nodes, IsSequence
  <1>6. QueueOK(w, N) /\ SameNodes(t, w) /\ w.uaf = t.uaf
    <2>1. \A b \in Heads : n \notin ToSet(M[b])
      BY <1>2, <1>3, <1>4, HeadNames
    <2> QED BY <1>1, <1>4, <1>5, <2>1, PushBackOK, HeadNames
  <1>7. ToSet(N["dequeue_list"]) = ToSet(L["dequeue_list"]) \cup {n}
    BY <1>3, <1>4, PutSet, HeadNames
  <1>8. /\ N["dequeue_list"] = Append(L["dequeue_list"], n) /\ N["free_queue"] = M["free_queue"]
        /\ N["dirty_queue"] = L["dirty_queue"]
    BY <1>3, <1>4, PutLines, HeadNames
  <1> HIDE DEF w, N
  <1>9. /\ QueueOK(x, N) /\ Nodes(x) = Nodes(w) /\ Nodes(w) = Nodes(t)
        /\ x.impl = w.impl /\ x.queue_size = w.queue_size /\ x.list = w.list
        /\ x.num_attached = w.num_attached /\ x.alloc_cb = w.alloc_cb
        /\ x.type = w.type /\ x.uaf = w.uaf
        /\ x.priv_flags[n] = 1 /\ \A m \in Surface : m # n => x.priv_flags[m] = w.priv_flags[m]
    <2>1. Nodes(w) = Nodes(t) /\ n \in Nodes(w)
      BY <1>4, <1>5, <1>6 DEF SameNodes, Nodes
    <2>2. LET y == [w EXCEPT !.priv_flags[n] = 1]
          IN  /\ QueueOK(y, N) /\ Nodes(y) = Nodes(w)
              /\ y.impl = w.impl /\ y.queue_size = w.queue_size /\ y.list = w.list
              /\ y.num_attached = w.num_attached /\ y.alloc_cb = w.alloc_cb
              /\ y.type = w.type /\ y.uaf = w.uaf
              /\ y.priv_flags[n] = 1
              /\ \A m \in Surface : m # n => y.priv_flags[m] = w.priv_flags[m]
      <3>1. 1 \in {0, 1}
        OBVIOUS
      <3> QED BY <1>6, <2>1, <3>1, ReflagOK, Zenon
    <2> QED BY <2>1, <2>2, Zenon
  <1> HIDE DEF x
  <1>10. /\ QueueOK(v, N) /\ Nodes(v) = Nodes(x)
         /\ v.impl = x.impl /\ v.queue_size = x.queue_size /\ v.list = x.list
         /\ v.num_attached = x.num_attached /\ v.alloc_cb = x.alloc_cb
         /\ v.priv_flags = x.priv_flags /\ v.uaf = x.uaf
         /\ v.type[n] = "DEQUEUE" /\ \A m \in Surface : m # n => v.type[m] = x.type[m]
    <2>1. n \in Nodes(x) /\ "DEQUEUE" \in NodeTypes
      BY <1>4, <1>5, <1>9 DEF NodeTypes
    <2>2. QueueOK(x, N)
      BY <1>9
    <2> QED BY <2>1, <2>2, RetypeOK
  <1> HIDE DEF v
  <1>11. IsSequence(v) /\ Nodes(v) = Nodes(u) /\ Nodes(v) \subseteq Surface /\ Frame(u, v)
    BY <1>0, <1>1, <1>5, <1>6, <1>9, <1>10, ListFacts DEF IsSequence, SameNodes, Frame
  <1>12. ASSUME NEW m \in Surface, m # n
         PROVE  v.type[m] = u.type[m] /\ v.priv_flags[m] = u.priv_flags[m]
    BY <1>1, <1>6, <1>9, <1>10, <1>12 DEF SameNodes
  <1>13. Custody(v, N, p \cup {n}, c)
    <2> SUFFICES ASSUME NEW m \in Nodes(v) PROVE Kept(v, N, p \cup {n}, c, m)
      BY DEF Custody
    <2>1. Kept(u, L, p, c, m)
      BY <1>11 DEF Good, Custody
    <2>3. CASE m = n
      BY <1>2, <1>4, <1>7, <1>8, <1>9, <1>10, <1>11, <2>1, <2>3, HeadNames DEF Kept
    <2>4. CASE m # n
      <3>1. \A a \in Heads : m \notin ToSet(N[a]) <=> m \notin ToSet(L[a])
        BY <1>2, <1>3, <1>7, <1>8, <2>4, HeadNames
      <3>2. v.type[m] = u.type[m] /\ v.priv_flags[m] = u.priv_flags[m]
        BY <1>11, <1>12, <2>4
      <3> QED BY <1>11, <2>1, <2>4, <3>1, <3>2, HeadNames DEF Kept
    <2> QED BY <2>3, <2>4
  <1>14. FirstOut(v, N)
    <2>1. L["dequeue_list"] \in Seq(Surface)
      BY <1>0, HeadNames DEF Lines
    <2>2. CASE L["dequeue_list"] = << >>
      <3>1. N["dequeue_list"][1] = n
        BY <1>8, <2>2
      <3> QED BY <1>9, <1>10, <3>1 DEF FirstOut
    <2>3. CASE L["dequeue_list"] # << >>
      <3>1. N["dequeue_list"][1] = L["dequeue_list"][1]
        BY <1>8, <2>1, <2>3
      <3>2. L["dequeue_list"][1] \in ToSet(L["dequeue_list"]) /\ L["dequeue_list"][1] \in Surface
        BY <2>1, <2>3, ToSetFacts
      <3>3. u.priv_flags[L["dequeue_list"][1]] = 1
        BY <2>3 DEF Good, FirstOut
      <3>4. v.priv_flags[L["dequeue_list"][1]] = 1
        BY <1>4, <1>12, <3>2, <3>3
      <3> QED BY <3>1, <3>4 DEF FirstOut
    <2> QED BY <2>2, <2>3
  <1>15. InOrder(v, N, Append(o, n))
    <2>1. o = L["dirty_queue"] \o L["dequeue_list"]
      BY DEF Good, InOrder
    <2>2. L["dirty_queue"] \in Seq(Surface) /\ L["dequeue_list"] \in Seq(Surface)
      BY <1>0, HeadNames DEF Lines
    <2>3. Append(o, n) = L["dirty_queue"] \o Append(L["dequeue_list"], n)
      <3>1. n \in Surface
        BY <1>4
      <3>2. Append(L["dirty_queue"] \o L["dequeue_list"], n)
              = L["dirty_queue"] \o Append(L["dequeue_list"], n)
        BY <2>2, <3>1, AppendConcat, Zenon
      <3> QED BY <2>1, <3>2
    <2> QED BY <1>8, <1>11, <2>3 DEF InOrder
  <1>16. ImplDequeue(u, n) = x
    BY DEF ImplDequeue, t, w, x
  <1> QED BY <1>4, <1>10, <1>11, <1>13, <1>14, <1>15, <1>16 DEF Good, v, N, M, n

\* tbm_surface_queue_acquire: the oldest dirty surface goes to a consumer.
LEMMA AcquireGood ==
    ASSUME NEW u, NEW L, NEW p, NEW c, NEW o, Good(u, L, p, c, o),
           L["dirty_queue"] # << >>
    PROVE  LET n == L["dirty_queue"][1]
               v == [Pop(u, n) EXCEPT !.type[n] = "ACQUIRE"]
           IN  /\ Good(v, Take(L, "dirty_queue"), p, c \cup {n}, RemoveFirst(o, n))
               /\ Frame(u, v) /\ n \in Nodes(u)
  <1> DEFINE n == L["dirty_queue"][1]
             t == Pop(u, n)
             v == [t EXCEPT !.type[n] = "ACQUIRE"]
             M == Take(L, "dirty_queue")
  <1>0. u \in Queue /\ L \in Lines /\ QueueOK(u, L)
    BY DEF Good, QueueOK
  <1>1. QueueOK(t, M) /\ SameNodes(u, t) /\ t.uaf = u.uaf
    BY <1>0, PopOK, HeadNames
  <1>2. ToSet(M["dirty_queue"]) = ToSet(L["dirty_queue"]) \ {n} /\ n \in ToSet(L["dirty_queue"])
    <2>1. Once(L["dirty_queue"])
      BY <1>0, ListFacts, HeadNames
    <2> QED BY <1>0, <2>1, TakeSet, HeadNames
  <1>3. /\ M["free_queue"] = L["free_queue"] /\ M["dequeue_list"] = L["dequeue_list"]
        /\ M["dirty_queue"] = Tail(L["dirty_queue"])
    BY <1>0, TakeLines, HeadNames
  <1>4. n \in Nodes(u) /\ n \notin ToSet(L["free_queue"]) /\ n \notin ToSet(L["dequeue_list"])
    BY <1>0, <1>2, ListFacts, HeadNames, ZenonT(30)
  <1>a. /\ L["dirty_queue"] \in Seq(Surface) /\ L["dequeue_list"] \in Seq(Surface)
        /\ L["dequeue_list"] # << >> => L["dequeue_list"][1] \in ToSet(L["dequeue_list"])
    <2>1. L["dirty_queue"] \in Seq(Surface) /\ L["dequeue_list"] \in Seq(Surface)
      BY <1>0, HeadNames DEF Lines
    <2> QED BY <2>1, ToSetFacts
  <1>b. RemoveFirst(o, n) = IF IsSequence(u) THEN Tail(L["dirty_queue"]) \o L["dequeue_list"]
                            ELSE Tail(L["dirty_queue"])
    <2>1. CASE IsSequence(u)
      <3>1. o = L["dirty_queue"] \o L["dequeue_list"]
        BY <2>1 DEF Good, InOrder
      <3>2. /\ Tail(L["dirty_queue"] \o L["dequeue_list"]) = Tail(L["dirty_queue"]) \o L["dequeue_list"]
            /\ L["dirty_queue"] \o L["dequeue_list"] # << >>
            /\ (L["dirty_queue"] \o L["dequeue_list"])[1] = n
        BY <1>a, TailConcat
      <3>3. o \in Seq(Surface) /\ o # << >> /\ o[1] = n
        BY <1>a, <3>1, <3>2
      <3>4. RemoveFirst(o, o[1]) = Tail(o)
        BY <3>3, RemoveHead
      <3> QED BY <2>1, <3>1, <3>2, <3>3, <3>4
    <2>2. CASE ~IsSequence(u)
      <3>1. o = L["dirty_queue"]
        BY <2>2 DEF Good, InOrder
      <3> QED BY <1>a, <2>2, <3>1, RemoveHead
    <2> QED BY <2>1, <2>2
  <1> HIDE DEF n, t
  <1>5. /\ QueueOK(v, M) /\ Nodes(v) = Nodes(t) /\ Nodes(t) = Nodes(u)
        /\ v.impl = t.impl /\ v.queue_size = t.queue_size /\ v.list = t.list
        /\ v.num_attached = t.num_attached /\ v.alloc_cb = t.alloc_cb
        /\ v.priv_flags = t.priv_flags /\ v.uaf = t.uaf
        /\ v.type[n] = "ACQUIRE" /\ \A m \in Surface : m # n => v.type[m] = t.type[m]
    <2>1. Nodes(t) = Nodes(u) /\ n \in Nodes(t) /\ "ACQUIRE" \in NodeTypes
      BY <1>1, <1>4 DEF SameNodes, Nodes, NodeTypes
    <2> HIDE DEF M
    <2> QED BY <1>1, <2>1, RetypeOK
  <1> HIDE DEF v, M
  <1>6. /\ IsSequence(v) <=> IsSequence(u)
        /\ Nodes(v) \subseteq Surface /\ Frame(u, v)
    BY <1>0, <1>1, <1>5, ListFacts DEF IsSequence, SameNodes, Frame
  <1>7. Custody(v, M, p, c \cup {n})
    <2> SUFFICES ASSUME NEW m \in Nodes(v) PROVE Kept(v, M, p, c \cup {n}, m)
      BY DEF Custody
    <2>1. Kept(u, L, p, c, m) /\ v.priv_flags[m] = u.priv_flags[m]
      BY <1>1, <1>5 DEF Good, Custody, SameNodes
    <2>3. CASE m = n
      BY <1>2, <1>3, <1>4, <1>5, <1>6, <2>1, <2>3 DEF Kept
    <2>4. CASE m # n
      <3>1. v.type[m] = u.type[m]
        BY <1>1, <1>5, <1>6, <2>4 DEF SameNodes
      <3>2. \A a \in Heads : m \notin ToSet(M[a]) <=> m \notin ToSet(L[a])
        BY <1>2, <1>3, <2>4, HeadNames
      <3> QED BY <1>6, <2>1, <2>4, <3>1, <3>2, HeadNames DEF Kept
    <2> QED BY <2>3, <2>4
  <1>8. FirstOut(v, M) /\ InOrder(v, M, RemoveFirst(o, n))
    BY <1>1, <1>3, <1>5, <1>6, <1>b DEF Good, FirstOut, InOrder, SameNodes
  <1> QED BY <1>4, <1>5, <1>6, <1>7, <1>8 DEF Good, v, M, n, t

\* _tbm_surface_queue_enqueue and tbm_surface_queue_release: a surface that is
\* on no list comes back at the end of dirty_queue or of free_queue.
LEMMA GiveBackGood ==
    ASSUME NEW u, NEW L, NEW p, NEW c, NEW o, Good(u, L, p, c, o),
           NEW s \in Nodes(u), \A b \in Heads : s \notin ToSet(L[b]),
           NEW a \in {"free_queue", "dirty_queue"}, NEW y \in {"ENQUEUE", "RELEASE"},
           a = "dirty_queue" => ~IsSequence(u)
    PROVE  LET v == [PushBack(u, a, s) EXCEPT !.type[s] = y]
           IN  /\ Good(v, Put(L, a, s), p \ {s}, c \ {s},
                       IF a = "dirty_queue" THEN Append(o, s) ELSE o)
               /\ Frame(u, v)
  <1> DEFINE t == PushBack(u, a, s)
             v == [t EXCEPT !.type[s] = y]
             M == Put(L, a, s)
  <1>0. u \in Queue /\ L \in Lines /\ QueueOK(u, L) /\ s \in Surface /\ a \in Heads
    BY ListFacts, HeadNames DEF Good, QueueOK
  <1>1. QueueOK(t, M) /\ SameNodes(u, t) /\ t.uaf = u.uaf
    <2>1. a = "dequeue_list" => IsSequence(u)
      OBVIOUS
    <2> QED BY <1>0, <2>1, PushBackOK
  <1>2. ToSet(M[a]) = ToSet(L[a]) \cup {s}
    BY <1>0, PutSet
  <1>3. M[a] = Append(L[a], s) /\ \A b \in Heads : b # a => M[b] = L[b]
    BY <1>0, PutLines
  <1> HIDE DEF t
  <1>5. /\ QueueOK(v, M) /\ Nodes(v) = Nodes(t) /\ Nodes(t) = Nodes(u)
        /\ v.impl = t.impl /\ v.queue_size = t.queue_size /\ v.list = t.list
        /\ v.num_attached = t.num_attached /\ v.alloc_cb = t.alloc_cb
        /\ v.priv_flags = t.priv_flags /\ v.uaf = t.uaf
        /\ v.type[s] = y /\ \A m \in Surface : m # s => v.type[m] = t.type[m]
    <2>1. Nodes(t) = Nodes(u) /\ s \in Nodes(t) /\ y \in NodeTypes
      BY <1>1 DEF SameNodes, Nodes, NodeTypes
    <2> HIDE DEF M
    <2> QED BY <1>1, <2>1, RetypeOK
  <1> HIDE DEF v, M
  <1>6. /\ IsSequence(v) <=> IsSequence(u)
        /\ Nodes(v) \subseteq Surface /\ Frame(u, v)
    BY <1>0, <1>1, <1>5, ListFacts DEF IsSequence, SameNodes, Frame
  <1>7. Custody(v, M, p \ {s}, c \ {s})
    <2> SUFFICES ASSUME NEW m \in Nodes(v) PROVE Kept(v, M, p \ {s}, c \ {s}, m)
      BY DEF Custody
    <2>1. Kept(u, L, p, c, m) /\ v.priv_flags[m] = u.priv_flags[m]
      BY <1>1, <1>5 DEF Good, Custody, SameNodes
    <2>3. CASE m = s
      <3>1. v.type[m] # "ACQUIRE" /\ v.type[m] # "DEQUEUE"
        BY <1>5, <2>3
      <3>2. m \notin ToSet(M["dequeue_list"]) /\ m \in ToSet(M[a])
        BY <1>2, <1>3, <2>3, HeadNames
      <3> QED BY <1>0, <2>3, <3>1, <3>2 DEF Kept
    <2>4. CASE m # s
      <3>1. v.type[m] = u.type[m]
        BY <1>1, <1>5, <1>6, <2>4 DEF SameNodes
      <3>2. \A b \in Heads : m \notin ToSet(M[b]) <=> m \notin ToSet(L[b])
        BY <1>2, <1>3, <2>4
      <3> QED BY <1>6, <2>1, <2>4, <3>1, <3>2, HeadNames DEF Kept
    <2> QED BY <2>3, <2>4
  <1>8. FirstOut(v, M)
    <2>1. M["dequeue_list"] = L["dequeue_list"]
      BY <1>3, HeadNames
    <2> QED BY <1>1, <1>5, <2>1 DEF Good, FirstOut, SameNodes
  <1>9. InOrder(v, M, IF a = "dirty_queue" THEN Append(o, s) ELSE o)
    <2>1. CASE a = "dirty_queue"
      BY <1>3, <1>6, <2>1 DEF Good, InOrder
    <2>2. CASE a = "free_queue"
      BY <1>3, <1>6, <2>2, HeadNames DEF Good, InOrder
    <2> QED BY <2>1, <2>2
  <1> QED BY <1>5, <1>6, <1>7, <1>8, <1>9 DEF Good, v, M, t

\* A client drops a handle of a surface that the queue does not wait for.
LEMMA DropGood ==
    ASSUME NEW u, NEW L, NEW p, NEW c, NEW o, Good(u, L, p, c, o),
           NEW s, s \in Nodes(u) => s \in ToSet(L["free_queue"]) \cup ToSet(L["dirty_queue"])
    PROVE  Good(u, L, p \ {s}, c \ {s}, o)
  <1>1. ASSUME NEW n \in Nodes(u) PROVE Kept(u, L, p \ {s}, c \ {s}, n)
    <2>1. Kept(u, L, p, c, n)
      BY DEF Good, Custody
    <2>2. n = s => n \notin p \cup c
      BY <2>1 DEF Kept
    <2> QED BY <2>1, <2>2 DEF Kept
  <1> QED BY <1>1 DEF Good, Custody

-----------------------------------------------------------------------------
(* The loops: the queues they go through.                                  *)

\* The loop of __tbm_queue_sequence_enqueue.
LEMMA MoveOnInQueue ==
    ASSUME NEW u \in Queue, NEW s \in Surface
    PROVE  MoveOn(u, s) \in Queue
  <1>1. Pop(u, s) \in Queue
    BY PopFields
  <1>2. "dirty_queue" \in Heads
    BY HeadNames
  <1> QED BY <1>1, <1>2, PushBackFields DEF MoveOn

LEMMA MoveOnSteps ==
    ASSUME NEW u \in Queue, NEW w \in Seq(Surface)
    PROVE  \E v : /\ v[0] = u
                  /\ \A i \in 1 .. Len(w) : v[i] = MoveOn(v[i - 1], w[i])
                  /\ FoldLeft(MoveOn, u, w) = v[Len(w)]
  <1> DEFINE n == Len(w)
             F == [x \in Queue \X (1 .. n) |-> MoveOn(x[1], w[x[2]])]
             G(it) == [s \in SUBSET (DOMAIN w) |->
                         IF s = {} THEN u ELSE MoveOn(it[s \ {Max(s)}], w[Max(s)])]
  <1>0. n \in Nat /\ DOMAIN w = 1 .. n /\ \A i \in 1 .. n : w[i] \in Surface
    OBVIOUS
  <1>1. F \in [Queue \X (1 .. n) -> Queue]
    <2> HIDE DEF n
    <2> QED BY <1>0, MoveOnInQueue
  <1>a. PICK it : FoldedBy(Queue, n, u, F, it)
    <2> HIDE DEF F, n
    <2> QED BY <1>0, <1>1, FoldExists
  <1>2. /\ it \in [SUBSET (1 .. n) -> Queue]
        /\ \A s \in SUBSET (1 .. n) :
             it[s] = IF s = {} THEN u ELSE F[<<it[s \ {Max(s)}], Max(s)>>]
    <2> HIDE DEF F, n
    <2> QED BY <1>a DEF FoldedBy
  <1>3. it = G(it)
    <2>1. ASSUME NEW s \in SUBSET (1 .. n), s # {}
          PROVE  F[<<it[s \ {Max(s)}], Max(s)>>] = MoveOn(it[s \ {Max(s)}], w[Max(s)])
      <3>1. Max(s) \in 1 .. n
        <4> HIDE DEF n
        <4> QED BY <1>0, <2>1, MaxOfSome
      <3>2. s \ {Max(s)} \in SUBSET (1 .. n)
        OBVIOUS
      <3>3. <<it[s \ {Max(s)}], Max(s)>> \in Queue \X (1 .. n)
        BY <1>2, <3>1, <3>2
      <3> QED BY <3>3
    <2> HIDE DEF F
    <2> QED BY <1>0, <1>2, <2>1
  <1> HIDE DEF F
  <1>4. PICK jt : jt = G(jt) /\ FoldLeft(MoveOn, u, w) = jt[DOMAIN w]
    BY <1>3 DEF FoldLeft, MapThenFoldSet
  <1> DEFINE v == [i \in 0 .. n |-> jt[1 .. i]]
  <1>5. v[0] = u
    <2>1. 1 .. 0 = {} /\ {} \in SUBSET (DOMAIN w) /\ 0 \in 0 .. n
      BY <1>0
    <2>2. jt[{}] = u
      BY <1>4, <2>1
    <2> HIDE DEF n, G
    <2> QED BY <2>1, <2>2
  <1>6. ASSUME NEW i \in 1 .. n PROVE v[i] = MoveOn(v[i - 1], w[i])
    <2>1. /\ (1 .. i) \in SUBSET (1 .. n) /\ 1 .. i # {} /\ Max(1 .. i) = i
          /\ (1 .. i) \ {i} = 1 .. (i - 1)
      <3> HIDE DEF n
      <3> QED BY <1>0, UpTo
    <2>2. jt[1 .. i] = MoveOn(jt[(1 .. i) \ {Max(1 .. i)}], w[Max(1 .. i)])
      BY <1>0, <1>4, <2>1
    <2>3. jt[1 .. i] = MoveOn(jt[1 .. (i - 1)], w[i])
      <3> HIDE DEF n, G
      <3> QED BY <2>1, <2>2
    <2>4. i \in 0 .. n /\ i - 1 \in 0 .. n
      BY <1>0
    <2> HIDE DEF n, G
    <2> QED BY <2>3, <2>4
  <1>7. FoldLeft(MoveOn, u, w) = v[n]
    <2>1. n \in 0 .. n
      BY <1>0
    <2> HIDE DEF n, G
    <2> QED BY <1>0, <1>4, <2>1
  <1> HIDE DEF v, G
  <1> QED BY <1>5, <1>6, <1>7


\* The record that _queue_delete_node leaves.
LEMMA DeleteNodeFields ==
    ASSUME NEW u \in Queue, NEW n \in Surface
    PROVE  LET v == DeleteNode(u, n)
           IN  /\ v \in Queue
               /\ v.impl = u.impl /\ v.queue_size = u.queue_size
               /\ v.num_attached = u.num_attached /\ v.alloc_cb = u.alloc_cb
               /\ v.list = RemoveFirst(u.list, n)
               /\ v.heap = ListInitHead(ListDel(u.heap, n), n)
               /\ v.type = [u.type EXCEPT ![n] = "NONE"]
               /\ v.priv_flags = [u.priv_flags EXCEPT ![n] = 0]
               /\ v.uaf = Pop(u, n).uaf
  <1> DEFINE t == Pop(u, n)
             v == DeleteNode(u, n)
  <1>1. t \in Queue /\ SameNodes(u, t) /\ t.heap = ListDel(u.heap, n)
    BY PopFields
  <1>2. v = [t EXCEPT !.list = RemoveFirst(t.list, n), !.heap = ListInitHead(t.heap, n),
                      !.type = [t.type EXCEPT ![n] = "NONE"],
                      !.priv_flags = [t.priv_flags EXCEPT ![n] = 0]]
    BY DEF DeleteNode
  <1>3. RemoveFirst(t.list, n) \in Seq(Surface)
    <2>1. t.list \in Seq(Surface)
      BY <1>1 DEF Queue
    <2> HIDE DEF t
    <2> QED BY <2>1, RemoveFirstType
  <1>4. ListInitHead(t.heap, n) \in Heaps(Cells)
    <2>1. t.heap \in Heaps(Cells) /\ n \in Cells
      BY <1>1 DEF Queue, Cells
    <2> HIDE DEF t
    <2> QED BY <2>1 DEF ListInitHead, Heaps
  <1>5. /\ [t.type EXCEPT ![n] = "NONE"] \in [Surface -> NodeTypes]
        /\ [t.priv_flags EXCEPT ![n] = 0] \in [Surface -> {0, 1}]
    <2>1. t.type \in [Surface -> NodeTypes] /\ t.priv_flags \in [Surface -> {0, 1}]
      BY <1>1 DEF Queue
    <2> HIDE DEF t
    <2> QED BY <2>1 DEF NodeTypes
  <1> HIDE DEF t, v
  <1> DEFINE l == RemoveFirst(t.list, n)
             h == ListInitHead(t.heap, n)
             ty == [t.type EXCEPT ![n] = "NONE"]
             fl == [t.priv_flags EXCEPT ![n] = 0]
  <1>6. v = [t EXCEPT !.list = l, !.heap = h, !.type = ty, !.priv_flags = fl]
    BY <1>2
  <1> HIDE DEF l, h, ty, fl
  <1>7. /\ v \in Queue /\ v.impl = t.impl /\ v.queue_size = t.queue_size
        /\ v.num_attached = t.num_attached /\ v.alloc_cb = t.alloc_cb
        /\ v.list = l /\ v.heap = h /\ v.type = ty /\ v.priv_flags = fl /\ v.uaf = t.uaf
    <2>1. l \in Seq(Surface) /\ h \in Heaps(Cells) /\ ty \in [Surface -> NodeTypes]
          /\ fl \in [Surface -> {0, 1}]
      BY <1>3, <1>4, <1>5 DEF l, h, ty, fl
    <2> QED BY <1>1, <1>6, <2>1 DEF Queue
  <1>8. /\ l = RemoveFirst(u.list, n) /\ h = ListInitHead(ListDel(u.heap, n), n)
        /\ ty = [u.type EXCEPT ![n] = "NONE"] /\ fl = [u.priv_flags EXCEPT ![n] = 0]
    BY <1>1 DEF l, h, ty, fl, SameNodes
  <1> QED BY <1>1, <1>7, <1>8 DEF v, t, SameNodes


\* The loop that deletes the nodes of the node list.
LEMMA DeleteNodeInQueue ==
    ASSUME NEW u \in Queue, NEW s \in Surface
    PROVE  DeleteNode(u, s) \in Queue
BY DeleteNodeFields

LEMMA DeleteNodeSteps ==
    ASSUME NEW u \in Queue, NEW w \in Seq(Surface)
    PROVE  \E v : /\ v[0] = u
                  /\ \A i \in 1 .. Len(w) : v[i] = DeleteNode(v[i - 1], w[i])
                  /\ FoldLeft(DeleteNode, u, w) = v[Len(w)]
  <1> DEFINE n == Len(w)
             F == [x \in Queue \X (1 .. n) |-> DeleteNode(x[1], w[x[2]])]
             G(it) == [s \in SUBSET (DOMAIN w) |->
                         IF s = {} THEN u ELSE DeleteNode(it[s \ {Max(s)}], w[Max(s)])]
  <1>0. n \in Nat /\ DOMAIN w = 1 .. n /\ \A i \in 1 .. n : w[i] \in Surface
    OBVIOUS
  <1>1. F \in [Queue \X (1 .. n) -> Queue]
    <2> HIDE DEF n
    <2> QED BY <1>0, DeleteNodeInQueue
  <1>a. PICK it : FoldedBy(Queue, n, u, F, it)
    <2> HIDE DEF F, n
    <2> QED BY <1>0, <1>1, FoldExists
  <1>2. /\ it \in [SUBSET (1 .. n) -> Queue]
        /\ \A s \in SUBSET (1 .. n) :
             it[s] = IF s = {} THEN u ELSE F[<<it[s \ {Max(s)}], Max(s)>>]
    <2> HIDE DEF F, n
    <2> QED BY <1>a DEF FoldedBy
  <1>3. it = G(it)
    <2>1. ASSUME NEW s \in SUBSET (1 .. n), s # {}
          PROVE  F[<<it[s \ {Max(s)}], Max(s)>>] = DeleteNode(it[s \ {Max(s)}], w[Max(s)])
      <3>1. Max(s) \in 1 .. n
        <4> HIDE DEF n
        <4> QED BY <1>0, <2>1, MaxOfSome
      <3>2. s \ {Max(s)} \in SUBSET (1 .. n)
        OBVIOUS
      <3>3. <<it[s \ {Max(s)}], Max(s)>> \in Queue \X (1 .. n)
        BY <1>2, <3>1, <3>2
      <3> QED BY <3>3
    <2> HIDE DEF F
    <2> QED BY <1>0, <1>2, <2>1
  <1> HIDE DEF F
  <1>4. PICK jt : jt = G(jt) /\ FoldLeft(DeleteNode, u, w) = jt[DOMAIN w]
    BY <1>3 DEF FoldLeft, MapThenFoldSet
  <1> DEFINE v == [i \in 0 .. n |-> jt[1 .. i]]
  <1>5. v[0] = u
    <2>1. 1 .. 0 = {} /\ {} \in SUBSET (DOMAIN w) /\ 0 \in 0 .. n
      BY <1>0
    <2>2. jt[{}] = u
      BY <1>4, <2>1
    <2> HIDE DEF n, G
    <2> QED BY <2>1, <2>2
  <1>6. ASSUME NEW i \in 1 .. n PROVE v[i] = DeleteNode(v[i - 1], w[i])
    <2>1. /\ (1 .. i) \in SUBSET (1 .. n) /\ 1 .. i # {} /\ Max(1 .. i) = i
          /\ (1 .. i) \ {i} = 1 .. (i - 1)
      <3> HIDE DEF n
      <3> QED BY <1>0, UpTo
    <2>2. jt[1 .. i] = DeleteNode(jt[(1 .. i) \ {Max(1 .. i)}], w[Max(1 .. i)])
      BY <1>0, <1>4, <2>1
    <2>3. jt[1 .. i] = DeleteNode(jt[1 .. (i - 1)], w[i])
      <3> HIDE DEF n, G
      <3> QED BY <2>1, <2>2
    <2>4. i \in 0 .. n /\ i - 1 \in 0 .. n
      BY <1>0
    <2> HIDE DEF n, G
    <2> QED BY <2>3, <2>4
  <1>7. FoldLeft(DeleteNode, u, w) = v[n]
    <2>1. n \in 0 .. n
      BY <1>0
    <2> HIDE DEF n, G
    <2> QED BY <1>0, <1>4, <2>1
  <1> HIDE DEF v, G
  <1> QED BY <1>5, <1>6, <1>7


\* The loop of set_size that drops free surfaces.
LEMMA DetachInQueue ==
    ASSUME NEW u \in Queue, NEW s \in Surface
    PROVE  Detach(u, s) \in Queue
  <1>1. DeleteNode(u, s) \in Queue
    BY DeleteNodeFields
  <1>2. [DeleteNode(u, s) EXCEPT !.num_attached = @ - 1] \in Queue
    <2> DEFINE d == DeleteNode(u, s)
    <2> HIDE DEF d
    <2>1. d \in Queue /\ d.num_attached - 1 \in Int
      BY <1>1 DEF Queue, d
    <2>2. [d EXCEPT !.num_attached = @ - 1] \in Queue
      BY <2>1 DEF Queue
    <2> QED BY <2>2 DEF d
  <1> QED BY <1>2 DEF Detach

LEMMA DetachSteps ==
    ASSUME NEW u \in Queue, NEW w \in Seq(Surface)
    PROVE  \E v : /\ v[0] = u
                  /\ \A i \in 1 .. Len(w) : v[i] = Detach(v[i - 1], w[i])
                  /\ FoldLeft(Detach, u, w) = v[Len(w)]
  <1> DEFINE n == Len(w)
             F == [x \in Queue \X (1 .. n) |-> Detach(x[1], w[x[2]])]
             G(it) == [s \in SUBSET (DOMAIN w) |->
                         IF s = {} THEN u ELSE Detach(it[s \ {Max(s)}], w[Max(s)])]
  <1>0. n \in Nat /\ DOMAIN w = 1 .. n /\ \A i \in 1 .. n : w[i] \in Surface
    OBVIOUS
  <1>1. F \in [Queue \X (1 .. n) -> Queue]
    <2> HIDE DEF n
    <2> QED BY <1>0, DetachInQueue
  <1>a. PICK it : FoldedBy(Queue, n, u, F, it)
    <2> HIDE DEF F, n
    <2> QED BY <1>0, <1>1, FoldExists
  <1>2. /\ it \in [SUBSET (1 .. n) -> Queue]
        /\ \A s \in SUBSET (1 .. n) :
             it[s] = IF s = {} THEN u ELSE F[<<it[s \ {Max(s)}], Max(s)>>]
    <2> HIDE DEF F, n
    <2> QED BY <1>a DEF FoldedBy
  <1>3. it = G(it)
    <2>1. ASSUME NEW s \in SUBSET (1 .. n), s # {}
          PROVE  F[<<it[s \ {Max(s)}], Max(s)>>] = Detach(it[s \ {Max(s)}], w[Max(s)])
      <3>1. Max(s) \in 1 .. n
        <4> HIDE DEF n
        <4> QED BY <1>0, <2>1, MaxOfSome
      <3>2. s \ {Max(s)} \in SUBSET (1 .. n)
        OBVIOUS
      <3>3. <<it[s \ {Max(s)}], Max(s)>> \in Queue \X (1 .. n)
        BY <1>2, <3>1, <3>2
      <3> QED BY <3>3
    <2> HIDE DEF F
    <2> QED BY <1>0, <1>2, <2>1
  <1> HIDE DEF F
  <1>4. PICK jt : jt = G(jt) /\ FoldLeft(Detach, u, w) = jt[DOMAIN w]
    BY <1>3 DEF FoldLeft, MapThenFoldSet
  <1> DEFINE v == [i \in 0 .. n |-> jt[1 .. i]]
  <1>5. v[0] = u
    <2>1. 1 .. 0 = {} /\ {} \in SUBSET (DOMAIN w) /\ 0 \in 0 .. n
      BY <1>0
    <2>2. jt[{}] = u
      BY <1>4, <2>1
    <2> HIDE DEF n, G
    <2> QED BY <2>1, <2>2
  <1>6. ASSUME NEW i \in 1 .. n PROVE v[i] = Detach(v[i - 1], w[i])
    <2>1. /\ (1 .. i) \in SUBSET (1 .. n) /\ 1 .. i # {} /\ Max(1 .. i) = i
          /\ (1 .. i) \ {i} = 1 .. (i - 1)
      <3> HIDE DEF n
      <3> QED BY <1>0, UpTo
    <2>2. jt[1 .. i] = Detach(jt[(1 .. i) \ {Max(1 .. i)}], w[Max(1 .. i)])
      BY <1>0, <1>4, <2>1
    <2>3. jt[1 .. i] = Detach(jt[1 .. (i - 1)], w[i])
      <3> HIDE DEF n, G
      <3> QED BY <2>1, <2>2
    <2>4. i \in 0 .. n /\ i - 1 \in 0 .. n
      BY <1>0
    <2> HIDE DEF n, G
    <2> QED BY <2>3, <2>4
  <1>7. FoldLeft(Detach, u, w) = v[n]
    <2>1. n \in 0 .. n
      BY <1>0
    <2> HIDE DEF n, G
    <2> QED BY <1>0, <1>4, <2>1
  <1> HIDE DEF v, G
  <1> QED BY <1>5, <1>6, <1>7

-----------------------------------------------------------------------------
(* __tbm_queue_sequence_enqueue.                                           *)

\* The lists when the first i surfaces of dequeue_list have moved on.
Moved(L, i) ==
    [a \in Heads |->
       IF a = "dirty_queue" THEN L[a] \o SubSeq(L["dequeue_list"], 1, i)
       ELSE IF a = "dequeue_list" THEN SubSeq(L[a], i + 1, Len(L[a]))
       ELSE L[a]]

LEMMA MovedLines ==
    ASSUME NEW L \in Lines, NEW i \in 0 .. Len(L["dequeue_list"])
    PROVE  /\ Moved(L, i) \in Lines
           /\ Moved(L, i)["free_queue"] = L["free_queue"]
           /\ Moved(L, i)["dirty_queue"] = L["dirty_queue"] \o SubSeq(L["dequeue_list"], 1, i)
           /\ Moved(L, i)["dequeue_list"]
                = SubSeq(L["dequeue_list"], i + 1, Len(L["dequeue_list"]))
  <1>1. \A a \in Heads : L[a] \in Seq(Surface)
    BY DEF Lines
  <1>2. /\ Len(L["dequeue_list"]) \in Nat
        /\ SubSeq(L["dequeue_list"], 1, i) \in Seq(Surface)
        /\ SubSeq(L["dequeue_list"], i + 1, Len(L["dequeue_list"])) \in Seq(Surface)
    BY <1>1, HeadNames
  <1>3. L["dirty_queue"] \o SubSeq(L["dequeue_list"], 1, i) \in Seq(Surface)
    BY <1>1, <1>2, HeadNames
  <1>4. ASSUME NEW a \in Heads PROVE Moved(L, i)[a] \in Seq(Surface)
    BY <1>1, <1>2, <1>3 DEF Moved
  <1>5. Moved(L, i) \in Lines
    <2>1. Moved(L, i) = [a \in Heads |-> Moved(L, i)[a]]
      BY DEF Moved
    <2> QED BY <1>4, <2>1 DEF Lines
  <1> QED BY <1>5, HeadNames DEF Moved

LEMMA MovedNone ==
    ASSUME NEW L \in Lines
    PROVE  Moved(L, 0) = L
  <1>1. L["dequeue_list"] \in Seq(Surface) /\ L["dirty_queue"] \in Seq(Surface)
    BY HeadNames DEF Lines
  <1>2. SubSeq(L["dequeue_list"], 1, 0) = << >>
    BY <1>1
  <1>3. L["dirty_queue"] \o << >> = L["dirty_queue"]
    BY <1>1
  <1>4. SubSeq(L["dequeue_list"], 0 + 1, Len(L["dequeue_list"])) = L["dequeue_list"]
    BY <1>1
  <1>5. \A a \in Heads : Moved(L, 0)[a] = L[a]
    BY <1>2, <1>3, <1>4 DEF Moved
  <1> QED BY <1>5 DEF Moved, Lines

\* One more surface moves on.
LEMMA MovedNext ==
    ASSUME NEW L \in Lines, NEW i \in Nat, i < Len(L["dequeue_list"])
    PROVE  /\ Moved(L, i)["dequeue_list"] # << >>
           /\ Moved(L, i)["dequeue_list"][1] = L["dequeue_list"][i + 1]
           /\ Put(Take(Moved(L, i), "dequeue_list"), "dirty_queue", L["dequeue_list"][i + 1])
                = Moved(L, i + 1)
  <1> DEFINE w == L["dequeue_list"]
             d == L["dirty_queue"]
             M == Moved(L, i)
             T == Take(M, "dequeue_list")
             P == Put(T, "dirty_queue", w[i + 1])
  <1>0. w \in Seq(Surface) /\ d \in Seq(Surface) /\ Len(w) \in Nat /\ w[i + 1] \in Surface
    BY HeadNames DEF Lines
  <1>1. /\ M \in Lines /\ M["free_queue"] = L["free_queue"]
        /\ M["dirty_queue"] = d \o SubSeq(w, 1, i)
        /\ M["dequeue_list"] = SubSeq(w, i + 1, Len(w))
    <2>1. i \in 0 .. Len(L["dequeue_list"])
      BY <1>0
    <2> QED BY <2>1, MovedLines
  <1>2. /\ SubSeq(w, i + 1, Len(w)) # << >> /\ SubSeq(w, i + 1, Len(w))[1] = w[i + 1]
        /\ Tail(SubSeq(w, i + 1, Len(w))) = SubSeq(w, i + 2, Len(w))
    <2>0. i < Len(w)
      OBVIOUS
    <2> HIDE DEF w, d
    <2> QED BY <1>0, <2>0, TailSubSeq
  <1>3. M["dequeue_list"] # << >> /\ M["dequeue_list"][1] = w[i + 1]
    BY <1>1, <1>2
  <1> HIDE DEF M
  <1>4. /\ T \in Lines /\ T["free_queue"] = L["free_queue"]
        /\ T["dirty_queue"] = d \o SubSeq(w, 1, i)
        /\ T["dequeue_list"] = SubSeq(w, i + 2, Len(w))
    <2>1. T \in Lines /\ T["dequeue_list"] = Tail(M["dequeue_list"])
          /\ \A b \in Heads : b # "dequeue_list" => T[b] = M[b]
      BY <1>1, <1>3, TakeLines, HeadNames
    <2> HIDE DEF w, d
    <2>2. T["free_queue"] = M["free_queue"] /\ T["dirty_queue"] = M["dirty_queue"]
      BY <2>1, HeadNames
    <2> HIDE DEF T
    <2> QED BY <1>1, <1>2, <2>1, <2>2
  <1> HIDE DEF T
  <1>5. /\ P \in Lines /\ P["free_queue"] = L["free_queue"]
        /\ P["dirty_queue"] = Append(d \o SubSeq(w, 1, i), w[i + 1])
        /\ P["dequeue_list"] = SubSeq(w, i + 2, Len(w))
    <2>1. P \in Lines /\ P["dirty_queue"] = Append(T["dirty_queue"], w[i + 1])
          /\ \A b \in Heads : b # "dirty_queue" => P[b] = T[b]
      BY <1>0, <1>4, PutLines, HeadNames
    <2> HIDE DEF w, d
    <2>2. P["free_queue"] = T["free_queue"] /\ P["dequeue_list"] = T["dequeue_list"]
      BY <2>1, HeadNames
    <2> HIDE DEF P
    <2> QED BY <1>4, <2>1, <2>2
  <1> HIDE DEF P
  <1>6. Append(d \o SubSeq(w, 1, i), w[i + 1]) = d \o SubSeq(w, 1, i + 1)
    <2>0. i < Len(w)
      OBVIOUS
    <2> HIDE DEF w, d
    <2>1. SubSeq(w, 1, i) \in Seq(Surface) /\ Append(SubSeq(w, 1, i), w[i + 1]) = SubSeq(w, 1, i + 1)
      BY <1>0, <2>0
    <2>2. Append(d \o SubSeq(w, 1, i), w[i + 1]) = d \o Append(SubSeq(w, 1, i), w[i + 1])
      BY <1>0, <2>1, AppendConcat, Zenon
    <2> QED BY <2>1, <2>2
  <1>7. /\ Moved(L, i + 1) \in Lines /\ Moved(L, i + 1)["free_queue"] = L["free_queue"]
        /\ Moved(L, i + 1)["dirty_queue"] = d \o SubSeq(w, 1, i + 1)
        /\ Moved(L, i + 1)["dequeue_list"] = SubSeq(w, i + 2, Len(w))
    <2>1. i + 1 \in 0 .. Len(L["dequeue_list"]) /\ (i + 1) + 1 = i + 2
      BY <1>0
    <2> QED BY <2>1, MovedLines
  <1> HIDE DEF w, d
  <1>8. \A a \in Heads : P[a] = Moved(L, i + 1)[a]
    BY <1>5, <1>6, <1>7, HeadNames
  <1>9. P = Moved(L, i + 1)
    BY <1>5, <1>7, <1>8 DEF Lines
  <1> QED BY <1>3, <1>9 DEF P, T, M, w

\* The loop moves the first k surfaces of dequeue_list on.
LEMMA MoveOnGood ==
    ASSUME NEW u, NEW L, QueueOK(u, L), IsSequence(u), NEW k \in 0 .. Len(L["dequeue_list"])
    PROVE  LET t == FoldLeft(MoveOn, u, SubSeq(L["dequeue_list"], 1, k))
           IN  QueueOK(t, Moved(L, k)) /\ SameNodes(u, t) /\ t.uaf = u.uaf
  <1> DEFINE w == L["dequeue_list"]
             x == SubSeq(w, 1, k)
             Ok(t, i) == QueueOK(t, Moved(L, i)) /\ SameNodes(u, t) /\ t.uaf = u.uaf
  <1>0. /\ u \in Queue /\ L \in Lines /\ w \in Seq(Surface) /\ Len(w) \in Nat
        /\ x \in Seq(Surface) /\ Len(x) = k /\ \A i \in 1 .. k : x[i] = w[i]
    <2>1. u \in Queue /\ L \in Lines
      BY DEF QueueOK
    <2>2. w \in Seq(Surface)
      BY <2>1, HeadNames DEF Lines
    <2> QED BY <2>1, <2>2
  <1>1. PICK v : /\ v[0] = u
                 /\ \A i \in 1 .. Len(x) : v[i] = MoveOn(v[i - 1], x[i])
                 /\ FoldLeft(MoveOn, u, x) = v[Len(x)]
    <2>1. u \in Queue /\ x \in Seq(Surface)
      BY <1>0
    <2> HIDE DEF x
    <2> QED BY <2>1, MoveOnSteps, Zenon
  <1>2. Ok(u, 0)
    BY <1>0, MovedNone DEF SameNodes
  <1>3. ASSUME NEW i \in Nat, i + 1 <= k, NEW t, Ok(t, i) PROVE Ok(MoveOn(t, w[i + 1]), i + 1)
    <2> DEFINE M == Moved(L, i)
               T == Take(M, "dequeue_list")
               n == w[i + 1]
               r == Pop(t, n)
               y == PushBack(r, "dirty_queue", n)
    <2>0. i < Len(w)
      BY <1>0, <1>3
    <2>1. /\ M["dequeue_list"] # << >> /\ M["dequeue_list"][1] = n
          /\ Put(T, "dirty_queue", n) = Moved(L, i + 1)
      BY <1>0, <2>0, MovedNext
    <2>2. QueueOK(t, M) /\ SameNodes(u, t) /\ t.uaf = u.uaf
      BY <1>3
    <2> HIDE DEF M, n
    <2>3. QueueOK(r, T) /\ SameNodes(t, r) /\ r.uaf = t.uaf
      BY <2>1, <2>2, PopOK, HeadNames
    <2>4. n \in Nodes(t) /\ Once(M["dequeue_list"]) /\ M \in Lines
          /\ \A b \in Heads : b # "dequeue_list" => n \notin ToSet(M[b])
      <3>1. M \in Lines /\ Once(M["dequeue_list"]) /\ M["dequeue_list"] \in Seq(Surface)
        BY <2>2, ListFacts, HeadNames DEF QueueOK
      <3>2. n \in ToSet(M["dequeue_list"])
        BY <2>1, <3>1, ToSetFacts
      <3> QED BY <2>2, <3>1, <3>2, ListFacts, HeadNames
    <2>5. \A b \in Heads : n \notin ToSet(T[b])
      <3>1. ToSet(T["dequeue_list"]) = ToSet(M["dequeue_list"]) \ {M["dequeue_list"][1]}
        BY <2>1, <2>4, TakeSet, HeadNames
      <3>2. \A b \in Heads : b # "dequeue_list" => T[b] = M[b]
        BY <2>1, <2>4, TakeLines, HeadNames
      <3> QED BY <2>1, <2>4, <3>1, <3>2
    <2>6. QueueOK(y, Put(T, "dirty_queue", n)) /\ SameNodes(r, y) /\ y.uaf = r.uaf
      <3>1. n \in Nodes(r)
        BY <2>3, <2>4 DEF SameNodes, Nodes
      <3> HIDE DEF T, r
      <3> QED BY <2>3, <2>5, <3>1, PushBackOK, HeadNames
    <2>7. MoveOn(t, n) = y
      BY DEF MoveOn
    <2> HIDE DEF r, y
    <2> QED BY <2>1, <2>2, <2>3, <2>6, <2>7 DEF SameNodes, n
  <1> DEFINE S == {i \in Nat : i <= k => Ok(v[i], i)}
  <1>4. 0 \in S
    BY <1>1, <1>2
  <1>5. ASSUME NEW i \in Nat, i \in S PROVE i + 1 \in S
    <2> HIDE DEF Ok
    <2>0. i + 1 \in Nat /\ (i + 1 <= k => i <= k /\ i + 1 \in 1 .. k /\ (i + 1) - 1 = i)
      OBVIOUS
    <2> SUFFICES ASSUME i + 1 <= k PROVE Ok(v[i + 1], i + 1)
      BY <2>0
    <2>1. Ok(v[i], i)
      BY <1>5, <2>0
    <2>2. v[i + 1] = MoveOn(v[i], w[i + 1])
      <3> HIDE DEF w, x
      <3>1. i + 1 \in 1 .. k /\ (i + 1) - 1 = i
        BY <2>0
      <3>2. v[i + 1] = MoveOn(v[(i + 1) - 1], x[i + 1])
        BY <1>0, <1>1, <3>1
      <3> QED BY <1>0, <3>1, <3>2
    <2> QED BY <1>3, <2>1, <2>2
  <1>6. \A i \in Nat : i \in S
    <2> HIDE DEF S
    <2> QED BY <1>4, <1>5, Induct
  <1>7. Ok(v[k], k)
    <2> HIDE DEF Ok
    <2> QED BY <1>6
  <1> QED BY <1>0, <1>1, <1>7

\* Two sequences one after the other.
LEMMA ConcatFacts ==
    ASSUME NEW x \in Seq(Surface), NEW y \in Seq(Surface)
    PROVE  /\ x \o y \in Seq(Surface) /\ Len(x \o y) = Len(x) + Len(y)
           /\ \A i \in 1 .. Len(x) : (x \o y)[i] = x[i]
           /\ \A i \in 1 .. Len(y) : (x \o y)[Len(x) + i] = y[i]
  <1>1. Len(x) \in Nat /\ Len(y) \in Nat /\ x \o y \in Seq(Surface) /\ Len(x \o y) = Len(x) + Len(y)
    OBVIOUS
  <1>2. ASSUME NEW i \in 1 .. Len(x) PROVE (x \o y)[i] = x[i]
    BY <1>1
  <1>3. ASSUME NEW i \in 1 .. Len(y) PROVE (x \o y)[Len(x) + i] = y[i]
    <2>1. Len(x) + i \in 1 .. Len(x) + Len(y) /\ ~(Len(x) + i <= Len(x)) /\ (Len(x) + i) - Len(x) = i
      BY <1>1
    <2> QED BY <1>1, <2>1
  <1> QED BY <1>1, <1>2, <1>3

\* The elements of the lists when k surfaces have moved on, and their order.
LEMMA MovedSets ==
    ASSUME NEW L \in Lines, NEW k \in 0 .. Len(L["dequeue_list"])
    PROVE  LET w == L["dequeue_list"]
               M == Moved(L, k)
           IN  /\ \A x : x \in ToSet(M["dirty_queue"]) <=>
                           x \in ToSet(L["dirty_queue"]) \/ \E i \in 1 .. k : x = w[i]
               /\ \A x : x \in ToSet(M["dequeue_list"]) <=> \E i \in k + 1 .. Len(w) : x = w[i]
               /\ M["dirty_queue"] \o M["dequeue_list"] = L["dirty_queue"] \o w
  <1> DEFINE w == L["dequeue_list"]
             d == L["dirty_queue"]
             M == Moved(L, k)
             a == SubSeq(w, 1, k)
             b == SubSeq(w, k + 1, Len(w))
  <1>0. w \in Seq(Surface) /\ d \in Seq(Surface) /\ Len(w) \in Nat /\ Len(d) \in Nat /\ k \in Nat
        /\ k <= Len(w)
    BY HeadNames DEF Lines
  <1>1. /\ M["dirty_queue"] = d \o a /\ M["dequeue_list"] = b
        /\ M["dirty_queue"] \in Seq(Surface) /\ M["dequeue_list"] \in Seq(Surface)
    BY MovedLines, HeadNames DEF Lines
  <1> HIDE DEF w, d, M
  <1>2. a \in Seq(Surface) /\ Len(a) = k /\ \A i \in 1 .. k : a[i] = w[i]
    BY <1>0
  <1>3. b \in Seq(Surface) /\ Len(b) = Len(w) - k /\ \A i \in 1 .. Len(w) - k : b[i] = w[k + i]
    BY <1>0
  <1> HIDE DEF a, b
  <1> DEFINE e == d \o a
  <1>4. /\ e \in Seq(Surface) /\ Len(e) = Len(d) + k
        /\ \A i \in 1 .. Len(d) : e[i] = d[i]
        /\ \A i \in 1 .. k : e[Len(d) + i] = w[i]
    <2>1. /\ e \in Seq(Surface) /\ Len(e) = Len(d) + Len(a)
          /\ \A i \in 1 .. Len(d) : e[i] = d[i]
          /\ \A i \in 1 .. Len(a) : e[Len(d) + i] = a[i]
      BY <1>0, <1>2, ConcatFacts
    <2> HIDE DEF e
    <2> QED BY <1>2, <2>1
  <1> HIDE DEF e
  <1>5. ASSUME NEW x PROVE x \in ToSet(e) <=> x \in ToSet(d) \/ \E i \in 1 .. k : x = w[i]
    <2>1. ASSUME x \in ToSet(e) PROVE x \in ToSet(d) \/ \E i \in 1 .. k : x = w[i]
      <3>1. PICK i \in 1 .. Len(e) : e[i] = x
        BY <1>4, <2>1, ToSetFacts
      <3>2. CASE i <= Len(d)
        <4>1. i \in 1 .. Len(d) /\ d[i] = x
          BY <1>0, <1>4, <3>1, <3>2
        <4> QED BY <1>0, <4>1, ToSetFacts
      <3>3. CASE i > Len(d)
        <4>1. i - Len(d) \in 1 .. k /\ Len(d) + (i - Len(d)) = i
          BY <1>0, <1>4, <3>3
        <4>2. x = w[i - Len(d)]
          BY <1>4, <3>1, <4>1
        <4> QED BY <4>1, <4>2
      <3> QED BY <1>0, <1>4, <3>2, <3>3
    <2>2. ASSUME x \in ToSet(d) PROVE x \in ToSet(e)
      <3>1. PICK i \in 1 .. Len(d) : d[i] = x
        BY <1>0, <2>2, ToSetFacts
      <3>2. i \in 1 .. Len(e) /\ e[i] = x
        BY <1>0, <1>4, <3>1
      <3> QED BY <1>4, <3>2, ToSetFacts
    <2>3. ASSUME NEW i \in 1 .. k, x = w[i] PROVE x \in ToSet(e)
      <3>1. Len(d) + i \in 1 .. Len(e) /\ e[Len(d) + i] = x
        BY <1>0, <1>4, <2>3
      <3> QED BY <1>4, <3>1, ToSetFacts
    <2> QED BY <2>1, <2>2, <2>3
  <1>6. ASSUME NEW x PROVE x \in ToSet(b) <=> \E i \in k + 1 .. Len(w) : x = w[i]
    <2>1. ASSUME x \in ToSet(b) PROVE \E i \in k + 1 .. Len(w) : x = w[i]
      <3>1. PICK i \in 1 .. Len(b) : b[i] = x
        BY <1>3, <2>1, ToSetFacts
      <3>2. k + i \in k + 1 .. Len(w) /\ w[k + i] = x
        BY <1>0, <1>3, <3>1
      <3> QED BY <3>2
    <2>2. ASSUME NEW i \in k + 1 .. Len(w), x = w[i] PROVE x \in ToSet(b)
      <3>1. i - k \in 1 .. Len(b) /\ i - k \in 1 .. Len(w) - k /\ k + (i - k) = i
        BY <1>0, <1>3
      <3>2. b[i - k] = x
        BY <1>3, <2>2, <3>1
      <3> QED BY <1>3, <3>1, <3>2, ToSetFacts
    <2> QED BY <2>1, <2>2
  <1>7. e \o b = d \o w
    <2> DEFINE l == e \o b
               r == d \o w
    <2>1. /\ l \in Seq(Surface) /\ Len(l) = Len(e) + Len(b)
          /\ \A i \in 1 .. Len(e) : l[i] = e[i]
          /\ \A i \in 1 .. Len(b) : l[Len(e) + i] = b[i]
      BY <1>3, <1>4, ConcatFacts
    <2>2. /\ r \in Seq(Surface) /\ Len(r) = Len(d) + Len(w)
          /\ \A i \in 1 .. Len(d) : r[i] = d[i]
          /\ \A i \in 1 .. Len(w) : r[Len(d) + i] = w[i]
      BY <1>0, ConcatFacts
    <2> HIDE DEF l, r
    <2>4. Len(l) = Len(r) /\ Len(l) = Len(d) + Len(w)
      BY <1>0, <1>3, <1>4, <2>1, <2>2
    <2>5. ASSUME NEW i \in 1 .. Len(l) PROVE l[i] = r[i]
      <3>1. CASE i <= Len(d)
        <4>1. i \in 1 .. Len(d) /\ i \in 1 .. Len(e)
          BY <1>0, <1>4, <3>1
        <4> QED BY <1>4, <2>1, <2>2, <4>1
      <3>2. CASE i > Len(d) /\ i <= Len(d) + k
        <4> DEFINE j == i - Len(d)
        <4>1. j \in 1 .. k /\ j \in 1 .. Len(w) /\ Len(d) + j = i /\ i \in 1 .. Len(e)
          BY <1>0, <1>4, <2>4, <3>2
        <4> HIDE DEF j
        <4>2. e[i] = w[j] /\ r[i] = w[j]
          BY <1>4, <2>2, <4>1
        <4> QED BY <2>1, <4>1, <4>2
      <3>3. CASE i > Len(d) + k
        <4> DEFINE j == i - (Len(d) + k)
        <4>1. /\ j \in 1 .. Len(w) - k /\ j \in 1 .. Len(b) /\ k + j \in 1 .. Len(w)
              /\ Len(d) + (k + j) = i /\ Len(e) + j = i
          BY <1>0, <1>3, <1>4, <2>4, <3>3
        <4> HIDE DEF j
        <4>2. l[i] = b[j] /\ r[i] = w[k + j]
          BY <2>1, <2>2, <4>1
        <4> QED BY <1>3, <4>1, <4>2
      <3>4. i \in Nat /\ Len(d) \in Nat /\ k \in Nat
        BY <1>0, <2>4
      <3> QED BY <3>1, <3>2, <3>3, <3>4
    <2>3. l = r
      BY <2>1, <2>2, <2>4, <2>5
    <2> QED BY <2>3 DEF l, r
  <1>8. M["dirty_queue"] = e /\ M["dequeue_list"] = b
    BY <1>1 DEF e
  <1> QED BY <1>5, <1>6, <1>7, <1>8 DEF M, w, d

\* The surfaces at the head of dequeue_list that are ready to move on.
LEMMA SequenceEnqueueIs ==
    ASSUME NEW u, NEW L, QueueOK(u, L), NEW s \in ToSet(L["dequeue_list"])
    PROVE  LET m == [u EXCEPT !.priv_flags[s] = 0]
               w == L["dequeue_list"]
           IN  \E k \in 0 .. Len(w) :
                 /\ \A i \in 1 .. k : m.priv_flags[w[i]] = 0
                 /\ k < Len(w) => m.priv_flags[w[k + 1]] # 0
                 /\ SequenceEnqueue(u, s) = FoldLeft(MoveOn, m, SubSeq(w, 1, k))
  <1> DEFINE m == [u EXCEPT !.priv_flags[s] = 0]
             w == L["dequeue_list"]
             Ready(k) == \A i \in 1 .. k : m.priv_flags[w[i]] = 0
             Stops(i) == Ready(i) /\ \A j \in (i + 1) .. Len(w) : ~Ready(j)
  <1>0. QueueOK(m, L)
    <2>1. s \in Nodes(u) /\ 0 \in {0, 1}
      BY ListFacts, HeadNames
    <2> QED BY <2>1, ReflagOK
  <1>1. w \in Seq(Surface) /\ Len(w) \in Nat /\ Walk(m, "dequeue_list") = w
    <2>1. Walk(m, "dequeue_list") = w /\ w \in Seq(Surface)
      <3> HIDE DEF m
      <3> QED BY <1>0, ListFacts, HeadNames
    <2> QED BY <2>1
  <1>2. \E k \in 0 .. Len(w) : Stops(k)
    <2> DEFINE R == {i \in 1 .. Len(w) : Ready(i)}
    <2>1. CASE R = {}
      <3>1. Stops(0) /\ 0 \in 0 .. Len(w)
        BY <1>1, <2>1
      <3> QED BY <3>1
    <2>2. CASE R # {}
      <3>1. R \in SUBSET (1 .. Len(w))
        OBVIOUS
      <3>2. Max(R) \in R /\ \A y \in R : y <= Max(R)
        <4> HIDE DEF R, w
        <4> QED BY <1>1, <2>2, <3>1, MaxOfSome
      <3>3. Max(R) \in 0 .. Len(w) /\ Ready(Max(R))
        BY <1>1, <3>2
      <3>4. ASSUME NEW j \in (Max(R) + 1) .. Len(w), Ready(j) PROVE FALSE
        <4>1. j \in R
          <5>1. j \in 1 .. Len(w)
            <6> HIDE DEF R
            <6> QED BY <1>1, <3>3
          <5> QED BY <3>4, <5>1
        <4>2. j <= Max(R)
          BY <3>2, <4>1
        <4> HIDE DEF R
        <4> QED BY <1>1, <3>3, <4>2
      <3>5. Stops(Max(R))
        <4> HIDE DEF R, Ready
        <4> QED BY <3>3, <3>4
      <3> HIDE DEF R, Stops
      <3> QED BY <3>3, <3>5
    <2> QED BY <2>1, <2>2
  <1> DEFINE k == CHOOSE i \in 0 .. Len(w) : Stops(i)
  <1>3. k \in 0 .. Len(w) /\ Stops(k)
    <2> HIDE DEF Stops
    <2> QED BY <1>2
  <1>4. SequenceEnqueue(u, s) = FoldLeft(MoveOn, m, SubSeq(w, 1, k))
    <2> DEFINE x == Walk(m, "dequeue_list")
               j == CHOOSE i \in 0 .. Len(x) :
                      /\ \A l \in 1 .. i : m.priv_flags[x[l]] = 0
                      /\ \A l \in (i + 1) .. Len(x) : ~\A h \in 1 .. l : m.priv_flags[x[h]] = 0
    <2>1. SequenceEnqueue(u, s) = FoldLeft(MoveOn, m, SubSeq(x, 1, j))
      BY Zenon DEF SequenceEnqueue
    <2>2. x = w
      BY <1>1
    <2> HIDE DEF m, w, x
    <2>3. j = k
      BY <2>2, Zenon
    <2> QED BY <2>1, <2>2, <2>3, Zenon
  <1> HIDE DEF k, m, w
  <1>5. ASSUME k < Len(w) PROVE m.priv_flags[w[k + 1]] # 0
    <2>1. k + 1 \in (k + 1) .. Len(w) /\ k + 1 \in Nat
      BY <1>1, <1>3, <1>5
    <2>2. ~Ready(k + 1)
      BY <1>3, <2>1
    <2>3. PICK i \in 1 .. k + 1 : m.priv_flags[w[i]] # 0
      BY <2>2
    <2>4. i \notin 1 .. k
      BY <1>3, <2>3
    <2>5. i = k + 1
      BY <1>1, <1>3, <2>4
    <2> QED BY <2>3, <2>5
  <1> QED BY <1>3, <1>4, <1>5 DEF m, w

\* The queue v is u after the enqueue of s, with k surfaces moved on.
Forwarded(u, v, L, s, k) ==
    /\ QueueOK(v, Moved(L, k)) /\ Frame(u, v)
    /\ v.priv_flags[s] = 0 /\ \A n \in Surface : n # s => v.priv_flags[n] = u.priv_flags[n]
    /\ v.type[s] \in {u.type[s], "ENQUEUE"}
    /\ \A n \in Surface : n # s => v.type[n] = u.type[n]
    /\ \A i \in 1 .. k : v.priv_flags[L["dequeue_list"][i]] = 0
    /\ k < Len(L["dequeue_list"]) => v.priv_flags[L["dequeue_list"][k + 1]] # 0

LEMMA ForwardedGood ==
    ASSUME NEW u, NEW L, NEW p, NEW c, NEW o, Good(u, L, p, c, o), IsSequence(u),
           NEW s \in ToSet(L["dequeue_list"]), NEW k \in 0 .. Len(L["dequeue_list"]),
           NEW v, Forwarded(u, v, L, s, k)
    PROVE  Good(v, Moved(L, k), p \ {s}, c \ {s}, o)
  <1> DEFINE w == L["dequeue_list"]
             M == Moved(L, k)
  <1> USE DEF Forwarded
  <1>0. u \in Queue /\ L \in Lines /\ QueueOK(u, L) /\ w \in Seq(Surface) /\ v \in Queue
    BY HeadNames DEF Good, QueueOK, Lines
  <1>1. /\ \A x : x \in ToSet(M["dirty_queue"]) <=>
                    x \in ToSet(L["dirty_queue"]) \/ \E i \in 1 .. k : x = w[i]
        /\ \A x : x \in ToSet(M["dequeue_list"]) <=> \E i \in k + 1 .. Len(w) : x = w[i]
        /\ M["dirty_queue"] \o M["dequeue_list"] = L["dirty_queue"] \o w
    BY <1>0, MovedSets
  <1>2. M["free_queue"] = L["free_queue"]
    BY <1>0, MovedLines
  <1>3. /\ Nodes(v) = Nodes(u) /\ IsSequence(v) /\ Nodes(u) \subseteq Surface
        /\ s \in Nodes(u) /\ s \in Surface /\ s \notin ToSet(L["free_queue"])
    BY <1>0, ListFacts, HeadNames DEF Frame, Nodes, IsSequence
  <1>4. k \in Nat /\ Len(w) \in Nat /\ k <= Len(w)
    BY <1>0
  <1>5. \A x : x \in ToSet(w) <=> \E i \in 1 .. Len(w) : w[i] = x
    <2> HIDE DEF w
    <2> QED BY <1>0, ToSetFacts
  <1>6. \A i \in 1 .. k : v.priv_flags[w[i]] = 0
    OBVIOUS
  <1>7. k < Len(w) => v.priv_flags[w[k + 1]] # 0
    OBVIOUS
  <1>8. s \in ToSet(w)
    OBVIOUS
  <1>9. k < Len(w) => M["dequeue_list"][1] = w[k + 1]
    BY <1>0, <1>4, MovedNext
  <1>10. k = Len(w) => M["dequeue_list"] = << >>
    <2>1. M["dequeue_list"] = SubSeq(w, k + 1, Len(w))
      BY <1>0, MovedLines
    <2> HIDE DEF w, M
    <2> QED BY <1>0, <1>4, <2>1
  <1>11. \A x : x \in ToSet(w) <=>
                  x \in ToSet(M["dequeue_list"]) \/ \E i \in 1 .. k : x = w[i]
    <2> HIDE DEF w, M
    <2>1. \A i : i \in 1 .. Len(w) <=> i \in 1 .. k \/ i \in k + 1 .. Len(w)
      BY <1>4
    <2> QED BY <1>1, <1>5, <2>1
  <1> HIDE DEF w, M
  <1>12. Custody(v, M, p \ {s}, c \ {s})
    <2> SUFFICES ASSUME NEW n \in Nodes(v) PROVE Kept(v, M, p \ {s}, c \ {s}, n)
      BY DEF Custody
    <2>1. Kept(u, L, p, c, n) /\ n \in Surface
      BY <1>3 DEF Good, Custody
    <2>2. CASE n = s
      <3>1. s \in ToSet(M["dirty_queue"]) \cup ToSet(M["dequeue_list"])
        BY <1>1, <1>8, <1>11
      <3>2. u.type[s] # "ACQUIRE"
        BY <1>8, <2>1, <2>2 DEF Kept, w
      <3> QED BY <1>2, <1>3, <2>2, <3>1, <3>2, HeadNames DEF Kept
    <2>3. CASE n # s
      <3>1. v.type[n] = u.type[n] /\ v.priv_flags[n] = u.priv_flags[n]
        BY <2>1, <2>3
      <3>2. n \in ToSet(M["dequeue_list"]) => n \in ToSet(w)
        BY <1>11
      <3>3. n \in ToSet(L["dirty_queue"]) \cup ToSet(w)
              <=> n \in ToSet(M["dirty_queue"]) \cup ToSet(M["dequeue_list"])
        BY <1>1, <1>11
      <3>4. n \in ToSet(M["dirty_queue"]) => n \notin p \cup c
        <4>1. CASE n \in ToSet(L["dirty_queue"])
          BY <2>1, <4>1 DEF Kept
        <4>2. ASSUME NEW i \in 1 .. k, n = w[i] PROVE n \notin p \cup c
          <5>1. n \in ToSet(w) /\ u.priv_flags[n] = 0
            BY <1>6, <1>11, <3>1, <4>2
          <5>2. n \notin c /\ (n \in p <=> u.priv_flags[n] = 1)
            BY <2>1, <5>1 DEF Kept, w
          <5> QED BY <5>1, <5>2
        <4> QED BY <1>1, <4>1, <4>2
      <3>5. Kept(u, L, p, c, n) <=>
              /\ n \in ToSet(L["free_queue"]) \cup ToSet(L["dirty_queue"]) => n \notin p \cup c
              /\ n \in ToSet(w) => n \notin c /\ (n \in p <=> u.priv_flags[n] = 1)
              /\ (\A a \in Heads : n \notin ToSet(L[a])) => n \in p \cup c /\ n \in c
              /\ u.type[n] = "ACQUIRE" <=> n \in c
              /\ n \in p => u.type[n] = "DEQUEUE"
              /\ u.type[n] = "DEQUEUE" => n \in p \/ n \in ToSet(L["dirty_queue"]) \cup ToSet(w)
        BY DEF Kept, w
      <3>6. (\A a \in Heads : n \notin ToSet(L[a])) <=> (\A a \in Heads : n \notin ToSet(M[a]))
        BY <1>2, <3>3, HeadNames DEF w
      <3> QED BY <1>2, <1>3, <2>1, <2>3, <3>1, <3>2, <3>3, <3>4, <3>5, <3>6 DEF Kept
    <2> QED BY <2>2, <2>3
  <1>13. FirstOut(v, M)
    <2> SUFFICES ASSUME M["dequeue_list"] # << >>
                 PROVE  v.priv_flags[M["dequeue_list"][1]] = 1
      BY DEF FirstOut
    <2>1. k < Len(w)
      BY <1>4, <1>10
    <2>2. w[k + 1] \in Surface /\ v.priv_flags \in [Surface -> {0, 1}]
      BY <1>0, <1>4, <2>1 DEF Queue
    <2> QED BY <1>7, <1>9, <2>1, <2>2
  <1>14. InOrder(v, M, o)
    BY <1>1, <1>3 DEF Good, InOrder, w
  <1> QED BY <1>12, <1>13, <1>14 DEF Good, M

\* tbm_surface_queue_enqueue with a sequence queue.
LEMMA SequenceEnqueueGood ==
    ASSUME NEW u, NEW L, NEW p, NEW c, NEW o, Good(u, L, p, c, o), IsSequence(u),
           NEW s \in ToSet(L["dequeue_list"])
    PROVE  LET t == SequenceEnqueue(u, s)
               v == IF IsEmpty(t, "dirty_queue") THEN t ELSE [t EXCEPT !.type[s] = "ENQUEUE"]
           IN  \E k \in 0 .. Len(L["dequeue_list"]) :
                 Good(v, Moved(L, k), p \ {s}, c \ {s}, o) /\ Frame(u, v)
  <1> DEFINE m == [u EXCEPT !.priv_flags[s] = 0]
             t == SequenceEnqueue(u, s)
             z == [t EXCEPT !.type[s] = "ENQUEUE"]
             v == IF IsEmpty(t, "dirty_queue") THEN t ELSE z
             w == L["dequeue_list"]
  <1>0. QueueOK(u, L) /\ s \in Nodes(u) /\ s \in Surface
    BY ListFacts, HeadNames DEF Good
  <1>1. /\ QueueOK(m, L) /\ m.impl = u.impl /\ m.queue_size = u.queue_size /\ m.list = u.list
        /\ m.num_attached = u.num_attached /\ m.alloc_cb = u.alloc_cb
        /\ m.type = u.type /\ m.uaf = u.uaf /\ m.priv_flags[s] = 0
        /\ \A n \in Surface : n # s => m.priv_flags[n] = u.priv_flags[n]
    BY <1>0, ReflagOK, ZenonT(30)
  <1>2. PICK k \in 0 .. Len(w) :
          /\ \A i \in 1 .. k : m.priv_flags[w[i]] = 0
          /\ k < Len(w) => m.priv_flags[w[k + 1]] # 0
          /\ t = FoldLeft(MoveOn, m, SubSeq(w, 1, k))
    BY <1>0, SequenceEnqueueIs, Zenon
  <1> HIDE DEF m
  <1>3. QueueOK(t, Moved(L, k)) /\ SameNodes(m, t) /\ t.uaf = m.uaf
    <2>1. IsSequence(m)
      BY <1>1 DEF IsSequence
    <2>2. LET x == FoldLeft(MoveOn, m, SubSeq(L["dequeue_list"], 1, k))
          IN  QueueOK(x, Moved(L, k)) /\ SameNodes(m, x) /\ x.uaf = m.uaf
      <3>1. QueueOK(m, L) /\ k \in 0 .. Len(L["dequeue_list"])
        BY <1>1
      <3> QED BY <2>1, <3>1, MoveOnGood
    <2> QED BY <1>2, <2>2, Zenon
  <1> HIDE DEF t
  <1>4. s \in Nodes(t)
    BY <1>0, <1>1, <1>3 DEF SameNodes, Nodes
  <1>5. /\ QueueOK(z, Moved(L, k))
        /\ z.impl = t.impl /\ z.queue_size = t.queue_size /\ z.list = t.list
        /\ z.num_attached = t.num_attached /\ z.alloc_cb = t.alloc_cb
        /\ z.priv_flags = t.priv_flags /\ z.uaf = t.uaf
        /\ z.type[s] = "ENQUEUE" /\ \A n \in Surface : n # s => z.type[n] = t.type[n]
    <2>1. "ENQUEUE" \in NodeTypes
      BY DEF NodeTypes
    <2> QED BY <1>3, <1>4, <2>1, RetypeOK
  <1> HIDE DEF z
  <1>6. /\ QueueOK(v, Moved(L, k)) /\ v.priv_flags = m.priv_flags
        /\ v.type[s] \in {u.type[s], "ENQUEUE"}
        /\ \A n \in Surface : n # s => v.type[n] = u.type[n]
        /\ Frame(u, v)
    <2>1. CASE v = t
      BY <1>1, <1>3, <2>1 DEF SameNodes, Frame
    <2>2. CASE v = z
      <3> HIDE DEF v
      <3> QED BY <1>1, <1>3, <1>5, <2>2 DEF SameNodes, Frame
    <2> QED BY <2>1, <2>2
  <1> HIDE DEF v
  <1>7. Good(v, Moved(L, k), p \ {s}, c \ {s}, o)
    <2>1. /\ v.priv_flags[s] = 0
          /\ \A n \in Surface : n # s => v.priv_flags[n] = u.priv_flags[n]
      BY <1>1, <1>6
    <2>2. /\ \A i \in 1 .. k : v.priv_flags[L["dequeue_list"][i]] = 0
          /\ k < Len(L["dequeue_list"]) => v.priv_flags[L["dequeue_list"][k + 1]] # 0
          /\ k \in 0 .. Len(L["dequeue_list"])
      BY <1>2, <1>6
    <2>3. Forwarded(u, v, L, s, k)
      BY <1>6, <2>1, <2>2 DEF Forwarded
    <2> HIDE DEF w
    <2> QED BY <2>2, <2>3, ForwardedGood
  <1> QED BY <1>6, <1>7 DEF v, z, t

-----------------------------------------------------------------------------
(* tbm_surface_queue_set_size without flush.                               *)

\* _tbm_surface_queue_detach of the oldest free surface.
LEMMA DetachGood ==
    ASSUME NEW u, NEW L, NEW p, NEW c, NEW o, Good(u, L, p, c, o), L["free_queue"] # << >>
    PROVE  LET n == L["free_queue"][1]
               v == Detach(u, n)
           IN  /\ Good(v, Take(L, "free_queue"), p, c, o)
               /\ Nodes(v) = Nodes(u) \ {n} /\ n \notin p \cup c
               /\ v.num_attached = u.num_attached - 1 /\ v.queue_size = u.queue_size
               /\ v.alloc_cb = u.alloc_cb /\ v.impl = u.impl /\ v.uaf = u.uaf
  <1> DEFINE n == L["free_queue"][1]
             M == Take(L, "free_queue")
             b == Pop(u, n)
             d == DeleteNode(u, n)
             v == [d EXCEPT !.num_attached = d.num_attached - 1]
  <1>0. /\ u \in Queue /\ L \in Lines /\ QueueOK(u, L) /\ Once(L["free_queue"])
        /\ Heads \cap Surface = {}
    BY ListFacts, HeadNames, SurfaceQueueAssumption DEF Good, QueueOK
  <1>1. ToSet(M["free_queue"]) = ToSet(L["free_queue"]) \ {n} /\ n \in ToSet(L["free_queue"])
    BY <1>0, TakeSet, HeadNames
  <1>2. M["dirty_queue"] = L["dirty_queue"] /\ M["dequeue_list"] = L["dequeue_list"] /\ M \in Lines
    BY <1>0, TakeLines, HeadNames
  <1>3. /\ n \in Nodes(u) /\ n \in Surface
        /\ n \notin ToSet(L["dirty_queue"]) /\ n \notin ToSet(L["dequeue_list"])
    BY <1>0, <1>1, ListFacts, HeadNames, ZenonT(30)
  <1>4. QueueOK(b, M) /\ SameNodes(u, b) /\ b.uaf = u.uaf
    BY <1>0, PopOK, HeadNames
  <1>5. Detach(u, n) = v
    <2>1. GetNode(u, n) = "FREE_QUEUE"
      BY <1>0, <1>1, GetNodeIs
    <2> HIDE DEF n
    <2> QED BY <2>1 DEF Detach
  <1> HIDE DEF n, M, b
  <1>6. /\ d \in Queue /\ d.impl = u.impl /\ d.queue_size = u.queue_size
        /\ d.num_attached = u.num_attached /\ d.alloc_cb = u.alloc_cb
        /\ d.list = RemoveFirst(u.list, n)
        /\ d.heap = ListInitHead(b.heap, n)
        /\ d.type = [u.type EXCEPT ![n] = "NONE"]
        /\ d.priv_flags = [u.priv_flags EXCEPT ![n] = 0]
        /\ d.uaf = u.uaf
    <2>1. b.heap = ListDel(u.heap, n)
      BY <1>0, <1>3, PopFields DEF b
    <2>2. d.uaf = b.uaf
      BY <1>0, <1>3, DeleteNodeFields DEF b
    <2> HIDE DEF d
    <2>3. /\ d \in Queue /\ d.impl = u.impl /\ d.queue_size = u.queue_size
          /\ d.num_attached = u.num_attached /\ d.alloc_cb = u.alloc_cb
          /\ d.list = RemoveFirst(u.list, n)
          /\ d.heap = ListInitHead(ListDel(u.heap, n), n)
          /\ d.type = [u.type EXCEPT ![n] = "NONE"]
          /\ d.priv_flags = [u.priv_flags EXCEPT ![n] = 0]
      BY <1>0, <1>3, DeleteNodeFields DEF d
    <2> QED BY <1>4, <2>1, <2>2, <2>3
  <1> HIDE DEF d
  <1>7. /\ v \in Queue /\ v.num_attached = u.num_attached - 1
        /\ v.impl = u.impl /\ v.queue_size = u.queue_size /\ v.alloc_cb = u.alloc_cb
        /\ v.list = d.list /\ v.heap = d.heap /\ v.type = d.type
        /\ v.priv_flags = d.priv_flags /\ v.uaf = u.uaf
    <2>1. d.num_attached - 1 \in Int
      BY <1>6 DEF Queue
    <2> QED BY <1>6, <2>1 DEF Queue
  <1> HIDE DEF v
  <1>8. /\ v.type[n] = "NONE" /\ v.priv_flags[n] = 0
        /\ \A m \in Surface : m # n => v.type[m] = u.type[m] /\ v.priv_flags[m] = u.priv_flags[m]
    <2>1. u.type \in [Surface -> NodeTypes] /\ u.priv_flags \in [Surface -> {0, 1}]
      BY <1>0 DEF Queue
    <2>2. v.type = [u.type EXCEPT ![n] = "NONE"] /\ v.priv_flags = [u.priv_flags EXCEPT ![n] = 0]
      BY <1>6, <1>7
    <2> QED BY <1>3, <2>1, <2>2
  <1>9. Once(v.list) /\ v.num_attached = Len(v.list) /\ Nodes(v) = Nodes(u) \ {n}
    <2>1. u.list \in Seq(Surface) /\ Once(u.list) /\ n \in ToSet(u.list) /\ u.num_attached = Len(u.list)
      BY <1>0, <1>3 DEF QueueOK, Queue, Nodes
    <2>2. /\ Once(RemoveFirst(u.list, n))
          /\ Len(RemoveFirst(u.list, n)) = Len(u.list) - 1
          /\ ToSet(RemoveFirst(u.list, n)) = ToSet(u.list) \ {n}
      BY <2>1, RemoveFirstFacts
    <2> QED BY <1>6, <1>7, <2>1, <2>2 DEF Nodes
  <1>10. \A a \in Heads : n \notin ToSet(M[a])
    BY <1>1, <1>2, <1>3, HeadNames
  <1>11. ~OnList(Heads, M, n)
    BY <1>4, <1>10, ListFacts
  <1>12. Linked(v.heap, Heads, Surface, M)
    <2>1. b.heap \in Heaps(Heads \cup Surface) /\ Linked(b.heap, Heads, Surface, M)
      BY <1>4 DEF QueueOK, Queue, Cells
    <2>2. Linked(ListInitHead(b.heap, n), Heads, Surface, M)
      BY <1>0, <1>3, <1>11, <2>1, LinkedInitOther
    <2> QED BY <1>6, <1>7, <2>2
  <1>13. \A m \in Surface : OnList(Heads, M, m) => m \in Nodes(v)
    BY <1>4, <1>9, <1>11 DEF QueueOK, SameNodes, Nodes
  <1>14. ASSUME ~IsSequence(v) PROVE M["dequeue_list"] = << >> /\ Unused(v.heap)
    <2>1. ~IsSequence(b)
      BY <1>4, <1>7, <1>14 DEF IsSequence, SameNodes
    <2>2. M["dequeue_list"] = << >> /\ Unused(b.heap) /\ b.heap \in Heaps(Cells)
      BY <1>4, <2>1 DEF QueueOK, Queue
    <2>3. n \in Cells /\ n # "dequeue_list"
      BY <1>0, <1>3, HeadNames DEF Cells
    <2>4. v.heap = ListInitHead(b.heap, n)
      BY <1>6, <1>7
    <2>5. Unused(ListInitHead(b.heap, n))
      BY <2>2, <2>3 DEF Unused, ListInitHead, Heaps
    <2> QED BY <2>2, <2>4, <2>5
  <1>15. \A m \in Surface \ Nodes(v) : v.type[m] = "NONE"
    BY <1>0, <1>8, <1>9 DEF QueueOK
  <1>16. QueueOK(v, M)
    BY <1>2, <1>7, <1>9, <1>12, <1>13, <1>14, <1>15 DEF QueueOK
  <1>17. Nodes(u) \subseteq Surface /\ (IsSequence(v) <=> IsSequence(u))
    BY <1>0, <1>7, ListFacts DEF IsSequence
  <1>18. Custody(v, M, p, c)
    <2> SUFFICES ASSUME NEW m \in Nodes(v) PROVE Kept(v, M, p, c, m)
      BY DEF Custody
    <2>1. Kept(u, L, p, c, m) /\ m \in Surface /\ m # n
      BY <1>9, <1>17 DEF Good, Custody
    <2>2. v.type[m] = u.type[m] /\ v.priv_flags[m] = u.priv_flags[m]
      BY <1>8, <2>1
    <2>3. \A a \in Heads : m \in ToSet(M[a]) <=> m \in ToSet(L[a])
      BY <1>1, <1>2, <2>1, HeadNames
    <2> QED BY <1>17, <2>1, <2>2, <2>3, HeadNames DEF Kept
  <1>19. FirstOut(v, M)
    <2> SUFFICES ASSUME M["dequeue_list"] # << >> PROVE v.priv_flags[M["dequeue_list"][1]] = 1
      BY DEF FirstOut
    <2>1. M["dequeue_list"] \in Seq(Surface)
      BY <1>2, HeadNames DEF Lines
    <2>2. M["dequeue_list"][1] \in ToSet(M["dequeue_list"]) /\ M["dequeue_list"][1] \in Surface
      BY <2>1, ToSetFacts
    <2>3. M["dequeue_list"][1] # n
      BY <1>10, <2>2, HeadNames
    <2>4. u.priv_flags[M["dequeue_list"][1]] = 1
      BY <1>2 DEF Good, FirstOut
    <2> QED BY <1>8, <2>2, <2>3, <2>4
  <1>20. InOrder(v, M, o)
    BY <1>2, <1>17 DEF Good, InOrder
  <1>21. n \notin p \cup c
    BY <1>1, <1>3 DEF Good, Custody, Kept
  <1>22. Good(v, M, p, c, o)
    BY <1>16, <1>18, <1>19, <1>20 DEF Good
  <1> QED BY <1>5, <1>7, <1>9, <1>21, <1>22 DEF n, M

\* The queue v is u without the i oldest free surfaces.
Dropped(u, L, p, c, o, v, i) ==
    /\ \E M : /\ Good(v, M, p, c, o)
              /\ M["free_queue"] = SubSeq(L["free_queue"], i + 1, Len(L["free_queue"]))
              /\ M["dirty_queue"] = L["dirty_queue"]
              /\ Nodes(v) \ ToSet(M["free_queue"]) = Nodes(u) \ ToSet(L["free_queue"])
    /\ v.num_attached = u.num_attached - i /\ v.queue_size = u.queue_size
    /\ v.alloc_cb = u.alloc_cb /\ v.impl = u.impl /\ v.uaf = u.uaf

\* The loop of set_size drops the k oldest free surfaces.
LEMMA DropFreeGood ==
    ASSUME NEW u, NEW L, NEW p, NEW c, NEW o, Good(u, L, p, c, o),
           NEW k \in 0 .. Len(L["free_queue"])
    PROVE  Dropped(u, L, p, c, o, FoldLeft(Detach, u, SubSeq(L["free_queue"], 1, k)), k)
  <1> DEFINE w == L["free_queue"]
             x == SubSeq(w, 1, k)
             Ok(t, i) == Dropped(u, L, p, c, o, t, i)
  <1>0. /\ u \in Queue /\ L \in Lines /\ w \in Seq(Surface) /\ Len(w) \in Nat
        /\ x \in Seq(Surface) /\ Len(x) = k /\ (\A i \in 1 .. k : x[i] = w[i])
        /\ k \in Nat /\ k <= Len(w) /\ u.num_attached \in Int
    <2>1. u \in Queue /\ L \in Lines
      BY DEF Good, QueueOK
    <2>2. w \in Seq(Surface)
      BY <2>1, HeadNames DEF Lines
    <2>3. u.num_attached \in Int
      BY <2>1 DEF Queue
    <2> QED BY <2>1, <2>2, <2>3
  <1>1. PICK v : /\ v[0] = u
                 /\ \A i \in 1 .. Len(x) : v[i] = Detach(v[i - 1], x[i])
                 /\ FoldLeft(Detach, u, x) = v[Len(x)]
    <2>1. u \in Queue /\ x \in Seq(Surface)
      BY <1>0
    <2> HIDE DEF x
    <2> QED BY <2>1, DetachSteps, Zenon
  <1>2. Ok(u, 0)
    <2>1. SubSeq(w, 0 + 1, Len(w)) = w
      <3> HIDE DEF w
      <3> QED BY <1>0
    <2>2. u.num_attached = u.num_attached - 0
      BY <1>0
    <2> QED BY <2>1, <2>2 DEF Dropped
  <1>3. ASSUME NEW i \in Nat, i + 1 <= k, NEW t, Ok(t, i) PROVE Ok(Detach(t, w[i + 1]), i + 1)
    <2>0. i < Len(w)
      BY <1>0, <1>3
    <2>1. PICK M : /\ Good(t, M, p, c, o) /\ M["free_queue"] = SubSeq(w, i + 1, Len(w))
                   /\ M["dirty_queue"] = L["dirty_queue"]
                   /\ Nodes(t) \ ToSet(M["free_queue"]) = Nodes(u) \ ToSet(L["free_queue"])
      BY <1>3, Zenon DEF Dropped
    <2>2. /\ SubSeq(w, i + 1, Len(w)) # << >> /\ SubSeq(w, i + 1, Len(w))[1] = w[i + 1]
          /\ Tail(SubSeq(w, i + 1, Len(w))) = SubSeq(w, i + 2, Len(w))
      <3> HIDE DEF w
      <3> QED BY <1>0, <2>0, TailSubSeq
    <2>a. M["free_queue"] # << >> /\ M["free_queue"][1] = w[i + 1]
          /\ Tail(M["free_queue"]) = SubSeq(w, i + 2, Len(w))
      BY <2>1, <2>2
    <2> DEFINE n == w[i + 1]
               z == Detach(t, n)
    <2>3. /\ Good(z, Take(M, "free_queue"), p, c, o)
          /\ Nodes(z) = Nodes(t) \ {n} /\ n \notin p \cup c
          /\ z.num_attached = t.num_attached - 1 /\ z.queue_size = t.queue_size
          /\ z.alloc_cb = t.alloc_cb /\ z.impl = t.impl /\ z.uaf = t.uaf
      <3>1. M["free_queue"][1] = n
        BY <2>a
      <3> HIDE DEF n
      <3> QED BY <2>1, <2>a, <3>1, DetachGood
    <2>4. Take(M, "free_queue")["free_queue"] = SubSeq(w, (i + 1) + 1, Len(w))
      <3>1. M \in Lines
        BY <2>1 DEF Good, QueueOK
      <3>2. Take(M, "free_queue")["free_queue"] = Tail(M["free_queue"])
        BY <2>a, <3>1, TakeLines, HeadNames
      <3>3. (i + 1) + 1 = i + 2
        OBVIOUS
      <3> HIDE DEF w
      <3> QED BY <2>a, <3>2, <3>3
    <2> HIDE DEF z, n
    <2> DEFINE T == Take(M, "free_queue")
    <2>b. M \in Lines /\ QueueOK(t, M) /\ Once(M["free_queue"]) /\ n \in ToSet(M["free_queue"])
      <3>1. M \in Lines /\ QueueOK(t, M)
        BY <2>1 DEF Good, QueueOK
      <3>2. M["free_queue"] \in Seq(Surface) /\ Once(M["free_queue"])
        BY <3>1, ListFacts, HeadNames
      <3>3. M["free_queue"][1] \in ToSet(M["free_queue"])
        BY <2>a, <3>2, ToSetFacts
      <3> QED BY <2>a, <3>1, <3>2, <3>3 DEF n
    <2>5. T["dirty_queue"] = L["dirty_queue"]
      BY <2>1, <2>a, <2>b, TakeLines, HeadNames
    <2>6. Nodes(z) \ ToSet(T["free_queue"]) = Nodes(u) \ ToSet(L["free_queue"])
      <3>1. ToSet(T["free_queue"]) = ToSet(M["free_queue"]) \ {M["free_queue"][1]}
        BY <2>a, <2>b, TakeSet, HeadNames
      <3>2. M["free_queue"][1] = n
        BY <2>a DEF n
      <3>3. Nodes(z) = Nodes(t) \ {n}
        BY <2>3
      <3> HIDE DEF T
      <3> QED BY <2>1, <2>b, <3>1, <3>2, <3>3
    <2>7. /\ z.num_attached = u.num_attached - (i + 1) /\ z.queue_size = u.queue_size
          /\ z.alloc_cb = u.alloc_cb /\ z.impl = u.impl /\ z.uaf = u.uaf
      <3>1. /\ t.num_attached = u.num_attached - i /\ t.queue_size = u.queue_size
            /\ t.alloc_cb = u.alloc_cb /\ t.impl = u.impl /\ t.uaf = u.uaf
        BY <1>3 DEF Dropped
      <3>2. (u.num_attached - i) - 1 = u.num_attached - (i + 1)
        BY <1>0, SMTT(40)
      <3> QED BY <2>3, <3>1, <3>2
    <2>8. Ok(z, i + 1)
      <3>1. Good(z, T, p, c, o) /\ T["free_queue"] = SubSeq(w, (i + 1) + 1, Len(w))
        BY <2>3, <2>4
      <3> HIDE DEF T
      <3> QED BY <2>5, <2>6, <2>7, <3>1, Zenon DEF Dropped
    <2> QED BY <2>8 DEF z, n
  <1> DEFINE S == {i \in Nat : i <= k => Ok(v[i], i)}
  <1>4. 0 \in S
    BY <1>1, <1>2
  <1>5. ASSUME NEW i \in Nat, i \in S PROVE i + 1 \in S
    <2> HIDE DEF Ok
    <2>0. i + 1 \in Nat /\ (i + 1 <= k => i <= k /\ i + 1 \in 1 .. k /\ (i + 1) - 1 = i)
      BY <1>0
    <2> SUFFICES ASSUME i + 1 <= k PROVE Ok(v[i + 1], i + 1)
      BY <2>0
    <2>1. Ok(v[i], i)
      BY <1>5, <2>0
    <2>2. v[i + 1] = Detach(v[i], w[i + 1])
      <3> HIDE DEF w, x
      <3>1. i + 1 \in 1 .. k /\ (i + 1) - 1 = i
        BY <2>0
      <3>2. v[i + 1] = Detach(v[(i + 1) - 1], x[i + 1])
        BY <1>0, <1>1, <3>1
      <3> QED BY <1>0, <3>1, <3>2
    <2> QED BY <1>3, <2>1, <2>2
  <1>6. \A i \in Nat : i \in S
    <2> HIDE DEF S
    <2> QED BY <1>4, <1>5, Induct
  <1>7. Ok(v[k], k)
    <2> HIDE DEF Ok
    <2> QED BY <1>0, <1>6
  <1> QED BY <1>0, <1>1, <1>7

-----------------------------------------------------------------------------
(* Flush, reset, set_size with flush, and destroy.                         *)

\* The queue v is u after _queue_delete_node of the first i nodes of its list.
\* The links are followed and no freed node is touched if every node was on a
\* list.
Emptied(u, v, i) ==
    /\ v \in Queue /\ v.impl = u.impl /\ v.queue_size = u.queue_size /\ v.alloc_cb = u.alloc_cb
    /\ v.list = SubSeq(u.list, i + 1, Len(u.list)) /\ Once(v.list)
    /\ \A n \in Surface \ Nodes(v) : v.type[n] = "NONE"
    /\ ~IsSequence(u) => /\ Unused(v.heap)
                         /\ v.heap.next["dequeue_list"] = "dequeue_list"
                         /\ v.heap.prev["dequeue_list"] = "dequeue_list"
    /\ WellLinked(u.heap, Heads \cup Nodes(u)) =>
         WellLinked(v.heap, Heads \cup Nodes(v)) /\ v.uaf = u.uaf

\* One more node is deleted.
LEMMA EmptiedNext ==
    ASSUME NEW u \in Queue, NEW i \in Nat, i < Len(u.list), NEW t, Emptied(u, t, i)
    PROVE  Emptied(u, DeleteNode(t, u.list[i + 1]), i + 1)
  <1> DEFINE w == u.list
             n == w[i + 1]
             v == DeleteNode(t, n)
             h == ListDel(t.heap, n)
  <1>0. /\ w \in Seq(Surface) /\ Len(w) \in Nat /\ n \in Surface /\ t \in Queue
        /\ Heads \cap Surface = {} /\ i < Len(w)
    BY SurfaceQueueAssumption DEF Queue, Emptied
  <1>1. /\ SubSeq(w, i + 1, Len(w)) # << >> /\ SubSeq(w, i + 1, Len(w))[1] = n
        /\ Tail(SubSeq(w, i + 1, Len(w))) = SubSeq(w, i + 2, Len(w))
    <2> HIDE DEF w
    <2> QED BY <1>0, TailSubSeq
  <1>2. /\ t.list \in Seq(Surface) /\ t.list = SubSeq(w, i + 1, Len(w)) /\ Once(t.list)
        /\ t.list # << >> /\ t.list[1] = n
    <2>1. t.list = SubSeq(w, i + 1, Len(w)) /\ Once(t.list) /\ t.list \in Seq(Surface)
      BY <1>0 DEF Emptied, Queue
    <2> HIDE DEF w
    <2> QED BY <1>1, <2>1
  <1>3. n \in ToSet(t.list)
    <2> HIDE DEF n
    <2> QED BY <1>2, ToSetFacts
  <1>4. /\ RemoveFirst(t.list, n) = Tail(t.list) /\ Once(RemoveFirst(t.list, n))
        /\ ToSet(RemoveFirst(t.list, n)) = ToSet(t.list) \ {n}
    <2> HIDE DEF n, w
    <2> QED BY <1>2, <1>3, RemoveFirstFacts
  <1> HIDE DEF n
  <1>5. /\ v \in Queue /\ v.impl = t.impl /\ v.queue_size = t.queue_size /\ v.alloc_cb = t.alloc_cb
        /\ v.list = RemoveFirst(t.list, n) /\ v.heap = ListInitHead(h, n)
        /\ v.type = [t.type EXCEPT ![n] = "NONE"] /\ v.uaf = Pop(t, n).uaf
    BY <1>0, DeleteNodeFields
  <1>6. Pop(t, n).uaf = (t.uaf \/ ({n, t.heap.prev[n], t.heap.next[n]} \cap Surface)
                                       \ Nodes(t) # {})
    BY <1>0, PopFields
  <1> HIDE DEF v
  <1>7. v.list = SubSeq(w, (i + 1) + 1, Len(w)) /\ Once(v.list) /\ Nodes(v) = Nodes(t) \ {n}
    <2>1. (i + 1) + 1 = i + 2
      OBVIOUS
    <2>2. Tail(t.list) = SubSeq(w, i + 2, Len(w))
      BY <1>1, <1>2
    <2>3. v.list = SubSeq(w, i + 2, Len(w)) /\ Once(v.list)
      BY <1>4, <1>5, <2>2
    <2>4. Nodes(v) = Nodes(t) \ {n}
      BY <1>4, <1>5 DEF Nodes
    <2> HIDE DEF w
    <2> QED BY <2>1, <2>3, <2>4
  <1>8. \A m \in Surface \ Nodes(v) : v.type[m] = "NONE"
    <2>1. t.type \in [Surface -> NodeTypes] /\ \A m \in Surface \ Nodes(t) : t.type[m] = "NONE"
      BY <1>0 DEF Queue, Emptied
    <2> QED BY <1>0, <1>5, <1>7, <2>1
  <1>9. t.heap \in Heaps(Cells) /\ n \in Cells /\ n # "dequeue_list" /\ "dequeue_list" \in Cells
    BY <1>0, HeadNames DEF Queue, Cells
  <1>10. ASSUME ~IsSequence(u)
         PROVE  /\ Unused(v.heap)
                /\ v.heap.next["dequeue_list"] = "dequeue_list"
                /\ v.heap.prev["dequeue_list"] = "dequeue_list"
    <2>1. /\ Unused(t.heap) /\ t.heap.next["dequeue_list"] = "dequeue_list"
          /\ t.heap.prev["dequeue_list"] = "dequeue_list"
      BY <1>10 DEF Emptied
    <2>2. /\ h \in Heaps(Cells) /\ Unused(h) /\ h.next["dequeue_list"] = "dequeue_list"
          /\ h.prev["dequeue_list"] = "dequeue_list"
      BY <1>9, <2>1 DEF Unused, ListDel, Heaps
    <2> HIDE DEF h
    <2> QED BY <1>5, <1>9, <2>2 DEF Unused, ListInitHead, Heaps
  <1>11. ASSUME WellLinked(u.heap, Heads \cup Nodes(u))
         PROVE  WellLinked(v.heap, Heads \cup Nodes(v)) /\ v.uaf = u.uaf
    <2>0. Nodes(t) \subseteq Surface /\ n \in Nodes(t)
      BY <1>2, <1>3, ToSetFacts DEF Nodes
    <2> DEFINE A == Heads \cup Nodes(t)
    <2>1. WellLinked(t.heap, A) /\ t.uaf = u.uaf /\ A \in SUBSET Cells /\ n \in A
      BY <1>11, <2>0 DEF Emptied, Cells
    <2>2. Heads \cup Nodes(v) = A \ {n}
      BY <1>0, <1>7
    <2> HIDE DEF A
    <2>3. h \in Heaps(Cells) /\ WellLinked(h, A \ {n})
      BY <1>9, <2>1, DelWellLinked
    <2>4. WellLinked(ListInitHead(h, n), A \ {n})
      <3> HIDE DEF h
      <3>1. A \ {n} \in SUBSET Cells /\ n \in Cells \ (A \ {n})
        BY <1>9, <2>1
      <3> QED BY <2>3, <3>1, InitHeadWellLinked
    <2>5. {n, t.heap.prev[n], t.heap.next[n]} \subseteq A
      BY <2>1 DEF WellLinked
    <2>6. ({n, t.heap.prev[n], t.heap.next[n]} \cap Surface) \ Nodes(t) = {}
      BY <1>0, <2>5 DEF A
    <2>7. v.uaf = t.uaf
      <3>1. t.uaf \in BOOLEAN
        BY <1>0 DEF Queue
      <3> QED BY <1>5, <1>6, <2>6, <3>1
    <2> QED BY <1>5, <2>1, <2>2, <2>4, <2>7
  <1>12. Emptied(u, v, i + 1)
    BY <1>5, <1>7, <1>8, <1>10, <1>11 DEF Emptied
  <1> QED BY <1>12 DEF v, n

\* The loop deletes every node.
LEMMA DeleteAllNodes ==
    ASSUME NEW u, NEW L, QueueOK(u, L)
    PROVE  Emptied(u, FoldLeft(DeleteNode, u, u.list), Len(u.list))
  <1> DEFINE w == u.list
             k == Len(w)
             Ok(t, i) == Emptied(u, t, i)
  <1>0. u \in Queue /\ w \in Seq(Surface) /\ k \in Nat
    <2>1. u \in Queue /\ w \in Seq(Surface)
      BY DEF QueueOK, Queue
    <2> QED BY <2>1
  <1>1. PICK v : /\ v[0] = u
                 /\ \A i \in 1 .. Len(w) : v[i] = DeleteNode(v[i - 1], w[i])
                 /\ FoldLeft(DeleteNode, u, w) = v[Len(w)]
    <2>1. u \in Queue /\ w \in Seq(Surface)
      BY <1>0
    <2> HIDE DEF w
    <2> QED BY <2>1, DeleteNodeSteps, Zenon
  <1>2. Ok(u, 0)
    <2>1. SubSeq(w, 0 + 1, Len(w)) = w
      <3> HIDE DEF w
      <3> QED BY <1>0
    <2>2. ASSUME ~IsSequence(u)
          PROVE  /\ Unused(u.heap) /\ u.heap.next["dequeue_list"] = "dequeue_list"
                 /\ u.heap.prev["dequeue_list"] = "dequeue_list"
      <3>1. Unused(u.heap) /\ L["dequeue_list"] = << >>
        BY <2>2 DEF QueueOK
      <3>2. Chain(u.heap, "dequeue_list", << >>)
        <4>1. Chain(u.heap, "dequeue_list", L["dequeue_list"])
          BY HeadNames DEF QueueOK, Linked
        <4> QED BY <3>1, <4>1
      <3>3. Len(<< >>) = 0 /\ 0 \in 0 .. 0 /\ 0 \notin 1 .. 0 /\ 0 + 1 \notin 1 .. 0
        OBVIOUS
      <3> QED BY <3>1, <3>2, <3>3 DEF Chain, At
    <2> QED BY <1>0, <2>1, <2>2 DEF Emptied, QueueOK
  <1>3. ASSUME NEW i \in Nat, i + 1 <= k, NEW t, Ok(t, i) PROVE Ok(DeleteNode(t, w[i + 1]), i + 1)
    <2>1. i < Len(u.list)
      BY <1>0, <1>3
    <2> QED BY <1>0, <1>3, <2>1, EmptiedNext
  <1> DEFINE S == {i \in Nat : i <= k => Ok(v[i], i)}
  <1>4. 0 \in S
    BY <1>1, <1>2
  <1>5. ASSUME NEW i \in Nat, i \in S PROVE i + 1 \in S
    <2> HIDE DEF Ok
    <2>0. i + 1 \in Nat /\ (i + 1 <= k => i <= k /\ i + 1 \in 1 .. k /\ (i + 1) - 1 = i)
      BY <1>0
    <2> SUFFICES ASSUME i + 1 <= k PROVE Ok(v[i + 1], i + 1)
      BY <2>0
    <2>1. Ok(v[i], i)
      BY <1>5, <2>0
    <2>2. v[i + 1] = DeleteNode(v[i], w[i + 1])
      <3> HIDE DEF w
      <3>1. i + 1 \in 1 .. k /\ (i + 1) - 1 = i
        BY <2>0
      <3> QED BY <1>0, <1>1, <3>1
    <2> QED BY <1>3, <2>1, <2>2
  <1>6. \A i \in Nat : i \in S
    <2> HIDE DEF S
    <2> QED BY <1>4, <1>5, Induct
  <1>7. Ok(v[k], k)
    <2> HIDE DEF Ok
    <2> QED BY <1>0, <1>6
  <1> QED BY <1>1, <1>7

\* The lists of a queue without surfaces.
EmptyLines == [a \in Heads |-> << >>]

LEMMA EmptyGood ==
    ASSUME NEW v \in Queue, v.list = << >>, v.num_attached = 0,
           \A a \in Heads : v.heap.next[a] = a /\ v.heap.prev[a] = a,
           ~IsSequence(v) => Unused(v.heap), \A n \in Surface : v.type[n] = "NONE",
           NEW p, NEW c
    PROVE  Good(v, EmptyLines, p, c, << >>) /\ Nodes(v) = {}
  <1>1. << >> \in Seq(Surface) /\ Len(<< >>) = 0
    OBVIOUS
  <1>2. EmptyLines \in Lines /\ \A a \in Heads : EmptyLines[a] = << >>
    BY <1>1 DEF EmptyLines, Lines
  <1>3. Linked(v.heap, Heads, Surface, EmptyLines)
    BY LinkedEmpty DEF EmptyLines
  <1>4. Nodes(v) = {}
    BY <1>1, ToSetFacts DEF Nodes
  <1>5. \A n \in Surface : ~OnList(Heads, EmptyLines, n)
    BY <1>1, <1>2 DEF OnList
  <1>6. Once(v.list)
    BY <1>1 DEF Once
  <1>7. QueueOK(v, EmptyLines)
    BY <1>1, <1>2, <1>3, <1>4, <1>5, <1>6, HeadNames DEF QueueOK
  <1>8. Custody(v, EmptyLines, p, c) /\ FirstOut(v, EmptyLines)
    BY <1>2, <1>4, HeadNames DEF Custody, FirstOut
  <1>9. InOrder(v, EmptyLines, << >>)
    <2>1. << >> \o << >> = << >>
      OBVIOUS
    <2>2. EmptyLines["dirty_queue"] = << >> /\ EmptyLines["dequeue_list"] = << >>
      BY <1>2, HeadNames
    <2> QED BY <2>1, <2>2, Zenon DEF InOrder
  <1> QED BY <1>4, <1>7, <1>8, <1>9 DEF Good

\* _queue_init
LEMMA QueueInitFields ==
    ASSUME NEW u \in Queue, NEW a \in Heads
    PROVE  LET v == QueueInit(u, a)
           IN  /\ v \in Queue /\ SameNodes(u, v) /\ v.uaf = u.uaf
               /\ v.heap.next[a] = a /\ v.heap.prev[a] = a
               /\ \A b \in Cells : b # a => /\ v.heap.next[b] = u.heap.next[b]
                                            /\ v.heap.prev[b] = u.heap.prev[b]
  <1> DEFINE g == ListInitHead(u.heap, a)
             v == QueueInit(u, a)
  <1>1. /\ g \in Heaps(Cells) /\ g.next[a] = a /\ g.prev[a] = a
        /\ \A b \in Cells : b # a => g.next[b] = u.heap.next[b] /\ g.prev[b] = u.heap.prev[b]
    <2>1. u.heap \in Heaps(Cells) /\ a \in Cells
      BY DEF Queue, Cells
    <2> QED BY <2>1 DEF ListInitHead, Heaps
  <1>2. v = [u EXCEPT !.heap = g]
    BY DEF QueueInit
  <1> HIDE DEF g, v
  <1>3. v \in Queue /\ SameNodes(u, v) /\ v.uaf = u.uaf /\ v.heap = g
    BY <1>1, <1>2 DEF Queue, SameNodes
  <1> QED BY <1>1, <1>3 DEF v

\* Flush, reset, and set_size with flush.
LEMMA ClearAllGood ==
    ASSUME NEW u, NEW L, QueueOK(u, L), NEW p, NEW c
    PROVE  LET v == ClearAll(u)
           IN  /\ Good(v, EmptyLines, p, c, << >>) /\ Nodes(v) = {} /\ v.num_attached = 0
               /\ v.queue_size = u.queue_size /\ v.alloc_cb = u.alloc_cb /\ v.list = << >>
               /\ WellLinked(u.heap, Heads \cup Nodes(u)) => v.uaf = u.uaf
  <1> DEFINE d == FoldLeft(DeleteNode, u, u.list)
             f == QueueInit(d, "free_queue")
             e == QueueInit(f, "dirty_queue")
             r == [e EXCEPT !.list = << >>, !.num_attached = 0]
             v == IF IsSequence(u) THEN QueueInit(r, "dequeue_list") ELSE r
  <1>0. ClearAll(u) = v
    BY Zenon DEF ClearAll
  <1>1. Emptied(u, d, Len(u.list))
    BY DeleteAllNodes, Zenon
  <1> HIDE DEF d
  <1>2. /\ d \in Queue /\ d.impl = u.impl /\ d.queue_size = u.queue_size /\ d.alloc_cb = u.alloc_cb
        /\ \A n \in Surface : d.type[n] = "NONE"
        /\ ~IsSequence(u) => /\ Unused(d.heap)
                             /\ d.heap.next["dequeue_list"] = "dequeue_list"
                             /\ d.heap.prev["dequeue_list"] = "dequeue_list"
        /\ WellLinked(u.heap, Heads \cup Nodes(u)) => d.uaf = u.uaf
    <2>1. d.list = << >>
      <3>1. u.list \in Seq(Surface) /\ d.list = SubSeq(u.list, Len(u.list) + 1, Len(u.list))
        BY <1>1 DEF QueueOK, Queue, Emptied
      <3> QED BY <3>1
    <2>2. Nodes(d) = {}
      <3>1. << >> \in Seq(Surface)
        OBVIOUS
      <3> QED BY <2>1, <3>1, ToSetFacts DEF Nodes
    <2> QED BY <1>1, <2>2 DEF Emptied
  <1>a. "free_queue" \in Cells /\ "dirty_queue" \in Cells /\ "dequeue_list" \in Cells
    BY HeadNames DEF Cells
  <1>3. /\ f \in Queue /\ SameNodes(d, f) /\ f.uaf = d.uaf
        /\ f.heap.next["free_queue"] = "free_queue" /\ f.heap.prev["free_queue"] = "free_queue"
        /\ \A b \in Cells : b # "free_queue" => /\ f.heap.next[b] = d.heap.next[b]
                                                /\ f.heap.prev[b] = d.heap.prev[b]
    BY <1>2, QueueInitFields, HeadNames
  <1> HIDE DEF f
  <1>4. /\ e \in Queue /\ SameNodes(f, e) /\ e.uaf = f.uaf
        /\ e.heap.next["dirty_queue"] = "dirty_queue" /\ e.heap.prev["dirty_queue"] = "dirty_queue"
        /\ \A b \in Cells : b # "dirty_queue" => /\ e.heap.next[b] = f.heap.next[b]
                                                 /\ e.heap.prev[b] = f.heap.prev[b]
    BY <1>3, QueueInitFields, HeadNames
  <1> HIDE DEF e
  <1>5. /\ r \in Queue /\ r.list = << >> /\ r.num_attached = 0 /\ r.heap = e.heap /\ r.type = e.type
        /\ r.uaf = e.uaf /\ r.impl = e.impl /\ r.queue_size = e.queue_size /\ r.alloc_cb = e.alloc_cb
    <2>1. << >> \in Seq(Surface) /\ 0 \in Int
      OBVIOUS
    <2> DEFINE l == << >>
    <2> HIDE DEF l
    <2>2. l \in Seq(Surface)
      BY <2>1 DEF l
    <2>3. r = [e EXCEPT !.list = l, !.num_attached = 0]
      BY DEF l
    <2>4. /\ r \in Queue /\ r.list = l /\ r.num_attached = 0 /\ r.heap = e.heap /\ r.type = e.type
          /\ r.uaf = e.uaf /\ r.impl = e.impl /\ r.queue_size = e.queue_size
          /\ r.alloc_cb = e.alloc_cb
      <3> HIDE DEF r
      <3> QED BY <1>4, <2>1, <2>2, <2>3 DEF Queue
    <2> QED BY <2>4 DEF l
  <1> HIDE DEF r
  <1>6. /\ r.uaf = d.uaf /\ r.type = d.type /\ r.impl = u.impl /\ r.queue_size = u.queue_size
        /\ r.alloc_cb = u.alloc_cb
    BY <1>2, <1>3, <1>4, <1>5 DEF SameNodes
  <1>7. /\ r.heap.next["free_queue"] = "free_queue" /\ r.heap.prev["free_queue"] = "free_queue"
        /\ r.heap.next["dirty_queue"] = "dirty_queue" /\ r.heap.prev["dirty_queue"] = "dirty_queue"
        /\ \A b \in Cells : b \notin {"free_queue", "dirty_queue"} =>
             r.heap.next[b] = d.heap.next[b] /\ r.heap.prev[b] = d.heap.prev[b]
    BY <1>3, <1>4, <1>5, <1>a
  <1>8. CASE IsSequence(u)
    <2> DEFINE z == QueueInit(r, "dequeue_list")
    <2>1. /\ z \in Queue /\ SameNodes(r, z) /\ z.uaf = r.uaf
          /\ z.heap.next["dequeue_list"] = "dequeue_list" /\ z.heap.prev["dequeue_list"] = "dequeue_list"
          /\ \A b \in Cells : b # "dequeue_list" => /\ z.heap.next[b] = r.heap.next[b]
                                                    /\ z.heap.prev[b] = r.heap.prev[b]
      BY <1>5, QueueInitFields, HeadNames
    <2>2. v = z
      BY <1>8
    <2> HIDE DEF z, v
    <2>3. \A a \in Heads : z.heap.next[a] = a /\ z.heap.prev[a] = a
      BY <1>7, <1>a, <2>1, HeadNames
    <2>4. /\ z.list = << >> /\ z.num_attached = 0 /\ IsSequence(z)
          /\ (\A n \in Surface : z.type[n] = "NONE")
          /\ z.queue_size = u.queue_size /\ z.alloc_cb = u.alloc_cb /\ z.uaf = d.uaf
      BY <1>2, <1>5, <1>6, <1>8, <2>1 DEF SameNodes, IsSequence
    <2>5. Good(z, EmptyLines, p, c, << >>) /\ Nodes(z) = {}
      BY <2>1, <2>3, <2>4, EmptyGood
    <2> QED BY <1>0, <1>2, <2>2, <2>4, <2>5
  <1>9. CASE ~IsSequence(u)
    <2>2. v = r
      BY <1>9
    <2> HIDE DEF v
    <2>3. \A a \in Heads : r.heap.next[a] = a /\ r.heap.prev[a] = a
      BY <1>2, <1>7, <1>9, <1>a, HeadNames
    <2>4. (\A n \in Surface : r.type[n] = "NONE") /\ r.uaf = d.uaf
      BY <1>2, <1>6
    <2>5. Unused(r.heap)
      <3> SUFFICES ASSUME NEW b \in Cells \ {"dequeue_list"}
                   PROVE  r.heap.next[b] # "dequeue_list" /\ r.heap.prev[b] # "dequeue_list"
        BY DEF Unused
      <3>1. CASE b \in {"free_queue", "dirty_queue"}
        BY <1>7, <3>1
      <3>2. CASE b \notin {"free_queue", "dirty_queue"}
        BY <1>2, <1>7, <1>9, <3>2 DEF Unused
      <3> QED BY <3>1, <3>2
    <2>6. Good(r, EmptyLines, p, c, << >>) /\ Nodes(r) = {}
      BY <1>5, <2>3, <2>4, <2>5, EmptyGood
    <2> QED BY <1>0, <1>2, <1>5, <1>6, <2>2, <2>4, <2>6
  <1> QED BY <1>8, <1>9

\* A queue as _tbm_surface_queue_init leaves it.
Blank(v) == v.list = << >> /\ v.num_attached = 0 /\ v.alloc_cb = FALSE

LEMMA NewQueueGood ==
    ASSUME NEW size \in Nat, NEW impl \in {"default", "sequence"}, NEW b \in BOOLEAN,
           NEW p, NEW c
    PROVE  LET v == [NewQueue(size, impl) EXCEPT !.uaf = b]
           IN  /\ Good(v, EmptyLines, p, c, << >>) /\ Nodes(v) = {} /\ Blank(v)
               /\ v.queue_size = size /\ v.uaf = b /\ (b = FALSE => v = NewQueue(size, impl))
  <1> DEFINE v == [NewQueue(size, impl) EXCEPT !.uaf = b]
             h == [next |-> [x \in Cells |-> x], prev |-> [x \in Cells |-> x]]
             l == << >>
             ty == [s \in Surface |-> "NONE"]
             fl == [s \in Surface |-> 0]
  <1>1. /\ h \in Heaps(Cells) /\ \A x \in Cells : h.next[x] = x /\ h.prev[x] = x
    BY DEF Heaps
  <1>2. /\ l \in Seq(Surface) /\ ty \in [Surface -> NodeTypes] /\ fl \in [Surface -> {0, 1}]
        /\ \A n \in Surface : ty[n] = "NONE"
    BY DEF NodeTypes
  <1> DEFINE x == [impl |-> impl, queue_size |-> size, num_attached |-> 0, alloc_cb |-> FALSE,
                   heap |-> h, list |-> l, type |-> ty, priv_flags |-> fl, uaf |-> FALSE]
  <1>3. NewQueue(size, impl) = x
    BY Zenon DEF NewQueue
  <1>4. l = << >>
    OBVIOUS
  <1> HIDE DEF h, l, ty, fl
  <1>a. v = [x EXCEPT !.uaf = b]
    BY <1>3
  <1> HIDE DEF v
  <1>5. /\ v \in Queue /\ v.list = l /\ v.num_attached = 0 /\ v.queue_size = size
        /\ v.alloc_cb = FALSE /\ v.uaf = b /\ v.heap = h /\ v.type = ty
    <2>1. v = [impl |-> impl, queue_size |-> size, num_attached |-> 0, alloc_cb |-> FALSE,
               heap |-> h, list |-> l, type |-> ty, priv_flags |-> fl, uaf |-> b]
      BY <1>a
    <2>2. v \in Queue
      BY <1>1, <1>2, <2>1 DEF Queue
    <2> QED BY <2>1, <2>2
  <1>b. b = FALSE => v = x
    BY <1>a
  <1>6. \A a \in Heads : v.heap.next[a] = a /\ v.heap.prev[a] = a
    BY <1>1, <1>5 DEF Cells
  <1>7. Unused(v.heap)
    BY <1>1, <1>5 DEF Unused
  <1>8. Good(v, EmptyLines, p, c, << >>) /\ Nodes(v) = {}
    BY <1>2, <1>4, <1>5, <1>6, <1>7, EmptyGood
  <1> QED BY <1>3, <1>4, <1>5, <1>8, <1>b DEF v, Blank

\* queue_size and alloc_cb have no part in the lists.
LEMMA GoodSame ==
    ASSUME NEW u, NEW L, NEW p, NEW c, NEW o, Good(u, L, p, c, o), NEW v \in Queue,
           v.impl = u.impl, v.num_attached = u.num_attached, v.heap = u.heap,
           v.list = u.list, v.type = u.type, v.priv_flags = u.priv_flags
    PROVE  Good(v, L, p, c, o) /\ Nodes(v) = Nodes(u)
  <1>1. Nodes(v) = Nodes(u) /\ (IsSequence(v) <=> IsSequence(u))
    BY DEF Nodes, IsSequence
  <1>2. QueueOK(v, L)
    BY <1>1 DEF Good, QueueOK
  <1>3. Custody(v, L, p, c)
    BY <1>1 DEF Good, Custody, Kept
  <1>4. FirstOut(v, L) /\ InOrder(v, L, o)
    BY <1>1 DEF Good, FirstOut, InOrder
  <1> QED BY <1>1, <1>2, <1>3, <1>4 DEF Good

LEMMA ResizedGood ==
    ASSUME NEW u, NEW L, NEW p, NEW c, NEW o, Good(u, L, p, c, o), NEW size \in Nat
    PROVE  LET v == [u EXCEPT !.queue_size = size]
           IN  /\ Good(v, L, p, c, o) /\ Nodes(v) = Nodes(u) /\ v.list = u.list
               /\ v.num_attached = u.num_attached /\ v.alloc_cb = u.alloc_cb
               /\ v.uaf = u.uaf /\ v.queue_size = size
  <1> DEFINE v == [u EXCEPT !.queue_size = size]
  <1>1. u \in Queue
    BY DEF Good, QueueOK
  <1>2. /\ v \in Queue /\ v.impl = u.impl /\ v.num_attached = u.num_attached /\ v.heap = u.heap
        /\ v.list = u.list /\ v.type = u.type /\ v.priv_flags = u.priv_flags
        /\ v.alloc_cb = u.alloc_cb /\ v.uaf = u.uaf /\ v.queue_size = size
    BY <1>1 DEF Queue
  <1> HIDE DEF v
  <1>3. Good(v, L, p, c, o) /\ Nodes(v) = Nodes(u)
    BY <1>2, GoodSame
  <1> QED BY <1>2, <1>3 DEF v

LEMMA AllocCbGood ==
    ASSUME NEW u, NEW L, NEW p, NEW c, NEW o, Good(u, L, p, c, o), NEW on \in BOOLEAN
    PROVE  LET v == [u EXCEPT !.alloc_cb = on]
           IN  /\ Good(v, L, p, c, o) /\ Nodes(v) = Nodes(u) /\ v.list = u.list
               /\ v.num_attached = u.num_attached /\ v.alloc_cb = on
               /\ v.uaf = u.uaf /\ v.queue_size = u.queue_size
  <1> DEFINE v == [u EXCEPT !.alloc_cb = on]
  <1>1. u \in Queue
    BY DEF Good, QueueOK
  <1>2. /\ v \in Queue /\ v.impl = u.impl /\ v.num_attached = u.num_attached /\ v.heap = u.heap
        /\ v.list = u.list /\ v.type = u.type /\ v.priv_flags = u.priv_flags
        /\ v.alloc_cb = on /\ v.uaf = u.uaf /\ v.queue_size = u.queue_size
    BY <1>1 DEF Queue
  <1> HIDE DEF v
  <1>3. Good(v, L, p, c, o) /\ Nodes(v) = Nodes(u)
    BY <1>2, GoodSame
  <1> QED BY <1>2, <1>3 DEF v

\* When nobody holds a surface every node is on a list, so that its links lead
\* to other nodes.
LEMMA QuietLinked ==
    ASSUME NEW u, NEW L, NEW p, NEW c, NEW o, Good(u, L, p, c, o), (p \cup c) \cap Nodes(u) = {}
    PROVE  WellLinked(u.heap, Heads \cup Nodes(u))
  <1>1. QueueOK(u, L) /\ Linked(u.heap, Heads, Surface, L) /\ Heads \cap Surface = {}
    BY SurfaceQueueAssumption DEF Good, QueueOK
  <1>2. \A n \in Nodes(u) : \E a \in Heads : n \in ToSet(L[a])
    BY DEF Good, Custody, Kept
  <1>3. \A n \in Nodes(u) : n \in Surface /\ OnList(Heads, L, n)
    BY <1>1, <1>2, ListFacts
  <1>4. Nodes(u) = {n \in Surface : OnList(Heads, L, n)}
    BY <1>1, <1>3 DEF QueueOK
  <1> QED BY <1>1, <1>4, LinkedWellLinked

-----------------------------------------------------------------------------
(* The actions.                                                            *)

\* Clients of whom the promises can be kept: nobody shrinks the queue by more
\* surfaces than are free (release would then delete nodes through the stale
\* links that list_del leaves), and with an alloc_cb there is one producer
\* (two that are inside alloc_cb at a time both attach their surface).
TameClients ==
    \A x \in Manners :
      /\ "shrink_busy" \notin x.liberties
      /\ x.alloc_cb => \A a, b \in Producers : a = b

\* What an operation on the queue u with the lists L, which leaves v with the
\* lists M, does to the two waiting lines and to the set of nodes.
Attaches(u, L, v, M) ==
    \E s \in Surface \ Nodes(u) :
      /\ u.num_attached < u.queue_size /\ Nodes(v) = Nodes(u) \cup {s}
      /\ M["free_queue"] \in {Append(L["free_queue"], s), Tail(Append(L["free_queue"], s))}
      /\ M["dirty_queue"] = L["dirty_queue"] /\ v.queue_size = u.queue_size

Passes(u, L, v, M) ==
    /\ Nodes(v) = Nodes(u) /\ v.queue_size = u.queue_size
    /\ \/ M["free_queue"] = L["free_queue"] /\ M["dirty_queue"] = L["dirty_queue"]
       \/ /\ L["free_queue"] # << >> /\ M["free_queue"] = Tail(L["free_queue"])
          /\ M["dirty_queue"] = L["dirty_queue"]
       \/ /\ L["dirty_queue"] # << >> /\ M["dirty_queue"] = Tail(L["dirty_queue"])
          /\ M["free_queue"] = L["free_queue"]
       \/ \E s \in Nodes(u) \ (ToSet(L["free_queue"]) \cup ToSet(L["dirty_queue"])) :
            M["free_queue"] = Append(L["free_queue"], s) /\ M["dirty_queue"] = L["dirty_queue"]
       \/ \E w \in Seq(Surface) :
            M["dirty_queue"] = L["dirty_queue"] \o w /\ M["free_queue"] = L["free_queue"]

Resizes(u, L, v, M) ==
    \E n \in 0 .. Len(L["free_queue"]) :
      /\ u.num_attached - n <= v.queue_size
      /\ M["free_queue"] = SubSeq(L["free_queue"], n + 1, Len(L["free_queue"]))
      /\ M["dirty_queue"] = L["dirty_queue"]
      /\ Nodes(v) \ ToSet(M["free_queue"]) = Nodes(u) \ ToSet(L["free_queue"])

Shift(u, L, v, M) ==
    Attaches(u, L, v, M) \/ Passes(u, L, v, M) \/ Resizes(u, L, v, M) \/ Nodes(v) = {}

\* A step of the queue.
Step == Shift(q, QueueLines, q', QueueLines')

\* The invariant follows from the lists the step leaves.
LEMMA StepDone ==
    ASSUME NEW M, Good(q', M, prod', cons', order'), Shift(q, QueueLines, q', M),
           Clients', Room', NoUseAfterFree'
    PROVE  IInv' /\ Step
  <1>1. QueueOK(q', M)
    BY DEF Good
  <1>2. M = [a \in Heads |-> Walk(q', a)]
    BY <1>1, SameLines
  <1>3. M = QueueLines'
    BY <1>2 DEF QueueLines
  <1> QED BY <1>3 DEF IInv, Step

\* With an alloc_cb the producer that is not inside it is the only one.
LEMMA Alone ==
    ASSUME TameClients, Clients, NEW p \in Producers
    PROVE  /\ manner.alloc_cb => \A a \in Producers : a = p
           /\ allocating[p] = "no" => NoneAllocating
           /\ allocating[p] # "no" => ~NoneAllocating /\ manner.alloc_cb
           /\ "shrink_busy" \notin manner.liberties
           /\ manner.surfaces \subseteq Surface
  <1>1. manner \in Manner /\ (manner.alloc_cb => \A a, b \in Producers : a = b)
        /\ "shrink_busy" \notin manner.liberties
    BY SurfaceQueueAssumption DEF TameClients, Clients
  <1>2. manner.surfaces \subseteq Surface
    BY <1>1 DEF Manner
  <1> QED BY <1>1, <1>2 DEF Clients, NoneAllocating

\* What the invariant says of the queue.
LEMMA QueueFacts ==
    ASSUME IInv
    PROVE  /\ Good(q, QueueLines, prod, cons, order) /\ QueueOK(q, QueueLines) /\ q \in Queue
           /\ QueueLines \in Lines
           /\ q.num_attached \in Nat /\ q.queue_size \in Nat /\ q.num_attached <= q.queue_size
           /\ q.alloc_cb \in BOOLEAN /\ q.uaf \in BOOLEAN
           /\ Nodes(q) \subseteq Surface /\ manner \in Manner
  <1>1. Good(q, QueueLines, prod, cons, order) /\ QueueOK(q, QueueLines)
    BY DEF IInv, Good
  <1>2. /\ q \in Queue /\ QueueLines \in Lines /\ q.list \in Seq(Surface)
        /\ q.num_attached = Len(q.list) /\ q.queue_size \in Nat /\ q.alloc_cb \in BOOLEAN
        /\ q.uaf \in BOOLEAN
    BY <1>1 DEF QueueOK, Queue
  <1>3. q.num_attached \in Nat
    BY <1>2
  <1>4. q.num_attached <= q.queue_size
    <2>1. q.num_attached + (IF NoneAllocating THEN 0 ELSE 1) <= q.queue_size
      BY DEF IInv, Room
    <2>2. CASE NoneAllocating
      BY <1>2, <1>3, <2>1, <2>2
    <2>3. CASE ~NoneAllocating
      BY <1>2, <1>3, <2>1, <2>3
    <2> QED BY <2>2, <2>3
  <1>5. Nodes(q) \subseteq Surface
    BY <1>1, ListFacts
  <1>6. manner \in Manner
    BY SurfaceQueueAssumption DEF IInv, Clients
  <1> QED BY <1>1, <1>2, <1>3, <1>4, <1>5, <1>6

\* The initial states.
LEMMA InitInv == Init => IInv
  <1> SUFFICES ASSUME Init PROVE IInv
    OBVIOUS
  <1>1. PICK size \in Sizes, impl \in manner.impls : q = NewQueue(size, impl)
    BY DEF Init
  <1>2. /\ size \in Nat /\ impl \in {"default", "sequence"} /\ manner \in Manners
    BY SurfaceQueueAssumption DEF Init, Manner
  <1> DEFINE b == FALSE
             v == [NewQueue(size, impl) EXCEPT !.uaf = b]
  <1>3. b \in BOOLEAN /\ b = FALSE
    OBVIOUS
  <1> HIDE DEF b
  <1>4. /\ Good(v, EmptyLines, prod, cons, << >>) /\ v = NewQueue(size, impl)
        /\ v.list = << >> /\ v.num_attached = 0 /\ v.queue_size = size
        /\ v.alloc_cb = FALSE /\ v.uaf = FALSE
    <2>1. Good(v, EmptyLines, prod, cons, << >>)
      BY <1>2, <1>3, NewQueueGood
    <2>2. v = NewQueue(size, impl)
      BY <1>2, <1>3, NewQueueGood, ZenonT(30)
    <2> HIDE DEF v
    <2> QED BY <2>1, <2>2 DEF NewQueue
  <1> HIDE DEF v
  <1>5. q = v
    BY <1>1, <1>4
  <1>6. NoneAllocating /\ allocating \in [Producers -> {"no", "dequeue", "can_dequeue"}]
    BY DEF Init, NoneAllocating
  <1>7. Clients
    BY <1>2, <1>4, <1>5, <1>6 DEF Init, Clients
  <1>8. Room /\ NoUseAfterFree
    BY <1>2, <1>4, <1>5, <1>6 DEF Room, NoUseAfterFree
  <1>9. Good(q, QueueLines, prod, cons, order)
    <2>1. Good(q, EmptyLines, prod, cons, order)
      BY <1>4, <1>5 DEF Init
    <2>2. EmptyLines = QueueLines
      BY <2>1, SameLines DEF Good, QueueLines
    <2> QED BY <2>1, <2>2
  <1> QED BY <1>7, <1>8, <1>9 DEF IInv

\* An operation that keeps the nodes.
LEMMA PassDone ==
    ASSUME IInv, NEW M, Good(q', M, prod', cons', order'), Frame(q, q'),
           Passes(q, QueueLines, q', M), UNCHANGED <<valid, allocating, manner>>,
           prod' \subseteq Surface, cons' \subseteq Surface
    PROVE  IInv' /\ Step
  <1>1. Clients'
    BY DEF IInv, Clients, Frame, NoneAllocating
  <1>2. Room' /\ NoUseAfterFree'
    BY DEF IInv, Room, NoUseAfterFree, Frame, NoneAllocating
  <1>3. Shift(q, QueueLines, q', M)
    BY DEF Shift
  <1> QED BY <1>1, <1>2, <1>3, StepDone

\* tbm_surface_queue_acquire
LEMMA AcquireStep ==
    ASSUME IInv, Acquire
    PROVE  IInv' /\ Step
  <1> DEFINE L == QueueLines
             n == L["dirty_queue"][1]
             M == Take(L, "dirty_queue")
  <1>1. Good(q, L, prod, cons, order) /\ QueueOK(q, L) /\ L \in Lines /\ Nodes(q) \subseteq Surface
    BY QueueFacts
  <1> HIDE DEF L
  <1>2. L["dirty_queue"] # << >> /\ q.heap.next["dirty_queue"] = n
    BY <1>1, ListFacts, HeadNames DEF Acquire
  <1>3. /\ q' = [Pop(q, n) EXCEPT !.type[n] = "ACQUIRE"] /\ cons' = cons \cup {n}
        /\ order' = RemoveFirst(order, n) /\ prod' = prod
    BY <1>2 DEF Acquire
  <1>4. Good(q', M, prod', cons', order') /\ Frame(q, q') /\ n \in Nodes(q)
    BY <1>1, <1>2, <1>3, AcquireGood
  <1>5. M["dirty_queue"] = Tail(L["dirty_queue"]) /\ M["free_queue"] = L["free_queue"]
    BY <1>1, <1>2, TakeLines, HeadNames
  <1>6. Passes(q, L, q', M)
    <2>1. Nodes(q') = Nodes(q) /\ q'.queue_size = q.queue_size
      BY <1>4 DEF Frame, Nodes
    <2> HIDE DEF M
    <2> QED BY <1>2, <1>5, <2>1 DEF Passes
  <1>7. prod' \subseteq Surface /\ cons' \subseteq Surface
    BY <1>1, <1>3, <1>4 DEF IInv, Clients
  <1>8. UNCHANGED <<valid, allocating, manner>>
    BY DEF Acquire
  <1> HIDE DEF M
  <1> QED BY <1>4, <1>6, <1>7, <1>8, PassDone DEF L

\* tbm_surface_queue_enqueue
LEMMA EnqueueStep ==
    ASSUME IInv, NEW s \in manner.surfaces, Enqueue(s)
    PROVE  IInv' /\ Step
  <1> DEFINE L == QueueLines
  <1>1. /\ Good(q, L, prod, cons, order) /\ QueueOK(q, L) /\ L \in Lines
        /\ Nodes(q) \subseteq Surface /\ manner \in Manner
    BY QueueFacts
  <1>2. s \in Surface
    BY <1>1 DEF Manner
  <1>3. /\ prod' = prod \ {s} /\ cons' = cons \ {s} /\ (s \in cons => MayCancel)
        /\ UNCHANGED <<valid, allocating, manner>>
    BY DEF Enqueue
  <1>4. prod' \subseteq Surface /\ cons' \subseteq Surface
    BY <1>3 DEF IInv, Clients
  <1> HIDE DEF L
  <1>5. CASE GetNode(q, s) # "NODE_LIST"
    <2>1. q' = q /\ order' = order
      BY <1>5 DEF Enqueue
    <2>2. s \in Nodes(q) => s \in ToSet(L["free_queue"]) \cup ToSet(L["dirty_queue"])
      BY <1>1, <1>5, GetNodeIs
    <2>3. Good(q', L, prod', cons', order')
      BY <1>1, <1>3, <2>1, <2>2, DropGood
    <2>4. Frame(q, q') /\ Passes(q, L, q', L)
      BY <2>1 DEF Frame, Passes
    <2> QED BY <1>3, <1>4, <2>3, <2>4, PassDone DEF L
  <1>6. CASE GetNode(q, s) = "NODE_LIST" /\ IsSequence(q)
    <2> DEFINE t == SequenceEnqueue(q, s)
    <2>1. /\ q' = (IF IsEmpty(t, "dirty_queue") THEN t ELSE [t EXCEPT !.type[s] = "ENQUEUE"])
          /\ order' = order
      <3> HIDE DEF t
      <3>1. ImplEnqueue(q, s) = t
        BY <1>6 DEF ImplEnqueue, t
      <3> QED BY <1>6, <3>1 DEF Enqueue
    <2>2. s \in Nodes(q) \ (ToSet(L["free_queue"]) \cup ToSet(L["dirty_queue"]))
      BY <1>1, <1>6, GetNodeIs
    <2>3. s \in ToSet(L["dequeue_list"])
      <3>1. s \notin cons
        BY <1>3, <1>6 DEF MayCancel
      <3>2. Kept(q, L, prod, cons, s)
        BY <1>1, <2>2 DEF Good, Custody
      <3> QED BY <1>6, <2>2, <3>1, <3>2, HeadNames DEF Kept
    <2>4. PICK k \in 0 .. Len(L["dequeue_list"]) :
            Good(q', Moved(L, k), prod', cons', order') /\ Frame(q, q')
      BY <1>1, <1>3, <1>6, <2>1, <2>3, SequenceEnqueueGood
    <2> DEFINE M == Moved(L, k)
               w == SubSeq(L["dequeue_list"], 1, k)
    <2>5. M["dirty_queue"] = L["dirty_queue"] \o w /\ M["free_queue"] = L["free_queue"]
      BY <1>1, MovedLines
    <2>6. w \in Seq(Surface)
      <3>1. L["dequeue_list"] \in Seq(Surface)
        BY <1>1, HeadNames DEF Lines
      <3> QED BY <3>1
    <2>7. Passes(q, L, q', M)
      <3>1. Nodes(q') = Nodes(q) /\ q'.queue_size = q.queue_size
        BY <2>4 DEF Frame, Nodes
      <3> HIDE DEF M, w
      <3> QED BY <2>5, <2>6, <3>1 DEF Passes
    <2>8. Good(q', M, prod', cons', order') /\ Frame(q, q')
      BY <2>4
    <2> HIDE DEF M, w
    <2> QED BY <1>3, <1>4, <2>7, <2>8, PassDone DEF L
  <1>7. CASE GetNode(q, s) = "NODE_LIST" /\ ~IsSequence(q)
    <2> DEFINE t == PushBack(q, "dirty_queue", s)
               M == Put(L, "dirty_queue", s)
    <2>1. s \in Nodes(q) \ (ToSet(L["free_queue"]) \cup ToSet(L["dirty_queue"]))
      BY <1>1, <1>7, GetNodeIs
    <2>2. \A b \in Heads : s \notin ToSet(L[b])
      <3>1. L["dequeue_list"] = << >>
        BY <1>1, <1>7 DEF QueueOK
      <3>2. << >> \in Seq(Surface)
        OBVIOUS
      <3>3. ToSet(<< >>) = {}
        BY <3>2, ToSetFacts
      <3> QED BY <2>1, <3>1, <3>3, HeadNames
    <2>3. M["dirty_queue"] = Append(L["dirty_queue"], s) /\ M["free_queue"] = L["free_queue"]
      BY <1>1, <1>2, PutLines, HeadNames
    <2>4. ~IsEmpty(t, "dirty_queue")
      <3>1. QueueOK(t, M)
        BY <1>1, <2>1, <2>2, PushBackOK, HeadNames
      <3>2. Append(L["dirty_queue"], s) # << >>
        <4>1. L["dirty_queue"] \in Seq(Surface)
          BY <1>1, HeadNames DEF Lines
        <4> QED BY <1>2, <4>1
      <3>3. M["dirty_queue"] # << >>
        BY <2>3, <3>2
      <3> HIDE DEF t, M
      <3> QED BY <3>1, <3>3, ListFacts, HeadNames
    <2>5. q' = [t EXCEPT !.type[s] = "ENQUEUE"] /\ order' = Append(order, s)
      <3> HIDE DEF t
      <3>1. ImplEnqueue(q, s) = t
        BY <1>7 DEF ImplEnqueue, t
      <3> QED BY <1>7, <2>4, <3>1 DEF Enqueue
    <2>6. Good(q', M, prod', cons', order') /\ Frame(q, q')
      <3>1. /\ "dirty_queue" \in {"free_queue", "dirty_queue"} /\ "ENQUEUE" \in {"ENQUEUE", "RELEASE"}
            /\ s \in Nodes(q)
        BY <2>1
      <3>2. LET v == [PushBack(q, "dirty_queue", s) EXCEPT !.type[s] = "ENQUEUE"]
            IN  /\ Good(v, Put(L, "dirty_queue", s), prod \ {s}, cons \ {s},
                        IF "dirty_queue" = "dirty_queue" THEN Append(order, s) ELSE order)
                /\ Frame(q, v)
        BY <1>1, <1>7, <2>2, <3>1, GiveBackGood
      <3> QED BY <1>3, <2>5, <3>2
    <2>7. Passes(q, L, q', M)
      <3>1. Nodes(q') = Nodes(q) /\ q'.queue_size = q.queue_size
        BY <2>6 DEF Frame, Nodes
      <3>2. L["dirty_queue"] \in Seq(Surface) /\ <<s>> \in Seq(Surface)
        BY <1>1, <1>2, HeadNames DEF Lines
      <3>3. Append(L["dirty_queue"], s) = L["dirty_queue"] \o <<s>>
        BY <1>2, <3>2
      <3> HIDE DEF M
      <3> QED BY <2>3, <3>1, <3>2, <3>3 DEF Passes
    <2> HIDE DEF M, t
    <2> QED BY <1>3, <1>4, <2>6, <2>7, PassDone DEF L
  <1> QED BY <1>5, <1>6, <1>7

\* tbm_surface_queue_release
LEMMA ReleaseStep ==
    ASSUME IInv, NEW s \in manner.surfaces, Release(s)
    PROVE  IInv' /\ Step
  <1> DEFINE L == QueueLines
  <1>1. /\ Good(q, L, prod, cons, order) /\ QueueOK(q, L) /\ L \in Lines
        /\ Nodes(q) \subseteq Surface /\ manner \in Manner
        /\ q.num_attached \in Nat /\ q.queue_size \in Nat /\ q.num_attached <= q.queue_size
    BY QueueFacts
  <1>2. s \in Surface
    BY <1>1 DEF Manner
  <1>3. /\ prod' = prod \ {s} /\ cons' = cons \ {s} /\ order' = order
        /\ (s \notin cons => MayCancel \/ GetNode(q, s) # "NODE_LIST")
        /\ UNCHANGED <<valid, allocating, manner>>
    BY DEF Release
  <1>4. prod' \subseteq Surface /\ cons' \subseteq Surface
    BY <1>3 DEF IInv, Clients
  <1> HIDE DEF L
  <1>5. CASE GetNode(q, s) # "NODE_LIST"
    <2>1. q' = q
      BY <1>5 DEF Release
    <2>2. s \in Nodes(q) => s \in ToSet(L["free_queue"]) \cup ToSet(L["dirty_queue"])
      BY <1>1, <1>5, GetNodeIs
    <2>3. Good(q', L, prod', cons', order')
      BY <1>1, <1>3, <2>1, <2>2, DropGood
    <2>4. Frame(q, q') /\ Passes(q, L, q', L)
      BY <2>1 DEF Frame, Passes
    <2> QED BY <1>3, <1>4, <2>3, <2>4, PassDone DEF L
  <1>6. CASE GetNode(q, s) = "NODE_LIST"
    <2> DEFINE t == PushBack(q, "free_queue", s)
               M == Put(L, "free_queue", s)
    <2>1. s \in Nodes(q) \ (ToSet(L["free_queue"]) \cup ToSet(L["dirty_queue"]))
      BY <1>1, <1>6, GetNodeIs
    <2>2. \A b \in Heads : s \notin ToSet(L[b])
      <3>1. CASE s \in cons
        <4>1. Kept(q, L, prod, cons, s)
          BY <1>1, <2>1 DEF Good, Custody
        <4> QED BY <2>1, <3>1, <4>1, HeadNames DEF Kept
      <3>2. CASE s \notin cons
        <4>1. L["dequeue_list"] = << >>
          BY <1>1, <1>3, <1>6, <3>2 DEF QueueOK, MayCancel
        <4>2. << >> \in Seq(Surface)
          OBVIOUS
        <4>3. ToSet(<< >>) = {}
          BY <4>2, ToSetFacts
        <4> QED BY <2>1, <4>1, <4>3, HeadNames
      <3> QED BY <3>1, <3>2
    <2>3. M["free_queue"] = Append(L["free_queue"], s) /\ M["dirty_queue"] = L["dirty_queue"]
      BY <1>1, <1>2, PutLines, HeadNames
    <2>5. q' = [t EXCEPT !.type[s] = "RELEASE"]
      <3>1. ~(q.queue_size < q.num_attached)
        BY <1>1
      <3> QED BY <1>6, <3>1 DEF Release
    <2>6. Good(q', M, prod', cons', order') /\ Frame(q, q')
      <3>1. /\ "free_queue" \in {"free_queue", "dirty_queue"} /\ "RELEASE" \in {"ENQUEUE", "RELEASE"}
            /\ s \in Nodes(q)
        BY <2>1
      <3>2. LET v == [PushBack(q, "free_queue", s) EXCEPT !.type[s] = "RELEASE"]
            IN  /\ Good(v, Put(L, "free_queue", s), prod \ {s}, cons \ {s},
                        IF "free_queue" = "dirty_queue" THEN Append(order, s) ELSE order)
                /\ Frame(q, v)
        BY <1>1, <2>2, <3>1, GiveBackGood
      <3> QED BY <1>3, <2>5, <3>2
    <2>7. Passes(q, L, q', M)
      <3>1. Nodes(q') = Nodes(q) /\ q'.queue_size = q.queue_size
        BY <2>6 DEF Frame, Nodes
      <3> HIDE DEF M
      <3> QED BY <2>1, <2>3, <3>1 DEF Passes
    <2> HIDE DEF M, t
    <2> QED BY <1>3, <1>4, <2>6, <2>7, PassDone DEF L
  <1> QED BY <1>5, <1>6

\* dequeue or can_dequeue up to the call of alloc_cb: a place is kept.
LEMMA CallAllocCbStep ==
    ASSUME TameClients, IInv, NEW p \in Producers, NEW call \in {"dequeue", "can_dequeue"},
           CallAllocCb(p, call)
    PROVE  IInv' /\ Step
  <1> DEFINE L == QueueLines
  <1>1. /\ Good(q, L, prod, cons, order)
        /\ q.num_attached \in Nat /\ q.queue_size \in Nat /\ q.num_attached <= q.queue_size
    BY QueueFacts
  <1>2. /\ q' = q /\ prod' = prod /\ cons' = cons /\ order' = order /\ valid' = valid
        /\ manner' = manner /\ allocating' = [allocating EXCEPT ![p] = call]
        /\ valid /\ ~Full(q) /\ q.alloc_cb
    BY DEF CallAllocCb, CallsAllocCb
  <1>3. Clients'
    BY <1>2 DEF IInv, Clients, NoneAllocating
  <1>4. Room'
    <2>1. q.num_attached + 1 <= q.queue_size
      BY <1>1, <1>2 DEF Full
    <2>2. q'.num_attached + (IF NoneAllocating' THEN 0 ELSE 1) <= q'.queue_size
      <3>1. CASE NoneAllocating'
        BY <1>1, <1>2, <3>1
      <3>2. CASE ~NoneAllocating'
        BY <1>2, <2>1, <3>2
      <3> QED BY <3>1, <3>2
    <2> QED BY <2>2 DEF Room
  <1>5. NoUseAfterFree'
    BY <1>2 DEF IInv, NoUseAfterFree
  <1>6. Shift(q, L, q', L)
    BY <1>2 DEF Shift, Passes
  <1> HIDE DEF L
  <1>7. Good(q', L, prod', cons', order')
    BY <1>1, <1>2
  <1> QED BY <1>3, <1>4, <1>5, <1>6, <1>7, StepDone DEF L

\* tbm_surface_queue_set_alloc_cb
LEMMA SetAllocCbStep ==
    ASSUME IInv, NEW on \in BOOLEAN, SetAllocCb(on)
    PROVE  IInv' /\ Step
  <1> DEFINE L == QueueLines
  <1>1. Good(q, L, prod, cons, order)
    BY QueueFacts
  <1>2. /\ q' = [q EXCEPT !.alloc_cb = on] /\ (on => manner.alloc_cb)
        /\ UNCHANGED <<valid, allocating, prod, cons, order, manner>>
    BY DEF SetAllocCb
  <1> HIDE DEF L
  <1>3. /\ Good(q', L, prod, cons, order) /\ Nodes(q') = Nodes(q) /\ q'.list = q.list
        /\ q'.num_attached = q.num_attached /\ q'.alloc_cb = on
        /\ q'.uaf = q.uaf /\ q'.queue_size = q.queue_size
    BY <1>1, <1>2, AllocCbGood
  <1>4. Clients'
    BY <1>2, <1>3 DEF IInv, Clients, NoneAllocating
  <1>5. Room' /\ NoUseAfterFree'
    BY <1>2, <1>3 DEF IInv, Room, NoUseAfterFree, NoneAllocating
  <1>6. Shift(q, L, q', L)
    BY <1>3 DEF Shift, Passes
  <1>7. Good(q', L, prod', cons', order')
    BY <1>2, <1>3
  <1> QED BY <1>4, <1>5, <1>6, <1>7, StepDone DEF L

\* The queue is emptied: flush, reset, set_size with flush.
LEMMA ClearStep ==
    ASSUME IInv, Quiet, NEW size \in Nat, ~NoneAllocating => size > 0,
           q' = [ClearAll(q) EXCEPT !.queue_size = size],
           order' = << >>, UNCHANGED <<valid, allocating, prod, cons, manner>>
    PROVE  IInv' /\ Step
  <1> DEFINE L == QueueLines
             v == ClearAll(q)
  <1>1. Good(q, L, prod, cons, order) /\ QueueOK(q, L) /\ q.uaf \in BOOLEAN
    BY QueueFacts
  <1> HIDE DEF L
  <1>2. /\ Good(v, EmptyLines, prod, cons, << >>) /\ Nodes(v) = {} /\ v.num_attached = 0
        /\ v.alloc_cb = q.alloc_cb /\ v.list = << >>
        /\ WellLinked(q.heap, Heads \cup Nodes(q)) => v.uaf = q.uaf
    BY <1>1, ClearAllGood
  <1> HIDE DEF v
  <1>3. q' = [v EXCEPT !.queue_size = size]
    BY DEF v
  <1>4. /\ Good(q', EmptyLines, prod, cons, << >>) /\ Nodes(q') = {} /\ q'.list = << >>
        /\ q'.num_attached = 0 /\ q'.alloc_cb = q.alloc_cb
        /\ q'.uaf = v.uaf /\ q'.queue_size = size
    <2> DEFINE o == << >>
    <2>1. Good(v, EmptyLines, prod, cons, o)
      BY <1>2
    <2> HIDE DEF o
    <2>3. LET z == [v EXCEPT !.queue_size = size]
          IN  /\ Good(z, EmptyLines, prod, cons, o) /\ Nodes(z) = Nodes(v) /\ z.list = v.list
              /\ z.num_attached = v.num_attached /\ z.alloc_cb = v.alloc_cb
              /\ z.uaf = v.uaf /\ z.queue_size = size
      BY <2>1, ResizedGood, Zenon
    <2>2. /\ Good(q', EmptyLines, prod, cons, o) /\ Nodes(q') = Nodes(v) /\ q'.list = v.list
          /\ q'.num_attached = v.num_attached /\ q'.alloc_cb = v.alloc_cb
          /\ q'.uaf = v.uaf /\ q'.queue_size = size
      BY <1>3, <2>3, Zenon
    <2> QED BY <1>2, <2>2 DEF o
  <1>5. Clients'
    BY <1>4 DEF IInv, Clients, NoneAllocating
  <1>6. Room'
    <2>1. NoneAllocating' <=> NoneAllocating
      BY DEF NoneAllocating
    <2>2. q'.num_attached + (IF NoneAllocating' THEN 0 ELSE 1) <= q'.queue_size
      <3>1. CASE NoneAllocating
        BY <1>4, <2>1, <3>1
      <3>2. CASE ~NoneAllocating
        BY <1>4, <2>1, <3>2
      <3> QED BY <3>1, <3>2
    <2> QED BY <2>2 DEF Room
  <1>7. NoUseAfterFree'
    <2>1. ASSUME "flush_busy" \notin manner.liberties PROVE ~q'.uaf
      <3>1. (prod \cup cons) \cap Nodes(q) = {}
        BY <2>1 DEF Quiet, Held
      <3>2. WellLinked(q.heap, Heads \cup Nodes(q))
        BY <1>1, <3>1, QuietLinked
      <3>3. ~q.uaf
        BY <2>1 DEF IInv, NoUseAfterFree
      <3> QED BY <1>2, <1>4, <3>2, <3>3
    <2> QED BY <2>1 DEF NoUseAfterFree
  <1>8. Shift(q, L, q', EmptyLines)
    BY <1>4 DEF Shift
  <1>9. Good(q', EmptyLines, prod', cons', order')
    BY <1>4
  <1> QED BY <1>5, <1>6, <1>7, <1>8, <1>9, StepDone DEF L

\* tbm_surface_queue_flush, tbm_surface_queue_reset, and set_size with flush.
LEMMA FlushStep ==
    ASSUME IInv, Flush \/ Reset \/ \E size \in Sizes : SetSizeFlush(size)
    PROVE  IInv' /\ Step
  <1>1. QueueOK(q, QueueLines) /\ q.queue_size \in Nat /\ q.num_attached \in Nat
    BY QueueFacts
  <1>2. CASE Flush \/ Reset
    <2> DEFINE v == ClearAll(q)
    <2>1. /\ Good(v, EmptyLines, prod, cons, << >>) /\ v.queue_size = q.queue_size
      BY <1>1, ClearAllGood
    <2>2. v \in Queue
      BY <2>1 DEF Good, QueueOK
    <2> HIDE DEF v
    <2>3. v = [v EXCEPT !.queue_size = q.queue_size]
      BY <2>1, <2>2 DEF Queue
    <2>4. q' = v /\ Quiet /\ order' = << >> /\ UNCHANGED <<valid, allocating, prod, cons, manner>>
      BY <1>2 DEF Flush, Reset, v
    <2>5. q' = [ClearAll(q) EXCEPT !.queue_size = q.queue_size]
      BY <2>3, <2>4 DEF v
    <2>6. ~NoneAllocating => q.queue_size > 0
      <3> SUFFICES ASSUME ~NoneAllocating PROVE q.queue_size > 0
        OBVIOUS
      <3>1. q.num_attached + 1 <= q.queue_size
        BY DEF IInv, Room
      <3> QED BY <1>1, <3>1
    <2> QED BY <1>1, <2>4, <2>5, <2>6, ClearStep, Zenon
  <1>3. ASSUME NEW size \in Sizes, SetSizeFlush(size) PROVE IInv' /\ Step
    <2>1. size \in Nat /\ size > 0
      BY SurfaceQueueAssumption
    <2>2. /\ q' = [ClearAll(q) EXCEPT !.queue_size = size] /\ Quiet /\ order' = << >>
          /\ UNCHANGED <<valid, allocating, prod, cons, manner>>
      BY <1>3 DEF SetSizeFlush
    <2> QED BY <2>1, <2>2, ClearStep, Zenon
  <1> QED BY <1>2, <1>3

\* tbm_surface_queue_destroy
LEMMA DestroyStep ==
    ASSUME IInv, Destroy
    PROVE  IInv' /\ Step
  <1> DEFINE d == FoldLeft(DeleteNode, q, q.list)
             b == d.uaf
  <1>1. /\ Good(q, QueueLines, prod, cons, order) /\ QueueOK(q, QueueLines)
        /\ q.queue_size \in Nat /\ q \in Queue
    BY QueueFacts
  <1>2. Emptied(q, d, Len(q.list))
    BY <1>1, DeleteAllNodes, Zenon
  <1>3. /\ q' = [NewQueue(q.queue_size, q.impl) EXCEPT !.uaf = b]
        /\ Quiet /\ NoneAllocating /\ valid' = FALSE /\ order' = << >>
        /\ UNCHANGED <<allocating, prod, cons, manner>>
    BY Zenon DEF Destroy
  <1> HIDE DEF d
  <1>4. b \in BOOLEAN /\ (WellLinked(q.heap, Heads \cup Nodes(q)) => b = q.uaf)
        /\ q.impl \in {"default", "sequence"}
    BY <1>1, <1>2 DEF Emptied, Queue
  <1> HIDE DEF b
  <1>5. /\ Good(q', EmptyLines, prod, cons, << >>) /\ Nodes(q') = {}
        /\ q'.list = << >> /\ q'.num_attached = 0 /\ q'.queue_size = q.queue_size
        /\ q'.alloc_cb = FALSE /\ q'.uaf = b
    <2>1. /\ Good(q', EmptyLines, prod, cons, << >>) /\ Nodes(q') = {} /\ Blank(q')
          /\ q'.queue_size = q.queue_size /\ q'.uaf = b
      BY <1>1, <1>3, <1>4, NewQueueGood, ZenonT(30)
    <2> QED BY <2>1 DEF Blank
  <1>6. NoneAllocating'
    BY <1>3 DEF NoneAllocating
  <1>7. Clients'
    BY <1>3, <1>5, <1>6 DEF IInv, Clients
  <1>8. Room'
    BY <1>1, <1>5, <1>6 DEF Room
  <1>9. NoUseAfterFree'
    <2>1. ASSUME "flush_busy" \notin manner.liberties PROVE ~q'.uaf
      <3>1. (prod \cup cons) \cap Nodes(q) = {}
        BY <1>3, <2>1 DEF Quiet, Held
      <3>2. WellLinked(q.heap, Heads \cup Nodes(q))
        BY <1>1, <3>1, QuietLinked
      <3>3. ~q.uaf
        BY <2>1 DEF IInv, NoUseAfterFree
      <3> QED BY <1>4, <1>5, <3>2, <3>3
    <2> QED BY <1>3, <2>1 DEF NoUseAfterFree
  <1>10. Shift(q, QueueLines, q', EmptyLines)
    BY <1>5 DEF Shift
  <1>11. Good(q', EmptyLines, prod', cons', order')
    BY <1>3, <1>5
  <1> QED BY <1>7, <1>8, <1>9, <1>10, <1>11, StepDone

\* tbm_surface_queue_create, tbm_surface_queue_sequence_create
LEMMA CreateStep ==
    ASSUME IInv, NEW size \in Sizes, NEW impl \in manner.impls, Create(size, impl)
    PROVE  IInv' /\ Step
  <1>1. /\ Good(q, QueueLines, prod, cons, order) /\ QueueOK(q, QueueLines) /\ QueueLines \in Lines
        /\ manner \in Manner /\ q.uaf \in BOOLEAN
    BY QueueFacts
  <1>2. size \in Nat /\ impl \in {"default", "sequence"}
    BY <1>1, SurfaceQueueAssumption DEF Manner
  <1>3. /\ q' = [NewQueue(size, impl) EXCEPT !.uaf = q.uaf] /\ prod' = {} /\ cons' = {}
        /\ ~valid /\ valid' = TRUE /\ UNCHANGED <<allocating, order, manner>>
    BY DEF Create
  <1>4. /\ Good(q', EmptyLines, prod', cons', << >>) /\ Nodes(q') = {}
        /\ q'.list = << >> /\ q'.num_attached = 0 /\ q'.queue_size = size
        /\ q'.alloc_cb = FALSE /\ q'.uaf = q.uaf
    <2>1. /\ Good(q', EmptyLines, prod', cons', << >>) /\ Nodes(q') = {} /\ Blank(q')
          /\ q'.queue_size = size /\ q'.uaf = q.uaf
      BY <1>1, <1>2, <1>3, NewQueueGood
    <2> QED BY <2>1 DEF Blank
  <1>5. NoneAllocating /\ NoneAllocating'
    BY <1>3 DEF IInv, Clients, NoneAllocating
  <1>6. order = << >>
    <2>1. q.list = << >>
      BY <1>3 DEF IInv, Clients
    <2>2. Nodes(q) = {}
      <3>1. << >> \in Seq(Surface)
        OBVIOUS
      <3> QED BY <2>1, <3>1, ToSetFacts DEF Nodes
    <2>3. ASSUME NEW a \in Heads PROVE QueueLines[a] = << >>
      <3>1. QueueLines[a] \in Seq(Surface) /\ ToSet(QueueLines[a]) \subseteq Nodes(q)
        BY <1>1, ListFacts
      <3>2. ToSet(QueueLines[a]) = {}
        BY <2>2, <3>1
      <3> QED BY <3>1, <3>2, ToSetFacts
    <2>4. QueueLines["dirty_queue"] = << >> /\ QueueLines["dequeue_list"] = << >>
      BY <2>3, HeadNames
    <2>5. << >> \o << >> = << >>
      OBVIOUS
    <2>6. InOrder(q, QueueLines, order)
      BY <1>1 DEF Good
    <2> QED BY <2>4, <2>5, <2>6, Zenon DEF InOrder
  <1>7. Clients'
    BY <1>3, <1>4, <1>5 DEF IInv, Clients
  <1>8. Room' /\ NoUseAfterFree'
    BY <1>2, <1>3, <1>4, <1>5 DEF IInv, Room, NoUseAfterFree
  <1>9. Shift(q, QueueLines, q', EmptyLines)
    BY <1>4 DEF Shift
  <1>10. Good(q', EmptyLines, prod', cons', order')
    BY <1>3, <1>4, <1>6, Zenon
  <1> QED BY <1>7, <1>8, <1>9, <1>10, StepDone

\* need_attach gave a surface s to the queue, which had room for it, or none.
Got(u, N) ==
    \/ u = q /\ N = QueueLines
    \/ \E s \in Surface \ Nodes(q) :
         /\ N = Put(QueueLines, "free_queue", s) /\ Nodes(u) = Nodes(q) \cup {s}
         /\ u.num_attached = q.num_attached + 1 /\ q.num_attached < q.queue_size
         /\ u.queue_size = q.queue_size /\ u.alloc_cb = q.alloc_cb /\ u.uaf = q.uaf

LEMMA AfterAllocGood ==
    ASSUME IInv, q.num_attached < q.queue_size, NEW u \in AfterAlloc(q)
    PROVE  \E N : Good(u, N, prod, cons, order) /\ Got(u, N)
  <1> DEFINE L == QueueLines
  <1>1. Good(q, L, prod, cons, order) /\ manner \in Manner
    BY QueueFacts
  <1>2. CASE u = q
    BY <1>1, <1>2 DEF Got
  <1>3. ASSUME NEW s \in Fresh(q), u = Attach(q, s)
        PROVE  \E N : Good(u, N, prod, cons, order) /\ Got(u, N)
    <2>1. s \in Surface \ (Nodes(q) \cup prod \cup cons)
      BY <1>1 DEF Fresh, Manner
    <2> HIDE DEF L
    <2>2. /\ Good(u, Put(L, "free_queue", s), prod, cons, order)
          /\ Nodes(u) = Nodes(q) \cup {s}
          /\ u.num_attached = q.num_attached + 1 /\ u.queue_size = q.queue_size
          /\ u.alloc_cb = q.alloc_cb /\ u.impl = q.impl /\ u.uaf = q.uaf
      BY <1>1, <1>3, <2>1, AttachGood
    <2>3. Got(u, Put(L, "free_queue", s))
      BY <2>1, <2>2 DEF Got, L
    <2> QED BY <2>2, <2>3
  <1> QED BY <1>2, <1>3 DEF AfterAlloc

\* The end of tbm_surface_queue_dequeue.
LEMMA FinishDequeueGood ==
    ASSUME NEW u, NEW N, Good(u, N, prod, cons, order), FinishDequeue(u)
    PROVE  \E M : /\ Good(q', M, prod', cons, order') /\ Frame(u, q')
                  /\ M["dirty_queue"] = N["dirty_queue"]
                  /\ \/ N["free_queue"] = << >> /\ M["free_queue"] = N["free_queue"]
                     \/ N["free_queue"] # << >> /\ M["free_queue"] = Tail(N["free_queue"])
                  /\ prod' \subseteq prod \cup Nodes(u)
  <1> DEFINE n == N["free_queue"][1]
             T == Take(N, "free_queue")
  <1>1. QueueOK(u, N) /\ N \in Lines
    BY DEF Good, QueueOK
  <1>2. /\ IsEmpty(u, "free_queue") <=> N["free_queue"] = << >>
        /\ N["free_queue"] # << >> => u.heap.next["free_queue"] = n
    BY <1>1, ListFacts, HeadNames
  <1>3. CASE N["free_queue"] = << >>
    <2>1. q' = u /\ prod' = prod /\ order' = order
      BY <1>2, <1>3 DEF FinishDequeue
    <2>2. Good(q', N, prod', cons, order') /\ Frame(u, q') /\ prod' \subseteq prod \cup Nodes(u)
      BY <2>1 DEF Frame
    <2> QED BY <1>3, <2>2
  <1>4. CASE N["free_queue"] # << >>
    <2>1. /\ q' = [ImplDequeue(u, n) EXCEPT !.type[n] = "DEQUEUE"] /\ prod' = prod \cup {n}
          /\ order' = IF IsSequence(u) THEN Append(order, n) ELSE order
      <3> HIDE DEF n
      <3> QED BY <1>2, <1>4 DEF FinishDequeue
    <2>2. /\ T \in Lines /\ T["free_queue"] = Tail(N["free_queue"])
          /\ T["dirty_queue"] = N["dirty_queue"]
      BY <1>1, <1>4, TakeLines, HeadNames
    <2>3. CASE IsSequence(u)
      <3> DEFINE M == Put(T, "dequeue_list", n)
      <3>1. Good(q', M, prod', cons, order') /\ Frame(u, q') /\ n \in Nodes(u)
        BY <1>4, <2>1, <2>3, SequenceDequeueGood
      <3>2. n \in Surface
        BY <1>1, <3>1, ListFacts
      <3>3. M["free_queue"] = T["free_queue"] /\ M["dirty_queue"] = T["dirty_queue"]
        <4> HIDE DEF T, n
        <4> QED BY <2>2, <3>2, PutLines, HeadNames
      <3> HIDE DEF M, T, n
      <3> QED BY <1>4, <2>1, <2>2, <3>1, <3>3
    <2>4. CASE ~IsSequence(u)
      <3>1. Good(q', T, prod', cons, order') /\ Frame(u, q') /\ n \in Nodes(u)
        BY <1>4, <2>1, <2>4, DequeueGood
      <3> HIDE DEF T, n
      <3> QED BY <1>4, <2>1, <2>2, <3>1
    <2> QED BY <2>3, <2>4
  <1> QED BY <1>3, <1>4

\* A call that may have attached a surface is over.
LEMMA GotDone ==
    ASSUME TameClients, IInv, valid, NEW p \in Producers,
           \/ allocating' = [allocating EXCEPT ![p] = "no"]
           \/ allocating[p] = "no" /\ allocating' = allocating,
           NEW u, NEW N, Good(u, N, prod, cons, order), Got(u, N),
           NEW M, Good(q', M, prod', cons', order'), Frame(u, q'),
           M["dirty_queue"] = N["dirty_queue"],
           \/ M["free_queue"] = N["free_queue"]
           \/ N["free_queue"] # << >> /\ M["free_queue"] = Tail(N["free_queue"]),
           prod' \subseteq Surface, cons' = cons, UNCHANGED <<valid, manner>>
    PROVE  IInv' /\ Step
  <1> DEFINE L == QueueLines
  <1>1. /\ L \in Lines
        /\ q.num_attached \in Nat /\ q.queue_size \in Nat /\ q.num_attached <= q.queue_size
    BY QueueFacts
  <1>2. NoneAllocating' /\ allocating' \in [Producers -> {"no", "dequeue", "can_dequeue"}]
    <2>1. Clients /\ allocating \in [Producers -> {"no", "dequeue", "can_dequeue"}]
      BY DEF IInv, Clients
    <2>2. CASE allocating[p] = "no" /\ allocating' = allocating
      <3>1. NoneAllocating
        BY <2>1, <2>2, Alone
      <3> QED BY <2>1, <2>2, <3>1 DEF NoneAllocating
    <2>3. CASE allocating' = [allocating EXCEPT ![p] = "no"]
      <3>1. allocating[p] = "no" => NoneAllocating
        BY <2>1, Alone
      <3>2. allocating[p] # "no" => \A a \in Producers : a = p
        BY <2>1, Alone
      <3> QED BY <2>1, <2>3, <3>1, <3>2 DEF NoneAllocating
    <2> QED BY <2>2, <2>3
  <1>3. /\ u.num_attached <= q.queue_size /\ u.queue_size = q.queue_size
        /\ u.alloc_cb = q.alloc_cb /\ u.uaf = q.uaf
    BY <1>1 DEF Got
  <1>4. Clients'
    BY <1>2, <1>3 DEF IInv, Clients, Frame
  <1>5. Room'
    <2>1. q'.num_attached \in Int /\ q'.num_attached <= q'.queue_size
      <3>1. q' \in Queue
        BY DEF Good, QueueOK
      <3>2. q'.num_attached \in Int
        BY <3>1 DEF Queue
      <3> QED BY <1>3, <3>2 DEF Frame
    <2> QED BY <1>2, <2>1 DEF Room
  <1>6. NoUseAfterFree'
    BY <1>3 DEF IInv, NoUseAfterFree, Frame
  <1>7. Nodes(q') = Nodes(u) /\ q'.queue_size = q.queue_size
    BY <1>3 DEF Frame, Nodes
  <1>8. Shift(q, L, q', M)
    <2>1. CASE u = q /\ N = L
      <3> HIDE DEF L
      <3>1. Passes(q, L, q', M)
        BY <1>7, <2>1 DEF Passes
      <3> QED BY <3>1 DEF Shift
    <2>2. ASSUME NEW s \in Surface \ Nodes(q),
                 N = Put(L, "free_queue", s), Nodes(u) = Nodes(q) \cup {s},
                 q.num_attached < q.queue_size
          PROVE  Shift(q, L, q', M)
      <3> HIDE DEF L
      <3>1. N["free_queue"] = Append(L["free_queue"], s) /\ N["dirty_queue"] = L["dirty_queue"]
        BY <1>1, <2>2, PutLines, HeadNames
      <3>2. M["free_queue"] \in {Append(L["free_queue"], s), Tail(Append(L["free_queue"], s))}
        BY <3>1
      <3>3. Attaches(q, L, q', M)
        BY <1>7, <2>2, <3>1, <3>2 DEF Attaches
      <3> QED BY <3>3 DEF Shift
    <2> QED BY <2>1, <2>2 DEF Got
  <1> QED BY <1>4, <1>5, <1>6, <1>8, StepDone

\* tbm_surface_queue_dequeue, in one go and after alloc_cb returned.
LEMMA DequeueStep ==
    ASSUME TameClients, IInv, NEW p \in Producers, Dequeue(p) \/ AllocCbReturnsToDequeue(p)
    PROVE  IInv' /\ Step
  <1>1. /\ Good(q, QueueLines, prod, cons, order) /\ QueueOK(q, QueueLines) /\ Clients
        /\ q.num_attached \in Nat /\ q.queue_size \in Nat /\ q.num_attached <= q.queue_size
    BY QueueFacts DEF IInv
  <1>2. /\ valid /\ cons' = cons /\ UNCHANGED <<valid, manner>>
        /\ \/ allocating' = [allocating EXCEPT ![p] = "no"]
           \/ allocating[p] = "no" /\ allocating' = allocating
    <2>1. CASE Dequeue(p)
      BY <2>1 DEF Dequeue
    <2>2. CASE AllocCbReturnsToDequeue(p)
      BY <1>1, <2>2 DEF AllocCbReturnsToDequeue, Clients, NoneAllocating
    <2> QED BY <2>1, <2>2
  <1>3. \E u, N : Good(u, N, prod, cons, order) /\ Got(u, N) /\ FinishDequeue(u)
    <2>1. CASE Dequeue(p)
      <3>1. PICK u \in IF IsEmpty(q, "free_queue") THEN NeedAttach(q) ELSE {q} : FinishDequeue(u)
        BY <2>1, Zenon DEF Dequeue
      <3>2. u = q \/ (u \in AfterAlloc(q) /\ ~Full(q))
        BY <3>1 DEF NeedAttach
      <3>3. CASE u = q
        BY <1>1, <3>1, <3>3 DEF Got
      <3>4. CASE u \in AfterAlloc(q) /\ ~Full(q)
        <4>1. q.num_attached < q.queue_size
          BY <1>1, <3>4 DEF Full
        <4> QED BY <3>1, <3>4, <4>1, AfterAllocGood
      <3> QED BY <3>2, <3>3, <3>4
    <2>2. CASE AllocCbReturnsToDequeue(p)
      <3>1. PICK u \in AfterAlloc(q) : FinishDequeue(u)
        BY <2>2 DEF AllocCbReturnsToDequeue
      <3>2. ~NoneAllocating
        BY <2>2 DEF AllocCbReturnsToDequeue, NoneAllocating
      <3>3. q.num_attached + 1 <= q.queue_size
        BY <3>2 DEF IInv, Room
      <3>4. q.num_attached < q.queue_size
        BY <1>1, <3>3
      <3> QED BY <3>1, <3>4, AfterAllocGood
    <2> QED BY <2>1, <2>2
  <1>4. PICK u, N : Good(u, N, prod, cons, order) /\ Got(u, N) /\ FinishDequeue(u)
    BY <1>3
  <1>5. PICK M : /\ Good(q', M, prod', cons, order') /\ Frame(u, q')
                 /\ M["dirty_queue"] = N["dirty_queue"]
                 /\ \/ N["free_queue"] = << >> /\ M["free_queue"] = N["free_queue"]
                    \/ N["free_queue"] # << >> /\ M["free_queue"] = Tail(N["free_queue"])
                 /\ prod' \subseteq prod \cup Nodes(u)
    BY <1>4, FinishDequeueGood, Zenon
  <1>6. prod' \subseteq Surface
    <2>1. Nodes(u) \subseteq Surface
      BY <1>4, ListFacts DEF Good
    <2> QED BY <1>1, <1>5, <2>1 DEF Clients
  <1>7. Good(q', M, prod', cons', order')
    BY <1>2, <1>5
  <1>8. \/ M["free_queue"] = N["free_queue"]
        \/ N["free_queue"] # << >> /\ M["free_queue"] = Tail(N["free_queue"])
    BY <1>5
  <1> QED BY <1>2, <1>4, <1>5, <1>6, <1>7, <1>8, GotDone

\* tbm_surface_queue_can_dequeue, in one go and after alloc_cb returned.
LEMMA CanDequeueStep ==
    ASSUME TameClients, IInv, NEW p \in Producers, CanDequeue(p) \/ AllocCbReturnsToCanDequeue(p)
    PROVE  IInv' /\ Step
  <1>1. /\ Good(q, QueueLines, prod, cons, order) /\ QueueOK(q, QueueLines) /\ Clients
        /\ q.num_attached \in Nat /\ q.queue_size \in Nat /\ q.num_attached <= q.queue_size
    BY QueueFacts DEF IInv
  <1>2. /\ valid /\ prod' = prod /\ cons' = cons /\ order' = order /\ UNCHANGED <<valid, manner>>
        /\ \/ allocating' = [allocating EXCEPT ![p] = "no"]
           \/ allocating[p] = "no" /\ allocating' = allocating
    <2>1. CASE CanDequeue(p)
      BY <2>1 DEF CanDequeue
    <2>2. CASE AllocCbReturnsToCanDequeue(p)
      BY <1>1, <2>2 DEF AllocCbReturnsToCanDequeue, Clients, NoneAllocating
    <2> QED BY <2>1, <2>2
  <1>3. \E N : Good(q', N, prod, cons, order) /\ Got(q', N)
    <2>1. CASE CanDequeue(p)
      <3>1. q' = q \/ (q' \in AfterAlloc(q) /\ ~Full(q))
        BY <2>1 DEF CanDequeue, NeedAttach
      <3>3. CASE q' = q
        BY <1>1, <3>3 DEF Got
      <3>4. CASE q' \in AfterAlloc(q) /\ ~Full(q)
        <4>1. q.num_attached < q.queue_size
          BY <1>1, <3>4 DEF Full
        <4> QED BY <3>4, <4>1, AfterAllocGood
      <3> QED BY <3>1, <3>3, <3>4
    <2>2. CASE AllocCbReturnsToCanDequeue(p)
      <3>1. q' \in AfterAlloc(q)
        BY <2>2 DEF AllocCbReturnsToCanDequeue
      <3>2. ~NoneAllocating
        BY <2>2 DEF AllocCbReturnsToCanDequeue, NoneAllocating
      <3>3. q.num_attached + 1 <= q.queue_size
        BY <3>2 DEF IInv, Room
      <3>4. q.num_attached < q.queue_size
        BY <1>1, <3>3
      <3> QED BY <3>1, <3>4, AfterAllocGood
    <2> QED BY <2>1, <2>2
  <1>4. PICK N : Good(q', N, prod, cons, order) /\ Got(q', N)
    BY <1>3
  <1>5. Good(q', N, prod', cons', order') /\ Frame(q', q') /\ prod' \subseteq Surface
    BY <1>1, <1>2, <1>4 DEF Frame, Clients
  <1> QED BY <1>2, <1>4, <1>5, GotDone

\* tbm_surface_queue_set_size without flush.
LEMMA SetSizeStep ==
    ASSUME TameClients, IInv, NEW size \in Sizes, SetSize(size)
    PROVE  IInv' /\ Step
  <1> DEFINE L == QueueLines
             w == L["free_queue"]
             k == IF q.queue_size > size THEN Min({Len(w), q.queue_size - size}) ELSE 0
             d == FoldLeft(Detach, q, SubSeq(w, 1, k))
             busy == {p \in Producers : allocating[p] # "no"}
  <1>1. /\ Good(q, L, prod, cons, order) /\ QueueOK(q, L) /\ L \in Lines /\ Clients
        /\ q.num_attached \in Nat /\ q.queue_size \in Nat /\ size \in Nat
    BY QueueFacts, SurfaceQueueAssumption DEF IInv
  <1>2. w \in Seq(Surface) /\ Len(w) \in Nat /\ Walk(q, "free_queue") = w
    <2>1. w \in Seq(Surface) /\ Walk(q, "free_queue") = w
      BY <1>1, ListFacts, HeadNames
    <2> QED BY <2>1
  <1> HIDE DEF L
  <1>3. k \in 0 .. Len(w)
    <2>1. CASE q.queue_size > size
      <3> DEFINE x == q.queue_size - size
      <3>1. x \in Nat
        BY <1>1, <2>1
      <3>2. Min({Len(w), x}) \in {Len(w), x} /\ Min({Len(w), x}) <= Len(w)
        <4>1. \E y \in {Len(w), x} : \A z \in {Len(w), x} : y <= z
          <5> HIDE DEF w, x
          <5> QED BY <1>2, <3>1
        <4> HIDE DEF w, x
        <4> QED BY <4>1 DEF Min
      <3>3. k = Min({Len(w), x})
        BY <2>1
      <3> HIDE DEF w, x, k
      <3> QED BY <1>2, <3>1, <3>2, <3>3
    <2>2. CASE ~(q.queue_size > size)
      BY <1>2, <2>2
    <2> QED BY <2>1, <2>2
  <1>4. NeedDel(size) = SubSeq(w, 1, k) /\ Len(NeedDel(size)) = k
    <2>1. CASE q.queue_size > size
      <3>1. k = Min({Len(w), q.queue_size - size})
        BY <2>1
      <3>2. NeedDel(size) = SubSeq(w, 1, Min({Len(w), q.queue_size - size}))
        <4> HIDE DEF w, k
        <4> QED BY <1>2, <2>1 DEF NeedDel
      <3> HIDE DEF w, k
      <3>3. Len(SubSeq(w, 1, k)) = k
        BY <1>2, <1>3
      <3> QED BY <3>1, <3>2, <3>3
    <2>2. CASE ~(q.queue_size > size)
      <3>1. SubSeq(w, 1, 0) = << >> /\ Len(<< >>) = 0
        BY <1>2
      <3> QED BY <1>2, <2>2, <3>1 DEF NeedDel
    <2> QED BY <2>1, <2>2
  <1> HIDE DEF w, k
  <1>5. Dropped(q, L, prod, cons, order, d, k)
    <2>1. k \in 0 .. Len(L["free_queue"])
      BY <1>3 DEF w
    <2>2. Dropped(q, L, prod, cons, order, FoldLeft(Detach, q, SubSeq(L["free_queue"], 1, k)), k)
      BY <1>1, <2>1, DropFreeGood, Zenon
    <2> QED BY <2>2 DEF w
  <1>6. /\ q' = [d EXCEPT !.queue_size = size]
        /\ UNCHANGED <<valid, allocating, prod, cons, order, manner>> /\ valid
        /\ (q.num_attached + Cardinality(busy)) - k <= size
    <2>1. "shrink_busy" \notin manner.liberties
      BY <1>1 DEF TameClients, Clients
    <2>2. q' = [d EXCEPT !.queue_size = size]
      BY <1>4, Zenon DEF SetSize
    <2>3. UNCHANGED <<valid, allocating, prod, cons, order, manner>> /\ valid
      BY DEF SetSize
    <2>4. (q.num_attached + Cardinality(busy)) - Len(NeedDel(size)) <= size
      <3> HIDE DEF d
      <3> QED BY <2>1, Zenon DEF SetSize
    <2> QED BY <1>4, <2>2, <2>3, <2>4, Zenon
  <1>7. Cardinality(busy) \in Nat /\ (~NoneAllocating => Cardinality(busy) = 1)
    <2>1. CASE NoneAllocating
      <3>1. busy = {}
        BY <2>1 DEF NoneAllocating
      <3> QED BY <2>1, <3>1, FS_EmptySet
    <2>2. CASE ~NoneAllocating
      <3>1. PICK p \in Producers : allocating[p] # "no"
        BY <2>2 DEF NoneAllocating
      <3>2. \A a \in Producers : a = p
        BY <1>1, <3>1, Alone
      <3>3. busy = {p}
        BY <3>1, <3>2
      <3> QED BY <3>3, FS_Singleton, SMTT(30)
    <2> QED BY <2>1, <2>2
  <1> HIDE DEF d, busy
  <1>8. PICK M : /\ Good(d, M, prod, cons, order)
                 /\ M["free_queue"] = SubSeq(w, k + 1, Len(w))
                 /\ M["dirty_queue"] = L["dirty_queue"]
                 /\ Nodes(d) \ ToSet(M["free_queue"]) = Nodes(q) \ ToSet(w)
    BY <1>5, Zenon DEF Dropped, w
  <1>9. d.num_attached = q.num_attached - k /\ d.alloc_cb = q.alloc_cb /\ d.uaf = q.uaf
    BY <1>5 DEF Dropped
  <1>10. /\ Good(q', M, prod, cons, order) /\ Nodes(q') = Nodes(d) /\ q'.list = d.list
         /\ q'.num_attached = d.num_attached /\ q'.alloc_cb = d.alloc_cb
         /\ q'.uaf = d.uaf /\ q'.queue_size = size
    <2>1. LET z == [d EXCEPT !.queue_size = size]
          IN  /\ Good(z, M, prod, cons, order) /\ Nodes(z) = Nodes(d) /\ z.list = d.list
              /\ z.num_attached = d.num_attached /\ z.alloc_cb = d.alloc_cb
              /\ z.uaf = d.uaf /\ z.queue_size = size
      BY <1>1, <1>8, ResizedGood, Zenon
    <2> QED BY <1>6, <2>1, Zenon
  <1>11. Clients'
    BY <1>6, <1>9, <1>10 DEF IInv, Clients, NoneAllocating
  <1>12. NoneAllocating' <=> NoneAllocating
    BY <1>6 DEF NoneAllocating
  <1>13. k \in Nat /\ q.num_attached - k <= size /\ (~NoneAllocating => (q.num_attached - k) + 1 <= size)
    BY <1>1, <1>2, <1>3, <1>6, <1>7
  <1>14. Room'
    <2>1. q'.num_attached + (IF NoneAllocating' THEN 0 ELSE 1) <= q'.queue_size
      <3>1. CASE NoneAllocating
        <4>1. (q.num_attached - k) + 0 <= size
          BY <1>1, <1>13
        <4> QED BY <1>9, <1>10, <1>12, <3>1, <4>1
      <3>2. CASE ~NoneAllocating
        BY <1>9, <1>10, <1>12, <1>13, <3>2
      <3> QED BY <3>1, <3>2
    <2> QED BY <2>1 DEF Room
  <1>15. NoUseAfterFree'
    BY <1>6, <1>9, <1>10 DEF IInv, NoUseAfterFree
  <1>16. Resizes(q, L, q', M)
    BY <1>3, <1>8, <1>10, <1>13 DEF Resizes, w
  <1>17. Good(q', M, prod', cons', order') /\ Shift(q, L, q', M)
    BY <1>6, <1>10, <1>16 DEF Shift
  <1> QED BY <1>11, <1>14, <1>15, <1>17, StepDone DEF L

\* Every step.
LEMMA NextInv ==
    ASSUME TameClients, IInv, [Next]_vars
    PROVE  IInv' /\ Step
  <1>1. CASE \E p \in Producers : Dequeue(p) \/ AllocCbReturnsToDequeue(p)
    BY <1>1, DequeueStep
  <1>2. CASE \E p \in Producers : CanDequeue(p) \/ AllocCbReturnsToCanDequeue(p)
    BY <1>2, CanDequeueStep
  <1>3. CASE \E p \in Producers : \E call \in {"dequeue", "can_dequeue"} : CallAllocCb(p, call)
    BY <1>3, CallAllocCbStep
  <1>4. CASE \E s \in manner.surfaces : Enqueue(s)
    BY <1>4, EnqueueStep
  <1>5. CASE \E s \in manner.surfaces : Release(s)
    BY <1>5, ReleaseStep
  <1>6. CASE Acquire
    BY <1>6, AcquireStep
  <1>7. CASE Flush \/ Reset \/ \E size \in Sizes : SetSizeFlush(size)
    BY <1>7, FlushStep
  <1>8. CASE \E size \in Sizes : SetSize(size)
    BY <1>8, SetSizeStep
  <1>9. CASE \E size \in Sizes : \E impl \in manner.impls : Create(size, impl)
    BY <1>9, CreateStep
  <1>10. CASE \E on \in BOOLEAN : SetAllocCb(on)
    BY <1>10, SetAllocCbStep
  <1>11. CASE Destroy
    BY <1>11, DestroyStep
  <1>12. CASE UNCHANGED vars
    <2>1. q' = q /\ QueueLines' = QueueLines
      BY <1>12 DEF vars, QueueLines, Walk
    <2>2. IInv'
      BY <1>12, <2>1 DEF vars, IInv, Clients, Room, NoUseAfterFree, NoneAllocating
    <2>3. Passes(q, QueueLines, q', QueueLines')
      BY <2>1 DEF Passes
    <2> QED BY <2>2, <2>3 DEF Step, Shift
  <1> QED BY <1>1, <1>2, <1>3, <1>4, <1>5, <1>6, <1>7, <1>8, <1>9, <1>10, <1>11, <1>12 DEF Next

-----------------------------------------------------------------------------
(* What follows from the invariant.                                        *)

\* The names of the lists.
LEMMA LineNames ==
    /\ QueueLines["free_queue"] = FreeQ /\ QueueLines["dirty_queue"] = DirtyQ
    /\ QueueLines["dequeue_list"] = DequeueL
BY HeadNames DEF QueueLines, FreeQ, DirtyQ, DequeueL

\* The elements of two sequences one after the other.
LEMMA ConcatSet ==
    ASSUME NEW x \in Seq(Surface), NEW y \in Seq(Surface)
    PROVE  ToSet(x \o y) = ToSet(x) \cup ToSet(y)
  <1> DEFINE z == x \o y
  <1>1. /\ z \in Seq(Surface) /\ Len(z) = Len(x) + Len(y) /\ Len(x) \in Nat /\ Len(y) \in Nat
        /\ \A i \in 1 .. Len(x) : z[i] = x[i]
        /\ \A i \in 1 .. Len(y) : z[Len(x) + i] = y[i]
    BY ConcatFacts
  <1> HIDE DEF z
  <1>2. /\ \A e : e \in ToSet(x) <=> \E i \in 1 .. Len(x) : x[i] = e
        /\ \A e : e \in ToSet(y) <=> \E i \in 1 .. Len(y) : y[i] = e
        /\ \A e : e \in ToSet(z) <=> \E i \in 1 .. Len(z) : z[i] = e
    BY <1>1, ToSetFacts
  <1>3. ASSUME NEW e \in ToSet(z) PROVE e \in ToSet(x) \cup ToSet(y)
    <2>1. PICK i \in 1 .. Len(z) : z[i] = e
      BY <1>2
    <2>2. CASE i \in 1 .. Len(x)
      BY <1>1, <1>2, <2>1, <2>2
    <2>3. CASE i \notin 1 .. Len(x)
      <3>1. i - Len(x) \in 1 .. Len(y) /\ Len(x) + (i - Len(x)) = i
        BY <1>1, <2>3
      <3>2. y[i - Len(x)] = e
        BY <1>1, <2>1, <3>1
      <3> QED BY <1>2, <3>1, <3>2
    <2> QED BY <2>2, <2>3
  <1>4. ASSUME NEW e \in ToSet(x) PROVE e \in ToSet(z)
    <2>1. PICK i \in 1 .. Len(x) : x[i] = e
      BY <1>2
    <2>2. i \in 1 .. Len(z) /\ z[i] = e
      BY <1>1, <2>1
    <2> QED BY <1>2, <2>2
  <1>5. ASSUME NEW e \in ToSet(y) PROVE e \in ToSet(z)
    <2>1. PICK i \in 1 .. Len(y) : y[i] = e
      BY <1>2
    <2>2. Len(x) + i \in 1 .. Len(z) /\ z[Len(x) + i] = e
      BY <1>1, <2>1
    <2> QED BY <1>2, <2>2
  <1> QED BY <1>3, <1>4, <1>5 DEF z

\* The number of surfaces in a sequence without repetition.
LEMMA OnceCard ==
    ASSUME NEW w \in Seq(Surface), Once(w)
    PROVE  IsFiniteSet(ToSet(w)) /\ Cardinality(ToSet(w)) = Len(w)
  <1>0. Len(w) \in Nat
    OBVIOUS
  <1> DEFINE f == [i \in 1 .. Len(w) |-> w[i]]
  <1>1. f \in [1 .. Len(w) -> ToSet(w)]
    BY ToSetFacts
  <1>2. f \in Injection(1 .. Len(w), ToSet(w))
    BY <1>1 DEF Injection, IsInjective, Once
  <1>3. \A y \in ToSet(w) : \E i \in 1 .. Len(w) : f[i] = y
    BY ToSetFacts
  <1>4. f \in Surjection(1 .. Len(w), ToSet(w))
    BY <1>1, <1>3 DEF Surjection
  <1>5. ExistsBijection(1 .. Len(w), ToSet(w))
    BY <1>2, <1>4 DEF ExistsBijection, Bijection
  <1>6. IsFiniteSet(1 .. Len(w)) /\ Cardinality(1 .. Len(w)) = Len(w)
    <2>1. 1 \in Int /\ Len(w) \in Int
      BY <1>0
    <2>2. /\ IsFiniteSet(1 .. Len(w))
          /\ Cardinality(1 .. Len(w)) = IF 1 > Len(w) THEN 0 ELSE Len(w) - 1 + 1
      BY <2>1, FS_Interval
    <2> QED BY <1>0, <2>2
  <1> QED BY <1>5, <1>6, FS_Bijection

\* Sets apart from each other.
LEMMA ApartCard ==
    ASSUME NEW S, NEW T, IsFiniteSet(S), IsFiniteSet(T), S \cap T = {}
    PROVE  IsFiniteSet(S \cup T) /\ Cardinality(S \cup T) = Cardinality(S) + Cardinality(T)
  <1>1. /\ Cardinality(S) \in Nat /\ Cardinality(T) \in Nat
        /\ Cardinality(S \cap T) = 0
    BY FS_CardinalityType, FS_EmptySet
  <1>2. /\ IsFiniteSet(S \cup T)
        /\ Cardinality(S \cup T) = Cardinality(S) + Cardinality(T) - Cardinality(S \cap T)
    BY FS_Union
  <1> QED BY <1>1, <1>2

\* Some node has the type if and only if the count of the nodes is positive.
LEMMA SomeNode ==
    ASSUME IInv, NEW t
    PROVE  NodeCount(q, t) > 0 <=> \E n \in Nodes(q) : q.type[n] = t
  <1> DEFINE S == {n \in Nodes(q) : q.type[n] = t}
  <1>1. IsFiniteSet(S)
    <2>1. S \in SUBSET Surface
      BY QueueFacts
    <2> HIDE DEF S
    <2> QED BY <2>1, SurfaceQueueAssumption, FS_Subset
  <1>2. Cardinality(S) \in Nat /\ (Cardinality(S) = 0 <=> S = {})
    <2> HIDE DEF S
    <2> QED BY <1>1, FS_CardinalityType, FS_EmptySet
  <1>3. NodeCount(q, t) = Cardinality(S)
    BY DEF NodeCount
  <1>4. S # {} <=> \E n \in Nodes(q) : q.type[n] = t
    OBVIOUS
  <1> HIDE DEF S
  <1> QED BY <1>2, <1>3, <1>4

LEMMA IInvWait == IInv => WaitJustified
  <1> SUFFICES ASSUME IInv PROVE WaitJustified
    OBVIOUS
  <1> DEFINE L == QueueLines
  <1>1. QueueOK(q, L) /\ Custody(q, L, prod, cons) /\ FirstOut(q, L) /\ L \in Lines
        /\ Nodes(q) \subseteq Surface
    BY QueueFacts DEF Good
  <1>2. \A n \in Nodes(q) : Kept(q, L, prod, cons, n)
    BY <1>1 DEF Custody
  <1>3. NodeCount(q, "ACQUIRE") > 0 <=> cons \cap Nodes(q) # {}
    BY <1>2, SomeNode DEF Kept
  <1>4. ASSUME IsEmpty(q, "dirty_queue")
        PROVE  (\E n \in Nodes(q) : q.type[n] = "DEQUEUE") <=> prod \cap Nodes(q) # {}
    <2> HIDE DEF L
    <2>1. L["dirty_queue"] = << >>
      BY <1>1, <1>4, ListFacts, HeadNames
    <2>2. ToSet(L["dirty_queue"]) = {}
      BY <1>1, <2>1, ToSetFacts, HeadNames DEF Lines
    <2>3. ASSUME NEW n \in Nodes(q), q.type[n] = "DEQUEUE" PROVE prod \cap Nodes(q) # {}
      <3>1. n \in prod \/ n \in ToSet(L["dequeue_list"])
        BY <1>2, <2>2, <2>3 DEF Kept
      <3>2. CASE n \in prod
        BY <3>2
      <3>3. CASE n \in ToSet(L["dequeue_list"])
        <4> DEFINE w == L["dequeue_list"]
        <4>1. w \in Seq(Surface) /\ ToSet(w) \subseteq Nodes(q)
          BY <1>1, ListFacts, HeadNames
        <4>2. w # << >> /\ w[1] \in ToSet(w)
          BY <3>3, <4>1, ToSetFacts
        <4>3. q.priv_flags[w[1]] = 1
          BY <1>1, <4>2 DEF FirstOut
        <4>4. w[1] \in Nodes(q) /\ w[1] \in prod
          BY <1>2, <4>1, <4>2, <4>3 DEF Kept
        <4> QED BY <4>4
      <3> QED BY <3>1, <3>2, <3>3
    <2> QED BY <1>2, <2>3 DEF Kept
  <1> QED BY <1>3, <1>4, SomeNode DEF WaitJustified

LEMMA IInvLists == IInv => ListsSound
  <1> SUFFICES ASSUME IInv PROVE ListsSound
    OBVIOUS
  <1> DEFINE L == QueueLines
             listed == Nodes(q) \ Loose
  <1>1. QueueOK(q, L) /\ Custody(q, L, prod, cons) /\ L \in Lines /\ Nodes(q) \subseteq Surface
    BY QueueFacts DEF Good
  <1> HIDE DEF L
  <1>2. L["free_queue"] = FreeQ /\ L["dirty_queue"] = DirtyQ /\ L["dequeue_list"] = DequeueL
    BY LineNames DEF L
  <1>3. /\ FreeQ \in Seq(Surface) /\ Once(FreeQ) /\ ToSet(FreeQ) \subseteq Nodes(q)
        /\ DirtyQ \in Seq(Surface) /\ Once(DirtyQ) /\ ToSet(DirtyQ) \subseteq Nodes(q)
        /\ DequeueL \in Seq(Surface) /\ Once(DequeueL) /\ ToSet(DequeueL) \subseteq Nodes(q)
    BY <1>1, <1>2, ListFacts, HeadNames
  <1>4. /\ ToSet(FreeQ) \cap ToSet(DirtyQ) = {} /\ ToSet(FreeQ) \cap ToSet(DequeueL) = {}
        /\ ToSet(DirtyQ) \cap ToSet(DequeueL) = {}
    BY <1>1, <1>2, ListFacts, HeadNames, ZenonT(30)
  <1> DEFINE all == (ToSet(FreeQ) \cup ToSet(DirtyQ)) \cup ToSet(DequeueL)
  <1>5. listed = all
    BY <1>3 DEF Loose
  <1>6. listed = {n \in Surface : OnList(Heads, L, n)}
    <2>1. \A n : OnList(Heads, L, n) <=> n \in all
      BY <1>1, <1>2, ListFacts, HeadNames, SMTT(30)
    <2> HIDE DEF listed
    <2> QED BY <1>1, <1>3, <1>5, <2>1
  <1>7. WellLinked(q.heap, Heads \cup listed)
    <2> HIDE DEF listed
    <2> QED BY <1>1, <1>6, LinkedWellLinked, SurfaceQueueAssumption DEF QueueOK
  <1>8. ToSet(FreeQ \o DirtyQ \o DequeueL) \subseteq Nodes(q)
    <2> DEFINE z == FreeQ \o DirtyQ
    <2>1. z \in Seq(Surface) /\ ToSet(z) = ToSet(FreeQ) \cup ToSet(DirtyQ)
      BY <1>3, ConcatFacts, ConcatSet
    <2> HIDE DEF z
    <2>2. ToSet(z \o DequeueL) = ToSet(z) \cup ToSet(DequeueL)
      BY <1>3, <2>1, ConcatSet
    <2> QED BY <1>3, <2>1, <2>2 DEF z
  <1>9. Len(FreeQ) + Len(DirtyQ) + Len(DequeueL) = Cardinality(listed)
    <2>1. /\ IsFiniteSet(ToSet(FreeQ)) /\ Cardinality(ToSet(FreeQ)) = Len(FreeQ)
          /\ IsFiniteSet(ToSet(DirtyQ)) /\ Cardinality(ToSet(DirtyQ)) = Len(DirtyQ)
          /\ IsFiniteSet(ToSet(DequeueL)) /\ Cardinality(ToSet(DequeueL)) = Len(DequeueL)
      BY <1>3, OnceCard
    <2>2. /\ IsFiniteSet(ToSet(FreeQ) \cup ToSet(DirtyQ))
          /\ Cardinality(ToSet(FreeQ) \cup ToSet(DirtyQ)) = Len(FreeQ) + Len(DirtyQ)
      <3>1. /\ IsFiniteSet(ToSet(FreeQ) \cup ToSet(DirtyQ))
            /\ Cardinality(ToSet(FreeQ) \cup ToSet(DirtyQ))
                 = Cardinality(ToSet(FreeQ)) + Cardinality(ToSet(DirtyQ))
        BY <1>4, <2>1, ApartCard, Zenon
      <3> QED BY <2>1, <3>1
    <2>3. (ToSet(FreeQ) \cup ToSet(DirtyQ)) \cap ToSet(DequeueL) = {}
      BY <1>4
    <2>4. Cardinality(all) = (Len(FreeQ) + Len(DirtyQ)) + Len(DequeueL)
      BY <2>1, <2>2, <2>3, ApartCard
    <2> HIDE DEF listed, all
    <2> QED BY <1>5, <2>4
  <1>10. Loose \subseteq Held
    <2> SUFFICES ASSUME NEW n \in Loose PROVE n \in Held
      OBVIOUS
    <2>1. n \in Nodes(q) /\ \A a \in Heads : n \notin ToSet(L[a])
      BY <1>2, HeadNames DEF Loose
    <2> QED BY <1>1, <2>1 DEF Custody, Kept, Held
  <1> HIDE DEF listed
  <1> QED BY <1>7, <1>8, <1>9, <1>10 DEF ListsSound, listed

-----------------------------------------------------------------------------
(* The queue implements SurfaceQueueAbs.                                   *)

\* The surfaces that a client holds, and the ones of a sequence queue that
\* still wait on dequeue_list, as the mapping to SurfaceQueueAbs has it.
Out == Nodes(q) \ ToSet(FreeQ \o DirtyQ)

\* What the two waiting lines f and d and the rest o of a sound queue are.
View(u, f, d, o) ==
    /\ f \in Seq(Surface) /\ Once(f) /\ ToSet(f) \subseteq Nodes(u)
    /\ d \in Seq(Surface) /\ Once(d) /\ ToSet(d) \subseteq Nodes(u)
    /\ ToSet(f) \cap ToSet(d) = {}
    /\ o = Nodes(u) \ (ToSet(f) \cup ToSet(d)) /\ IsFiniteSet(o)
    /\ u.num_attached = Len(f) + Len(d) + Cardinality(o)
    /\ Nodes(u) \subseteq Surface /\ u.queue_size \in Nat

LEMMA ViewFacts ==
    ASSUME NEW u, NEW L, QueueOK(u, L)
    PROVE  View(u, L["free_queue"], L["dirty_queue"],
                Nodes(u) \ ToSet(L["free_queue"] \o L["dirty_queue"]))
  <1> DEFINE f == L["free_queue"]
             d == L["dirty_queue"]
             o == Nodes(u) \ ToSet(f \o d)
  <1>1. /\ f \in Seq(Surface) /\ Once(f) /\ ToSet(f) \subseteq Nodes(u)
        /\ d \in Seq(Surface) /\ Once(d) /\ ToSet(d) \subseteq Nodes(u)
        /\ ToSet(f) \cap ToSet(d) = {} /\ Nodes(u) \subseteq Surface
    BY ListFacts, HeadNames
  <1>2. /\ u.list \in Seq(Surface) /\ Once(u.list) /\ u.num_attached = Len(u.list)
        /\ u.queue_size \in Nat
    BY DEF QueueOK, Queue
  <1> HIDE DEF f, d
  <1>3. o = Nodes(u) \ (ToSet(f) \cup ToSet(d))
    BY <1>1, ConcatSet
  <1>4. /\ IsFiniteSet(ToSet(f)) /\ Cardinality(ToSet(f)) = Len(f)
        /\ IsFiniteSet(ToSet(d)) /\ Cardinality(ToSet(d)) = Len(d)
    BY <1>1, OnceCard
  <1>5. IsFiniteSet(Nodes(u)) /\ Cardinality(Nodes(u)) = u.num_attached
    BY <1>2, OnceCard DEF Nodes
  <1>6. o \in SUBSET Nodes(u)
    BY <1>3
  <1> HIDE DEF o
  <1>7. IsFiniteSet(o)
    BY <1>5, <1>6, FS_Subset
  <1> DEFINE s == ToSet(f) \cup ToSet(d)
  <1>8. IsFiniteSet(s) /\ Cardinality(s) = Len(f) + Len(d)
    <2>1. IsFiniteSet(s) /\ Cardinality(s) = Cardinality(ToSet(f)) + Cardinality(ToSet(d))
      BY <1>1, <1>4, ApartCard, Zenon
    <2> QED BY <1>4, <2>1
  <1>9. s \cap o = {} /\ s \cup o = Nodes(u)
    BY <1>1, <1>3
  <1> HIDE DEF s
  <1>10. Cardinality(s \cup o) = Cardinality(s) + Cardinality(o)
    BY <1>7, <1>8, <1>9, ApartCard, Zenon
  <1>11. u.num_attached = Len(f) + Len(d) + Cardinality(o)
    BY <1>5, <1>8, <1>9, <1>10
  <1> QED BY <1>1, <1>2, <1>3, <1>7, <1>11 DEF View, f, d, o

LEMMA QueueView ==
    ASSUME IInv
    PROVE  View(q, FreeQ, DirtyQ, Out)
  <1>1. QueueOK(q, QueueLines)
    BY QueueFacts
  <1> QED BY <1>1, ViewFacts, LineNames DEF Out

\* The same of the next state.
LEMMA NextView ==
    ASSUME IInv'
    PROVE  /\ View(q', FreeQ', DirtyQ', Out')
           /\ QueueLines'["free_queue"] = FreeQ' /\ QueueLines'["dirty_queue"] = DirtyQ'
  <1>1. QueueOK(q', QueueLines')
    BY DEF IInv, Good
  <1>2. QueueLines'["free_queue"] = FreeQ' /\ QueueLines'["dirty_queue"] = DirtyQ'
    BY HeadNames DEF QueueLines, FreeQ, DirtyQ
  <1>3. View(q', QueueLines'["free_queue"], QueueLines'["dirty_queue"],
             Nodes(q') \ ToSet(QueueLines'["free_queue"] \o QueueLines'["dirty_queue"]))
    BY <1>1, ViewFacts
  <1> QED BY <1>2, <1>3 DEF Out

\* The elements of a sequence, as SurfaceQueueAbs has them.
LEMMA AbsElems ==
    ASSUME NEW w \in Seq(Surface)
    PROVE  Abs!Elems(w) = ToSet(w) /\ (Abs!NoRepeats(w) <=> Once(w))
  <1>1. \A x : x \in ToSet(w) <=> \E i \in 1 .. Len(w) : w[i] = x
    BY ToSetFacts
  <1> QED BY <1>1 DEF Abs!Elems, Abs!NoRepeats, Once

\* The number of elements of a set is the same in the module SurfaceQueueAbs.
LEMMA AbsCardinality ==
    ASSUME NEW S
    PROVE  Abs!Cardinality(S) = Cardinality(S)
BY Zenon DEF Cardinality, Abs!Cardinality

\* The mapped variables of orderly clients.
LEMMA AbsState ==
    ASSUME IInv, Orderly
    PROVE  /\ Abs!Attached = Nodes(q)
           /\ Abs!NumAttached = q.num_attached
  <1>1. View(q, FreeQ, DirtyQ, Out)
    BY QueueView
  <1>2. Abs!Elems(FreeQ) = ToSet(FreeQ) /\ Abs!Elems(DirtyQ) = ToSet(DirtyQ)
    BY <1>1, AbsElems DEF View
  <1>3. /\ Abs!Attached = Abs!Elems(FreeQ) \cup Abs!Elems(DirtyQ) \cup Out
        /\ Abs!NumAttached = Len(FreeQ) + Len(DirtyQ) + Cardinality(Out)
    <2> DEFINE f == IF Orderly THEN FreeQ ELSE << >>
               d == IF Orderly THEN DirtyQ ELSE << >>
               o == IF Orderly THEN Nodes(q) \ ToSet(FreeQ \o DirtyQ) ELSE {}
    <2>1. /\ Abs!Attached = Abs!Elems(f) \cup Abs!Elems(d) \cup o
          /\ Abs!NumAttached = Len(f) + Len(d) + Abs!Cardinality(o)
      BY Zenon DEF Abs!Attached, Abs!NumAttached
    <2>2. f = FreeQ /\ d = DirtyQ /\ o = Out
      BY DEF Out
    <2> HIDE DEF f, d, o
    <2>3. Abs!Cardinality(Out) = Cardinality(Out)
      BY AbsCardinality
    <2> QED BY <2>1, <2>2, <2>3
  <1> QED BY <1>1, <1>2, <1>3 DEF View

LEMMA AbsAttaches ==
    ASSUME IInv, IInv', Orderly, Orderly', Attaches(q, QueueLines, q', QueueLines')
    PROVE  \E s \in Surface : Abs!Attach(s) \/ Abs!AttachDequeue(s)
  <1>1. View(q, FreeQ, DirtyQ, Out) /\ View(q', FreeQ', DirtyQ', Out')
    BY QueueView, NextView
  <1>2. PICK s \in Surface \ Nodes(q) :
          /\ q.num_attached < q.queue_size /\ Nodes(q') = Nodes(q) \cup {s}
          /\ FreeQ' \in {Append(FreeQ, s), Tail(Append(FreeQ, s))}
          /\ DirtyQ' = DirtyQ /\ q'.queue_size = q.queue_size
    BY NextView, LineNames DEF Attaches
  <1>3. s \notin Abs!Attached /\ Abs!NumAttached < q.queue_size
    BY <1>2, AbsState
  <1> DEFINE w == Append(FreeQ, s)
  <1>4. w \in Seq(Surface) /\ ToSet(w) = ToSet(FreeQ) \cup {s}
    BY <1>1, ToSetFacts DEF View
  <1>5. w # << >> /\ Once(w)
    <2>1. /\ FreeQ \in Seq(Surface) /\ Once(FreeQ) /\ s \notin ToSet(FreeQ)
          /\ \A x : x \in ToSet(FreeQ) <=> \E i \in 1 .. Len(FreeQ) : FreeQ[i] = x
      BY <1>1, <1>2, ToSetFacts DEF View
    <2>2. /\ Len(w) = Len(FreeQ) + 1 /\ Len(FreeQ) \in Nat /\ w[Len(FreeQ) + 1] = s
          /\ \A i \in 1 .. Len(FreeQ) : w[i] = FreeQ[i]
      BY <2>1
    <2> HIDE DEF w
    <2>3. \A i \in 1 .. Len(w) : i \in 1 .. Len(FreeQ) \/ i = Len(FreeQ) + 1
      BY <2>2
    <2>4. w # << >>
      BY <1>4, <2>2
    <2> QED BY <2>1, <2>2, <2>3, <2>4 DEF Once
  <1> HIDE DEF w
  <1>6. CASE FreeQ' = w
    <2>1. Out' = Out
      BY <1>1, <1>2, <1>4, <1>6 DEF View
    <2>2. Abs!Attach(s)
      BY <1>2, <1>3, <1>6, <2>1 DEF Abs!Attach, Out, w
    <2> QED BY <2>2
  <1>7. CASE FreeQ' = Tail(w)
    <2>1. ToSet(FreeQ') = ToSet(w) \ {w[1]} /\ w[1] \in ToSet(w)
      BY <1>4, <1>5, <1>7, TailSet, ToSetFacts
    <2>2. Out' = Out \cup {w[1]}
      BY <1>1, <1>2, <1>4, <2>1 DEF View
    <2>3. Head(w) = w[1]
      BY <1>4, <1>5
    <2>4. Abs!AttachDequeue(s)
      BY <1>2, <1>3, <1>7, <2>2, <2>3 DEF Abs!AttachDequeue, Out, w
    <2> QED BY <2>4
  <1> QED BY <1>2, <1>6, <1>7 DEF w

LEMMA AbsPasses ==
    ASSUME IInv, IInv', Orderly, Orderly', Passes(q, QueueLines, q', QueueLines')
    PROVE  [Abs!Next]_(Abs!vars)
  <1>1. View(q, FreeQ, DirtyQ, Out) /\ View(q', FreeQ', DirtyQ', Out')
    BY QueueView, NextView
  <1>2. Nodes(q') = Nodes(q) /\ q'.queue_size = q.queue_size
    BY DEF Passes
  <1>3. CASE FreeQ' = FreeQ /\ DirtyQ' = DirtyQ
    <2>1. Out' = Out
      BY <1>1, <1>2, <1>3 DEF View
    <2> QED BY <1>2, <1>3, <2>1 DEF Abs!vars, Out
  <1>4. CASE FreeQ # << >> /\ FreeQ' = Tail(FreeQ) /\ DirtyQ' = DirtyQ
    <2>1. ToSet(FreeQ') = ToSet(FreeQ) \ {FreeQ[1]} /\ FreeQ[1] \in ToSet(FreeQ)
      BY <1>1, <1>4, TailSet, ToSetFacts DEF View
    <2>2. Out' = Out \cup {FreeQ[1]} /\ Head(FreeQ) = FreeQ[1]
      BY <1>1, <1>2, <1>4, <2>1 DEF View
    <2>3. Abs!Dequeue
      BY <1>2, <1>4, <2>2 DEF Abs!Dequeue, Out
    <2> QED BY <2>3 DEF Abs!Next
  <1>5. CASE DirtyQ # << >> /\ DirtyQ' = Tail(DirtyQ) /\ FreeQ' = FreeQ
    <2>1. ToSet(DirtyQ') = ToSet(DirtyQ) \ {DirtyQ[1]} /\ DirtyQ[1] \in ToSet(DirtyQ)
      BY <1>1, <1>5, TailSet, ToSetFacts DEF View
    <2>2. Out' = Out \cup {DirtyQ[1]} /\ Head(DirtyQ) = DirtyQ[1]
      BY <1>1, <1>2, <1>5, <2>1 DEF View
    <2>3. Abs!Acquire
      BY <1>2, <1>5, <2>2 DEF Abs!Acquire, Out
    <2> QED BY <2>3 DEF Abs!Next
  <1>6. CASE \E s \in Nodes(q) \ (ToSet(FreeQ) \cup ToSet(DirtyQ)) :
               FreeQ' = Append(FreeQ, s) /\ DirtyQ' = DirtyQ
    <2>1. PICK s \in Nodes(q) \ (ToSet(FreeQ) \cup ToSet(DirtyQ)) :
                 FreeQ' = Append(FreeQ, s) /\ DirtyQ' = DirtyQ
      BY <1>6
    <2>2. s \in Surface /\ s \in Out
      BY <1>1, <2>1 DEF View
    <2>3. ToSet(FreeQ') = ToSet(FreeQ) \cup {s}
      BY <1>1, <2>1, <2>2, ToSetFacts DEF View
    <2>4. Out' = Out \ {s}
      BY <1>1, <1>2, <2>1, <2>3 DEF View
    <2>5. Abs!Release(s)
      BY <1>2, <2>1, <2>2, <2>4 DEF Abs!Release, Out
    <2> QED BY <2>2, <2>5 DEF Abs!Next
  <1>7. CASE \E w \in Seq(Surface) : DirtyQ' = DirtyQ \o w /\ FreeQ' = FreeQ
    <2>1. PICK w \in Seq(Surface) : DirtyQ' = DirtyQ \o w /\ FreeQ' = FreeQ
      BY <1>7
    <2>2. CASE w = << >>
      <3>1. DirtyQ' = DirtyQ
        BY <1>1, <2>1, <2>2 DEF View
      <3> QED BY <1>3, <2>1, <3>1
    <2>3. CASE w # << >>
      <3>1. ToSet(DirtyQ') = ToSet(DirtyQ) \cup ToSet(w)
        BY <1>1, <2>1, ConcatSet DEF View
      <3>2. /\ Len(DirtyQ) \in Nat /\ Len(w) \in Nat /\ Len(w) >= 1
            /\ Len(DirtyQ') = Len(DirtyQ) + Len(w)
            /\ \A i \in 1 .. Len(DirtyQ) : DirtyQ'[i] = DirtyQ[i]
            /\ \A i \in 1 .. Len(w) : DirtyQ'[Len(DirtyQ) + i] = w[i]
        BY <1>1, <2>1, <2>3, ConcatFacts DEF View
      <3>3. /\ \A x : x \in ToSet(w) <=> \E i \in 1 .. Len(w) : w[i] = x
            /\ \A x : x \in ToSet(DirtyQ) <=> \E i \in 1 .. Len(DirtyQ) : DirtyQ[i] = x
        BY <1>1, <2>1, ToSetFacts DEF View
      <3>4. Once(DirtyQ')
        BY <1>1 DEF View
      <3>5. Once(w)
        <4> SUFFICES ASSUME NEW i \in 1 .. Len(w), NEW j \in 1 .. Len(w), w[i] = w[j]
                     PROVE  i = j
          BY DEF Once
        <4>1. /\ Len(DirtyQ) + i \in 1 .. Len(DirtyQ') /\ Len(DirtyQ) + j \in 1 .. Len(DirtyQ')
              /\ DirtyQ'[Len(DirtyQ) + i] = DirtyQ'[Len(DirtyQ) + j]
          BY <3>2
        <4>2. Len(DirtyQ) + i = Len(DirtyQ) + j
          BY <3>4, <4>1 DEF Once
        <4> QED BY <3>2, <4>2
      <3>6. ToSet(w) \cap ToSet(DirtyQ) = {}
        <4> SUFFICES ASSUME NEW x \in ToSet(w), x \in ToSet(DirtyQ) PROVE FALSE
          OBVIOUS
        <4>1. PICK i \in 1 .. Len(w) : w[i] = x
          BY <3>3
        <4>2. PICK j \in 1 .. Len(DirtyQ) : DirtyQ[j] = x
          BY <3>3
        <4>3. /\ Len(DirtyQ) + i \in 1 .. Len(DirtyQ') /\ j \in 1 .. Len(DirtyQ')
              /\ DirtyQ'[Len(DirtyQ) + i] = DirtyQ'[j]
          BY <3>2, <4>1, <4>2
        <4>4. Len(DirtyQ) + i = j
          BY <3>4, <4>3 DEF Once
        <4> QED BY <3>2, <4>4
      <3>7. ToSet(w) \subseteq Out /\ Out' = Out \ ToSet(w)
        BY <1>1, <1>2, <2>1, <3>1, <3>6 DEF View
      <3>8. Len(w) <= Cardinality(Out) /\ Cardinality(Out) \in Nat
        <4>1. IsFiniteSet(Out) /\ ToSet(w) \in SUBSET Out
          BY <1>1, <3>7 DEF View
        <4>2. Cardinality(ToSet(w)) = Len(w)
          BY <3>5, OnceCard
        <4> QED BY <4>1, <4>2, FS_Subset, FS_CardinalityType
      <3>9. w \in [1 .. Len(w) -> Out]
        BY <3>3, <3>7
      <3>10. w \in Abs!Batches
        <4>1. Len(w) \in 1 .. Cardinality(Out)
          BY <3>2, <3>8
        <4>2. Abs!Batches = UNION {[1 .. n -> Out] : n \in 1 .. Cardinality(Out)}
          <5>1. (IF Orderly THEN Nodes(q) \ ToSet(FreeQ \o DirtyQ) ELSE {}) = Out
            BY DEF Out
          <5>2. Abs!Cardinality(Out) = Cardinality(Out)
            BY AbsCardinality
          <5> QED BY <5>1, <5>2, Zenon DEF Abs!Batches
        <4> QED BY <3>9, <4>1, <4>2
      <3>11. Abs!NoRepeats(w) /\ Abs!Elems(w) = ToSet(w)
        BY <3>5, AbsElems
      <3>12. Abs!Enqueue(w)
        BY <1>2, <2>1, <3>7, <3>11 DEF Abs!Enqueue, Out
      <3> QED BY <3>10, <3>12 DEF Abs!Next
    <2> QED BY <2>2, <2>3
  <1>8. /\ QueueLines["free_queue"] = FreeQ /\ QueueLines["dirty_queue"] = DirtyQ
        /\ QueueLines'["free_queue"] = FreeQ' /\ QueueLines'["dirty_queue"] = DirtyQ'
    BY LineNames, NextView
  <1> QED BY <1>3, <1>4, <1>5, <1>6, <1>7, <1>8 DEF Passes

LEMMA AbsResizes ==
    ASSUME IInv, IInv', Orderly, Orderly', Resizes(q, QueueLines, q', QueueLines')
    PROVE  \E n \in 0 .. Len(FreeQ) : Abs!Resize(n)
  <1>1. View(q, FreeQ, DirtyQ, Out) /\ View(q', FreeQ', DirtyQ', Out')
    BY QueueView, NextView
  <1>2. PICK n \in 0 .. Len(FreeQ) :
          /\ q.num_attached - n <= q'.queue_size
          /\ FreeQ' = SubSeq(FreeQ, n + 1, Len(FreeQ)) /\ DirtyQ' = DirtyQ
          /\ Nodes(q') \ ToSet(FreeQ') = Nodes(q) \ ToSet(FreeQ)
    BY NextView, LineNames DEF Resizes
  <1>3. Out' = Out
    BY <1>1, <1>2 DEF View
  <1>4. q'.queue_size \in Nat
    BY <1>1 DEF View
  <1>5. Abs!NumAttached - n <= q'.queue_size
    BY <1>2, AbsState
  <1>6. Abs!Resize(n)
    BY <1>2, <1>3, <1>4, <1>5 DEF Abs!Resize, Out
  <1> QED BY <1>6

\* Every step of the queue is a step of SurfaceQueueAbs.
LEMMA AbsStep ==
    ASSUME TameClients, IInv, IInv', Step
    PROVE  [Abs!Next]_(Abs!vars)
  <1>1. Orderly /\ Orderly'
    BY DEF TameClients, IInv, Clients, Orderly
  <1>2. CASE Attaches(q, QueueLines, q', QueueLines')
    BY <1>1, <1>2, AbsAttaches DEF Abs!Next
  <1>3. CASE Passes(q, QueueLines, q', QueueLines')
    BY <1>1, <1>3, AbsPasses
  <1>4. CASE Resizes(q, QueueLines, q', QueueLines')
    <2>1. \E n \in 0 .. Len(FreeQ) : Abs!Resize(n)
      BY <1>1, <1>4, AbsResizes
    <2> QED BY <1>1, <2>1 DEF Abs!Next
  <1>5. CASE Nodes(q') = {}
    <2>1. View(q', FreeQ', DirtyQ', Out')
      BY NextView
    <2>2. ToSet(FreeQ') = {} /\ ToSet(DirtyQ') = {} /\ Out' = {}
      BY <1>5, <2>1 DEF View
    <2>3. FreeQ' = << >> /\ DirtyQ' = << >> /\ q'.queue_size \in Nat
      BY <2>1, <2>2, ToSetFacts DEF View
    <2>4. Abs!Clear
      BY <1>1, <2>2, <2>3 DEF Abs!Clear, Out
    <2> QED BY <2>4 DEF Abs!Next
  <1> QED BY <1>2, <1>3, <1>4, <1>5 DEF Step, Shift

\* The initial states.
LEMMA AbsInit ==
    ASSUME TameClients, Init
    PROVE  Abs!Init
  <1>1. IInv
    BY InitInv
  <1>2. Orderly
    BY <1>1 DEF TameClients, IInv, Clients, Orderly
  <1>3. View(q, FreeQ, DirtyQ, Out)
    BY <1>1, QueueView
  <1>4. q.list = << >>
    BY DEF Init, NewQueue
  <1>5. Nodes(q) = {}
    BY <1>4 DEF Nodes, ToSet
  <1>6. ToSet(FreeQ) = {} /\ ToSet(DirtyQ) = {} /\ Out = {}
    BY <1>3, <1>5 DEF View
  <1>7. FreeQ = << >> /\ DirtyQ = << >> /\ q.queue_size \in Nat
    BY <1>3, <1>6, ToSetFacts DEF View
  <1> QED BY <1>2, <1>6, <1>7 DEF Abs!Init, Out

-----------------------------------------------------------------------------
(* The theorems.                                                           *)

\* The inductive invariant holds in every reachable state, whatever the
\* surfaces, the sizes and the interleaving of the calls: dequeue, enqueue,
\* acquire, release, can_dequeue with and without alloc_cb, flush, reset, both
\* kinds of set_size, destroy and create.
THEOREM Invariance ==
    ASSUME TameClients
    PROVE  Spec => []IInv
  <1>1. Init => IInv
    BY InitInv
  <1>2. IInv /\ [Next]_vars => IInv'
    BY NextInv
  <1> QED BY <1>1, <1>2, PTL DEF Spec

\* The rings of the item_link lists are sound although list_del leaves stale
\* links: a list holds only allocated nodes, a node is on one list at most, and
\* a node on no list is in a client's hands.
THEOREM ListsStaySound ==
    ASSUME TameClients
    PROVE  Spec => []ListsSound
  <1>1. IInv => ListsSound
    BY IInvLists
  <1> QED BY <1>1, Invariance, PTL

\* num_attached is the length of the node list and does not exceed queue_size,
\* through need_attach with its alloc_cb window, detach and every resize.
THEOREM AttachCountExact ==
    ASSUME TameClients
    PROVE  Spec => []AttachCount
  <1>1. IInv => AttachCount
    BY QueueFacts DEF QueueOK, AttachCount
  <1> QED BY <1>1, Invariance, PTL

\* can_dequeue(wait) and can_acquire(wait) sleep exactly when another client
\* owes the queue a release or an enqueue.
THEOREM WaitsAreJustified ==
    ASSUME TameClients
    PROVE  Spec => []WaitJustified
  <1>1. IInv => WaitJustified
    BY IInvWait
  <1> QED BY <1>1, Invariance, PTL

\* acquire gives surfaces in the order of the enqueue calls (default queue) or
\* of the dequeue calls (sequence queue, whose enqueue holds back a surface
\* until the ones dequeued before it are there).
THEOREM DeliveredInOrder ==
    ASSUME TameClients
    PROVE  Spec => []DeliveryOrder
  <1>1. IInv => DeliveryOrder
    BY LineNames DEF IInv, Good, InOrder, DeliveryOrder
  <1> QED BY <1>1, Invariance, PTL

\* No list operation of the queue touches a freed node, when clients have given
\* back what they hold before flush, reset, set_size with flush or destroy
\* delete the nodes one after the other.
THEOREM NeverUsesFreedNode ==
    ASSUME TameClients
    PROVE  Spec => []NoUseAfterFree
  <1>1. IInv => NoUseAfterFree
    BY DEF IInv
  <1> QED BY <1>1, Invariance, PTL

\* A surface that a client holds stays attached until it is given back or the
\* queue is emptied: set_size drops free surfaces only.
THEOREM HeldSurfacesStay ==
    ASSUME TameClients
    PROVE  Spec => HeldSurfacesSurvive
  <1> DEFINE A == \A s \in Held \cap Nodes(q) :
                    \/ s \in Nodes(q)'
                    \/ s \notin Held'
                    \/ Nodes(q)' = {}
  <1>1. ASSUME IInv, [Next]_vars PROVE A
    <2>1. Step
      BY <1>1, NextInv
    <2>2. Nodes(q)' = Nodes(q')
      BY DEF Nodes
    <2>3. CASE Attaches(q, QueueLines, q', QueueLines') \/ Passes(q, QueueLines, q', QueueLines')
      BY <2>2, <2>3 DEF Attaches, Passes
    <2>4. CASE Resizes(q, QueueLines, q', QueueLines')
      <3>1. \A n \in Nodes(q) : Kept(q, QueueLines, prod, cons, n)
        BY <1>1 DEF IInv, Good, Custody
      <3>2. \A s \in Held \cap Nodes(q) : s \notin ToSet(QueueLines["free_queue"])
        BY <3>1 DEF Kept, Held
      <3>3. Nodes(q) \ ToSet(QueueLines["free_queue"]) \subseteq Nodes(q')
        BY <2>4 DEF Resizes
      <3> QED BY <2>2, <3>2, <3>3
    <2>5. CASE Nodes(q') = {}
      BY <2>2, <2>5
    <2> QED BY <2>1, <2>3, <2>4, <2>5 DEF Step, Shift
  <1>2. IInv /\ [Next]_vars => [A]_vars
    BY <1>1
  <1>3. Spec => [][A]_vars
    BY <1>2, Invariance, PTL DEF Spec
  <1> QED BY <1>3 DEF HeldSurfacesSurvive

\* The queue with its pointers, node types, flags and two implementations keeps
\* the promises of SurfaceQueueAbs: every call is one of its steps or none.
THEOREM Refinement ==
    ASSUME TameClients
    PROVE  Spec => Implements
  <1>1. Init => Abs!Init
    BY AbsInit
  <1>2. IInv /\ IInv' /\ [Next]_vars => [Abs!Next]_(Abs!vars)
    BY NextInv, AbsStep
  <1> QED BY <1>1, <1>2, Invariance, PTL DEF Spec, Implements, Abs!Spec
-----------------------------------------------------------------------------
(* Callback lists of any length, with any number of emitting threads.      *)

\* The cells of the list.
Ring == linked \cup {Anchor}

\* The loops keep two cells each.
WalkType ==
    walk \in [Walker -> [phase : {"idle", "test", "in_cb"}, pos : NotifyCells,
                         storage : NotifyCells, stay : SUBSET Item,
                         count : [Item -> Nat]]]

\* The list is sound in memory, and is not emitted while it is torn down.
LInv ==
    /\ links \in Heaps(NotifyCells)
    /\ linked \subseteq Item
    /\ LinksSound
    /\ WalkType
    /\ destroying \in BOOLEAN
    /\ destroying => Silent

\* A queue starts with an empty list and no loop.
LEMMA InitLInv == NotifyInit => LInv
<1> SUFFICES ASSUME NotifyInit PROVE LInv
  OBVIOUS
<1>1. links \in Heaps(NotifyCells) /\ linked \subseteq Item /\ LinksSound
  BY DEF NotifyInit, Heaps, NotifyCells, LinksSound, WellLinked
<1>2. WalkType
  BY DEF NotifyInit, WalkType, NoWalk, NotifyCells
<1>3. Silent /\ ~destroying
  BY DEF NotifyInit, Silent, NoWalk
<1>4. destroying \in BOOLEAN
  BY DEF NotifyInit
<1> QED
  BY <1>1, <1>2, <1>3, <1>4 DEF LInv, Silent

\* _notify_add and _notify_remove keep the links sound.
LEMMA EditLInv ==
    ASSUME LInv, NEW i \in Item, AddCb(i) \/ RemoveCb(i)
    PROVE  LInv'
<1> USE NotifyListAssumption
<1>1. Ring \in SUBSET NotifyCells /\ Anchor \in Ring /\ i \in NotifyCells
  BY DEF LInv, Ring, NotifyCells
<1>2. CASE AddCb(i)
  <2> DEFINE h1 == ListInitHead(links, i)
  <2>1. i \in NotifyCells \ Ring
    BY <1>1, <1>2 DEF AddCb, Ring
  <2>2. h1 \in Heaps(NotifyCells) /\ WellLinked(h1, Ring)
    BY <1>1, <2>1, InitHeadWellLinked DEF LInv, LinksSound, Ring
  <2> HIDE DEF h1
  <2>3. /\ ListAddTail(h1, i, Anchor) \in Heaps(NotifyCells)
        /\ WellLinked(ListAddTail(h1, i, Anchor), Ring \cup {i})
    BY <1>1, <2>1, <2>2, AddTailWellLinked
  <2>4. links' = ListAddTail(h1, i, Anchor) /\ linked' = linked \cup {i}
    BY <1>2 DEF AddCb, NotifyAdd, h1
  <2>5. linked' \cup {Anchor} = Ring \cup {i}
    BY <2>4 DEF Ring
  <2>6. links' \in Heaps(NotifyCells) /\ LinksSound'
    BY <2>3, <2>4, <2>5 DEF LinksSound
  <2>7. WalkType' /\ (destroying' => Silent')
    BY <1>2 DEF AddCb, LInv, WalkType, Silent
  <2> QED
    BY <1>2, <2>4, <2>6, <2>7 DEF LInv, AddCb
<1>3. CASE RemoveCb(i)
  <2>1. i \in Ring
    BY <1>3 DEF RemoveCb, Ring
  <2>2. ListDel(links, i) \in Heaps(NotifyCells) /\ WellLinked(ListDel(links, i), Ring \ {i})
    BY <1>1, <2>1, DelWellLinked DEF LInv, LinksSound, Ring
  <2>3. links' = ListDel(links, i) /\ linked' \cup {Anchor} = Ring \ {i}
    BY <1>3 DEF RemoveCb, NotifyRemove, Ring
  <2>4. links' \in Heaps(NotifyCells) /\ LinksSound'
    BY <2>2, <2>3 DEF LinksSound
  <2>5. WalkType' /\ (destroying' => Silent')
    BY <1>3 DEF RemoveCb, LInv, WalkType, Silent
  <2> QED
    BY <1>3, <2>4, <2>5 DEF LInv, RemoveCb
<1> QED
  BY <1>2, <1>3

\* _notify_remove_all keeps the links sound at every turn of its loop.
LEMMA RemoveAllLInv ==
    ASSUME LInv, RemoveAll \/ RemoveOne \/ AllRemoved
    PROVE  LInv'
<1> USE NotifyListAssumption
<1>1. CASE RemoveAll \/ AllRemoved
  BY <1>1 DEF LInv, RemoveAll, AllRemoved, LinksSound, WalkType, Silent, Heaps
<1>2. CASE RemoveOne
  <2> DEFINE i == links.next[Anchor]
  <2>1. Ring \in SUBSET NotifyCells /\ i \in Ring /\ i # Anchor
    BY <1>2 DEF RemoveOne, LInv, LinksSound, WellLinked, Ring, NotifyCells
  <2>2. links' = ListDel(links, i) /\ linked' \cup {Anchor} = Ring \ {i}
    BY <1>2 DEF RemoveOne, Ring
  <2>3. linked' \subseteq Item /\ UNCHANGED <<walk, destroying>>
    BY <1>2 DEF RemoveOne, LInv
  <2> HIDE DEF i
  <2>4. ListDel(links, i) \in Heaps(NotifyCells) /\ WellLinked(ListDel(links, i), Ring \ {i})
    BY <2>1, DelWellLinked DEF LInv, LinksSound, Ring
  <2>5. links' \in Heaps(NotifyCells) /\ LinksSound'
    BY <2>2, <2>4 DEF LinksSound
  <2> QED
    BY <2>3, <2>5 DEF LInv, WalkType, Silent
<1> QED
  BY <1>1, <1>2

\* _notify_emit only reads the list.
LEMMA EmitLInv ==
    ASSUME LInv, NEW w \in Walker, EmitStart(w) \/ Loop(w)
    PROVE  LInv'
<1> USE NotifyListAssumption
<1>1. UNCHANGED <<links, linked, destroying>>
  BY DEF EmitStart, Loop, Call, CallReturns, EmitEnd
<1>2. links.next \in [NotifyCells -> NotifyCells] /\ Anchor \in NotifyCells
  BY DEF LInv, Heaps, NotifyCells
<1>3. WalkType'
  <2>1. CASE EmitStart(w)
    BY <1>2, <2>1 DEF EmitStart, LInv, WalkType
  <2>2. CASE Call(w)
    <3>1. walk[w].pos \in Item
      BY <2>2 DEF Call, LInv, WalkType, NotifyCells
    <3> QED
      BY <2>2, <3>1 DEF Call, LInv, WalkType
  <2>3. CASE CallReturns(w)
    <3>1. walk[w].storage \in NotifyCells /\ links.next[walk[w].storage] \in NotifyCells
      BY <1>2 DEF LInv, WalkType
    <3> QED
      BY <2>3, <3>1, ZenonT(60) DEF CallReturns, LInv, WalkType
  <2>4. CASE EmitEnd(w)
    BY <1>2, <2>4 DEF EmitEnd, LInv, WalkType, NoWalk
  <2> QED
    BY <2>1, <2>2, <2>3, <2>4 DEF Loop
<1>4. ~destroying
  BY DEF EmitStart, Loop, Call, CallReturns, EmitEnd, LInv, Silent
<1>5. LinksSound'
  BY <1>1 DEF LInv, LinksSound
<1> QED
  BY <1>1, <1>3, <1>4, <1>5 DEF LInv

\* Every step keeps the list sound.
LEMMA NextLInv == LInv /\ [NotifyNext]_notifyVars => LInv'
<1> SUFFICES ASSUME LInv, [NotifyNext]_notifyVars PROVE LInv'
  OBVIOUS
<1>1. CASE UNCHANGED notifyVars
  BY <1>1 DEF notifyVars, LInv, LinksSound, WalkType, Silent
<1>2. CASE NotifyNext
  BY <1>2, EditLInv, RemoveAllLInv, EmitLInv DEF NotifyNext, Registration
<1> QED
  BY <1>1, <1>2

\* No link of a callback list leads to a freed item, whatever callbacks and
\* threads add and remove: _notify_add, _notify_remove, _notify_remove_all.
THEOREM LinksSoundTheorem == NotifySpec => []LinksSound
<1>1. NotifyInit => LInv
  BY InitLInv
<1>2. LInv => LinksSound
  BY DEF LInv
<1> QED
  BY <1>1, <1>2, NextLInv, PTL DEF NotifySpec

-----------------------------------------------------------------------------
(* What an emission calls.  LinksSound says nothing about the order of the *)
(* items, so there has to be one: r gives every item the number of the     *)
(* addition that put it there, and c every loop the rank it has come to.   *)

\* The links lead from every item of X to the one with the next rank.
Ordered(H, X, r, n) ==
    /\ r[Anchor] = 0
    /\ \A i \in X : r[i] >= 1 /\ r[i] <= n
    /\ \A i, j \in X : r[i] = r[j] => i = j
    /\ \A a \in X \cup {Anchor} :
         IF H.next[a] = Anchor THEN \A d \in X : r[d] <= r[a]
         ELSE r[a] < r[H.next[a]] /\ \A d \in X : r[d] <= r[a] \/ r[d] >= r[H.next[a]]

\* The cell p comes next after the items up to c: none of X is between, and
\* if p is the head none of Y is left.
NextUp(p, X, Y, r, c) ==
    IF p = Anchor THEN \A i \in Y : r[i] <= c
    ELSE p \in X /\ r[p] > c /\ \A i \in X : r[i] <= c \/ r[i] >= r[p]

\* A loop that has called the items up to c.
WalkOK(W, X, r, c) ==
    /\ \A i \in Item : W.count[i] <= 1
    /\ W.phase # "idle" =>
         /\ W.stay \in SUBSET X
         /\ \A i \in W.stay : r[i] <= c => W.count[i] = 1
         /\ \A i \in X : r[i] > c => W.count[i] = 0
    /\ W.phase = "test" =>
         /\ NextUp(W.pos, X, W.stay, r, c)
         /\ W.pos # Anchor => NextUp(W.storage, X, W.stay, r, r[W.pos])
    /\ W.phase = "in_cb" => NextUp(W.storage, X, W.stay, r, c) /\ W.storage # W.pos

\* The list is in the order r, and every loop has called what comes up to c.
WalksInOrder(r, c, m) ==
    /\ Ordered(links, linked, r, m)
    /\ \A w \in Walker : WalkOK(walk[w], linked, r, c[w])

\* There are such r, c and m, and no freed item was read.
NInv ==
    /\ LInv /\ NoFreedRead
    /\ \E r \in [NotifyCells -> Nat], c \in [Walker -> Nat], m \in Nat :
         WalksInOrder(r, c, m)

\* An item is added at the end.
LEMMA OrderedAdd ==
    ASSUME LInv, NEW r \in [NotifyCells -> Nat], NEW m \in Nat, Ordered(links, linked, r, m),
           NEW i \in Item, i \notin linked
    PROVE  Ordered(NotifyAdd(links, i), linked \cup {i}, [r EXCEPT ![i] = m + 1], m + 1)
  <1> DEFINE p == links.prev[Anchor]
             rank == [r EXCEPT ![i] = m + 1]
             H == NotifyAdd(links, i)
             X == linked
  <1> USE NotifyListAssumption
  <1>1. /\ links \in Heaps(NotifyCells) /\ X \in SUBSET Item /\ WellLinked(links, X \cup {Anchor})
        /\ Anchor \in NotifyCells /\ i \in NotifyCells /\ Item \in SUBSET NotifyCells /\ Anchor \notin Item
    BY DEF LInv, LinksSound, NotifyCells
  <1>2. /\ p \in X \cup {Anchor} /\ links.next[p] = Anchor /\ p # i
        /\ \A a \in X \cup {Anchor} : links.next[a] \in X \cup {Anchor} /\ (a # p => links.next[a] # Anchor)
    BY <1>1 DEF WellLinked
  <1>3. /\ H.next[i] = Anchor /\ H.next[p] = i
        /\ \A a \in X \cup {Anchor} : a # p => H.next[a] = links.next[a]
    BY <1>1, <1>2 DEF NotifyAdd, ListAddTail, ListInitHead, Heaps
  <1>4. /\ rank \in [NotifyCells -> Nat] /\ rank[i] = m + 1 /\ \A a \in X \cup {Anchor} : rank[a] = r[a] /\ r[a] \in Nat
    BY <1>1
  <1>5. \A a \in X \cup {Anchor} : r[a] <= m
    BY <1>4 DEF Ordered
  <1> HIDE DEF H, p, rank
  <1>6. \A a, b \in X \cup {i} : rank[a] = rank[b] => a = b
    BY <1>4, <1>5 DEF Ordered
  <1>7. \A a \in X \cup {i} : rank[a] >= 1 /\ rank[a] <= m + 1
    BY <1>4, <1>5 DEF Ordered
  <1>8. ASSUME NEW a \in X \cup {i} \cup {Anchor}
        PROVE  IF H.next[a] = Anchor THEN \A d \in X \cup {i} : rank[d] <= rank[a]
               ELSE rank[a] < rank[H.next[a]] /\ \A d \in X \cup {i} : rank[d] <= rank[a] \/ rank[d] >= rank[H.next[a]]
    <2>1. CASE a = i
      BY <1>3, <1>7, <1>4, <2>1
    <2>2. CASE a = p
      <3>1. \A d \in X : r[d] <= r[p]
        BY <1>2 DEF Ordered
      <3>2. H.next[a] = i /\ i # Anchor
        BY <1>1, <1>3, <2>2
      <3>3. rank[a] = r[p] /\ rank[i] = m + 1 /\ r[p] <= m /\ r[p] \in Nat
        BY <1>2, <1>4, <1>5, <2>2
      <3> QED BY <1>4, <3>1, <3>2, <3>3
    <2>3. CASE a # i /\ a # p
      <3>1. a \in X \cup {Anchor} /\ H.next[a] = links.next[a] /\ links.next[a] # Anchor /\ links.next[a] \in X
        BY <1>2, <1>3, <2>3
      <3>2. r[a] < r[links.next[a]] /\ \A d \in X : r[d] <= r[a] \/ r[d] >= r[links.next[a]]
        BY <3>1 DEF Ordered
      <3>3. rank[a] = r[a] /\ rank[links.next[a]] = r[links.next[a]] /\ r[links.next[a]] <= m
            /\ r[a] \in Nat /\ r[links.next[a]] \in Nat
        BY <1>4, <1>5, <3>1
      <3> QED BY <1>4, <3>1, <3>2, <3>3
    <2> QED BY <2>1, <2>2, <2>3
  <1>9. rank[Anchor] = 0
    BY <1>4 DEF Ordered
  <1>10. Ordered(H, X \cup {i}, rank, m + 1)
    BY <1>6, <1>7, <1>8, <1>9 DEF Ordered
  <1> QED BY <1>10 DEF H, rank

\* An item is removed.
LEMMA OrderedDel ==
    ASSUME LInv, NEW r \in [NotifyCells -> Nat], NEW m \in Nat, Ordered(links, linked, r, m),
           NEW i \in linked
    PROVE  Ordered(ListDel(links, i), linked \ {i}, r, m)
  <1> DEFINE p == links.prev[i]
             n == links.next[i]
             H == ListDel(links, i)
             X == linked
             Y == linked \ {i}
  <1> USE NotifyListAssumption
  <1>1. /\ links \in Heaps(NotifyCells) /\ X \in SUBSET Item /\ WellLinked(links, X \cup {Anchor})
        /\ Anchor \in NotifyCells /\ i \in NotifyCells /\ Item \in SUBSET NotifyCells /\ Anchor \notin Item
    BY DEF LInv, LinksSound, NotifyCells
  <1>2. /\ p \in X \cup {Anchor} /\ links.next[p] = i /\ n \in X \cup {Anchor}
        /\ \A a \in X \cup {Anchor} : links.next[a] \in X \cup {Anchor} /\ (a # p => links.next[a] # i)
    BY <1>1 DEF WellLinked
  <1>3. H.next[p] = n /\ \A a \in X \cup {Anchor} : a # p => H.next[a] = links.next[a]
    BY <1>1, <1>2 DEF ListDel, Heaps
  <1>4. \A a \in X \cup {Anchor} : r[a] \in Nat
    BY <1>1
  <1>5. i # Anchor /\ r[p] < r[i] /\ \A d \in X : r[d] <= r[p] \/ r[d] >= r[i]
    BY <1>1, <1>2 DEF Ordered
  <1>6. \A d \in Y : r[d] # r[i]
    BY DEF Ordered
  <1>7. IF n = Anchor THEN \A d \in X : r[d] <= r[i]
        ELSE r[i] < r[n] /\ \A d \in X : r[d] <= r[i] \/ r[d] >= r[n]
    BY <1>2 DEF Ordered
  <1> HIDE DEF H, p, n
  <1>8. ASSUME NEW a \in Y \cup {Anchor}
        PROVE  IF H.next[a] = Anchor THEN \A d \in Y : r[d] <= r[a]
               ELSE r[a] < r[H.next[a]] /\ \A d \in Y : r[d] <= r[a] \/ r[d] >= r[H.next[a]]
    <2>1. CASE a = p
      <3>1. CASE n = Anchor
        <4>1. \A d \in Y : r[d] <= r[p]
          BY <1>2, <1>4, <1>5, <1>6, <1>7, <3>1
        <4> QED BY <1>3, <2>1, <3>1, <4>1
      <3>2. CASE n # Anchor
        <4>1. r[p] < r[n]
          BY <1>2, <1>4, <1>5, <1>7, <3>2
        <4>2. ASSUME NEW d \in Y PROVE r[d] <= r[p] \/ r[d] >= r[n]
          <5>1. r[d] \in Nat /\ r[p] \in Nat /\ r[i] \in Nat /\ r[n] \in Nat /\ r[d] # r[i]
            BY <1>2, <1>4, <1>6
          <5>2. (r[d] <= r[p] \/ r[d] >= r[i]) /\ (r[d] <= r[i] \/ r[d] >= r[n])
            BY <1>5, <1>7, <3>2
          <5> QED BY <5>1, <5>2
        <4> QED BY <1>3, <2>1, <3>2, <4>1, <4>2
      <3> QED BY <3>1, <3>2
    <2>2. CASE a # p
      <3>1. H.next[a] = links.next[a] /\ a \in X \cup {Anchor}
        BY <1>3, <2>2
      <3> QED BY <3>1 DEF Ordered
    <2> QED BY <2>1, <2>2
  <1>9. Ordered(H, Y, r, m)
    BY <1>8 DEF Ordered
  <1> QED BY <1>9 DEF H

\* A loop while an item is added.
LEMMA WalkAdd ==
    ASSUME NEW X \in SUBSET Item, NEW r \in [NotifyCells -> Nat], NEW n \in Nat,
           \A i \in X : r[i] <= n, NEW i \in Item, i \notin X,
           NEW W, W.count \in [Item -> Nat], NEW c \in Nat, WalkOK(W, X, r, c)
    PROVE  WalkOK([W EXCEPT !.count[i] = 0], X \cup {i}, [r EXCEPT ![i] = n + 1], c)
  <1> DEFINE V == [W EXCEPT !.count[i] = 0]
             rank == [r EXCEPT ![i] = n + 1]
             Z == X \cup {i}
  <1> USE NotifyListAssumption
  <1>1. /\ rank[i] = n + 1 /\ \A j \in X : rank[j] = r[j] /\ r[j] \in Nat /\ r[j] <= n
        /\ i # Anchor /\ X \in SUBSET NotifyCells
    BY DEF NotifyCells
  <1>2. /\ V.phase = W.phase /\ V.pos = W.pos /\ V.storage = W.storage /\ V.stay = W.stay
        /\ V.count[i] = 0 /\ \A j \in Item : j # i => V.count[j] = W.count[j]
    OBVIOUS
  <1> HIDE DEF V, rank
  <1>3. ASSUME NEW p, NEW d \in Nat, NextUp(p, X, W.stay, r, d), W.stay \in SUBSET X
        PROVE  NextUp(p, Z, W.stay, rank, d)
    <2>1. CASE p = Anchor
      BY <1>1, <1>3, <2>1 DEF NextUp
    <2>2. CASE p # Anchor
      <3>1. p \in X /\ r[p] > d /\ \A j \in X : r[j] <= d \/ r[j] >= r[p]
        BY <1>3, <2>2 DEF NextUp
      <3>2. rank[p] = r[p] /\ rank[i] >= r[p]
        BY <1>1, <3>1
      <3>3. \A j \in Z : rank[j] <= d \/ rank[j] >= rank[p]
        BY <1>1, <3>1, <3>2
      <3> QED BY <2>2, <3>1, <3>2, <3>3 DEF NextUp
    <2> QED BY <2>1, <2>2
  <1>4. \A j \in Item : V.count[j] <= 1
    BY <1>2 DEF WalkOK
  <1>5. ASSUME W.phase # "idle"
        PROVE  /\ W.stay \in SUBSET X /\ W.stay \in SUBSET Z
               /\ \A j \in W.stay : rank[j] <= c => V.count[j] = 1
               /\ \A j \in Z : rank[j] > c => V.count[j] = 0
    BY <1>1, <1>2, <1>5 DEF WalkOK
  <1>6. ASSUME W.phase = "test"
        PROVE  /\ NextUp(W.pos, Z, W.stay, rank, c)
               /\ W.pos # Anchor => NextUp(W.storage, Z, W.stay, rank, rank[W.pos])
    <2>1. W.stay \in SUBSET X /\ NextUp(W.pos, X, W.stay, r, c)
      BY <1>5, <1>6 DEF WalkOK
    <2>2. NextUp(W.pos, Z, W.stay, rank, c)
      BY <1>3, <2>1
    <2>3. ASSUME W.pos # Anchor PROVE NextUp(W.storage, Z, W.stay, rank, rank[W.pos])
      <3>1. W.pos \in X /\ NextUp(W.storage, X, W.stay, r, r[W.pos])
        BY <1>6, <2>1, <2>3 DEF WalkOK, NextUp
      <3>2. rank[W.pos] = r[W.pos] /\ r[W.pos] \in Nat
        BY <1>1, <3>1
      <3> QED BY <1>3, <2>1, <3>1, <3>2
    <2> QED BY <2>2, <2>3
  <1>7. ASSUME W.phase = "in_cb"
        PROVE  NextUp(W.storage, Z, W.stay, rank, c) /\ W.storage # W.pos
    BY <1>3, <1>5, <1>7 DEF WalkOK
  <1>8. WalkOK(V, Z, rank, c)
    BY <1>2, <1>4, <1>5, <1>6, <1>7 DEF WalkOK
  <1> QED BY <1>8 DEF V, rank

\* A loop whose callback removes itself.
LEMMA WalkRemove ==
    ASSUME NEW X \in SUBSET Item, NEW r, NEW i \in Item,
           NEW W, NEW c \in Nat, WalkOK(W, X, r, c), W.phase = "idle" \/ (W.phase = "in_cb" /\ W.pos = i),
           NEW V, V.phase = W.phase, V.pos = W.pos, V.storage = W.storage,
           V.count = W.count, V.stay = W.stay \ {i}
    PROVE  WalkOK(V, X \ {i}, r, c)
BY NotifyListAssumption DEF WalkOK, NextUp

\* tbm_surface_queue_add_..._cb
LEMMA NotifyAddKeeps ==
    ASSUME NInv, NEW i \in Item, AddCb(i)
    PROVE  NInv'
  <1>1. LInv' /\ LInv
    BY EditLInv DEF NInv
  <1>2. PICK r \in [NotifyCells -> Nat], c \in [Walker -> Nat], m \in Nat : WalksInOrder(r, c, m)
    BY DEF NInv
  <1>3. /\ i \notin linked /\ linked' = linked \cup {i}
        /\ links' = NotifyAdd(links, i) /\ UNCHANGED uaf
        /\ walk' = [w \in Walker |-> [walk[w] EXCEPT !.count[i] = 0]]
        /\ linked \in SUBSET Item
    BY <1>1 DEF AddCb, NInv, LInv
  <1>11. PICK rank \in [NotifyCells -> Nat] : rank = [r EXCEPT ![i] = m + 1]
    <2>1. i \in NotifyCells /\ m + 1 \in Nat
      BY <1>3 DEF NotifyCells
    <2>2. [r EXCEPT ![i] = m + 1] \in [NotifyCells -> Nat]
      BY <2>1
    <2> QED BY <2>2
  <1>4. Ordered(links, linked, r, m) /\ \A w \in Walker : WalkOK(walk[w], linked, r, c[w])
    BY <1>2 DEF WalksInOrder
  <1>5. Ordered(links', linked', rank, m + 1)
    <2>1. Ordered(NotifyAdd(links, i), linked \cup {i}, rank, m + 1)
      BY <1>1, <1>3, <1>4, <1>11, OrderedAdd
    <2> QED BY <1>3, <2>1
  <1>6. ASSUME NEW w \in Walker PROVE WalkOK(walk'[w], linked', rank, c[w])
    <2>1. walk[w].count \in [Item -> Nat] /\ c[w] \in Nat /\ \A j \in linked : r[j] <= m
      BY <1>1, <1>4 DEF LInv, WalkType, Ordered
    <2>2. WalkOK([walk[w] EXCEPT !.count[i] = 0], linked \cup {i}, rank, c[w])
      BY <1>3, <1>4, <1>11, <2>1, WalkAdd
    <2>3. walk'[w] = [walk[w] EXCEPT !.count[i] = 0]
      BY <1>3
    <2> QED BY <1>3, <2>2, <2>3
  <1>7. NoFreedRead'
    BY <1>3 DEF NInv, NoFreedRead
  <1>8. WalksInOrder(rank, c, m + 1)'
    BY <1>5, <1>6 DEF WalksInOrder
  <1> QED BY <1>1, <1>7, <1>8 DEF NInv

\* tbm_surface_queue_remove_..._cb
LEMMA NotifyRemoveKeeps ==
    ASSUME NInv, Removal # "any", NEW i \in Item, RemoveCb(i)
    PROVE  NInv'
  <1>1. LInv' /\ LInv
    BY EditLInv DEF NInv
  <1>2. PICK r \in [NotifyCells -> Nat], c \in [Walker -> Nat], m \in Nat : WalksInOrder(r, c, m)
    BY DEF NInv
  <1>3. /\ i \in linked /\ linked' = linked \ {i}
        /\ links' = ListDel(links, i) /\ UNCHANGED uaf /\ linked \in SUBSET Item
        /\ walk' = [w \in Walker |-> [walk[w] EXCEPT !.stay = @ \ {i}]]
    BY <1>1 DEF RemoveCb, NotifyRemove, NInv, LInv
  <1>4. Ordered(links, linked, r, m) /\ \A w \in Walker : WalkOK(walk[w], linked, r, c[w])
    BY <1>2 DEF WalksInOrder
  <1>5. Ordered(links', linked', r, m)
    BY <1>1, <1>3, <1>4, OrderedDel
  <1>6. \A w \in Walker : walk[w].phase = "idle" \/ (walk[w].phase = "in_cb" /\ walk[w].pos = i)
    BY DEF RemoveCb, MayRemove, Silent
  <1>7. ASSUME NEW w \in Walker PROVE WalkOK(walk'[w], linked', r, c[w])
    <2> DEFINE V == walk'[w]
               W == walk[w]
    <2>1. W \in [phase : {"idle", "test", "in_cb"}, pos : NotifyCells, storage : NotifyCells,
                 stay : SUBSET Item, count : [Item -> Nat]]
      BY <1>1 DEF LInv, WalkType
    <2>2. V = [W EXCEPT !.stay = @ \ {i}]
      BY <1>3
    <2> HIDE DEF V, W
    <2>3. /\ V.phase = W.phase /\ V.pos = W.pos /\ V.storage = W.storage
          /\ V.count = W.count /\ V.stay = W.stay \ {i}
      BY <2>1, <2>2
    <2>4. WalkOK(W, linked, r, c[w]) /\ (W.phase = "idle" \/ (W.phase = "in_cb" /\ W.pos = i)) /\ c[w] \in Nat
      BY <1>4, <1>6 DEF W
    <2>5. WalkOK(V, linked \ {i}, r, c[w])
      BY <1>3, <2>3, <2>4, WalkRemove
    <2> QED BY <1>3, <2>5 DEF V
  <1>8. NoFreedRead'
    BY <1>3 DEF NInv, NoFreedRead
  <1>9. WalksInOrder(r, c, m)'
    BY <1>5, <1>7 DEF WalksInOrder
  <1> QED BY <1>1, <1>8, <1>9 DEF NInv

\* _notify_remove_all
LEMMA NotifyDestroyKeeps ==
    ASSUME NInv, RemoveAll \/ RemoveOne \/ AllRemoved
    PROVE  NInv'
  <1>1. LInv' /\ LInv
    BY RemoveAllLInv DEF NInv
  <1>2. PICK r \in [NotifyCells -> Nat], c \in [Walker -> Nat], m \in Nat : WalksInOrder(r, c, m)
    BY DEF NInv
  <1>3. Ordered(links, linked, r, m) /\ \A w \in Walker : WalkOK(walk[w], linked, r, c[w])
    BY <1>2 DEF WalksInOrder
  <1>4. UNCHANGED <<walk, uaf>> /\ NoFreedRead /\ Silent
    BY <1>1 DEF RemoveAll, RemoveOne, AllRemoved, NInv, LInv
  <1>5. Ordered(links', linked', r, m)
    <2>1. CASE RemoveAll \/ AllRemoved
      BY <1>3, <2>1 DEF RemoveAll, AllRemoved
    <2>2. CASE RemoveOne
      <3> DEFINE i == links.next[Anchor]
      <3>1. /\ i \in linked /\ links' = ListDel(links, i) /\ linked' = linked \ {i}
        BY <1>1, <2>2 DEF RemoveOne, LInv, LinksSound, WellLinked
      <3> HIDE DEF i
      <3> QED BY <1>1, <1>3, <1>4, <3>1, OrderedDel
    <2> QED BY <2>1, <2>2
  <1>6. \A w \in Walker : WalkOK(walk'[w], linked', r, c[w])
    BY <1>3, <1>4 DEF WalkOK, Silent
  <1>7. NoFreedRead' /\ WalksInOrder(r, c, m)'
    BY <1>4, <1>5, <1>6 DEF NoFreedRead, WalksInOrder
  <1> QED BY <1>1, <1>7 DEF NInv

\* The next cell of a list in order.
LEMMA NextOf ==
    ASSUME LInv, NEW r, NEW m, Ordered(links, linked, r, m), NEW a \in linked \cup {Anchor},
           NEW Y \in SUBSET linked
    PROVE  NextUp(links.next[a], linked, Y, r, r[a])
  <1>1. links.next[a] \in linked \cup {Anchor}
    BY DEF LInv, LinksSound, WellLinked
  <1> QED BY <1>1 DEF Ordered, NextUp

\* The steps of the loop of w.
LEMMA NotifyEmitKeeps ==
    ASSUME NInv, NEW w \in Walker, EmitStart(w) \/ Loop(w)
    PROVE  NInv'
  <1>1. LInv' /\ LInv
    BY EmitLInv DEF NInv
  <1>2. PICK r \in [NotifyCells -> Nat], c \in [Walker -> Nat], m \in Nat : WalksInOrder(r, c, m)
    BY DEF NInv
  <1> DEFINE W == walk[w]
             V == walk'[w]
  <1>3. /\ Ordered(links, linked, r, m) /\ \A v \in Walker : WalkOK(walk[v], linked, r, c[v])
        /\ WalkOK(W, linked, r, c[w])
    BY <1>2 DEF WalksInOrder
  <1>4. /\ UNCHANGED <<links, linked>> /\ linked \in SUBSET Item
        /\ W \in [phase : {"idle", "test", "in_cb"}, pos : NotifyCells, storage : NotifyCells,
                  stay : SUBSET Item, count : [Item -> Nat]]
    BY <1>1 DEF NInv, LInv, WalkType, EmitStart, Loop, Call, CallReturns, EmitEnd
  <1>5. \A v \in Walker \ {w} : walk'[v] = walk[v]
    BY <1>1 DEF LInv, WalkType, EmitStart, Loop, Call, CallReturns, EmitEnd
  <1>6. \A a \in linked : r[a] \in Nat /\ r[a] >= 1 /\ a \in Item /\ a # Anchor
    BY <1>3, <1>4, NotifyListAssumption DEF Ordered, NotifyCells
  <1>7. SUFFICES ASSUME NEW n \in Nat, ~uaf => ~uaf', WalkOK(V, linked, r, n)
                 PROVE  NInv'
    <2>1. CASE EmitStart(w)
      <3> DEFINE f == links.next[Anchor]
      <3>1. /\ V = [phase |-> "test", pos |-> f, storage |-> links.next[f], stay |-> linked,
                    count |-> [i \in Item |-> 0]]
            /\ UNCHANGED uaf
        BY <1>1, <2>1 DEF EmitStart, LInv, WalkType
      <3>2. r[Anchor] = 0
        BY <1>3 DEF Ordered
      <3>3. NextUp(f, linked, linked, r, 0)
        BY <1>1, <1>3, <3>2, NextOf
      <3>4. ASSUME f # Anchor PROVE NextUp(links.next[f], linked, linked, r, r[f])
        <4>1. f \in linked
          BY <3>3, <3>4 DEF NextUp
        <4> HIDE DEF f
        <4> QED BY <1>1, <1>3, <4>1, NextOf
      <3> HIDE DEF f, V
      <3>5. WalkOK(V, linked, r, 0)
        BY <1>4, <1>6, <3>1, <3>3, <3>4 DEF WalkOK
      <3> QED BY <1>7, <3>1, <3>5
    <2>2. CASE Call(w)
      <3> DEFINE p == W.pos
      <3>1. W.phase = "test" /\ p # Anchor /\ uaf' = (uaf \/ Freed(p))
        BY <2>2 DEF Call
      <3>2. /\ NextUp(p, linked, W.stay, r, c[w]) /\ NextUp(W.storage, linked, W.stay, r, r[p])
            /\ W.stay \in SUBSET linked /\ c[w] \in Nat
            /\ \A i \in W.stay : r[i] <= c[w] => W.count[i] = 1
            /\ \A i \in linked : r[i] > c[w] => W.count[i] = 0
            /\ \A i \in Item : W.count[i] <= 1
        BY <1>3, <3>1 DEF WalkOK
      <3>3. p \in linked /\ r[p] > c[w] /\ \A i \in linked : r[i] <= c[w] \/ r[i] >= r[p]
        BY <3>1, <3>2 DEF NextUp
      <3>4. /\ V.phase = "in_cb" /\ V.pos = p /\ V.storage = W.storage /\ V.stay = W.stay
            /\ V.count[p] = W.count[p] + 1 /\ \A i \in Item : i # p => V.count[i] = W.count[i]
        <4>1. p \in Item
          BY <1>6, <3>3
        <4> QED BY <1>1, <1>4, <2>2, <4>1 DEF Call, LInv, WalkType
      <3>5. W.count[p] = 0 /\ ~Freed(p)
        BY <3>2, <3>3 DEF Freed
      <3> HIDE DEF V, W, p
      <3>6. W.storage # p
        BY <1>6, <3>1, <3>2, <3>3 DEF NextUp
      <3>7. \A i \in Item : V.count[i] <= 1
        BY <3>2, <3>4, <3>5
      <3>8. ASSUME NEW i \in W.stay, r[i] <= r[p] PROVE V.count[i] = 1
        <4>1. CASE i = p
          BY <3>4, <3>5, <4>1
        <4>2. CASE i # p
          <5>1. i \in linked /\ r[i] # r[p]
            BY <1>3, <3>2, <3>3, <4>2 DEF Ordered
          <5>2. r[i] <= c[w]
            BY <1>6, <3>2, <3>3, <3>8, <5>1
          <5> QED BY <1>6, <3>2, <3>4, <4>2, <5>1, <5>2
        <4> QED BY <4>1, <4>2
      <3>9. ASSUME NEW i \in linked, r[i] > r[p] PROVE V.count[i] = 0
        <4>1. i # p /\ r[i] > c[w] /\ i \in Item
          BY <1>6, <3>2, <3>3, <3>9
        <4> QED BY <3>2, <3>4, <4>1
      <3>10. WalkOK(V, linked, r, r[p])
        BY <3>2, <3>4, <3>6, <3>7, <3>8, <3>9 DEF WalkOK
      <3> QED BY <1>6, <1>7, <3>1, <3>3, <3>5, <3>10
    <2>3. CASE CallReturns(w)
      <3> DEFINE p == W.storage
      <3>1. W.phase = "in_cb" /\ uaf' = (uaf \/ Freed(p))
        BY <2>3 DEF CallReturns
      <3>2. /\ V.phase = "test" /\ V.pos = p /\ V.storage = links.next[p] /\ V.stay = W.stay
            /\ V.count = W.count
        BY <1>1, <1>4, <2>3 DEF CallReturns, LInv, WalkType
      <3>3. NextUp(p, linked, W.stay, r, c[w]) /\ W.stay \in SUBSET linked /\ c[w] \in Nat
        BY <1>3, <3>1 DEF WalkOK
      <3>4. p \in linked \cup {Anchor}
        BY <3>3 DEF NextUp
      <3> HIDE DEF V, W, p
      <3>5. NextUp(links.next[p], linked, W.stay, r, r[p])
        BY <1>1, <1>3, <3>3, <3>4, NextOf
      <3>6. WalkOK(V, linked, r, c[w])
        BY <1>3, <3>1, <3>2, <3>3, <3>5 DEF WalkOK
      <3> QED BY <1>7, <3>1, <3>3, <3>4, <3>6 DEF Freed
    <2>4. CASE EmitEnd(w)
      <3>1. V = NoWalk /\ UNCHANGED uaf
        BY <1>1, <2>4 DEF EmitEnd, LInv, WalkType
      <3> HIDE DEF V
      <3>2. WalkOK(V, linked, r, 0)
        BY <3>1 DEF WalkOK, NoWalk
      <3> QED BY <1>7, <3>1, <3>2
    <2> QED BY <2>1, <2>2, <2>3, <2>4 DEF Loop
  <1>8. PICK d \in [Walker -> Nat] : d = [c EXCEPT ![w] = n]
    OBVIOUS
  <1>9. \A v \in Walker : WalkOK(walk'[v], linked', r, d[v])
    <2>1. d[w] = n /\ \A v \in Walker \ {w} : d[v] = c[v]
      BY <1>8
    <2>2. WalkOK(walk'[w], linked', r, d[w])
      BY <1>4, <1>7, <2>1
    <2>3. ASSUME NEW v \in Walker \ {w} PROVE WalkOK(walk'[v], linked', r, d[v])
      BY <1>3, <1>4, <1>5, <2>1
    <2> QED BY <2>2, <2>3
  <1>10. WalksInOrder(r, d, m)' /\ NoFreedRead'
    BY <1>3, <1>4, <1>7, <1>9 DEF WalksInOrder, NoFreedRead, NInv
  <1> QED BY <1>1, <1>10 DEF NInv

\* Every step keeps the order.
LEMMA NextNInv ==
    ASSUME Removal # "any"
    PROVE  NInv /\ [NotifyNext]_notifyVars => NInv'
  <1> SUFFICES ASSUME NInv, [NotifyNext]_notifyVars PROVE NInv'
    OBVIOUS
  <1>1. CASE UNCHANGED notifyVars
    <2>1. LInv'
      BY NextLInv DEF NInv
    <2>2. PICK r \in [NotifyCells -> Nat], c \in [Walker -> Nat], m \in Nat : WalksInOrder(r, c, m)
      BY DEF NInv
    <2>3. WalksInOrder(r, c, m)' /\ NoFreedRead'
      BY <1>1, <2>2 DEF NInv, notifyVars, WalksInOrder, NoFreedRead
    <2> QED BY <2>1, <2>3 DEF NInv
  <1>2. CASE NotifyNext
    BY <1>2, NotifyAddKeeps, NotifyRemoveKeeps, NotifyDestroyKeeps, NotifyEmitKeeps DEF NotifyNext, Registration
  <1> QED BY <1>1, <1>2

\* A queue starts with an empty list.
LEMMA InitNInv == NotifyInit => NInv
  <1> SUFFICES ASSUME NotifyInit PROVE NInv
    OBVIOUS
  <1>1. LInv /\ NoFreedRead
    BY InitLInv DEF NotifyInit, NoFreedRead
  <1> DEFINE r == [a \in NotifyCells |-> 0]
             c == [w \in Walker |-> 0]
  <1>2. r \in [NotifyCells -> Nat] /\ c \in [Walker -> Nat] /\ r[Anchor] = 0
    BY DEF NotifyCells
  <1>3. Ordered(links, linked, r, 0)
    BY <1>2 DEF NotifyInit, Ordered, NotifyCells
  <1>4. \A w \in Walker : WalkOK(walk[w], linked, r, c[w])
    BY DEF NotifyInit, NoWalk, WalkOK
  <1> HIDE DEF r, c
  <1>5. WalksInOrder(r, c, 0)
    BY <1>3, <1>4 DEF WalksInOrder
  <1> QED BY <1>1, <1>2, <1>5 DEF NInv

\* A loop that is back at the head has called all that stayed.
LEMMA NInvCalled == NInv => CalledOnce
  <1> SUFFICES ASSUME NInv, NEW w \in Walker
               PROVE  /\ \A i \in Item : walk[w].count[i] <= 1
                      /\ (walk[w].phase = "test" /\ walk[w].pos = Anchor) =>
                             \A i \in walk[w].stay : walk[w].count[i] = 1
    BY DEF CalledOnce
  <1>1. PICK r \in [NotifyCells -> Nat], c \in [Walker -> Nat], m \in Nat : WalksInOrder(r, c, m)
    BY DEF NInv
  <1>2. WalkOK(walk[w], linked, r, c[w])
    BY <1>1 DEF WalksInOrder
  <1> QED BY <1>2 DEF WalkOK, NextUp

\* _notify_emit calls every callback that is registered throughout exactly
\* once and no registration twice, in any number of threads at a time, while
\* callbacks are added, and removed when none is called but the one removed.
THEOREM CalledOnceTheorem ==
    ASSUME Removal # "any"
    PROVE  NotifySpec => []CalledOnce
  <1> QED BY InitNInv, NextNInv, NInvCalled, PTL DEF NotifySpec

\* Under the same discipline _notify_emit never reads a freed item: a callback
\* may remove itself, since LIST_FOR_EACH_ENTRY_SAFE has read past it.
THEOREM NoFreedReadTheorem ==
    ASSUME Removal # "any"
    PROVE  NotifySpec => []NoFreedRead
  <1>1. NInv => NoFreedRead
    BY DEF NInv
  <1> QED BY <1>1, InitNInv, NextNInv, PTL DEF NotifySpec
=============================================================================
