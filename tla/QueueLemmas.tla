---------------------------- MODULE QueueLemmas ----------------------------
(***************************************************************************)
(* Facts about the sequences without repetition that the project uses as   *)
(* lock queues and as LRU orders.                                          *)
(***************************************************************************)
EXTENDS Lru, SequenceTheorems, TLAPS

\* The elements of a sequence, by index (the order or queue it stands for).
LEMMA Elements ==
    ASSUME NEW S, NEW s \in Seq(S)
    PROVE  /\ DOMAIN s = 1 .. Len(s)
           /\ Len(s) \in Nat
           /\ \A x : x \in ToSet(s) <=> \E i \in 1 .. Len(s) : s[i] = x
           /\ \A i \in 1 .. Len(s) : s[i] \in S /\ s[i] \in ToSet(s)
           /\ IsInjective(s) <=> \A i, j \in 1 .. Len(s) : s[i] = s[j] => i = j
  BY DEF ToSet, IsInjective

\* Appending a new element to a sequence without repetition (a task queues up).
LEMMA AppendDistinct ==
    ASSUME NEW S, NEW s \in Seq(S), IsInjective(s), NEW x \in S, x \notin ToSet(s)
    PROVE  /\ Append(s, x) \in Seq(S)
           /\ IsInjective(Append(s, x))
           /\ ToSet(Append(s, x)) = ToSet(s) \cup {x}
<1>. DEFINE t == Append(s, x)
<1>1. /\ t \in Seq(S)
      /\ Len(t) = Len(s) + 1
      /\ \A i \in 1 .. Len(s) : t[i] = s[i]
      /\ t[Len(s) + 1] = x
  BY AppendProperties
<1>. HIDE DEF t
<1>2. Len(s) \in Nat
  BY Elements
<1>3. IsInjective(t)
  <2>1. SUFFICES \A i, j \in 1 .. Len(t) : t[i] = t[j] => i = j
    BY <1>1, Elements
  <2>2. \A i \in 1 .. Len(s) : s[i] # x
    BY Elements
  <2>3. \A i, j \in 1 .. Len(s) : s[i] = s[j] => i = j
    BY Elements
  <2>. QED  BY <1>1, <1>2, <2>2, <2>3
<1>4. ToSet(t) = ToSet(s) \cup {x}
  <2>1. \A y : y \in ToSet(t) <=> \E i \in 1 .. Len(t) : t[i] = y
    BY <1>1, Elements
  <2>2. \A y : y \in ToSet(s) <=> \E i \in 1 .. Len(s) : s[i] = y
    BY Elements
  <2>3. \A y : (\E i \in 1 .. Len(t) : t[i] = y) <=> (\E i \in 1 .. Len(s) : s[i] = y) \/ y = x
    BY <1>1, <1>2
  <2>. QED  BY <2>1, <2>2, <2>3
<1>. QED  BY <1>1, <1>3, <1>4 DEF t

\* Dropping the head of one (a task is served, the oldest session is evicted).
LEMMA TailDistinct ==
    ASSUME NEW S, NEW s \in Seq(S), IsInjective(s), s # <<>>
    PROVE  /\ Tail(s) \in Seq(S)
           /\ IsInjective(Tail(s))
           /\ Head(s) \in ToSet(s)
           /\ Head(s) \in S
           /\ ToSet(Tail(s)) = ToSet(s) \ {Head(s)}
<1>. DEFINE t == Tail(s)
<1>1. /\ t \in Seq(S)
      /\ Len(t) = Len(s) - 1
      /\ \A i \in 1 .. Len(t) : t[i] = s[i + 1]
  BY HeadTailProperties
<1>2. Len(s) \in Nat \ {0} /\ Head(s) = s[1]
  BY EmptySeq
<1>. HIDE DEF t
<1>3. \A i, j \in 1 .. Len(s) : s[i] = s[j] => i = j
  BY Elements
<1>4. IsInjective(t)
  <2>1. SUFFICES \A i, j \in 1 .. Len(t) : t[i] = t[j] => i = j
    BY <1>1, Elements
  <2>. QED  BY <1>1, <1>2, <1>3
<1>5. ToSet(t) = ToSet(s) \ {Head(s)}
  <2>1. \A y : y \in ToSet(t) <=> \E i \in 1 .. Len(t) : t[i] = y
    BY <1>1, Elements
  <2>2. \A y : y \in ToSet(s) <=> \E i \in 1 .. Len(s) : s[i] = y
    BY Elements
  <2>3. ASSUME NEW y, y \in ToSet(t)  PROVE  y \in ToSet(s) /\ y # Head(s)
    <3>1. PICK i \in 1 .. Len(t) : t[i] = y
      BY <2>1, <2>3
    <3>. QED  BY <3>1, <2>2, <1>1, <1>2, <1>3
  <2>4. ASSUME NEW y, y \in ToSet(s), y # Head(s)  PROVE  y \in ToSet(t)
    <3>1. PICK i \in 1 .. Len(s) : s[i] = y
      BY <2>2, <2>4
    <3>2. i - 1 \in 1 .. Len(t) /\ t[i - 1] = y
      BY <3>1, <2>4, <1>1, <1>2
    <3>. QED  BY <3>2, <2>1
  <2>. QED  BY <2>3, <2>4
<1>6. Head(s) \in ToSet(s) /\ Head(s) \in S
  BY <1>2, Elements
<1>. QED  BY <1>1, <1>4, <1>5, <1>6 DEF t

\* What is left when the element at i is taken out.
LEMMA RemoveShape ==
    ASSUME NEW S, NEW s \in Seq(S), IsInjective(s), NEW i \in 1 .. Len(s)
    PROVE  LET r == RemoveFirst(s, s[i]) IN
           /\ r \in Seq(S)
           /\ Len(r) = Len(s) - 1
           /\ \A j \in 1 .. Len(s) - 1 : r[j] = IF j < i THEN s[j] ELSE s[j + 1]
<1>0. /\ Len(s) \in Nat
      /\ \A j \in 1 .. Len(s) : s[j] \in S
      /\ \A j, k \in 1 .. Len(s) : s[j] = s[k] => j = k
  BY Elements
<1>1. {j \in 1 .. Len(s) : s[j] = s[i]} = {i}
  BY <1>0
<1>2. Min({i}) = i
  BY DEF Min
<1>3. RemoveFirst(s, s[i]) = SubSeq(s, 1, i - 1) \o SubSeq(s, i + 1, Len(s))
  BY <1>1, <1>2 DEF RemoveFirst, RemoveAt, SelectInSeq
<1>. DEFINE a == SubSeq(s, 1, i - 1)
            b == SubSeq(s, i + 1, Len(s))
            r == a \o b
<1>4. /\ a \in Seq(S) /\ Len(a) = i - 1
      /\ \A j \in 1 .. i - 1 : a[j] = s[j]
  BY <1>0, SubSeqProperties
<1>5. /\ b \in Seq(S) /\ Len(b) = Len(s) - i
      /\ \A j \in 1 .. Len(s) - i : b[j] = s[i + j]
  <2>1. \A j \in i + 1 .. Len(s) : s[j] \in S
    BY <1>0
  <2>2. /\ b \in Seq(S)
        /\ Len(b) = IF i + 1 <= Len(s) THEN Len(s) - (i + 1) + 1 ELSE 0
        /\ \A j \in 1 .. Len(s) - (i + 1) + 1 : b[j] = s[(i + 1) + j - 1]
    BY <1>0, <2>1, SubSeqProperties
  <2>. QED  BY <1>0, <2>2
<1>. HIDE DEF a, b
<1>6. /\ r \in Seq(S)
      /\ Len(r) = Len(a) + Len(b)
      /\ \A j \in 1 .. Len(a) + Len(b) :
            r[j] = IF j <= Len(a) THEN a[j] ELSE b[j - Len(a)]
  BY <1>4, <1>5, ConcatProperties
<1>7. Len(a) + Len(b) = Len(s) - 1
  BY <1>0, <1>4, <1>5
<1>. HIDE DEF r
<1>8. ASSUME NEW j \in 1 .. Len(s) - 1
      PROVE  r[j] = IF j < i THEN s[j] ELSE s[j + 1]
  <2>1. CASE j < i
    <3>1. j \in 1 .. i - 1 /\ j <= Len(a) /\ j \in 1 .. Len(a) + Len(b)
      BY <2>1, <1>0, <1>4, <1>7
    <3>. QED  BY <2>1, <3>1, <1>4, <1>6
  <2>2. CASE j >= i
    <3>1. r[j] = b[j - (i - 1)] /\ j - (i - 1) \in 1 .. Len(s) - i
      BY <2>2, <1>6, <1>7, <1>4, <1>0
    <3>2. b[j - (i - 1)] = s[i + (j - (i - 1))]
      BY <3>1, <1>5
    <3>. QED  BY <3>1, <3>2, <2>2, <1>0
  <2>. QED  BY <2>1, <2>2, <1>0
<1>. QED  BY <1>3, <1>6, <1>7, <1>8 DEF a, b, r

\* Taking out what is not in it changes nothing.
LEMMA RemoveAbsent ==
    ASSUME NEW S, NEW s \in Seq(S), NEW x, x \notin ToSet(s)
    PROVE  RemoveFirst(s, x) = s
<1>1. \A y : y \in ToSet(s) <=> \E j \in 1 .. Len(s) : s[j] = y
  BY Elements
<1>2. ~ \E j \in 1 .. Len(s) : s[j] = x
  BY <1>1
<1>. QED  BY <1>2 DEF RemoveFirst

\* Taking an element out of one (a task gives up, a session is touched).
LEMMA RemoveDistinct ==
    ASSUME NEW S, NEW s \in Seq(S), IsInjective(s), NEW x \in S
    PROVE  /\ RemoveFirst(s, x) \in Seq(S)
           /\ IsInjective(RemoveFirst(s, x))
           /\ ToSet(RemoveFirst(s, x)) = ToSet(s) \ {x}
<1>0. /\ Len(s) \in Nat
      /\ \A y : y \in ToSet(s) <=> \E j \in 1 .. Len(s) : s[j] = y
      /\ \A j \in 1 .. Len(s) : s[j] \in S
      /\ \A j, k \in 1 .. Len(s) : s[j] = s[k] => j = k
  BY Elements
<1>1. CASE x \notin ToSet(s)
  BY <1>1, RemoveAbsent
<1>2. CASE x \in ToSet(s)
  <2>1. PICK i \in 1 .. Len(s) : s[i] = x
    BY <1>0, <1>2
  <2>. DEFINE r == RemoveFirst(s, x)
  <2>2. /\ r \in Seq(S)
        /\ Len(r) = Len(s) - 1
        /\ \A j \in 1 .. Len(s) - 1 : r[j] = IF j < i THEN s[j] ELSE s[j + 1]
    BY <2>1, RemoveShape
  <2>. HIDE DEF r
  <2>3. IsInjective(r)
    <3>1. SUFFICES \A j, k \in 1 .. Len(r) : r[j] = r[k] => j = k
      BY <2>2, Elements
    <3>. QED  BY <1>0, <2>2
  <2>4. ToSet(r) = ToSet(s) \ {x}
    <3>1. \A y : y \in ToSet(r) <=> \E j \in 1 .. Len(r) : r[j] = y
      BY <2>2, Elements
    <3>2. ASSUME NEW y, y \in ToSet(r)  PROVE  y \in ToSet(s) /\ y # x
      <4>1. PICK j \in 1 .. Len(r) : r[j] = y
        BY <3>1, <3>2
      <4>. QED  BY <4>1, <2>1, <2>2, <1>0
    <3>3. ASSUME NEW y, y \in ToSet(s), y # x  PROVE  y \in ToSet(r)
      <4>1. PICK j \in 1 .. Len(s) : s[j] = y /\ j # i
        BY <1>0, <2>1, <3>3
      <4>2. CASE j < i
        BY <4>1, <4>2, <3>1, <2>2, <1>0
      <4>3. CASE j > i
        <5>1. j - 1 \in 1 .. Len(r) /\ r[j - 1] = y
          BY <4>1, <4>3, <2>2, <1>0
        <5>. QED  BY <5>1, <3>1
      <4>. QED  BY <4>1, <4>2, <4>3
    <3>. QED  BY <3>2, <3>3
  <2>. QED  BY <2>2, <2>3, <2>4 DEF r
<1>. QED  BY <1>1, <1>2

\* Taking the last element out of one (the newest mutation is rolled back).
LEMMA RemoveNewest ==
    ASSUME NEW S, NEW s \in Seq(S), IsInjective(s), s # <<>>
    PROVE  /\ Last(s) = s[Len(s)] /\ Last(s) \in S
           /\ Len(RemoveFirst(s, Last(s))) = Len(s) - 1
           /\ \A j \in 1 .. Len(s) - 1 : RemoveFirst(s, Last(s))[j] = s[j]
<1>1. /\ Len(s) \in Nat \ {0} /\ Len(s) \in 1 .. Len(s)
      /\ \A j \in 1 .. Len(s) : s[j] \in S
      /\ \A j \in 1 .. Len(s) - 1 : j < Len(s)
  BY Elements, EmptySeq
<1>2. Last(s) = s[Len(s)]
  BY DEF Last
<1>. QED  BY <1>1, <1>2, RemoveShape

\* Who stands before whom in a queue.
Before(s, x, y) == \E i, j \in 1 .. Len(s) : i < j /\ s[i] = x /\ s[j] = y

\* Nobody stands before the first.
LEMMA FirstIsFirst ==
    ASSUME NEW S, NEW s \in Seq(S), IsInjective(s), NEW x, NEW y, Before(s, x, y)
    PROVE  Head(s) # y
<1>1. PICK i, j \in 1 .. Len(s) : i < j /\ s[i] = x /\ s[j] = y
  BY DEF Before
<1>2. /\ Len(s) \in Nat /\ 1 \in 1 .. Len(s) /\ j # 1
      /\ \A k, l \in 1 .. Len(s) : s[k] = s[l] => k = l
  BY <1>1, Elements
<1>3. Head(s) = s[1]
  BY <1>2
<1>. QED  BY <1>1, <1>2, <1>3

\* One who joins goes behind the others, and one who leaves moves nobody past another.
LEMMA OrderKept ==
    ASSUME NEW S, NEW s \in Seq(S), IsInjective(s), NEW x, NEW y, Before(s, x, y),
           NEW z \in S
    PROVE  /\ Before(Append(s, z), x, y)
           /\ z # x /\ z # y => Before(RemoveFirst(s, z), x, y)
<1>1. PICK i, j \in 1 .. Len(s) : i < j /\ s[i] = x /\ s[j] = y
  BY DEF Before
<1>2. Len(s) \in Nat
  BY Elements
<1>3. Before(Append(s, z), x, y)
  <2>1. /\ Len(Append(s, z)) = Len(s) + 1
        /\ Append(s, z)[i] = x /\ Append(s, z)[j] = y
    BY <1>1, <1>2
  <2>. QED  BY <1>1, <1>2, <2>1 DEF Before
<1>4. ASSUME z # x, z # y
      PROVE  Before(RemoveFirst(s, z), x, y)
  <2>1. CASE z \notin ToSet(s)
    BY <2>1, RemoveAbsent
  <2>2. CASE z \in ToSet(s)
    <3>1. PICK k \in 1 .. Len(s) : s[k] = z
      BY <2>2, Elements
    <3>. DEFINE r == RemoveFirst(s, z)
    <3>2. /\ Len(r) = Len(s) - 1
          /\ \A l \in 1 .. Len(s) - 1 : r[l] = IF l < k THEN s[l] ELSE s[l + 1]
      BY <3>1, RemoveShape
    <3>. HIDE DEF r
    <3>3. i # k /\ j # k
      BY <1>1, <1>4, <3>1
    <3>. DEFINE New(l) == IF l < k THEN l ELSE l - 1
    <3>4. ASSUME NEW l \in 1 .. Len(s), l # k
          PROVE  New(l) \in 1 .. Len(r) /\ r[New(l)] = s[l]
      <4>1. CASE l < k
        BY <4>1, <3>1, <3>2, <1>2
      <4>2. CASE l > k
        <5>1. l - 1 \in 1 .. Len(s) - 1 /\ ~ (l - 1 < k) /\ (l - 1) + 1 = l
          BY <4>2, <3>1, <1>2
        <5>. QED  BY <5>1, <4>2, <3>1, <3>2
      <4>. QED  BY <3>4, <4>1, <4>2, <3>1
    <3>5. New(i) < New(j)
      BY <1>1, <3>1, <3>3
    <3>6. /\ New(i) \in 1 .. Len(r) /\ r[New(i)] = x
          /\ New(j) \in 1 .. Len(r) /\ r[New(j)] = y
      BY <1>1, <3>3, <3>4
    <3>. HIDE DEF New
    <3>7. Before(r, x, y)
      BY <3>5, <3>6 DEF Before
    <3>. QED  BY <3>7 DEF r
  <2>. QED  BY <2>1, <2>2
<1>. QED  BY <1>3, <1>4

\* A write to a bounded map: the key it writes is not the one it drops, and the
\* order loses exactly the dropped key (the ratchet's and decay's sessions).
LEMMA AdmitDistinct ==
    ASSUME NEW S, NEW order \in Seq(S), IsInjective(order), NEW x \in S,
           NEW max \in Nat \ {0}
    PROVE  /\ Admit(order, x, max) \in Seq(S)
           /\ IsInjective(Admit(order, x, max))
           /\ ToSet(Admit(order, x, max)) = (ToSet(order) \cup {x}) \ Victims(order, x, max)
           /\ x \notin Victims(order, x, max)
<1>. DEFINE rest == RemoveFirst(order, x)
            touched == Touch(order, x)
<1>1. /\ rest \in Seq(S)
      /\ IsInjective(rest)
      /\ ToSet(rest) = ToSet(order) \ {x}
  BY RemoveDistinct
<1>2. touched = Append(rest, x)
  BY DEF Touch
<1>. HIDE DEF rest, touched
<1>3. /\ touched \in Seq(S)
      /\ IsInjective(touched)
      /\ ToSet(touched) = ToSet(order) \cup {x}
      /\ touched # <<>>
      /\ Len(touched) = Len(rest) + 1
  <2>1. x \notin ToSet(rest)
    BY <1>1
  <2>2. touched # <<>> /\ Len(touched) = Len(rest) + 1
    BY <1>1, <1>2, AppendProperties
  <2>. QED  BY <1>1, <1>2, <2>1, <2>2, AppendDistinct
<1>4. CASE Len(touched) > max
  <2>1. Len(rest) \in Nat \ {0}
    BY <1>1, <1>3, <1>4, Elements
  <2>2. Head(touched) = rest[1]
    BY <1>1, <1>2, <2>1
  <2>3. Head(touched) # x
    BY <1>1, <2>1, <2>2, Elements
  <2>4. /\ Victims(order, x, max) = {Head(touched)}
        /\ Admit(order, x, max) = Tail(touched)
    BY <1>4 DEF Victims, Admit, touched
  <2>. QED  BY <1>3, <2>3, <2>4, TailDistinct
<1>5. CASE ~ (Len(touched) > max)
  <2>1. /\ Victims(order, x, max) = {}
        /\ Admit(order, x, max) = touched
    BY <1>5 DEF Victims, Admit, touched
  <2>. QED  BY <1>3, <2>1
<1>. QED  BY <1>4, <1>5
=============================================================================
