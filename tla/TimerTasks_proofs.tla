--------------------------- MODULE TimerTasks_proofs ---------------------------
(***************************************************************************)
(* What the software timer guarantees for every set of tasks, all their    *)
(* intervals and modes, and every width of its time.                       *)
(***************************************************************************)
EXTENDS TimerTasks, SequenceTheorems, WellFoundedInduction, TLAPS

\* No task is in the list twice.
Distinct(l) == \A i, j \in DOMAIN l : l[i] = l[j] => i = j

-----------------------------------------------------------------------------
(* The list. *)

\* A non-empty set of naturals has a least element.
LEMMA MinOK ==
  ASSUME NEW I \in SUBSET Nat, I # {}
  PROVE  Min(I) \in I /\ \A i \in I : Min(I) <= i
<1>1. \E x \in I : \A y \in I : ~(<<y, x>> \in OpToRel(<, Nat))
  BY NatLessThanWellFounded, WFMin
<1>2. \E x \in I : \A y \in I : x <= y
  <2>1. PICK x \in I : \A y \in I : ~(<<y, x>> \in OpToRel(<, Nat))
    BY <1>1
  <2>2. \A y \in I : ~(y < x)
    BY <2>1 DEF OpToRel
  <2> QED
    BY <2>2
<1> QED
  BY <1>2 DEF Min

\* The search for an element finds it where it is.
LEMMA FindOK ==
  ASSUME NEW l \in Seq(Tasks), NEW p \in Range(l)
  PROVE  /\ SelectInSeq(l, LAMBDA y : y = p) \in 1..Len(l)
         /\ l[SelectInSeq(l, LAMBDA y : y = p)] = p
<1> DEFINE I == {i \in 1..Len(l) : l[i] = p}
<1>1. I # {} /\ I \in SUBSET Nat
  BY DEF Range
<1>2. Min(I) \in I
  BY <1>1, MinOK
<1>3. SelectInSeq(l, LAMBDA y : y = p) = Min(I)
  BY <1>1 DEF SelectInSeq
<1> QED
  BY <1>2, <1>3

\* A new task goes behind the first k elements, which all have less time left,
\* and before one that has as much.
LEMMA BeforeWhere ==
  ASSUME NEW l \in Seq(Tasks), NEW lab, NEW x, NEW now
  PROVE  \E k \in 0..Len(l) :
           /\ Before(l, lab, x, now) = IF k = 0 THEN Nobody ELSE l[k]
           /\ \A j \in 1..k : ~(TimeLeft(l[j], lab, now) >= Interval[x])
           /\ k < Len(l) => TimeLeft(l[k + 1], lab, now) >= Interval[x]
<1> DEFINE I == {i \in 1..Len(l) : TimeLeft(l[i], lab, now) >= Interval[x]}
           m == Ahead(l, lab, x, now)
<1>0. Len(l) \in Nat /\ I \in SUBSET Nat /\ (l = <<>> => Len(l) = 0) /\ (Len(l) = 0 => l = <<>>)
  OBVIOUS
<1>1. m = IF I # {} THEN Min(I) ELSE 0
  BY DEF Ahead, SelectInSeq
<1>2. Before(l, lab, x, now) =
        IF l = <<>> \/ m = 1 THEN Nobody ELSE IF m = 0 THEN Last(l) ELSE l[m - 1]
  BY DEF Before
<1>3. CASE I = {}
  <2>1. m = 0
    BY <1>1, <1>3
  <2>2. \A j \in 1..Len(l) : ~(TimeLeft(l[j], lab, now) >= Interval[x])
    BY <1>3
  <2>3. Before(l, lab, x, now) = IF Len(l) = 0 THEN Nobody ELSE l[Len(l)]
    BY <1>0, <1>2, <2>1 DEF Last
  <2> HIDE DEF I, m
  <2> WITNESS Len(l) \in 0..Len(l)
  <2> QED
    BY <1>0, <2>2, <2>3
<1>4. CASE I # {}
  <2>0. Min(I) \in I /\ \A i \in I : Min(I) <= i
    BY <1>0, <1>4, MinOK
  <2>1. m \in I /\ \A i \in I : m <= i
    BY <1>1, <1>4, <2>0
  <2>2. m \in 1..Len(l) /\ TimeLeft(l[m], lab, now) >= Interval[x]
    BY <2>1
  <2>3. \A j \in 1..(m - 1) : ~(TimeLeft(l[j], lab, now) >= Interval[x])
    <3> SUFFICES ASSUME NEW j \in 1..(m - 1), TimeLeft(l[j], lab, now) >= Interval[x]
                 PROVE  FALSE
      OBVIOUS
    <3>1. j \in 1..Len(l) /\ ~(m <= j)
      BY <1>0, <2>2
    <3>2. j \in I
      BY <3>1
    <3> QED
      BY <2>1, <3>1, <3>2
  <2> HIDE DEF I, m
  <2>4. m - 1 \in 0..Len(l) /\ (m - 1) + 1 = m /\ (m = 1 <=> m - 1 = 0) /\ m # 0 /\ l # <<>>
    BY <1>0, <2>2
  <2>5. Before(l, lab, x, now) = IF m - 1 = 0 THEN Nobody ELSE l[m - 1]
    BY <1>2, <2>4, Zenon
  <2> QED
    BY <2>2, <2>3, <2>4, <2>5, Zenon
<1> QED
  BY <1>3, <1>4

\* In any case behind an element of the list, or at its head.
LEMMA BeforeOK ==
  ASSUME NEW l \in Seq(Tasks), NEW lab, NEW x, NEW now
  PROVE  Before(l, lab, x, now) \in Range(l) \cup {Nobody}
<1>1. PICK k \in 0..Len(l) : Before(l, lab, x, now) = IF k = 0 THEN Nobody ELSE l[k]
  BY BeforeWhere
<1>2. k # 0 => k \in DOMAIN l
  BY <1>1
<1> QED
  BY <1>1, <1>2 DEF Range

\* Putting x behind the first k elements adds x and nothing else.
LEMMA SpliceOK ==
  ASSUME NEW l \in Seq(Tasks), NEW k \in 0..Len(l), NEW x \in Tasks,
         NEW r, r \in Seq(Tasks), Len(r) = Len(l) + 1,
         \A j \in 1..Len(r) :
           r[j] = IF j <= k THEN l[j] ELSE IF j = k + 1 THEN x ELSE l[j - 1],
         x \notin Range(l), Distinct(l)
  PROVE  Range(r) = Range(l) \cup {x} /\ Distinct(r)
<1>1. DOMAIN l = 1..Len(l) /\ DOMAIN r = 1..(Len(l) + 1) /\ Len(l) \in Nat
  OBVIOUS
<1>2. ASSUME NEW j \in DOMAIN r PROVE r[j] \in Range(l) \cup {x}
  <2>1. CASE j = k + 1
    BY <1>1, <2>1
  <2>2. CASE j <= k
    <3>1. j \in DOMAIN l /\ r[j] = l[j]
      BY <1>1, <2>2
    <3> QED
      BY <3>1 DEF Range
  <2>3. CASE j > k + 1
    <3>1. j - 1 \in DOMAIN l /\ r[j] = l[j - 1]
      BY <1>1, <2>3
    <3> QED
      BY <3>1 DEF Range
  <2> QED
    BY <1>1, <2>1, <2>2, <2>3
<1>3. x \in Range(r)
  <2>1. k + 1 \in DOMAIN r /\ r[k + 1] = x
    BY <1>1
  <2> QED
    BY <2>1 DEF Range
<1>4. ASSUME NEW j \in DOMAIN l PROVE l[j] \in Range(r)
  <2>1. CASE j <= k
    <3>1. j \in DOMAIN r /\ r[j] = l[j]
      BY <1>1, <2>1
    <3> QED
      BY <3>1 DEF Range
  <2>2. CASE j > k
    <3>1. j + 1 \in DOMAIN r /\ r[j + 1] = l[j]
      BY <1>1, <2>2
    <3> QED
      BY <3>1 DEF Range
  <2> QED
    BY <1>1, <2>1, <2>2
<1>5. \A j \in DOMAIN l : l[j] # x
  BY DEF Range
<1>6. Distinct(r)
  <2> SUFFICES ASSUME NEW i \in DOMAIN r, NEW j \in DOMAIN r, r[i] = r[j] PROVE i = j
    BY DEF Distinct
  <2> DEFINE Old(n) == IF n <= k THEN n ELSE n - 1
  <2>1. \A n \in DOMAIN r : n # k + 1 => Old(n) \in DOMAIN l /\ r[n] = l[Old(n)]
    BY <1>1
  <2>2. r[k + 1] = x
    BY <1>1
  <2>3. CASE i = k + 1 \/ j = k + 1
    BY <1>5, <2>1, <2>2, <2>3
  <2>4. CASE i # k + 1 /\ j # k + 1
    <3>1. Old(i) = Old(j)
      BY <2>1, <2>4 DEF Distinct
    <3> QED
      BY <1>1, <2>4, <3>1
  <2> QED
    BY <2>3, <2>4
<1> QED
  BY <1>2, <1>3, <1>4, <1>6 DEF Range

\* r is l with x put behind its first k elements.
Spliced(r, l, k, x) ==
  /\ r \in Seq(Tasks) /\ Len(r) = Len(l) + 1
  /\ \A j \in 1..Len(r) : r[j] = IF j <= k THEN l[j] ELSE IF j = k + 1 THEN x ELSE l[j - 1]

\* Inserting behind the k-th element, or at the head, puts x there.
LEMMA InsertWhere ==
  ASSUME NEW l \in Seq(Tasks), NEW x \in Tasks, NEW n \in 0..Len(l),
         NEW p, p = IF n = 0 THEN Nobody ELSE l[n], Distinct(l)
  PROVE  Spliced(InsertAfter(l, p, x), l, n, x)
<1>0. <<x>> \in Seq(Tasks) /\ Len(<<x>>) = 1 /\ <<x>>[1] = x /\ Len(l) \in Nat
  OBVIOUS
<1>1. CASE n = 0
  <2>1. InsertAfter(l, p, x) = <<x>> \o l
    BY <1>1 DEF InsertAfter
  <2>2. /\ <<x>> \o l \in Seq(Tasks) /\ Len(<<x>> \o l) = Len(l) + 1
        /\ \A j \in 1..Len(<<x>> \o l) : (<<x>> \o l)[j] = IF j <= 1 THEN <<x>>[j] ELSE l[j - 1]
    BY <1>0, ConcatProperties
  <2>3. \A j \in 1..Len(<<x>> \o l) :
          (<<x>> \o l)[j] = IF j <= 0 THEN l[j] ELSE IF j = 0 + 1 THEN x ELSE l[j - 1]
    BY <1>0, <2>2
  <2> QED
    BY <1>1, <2>1, <2>2, <2>3 DEF Spliced
<1>2. CASE n # 0
  <2> DEFINE k == SelectInSeq(l, LAMBDA y : y = p)
             a == SubSeq(l, 1, k)
             b == SubSeq(l, k + 1, Len(l))
             c == a \o <<x>>
             r == c \o b
  <2>a. p = l[n] /\ n \in DOMAIN l
    BY <1>2
  <2>b. p \in Range(l) /\ p # Nobody
    BY <2>a, TimerAssumption DEF Range
  <2>1. k \in 1..Len(l) /\ k # 0 /\ k = n
    <3>1. k \in 1..Len(l) /\ l[k] = p
      BY <2>b, FindOK
    <3>2. k = n
      BY <2>a, <3>1 DEF Distinct
    <3> QED
      BY <3>1, <3>2
  <2>2. InsertAfter(l, p, x) = r
    BY <2>b, <2>1, Zenon DEF InsertAfter
  <2> HIDE DEF k
  <2>3. a \in Seq(Tasks) /\ Len(a) = k /\ \A j \in 1..k : a[j] = l[j]
    BY <1>0, <2>1, SubSeqProperties
  <2>4. /\ b \in Seq(Tasks) /\ Len(b) = Len(l) - k
        /\ \A j \in 1..(Len(l) - k) : b[j] = l[k + j]
    BY <1>0, <2>1, SubSeqProperties
  <2> HIDE DEF a, b
  <2>5. /\ c \in Seq(Tasks) /\ Len(c) = k + 1
        /\ \A j \in 1..(k + 1) : c[j] = IF j <= k THEN a[j] ELSE <<x>>[j - k]
    BY <1>0, <2>1, <2>3, ConcatProperties
  <2> HIDE DEF c
  <2>6. /\ r \in Seq(Tasks) /\ Len(r) = Len(l) + 1
        /\ \A j \in 1..(Len(l) + 1) : r[j] = IF j <= k + 1 THEN c[j] ELSE b[j - (k + 1)]
    <3>1. /\ r \in Seq(Tasks) /\ Len(r) = Len(c) + Len(b)
          /\ \A j \in 1..(Len(c) + Len(b)) : r[j] = IF j <= Len(c) THEN c[j] ELSE b[j - Len(c)]
      BY <2>4, <2>5, ConcatProperties
    <3>2. Len(c) = k + 1 /\ Len(c) + Len(b) = Len(l) + 1
      BY <1>0, <2>1, <2>4, <2>5
    <3> QED
      BY <3>1, <3>2, Zenon
  <2> HIDE DEF r
  <2>7. \A j \in 1..Len(r) : r[j] = IF j <= k THEN l[j] ELSE IF j = k + 1 THEN x ELSE l[j - 1]
    <3> SUFFICES ASSUME NEW j \in 1..Len(r)
                 PROVE  r[j] = IF j <= k THEN l[j] ELSE IF j = k + 1 THEN x ELSE l[j - 1]
      OBVIOUS
    <3>1. CASE j <= k
      BY <1>0, <2>1, <2>3, <2>5, <2>6, <3>1
    <3>2. CASE j = k + 1
      BY <1>0, <2>1, <2>5, <2>6, <3>2
    <3>3. CASE j > k + 1
      <4>1. r[j] = b[j - (k + 1)] /\ j - (k + 1) \in 1..(Len(l) - k)
        BY <1>0, <2>1, <2>6, <3>3
      <4>2. b[j - (k + 1)] = l[k + (j - (k + 1))]
        BY <2>4, <4>1
      <4> QED
        BY <2>1, <3>3, <4>1, <4>2
    <3> QED
      BY <2>1, <3>1, <3>2, <3>3
  <2> QED
    BY <2>1, <2>2, <2>6, <2>7, Zenon DEF Spliced
<1> QED
  BY <1>1, <1>2

\* Inserting behind an element of the list, or at its head, adds the task.
LEMMA InsertOK ==
  ASSUME NEW l \in Seq(Tasks), NEW x \in Tasks, NEW p \in Range(l) \cup {Nobody},
         x \notin Range(l), Distinct(l)
  PROVE  /\ InsertAfter(l, p, x) \in Seq(Tasks)
         /\ Range(InsertAfter(l, p, x)) = Range(l) \cup {x}
         /\ Distinct(InsertAfter(l, p, x))
<1>1. PICK n \in 0..Len(l) : p = IF n = 0 THEN Nobody ELSE l[n]
  <2>1. CASE p = Nobody
    BY <2>1
  <2>2. CASE p \in Range(l)
    <3>1. PICK i \in DOMAIN l : l[i] = p
      BY <2>2 DEF Range
    <3>2. i \in 0..Len(l) /\ i # 0
      BY <3>1
    <3> QED
      BY <3>1, <3>2
  <2> QED
    BY <2>1, <2>2
<1>2. PICK r : r = InsertAfter(l, p, x)
  OBVIOUS
<1>3. Spliced(r, l, n, x)
  BY <1>1, <1>2, InsertWhere
<1>4. /\ r \in Seq(Tasks) /\ Len(r) = Len(l) + 1
      /\ \A j \in 1..Len(r) : r[j] = IF j <= n THEN l[j] ELSE IF j = n + 1 THEN x ELSE l[j - 1]
  BY <1>3 DEF Spliced
<1>5. Range(r) = Range(l) \cup {x} /\ Distinct(r)
  BY <1>4, SpliceOK
<1> QED
  BY <1>2, <1>4, <1>5

\* Taking out the element behind the first k removes it and nothing else.
LEMMA CutOK ==
  ASSUME NEW l \in Seq(Tasks), NEW k \in 0..(Len(l) - 1),
         NEW r, r \in Seq(Tasks), Len(r) = Len(l) - 1,
         \A j \in 1..Len(r) : r[j] = IF j <= k THEN l[j] ELSE l[j + 1],
         Distinct(l)
  PROVE  Range(r) = Range(l) \ {l[k + 1]} /\ Distinct(r)
<1>1. DOMAIN l = 1..Len(l) /\ DOMAIN r = 1..(Len(l) - 1) /\ Len(l) \in Nat \ {0}
  OBVIOUS
<1> DEFINE Old(n) == IF n <= k THEN n ELSE n + 1
<1>2. \A n \in DOMAIN r : Old(n) \in DOMAIN l /\ Old(n) # k + 1 /\ r[n] = l[Old(n)]
  BY <1>1
<1>3. k + 1 \in DOMAIN l
  BY <1>1
<1>4. ASSUME NEW n \in DOMAIN r PROVE r[n] \in Range(l) \ {l[k + 1]}
  <2>1. l[Old(n)] # l[k + 1]
    BY <1>2, <1>3 DEF Distinct
  <2> QED
    BY <1>2, <2>1 DEF Range
<1>5. ASSUME NEW j \in DOMAIN l, j # k + 1 PROVE l[j] \in Range(r)
  <2>1. CASE j <= k
    <3>1. j \in DOMAIN r /\ r[j] = l[j]
      BY <1>1, <2>1
    <3> QED
      BY <3>1 DEF Range
  <2>2. CASE j > k + 1
    <3>1. j - 1 \in DOMAIN r /\ r[j - 1] = l[j]
      BY <1>1, <2>2
    <3> QED
      BY <3>1 DEF Range
  <2> QED
    BY <1>1, <1>5, <2>1, <2>2
<1>6. ASSUME NEW i \in DOMAIN r, NEW j \in DOMAIN r, r[i] = r[j] PROVE i = j
  <2>1. Old(i) = Old(j)
    BY <1>2, <1>6 DEF Distinct
  <2> QED
    BY <1>1, <2>1
<1>7. Distinct(r)
  BY <1>6 DEF Distinct
<1> QED
  BY <1>4, <1>5, <1>7 DEF Range

\* The head of the list leaves it alone.
LEMMA TailOK ==
  ASSUME NEW l \in Seq(Tasks), l # <<>>, Distinct(l)
  PROVE  /\ Tail(l) \in Seq(Tasks) /\ Range(Tail(l)) = Range(l) \ {Head(l)}
         /\ Distinct(Tail(l)) /\ Head(l) \in Range(l)
<1>1. /\ Tail(l) \in Seq(Tasks) /\ Len(Tail(l)) = Len(l) - 1 /\ Len(l) \in Nat \ {0}
      /\ \A j \in 1..Len(Tail(l)) : Tail(l)[j] = l[j + 1]
  BY HeadTailProperties, EmptySeq
<1>2. \A j \in 1..Len(Tail(l)) : Tail(l)[j] = IF j <= 0 THEN l[j] ELSE l[j + 1]
  BY <1>1
<1>3. 0 \in 0..(Len(l) - 1)
  BY <1>1
<1>4. Range(Tail(l)) = Range(l) \ {l[0 + 1]} /\ Distinct(Tail(l))
  BY <1>1, <1>2, <1>3, CutOK
<1>5. Head(l) = l[1] /\ 1 \in DOMAIN l
  BY <1>1
<1>6. Head(l) \in Range(l)
  BY <1>5 DEF Range
<1>7. l[0 + 1] = Head(l)
  BY <1>5
<1> QED
  BY <1>1, <1>4, <1>6, <1>7

\* r is l without the element behind its first k.
Cut(r, l, k) ==
  /\ r \in Seq(Tasks) /\ Len(r) = Len(l) - 1
  /\ \A j \in 1..Len(r) : r[j] = IF j <= k THEN l[j] ELSE l[j + 1]

\* Deleting behind the predecessor of a task takes out that task.
LEMMA DeleteWhere ==
  ASSUME NEW l \in Seq(Tasks), NEW x \in Range(l), Distinct(l)
  PROVE  /\ Predecessor(l, x) \in Range(l) \cup {Nobody}
         /\ \E k \in 0..(Len(l) - 1) :
              l[k + 1] = x /\ Cut(DeleteAfter(l, Predecessor(l, x)), l, k)
<1> DEFINE n == SelectInSeq(l, LAMBDA y : y = x)
           p == Predecessor(l, x)
<1>0. Len(l) \in Nat /\ DOMAIN l = 1..Len(l) /\ \A j \in 1..Len(l) : l[j] \in Tasks
  OBVIOUS
<1>1. n \in 1..Len(l) /\ l[n] = x
  BY FindOK
<1>2. l # <<>>
  BY <1>1
<1>3. p = IF n > 1 THEN l[n - 1] ELSE Nobody
  BY DEF Predecessor
<1> HIDE DEF n
<1>4. CASE n = 1
  <2>1. p = Nobody
    BY <1>3, <1>4
  <2>2. DeleteAfter(l, p) = Tail(l)
    BY <1>2, <2>1 DEF DeleteAfter
  <2>3. /\ Tail(l) \in Seq(Tasks) /\ Len(Tail(l)) = Len(l) - 1 /\ Len(l) \in Nat \ {0}
        /\ \A j \in 1..Len(Tail(l)) : Tail(l)[j] = l[j + 1]
    BY <1>2, HeadTailProperties, EmptySeq
  <2>4. \A j \in 1..Len(Tail(l)) : Tail(l)[j] = IF j <= 0 THEN l[j] ELSE l[j + 1]
    BY <2>3
  <2>5. 0 \in 0..(Len(l) - 1) /\ l[0 + 1] = x
    BY <1>1, <1>4, <2>3
  <2>6. Cut(Tail(l), l, 0)
    BY <2>3, <2>4 DEF Cut
  <2> QED
    BY <2>1, <2>2, <2>5, <2>6, Zenon
<1>5. CASE n > 1
  <2> DEFINE k == SelectInSeq(l, LAMBDA y : y = p)
             a == SubSeq(l, 1, k)
             b == SubSeq(l, k + 2, Len(l))
             r == a \o b
  <2>1. p = l[n - 1] /\ n - 1 \in DOMAIN l
    BY <1>0, <1>1, <1>3, <1>5
  <2>2. p \in Range(l) /\ p # Nobody
    BY <1>0, <2>1, TimerAssumption DEF Range
  <2>3. k \in 1..Len(l) /\ l[k] = p
    BY <2>2, FindOK
  <2>4. k = n - 1
    BY <1>0, <2>1, <2>3 DEF Distinct
  <2>5. k \in 1..(Len(l) - 1) /\ k \in 0..(Len(l) - 1)
    BY <1>0, <1>1, <1>5, <2>4
  <2>6. DeleteAfter(l, p) = r
    BY <1>2, <2>2, <2>5, Zenon DEF DeleteAfter
  <2> HIDE DEF k, p
  <2>7. a \in Seq(Tasks) /\ Len(a) = k /\ \A j \in 1..k : a[j] = l[j]
    BY <1>0, <2>5, SubSeqProperties
  <2>8. /\ b \in Seq(Tasks) /\ Len(b) = Len(l) - 1 - k
        /\ \A j \in 1..(Len(l) - 1 - k) : b[j] = l[k + 1 + j]
    <3>1. /\ k + 2 \in Int /\ Len(l) \in Int
          /\ \A j \in (k + 2)..Len(l) : l[j] \in Tasks
      BY <1>0, <2>5
    <3>2. /\ b \in Seq(Tasks)
          /\ Len(b) = IF k + 2 <= Len(l) THEN Len(l) - (k + 2) + 1 ELSE 0
          /\ \A j \in 1..(Len(l) - (k + 2) + 1) : b[j] = l[(k + 2) + j - 1]
      BY <3>1, SubSeqProperties
    <3> HIDE DEF b
    <3>3. Len(l) - (k + 2) + 1 = Len(l) - 1 - k
      BY <1>0, <2>5
    <3>4. Len(b) = Len(l) - 1 - k
      <4>1. Len(b) = IF k + 2 <= Len(l) THEN Len(l) - (k + 2) + 1 ELSE 0
        BY <3>2
      <4>2. CASE k + 2 <= Len(l)
        BY <3>3, <4>1, <4>2, Zenon
      <4>3. CASE ~(k + 2 <= Len(l))
        <5>1. Len(b) = 0
          BY <4>1, <4>3, Zenon
        <5>2. k \in Int /\ Len(l) \in Int /\ k <= Len(l) - 1
          BY <1>0, <2>5
        <5>3. k = Len(l) - 1
          BY <4>3, <5>2
        <5> QED
          BY <5>1, <5>2, <5>3
      <4> QED
        BY <4>2, <4>3
    <3>5. ASSUME NEW j \in 1..(Len(l) - 1 - k) PROVE b[j] = l[k + 1 + j]
      <4>1. (k + 2) + j - 1 = k + 1 + j
        BY <2>5
      <4> QED
        BY <3>2, <3>3, <4>1
    <3> QED
      BY <3>2, <3>4, <3>5
  <2> HIDE DEF a, b
  <2>9. /\ r \in Seq(Tasks) /\ Len(r) = Len(l) - 1
        /\ \A j \in 1..(Len(l) - 1) : r[j] = IF j <= k THEN a[j] ELSE b[j - k]
    <3>1. /\ r \in Seq(Tasks) /\ Len(r) = Len(a) + Len(b)
          /\ \A j \in 1..(Len(a) + Len(b)) : r[j] = IF j <= Len(a) THEN a[j] ELSE b[j - Len(a)]
      BY <2>7, <2>8, ConcatProperties
    <3>2. Len(a) = k /\ Len(a) + Len(b) = Len(l) - 1
      BY <1>0, <2>5, <2>7, <2>8
    <3> QED
      BY <3>1, <3>2, Zenon
  <2> HIDE DEF r
  <2>10. \A j \in 1..Len(r) : r[j] = IF j <= k THEN l[j] ELSE l[j + 1]
    <3> SUFFICES ASSUME NEW j \in 1..Len(r) PROVE r[j] = IF j <= k THEN l[j] ELSE l[j + 1]
      OBVIOUS
    <3>1. CASE j <= k
      BY <1>0, <2>5, <2>7, <2>9, <3>1
    <3>2. CASE j > k
      <4>1. r[j] = b[j - k] /\ j - k \in 1..(Len(l) - 1 - k)
        BY <1>0, <2>5, <2>9, <3>2
      <4>2. b[j - k] = l[k + 1 + (j - k)]
        BY <2>8, <4>1
      <4> QED
        BY <2>5, <3>2, <4>1, <4>2
    <3> QED
      BY <2>5, <3>1, <3>2
  <2>11. l[k + 1] = x
    BY <1>1, <2>4
  <2>12. Cut(r, l, k)
    BY <2>9, <2>10, Zenon DEF Cut
  <2> QED
    BY <2>2, <2>5, <2>6, <2>11, <2>12, Zenon DEF p
<1> QED
  BY <1>1, <1>4, <1>5

\* Deleting behind the predecessor of a task removes that task.
LEMMA DeleteOK ==
  ASSUME NEW l \in Seq(Tasks), NEW x \in Range(l), Distinct(l)
  PROVE  /\ Predecessor(l, x) \in Range(l) \cup {Nobody}
         /\ DeleteAfter(l, Predecessor(l, x)) \in Seq(Tasks)
         /\ Range(DeleteAfter(l, Predecessor(l, x))) = Range(l) \ {x}
         /\ Distinct(DeleteAfter(l, Predecessor(l, x)))
<1>1. /\ Predecessor(l, x) \in Range(l) \cup {Nobody}
      /\ \E k \in 0..(Len(l) - 1) :
           l[k + 1] = x /\ Cut(DeleteAfter(l, Predecessor(l, x)), l, k)
  BY DeleteWhere
<1>0. PICK r : r = DeleteAfter(l, Predecessor(l, x))
  OBVIOUS
<1>2. PICK k \in 0..(Len(l) - 1) : l[k + 1] = x /\ Cut(r, l, k)
  BY <1>0, <1>1
<1>3. /\ r \in Seq(Tasks) /\ Len(r) = Len(l) - 1
      /\ \A j \in 1..Len(r) : r[j] = IF j <= k THEN l[j] ELSE l[j + 1]
  BY <1>2 DEF Cut
<1>4. Range(r) = Range(l) \ {l[k + 1]} /\ Distinct(r)
  BY <1>3, CutOK
<1> QED
  BY <1>0, <1>1, <1>2, <1>3, <1>4

-----------------------------------------------------------------------------
(* Time. *)

\* time_left before it is cut to 32 bits: what is left of the interval, and one
\* more when time has wrapped since the label.
Left(x, lab, now) ==
  IF lab[x] <= now THEN Interval[x] - (now - lab[x])
  ELSE Interval[x] - ((Wrap - 1) - lab[x]) - now

Lefts(lab, now) == [x \in Tasks |-> Left(x, lab, now)]

Times == 0..(Wrap - 1)

\* Arithmetic modulo the word.
LEMMA ModOK ==
  ASSUME NEW w \in Nat \ {0}, NEW a \in 0..(w - 1)
  PROVE  a % w = a /\ w % w = 0 /\ (a # 0 => (0 - a) % w = w - a)
<1>1. a % w = a /\ w % w = 0
  OBVIOUS
<1>2. ASSUME a # 0 PROVE (0 - a) % w = w - a
  BY <1>2
<1> QED
  BY <1>1, <1>2

\* The age of a task is the time since its label, around the wrap.
LEMMA LeftAge ==
  ASSUME NEW lab \in [Tasks -> Times], NEW now \in Times, NEW x \in Tasks
  PROVE  /\ Left(x, lab, now) \in Int /\ Interval[x] \in 1..(Wrap - 2)
         /\ lab[x] <= now => /\ (now - lab[x]) % Wrap = now - lab[x]
                             /\ Left(x, lab, now) = Interval[x] - (now - lab[x])
         /\ lab[x] > now => /\ (now - lab[x]) % Wrap = now - lab[x] + Wrap
                            /\ Left(x, lab, now) = Interval[x] - (now - lab[x] + Wrap) + 1
<1>1. /\ lab[x] \in 0..(Wrap - 1) /\ now \in 0..(Wrap - 1) /\ Interval[x] \in 1..(Wrap - 2)
      /\ Wrap \in Nat \ {0}
  BY TimerAssumption DEF Times
<1>2. Left(x, lab, now) \in Int
  BY <1>1 DEF Left
<1>3. ASSUME lab[x] <= now
      PROVE  /\ (now - lab[x]) % Wrap = now - lab[x]
             /\ Left(x, lab, now) = Interval[x] - (now - lab[x])
  <2>1. now - lab[x] \in 0..(Wrap - 1)
    BY <1>1, <1>3
  <2>2. (now - lab[x]) % Wrap = now - lab[x]
    BY <1>1, <2>1, ModOK
  <2> QED
    BY <1>3, <2>2 DEF Left
<1>4. ASSUME lab[x] > now
      PROVE  /\ (now - lab[x]) % Wrap = now - lab[x] + Wrap
             /\ Left(x, lab, now) = Interval[x] - (now - lab[x] + Wrap) + 1
  <2>1. PICK a \in 0..(Wrap - 1) : a = lab[x] - now /\ a # 0
    BY <1>1, <1>4
  <2>2. (0 - a) % Wrap = Wrap - a
    BY <1>1, <2>1, ModOK
  <2>3. now - lab[x] = 0 - a /\ now - lab[x] + Wrap = Wrap - a
    BY <1>1, <2>1
  <2>4. (now - lab[x]) % Wrap = now - lab[x] + Wrap
    BY <2>2, <2>3
  <2>5. Left(x, lab, now) = Interval[x] - ((Wrap - 1) - lab[x]) - now
    BY <1>1, <1>4 DEF Left
  <2>6. Left(x, lab, now) = Interval[x] - (now - lab[x] + Wrap) + 1
    BY <1>1, <2>5
  <2> QED
    BY <2>4, <2>6
<1> QED
  BY <1>1, <1>2, <1>3, <1>4

\* Nothing is cut off for a task that is not overdue.
LEMMA TimeLeftOK ==
  ASSUME NEW lab \in [Tasks -> Times], NEW now \in Times, NEW x \in Tasks,
         Left(x, lab, now) >= 0
  PROVE  TimeLeft(x, lab, now) = Left(x, lab, now)
<1>1. /\ lab[x] \in 0..(Wrap - 1) /\ now \in 0..(Wrap - 1) /\ Interval[x] \in 1..(Wrap - 2)
      /\ Wrap \in Nat \ {0}
  BY TimerAssumption DEF Times
<1>2. Left(x, lab, now) \in 0..(Wrap - 1)
  BY <1>1, LeftAge
<1>3. Left(x, lab, now) % Wrap = Left(x, lab, now)
  BY <1>1, <1>2, ModOK
<1>4. TimeLeft(x, lab, now) = Left(x, lab, now) % Wrap
  BY DEF TimeLeft, Left
<1> QED
  BY <1>3, <1>4

\* A tick takes one from what all tasks have left, and nothing when it wraps.
LEMMA TickOK ==
  ASSUME NEW lab \in [Tasks -> Times], NEW now \in Times, NEW x \in Tasks,
         Left(x, lab, now) >= 1
  PROVE  Left(x, lab, (now + 1) % Wrap) =
           IF now = Wrap - 1 THEN Left(x, lab, now) ELSE Left(x, lab, now) - 1
<1>1. /\ lab[x] \in 0..(Wrap - 1) /\ now \in 0..(Wrap - 1) /\ Interval[x] \in 1..(Wrap - 2)
      /\ Wrap \in Nat \ {0}
  BY TimerAssumption DEF Times
<1>2. CASE now = Wrap - 1
  <2>1. (now + 1) % Wrap = 0
    BY <1>1, <1>2, ModOK
  <2>2. Left(x, lab, now) = Interval[x] - (Wrap - 1 - lab[x])
    BY <1>1, <1>2 DEF Left
  <2>3. ~(lab[x] <= 0)
    BY <1>1, <2>2
  <2>4. Left(x, lab, 0) = Interval[x] - ((Wrap - 1) - lab[x]) - 0
    BY <2>3 DEF Left
  <2>5. Left(x, lab, 0) = Left(x, lab, now)
    BY <1>1, <2>2, <2>4
  <2> QED
    BY <1>2, <2>1, <2>5
<1>3. CASE now # Wrap - 1
  <2>1. now + 1 \in 0..(Wrap - 1)
    BY <1>1, <1>3
  <2>2. (now + 1) % Wrap = now + 1
    BY <1>1, <2>1, ModOK
  <2>3. CASE lab[x] <= now
    BY <1>1, <1>3, <2>2, <2>3 DEF Left
  <2>4. CASE ~(lab[x] <= now)
    <3>1. Left(x, lab, now) = Interval[x] - ((Wrap - 1) - lab[x]) - now
      BY <2>4 DEF Left
    <3>2. ~(lab[x] <= now + 1)
      BY <1>1, <3>1
    <3>3. Left(x, lab, now + 1) = Interval[x] - ((Wrap - 1) - lab[x]) - (now + 1)
      BY <3>2 DEF Left
    <3>4. Left(x, lab, now + 1) = Left(x, lab, now) - 1
      BY <1>1, <3>1, <3>3
    <3> QED
      BY <1>3, <2>2, <3>4
  <2> QED
    BY <2>3, <2>4
<1> QED
  BY <1>2, <1>3

-----------------------------------------------------------------------------
(* The order of the list. *)

\* The list l is in the order of the values v, none of them below b.
Ordered(l, v, b) ==
  /\ \A i, j \in DOMAIN l : i < j => v[l[i]] <= v[l[j]]
  /\ \A i \in DOMAIN l : v[l[i]] >= b

\* A list stays in order when an element goes where it belongs ...
LEMMA OrderedSplice ==
  ASSUME NEW l \in Seq(Tasks), NEW v \in [Tasks -> Int], NEW b \in Int, Ordered(l, v, b),
         NEW k \in 0..Len(l), NEW x \in Tasks, NEW r, Spliced(r, l, k, x), v[x] >= b,
         \A j \in 1..k : v[l[j]] <= v[x], k < Len(l) => v[l[k + 1]] >= v[x]
  PROVE  Ordered(r, v, b)
<1>0. r \in Seq(Tasks) /\ Len(r) = Len(l) + 1
  BY DEF Spliced
<1>1. /\ DOMAIN l = 1..Len(l) /\ DOMAIN r = 1..(Len(l) + 1) /\ Len(l) \in Nat
      /\ \A j \in DOMAIN l : v[l[j]] \in Int
      /\ v[x] \in Int /\ k \in Nat /\ DOMAIN r = 1..Len(r)
  BY <1>0
<1>2. \A j \in DOMAIN r : r[j] = IF j <= k THEN l[j] ELSE IF j = k + 1 THEN x ELSE l[j - 1]
  BY <1>1, Zenon DEF Spliced
<1>a. \A j \in DOMAIN r : j > k + 1 => r[j] = l[j - 1] /\ j - 1 \in DOMAIN l /\ j - 1 > k
  <2> SUFFICES ASSUME NEW j \in DOMAIN r, j > k + 1
               PROVE  r[j] = l[j - 1] /\ j - 1 \in DOMAIN l /\ j - 1 > k
    OBVIOUS
  <2>1. ~(j <= k) /\ j # k + 1 /\ j - 1 \in DOMAIN l /\ j - 1 > k
    BY <1>1
  <2> QED
    BY <1>2, <2>1, Zenon
<1>3. ASSUME NEW j \in DOMAIN l, j > k PROVE v[l[j]] >= v[x]
  <2>1. k + 1 \in DOMAIN l /\ v[l[k + 1]] >= v[x]
    BY <1>1, <1>3
  <2>2. k + 1 = j \/ k + 1 < j
    BY <1>1, <1>3
  <2>3. k + 1 < j => v[l[k + 1]] <= v[l[j]]
    BY <2>1 DEF Ordered
  <2>4. v[l[j]] \in Int /\ v[l[k + 1]] \in Int /\ v[x] \in Int
    BY <1>1, <2>1
  <2> QED
    BY <2>1, <2>2, <2>3, <2>4
<1>4. ASSUME NEW i \in DOMAIN r, NEW j \in DOMAIN r, i < j PROVE v[r[i]] <= v[r[j]]
  <2>1. CASE j <= k
    <3>1. i <= k /\ i \in DOMAIN l /\ j \in DOMAIN l
      BY <1>1, <1>4, <2>1
    <3>2. r[i] = l[i] /\ r[j] = l[j]
      BY <1>2, <2>1, <3>1, Zenon
    <3> QED
      BY <1>4, <3>1, <3>2 DEF Ordered
  <2>2. CASE j = k + 1
    <3>1. i <= k /\ i \in 1..k /\ ~(j <= k)
      BY <1>1, <1>4, <2>2
    <3>2. r[i] = l[i] /\ r[j] = x
      BY <1>2, <2>2, <3>1, Zenon
    <3> QED
      BY <3>1, <3>2
  <2>3. CASE j > k + 1
    <3>1. r[j] = l[j - 1] /\ j - 1 \in DOMAIN l /\ j - 1 > k
      BY <1>a, <2>3
    <3>2. CASE i <= k
      <4>1. r[i] = l[i]
        BY <1>2, <3>2
      <4>2. i \in DOMAIN l /\ i < j - 1
        BY <1>1, <2>3, <3>2
      <4> QED
        BY <3>1, <4>1, <4>2 DEF Ordered
    <3>3. CASE i = k + 1
      <4>1. r[i] = x
        BY <1>1, <1>2, <3>3
      <4> QED
        BY <1>1, <1>3, <3>1, <4>1
    <3>4. CASE i > k + 1
      <4>1. r[i] = l[i - 1] /\ i - 1 \in DOMAIN l
        BY <1>a, <3>4
      <4>2. i - 1 < j - 1
        BY <1>1, <1>4
      <4> QED
        BY <3>1, <4>1, <4>2 DEF Ordered
    <3> QED
      BY <1>1, <3>2, <3>3, <3>4
  <2> QED
    BY <1>1, <2>1, <2>2, <2>3
<1>5. ASSUME NEW j \in DOMAIN r PROVE v[r[j]] >= b
  <2>1. CASE j <= k
    <3>1. r[j] = l[j] /\ j \in DOMAIN l
      BY <1>1, <1>2, <2>1
    <3> QED
      BY <3>1 DEF Ordered
  <2>2. CASE j = k + 1
    BY <1>1, <1>2, <2>2
  <2>3. CASE j > k + 1
    <3>1. r[j] = l[j - 1] /\ j - 1 \in DOMAIN l
      BY <1>a, <2>3
    <3> QED
      BY <3>1 DEF Ordered
  <2> QED
    BY <1>1, <2>1, <2>2, <2>3
<1> QED
  BY <1>4, <1>5 DEF Ordered

\* ... and when one is taken out.
LEMMA OrderedCut ==
  ASSUME NEW l \in Seq(Tasks), NEW v \in [Tasks -> Int], NEW b \in Int, Ordered(l, v, b),
         NEW k \in 0..(Len(l) - 1), NEW r, Cut(r, l, k)
  PROVE  Ordered(r, v, b)
<1> DEFINE Old(n) == IF n <= k THEN n ELSE n + 1
<1>0. r \in Seq(Tasks) /\ Len(r) = Len(l) - 1
  BY DEF Cut
<1>1. DOMAIN l = 1..Len(l) /\ DOMAIN r = 1..(Len(l) - 1) /\ Len(l) \in Nat /\ k \in Nat
      /\ DOMAIN r = 1..Len(r)
  BY <1>0
<1>a. \A n \in DOMAIN r : r[n] = IF n <= k THEN l[n] ELSE l[n + 1]
  BY <1>1, Zenon DEF Cut
<1>b. \A n \in DOMAIN r : r[n] = l[Old(n)]
  BY <1>a
<1>2. \A n \in DOMAIN r : Old(n) \in DOMAIN l /\ r[n] = l[Old(n)]
  BY <1>1, <1>b
<1>3. \A i, j \in DOMAIN r : i < j => Old(i) < Old(j)
  BY <1>1
<1> HIDE DEF Old
<1> QED
  BY <1>2, <1>3 DEF Ordered

\* The order does not change when all values fall by the same.
LEMMA OrderedShift ==
  ASSUME NEW l \in Seq(Tasks), NEW v \in [Tasks -> Int], NEW w \in [Tasks -> Int],
         NEW b \in Int, NEW c \in Int, NEW d \in Int, Ordered(l, v, b), c <= b - d,
         \A i \in DOMAIN l : w[l[i]] = v[l[i]] - d
  PROVE  Ordered(l, w, c)
<1>1. \A i \in DOMAIN l : v[l[i]] \in Int /\ w[l[i]] \in Int
  OBVIOUS
<1>2. ASSUME NEW i \in DOMAIN l, NEW j \in DOMAIN l, i < j PROVE w[l[i]] <= w[l[j]]
  <2>1. v[l[i]] <= v[l[j]]
    BY <1>2 DEF Ordered
  <2> QED
    BY <1>1, <2>1
<1>3. ASSUME NEW i \in DOMAIN l PROVE w[l[i]] >= c
  <2>1. v[l[i]] >= b
    BY DEF Ordered
  <2> QED
    BY <1>1, <2>1
<1> QED
  BY <1>2, <1>3 DEF Ordered

\* What is left is a number.
LEMMA LeftsOK ==
  ASSUME NEW lab \in [Tasks -> Times], NEW now \in Times
  PROVE  /\ Lefts(lab, now) \in [Tasks -> Int]
         /\ \A x \in Tasks : Lefts(lab, now)[x] = Left(x, lab, now)
BY LeftAge DEF Lefts

\* As long as none is overdue, a task just labelled is put where its time says.
LEMMA PlaceOrdered ==
  ASSUME NEW l \in Seq(Tasks), NEW lab \in [Tasks -> Times], NEW now \in Times,
         NEW x \in Tasks, NEW b \in {0, 1}, Ordered(l, Lefts(lab, now), b), Distinct(l),
         lab[x] = now
  PROVE  Ordered(InsertAfter(l, Before(l, lab, x, now), x), Lefts(lab, now), b)
<1> DEFINE v == Lefts(lab, now)
<1>1. v \in [Tasks -> Int] /\ \A y \in Tasks : v[y] = Left(y, lab, now)
  BY LeftsOK
<1>2. \A j \in DOMAIN l : v[l[j]] = TimeLeft(l[j], lab, now) /\ v[l[j]] \in Int
  <2> SUFFICES ASSUME NEW j \in DOMAIN l
               PROVE  v[l[j]] = TimeLeft(l[j], lab, now) /\ v[l[j]] \in Int
    OBVIOUS
  <2>1. l[j] \in Tasks
    OBVIOUS
  <2>2. Left(l[j], lab, now) >= 0 /\ v[l[j]] \in Int
    BY <1>1, <2>1 DEF Ordered
  <2> QED
    BY <1>1, <2>1, <2>2, TimeLeftOK
<1>3. v[x] = Interval[x] /\ Interval[x] \in Int /\ v[x] >= b
  <2>1. now \in Int /\ Interval[x] \in 1..(Wrap - 2) /\ Wrap \in Nat
    BY TimerAssumption DEF Times
  <2>2. Left(x, lab, now) = Interval[x]
    BY <2>1 DEF Left
  <2> QED
    BY <1>1, <2>1, <2>2
<1> HIDE DEF v
<1>p. PICK p : p = Before(l, lab, x, now)
  OBVIOUS
<1>4. PICK k \in 0..Len(l) :
        /\ p = IF k = 0 THEN Nobody ELSE l[k]
        /\ \A j \in 1..k : ~(TimeLeft(l[j], lab, now) >= Interval[x])
        /\ k < Len(l) => TimeLeft(l[k + 1], lab, now) >= Interval[x]
  BY <1>p, BeforeWhere
<1>5. \A j \in 1..k : v[l[j]] <= v[x]
  <2> SUFFICES ASSUME NEW j \in 1..k PROVE v[l[j]] <= v[x]
    OBVIOUS
  <2>1. j \in DOMAIN l /\ ~(TimeLeft(l[j], lab, now) >= Interval[x])
    BY <1>4
  <2> QED
    BY <1>2, <1>3, <2>1
<1>6. k < Len(l) => v[l[k + 1]] >= v[x]
  <2> SUFFICES ASSUME k < Len(l) PROVE v[l[k + 1]] >= v[x]
    OBVIOUS
  <2>1. k + 1 \in DOMAIN l /\ TimeLeft(l[k + 1], lab, now) >= Interval[x]
    BY <1>4
  <2> QED
    BY <1>2, <1>3, <2>1
<1>7. PICK r : r = InsertAfter(l, p, x)
  OBVIOUS
<1>8. Spliced(r, l, k, x)
  BY <1>4, <1>7, InsertWhere
<1>9. Ordered(l, v, b)
  BY DEF v
<1>10. Ordered(r, v, b)
  <2>1. b \in Int
    OBVIOUS
  <2> QED
    BY <1>1, <1>3, <1>5, <1>6, <1>8, <1>9, <2>1, OrderedSplice
<1> QED
  BY <1>p, <1>7, <1>10 DEF v

-----------------------------------------------------------------------------
(* The inductive invariant. *)

\* The list is the program's from Take to Release, the interrupt's while it
\* serves; the interrupt's loop is at the head.
LockInv ==
  /\ pc \in Locked <=> "taken" \in flags
  /\ serving => flags = {} /\ it = Head0(tasks)

\* What the call has found out of the list still holds.
CallInv ==
  /\ pc # "idle" => call \in Calls
  /\ pc \in {"label", "place", "link"} => call.task \notin Range(tasks)
  /\ pc \in {"find", "unlink"} => call.task \in Range(tasks)
  /\ pc = "link" => prev \in Range(tasks) \cup {Nobody}
  /\ pc = "unlink" => prev = Predecessor(tasks, call.task)

\* Only a refused call is over with the postponement flag set.
FlagInv ==
  /\ StuckOnlyAfterRefusal
  /\ pc = "assert" => result = "refused"

\* The list, with the task that a call is about to link where it found a place.
Line == IF pc = "link" THEN InsertAfter(tasks, prev, call.task) ELSE tasks

\* While no tick is missed, the list is in the order of what its tasks have left,
\* and none is overdue; only the interrupt sees tasks that are due.
OrderInv ==
  ~missed =>
    /\ Ordered(Line, Lefts(label, time), IF serving THEN 0 ELSE 1)
    /\ pc = "place" => label[call.task] = time

IInv == TypeOK /\ LockInv /\ CallInv /\ FlagInv /\ NoneLost /\ OrderInv

LEMMA InitOK == Init => IInv
<1> SUFFICES ASSUME Init PROVE IInv
  OBVIOUS
<1> USE TimerAssumption DEF Init
<1>1. TypeOK
  <2>1. /\ time \in 0..(Wrap - 1) /\ tasks \in Seq(Tasks) /\ label \in [Tasks -> 0..(Wrap - 1)]
        /\ flags \subseteq {"taken", "triggered"} /\ reg \subseteq {"taken", "triggered"}
    OBVIOUS
  <2>2. /\ ovf \in BOOLEAN /\ pended \in BOOLEAN /\ running \in BOOLEAN /\ serving \in BOOLEAN
        /\ missed \in BOOLEAN
    BY Zenon
  <2>3. /\ it \in Tasks \cup {Nobody} /\ prev \in Tasks \cup {Nobody}
        /\ call \in Calls \cup {NoCall}
        /\ pc \in Locked \cup {"idle", "take", "assert", "halted", "test", "repend"}
        /\ result \in {"ok", "refused"} /\ registered \subseteq Tasks
    BY Zenon
  <2> QED
    BY <2>1, <2>2, <2>3 DEF TypeOK
<1>2. LockInv /\ CallInv /\ FlagInv
  BY DEF LockInv, CallInv, FlagInv, StuckOnlyAfterRefusal, Locked
<1>3. NoneLost
  BY DEF NoneLost, Range
<1>4. OrderInv
  <2>1. Line = <<>> /\ pc # "place"
    BY DEF Line
  <2> QED
    BY <2>1 DEF OrderInv, Ordered
<1> QED
  BY <1>1, <1>2, <1>3, <1>4 DEF IInv

-----------------------------------------------------------------------------
(* The steps. *)

\* The switches of the hardware and of the interrupt.
LEMMA SwitchesOK ==
  ASSUME TypeOK, Next
  PROVE  /\ ovf' \in BOOLEAN /\ pended' \in BOOLEAN /\ running' \in BOOLEAN
         /\ serving' \in BOOLEAN /\ missed' \in BOOLEAN
<1>0. /\ ovf \in BOOLEAN /\ pended \in BOOLEAN /\ running \in BOOLEAN /\ serving \in BOOLEAN
      /\ missed \in BOOLEAN
  BY Zenon DEF TypeOK
<1>1. CASE Begin \/ Take \/ Check \/ Label \/ Place \/ Link \/ Find \/ Unlink
           \/ Unlock \/ Release \/ Refuse \/ Test
  <2>1. Quiet
    BY <1>1, Zenon DEF Begin, Take, Check, Label, Place, Link, Find, Unlink, Unlock, Release,
       Refuse, Test
  <2> QED
    BY <1>0, <2>1 DEF Quiet, irq
<1>2. CASE Repend \/ StartStop \/ Overflow \/ EnterPended
  BY <1>0, <1>2, Zenon DEF Repend, StartStop, Overflow, EnterPended, Enter, irq
<1>3. CASE Postpone \/ Serve
  BY <1>0, <1>3, Zenon DEF Postpone, Serve, Tick, Enter
<1>4. CASE Run \/ Finish
  BY <1>0, <1>4, Zenon DEF Run, Finish, irq
<1> QED
  BY <1>1, <1>2, <1>3, <1>4 DEF Next, Program, Interrupt

\* Time, the flags and the program's place.
LEMMA ClockOK ==
  ASSUME TypeOK, Next
  PROVE  time' \in 0..(Wrap - 1)
<1>1. CASE Postpone \/ Serve
  <2>1. time' = (time + 1) % Wrap
    BY <1>1 DEF Postpone, Serve, Tick
  <2> QED
    BY <2>1, TimerAssumption DEF TypeOK
<1>2. CASE UNCHANGED time
  BY <1>2 DEF TypeOK
<1> QED
  BY <1>1, <1>2, Zenon DEF Next, Program, Interrupt, Begin, Take, Check, Label, Place, Link,
     Find, Unlink, Unlock, Release, Refuse, Test, Repend, StartStop, Overflow, EnterPended,
     Run, Finish, Quiet, irq

LEMMA ProgramOK ==
  ASSUME TypeOK, LockInv, CallInv, FlagInv, Next
  PROVE  /\ flags' \subseteq {"taken", "triggered"} /\ reg' \subseteq {"taken", "triggered"}
         /\ call' \in Calls \cup {NoCall} /\ result' \in {"ok", "refused"}
         /\ pc' \in Locked \cup {"idle", "take", "assert", "halted", "test", "repend"}
<1>0. /\ flags \subseteq {"taken", "triggered"} /\ reg \subseteq {"taken", "triggered"}
      /\ call \in Calls \cup {NoCall} /\ result \in {"ok", "refused"}
      /\ pc \in Locked \cup {"idle", "take", "assert", "halted", "test", "repend"}
  BY DEF TypeOK
<1>1. CASE Begin \/ Take \/ Check \/ Unlock \/ Release
  BY <1>0, <1>1 DEF Begin, Take, Check, Unlock, Release, Goto, Locked
<1>2. CASE Label \/ Place \/ Link \/ Find \/ Unlink
  BY <1>0, <1>2 DEF Label, Place, Link, Find, Unlink, Goto, Locked
<1>3. CASE Refuse \/ Test \/ Repend
  BY <1>0, <1>3 DEF Refuse, Test, Repend, Goto, Return
<1>4. CASE Postpone
  BY <1>0, <1>4 DEF Postpone, program
<1>5. CASE UNCHANGED <<program, flags>>
  BY <1>0, <1>5 DEF program
<1> QED
  BY <1>1, <1>2, <1>3, <1>4, <1>5, Zenon DEF Next, Program, Interrupt, StartStop, Overflow,
     EnterPended, Serve, Run, Finish

\* Every call of the program that finds the list taken does so between Take and
\* Release; the interrupt serves a free list only, and the program stands still.
LEMMA LockOK ==
  ASSUME TypeOK, LockInv, Next
  PROVE  LockInv'
<1>1. CASE Begin \/ Unlock \/ Refuse \/ Test
  <2>1. /\ ~serving /\ serving' = serving /\ flags' = flags
        /\ pc \in Locked <=> pc' \in Locked
    BY <1>1 DEF Begin, Unlock, Refuse, Test, At, Goto, Return, Quiet, irq, Locked
  <2> QED
    BY <2>1 DEF LockInv
<1>2. CASE Check \/ Label \/ Place \/ Link \/ Find \/ Unlink
  <2>1. ~serving /\ serving' = serving /\ flags' = flags /\ pc \in Locked /\ pc' \in Locked
    BY <1>2 DEF Check, Label, Place, Link, Find, Unlink, At, Goto, Quiet, irq, Locked
  <2> QED
    BY <2>1 DEF LockInv
<1>3. CASE Take
  <2>1. ~serving /\ serving' = serving /\ "taken" \in flags' /\ pc' = "check"
    BY <1>3 DEF Take, At, Goto, Quiet, irq
  <2> QED
    BY <2>1 DEF LockInv, Locked
<1>4. CASE Release
  <2>1. ~serving /\ serving' = serving /\ "taken" \notin flags' /\ pc' \in {"assert", "test"}
    BY <1>4 DEF Release, At, Goto, Quiet, irq
  <2> QED
    BY <2>1 DEF LockInv, Locked
<1>5. CASE Repend
  <2>1. /\ ~serving /\ serving' = serving /\ flags' = flags \ {"triggered"}
        /\ pc = "repend" /\ pc' = "idle"
    BY <1>5 DEF Repend, At, Return
  <2> QED
    BY <2>1 DEF LockInv, Locked
<1>6. CASE StartStop \/ Overflow \/ EnterPended
  <2>1. pc' = pc /\ serving' = serving /\ flags' = flags /\ it' = it /\ tasks' = tasks
    BY <1>6 DEF StartStop, Overflow, EnterPended, list, irq, program
  <2> QED
    BY <2>1 DEF LockInv, Head0
<1>7. CASE Postpone
  <2>1. /\ ~serving /\ serving' = serving /\ flags' = flags \cup {"triggered"} /\ pc' = pc
    BY <1>7 DEF Postpone, Tick, Enter, program
  <2> QED
    BY <2>1 DEF LockInv
<1>8. CASE Serve
  <2>1. flags = {} /\ flags' = flags /\ pc' = pc /\ it' = Head0(tasks) /\ tasks' = tasks
    BY <1>8 DEF Serve, Held, program
  <2> QED
    BY <2>1 DEF LockInv, Head0
<1>9. CASE Run
  <2>1. /\ serving /\ serving' = serving /\ flags' = flags /\ pc' = pc /\ it' = Head0(tasks')
    BY <1>9 DEF Run, irq, program
  <2> QED
    BY <2>1 DEF LockInv, Head0
<1>10. CASE Finish
  <2>1. ~serving' /\ flags' = flags /\ pc' = pc
    BY <1>10 DEF Finish, program
  <2> QED
    BY <2>1 DEF LockInv
<1> QED
  BY <1>1, <1>2, <1>3, <1>4, <1>5, <1>6, <1>7, <1>8, <1>9, <1>10 DEF Next, Program, Interrupt

\* A call that succeeds looks at the postponement flag after it released the
\* list, and clears it; from then on a tick serves at once.
LEMMA FlagOK ==
  ASSUME TypeOK, LockInv, FlagInv, Next
  PROVE  FlagInv'
<1>1. CASE Begin \/ Take \/ Check \/ Label \/ Place \/ Link \/ Find \/ Unlink \/ Unlock
  <2>1. pc' \notin {"idle", "assert"}
    BY <1>1 DEF Begin, Take, Check, Label, Place, Link, Find, Unlink, Unlock, Goto
  <2> QED
    BY <2>1 DEF FlagInv, StuckOnlyAfterRefusal
<1>2. CASE Release
  <2>1. result' = result /\ pc' = (IF result = "refused" THEN "assert" ELSE "test")
    BY <1>2 DEF Release, Goto
  <2> QED
    BY <2>1 DEF FlagInv, StuckOnlyAfterRefusal
<1>3. CASE Refuse
  <2>1. pc = "assert" /\ result' = result
    BY <1>3 DEF Refuse, At
  <2> QED
    BY <2>1 DEF FlagInv, StuckOnlyAfterRefusal
<1>4. CASE Test
  <2>1. /\ flags' = flags /\ pc' # "assert" /\ ("triggered" \in flags => pc' = "repend")
    BY <1>4 DEF Test, Goto, Return
  <2> QED
    BY <2>1 DEF FlagInv, StuckOnlyAfterRefusal
<1>5. CASE Repend
  <2>1. "triggered" \notin flags' /\ pc' = "idle"
    BY <1>5 DEF Repend, Return
  <2> QED
    BY <2>1 DEF FlagInv, StuckOnlyAfterRefusal
<1>6. CASE Postpone
  <2>1. pc' = pc /\ result' = result /\ flags # {}
    BY <1>6 DEF Postpone, Held, program
  <2>2. pc = "idle" => "triggered" \in flags
    BY <2>1 DEF LockInv, Locked, TypeOK
  <2> QED
    BY <2>1, <2>2 DEF FlagInv, StuckOnlyAfterRefusal
<1>7. CASE UNCHANGED <<program, flags>>
  BY <1>7 DEF FlagInv, StuckOnlyAfterRefusal, program
<1> QED
  BY <1>1, <1>2, <1>3, <1>4, <1>5, <1>6, <1>7, Zenon DEF Next, Program, Interrupt, StartStop,
     Overflow, EnterPended, Serve, Run, Finish

\* The list and the tasks that are registered.
ListInv ==
  /\ tasks \in Seq(Tasks) /\ registered \subseteq Tasks
  /\ Range(tasks) = registered /\ Distinct(tasks)

\* The property, as the lemmas about the list use it.
LEMMA ListIsNoneLost == TypeOK => (ListInv <=> NoneLost)
BY DEF TypeOK, ListInv, NoneLost, Distinct

\* Every step that changes the list adds or removes one task, the interrupt's
\* when nobody holds the list, the program's at a place that is still there.
LEMMA ListOK ==
  ASSUME TypeOK, LockInv, CallInv, ListInv, Next
  PROVE  ListInv'
<1>0. tasks \in Seq(Tasks) /\ registered \subseteq Tasks /\ Range(tasks) = registered
      /\ Distinct(tasks)
  BY DEF ListInv
<1>1. CASE Link
  <2>1. /\ tasks' = InsertAfter(tasks, prev, call.task)
        /\ registered' = registered \cup {call.task} /\ pc = "link"
    BY <1>1 DEF Link, At
  <2>2. /\ call.task \in Tasks /\ call.task \notin Range(tasks)
        /\ prev \in Range(tasks) \cup {Nobody}
    BY <2>1 DEF CallInv, Calls
  <2> QED
    BY <1>0, <2>1, <2>2, InsertOK DEF ListInv
<1>2. CASE Unlink
  <2>1. /\ tasks' = DeleteAfter(tasks, prev) /\ registered' = registered \ {call.task}
        /\ pc = "unlink"
    BY <1>2 DEF Unlink, At, Forget
  <2>2. call.task \in Range(tasks) /\ prev = Predecessor(tasks, call.task)
    BY <2>1 DEF CallInv
  <2> QED
    BY <1>0, <2>1, <2>2, DeleteOK DEF ListInv
<1>3. CASE Run
  <2>1. serving /\ tasks # <<>> /\ it = Head(tasks)
    BY <1>3 DEF Run, LockInv, Head0
  <2>2. /\ Tail(tasks) \in Seq(Tasks) /\ Range(Tail(tasks)) = Range(tasks) \ {it}
        /\ Distinct(Tail(tasks)) /\ it \in Range(tasks)
    BY <1>0, <2>1, TailOK
  <2>3. CASE it \in Repeat
    <3>1. /\ tasks' = InsertAfter(Tail(tasks), Before(Tail(tasks), label', it, time), it)
          /\ registered' = registered
      BY <1>3, <2>3 DEF Run
    <3>2. Before(Tail(tasks), label', it, time) \in Range(Tail(tasks)) \cup {Nobody}
      BY <2>2, BeforeOK
    <3>3. it \in Tasks /\ it \notin Range(Tail(tasks))
      BY <1>0, <2>2
    <3>4. /\ tasks' \in Seq(Tasks) /\ Range(tasks') = Range(Tail(tasks)) \cup {it}
          /\ Distinct(tasks')
      BY <2>2, <3>1, <3>2, <3>3, InsertOK
    <3> QED
      BY <1>0, <2>2, <3>1, <3>4 DEF ListInv
  <2>4. CASE it \notin Repeat
    <3>1. tasks' = Tail(tasks) /\ registered' = registered \ {it}
      BY <1>3, <2>4 DEF Run, Forget
    <3> QED
      BY <1>0, <2>2, <3>1 DEF ListInv
  <2> QED
    BY <2>3, <2>4
<1>4. CASE UNCHANGED <<tasks, registered>>
  BY <1>0, <1>4 DEF ListInv
<1> QED
  BY <1>1, <1>2, <1>3, <1>4, Zenon DEF Next, Program, Interrupt, Begin, Take, Check, Label, Place,
     Find, Unlock, Release, Refuse, Test, Repend, StartStop, Overflow, EnterPended,
     Postpone, Serve, Finish, Quiet, list

\* Between its steps nobody else changes the list under a call that holds it.
LEMMA CallOK ==
  ASSUME TypeOK, LockInv, CallInv, ListInv, Next
  PROVE  CallInv'
<1>1. CASE Begin
  <2>1. call' \in Calls /\ pc' = "take"
    BY <1>1 DEF Begin, Goto
  <2> QED
    BY <2>1 DEF CallInv
<1>2. CASE Take
  <2>1. call' = call /\ call \in Calls /\ pc' = "check"
    BY <1>2 DEF Take, At, Goto, CallInv
  <2> QED
    BY <2>1 DEF CallInv
<1>3. CASE Check
  <2>1. /\ call' = call /\ call \in Calls /\ tasks' = tasks
        /\ pc' = (IF Listed(call.task) <=> call.op = "add" THEN "unlock"
                  ELSE IF call.op = "add" THEN "label" ELSE "find")
    BY <1>3 DEF Check, At, Goto, CallInv, list
  <2>2. Listed(call.task) <=> call.task \in Range(tasks)
    BY DEF Listed
  <2>3. CASE pc' = "label"
    BY <2>1, <2>2, <2>3 DEF CallInv
  <2>4. CASE pc' = "find"
    BY <2>1, <2>2, <2>4 DEF CallInv
  <2>5. CASE pc' = "unlock"
    BY <2>1, <2>5 DEF CallInv
  <2> QED
    BY <2>1, <2>3, <2>4, <2>5
<1>4. CASE Label
  <2>1. call' = call /\ pc = "label" /\ pc' = "place" /\ tasks' = tasks
    BY <1>4 DEF Label, At, Goto
  <2> QED
    BY <2>1 DEF CallInv
<1>5. CASE Place
  <2>1. /\ call' = call /\ pc = "place" /\ pc' = "link" /\ tasks' = tasks
        /\ prev' = Before(tasks, label, call.task, time)
    BY <1>5 DEF Place, At, Goto, list
  <2>2. prev' \in Range(tasks) \cup {Nobody}
    BY <2>1, BeforeOK DEF ListInv
  <2> QED
    BY <2>1, <2>2 DEF CallInv
<1>6. CASE Find
  <2>1. /\ call' = call /\ pc = "find" /\ pc' = "unlink" /\ tasks' = tasks
        /\ prev' = Predecessor(tasks, call.task)
    BY <1>6 DEF Find, At, Goto, list
  <2> QED
    BY <2>1 DEF CallInv
<1>7. CASE Link \/ Unlink \/ Unlock \/ Release
  <2>1. /\ call' = call /\ pc # "idle" /\ pc' \in {"unlock", "release", "assert", "test"}
    BY <1>7 DEF Link, Unlink, Unlock, Release, At, Goto
  <2> QED
    BY <2>1 DEF CallInv
<1>8. CASE Refuse \/ Test \/ Repend
  <2>1. /\ pc' \in {"idle", "halted", "repend"} /\ pc # "idle"
        /\ pc' # "idle" => call' = call
    BY <1>8 DEF Refuse, Test, Repend, At, Goto, Return
  <2> QED
    BY <2>1 DEF CallInv
<1>9. CASE StartStop \/ Overflow \/ EnterPended \/ Postpone \/ Serve \/ Finish
  <2>1. pc' = pc /\ call' = call /\ prev' = prev /\ tasks' = tasks
    BY <1>9 DEF StartStop, Overflow, EnterPended, Postpone, Serve, Finish, program, list
  <2> QED
    BY <2>1 DEF CallInv
<1>10. CASE Run
  <2>1. pc' = pc /\ call' = call /\ serving
    BY <1>10 DEF Run, program
  <2>2. pc \notin Locked
    BY <2>1 DEF LockInv
  <2> QED
    BY <2>1, <2>2 DEF CallInv, Locked
<1> QED
  BY <1>1, <1>2, <1>3, <1>4, <1>5, <1>6, <1>7, <1>8, <1>9, <1>10 DEF Next, Program, Interrupt

\* The tasks that other variables name, and the labels.
LEMMA NamesOK ==
  ASSUME TypeOK, LockInv, CallInv, ListInv, ListInv', CallInv', Next
  PROVE  /\ label' \in [Tasks -> 0..(Wrap - 1)]
         /\ it' \in Tasks \cup {Nobody} /\ prev' \in Tasks \cup {Nobody}
<1> USE TimerAssumption
<1>0. /\ label \in [Tasks -> 0..(Wrap - 1)] /\ it \in Tasks \cup {Nobody}
      /\ prev \in Tasks \cup {Nobody} /\ time \in 0..(Wrap - 1)
  BY DEF TypeOK
<1>1. label' \in [Tasks -> 0..(Wrap - 1)]
  <2>1. CASE Label
    BY <1>0, <2>1 DEF Label
  <2>2. CASE Unlink
    <3>1. label' = [label EXCEPT ![call.task] = 0]
      BY <2>2 DEF Unlink, Forget
    <3>2. 0 \in 0..(Wrap - 1)
      OBVIOUS
    <3> QED
      BY <1>0, <3>1, <3>2
  <2>3. CASE Run
    <3>1. \/ label' = [label EXCEPT ![it] = time]
          \/ label' = [label EXCEPT ![it] = 0]
      BY <2>3, Zenon DEF Run, Forget
    <3>2. 0 \in 0..(Wrap - 1)
      OBVIOUS
    <3> QED
      BY <1>0, <3>1, <3>2
  <2>4. CASE label' = label
    BY <1>0, <2>4
  <2> QED
    BY <2>1, <2>2, <2>3, <2>4, Zenon DEF Next, Program, Interrupt, Begin, Take, Check, Place,
       Link, Find, Unlock, Release, Refuse, Test, Repend, StartStop, Overflow,
       EnterPended, Postpone, Serve, Finish, Quiet, list
<1>2. it' \in Tasks \cup {Nobody}
  <2>1. Head0(tasks) \in Tasks \cup {Nobody} /\ Head0(tasks') \in Tasks \cup {Nobody}
    BY DEF Head0, ListInv
  <2>2. it' = it \/ it' = Head0(tasks) \/ it' = Head0(tasks') \/ it' = Nobody
    BY Zenon DEF Next, Program, Interrupt, Begin, Take, Check, Label, Place,
       Link, Find, Unlink, Unlock, Release, Refuse, Test, Repend, StartStop, Overflow,
       EnterPended, Postpone, Serve, Run, Finish, Quiet, list
  <2> QED
    BY <1>0, <2>1, <2>2
<1>3. prev' \in Tasks \cup {Nobody}
  <2>1. CASE Place \/ Find
    <3>1. tasks' = tasks /\ pc' \in {"link", "unlink"} /\ call' = call
      BY <2>1 DEF Place, Find, Goto, list
    <3>2. CASE pc' = "link"
      BY <3>1, <3>2 DEF CallInv, ListInv
    <3>3. CASE pc' = "unlink"
      <4>1. call.task \in Range(tasks) /\ prev' = Predecessor(tasks, call.task)
        BY <3>1, <3>3 DEF CallInv
      <4>2. prev' \in Range(tasks) \cup {Nobody}
        BY <4>1, DeleteOK DEF ListInv
      <4> QED
        BY <4>2 DEF ListInv
    <3> QED
      BY <3>1, <3>2, <3>3
  <2>2. CASE prev' = prev \/ prev' = Nobody
    BY <1>0, <2>2
  <2> QED
    BY <2>1, <2>2, Zenon DEF Next, Program, Interrupt, Begin, Take, Check, Label, Link, Unlink,
       Unlock, Release, Refuse, Test, Repend, StartStop, Overflow, EnterPended, Postpone, Serve,
       Run, Finish, program
<1> QED
  BY <1>1, <1>2, <1>3

-----------------------------------------------------------------------------
(* The order. *)

\* The order is that of the labels of the tasks in the list, at one time.
LEMMA OrderedSame ==
  ASSUME NEW l \in Seq(Tasks), NEW b \in Int, NEW now \in Times,
         NEW lab \in [Tasks -> Times], NEW lab2 \in [Tasks -> Times],
         Ordered(l, Lefts(lab, now), b), \A x \in Range(l) : lab2[x] = lab[x]
  PROVE  Ordered(l, Lefts(lab2, now), b)
<1> DEFINE v == Lefts(lab, now)
           w == Lefts(lab2, now)
<1>1. v \in [Tasks -> Int] /\ w \in [Tasks -> Int]
  BY LeftsOK
<1>2. \A i \in DOMAIN l : w[l[i]] = v[l[i]] - 0
  <2> SUFFICES ASSUME NEW i \in DOMAIN l PROVE w[l[i]] = v[l[i]] - 0
    OBVIOUS
  <2>1. l[i] \in Tasks /\ lab2[l[i]] = lab[l[i]]
    BY DEF Range
  <2>2. w[l[i]] = Left(l[i], lab2, now) /\ v[l[i]] = Left(l[i], lab, now) /\ v[l[i]] \in Int
    BY <1>1, <2>1, LeftsOK
  <2>3. w[l[i]] = v[l[i]]
    BY <2>1, <2>2 DEF Left
  <2> QED
    BY <2>2, <2>3
<1> HIDE DEF v, w
<1>3. Ordered(l, v, b)
  BY DEF v
<1>4. 0 \in Int /\ b <= b - 0
  OBVIOUS
<1>5. Ordered(l, w, b)
  BY <1>1, <1>2, <1>3, <1>4, OrderedShift
<1> QED
  BY <1>5 DEF w

\* A tick leaves the order; a task that had time left is at most due.
LEMMA OrderedTick ==
  ASSUME NEW l \in Seq(Tasks), NEW now \in Times, NEW lab \in [Tasks -> Times],
         Ordered(l, Lefts(lab, now), 1)
  PROVE  Ordered(l, Lefts(lab, (now + 1) % Wrap), 0)
<1>1. PICK next \in Times : next = (now + 1) % Wrap
  <2>1. now + 1 \in Int /\ Wrap \in Nat \ {0}
    BY TimerAssumption DEF Times
  <2>2. (now + 1) % Wrap \in 0..(Wrap - 1)
    BY <2>1
  <2> QED
    BY <2>2 DEF Times
<1>2. PICK d \in {0, 1} : d = IF now = Wrap - 1 THEN 0 ELSE 1
  OBVIOUS
<1> DEFINE v == Lefts(lab, now)
           w == Lefts(lab, next)
<1>3. v \in [Tasks -> Int] /\ w \in [Tasks -> Int]
  BY LeftsOK
<1>4. \A i \in DOMAIN l : w[l[i]] = v[l[i]] - d
  <2> SUFFICES ASSUME NEW i \in DOMAIN l PROVE w[l[i]] = v[l[i]] - d
    OBVIOUS
  <2>1. l[i] \in Tasks
    OBVIOUS
  <2>2. w[l[i]] = Left(l[i], lab, next) /\ v[l[i]] = Left(l[i], lab, now) /\ v[l[i]] \in Int
    BY <1>3, <2>1, LeftsOK
  <2>3. Left(l[i], lab, now) >= 1
    BY <2>2 DEF Ordered
  <2>4. Left(l[i], lab, next) =
          IF now = Wrap - 1 THEN Left(l[i], lab, now) ELSE Left(l[i], lab, now) - 1
    BY <1>1, <2>1, <2>3, TickOK
  <2> QED
    BY <1>2, <2>2, <2>4
<1> HIDE DEF v, w
<1>5. Ordered(l, v, 1)
  BY DEF v
<1>6. d \in Int /\ 1 \in Int /\ 0 \in Int /\ 0 <= 1 - d
  BY <1>2
<1>7. Ordered(l, w, 0)
  BY <1>3, <1>4, <1>5, <1>6, OrderedShift
<1> QED
  BY <1>1, <1>7 DEF w

\* The line is a list.
LEMMA LineOK ==
  ASSUME TypeOK, CallInv, ListInv
  PROVE  /\ Line \in Seq(Tasks)
         /\ pc = "link" => Range(Line) = Range(tasks) \cup {call.task}
         /\ pc # "link" => Line = tasks
<1>1. CASE pc = "link"
  <2>1. /\ call.task \in Tasks /\ call.task \notin Range(tasks)
        /\ prev \in Range(tasks) \cup {Nobody}
    BY <1>1 DEF CallInv, Calls
  <2> QED
    BY <1>1, <2>1, InsertOK DEF Line, ListInv
<1>2. CASE pc # "link"
  BY <1>2 DEF Line, ListInv
<1> QED
  BY <1>1, <1>2

\* What a step must leave alone to keep the order: time, who is at the list, the
\* line and the labels in it.
LEMMA OrderKept ==
  ASSUME TypeOK, TypeOK', CallInv, ListInv, OrderInv,
         UNCHANGED <<time, serving, missed>>, Line' = Line,
         \A x \in Range(Line) : label'[x] = label[x],
         pc' = "place" /\ ~missed => label'[call'.task] = time'
  PROVE  OrderInv'
<1> SUFFICES ASSUME ~missed PROVE OrderInv'
  BY DEF OrderInv
<1>1. /\ label \in [Tasks -> Times] /\ label' \in [Tasks -> Times] /\ time \in Times
      /\ Line \in Seq(Tasks)
  BY LineOK DEF TypeOK, Times
<1>2. PICK b \in {0, 1} : b = IF serving THEN 0 ELSE 1
  OBVIOUS
<1>3. Ordered(Line, Lefts(label, time), b) /\ b \in Int
  BY <1>2 DEF OrderInv
<1>4. Ordered(Line, Lefts(label', time), b)
  BY <1>1, <1>3, OrderedSame
<1> QED
  BY <1>2, <1>4 DEF OrderInv

\* Before a tick nothing is due, and the interrupt serves until that is so again.
LEMMA OrderTicks ==
  ASSUME TypeOK, TypeOK', LockInv, CallInv, ListInv, OrderInv, Postpone \/ Serve
  PROVE  OrderInv'
<1>1. ~serving /\ time' = (time + 1) % Wrap /\ UNCHANGED <<tasks, label, program>>
  BY DEF Postpone, Serve, Tick, Enter, list
<1>2. /\ label \in [Tasks -> Times] /\ time \in Times /\ time' \in Times
      /\ Line \in Seq(Tasks) /\ Line' = Line
  BY <1>1, LineOK DEF TypeOK, Times, Line, program
<1>3. ~missed => Ordered(Line, Lefts(label, time'), 0)
  <2> SUFFICES ASSUME ~missed PROVE Ordered(Line, Lefts(label, time'), 0)
    OBVIOUS
  <2>1. Ordered(Line, Lefts(label, time), 1)
    BY <1>1 DEF OrderInv
  <2> QED
    BY <1>1, <1>2, <2>1, OrderedTick
<1>4. CASE Serve
  <2>1. serving' /\ missed' = missed /\ flags = {}
    BY <1>4 DEF Serve, Held
  <2>2. pc' = pc /\ pc # "place"
    BY <1>1, <2>1 DEF LockInv, Locked, program
  <2> QED
    BY <1>1, <1>2, <1>3, <2>1, <2>2 DEF OrderInv
<1>5. CASE Postpone
  <2> SUFFICES ASSUME ~missed' PROVE OrderInv'
    BY DEF OrderInv
  <2>1. ~missed /\ DueAt(time') = {} /\ pc # "place" /\ pc' = pc /\ ~serving'
    BY <1>1, <1>5 DEF Postpone, program
  <2>2. \A i \in DOMAIN Line : Lefts(label, time')[Line[i]] >= 1
    <3> SUFFICES ASSUME NEW i \in DOMAIN Line PROVE Lefts(label, time')[Line[i]] >= 1
      OBVIOUS
    <3>1. PICK x \in Tasks : x = Line[i] /\ x \in Range(Line)
      BY <1>2 DEF Range
    <3>2. x \in Range(tasks) \/ (pc = "link" /\ x = call.task)
      BY <3>1, LineOK
    <3>3. ~(Age(x, time') >= Interval[x])
      BY <2>1, <3>2 DEF DueAt
    <3>4. ~((time' - label[x]) % Wrap >= Interval[x])
      BY <3>3 DEF Age
    <3>5. Left(x, label, time') >= 1
      <4>1. /\ label[x] \in Int /\ time' \in Int /\ Interval[x] \in Int /\ Wrap \in Int
        BY <1>2, TimerAssumption DEF Times
      <4>2. CASE label[x] <= time'
        <5>1. /\ (time' - label[x]) % Wrap = time' - label[x]
              /\ Left(x, label, time') = Interval[x] - (time' - label[x])
          BY <1>2, <4>2, LeftAge
        <5> QED
          BY <3>4, <4>1, <5>1
      <4>3. CASE label[x] > time'
        <5>1. /\ (time' - label[x]) % Wrap = time' - label[x] + Wrap
              /\ Left(x, label, time') = Interval[x] - (time' - label[x] + Wrap) + 1
          BY <1>2, <4>3, LeftAge
        <5> QED
          BY <3>4, <4>1, <5>1
      <4> QED
        BY <4>1, <4>2, <4>3
    <3> QED
      BY <1>2, <3>1, <3>5, LeftsOK
  <2>3. Ordered(Line, Lefts(label, time'), 1)
    BY <1>3, <2>1, <2>2 DEF Ordered
  <2> QED
    BY <1>1, <1>2, <2>1, <2>3 DEF OrderInv
<1> QED
  BY <1>4, <1>5

\* A round takes the head, which is due, and puts a repeated task back in order;
\* when the head is not due, nothing is.
LEMMA OrderRounds ==
  ASSUME TypeOK, TypeOK', LockInv, CallInv, ListInv, OrderInv, Run \/ Finish
  PROVE  OrderInv'
<1> SUFFICES ASSUME ~missed' PROVE OrderInv'
  BY DEF OrderInv
<1>1. /\ ~missed /\ serving /\ pc \notin {"link", "place"} /\ UNCHANGED <<pc, time>>
      /\ it = Head0(tasks)
  BY DEF Run, Finish, LockInv, Locked, program, irq
<1>2. /\ Line = tasks /\ Line' = tasks' /\ tasks \in Seq(Tasks) /\ Distinct(tasks)
      /\ label \in [Tasks -> Times] /\ label' \in [Tasks -> Times] /\ time \in Times
      /\ Lefts(label, time) \in [Tasks -> Int]
  BY <1>1, LeftsOK DEF Line, TypeOK, Times, ListInv
<1>3. Ordered(tasks, Lefts(label, time), 0)
  BY <1>1, <1>2 DEF OrderInv
<1>4. CASE Run
  <2>1. tasks # <<>> /\ it = Head(tasks) /\ serving'
    BY <1>1, <1>4 DEF Run, Head0, irq
  <2>2. /\ Tail(tasks) \in Seq(Tasks) /\ Range(Tail(tasks)) = Range(tasks) \ {it}
        /\ Distinct(Tail(tasks)) /\ it \in Tasks
    BY <1>2, <2>1, TailOK
  <2>3. Ordered(Tail(tasks), Lefts(label, time), 0)
    <3>1. /\ Len(Tail(tasks)) = Len(tasks) - 1 /\ Len(tasks) \in Nat \ {0}
          /\ \A j \in 1..Len(Tail(tasks)) : Tail(tasks)[j] = tasks[j + 1]
      BY <1>2, <2>1, HeadTailProperties, EmptySeq
    <3>2. \A j \in 1..Len(Tail(tasks)) :
            Tail(tasks)[j] = IF j <= 0 THEN tasks[j] ELSE tasks[j + 1]
      BY <3>1
    <3>3. Cut(Tail(tasks), tasks, 0) /\ 0 \in 0..(Len(tasks) - 1) /\ 0 \in Int
      BY <2>2, <3>1, <3>2 DEF Cut
    <3> QED
      BY <1>2, <1>3, <3>3, OrderedCut
  <2>4. \A x \in Range(Tail(tasks)) : label'[x] = label[x]
    <3>1. \E t : label' = [label EXCEPT ![it] = t]
      BY <1>4 DEF Run, Forget
    <3> QED
      BY <1>2, <2>2, <3>1
  <2>5. Ordered(Tail(tasks), Lefts(label', time), 0)
    <3>1. 0 \in Int
      OBVIOUS
    <3> QED
      BY <1>2, <2>2, <2>3, <2>4, <3>1, OrderedSame
  <2>6. Ordered(tasks', Lefts(label', time), 0)
    <3>1. CASE it \in Repeat
      <4>1. /\ tasks' = InsertAfter(Tail(tasks), Before(Tail(tasks), label', it, time), it)
            /\ label'[it] = time
        BY <1>2, <1>4, <2>2, <3>1 DEF Run
      <4>2. 0 \in {0, 1}
        OBVIOUS
      <4> QED
        BY <1>2, <2>2, <2>5, <4>1, <4>2, PlaceOrdered
    <3>2. CASE it \notin Repeat
      BY <1>4, <2>5, <3>2 DEF Run
    <3> QED
      BY <3>1, <3>2
  <2> QED
    BY <1>1, <1>2, <2>1, <2>6 DEF OrderInv
<1>5. CASE Finish
  <2>1. tasks' = tasks /\ label' = label /\ ~serving' /\ ~(it # Nobody /\ Expired(it))
    BY <1>5 DEF Finish
  <2> DEFINE v == Lefts(label, time)
  <2>2. \A i \in DOMAIN tasks : v[tasks[i]] >= 1
    <3> SUFFICES ASSUME NEW i \in DOMAIN tasks PROVE v[tasks[i]] >= 1
      OBVIOUS
    <3>1. tasks # <<>> /\ 1 \in DOMAIN tasks /\ Head(tasks) = tasks[1] /\ tasks[1] \in Tasks
      BY <1>2
    <3>2. it = tasks[1] /\ it # Nobody
      BY <1>1, <3>1, TimerAssumption DEF Head0
    <3>3. ~((time - label[it]) % Wrap >= Interval[it])
      BY <2>1, <3>2 DEF Expired, Age
    <3>4. Left(it, label, time) >= 1
      <4>1. /\ label[it] \in Int /\ time \in Int /\ Interval[it] \in Int /\ Wrap \in Int
        BY <1>2, <3>1, <3>2, TimerAssumption DEF Times
      <4>2. CASE label[it] <= time
        <5>1. /\ (time - label[it]) % Wrap = time - label[it]
              /\ Left(it, label, time) = Interval[it] - (time - label[it])
          BY <1>2, <3>1, <3>2, <4>2, LeftAge
        <5> QED
          BY <3>3, <4>1, <5>1
      <4>3. CASE label[it] > time
        <5>1. /\ (time - label[it]) % Wrap = time - label[it] + Wrap
              /\ Left(it, label, time) = Interval[it] - (time - label[it] + Wrap) + 1
          BY <1>2, <3>1, <3>2, <4>3, LeftAge
        <5> QED
          BY <3>3, <4>1, <5>1
      <4> QED
        BY <4>1, <4>2, <4>3
    <3>5. v[tasks[1]] >= 1
      BY <1>2, <3>1, <3>2, <3>4, LeftsOK
    <3>6. i = 1 \/ 1 < i
      BY <1>2
    <3>7. 1 < i => v[tasks[1]] <= v[tasks[i]]
      BY <1>3, <3>1 DEF Ordered
    <3>8. v[tasks[1]] \in Int /\ v[tasks[i]] \in Int
      BY <1>2, <3>1
    <3> HIDE DEF v
    <3> QED
      BY <3>5, <3>6, <3>7, <3>8
  <2>3. Ordered(tasks, v, 1)
    BY <1>3, <2>2 DEF Ordered
  <2> QED
    BY <1>1, <1>2, <2>1, <2>3 DEF OrderInv
<1> QED
  BY <1>4, <1>5

\* A call labels its task, finds its place and links it there; ticks in between
\* move nothing in the list, and a task it takes out leaves the others in order.
LEMMA OrderCalls ==
  ASSUME TypeOK, TypeOK', CallInv, ListInv, OrderInv, Label \/ Place \/ Link \/ Unlink
  PROVE  OrderInv'
<1>0. /\ ~serving /\ UNCHANGED <<time, serving, missed>> /\ call \in Calls
      /\ tasks \in Seq(Tasks) /\ Distinct(tasks)
      /\ label \in [Tasks -> Times] /\ label' \in [Tasks -> Times] /\ time \in Times
  BY DEF Label, Place, Link, Unlink, At, Quiet, irq, CallInv, ListInv, TypeOK, Times
<1>1. CASE Label
  <2>1. /\ pc = "label" /\ pc' = "place" /\ label' = [label EXCEPT ![call.task] = time]
        /\ UNCHANGED <<tasks, call>>
    BY <1>1 DEF Label, At, Goto
  <2>2. Line = tasks /\ Line' = tasks /\ call.task \notin Range(tasks) /\ call.task \in Tasks
    BY <1>0, <2>1 DEF Line, CallInv, Calls
  <2>3. \A x \in Range(Line) : label'[x] = label[x]
    BY <1>0, <2>1, <2>2
  <2>4. label'[call'.task] = time'
    BY <1>0, <2>1, <2>2
  <2> QED
    BY <1>0, <2>2, <2>3, <2>4, OrderKept
<1>2. CASE Place
  <2> SUFFICES ASSUME ~missed' PROVE OrderInv'
    BY DEF OrderInv
  <2>1. /\ pc = "place" /\ pc' = "link" /\ prev' = Before(tasks, label, call.task, time)
        /\ UNCHANGED <<tasks, label, call>>
    BY <1>2 DEF Place, At, Goto, list
  <2>2. Line = tasks /\ Line' = InsertAfter(tasks, Before(tasks, label, call.task, time), call.task)
    BY <2>1 DEF Line
  <2>3. Ordered(tasks, Lefts(label, time), 1) /\ label[call.task] = time /\ call.task \in Tasks
    BY <1>0, <2>1, <2>2 DEF OrderInv, Calls
  <2>4. 1 \in {0, 1}
    OBVIOUS
  <2>5. Ordered(Line', Lefts(label, time), 1)
    BY <1>0, <2>2, <2>3, <2>4, PlaceOrdered
  <2> QED
    BY <1>0, <2>1, <2>5 DEF OrderInv
<1>3. CASE Link
  <2>1. /\ pc = "link" /\ pc' = "unlock" /\ tasks' = InsertAfter(tasks, prev, call.task)
        /\ label' = label
    BY <1>3 DEF Link, At, Goto
  <2>2. Line' = Line
    BY <2>1 DEF Line
  <2> QED
    BY <1>0, <2>1, <2>2, OrderKept
<1>4. CASE Unlink
  <2> SUFFICES ASSUME ~missed' PROVE OrderInv'
    BY DEF OrderInv
  <2>1. /\ pc = "unlink" /\ pc' = "unlock" /\ tasks' = DeleteAfter(tasks, prev)
        /\ label' = [label EXCEPT ![call.task] = 0]
    BY <1>4 DEF Unlink, At, Goto, Forget
  <2>2. Line = tasks /\ Line' = tasks' /\ Lefts(label, time) \in [Tasks -> Int]
    BY <1>0, <2>1, LeftsOK DEF Line
  <2>3. call.task \in Range(tasks) /\ prev = Predecessor(tasks, call.task)
    BY <2>1 DEF CallInv
  <2>4. /\ tasks' \in Seq(Tasks) /\ Range(tasks') = Range(tasks) \ {call.task}
        /\ \E k \in 0..(Len(tasks) - 1) : Cut(tasks', tasks, k)
    BY <1>0, <2>1, <2>3, DeleteOK, DeleteWhere
  <2>5. Ordered(tasks, Lefts(label, time), 1) /\ 1 \in Int
    BY <1>0, <2>2 DEF OrderInv
  <2>6. Ordered(tasks', Lefts(label, time), 1)
    BY <1>0, <2>2, <2>4, <2>5, OrderedCut
  <2>7. \A x \in Range(tasks') : label'[x] = label[x]
    BY <1>0, <2>1, <2>4
  <2>8. Ordered(tasks', Lefts(label', time), 1)
    BY <1>0, <2>4, <2>5, <2>6, <2>7, OrderedSame
  <2> QED
    BY <1>0, <2>1, <2>2, <2>8 DEF OrderInv
<1> QED
  BY <1>1, <1>2, <1>3, <1>4

\* Every step keeps the order.
LEMMA OrderOK ==
  ASSUME TypeOK, TypeOK', LockInv, CallInv, ListInv, OrderInv, Next
  PROVE  OrderInv'
<1>1. CASE Begin \/ Take \/ Check \/ Find \/ Unlock \/ Release \/ Refuse \/ Test \/ Repend
  <2>1. /\ UNCHANGED <<time, serving, missed, tasks, label>>
        /\ pc # "link" /\ pc' \notin {"link", "place"}
    BY <1>1 DEF Begin, Take, Check, Find, Unlock, Release, Refuse, Test, Repend, At, Goto, Return,
                Quiet, irq, list
  <2>2. Line' = Line
    BY <2>1 DEF Line
  <2> QED
    BY <2>1, <2>2, OrderKept
<1>2. CASE StartStop \/ Overflow \/ EnterPended
  <2>1. UNCHANGED <<time, serving, missed, tasks, label, pc, call, prev>>
    BY <1>2 DEF StartStop, Overflow, EnterPended, list, irq, program
  <2>2. Line' = Line
    BY <2>1 DEF Line
  <2> QED
    BY <2>1, <2>2, OrderKept DEF OrderInv
<1> QED
  BY <1>1, <1>2, OrderCalls, OrderTicks, OrderRounds DEF Next, Program, Interrupt

\* The invariant is inductive.
LEMMA StepOK == IInv /\ [Next]_vars => IInv'
<1> SUFFICES ASSUME IInv, [Next]_vars PROVE IInv'
  OBVIOUS
<1>0. TypeOK /\ LockInv /\ CallInv /\ FlagInv /\ NoneLost /\ ListInv /\ OrderInv
  BY ListIsNoneLost DEF IInv
<1>1. CASE Next
  <2>1. LockInv' /\ FlagInv' /\ ListInv' /\ CallInv'
    BY <1>0, <1>1, LockOK, FlagOK, ListOK, CallOK
  <2>2. TypeOK'
    <3>1. tasks' \in Seq(Tasks) /\ registered' \subseteq Tasks
      BY <2>1 DEF ListInv
    <3> QED
      BY <1>0, <1>1, <2>1, <3>1, SwitchesOK, ClockOK, ProgramOK, NamesOK, Zenon DEF TypeOK
  <2>3. NoneLost'
    BY <2>1 DEF NoneLost, ListInv, Distinct
  <2>4. OrderInv'
    BY <1>0, <1>1, <2>2, OrderOK
  <2> QED
    BY <2>1, <2>2, <2>3, <2>4 DEF IInv
<1>2. CASE UNCHANGED vars
  <2>1. TypeOK'
    BY <1>0, <1>2 DEF TypeOK, vars, list, irq, program
  <2>2. LockInv' /\ CallInv' /\ FlagInv' /\ NoneLost'
    BY <1>0, <1>2 DEF LockInv, CallInv, FlagInv, StuckOnlyAfterRefusal, NoneLost, Head0,
       vars, list, irq, program
  <2>3. OrderInv'
    <3>1. UNCHANGED <<time, serving, missed, tasks, label, pc, call, prev>>
      BY <1>2 DEF vars, list, irq, program
    <3>2. Line' = Line
      BY <3>1 DEF Line
    <3> QED
      BY <1>0, <2>1, <3>1, <3>2, OrderKept DEF OrderInv
  <2> QED
    BY <2>1, <2>2, <2>3 DEF IInv
<1> QED
  BY <1>1, <1>2

LEMMA Invariance == Spec => []IInv
<1>1. IInv /\ [Next]_vars => IInv'
  BY StepOK
<1> QED
  BY InitOK, <1>1, PTL DEF Spec

-----------------------------------------------------------------------------
\* Every variable keeps to its values: time to its width, the list to the tasks.
THEOREM Types == Spec => []TypeOK
<1>1. IInv => TypeOK
  BY DEF IInv
<1> QED
  BY Invariance, <1>1, PTL

\* No task is lost and none runs after its removal, however calls and ticks cut
\* each other.
THEOREM TasksKept == Spec => []NoneLost
<1>1. IInv => NoneLost
  BY DEF IInv
<1> QED
  BY Invariance, <1>1, PTL

\* Only a refused call leaves the interrupt postponed for good.
THEOREM StuckOnlyIfRefused == Spec => []StuckOnlyAfterRefusal
<1>1. IInv => StuckOnlyAfterRefusal
  BY DEF IInv, FlagInv
<1> QED
  BY Invariance, <1>1, PTL

\* However calls and ticks cut each other, a task of the list runs at most one
\* tick late, as long as no tick that made one due was postponed: the wrap of
\* time disturbs the order of the list by that tick and no more.
THEOREM TasksOnTime == Spec => []OnTime
<1>1. IInv => OnTime
  <2> SUFFICES ASSUME IInv, ~missed, ~serving, NEW x \in Range(tasks)
               PROVE  Age(x, time) <= Interval[x]
    BY DEF OnTime
  <2>1. /\ TypeOK /\ CallInv /\ ListInv /\ Ordered(Line, Lefts(label, time), 1)
        /\ label \in [Tasks -> Times] /\ time \in Times
    BY ListIsNoneLost DEF IInv, OrderInv, TypeOK, Times
  <2>2. Line \in Seq(Tasks) /\ x \in Range(Line)
    BY <2>1, LineOK
  <2>3. x \in Tasks /\ Left(x, label, time) >= 1
    <3>1. PICK i \in DOMAIN Line : x = Line[i] /\ Line[i] \in Tasks
      BY <2>2 DEF Range
    <3> QED
      BY <2>1, <3>1, LeftsOK DEF Ordered
  <2>4. (time - label[x]) % Wrap <= Interval[x]
    <3>1. /\ label[x] \in Int /\ time \in Int /\ Interval[x] \in Int /\ Wrap \in Int
      BY <2>1, <2>3, TimerAssumption DEF Times
    <3>2. CASE label[x] <= time
      <4>1. /\ (time - label[x]) % Wrap = time - label[x]
            /\ Left(x, label, time) = Interval[x] - (time - label[x])
        BY <2>1, <2>3, <3>2, LeftAge
      <4> QED
        BY <2>3, <3>1, <4>1
    <3>3. CASE label[x] > time
      <4>1. /\ (time - label[x]) % Wrap = time - label[x] + Wrap
            /\ Left(x, label, time) = Interval[x] - (time - label[x] + Wrap) + 1
        BY <2>1, <2>3, <3>3, LeftAge
      <4> QED
        BY <2>3, <3>1, <4>1
    <3> QED
      BY <3>1, <3>2, <3>3
  <2> QED
    BY <2>4 DEF Age
<1> QED
  BY Invariance, <1>1, PTL
=============================================================================
