--------------------------- MODULE BoardLanesProofs ---------------------------
(***************************************************************************)
(* The lanes of the workers and the archive, when assign alone fills the   *)
(* lanes and nobody edits the documents.                                   *)
(***************************************************************************)
EXTENDS BoardProofs, FiniteSetTheorems, SequenceTheorems, WellFoundedInduction

-----------------------------------------------------------------------------
(* Lines, and the sequences of them that the commands make.                *)

LEMMA LeastNatural ==
    ASSUME NEW S, S \subseteq Nat, S # {}
    PROVE  \E x \in S : \A y \in S : x <= y
<1> DEFINE R == {p \in Nat \X Nat : p[1] < p[2]}
<1>1. R = OpToRel(<, Nat)
  BY DEF OpToRel
<1>2. IsWellFoundedOn(R, Nat)
  BY <1>1, NatLessThanWellFounded
<1>3. \A x, y \in Nat : <<y, x>> \in R <=> y < x
  OBVIOUS
<1> HIDE DEF R
<1>4. \A U : U \subseteq Nat /\ U # {} => \E x \in U : \A y \in U : ~(<<y, x>> \in R)
  BY <1>2, WFMin, Zenon
<1>5. PICK x \in S : \A y \in S : ~(<<y, x>> \in R)
  BY <1>4
<1>6. ASSUME NEW y \in S PROVE x <= y
  <2>1. x \in Nat /\ y \in Nat
    OBVIOUS
  <2>2. ~(<<y, x>> \in R)
    BY <1>5
  <2>3. ~(y < x)
    BY <1>3, <2>1, <2>2
  <2> QED
    BY <2>1, <2>3
<1> QED
  BY <1>6

\* A set of positions has a first and a last one.
LEMMA FirstAndLast ==
    ASSUME NEW n \in Nat, NEW S, S \subseteq 1 .. n, S # {}
    PROVE  /\ Min(S) \in S /\ \A k \in S : Min(S) <= k
           /\ Max(S) \in S /\ \A k \in S : Max(S) >= k
<1>1. \E x \in S : \A y \in S : x <= y
  <2>1. S \subseteq Nat
    OBVIOUS
  <2> QED
    BY <2>1, LeastNatural
<1>2. \E x \in S : \A y \in S : x >= y
  <2>1. \A k \in S : k \in Nat /\ n - k \in Nat
    OBVIOUS
  <2>2. {n - k : k \in S} \subseteq Nat /\ {n - k : k \in S} # {}
    BY <2>1
  <2>3. PICK x \in {n - k : k \in S} : \A y \in {n - k : k \in S} : x <= y
    BY <2>2, LeastNatural
  <2>4. PICK k \in S : x = n - k
    BY <2>3
  <2>5. ASSUME NEW y \in S PROVE k >= y
    <3>1. x <= n - y
      BY <2>3
    <3> QED
      BY <2>1, <2>4, <3>1
  <2> QED
    BY <2>5
<1> QED
  BY <1>1, <1>2 DEF Min, Max

LEMMA Joined ==
    ASSUME NEW S, NEW a \in Seq(S), NEW b \in Seq(S)
    PROVE  a \o b \in Seq(S) /\ Range(a \o b) = Range(a) \cup Range(b)
<1>1. a \o b \in Seq(S)
  BY ConcatProperties, Zenon
<1>2. Range(a \o b) = Range(a) \cup Range(b)
  BY RangeConcatenation, Zenon
<1> QED
  BY <1>1, <1>2

LEMMA JustOne == ASSUME NEW S, NEW e \in S PROVE <<e>> \in Seq(S) /\ Range(<<e>>) = {e}
BY DEF Range

\* A sequence is what comes before a position and what comes from there on.
LEMMA Split ==
    ASSUME NEW S, NEW s \in Seq(S), NEW i \in 1 .. Len(s) + 1
    PROVE  /\ SubSeq(s, 1, i - 1) \in Seq(S)
           /\ Range(SubSeq(s, 1, i - 1)) = {s[k] : k \in 1 .. i - 1}
           /\ SubSeq(s, i, Len(s)) \in Seq(S)
           /\ Range(SubSeq(s, i, Len(s))) = {s[k] : k \in i .. Len(s)}
<1>1. i \in Nat /\ Len(s) \in Nat /\ \A k \in 1 .. Len(s) : s[k] \in S
  BY LenProperties
<1>2. ASSUME NEW m \in Nat \ {0}, NEW n \in Nat, n <= Len(s)
      PROVE  /\ SubSeq(s, m, n) \in Seq(S)
             /\ Range(SubSeq(s, m, n)) = {s[k] : k \in m .. n}
  <2>1. \A k \in m .. n : s[k] \in S
    BY <1>1, <1>2
  <2>2. /\ SubSeq(s, m, n) \in Seq(S)
        /\ Len(SubSeq(s, m, n)) = IF m <= n THEN n - m + 1 ELSE 0
        /\ \A k \in 1 .. n - m + 1 : SubSeq(s, m, n)[k] = s[m + k - 1]
    BY <2>1, SubSeqProperties
  <2> DEFINE b == SubSeq(s, m, n)
  <2>3. DOMAIN b = 1 .. n - m + 1
    BY <2>2, LenProperties
  <2>4. \A k \in 1 .. n - m + 1 : b[k] = s[m + k - 1]
    BY <2>2
  <2> HIDE DEF b
  <2>5. ASSUME NEW k \in m .. n PROVE s[k] \in Range(b)
    <3>1. k - m + 1 \in 1 .. n - m + 1 /\ m + (k - m + 1) - 1 = k
      OBVIOUS
    <3>2. b[k - m + 1] = s[k]
      BY <2>4, <3>1
    <3> QED
      BY <2>3, <3>1, <3>2 DEF Range
  <2>6. ASSUME NEW k \in 1 .. n - m + 1 PROVE b[k] \in {s[j] : j \in m .. n}
    <3>1. m + k - 1 \in m .. n
      OBVIOUS
    <3> QED
      BY <2>4, <3>1
  <2>7. Range(b) = {b[k] : k \in 1 .. n - m + 1}
    BY <2>3 DEF Range
  <2>8. Range(b) = {s[k] : k \in m .. n}
    <3> DEFINE T == {s[k] : k \in m .. n}
               R == Range(b)
    <3>1. \A x \in T : x \in R
      BY <2>5
    <3>2. \A x \in R : x \in T
      BY <2>6, <2>7
    <3> HIDE DEF T, R
    <3>3. R = T
      BY <3>1, <3>2
    <3> QED
      BY <3>3 DEF T, R
  <2> QED
    BY <2>2, <2>8 DEF b
<1>3. i - 1 \in Nat /\ i - 1 <= Len(s) /\ i \in Nat \ {0}
  BY <1>1
<1> QED
  BY <1>1, <1>2, <1>3

LEMMA JustTwo ==
    ASSUME NEW S, NEW e \in S, NEW f \in S
    PROVE  <<e, f>> \in Seq(S) /\ Range(<<e, f>>) = {e, f}
BY DEF Range

LEMMA RemovedAt ==
    ASSUME NEW S, NEW s \in Seq(S), NEW i \in DOMAIN s
    PROVE  /\ RemoveAt(s, i) \in Seq(S)
           /\ Range(RemoveAt(s, i)) \subseteq Range(s)
           /\ \A k \in DOMAIN s \ {i} : s[k] \in Range(RemoveAt(s, i))
<1> DEFINE a == SubSeq(s, 1, i - 1)
           b == SubSeq(s, i + 1, Len(s))
<1>1. DOMAIN s = 1 .. Len(s) /\ Len(s) \in Nat
  BY LenProperties
<1>2. i \in 1 .. Len(s) + 1 /\ i + 1 \in 1 .. Len(s) + 1
  BY <1>1
<1>3. a \in Seq(S) /\ b \in Seq(S)
  BY <1>2, Split
<1>4. /\ Range(a) = {s[k] : k \in 1 .. i - 1}
      /\ Range(b) = {s[k] : k \in i + 1 .. Len(s)}
  BY <1>2, Split
<1>5. RemoveAt(s, i) = a \o b
  BY DEF RemoveAt
<1> HIDE DEF a, b
<1>6. a \o b \in Seq(S) /\ Range(a \o b) = Range(a) \cup Range(b)
  BY <1>3, Joined
<1>7. \A k \in 1 .. Len(s) : k # i => k \in 1 .. i - 1 \/ k \in i + 1 .. Len(s)
  BY <1>1
<1>8. 1 .. i - 1 \subseteq DOMAIN s /\ i + 1 .. Len(s) \subseteq DOMAIN s
  BY <1>1
<1>9. Range(s) = {s[k] : k \in DOMAIN s}
  BY DEF Range
<1> QED
  BY <1>1, <1>4, <1>5, <1>6, <1>7, <1>8, <1>9

LEMMA InsertedAt ==
    ASSUME NEW S, NEW s \in Seq(S), NEW i \in 1 .. Len(s) + 1, NEW e \in S
    PROVE  /\ InsertAt(s, i, e) \in Seq(S)
           /\ Range(InsertAt(s, i, e)) = Range(s) \cup {e}
<1> DEFINE a == SubSeq(s, 1, i - 1)
           b == SubSeq(s, i, Len(s))
           ae == a \o <<e>>
<1>1. DOMAIN s = 1 .. Len(s) /\ Len(s) \in Nat
  BY LenProperties
<1>2. a \in Seq(S) /\ b \in Seq(S)
  BY Split
<1>3. /\ Range(a) = {s[k] : k \in 1 .. i - 1}
      /\ Range(b) = {s[k] : k \in i .. Len(s)}
  BY Split
<1>4. InsertAt(s, i, e) = ae \o b
  BY DEF InsertAt
<1> HIDE DEF a, b
<1>5. ae \in Seq(S) /\ Range(ae) = Range(a) \cup {e}
  <2>1. <<e>> \in Seq(S) /\ Range(<<e>>) = {e}
    BY JustOne
  <2>2. a \o <<e>> \in Seq(S) /\ Range(a \o <<e>>) = Range(a) \cup Range(<<e>>)
    BY <1>2, <2>1, Joined
  <2> QED
    BY <2>1, <2>2
<1> HIDE DEF ae
<1>6. ae \o b \in Seq(S) /\ Range(ae \o b) = Range(ae) \cup Range(b)
  BY <1>2, <1>5, Joined
<1>7. 1 .. Len(s) = (1 .. i - 1) \cup (i .. Len(s))
  BY <1>1
<1>8. Range(s) = {s[k] : k \in 1 .. Len(s)}
  BY <1>1 DEF Range
<1>9. Range(s) = Range(a) \cup Range(b)
  BY <1>3, <1>7, <1>8
<1> QED
  BY <1>4, <1>5, <1>6, <1>9

LEMMA Appended ==
    ASSUME NEW S, NEW s \in Seq(S), NEW e \in S
    PROVE  /\ Append(s, e) \in Seq(S)
           /\ Range(Append(s, e)) = Range(s) \cup {e}
<1>1. <<e>> \in Seq(S) /\ Range(<<e>>) = {e}
  BY JustOne
<1>2. Append(s, e) = s \o <<e>>
  BY AppendIsConcat, Zenon
<1>3. /\ Append(s, e) \in Seq(S)
      /\ Range(Append(s, e)) = Range(s) \cup {e}
  <2>1. s \o <<e>> \in Seq(S) /\ Range(s \o <<e>>) = Range(s) \cup Range(<<e>>)
    BY <1>1, Joined, Zenon
  <2> QED
    BY <1>1, <1>2, <2>1, Zenon
<1> QED
  BY <1>3

\* Every position kept has its rank among those kept, and every rank is taken.
LEMMA Ranked ==
    ASSUME NEW n \in Nat, NEW P, P \subseteq 1 .. n
    PROVE  /\ IsFiniteSet(P) /\ Cardinality(P) \in Nat
           /\ \A m \in 1 .. Cardinality(P) :
                 \E i \in P : Cardinality({k \in P : k <= i}) = m
           /\ \A i \in P : Cardinality({k \in P : k <= i}) \in 1 .. Cardinality(P)
           /\ \A i, j \in P : i < j =>
                 Cardinality({k \in P : k <= i}) < Cardinality({k \in P : k <= j})
<1> DEFINE upto(i) == {k \in P : k <= i}
           c == Cardinality(P)
           f == [i \in P |-> Cardinality(upto(i))]
<1>1. IsFiniteSet(1 .. n)
  BY FS_Interval
<1>2. IsFiniteSet(P) /\ c \in Nat
  BY <1>1, FS_Subset, FS_CardinalityType
<1>3. ASSUME NEW i \in P
      PROVE  IsFiniteSet(upto(i)) /\ Cardinality(upto(i)) \in 1 .. c
  <2>1. upto(i) \in SUBSET P
    OBVIOUS
  <2>2. IsFiniteSet(upto(i)) /\ Cardinality(upto(i)) <= c
    BY <1>2, <2>1, FS_Subset
  <2>3. Cardinality(upto(i)) \in Nat
    BY <2>2, FS_CardinalityType
  <2>4. i \in upto(i)
    OBVIOUS
  <2>5. Cardinality(upto(i)) # 0
    BY <2>2, <2>4, FS_EmptySet
  <2> HIDE DEF upto, c
  <2> QED
    BY <1>2, <2>2, <2>3, <2>5
<1> HIDE DEF upto, c
<1>4. ASSUME NEW i \in P, NEW j \in P, i < j
      PROVE  Cardinality(upto(i)) < Cardinality(upto(j))
  <2>1. upto(i) \in SUBSET upto(j) /\ j \in upto(j) /\ j \notin upto(i)
    <3>1. \A k \in P : k \in Int
      OBVIOUS
    <3>2. \A k \in P : k <= i => k <= j
      BY <1>4, <3>1
    <3>3. j <= j /\ ~(j <= i)
      BY <1>4, <3>1
    <3> QED
      BY <3>2, <3>3 DEF upto
  <2>2. Cardinality(upto(i)) \in 1 .. c
    BY <1>3
  <2>3. IsFiniteSet(upto(j)) /\ Cardinality(upto(j)) \in 1 .. c
    BY <1>3
  <2>4. /\ Cardinality(upto(i)) <= Cardinality(upto(j))
        /\ Cardinality(upto(j)) = Cardinality(upto(i)) => upto(j) = upto(i)
    BY <2>1, <2>3, FS_Subset
  <2> QED
    BY <1>2, <2>1, <2>2, <2>3, <2>4
<1>5. f \in [P -> 1 .. c] /\ \A i \in P : f[i] = Cardinality(upto(i))
  BY <1>3
<1> HIDE DEF f
<1>6. ASSUME NEW i \in P, NEW j \in P, f[i] = f[j] PROVE i = j
  <2>1. i \in Nat /\ j \in Nat /\ f[i] \in 1 .. c /\ f[j] \in 1 .. c
    BY <1>5
  <2>2. ASSUME i < j PROVE FALSE
    <3>1. f[i] < f[j]
      BY <1>4, <1>5, <2>2
    <3> QED
      BY <1>2, <1>6, <2>1, <3>1
  <2>3. ASSUME j < i PROVE FALSE
    <3>1. f[j] < f[i]
      BY <1>4, <1>5, <2>3
    <3> QED
      BY <1>2, <1>6, <2>1, <3>1
  <2> QED
    BY <2>1, <2>2, <2>3
<1>7. f \in Injection(P, 1 .. c)
  BY <1>5, <1>6 DEF Injection, IsInjective
<1>8. IsFiniteSet(1 .. c) /\ Cardinality(1 .. c) = c
  BY <1>2, FS_Interval
<1>9. f \in Surjection(P, 1 .. c)
  BY <1>7, <1>8, FS_Injection DEF c
<1>10. \A m \in 1 .. c : \E i \in P : Cardinality(upto(i)) = m
  BY <1>5, <1>9 DEF Surjection
<1> QED
  BY <1>2, <1>3, <1>4, <1>10 DEF upto, c

LEMMA Kept ==
    ASSUME NEW S, NEW s \in Seq(S), NEW P, P \subseteq DOMAIN s
    PROVE  /\ Keep(s, P) \in Seq(S)
           /\ Range(Keep(s, P)) = {s[i] : i \in P}
<1> DEFINE rank(i) == Cardinality({k \in P : k <= i})
           c == Cardinality(P)
           nth(m) == CHOOSE i \in P : rank(i) = m
<1>1. DOMAIN s = 1 .. Len(s) /\ Len(s) \in Nat /\ \A k \in 1 .. Len(s) : s[k] \in S
  BY LenProperties
<1>2. /\ c \in Nat
      /\ \A m \in 1 .. c : \E i \in P : rank(i) = m
      /\ \A i \in P : rank(i) \in 1 .. c
      /\ \A i, j \in P : i < j => rank(i) < rank(j)
  BY <1>1, Ranked
<1>3. Keep(s, P) = [m \in 1 .. c |-> s[nth(m)]]
  BY DEF Keep
<1> HIDE DEF rank, c
<1>4. \A m \in 1 .. c : nth(m) \in P /\ rank(nth(m)) = m
  BY <1>2
<1>5. \A i \in P : nth(rank(i)) = i
  <2> SUFFICES ASSUME NEW i \in P PROVE nth(rank(i)) = i
    OBVIOUS
  <2>1. rank(i) \in 1 .. c
    BY <1>2
  <2>2. nth(rank(i)) \in P /\ rank(nth(rank(i))) = rank(i)
    BY <1>4, <2>1
  <2> HIDE DEF nth
  <2>3. ~(nth(rank(i)) < i) /\ ~(i < nth(rank(i)))
    BY <1>2, <2>1, <2>2
  <2> QED
    BY <1>1, <2>2, <2>3
<1> HIDE DEF nth
<1>6. \A m \in 1 .. c : s[nth(m)] \in S
  BY <1>1, <1>4
<1>7. Keep(s, P) \in Seq(S)
  BY <1>2, <1>3, <1>6, SeqDef
<1>8. Range(Keep(s, P)) = {s[nth(m)] : m \in 1 .. c}
  BY <1>3 DEF Range
<1>9. {s[nth(m)] : m \in 1 .. c} = {s[i] : i \in P}
  BY <1>2, <1>4, <1>5
<1> QED
  BY <1>7, <1>8, <1>9

-----------------------------------------------------------------------------
(* Documents, by the lines that are in them.                               *)

LEMMA LineKinds ==
    ASSUME NEW x \in Line
    PROVE  /\ x.kind = "task" <=> x \in Task
           /\ x.kind = "section" <=> \E s \in Sections : x = Heading(s)
           /\ x.kind = "ask" <=> \E i \in TaskIds : x = Ask(i)
<1>1. \A y \in Task : y.kind = "task"
  BY DEF Task
<1>2. Top.kind = "top" /\ \A s : Heading(s).kind = "section" /\ Ask(s).kind = "ask"
  BY DEF Top, Heading, Ask
<1>3. CASE x = Top
  BY <1>1, <1>2, <1>3
<1>4. CASE \E s \in Sections : x = Heading(s)
  BY <1>1, <1>2, <1>4
<1>5. CASE \E i \in TaskIds : x = Ask(i)
  BY <1>1, <1>2, <1>5
<1>6. CASE x \in Task
  BY <1>1, <1>2, <1>6
<1> QED
  BY <1>3, <1>4, <1>5, <1>6 DEF Line

LEMMA DocumentLines ==
    ASSUME NEW doc \in Document
    PROVE  /\ DOMAIN doc = 1 .. Len(doc) /\ Len(doc) \in Nat
           /\ \A i \in DOMAIN doc : doc[i] \in Line
           /\ Range(doc) = {doc[i] : i \in DOMAIN doc} /\ Range(doc) \subseteq Line
<1>1. DOMAIN doc = 1 .. Len(doc) /\ Len(doc) \in Nat /\ \A i \in 1 .. Len(doc) : doc[i] \in Line
  BY LenProperties DEF Document
<1> QED
  BY <1>1 DEF Range

\* Which tasks, headings and questions a document has does not depend on the order.
LEMMA ByRange ==
    ASSUME NEW doc \in Document
    PROVE  /\ TasksIn(doc) = Range(doc) \cap Task
           /\ Headings(doc) = {s \in Sections : Heading(s) \in Range(doc)}
           /\ IdsIn(doc) = {x.id : x \in TasksIn(doc)}
<1>1. /\ \A i \in DOMAIN doc : doc[i] \in Line
      /\ Range(doc) = {doc[i] : i \in DOMAIN doc}
  BY DocumentLines
<1>2. TasksIn(doc) = Range(doc) \cap Task
  <2>1. \A i \in DOMAIN doc : doc[i].kind = "task" <=> doc[i] \in Task
    BY <1>1, LineKinds
  <2>2. Blocks(doc) = {i \in DOMAIN doc : doc[i] \in Task}
    BY <2>1 DEF Blocks, OfKind
  <2> QED
    BY <1>1, <2>2 DEF TasksIn
<1>3. Headings(doc) = {s \in Sections : Heading(s) \in Range(doc)}
  <2>1. ASSUME NEW i \in OfKind(doc, "section")
        PROVE  doc[i].name \in Sections /\ Heading(doc[i].name) \in Range(doc)
    <3>1. i \in DOMAIN doc /\ doc[i].kind = "section" /\ doc[i] \in Line
      BY <1>1 DEF OfKind
    <3>2. PICK s \in Sections : doc[i] = Heading(s)
      BY <3>1, LineKinds
    <3>3. doc[i].name = s
      BY <3>2 DEF Heading
    <3> QED
      BY <1>1, <3>1, <3>2, <3>3
  <2>2. ASSUME NEW s \in Sections, Heading(s) \in Range(doc) PROVE s \in Headings(doc)
    <3>1. PICK i \in DOMAIN doc : doc[i] = Heading(s)
      BY <1>1, <2>2
    <3>2. doc[i].kind = "section" /\ doc[i].name = s
      BY <3>1 DEF Heading
    <3> QED
      BY <3>1, <3>2 DEF Headings, OfKind
  <2> QED
    BY <2>1, <2>2 DEF Headings
<1>4. IdsIn(doc) = {x.id : x \in TasksIn(doc)}
  BY DEF IdsIn, TasksIn
<1> QED
  BY <1>2, <1>3, <1>4

LEMMA InsertedTask ==
    ASSUME NEW doc \in Document, NEW t \in Task, NEW section \in Sections
    PROVE  /\ InsertTask(doc, t, section) \in Document
           /\ Range(InsertTask(doc, t, section)) \in
                 {Range(doc) \cup {t}, Range(doc) \cup {Heading(section), t}}
<1> DEFINE headings == {h \in OfKind(doc, "section") : doc[h].name = section}
<1>1. t \in Line /\ Heading(section) \in Line
  BY DEF Line
<1>2. CASE headings = {}
  <2> DEFINE e == <<Heading(section), t>>
  <2>1. e \in Seq(Line) /\ Range(e) = {Heading(section), t}
    BY <1>1, JustTwo
  <2>2. InsertTask(doc, t, section) = doc \o e
    BY <1>2 DEF InsertTask
  <2> HIDE DEF e
  <2>3. doc \o e \in Seq(Line) /\ Range(doc \o e) = Range(doc) \cup Range(e)
    BY <2>1, Joined DEF Document
  <2> QED
    BY <2>1, <2>2, <2>3 DEF Document
<1>3. CASE headings # {}
  <2>1. DOMAIN doc = 1 .. Len(doc) /\ Len(doc) \in Nat
    BY DocumentLines
  <2>2. headings \subseteq 1 .. Len(doc)
    BY <2>1 DEF OfKind
  <2>3. Min(headings) \in headings
    BY <1>3, <2>1, <2>2, FirstAndLast
  <2>4. InsertTask(doc, t, section) = InsertAt(doc, Min(headings) + 1, t)
    BY <1>3 DEF InsertTask
  <2> HIDE DEF headings
  <2>5. Min(headings) + 1 \in 1 .. Len(doc) + 1
    <3>1. Min(headings) \in 1 .. Len(doc)
      BY <2>2, <2>3
    <3> QED
      BY <2>1, <3>1
  <2>6. /\ InsertAt(doc, Min(headings) + 1, t) \in Seq(Line)
        /\ Range(InsertAt(doc, Min(headings) + 1, t)) = Range(doc) \cup {t}
    BY <1>1, <2>5, InsertedAt DEF Document
  <2> QED
    BY <2>4, <2>6 DEF Document
<1> QED
  BY <1>2, <1>3

LEMMA Amended ==
    ASSUME NEW doc \in Document, NEW i \in DOMAIN doc, NEW t \in Line
    PROVE  /\ Amend(doc, i, t) \in Document
           /\ DOMAIN Amend(doc, i, t) = DOMAIN doc
           /\ \A k \in DOMAIN doc : Amend(doc, i, t)[k] = IF k = i THEN t ELSE doc[k]
<1>1. doc \in Seq(Line) /\ i \in 1 .. Len(doc)
  BY DocumentLines DEF Document
<1>2. Amend(doc, i, t) \in Seq(Line)
  BY <1>1, ExceptSeq DEF Amend
<1> QED
  BY <1>2 DEF Amend, Document

\* The heading above a line is one of the document's.
LEMMA SectionIsHeading ==
    ASSUME NEW doc \in Document, NEW i \in DOMAIN doc
    PROVE  SectionAt(doc, i) = "" \/ SectionAt(doc, i) \in Headings(doc)
<1> DEFINE above == {h \in OfKind(doc, "section") : h < i}
<1>1. DOMAIN doc = 1 .. Len(doc) /\ Len(doc) \in Nat
  BY DocumentLines
<1>2. above \subseteq 1 .. Len(doc)
  BY <1>1 DEF OfKind
<1>3. ASSUME above # {} PROVE Max(above) \in OfKind(doc, "section")
  BY <1>1, <1>2, <1>3, FirstAndLast
<1>4. SectionAt(doc, i) = IF above = {} THEN "" ELSE doc[Max(above)].name
  BY DEF SectionAt
<1> QED
  BY <1>3, <1>4 DEF Headings

\* Amending a task leaves every task in its section.
LEMMA SectionKept ==
    ASSUME NEW doc \in Document, NEW i \in Blocks(doc), NEW t \in Task, NEW k \in DOMAIN doc
    PROVE  SectionAt(Amend(doc, i, t), k) = SectionAt(doc, k)
<1> DEFINE new == Amend(doc, i, t)
           above == {h \in OfKind(doc, "section") : h < k}
<1>1. DOMAIN doc = 1 .. Len(doc) /\ Len(doc) \in Nat /\ i \in DOMAIN doc /\ doc[i].kind = "task"
  BY DocumentLines DEF Blocks, OfKind
<1>2. t \in Line /\ t.kind = "task"
  BY LineKinds DEF Line
<1>3. DOMAIN new = DOMAIN doc /\ \A j \in DOMAIN doc : new[j] = IF j = i THEN t ELSE doc[j]
  <2>1. i \in DOMAIN doc /\ t \in Line
    BY <1>1, <1>2
  <2> QED
    BY <2>1, Amended
<1> HIDE DEF new
<1>4. OfKind(new, "section") = OfKind(doc, "section")
  BY <1>1, <1>2, <1>3 DEF OfKind
<1>5. above \subseteq 1 .. Len(doc)
  BY <1>1 DEF OfKind
<1>6. ASSUME above # {} PROVE new[Max(above)].name = doc[Max(above)].name
  <2>1. Max(above) \in above
    BY <1>1, <1>5, <1>6, FirstAndLast
  <2>2. Max(above) \in DOMAIN doc /\ Max(above) # i
    BY <1>1, <2>1 DEF OfKind
  <2> QED
    BY <1>3, <2>2
<1> QED
  BY <1>4, <1>6 DEF SectionAt, new

-----------------------------------------------------------------------------
(* What a command makes of a sound board is sound.                         *)

\* A search finds a record in its place.
LEMMA FoundPlace ==
    ASSUME NEW docs, NEW id, NEW section, NEW m \in Matches(docs, id, section)
    PROVE  /\ m.file \in Files /\ m.at \in Blocks(docs[m.file]) /\ docs[m.file][m.at].id = id
           /\ section # None => SectionAt(docs[m.file], m.at) = section
           /\ m = [file |-> m.file, at |-> m.at]
BY DEF Matches

\* A task that a search finds is where it says, and lives as its place demands.
LEMMA FoundIsSound ==
    ASSUME NEW docs, SoundBoard(docs), NEW id, NEW section, NEW m \in Matches(docs, id, section)
    PROVE  /\ m.file \in Files /\ m.at \in Blocks(docs[m.file]) /\ m.at \in DOMAIN docs[m.file]
           /\ docs[m.file] \in Document
           /\ docs[m.file][m.at] \in Task /\ docs[m.file][m.at] \in TasksIn(docs[m.file])
           /\ docs[m.file][m.at].id = id
           /\ section # None => SectionAt(docs[m.file], m.at) = section
           /\ SectionAt(docs[m.file], m.at) # ""
           /\ ValidLifecycle(docs[m.file][m.at], SectionAt(docs[m.file], m.at), m.file)
           /\ m = [file |-> m.file, at |-> m.at]
<1>1. /\ m.file \in Files /\ m.at \in Blocks(docs[m.file])
      /\ docs[m.file][m.at].id = id
      /\ section # None => SectionAt(docs[m.file], m.at) = section
      /\ m = [file |-> m.file, at |-> m.at]
  BY DEF Matches
<1>2. docs[m.file] \in Document /\ ValidDocument(docs[m.file], m.file)
  BY <1>1 DEF SoundBoard, SoundDocument
<1>3. m.at \in DOMAIN docs[m.file] /\ docs[m.file][m.at].kind = "task"
  BY <1>1 DEF Blocks, OfKind
<1>4. docs[m.file][m.at] \in Task
  BY <1>2, <1>3, DocumentLines, LineKinds
<1> QED
  BY <1>1, <1>2, <1>3, <1>4 DEF ValidDocument, TasksIn

LEMMA LocatedSource ==
    ASSUME NEW docs, NEW id, NEW section, Located(docs, id, section)
    PROVE  Source(docs, id, section) \in Matches(docs, id, section)
<1>1. Matches(docs, id, section) # {}
  BY FS_EmptySet DEF Located
<1> QED
  BY <1>1 DEF Source

\* A verdict that replaces documents by sound ones makes a sound board.
LEMMA VerdictSound ==
    ASSUME NEW docs, SoundBoard(docs), NEW names \in SUBSET Files, NEW after,
           after = [f \in Files |-> after[f]],
           \A f \in Files \ names : after[f] = docs[f],
           \A f \in names : /\ ValidDocument(after[f], f)
                            /\ SoundDocument(after[f], f, IdsIn(docs["archive"]))
    PROVE  SoundBoard(after) /\ IdsIn(docs["archive"]) \subseteq IdsIn(after["archive"])
<1> DEFINE done == IdsIn(docs["archive"])
<1>1. \A f \in Files : ValidDocument(after[f], f) /\ SoundDocument(after[f], f, done)
  BY DEF SoundBoard
<1>2. done \subseteq IdsIn(after["archive"])
  BY <1>1 DEF SoundDocument, Files
<1> HIDE DEF done
<1>3. ASSUME NEW f \in Files PROVE SoundDocument(after[f], f, IdsIn(after["archive"]))
  BY <1>1, <1>2 DEF SoundDocument
<1> QED
  BY <1>1, <1>2, <1>3 DEF SoundBoard, done

SoundOutcome(v, docs) ==
    SoundBoard(v.after) /\ IdsIn(docs["archive"]) \subseteq IdsIn(v.after["archive"])

LEMMA UnchangedSound ==
    ASSUME NEW docs, SoundBoard(docs)
    PROVE  SoundOutcome(Refuse(docs), docs) /\ SoundOutcome(Answer(docs), docs)
<1>1. docs = [f \in Files |-> docs[f]]
  BY DEF SoundBoard
<1>2. Refuse(docs).after = docs /\ Answer(docs).after = docs
  BY <1>1 DEF Refuse, Answer, Verdict
<1> QED
  BY <1>2 DEF SoundOutcome

LEMMA RewriteSound ==
    ASSUME NEW docs, SoundBoard(docs), NEW f \in Files, NEW doc,
           ValidDocument(doc, f) => SoundDocument(doc, f, IdsIn(docs["archive"]))
    PROVE  SoundOutcome(Rewrite(docs, f, doc), docs)
<1>1. CASE ~ValidDocument(doc, f)
  BY <1>1, UnchangedSound DEF Rewrite
<1>2. CASE ValidDocument(doc, f)
  <2> DEFINE after == [g \in Files |-> IF g = f THEN doc ELSE docs[g]]
             names == {f}
  <2>1. docs = [g \in Files |-> docs[g]]
    BY DEF SoundBoard
  <2>2. Rewrite(docs, f, doc).after = after
    BY <1>2, <2>1 DEF Rewrite, Verdict
  <2>3. /\ after = [g \in Files |-> after[g]]
        /\ \A g \in Files \ names : after[g] = docs[g]
        /\ \A g \in names : /\ ValidDocument(after[g], g)
                             /\ SoundDocument(after[g], g, IdsIn(docs["archive"]))
        /\ names \in SUBSET Files
    BY <1>2
  <2> HIDE DEF after, names
  <2>4. SoundBoard(after) /\ IdsIn(docs["archive"]) \subseteq IdsIn(after["archive"])
    BY <2>3, VerdictSound
  <2> QED
    BY <2>2, <2>4 DEF SoundOutcome
<1> QED
  BY <1>1, <1>2

LEMMA RewritesSound ==
    ASSUME NEW docs, SoundBoard(docs), NEW names \in SUBSET Files, NEW new, NEW order,
           \A f \in names : SoundDocument(new[f], f, IdsIn(docs["archive"]))
    PROVE  SoundOutcome(Rewrites(docs, names, new, order), docs)
<1>1. CASE ~\A f \in names : ValidDocument(new[f], f)
  BY <1>1, UnchangedSound DEF Rewrites
<1>2. CASE \A f \in names : ValidDocument(new[f], f)
  <2> DEFINE after == [f \in Files |-> IF f \in names THEN new[f] ELSE docs[f]]
  <2>1. Rewrites(docs, names, new, order).after = after
    BY <1>2 DEF Rewrites, Verdict
  <2>2. /\ after = [f \in Files |-> after[f]]
        /\ \A f \in Files \ names : after[f] = docs[f]
        /\ \A f \in names : /\ ValidDocument(after[f], f)
                            /\ SoundDocument(after[f], f, IdsIn(docs["archive"]))
    BY <1>2
  <2> HIDE DEF after
  <2>3. SoundBoard(after) /\ IdsIn(docs["archive"]) \subseteq IdsIn(after["archive"])
    BY <2>2, VerdictSound
  <2> QED
    BY <2>1, <2>3 DEF SoundOutcome
<1> QED
  BY <1>1, <1>2

\* A document of tasks that has no task it had not before stays sound.
LEMMA FewerTasksSound ==
    ASSUME NEW doc, NEW done, SoundDocument(doc, "tasks", done), NEW new \in Document,
           Range(new) \subseteq Range(doc)
    PROVE  SoundDocument(new, "tasks", done)
<1>1. doc \in Document
  BY DEF SoundDocument
<1>2. TasksIn(doc) = Range(doc) \cap Task /\ TasksIn(new) = Range(new) \cap Task
  BY <1>1, ByRange
<1>3. InProgress(new) \subseteq InProgress(doc)
  BY <1>2 DEF InProgress
<1> QED
  BY <1>3 DEF SoundDocument

\* So does one that gets a task whose worker had none and whose dependencies
\* are archived, or a task that is not in progress.
LEMMA MoreTasksSound ==
    ASSUME NEW doc, NEW done, SoundDocument(doc, "tasks", done), NEW new \in Document,
           NEW t \in Task, NEW section \in Sections,
           Range(new) \subseteq Range(doc) \cup {t, Heading(section)},
           t.status = "In Progress" =>
              /\ \A s \in InProgress(doc) : s.owner # t.owner
              /\ t.deps \subseteq done
    PROVE  SoundDocument(new, "tasks", done)
<1>1. doc \in Document
  BY DEF SoundDocument
<1>2. TasksIn(doc) = Range(doc) \cap Task /\ TasksIn(new) = Range(new) \cap Task
  BY <1>1, ByRange
<1>3. Heading(section) \notin Task
  BY DEF Heading, Task
<1>4. \A s \in InProgress(new) : s \in InProgress(doc) \/ (s = t /\ t.status = "In Progress")
  BY <1>2, <1>3 DEF InProgress
<1> QED
  BY <1>4 DEF SoundDocument

\* So does one with a task that is amended and is in progress for the same
\* worker, with the same dependencies, as before.
LEMMA AmendedTasksSound ==
    ASSUME NEW doc, NEW done, SoundDocument(doc, "tasks", done), NEW i \in Blocks(doc),
           NEW t \in Task, t.id = doc[i].id,
           t.status = "In Progress" =>
              doc[i].status = "In Progress" /\ t.owner = doc[i].owner /\ t.deps = doc[i].deps
    PROVE  SoundDocument(Amend(doc, i, t), "tasks", done)
<1> DEFINE new == Amend(doc, i, t)
<1>1. doc \in Document /\ i \in DOMAIN doc /\ t \in Line
  BY DEF SoundDocument, Blocks, OfKind, Line
<1>2. /\ new \in Document /\ DOMAIN new = DOMAIN doc
      /\ \A k \in DOMAIN doc : new[k] = IF k = i THEN t ELSE doc[k]
  BY <1>1, Amended
<1> HIDE DEF new
<1>3. ASSUME NEW s \in InProgress(new)
      PROVE  \E o \in InProgress(doc) : o.id = s.id /\ o.owner = s.owner /\ o.deps = s.deps
  <2>1. PICK k \in Blocks(new) : s = new[k] /\ s.status = "In Progress"
    BY DEF InProgress, TasksIn
  <2>2. CASE k = i
    <3>1. s = t /\ doc[i] \in TasksIn(doc)
      BY <1>1, <1>2, <2>1, <2>2 DEF TasksIn
    <3> QED
      BY <2>1, <3>1 DEF InProgress
  <2>3. CASE k # i
    <3>1. k \in DOMAIN doc /\ s = doc[k] /\ s.kind = "task"
      BY <1>2, <2>1, <2>3 DEF Blocks, OfKind
    <3>2. s \in TasksIn(doc)
      BY <3>1 DEF TasksIn, Blocks, OfKind
    <3> QED
      BY <2>1, <3>2 DEF InProgress
  <2> QED
    BY <2>2, <2>3
<1>4. /\ \A s, u \in InProgress(doc) : s.owner = u.owner => s.id = u.id
      /\ \A s \in InProgress(doc) : s.deps \subseteq done
  BY DEF SoundDocument
<1>5. ASSUME NEW s \in InProgress(new), NEW u \in InProgress(new), s.owner = u.owner
      PROVE  s.id = u.id
  <2>1. PICK o \in InProgress(doc) : o.id = s.id /\ o.owner = s.owner
    BY <1>3
  <2>2. PICK p \in InProgress(doc) : p.id = u.id /\ p.owner = u.owner
    BY <1>3
  <2> QED
    BY <1>4, <1>5, <2>1, <2>2
<1>6. \A s \in InProgress(new) : s.deps \subseteq done
  BY <1>3, <1>4
<1> QED
  BY <1>2, <1>5, <1>6 DEF SoundDocument, new

\* An archive that keeps its tasks and gets no heading but "Done" stays sound.
LEMMA ArchiveSound ==
    ASSUME NEW doc, NEW done, SoundDocument(doc, "archive", done), NEW new \in Document,
           Headings(new) \subseteq Headings(doc) \cup {"Done"}, IdsIn(doc) \subseteq IdsIn(new)
    PROVE  SoundDocument(new, "archive", done)
BY DEF SoundDocument

LEMMA AmendedArchiveSound ==
    ASSUME NEW doc, NEW done, SoundDocument(doc, "archive", done), NEW i \in Blocks(doc),
           NEW t \in Task, t.id = doc[i].id
    PROVE  SoundDocument(Amend(doc, i, t), "archive", done)
<1> DEFINE new == Amend(doc, i, t)
<1>1. doc \in Document /\ i \in DOMAIN doc /\ t \in Line /\ t.kind = "task" /\ doc[i].kind = "task"
  BY LineKinds DEF SoundDocument, Blocks, OfKind, Line
<1>2. /\ new \in Document /\ DOMAIN new = DOMAIN doc
      /\ \A k \in DOMAIN doc : new[k] = IF k = i THEN t ELSE doc[k]
  BY <1>1, Amended
<1> HIDE DEF new
<1>3. OfKind(new, "section") = OfKind(doc, "section") /\ Blocks(new) = Blocks(doc)
  BY <1>1, <1>2 DEF OfKind, Blocks
<1>4. \A h \in OfKind(doc, "section") : h \in DOMAIN doc /\ h # i
  BY <1>1 DEF OfKind
<1>5. Headings(new) = Headings(doc)
  BY <1>2, <1>3, <1>4 DEF Headings
<1>6. \A k \in Blocks(doc) : new[k].id = doc[k].id
  BY <1>2 DEF Blocks, OfKind
<1>7. IdsIn(new) = IdsIn(doc)
  BY <1>3, <1>6 DEF IdsIn
<1> QED
  BY <1>2, <1>5, <1>7, ArchiveSound DEF new

LEMMA UpdatedTask ==
    ASSUME NEW t \in Task, NEW u \in Updates
    PROVE  /\ ApplyMetadata(t, u) \in Task
           /\ ApplyMetadata(t, u).id = t.id
           /\ u.deps = None => ApplyMetadata(t, u).deps = t.deps
<1> DEFINE n == ApplyMetadata(t, u)
<1>1. n = [t EXCEPT !.owner = IF u.owner = None THEN t.owner ELSE u.owner,
                    !.branch = IF u.branch = None THEN t.branch ELSE u.branch,
                    !.status = IF u.status = None THEN t.status ELSE u.status,
                    !.category = IF u.category = None THEN t.category ELSE u.category,
                    !.deps = IF u.deps = None THEN t.deps ELSE u.deps]
  BY DEF ApplyMetadata
<1>2. /\ (IF u.owner = None THEN t.owner ELSE u.owner) \in Owners
      /\ (IF u.branch = None THEN t.branch ELSE u.branch) \in Branches
      /\ (IF u.status = None THEN t.status ELSE u.status) \in Statuses
      /\ (IF u.category = None THEN t.category ELSE u.category) \in {"AFK", "HITL"}
      /\ (IF u.deps = None THEN t.deps ELSE u.deps) \in SUBSET TaskIds
  BY DEF Updates, Task
<1> HIDE DEF n
<1>3. n \in Task
  BY <1>1, <1>2 DEF Task
<1>4. n.id = t.id /\ (u.deps = None => n.deps = t.deps)
  BY <1>1 DEF Task
<1> QED
  BY <1>3, <1>4 DEF n

\* A task that stays where it is.
LEMMA StaySound ==
    ASSUME NEW docs, SoundBoard(docs), NEW id, NEW section, NEW m \in Matches(docs, id, section),
           NEW t \in Task, t.id = docs[m.file][m.at].id, t.deps = docs[m.file][m.at].deps
    PROVE  SoundOutcome(Rewrite(docs, m.file, Amend(docs[m.file], m.at, t)), docs)
<1> DEFINE f == m.file
           i == m.at
           old == docs[f][i]
           new == Amend(docs[f], i, t)
           done == IdsIn(docs["archive"])
           above == SectionAt(docs[f], i)
<1>1. /\ f \in Files /\ i \in Blocks(docs[f]) /\ i \in DOMAIN docs[f] /\ docs[f] \in Document
      /\ ValidLifecycle(old, above, f)
  BY FoundIsSound
<1>2. SoundDocument(docs[f], f, done)
  BY <1>1 DEF SoundBoard
<1>3. t \in Line /\ t.kind = "task" /\ t.id = old.id /\ t.deps = old.deps
  BY LineKinds DEF Line
<1>4. /\ new \in Document /\ DOMAIN new = DOMAIN docs[f] /\ new[i] = t
  BY <1>1, <1>3, Amended
<1>5. SectionAt(new, i) = above
  BY <1>1, SectionKept
<1> HIDE DEF new, old, above, f, i, done
<1>6. ASSUME ValidDocument(new, f) PROVE SoundDocument(new, f, done)
  <2>1. CASE f = "backlog"
    BY <1>4, <2>1 DEF SoundDocument
  <2>2. CASE f = "archive"
    BY <1>1, <1>2, <1>3, <2>2, AmendedArchiveSound DEF new, old
  <2>3. CASE f = "tasks"
    <3>1. ValidLifecycle(t, above, "tasks")
      <4>1. i \in Blocks(new)
        BY <1>1, <1>3, <1>4 DEF Blocks, OfKind
      <4> QED
        BY <1>4, <1>5, <1>6, <2>3, <4>1 DEF ValidDocument
    <3>2. ASSUME t.status = "In Progress"
          PROVE  old.status = "In Progress" /\ t.owner = old.owner
      <4>1. above \in Roles /\ t.owner = above
        BY <3>1, <3>2 DEF ValidLifecycle
      <4>2. above # "Blocked Tasks"
        BY <4>1, RolesAssumption
      <4>3. old.status = "In Progress" /\ old.owner = above
        BY <1>1, <2>3, <4>2 DEF ValidLifecycle
      <4> QED
        BY <4>1, <4>3
    <3>3. SoundDocument(docs[f], "tasks", done)
      BY <1>2, <2>3
    <3>4. SoundDocument(Amend(docs[f], i, t), "tasks", done)
      BY <1>1, <1>3, <3>2, <3>3, AmendedTasksSound DEF old
    <3> QED
      BY <2>3, <3>4 DEF new
  <2> QED
    BY <1>1, <2>1, <2>2, <2>3 DEF Files
<1> QED
  BY <1>1, <1>6, RewriteSound DEF f, i, new, done

\* A task that is taken out of a document, and the document it is put in.
LEMMA TakenOutSound ==
    ASSUME NEW doc, NEW f \in {"backlog", "tasks"}, NEW done, SoundDocument(doc, f, done),
           NEW i \in DOMAIN doc
    PROVE  SoundDocument(RemoveAt(doc, i), f, done)
<1>1. doc \in Seq(Line)
  BY DEF SoundDocument, Document
<1>2. RemoveAt(doc, i) \in Seq(Line) /\ Range(RemoveAt(doc, i)) \subseteq Range(doc)
  BY <1>1, RemovedAt
<1>3. CASE f = "backlog"
  BY <1>2, <1>3 DEF SoundDocument, Document
<1>4. CASE f = "tasks"
  BY <1>2, <1>4, FewerTasksSound DEF Document
<1> QED
  BY <1>3, <1>4

LEMMA PutInSound ==
    ASSUME NEW docs, SoundBoard(docs), NEW f \in Files, NEW doc \in Document,
           Range(doc) \subseteq Range(docs[f]),
           NEW t \in Task, NEW section \in Sections,
           f = "archive" =>
              section = "Done" /\ IdsIn(docs[f]) \subseteq IdsIn(doc) \cup {t.id},
           f = "tasks" /\ t.status = "In Progress" =>
              /\ \A s \in InProgress(docs["tasks"]) : s.owner # t.owner
              /\ t.deps \subseteq IdsIn(docs["archive"])
    PROVE  SoundDocument(InsertTask(doc, t, section), f, IdsIn(docs["archive"]))
<1> DEFINE new == InsertTask(doc, t, section)
           done == IdsIn(docs["archive"])
<1>1. docs[f] \in Document /\ SoundDocument(docs[f], f, done)
  BY DEF SoundBoard, SoundDocument
<1>2. /\ new \in Document
      /\ Range(new) \in {Range(doc) \cup {t}, Range(doc) \cup {Heading(section), t}}
  BY InsertedTask
<1> HIDE DEF new, done
<1>3. /\ Range(new) \subseteq Range(docs[f]) \cup {t, Heading(section)}
      /\ Range(doc) \cup {t} \subseteq Range(new)
  BY <1>2
<1>4. CASE f = "backlog"
  BY <1>2, <1>4 DEF SoundDocument, new, done
<1>5. CASE f = "tasks"
  <2>1. SoundDocument(docs[f], "tasks", done)
    BY <1>1, <1>5
  <2>2. t.status = "In Progress" =>
           (\A s \in InProgress(docs[f]) : s.owner # t.owner) /\ t.deps \subseteq done
    BY <1>5 DEF done
  <2>3. SoundDocument(new, "tasks", done)
    BY <1>2, <1>3, <2>1, <2>2, MoreTasksSound
  <2> QED
    BY <1>5, <2>3 DEF new, done
<1>6. CASE f = "archive"
  <2>1. section = "Done" /\ IdsIn(docs[f]) \subseteq IdsIn(doc) \cup {t.id}
    BY <1>6
  <2>2. Headings(new) \subseteq Headings(docs[f]) \cup {"Done"}
    <3>1. Headings(new) = {s \in Sections : Heading(s) \in Range(new)}
      BY <1>2, ByRange
    <3>2. Headings(docs[f]) = {s \in Sections : Heading(s) \in Range(docs[f])}
      BY <1>1, ByRange
    <3>3. \A s : Heading(s) # t
      <4>1. t.kind = "task" /\ \A s : Heading(s).kind = "section"
        BY DEF Heading, Task
      <4> QED
        BY <4>1
    <3>4. \A s : Heading(s) = Heading("Done") => s = "Done"
      BY DEF Heading
    <3> QED
      BY <1>3, <2>1, <3>1, <3>2, <3>3, <3>4
  <2>3. IdsIn(docs[f]) \subseteq IdsIn(new)
    <3>1. TasksIn(new) = Range(new) \cap Task /\ TasksIn(doc) = Range(doc) \cap Task
      BY <1>2, ByRange
    <3>2. IdsIn(new) = {x.id : x \in TasksIn(new)} /\ IdsIn(doc) = {x.id : x \in TasksIn(doc)}
      BY <1>2, ByRange
    <3>3. TasksIn(doc) \cup {t} \subseteq TasksIn(new)
      BY <1>3, <3>1
    <3> QED
      BY <2>1, <3>2, <3>3
  <2>4. SoundDocument(docs[f], "archive", done)
    BY <1>1, <1>6
  <2>5. SoundDocument(new, "archive", done)
    BY <1>2, <2>2, <2>3, <2>4, ArchiveSound
  <2> QED
    BY <1>6, <2>5 DEF new, done
<1> QED
  BY <1>4, <1>5, <1>6 DEF Files

\* What is left of the ids when one task is taken out.
LEMMA IdsWithout ==
    ASSUME NEW doc \in Document, NEW i \in Blocks(doc)
    PROVE  /\ RemoveAt(doc, i) \in Document
           /\ Range(RemoveAt(doc, i)) \subseteq Range(doc)
           /\ IdsIn(doc) \subseteq IdsIn(RemoveAt(doc, i)) \cup {doc[i].id}
<1> DEFINE rest == RemoveAt(doc, i)
<1>1. i \in DOMAIN doc /\ doc \in Seq(Line)
  BY DEF Blocks, OfKind, Document
<1>2. /\ rest \in Document
      /\ Range(rest) \subseteq Range(doc)
      /\ \A k \in DOMAIN doc \ {i} : doc[k] \in Range(rest)
  BY <1>1, RemovedAt DEF Document
<1> HIDE DEF rest
<1>3. TasksIn(rest) = Range(rest) \cap Task /\ IdsIn(rest) = {x.id : x \in TasksIn(rest)}
  BY <1>2, ByRange
<1>4. ASSUME NEW k \in Blocks(doc) PROVE doc[k].id \in IdsIn(rest) \cup {doc[i].id}
  <2>1. CASE k = i
    BY <2>1
  <2>2. CASE k # i
    <3>1. k \in DOMAIN doc \ {i} /\ doc[k].kind = "task"
      BY <2>2 DEF Blocks, OfKind
    <3>2. doc[k] \in Task /\ doc[k] \in Range(rest)
      BY <1>2, <3>1, DocumentLines, LineKinds
    <3> QED
      BY <1>3, <3>2
  <2> QED
    BY <2>1, <2>2
<1> QED
  BY <1>2, <1>4 DEF IdsIn, rest

\* A set that moves no task out of the archive, adds no section to it, moves a
\* task into a lane only if the lane is free and its dependencies are archived,
\* and does not change them.
LEMMA SetSound ==
    ASSUME NEW docs, SoundBoard(docs), NEW id, NEW u \in Updates,
           u.deps = None,
           u.file = "archive" => u.section \in {None, "Done"},
           \A m \in Matches(docs, id, u.source) :
              m = Source(docs, id, u.source) /\ m.file = "archive" /\ u.file # None =>
                 u.file = "archive",
           \A m \in Matches(docs, id, u.source) :
              m = Source(docs, id, u.source) /\ u.section \in Roles =>
                 /\ \A s \in InProgress(docs["tasks"]) : s.owner # u.section
                 /\ docs[m.file][m.at].deps \subseteq IdsIn(docs["archive"])
    PROVE  SoundOutcome(Set(docs, id, u), docs)
<1> DEFINE source == Source(docs, id, u.source)
           from == source.file
           to == IF u.file = None THEN from ELSE u.file
           old == docs[from][source.at]
           t == ApplyMetadata(old, u)
           rest == RemoveAt(docs[from], source.at)
           new == InsertTask(IF from = to THEN rest ELSE docs[to], t, u.section)
           done == IdsIn(docs["archive"])
<1>1. CASE (u.file = None) # (u.section = None) \/ ~Located(docs, id, u.source)
  BY <1>1, UnchangedSound DEF Set
<1>2. CASE (u.file = None) = (u.section = None) /\ Located(docs, id, u.source)
  <2>1. source \in Matches(docs, id, u.source)
    BY <1>2, LocatedSource
  <2>2. /\ from \in Files /\ source.at \in Blocks(docs[from]) /\ source.at \in DOMAIN docs[from]
        /\ docs[from] \in Document /\ old \in Task
    <3> HIDE DEF source
    <3> QED
      BY <2>1, FoundIsSound
  <2>3. t \in Task /\ t.id = old.id /\ t.deps = old.deps
    BY <2>2, UpdatedTask
  <2>4. CASE u.section = None
    <3>1. Set(docs, id, u) = Rewrite(docs, from, Amend(docs[from], source.at, t))
      BY <1>2, <2>4 DEF Set
    <3> HIDE DEF source, t
    <3>2. SoundOutcome(Rewrite(docs, from, Amend(docs[from], source.at, t)), docs)
      BY <2>1, <2>3, StaySound
    <3> QED
      BY <3>1, <3>2
  <2>5. CASE u.section # None /\ ~ValidLifecycle(t, u.section, to)
    <3>1. Set(docs, id, u) = Refuse(docs)
      BY <1>2, <2>5 DEF Set
    <3> QED
      BY <3>1, UnchangedSound
  <2>6. CASE u.section # None /\ ValidLifecycle(t, u.section, to)
    <3>1. u.file # None /\ to = u.file /\ to \in Files /\ u.section \in Sections
      BY <1>2, <2>6 DEF Updates
    <3>2. rest \in Document /\ Range(rest) \subseteq Range(docs[from])
          /\ IdsIn(docs[from]) \subseteq IdsIn(rest) \cup {old.id}
      BY <2>2, IdsWithout
    <3>3. docs[to] \in Document
      BY <3>1 DEF SoundBoard, SoundDocument
    <3>4. to = "archive" => u.section = "Done"
      BY <2>6, <3>1
    <3>5. to = "tasks" /\ t.status = "In Progress" =>
             (\A s \in InProgress(docs["tasks"]) : s.owner # t.owner) /\ t.deps \subseteq done
      <4> SUFFICES ASSUME to = "tasks", t.status = "In Progress"
                   PROVE  (\A s \in InProgress(docs["tasks"]) : s.owner # t.owner) /\ t.deps \subseteq done
        OBVIOUS
      <4>1. ValidLifecycle(t, u.section, "tasks")
        BY <2>6
      <4> HIDE DEF t
      <4>2. u.section \in Roles /\ t.owner = u.section
        BY <4>1 DEF ValidLifecycle
      <4>3. old.deps \subseteq done /\ \A s \in InProgress(docs["tasks"]) : s.owner # u.section
        BY <2>1, <4>2
      <4> QED
        BY <2>3, <4>2, <4>3
    <3>6. from = "archive" => to = "archive"
      BY <2>1, <3>1
    <3>7. /\ from = to => Set(docs, id, u) = Rewrite(docs, from, new)
          /\ from # to => Set(docs, id, u) =
                Rewrites(docs, {from, to}, [f \in Files |-> IF f = to THEN new ELSE rest], First(to))
      BY <1>2, <2>6 DEF Set
    <3> HIDE DEF t, rest, from, old, to, source, done
    <3>8. SoundDocument(new, to, done)
      <4> DEFINE base == IF from = to THEN rest ELSE docs[to]
      <4>1. base \in Document /\ Range(base) \subseteq Range(docs[to])
        BY <3>2, <3>3
      <4>2. to = "archive" => IdsIn(docs[to]) \subseteq IdsIn(base) \cup {t.id}
        BY <2>3, <3>2
      <4>3. new = InsertTask(base, t, u.section)
        OBVIOUS
      <4> HIDE DEF base, new
      <4>4. SoundDocument(InsertTask(base, t, u.section), to, IdsIn(docs["archive"]))
        BY <2>3, <3>1, <3>4, <3>5, <4>1, <4>2, PutInSound DEF done
      <4> QED
        BY <4>3, <4>4 DEF done
    <3> HIDE DEF new
    <3>9. CASE from = to
      BY <2>2, <3>7, <3>8, <3>9, RewriteSound DEF done
    <3>10. CASE from # to
      <4> DEFINE after == [f \in Files |-> IF f = to THEN new ELSE rest]
                 names == {from, to}
      <4>1. from \in {"backlog", "tasks"}
        <5>1. from # "archive"
          BY <3>6, <3>10
        <5> QED
          BY <2>2, <5>1 DEF Files
      <4>2. SoundDocument(docs[from], from, done)
        BY <2>2 DEF SoundBoard, done
      <4>3. SoundDocument(rest, from, done)
        BY <2>2, <4>1, <4>2, TakenOutSound DEF rest
      <4>4. \A f \in names : SoundDocument(after[f], f, done)
        BY <2>2, <3>1, <3>8, <3>10, <4>3
      <4>5. names \in SUBSET Files /\ Set(docs, id, u) = Rewrites(docs, names, after, First(to))
        BY <2>2, <3>1, <3>7, <3>10
      <4> HIDE DEF after, names
      <4> QED
        BY <4>4, <4>5, RewritesSound DEF done
    <3> QED
      BY <3>9, <3>10
  <2> QED
    BY <2>4, <2>5, <2>6
<1> QED
  BY <1>1, <1>2

\* Assign puts a task into a lane that is free, its dependencies archived.
LEMMA AssignSound ==
    ASSUME NEW docs, SoundBoard(docs), NEW id, NEW role
    PROVE  SoundOutcome(Assign(docs, id, role), docs)
<1> DEFINE source == Source(docs, id, None)
           t == docs[source.file][source.at]
           section == SectionAt(docs[source.file], source.at)
           u == [NoUpdate EXCEPT !.file = "tasks", !.section = role, !.owner = role,
                                 !.status = "In Progress"]
           free == /\ role \in Roles
                   /\ Located(docs, id, None)
                   /\ ActiveInLane(docs, role) = {}
                   /\ \/ section = "Backlog" /\ t.status = "Backlog"
                      \/ section = "Blocked Tasks" /\ t.status = "Blocked"
                   /\ DependenciesSatisfied(t, CompletedSet(docs, {}, {}))
<1>1. \/ Assign(docs, id, role) \in {Refuse(docs), Answer(docs)}
      \/ free /\ Assign(docs, id, role) = Set(docs, id, u)
  BY DEF Assign
<1>2. CASE free
  <2>1. u \in Updates
    <3>1. role \in Sections /\ role \in Owners /\ "tasks" \in Files /\ "In Progress" \in Statuses
      BY <1>2 DEF Sections, Owners, Files, Statuses
    <3>2. NoUpdate \in Updates
      BY DEF NoUpdate, Updates
    <3> QED
      BY <3>1, <3>2 DEF Updates
  <2>2. u.deps = None /\ u.file = "tasks" /\ u.section = role /\ u.source = None
    BY DEF NoUpdate
  <2> HIDE DEF u
  <2>3. source \in Matches(docs, id, None)
    BY <1>2, LocatedSource
  <2>4. /\ source.file \in Files /\ t \in Task /\ ValidLifecycle(t, section, source.file)
    <3> HIDE DEF source
    <3> QED
      BY <2>3, FoundIsSound
  <2>5. source.file # "archive"
    BY <1>2, <2>4 DEF ValidLifecycle
  <2>6. t.deps \subseteq IdsIn(docs["archive"])
    BY <1>2 DEF DependenciesSatisfied, CompletedSet
  <2>7. \A s \in InProgress(docs["tasks"]) : s.owner # role
    <3> SUFFICES ASSUME NEW s \in InProgress(docs["tasks"]), s.owner = role PROVE FALSE
      OBVIOUS
    <3>1. PICK i \in Blocks(docs["tasks"]) : s = docs["tasks"][i]
      BY DEF InProgress, TasksIn
    <3>2. s.status = "In Progress"
      BY DEF InProgress
    <3>3. ValidLifecycle(s, SectionAt(docs["tasks"], i), "tasks")
      BY <3>1 DEF SoundBoard, ValidDocument, Files
    <3>4. SectionAt(docs["tasks"], i) = role
      BY <3>2, <3>3 DEF ValidLifecycle
    <3>5. i \in ActiveInLane(docs, role)
      BY <3>1, <3>2, <3>4 DEF ActiveInLane
    <3> QED
      BY <1>2, <3>5
  <2>8. SoundOutcome(Set(docs, id, u), docs)
    <3> HIDE DEF source
    <3>1. \A m \in Matches(docs, id, None) :
             m = source /\ m.file = "archive" /\ u.file # None => u.file = "archive"
      BY <2>5
    <3>2. u.file = "archive" => u.section \in {None, "Done"}
      BY <2>2
    <3>3. \A m \in Matches(docs, id, None) :
             m = source /\ u.section \in Roles =>
                /\ \A s \in InProgress(docs["tasks"]) : s.owner # u.section
                /\ docs[m.file][m.at].deps \subseteq IdsIn(docs["archive"])
      BY <2>2, <2>6, <2>7
    <3> QED
      BY <2>1, <2>2, <3>1, <3>2, <3>3, SetSound DEF source
  <2> QED
    BY <1>1, <2>8, UnchangedSound DEF u
<1> QED
  BY <1>1, <1>2, UnchangedSound

LEMMA CreateSound ==
    ASSUME NEW docs, SoundBoard(docs), NEW id \in TaskIds, NEW category \in {"AFK", "HITL"},
           NEW branch \in Branches, NEW deps \in SUBSET TaskIds, NEW body \in Bodies
    PROVE  SoundOutcome(CreateBacklogTask(docs, id, category, branch, deps, body), docs)
<1> DEFINE t == [kind |-> "task", id |-> id, owner |-> "Unassigned", branch |-> branch,
                 status |-> "Backlog", category |-> category, deps |-> deps,
                 after |-> None, body |-> body]
<1>1. t \in Line
  BY DEF Task, Line, Owners, Statuses
<1>2. \/ CreateBacklogTask(docs, id, category, branch, deps, body) = Refuse(docs)
      \/ CreateBacklogTask(docs, id, category, branch, deps, body) =
            Rewrite(docs, "backlog", Append(docs["backlog"], t))
  BY DEF CreateBacklogTask
<1> HIDE DEF t
<1>3. docs["backlog"] \in Seq(Line)
  BY DEF SoundBoard, SoundDocument, Document, Files
<1>4. Append(docs["backlog"], t) \in Document
  BY <1>1, <1>3, Appended DEF Document
<1>5. SoundDocument(Append(docs["backlog"], t), "backlog", IdsIn(docs["archive"]))
  BY <1>4 DEF SoundDocument
<1>6. "backlog" \in Files
  BY DEF Files
<1> QED
  BY <1>2, <1>5, <1>6, RewriteSound, UnchangedSound

LEMMA ContinueSound ==
    ASSUME NEW docs, SoundBoard(docs), NEW id, NEW role, NEW branch, NEW lease \in Leases
    PROVE  SoundOutcome(RequestContinuation(docs, id, role, branch, lease), docs)
<1> DEFINE source == Source(docs, id, None)
           t == docs[source.file][source.at]
           n == [t EXCEPT !.after = lease]
<1>1. \/ RequestContinuation(docs, id, role, branch, lease) = Refuse(docs)
      \/ /\ Located(docs, id, None) /\ source.file = "tasks"
         /\ RequestContinuation(docs, id, role, branch, lease) =
               Rewrite(docs, "tasks", Amend(docs["tasks"], source.at, n))
  BY DEF RequestContinuation
<1>2. CASE Located(docs, id, None) /\ source.file = "tasks"
  <2>1. source \in Matches(docs, id, None)
    BY <1>2, LocatedSource
  <2>2. t \in Task
    <3> HIDE DEF source
    <3> QED
      BY <2>1, FoundIsSound
  <2>3. n \in Task /\ n.id = t.id /\ n.deps = t.deps
    BY <2>2 DEF Task
  <2> HIDE DEF source, n
  <2>4. SoundOutcome(Rewrite(docs, source.file, Amend(docs[source.file], source.at, n)), docs)
    BY <2>1, <2>3, StaySound
  <2> QED
    BY <1>1, <1>2, <2>4, UnchangedSound
<1> QED
  BY <1>1, <1>2, UnchangedSound

\* On a sound board no record has an identical copy to remove.
LEMMA NoCopies ==
    ASSUME NEW docs, SoundBoard(docs), NEW id, NEW m \in Matches(docs, id, None),
           NEW n \in Matches(docs, id, None), docs[m.file][m.at] = docs[n.file][n.at]
    PROVE  m = n
<1>1. /\ m.file \in Files /\ m.at \in Blocks(docs[m.file]) /\ docs[m.file][m.at].id = id
      /\ m = [file |-> m.file, at |-> m.at]
  BY FoundPlace
<1>2. /\ n.file \in Files /\ n.at \in Blocks(docs[n.file]) /\ docs[n.file][n.at].id = id
      /\ n = [file |-> n.file, at |-> n.at]
  BY FoundPlace
<1>3. ValidDocument(docs[m.file], m.file) /\ ValidDocument(docs[n.file], n.file)
  BY <1>1, <1>2 DEF SoundBoard
<1>4. /\ ValidLifecycle(docs[m.file][m.at], SectionAt(docs[m.file], m.at), m.file)
      /\ ValidLifecycle(docs[n.file][n.at], SectionAt(docs[n.file], n.at), n.file)
  BY <1>1, <1>2, <1>3 DEF ValidDocument
<1>5. m.file = n.file
  BY <1>4 DEF ValidLifecycle
<1>6. m.at = n.at
  BY <1>1, <1>2, <1>3, <1>5 DEF ValidDocument
<1> QED
  BY <1>1, <1>2, <1>5, <1>6

LEMMA ReconcileSound ==
    ASSUME NEW docs, SoundBoard(docs), NEW id, NEW section
    PROVE  SoundOutcome(ReconcileDuplicate(docs, id, section), docs)
<1> DEFINE matches == Matches(docs, id, None)
           keepers == Matches(docs, id, section)
<1>1. ASSUME matches \ keepers # {}, Cardinality(keepers) = 1,
             \A m, n \in matches : docs[m.file][m.at] = docs[n.file][n.at]
      PROVE  FALSE
  <2>1. keepers # {}
    BY <1>1, FS_EmptySet
  <2>2. PICK m \in matches : m \notin keepers
    BY <1>1
  <2>3. PICK n \in keepers : TRUE
    BY <2>1
  <2>4. n \in matches
    BY <2>3 DEF Matches
  <2>5. docs[m.file][m.at] = docs[n.file][n.at]
    BY <1>1, <2>4
  <2>6. m = n
    BY <2>2, <2>4, <2>5, NoCopies
  <2> QED
    BY <2>2, <2>3, <2>6
<1>2. ReconcileDuplicate(docs, id, section) = Refuse(docs)
  BY <1>1 DEF ReconcileDuplicate
<1> QED
  BY <1>2, UnchangedSound

LEMMA NormalizeSound ==
    ASSUME NEW docs, SoundBoard(docs)
    PROVE  SoundOutcome(NormalizeTasks(docs), docs)
<1> DEFINE doc == DropRepeatedHeadings(docs["tasks"])
           new == Drop(doc, {i \in Blocks(doc) : Outranked(doc, i)})
<1>1. docs["tasks"] \in Seq(Line)
      /\ SoundDocument(docs["tasks"], "tasks", IdsIn(docs["archive"]))
  BY DEF SoundBoard, SoundDocument, Document, Files
<1>2. doc \in Seq(Line) /\ Range(doc) \subseteq Range(docs["tasks"])
  <2> DEFINE P == {i \in DOMAIN docs["tasks"] :
                      docs["tasks"][i].kind \in {"top", "section"} =>
                         \A k \in 1 .. (i - 1) : docs["tasks"][k] # docs["tasks"][i]}
  <2>1. P \subseteq DOMAIN docs["tasks"] /\ doc = Keep(docs["tasks"], P)
    BY DEF DropRepeatedHeadings
  <2> HIDE DEF P, doc
  <2>2. /\ Keep(docs["tasks"], P) \in Seq(Line)
        /\ Range(Keep(docs["tasks"], P)) = {docs["tasks"][i] : i \in P}
    BY <1>1, <2>1, Kept
  <2> QED
    BY <2>1, <2>2 DEF Range
<1> HIDE DEF doc
<1>3. new \in Seq(Line) /\ Range(new) \subseteq Range(doc)
  <2> DEFINE P == DOMAIN doc \ {i \in Blocks(doc) : Outranked(doc, i)}
  <2>1. P \subseteq DOMAIN doc /\ new = Keep(doc, P)
    BY DEF Drop
  <2> HIDE DEF P, new
  <2>2. Keep(doc, P) \in Seq(Line) /\ Range(Keep(doc, P)) = {doc[i] : i \in P}
    BY <1>2, <2>1, Kept
  <2> QED
    BY <2>1, <2>2 DEF Range
<1>4. NormalizeTasks(docs) \in {Refuse(docs), Rewrite(docs, "tasks", new)}
  BY DEF NormalizeTasks, doc
<1> HIDE DEF new
<1>5. SoundDocument(new, "tasks", IdsIn(docs["archive"]))
  BY <1>1, <1>2, <1>3, FewerTasksSound DEF Document
<1>6. "tasks" \in Files
  BY DEF Files
<1> QED
  BY <1>4, <1>5, <1>6, RewriteSound, UnchangedSound

LEMMA ClearSound ==
    ASSUME NEW docs, SoundBoard(docs), NEW id
    PROVE  SoundOutcome(ClearCompletedHumanInput(docs, id), docs)
<1> DEFINE backlog == docs["backlog"]
           asks == {i \in OfKind(backlog, "ask") :
                       backlog[i].id = id /\ SectionAt(backlog, i) = "Awaiting Human Input"}
           new == Drop(backlog, asks)
<1>1. ClearCompletedHumanInput(docs, id) \in
         {Refuse(docs), Answer(docs), Rewrite(docs, "backlog", new)}
  BY DEF ClearCompletedHumanInput
<1>2. backlog \in Seq(Line) /\ "backlog" \in Files
  BY DEF SoundBoard, SoundDocument, Document, Files
<1>3. new \in Document
  <2>1. DOMAIN backlog \ asks \subseteq DOMAIN backlog
    OBVIOUS
  <2> HIDE DEF asks, backlog
  <2> QED
    BY <1>2, <2>1, Kept DEF Drop, Document
<1> HIDE DEF new
<1>4. SoundDocument(new, "backlog", IdsIn(docs["archive"]))
  BY <1>3 DEF SoundDocument
<1> QED
  BY <1>1, <1>2, <1>4, RewriteSound, UnchangedSound

LEMMA CommandFields ==
    ASSUME NEW c \in Commands
    PROVE  /\ c.op \in Operations
           /\ c.op = "set" => c.update \in Updates
           /\ c.op = "create" =>
                 /\ c.id \in TaskIds /\ c.category \in {"AFK", "HITL"} /\ c.branch \in Branches
                 /\ c.deps \in SUBSET TaskIds /\ c.body \in Bodies
           /\ c.op = "continue" => c.lease \in Leases
BY CommandsAssumption DEF CommandTypes, Operations

\* An update given by a command that keeps to the rules.
LEMMA OrderlySetSound ==
    ASSUME NEW docs, SoundBoard(docs), OrderlyCommands, NEW c \in Commands, c.op = "set"
    PROVE  SoundOutcome(Set(docs, c.id, c.update), docs)
<1> DEFINE u == c.update
<1>1. /\ u \in Updates /\ u.section \notin Roles /\ u.deps = None
      /\ u.file = "archive" => u.section \in {None, "Done"}
      /\ u.file \notin {"archive", None} => u.source \notin {None, "Done"}
  BY CommandFields DEF OrderlyCommands
<1> HIDE DEF u
<1>2. ASSUME NEW m \in Matches(docs, c.id, u.source), m.file = "archive", u.file # None
      PROVE  u.file = "archive"
  <2> DEFINE id == c.id
             source == u.source
  <2>1. m \in Matches(docs, id, source)
    OBVIOUS
  <2> HIDE DEF id, source
  <2>2. /\ m.file \in Files /\ m.at \in Blocks(docs[m.file])
        /\ source # None => SectionAt(docs[m.file], m.at) = source
    BY <2>1, FoundPlace
  <2>3. docs[m.file] \in Document /\ m.at \in DOMAIN docs[m.file]
    BY <2>2 DEF SoundBoard, SoundDocument, Blocks, OfKind
  <2>4. SectionAt(docs[m.file], m.at) # ""
    BY <2>2 DEF SoundBoard, ValidDocument
  <2>5. SectionAt(docs[m.file], m.at) \in Headings(docs[m.file])
    BY <2>3, <2>4, SectionIsHeading
  <2>6. Headings(docs["archive"]) \subseteq {"Done"}
    BY DEF SoundBoard, SoundDocument, Files
  <2> QED
    BY <1>1, <1>2, <2>2, <2>5, <2>6 DEF source
<1>3. SoundOutcome(Set(docs, c.id, u), docs)
  BY <1>1, <1>2, SetSound
<1> QED
  BY <1>3 DEF u

LEMMA DecisionSound ==
    ASSUME NEW docs, SoundBoard(docs), OrderlyCommands, NEW c \in Commands
    PROVE  /\ SoundBoard(Decide(c, docs).after)
           /\ IdsIn(docs["archive"]) \subseteq IdsIn(Decide(c, docs).after["archive"])
<1>1. SoundOutcome(Get(docs, c.id), docs)
  BY UnchangedSound DEF Get
<1>2. c.op = "create" =>
         SoundOutcome(CreateBacklogTask(docs, c.id, c.category, c.branch, c.deps, c.body), docs)
  BY CommandFields, CreateSound
<1>3. c.op = "set" => SoundOutcome(Set(docs, c.id, c.update), docs)
  BY OrderlySetSound
<1>4. c.op = "continue" =>
         SoundOutcome(RequestContinuation(docs, c.id, c.role, c.branch, c.lease), docs)
  BY CommandFields, ContinueSound
<1>5. SoundOutcome(Decide(c, docs), docs)
  BY <1>1, <1>2, <1>3, <1>4, UnchangedSound, AssignSound, ReconcileSound, NormalizeSound,
     ClearSound, CommandFields DEF Decide, Operations
<1> QED
  BY <1>5 DEF SoundOutcome

-----------------------------------------------------------------------------
(* The lanes: nobody edits, the commands are orderly and the boards to     *)
(* start from are sound.                                                   *)

LEMMA LanesInvInit ==
    ASSUME Init, \A b \in Boards : SoundBoard(b)
    PROVE  LanesInv
<1>1. IsBoard(files) /\ SoundBoard(files) /\ journal = Absent /\ edits = 0
  BY DEF Init, SoundBoard, IsBoard
<1>2. Whole = files
  BY <1>1, WholeIsFiles
<1> QED
  BY <1>1, <1>2 DEF LanesInv, PromiseInv

LEMMA NoEdit ==
    ASSUME MaxEdits = 0, edits = 0, [Next]_vars
    PROVE  edits' = 0 /\ ~ByHand
<1>1. ASSUME NEW f \in Files, EditByHand(f) PROVE FALSE
  BY <1>1 DEF EditByHand
<1>2. ASSUME NEW p \in Procs, Step(p) \/ Fault(p) \/ Crash(p) PROVE edits' = edits
  BY <1>2 DEF Step, Fault, Crash, Lock, Inspect, NothingToRecover, Replay, RemoveJournal, Run,
              Write, Stage, ReplayFails, RemoveJournalFails, WriteFails, StageFails, Fail, bounds
<1>3. CASE UNCHANGED vars
  BY <1>1, <1>3 DEF vars, ByHand
<1> QED
  BY <1>1, <1>2, <1>3 DEF Next, ByHand

\* A step shows the commands a sound board, which is the old one or what one
\* of them decided.
LEMMA WholeSound ==
    ASSUME MaxEdits = 0, OrderlyCommands, BoardInv, LanesInv, [Next]_vars
    PROVE  SoundBoard(Whole')
<1>1. edits = 0 /\ edits' = 0 /\ SoundBoard(Whole)
  BY NoEdit DEF LanesInv
<1>2. [Abstract!Next]_(Abstract!vars)
  BY NextRefines
<1>3. CASE Whole' = Whole
  BY <1>1, <1>3
<1>4. CASE \E c \in Commands : Whole' = Decide(c, Whole).after
  BY <1>1, <1>4, DecisionSound
<1> QED
  BY <1>1, <1>2, <1>3, <1>4 DEF Abstract!Next, Abstract!Command, Abstract!Edit, Abstract!vars

\* A journal is written by a command that saw the whole board.
LEMMA PromiseKept ==
    ASSUME OrderlyCommands, BoardInv, LanesInv, [Next]_vars
    PROVE  PromiseInv'
<1>1. CASE journal' = journal \/ journal' = Absent
  BY <1>1 DEF LanesInv, PromiseInv
<1>2. ASSUME NEW p \in Procs, pc[p] = "stage", journal' = Intent(p)
      PROVE  PromiseInv'
  <2>1. /\ command[p] \in Commands /\ verdict[p] = Decide(command[p], files) /\ IsBoard(files)
    BY <1>2, PlannedIsBoard
  <2>2. Whole = files
    BY <1>2, <2>1, WholeIsFiles DEF BoardInv, DecidesOnWholeBoard
  <2>3. SoundBoard(files)
    BY <2>2 DEF LanesInv
  <2>4. IdsIn(files["archive"]) \subseteq IdsIn(verdict[p].after["archive"])
    BY <2>1, <2>3, DecisionSound
  <2>5. journal'.before = files /\ journal'.after = verdict[p].after
    BY <1>2 DEF Intent
  <2> QED
    BY <2>4, <2>5 DEF PromiseInv
<1>3. ASSUME NEW p \in Procs, Step(p) \/ Fault(p) \/ Crash(p)
      PROVE  journal' \in {journal, Absent} \/ (pc[p] = "stage" /\ journal' = Intent(p))
  BY <1>3 DEF Step, Fault, Crash, Lock, Inspect, NothingToRecover, Replay, RemoveJournal, Run,
              Write, Stage, ReplayFails, RemoveJournalFails, WriteFails, StageFails, Fail
<1>4. ASSUME NEW f \in Files, EditByHand(f) PROVE journal' = journal
  BY <1>4 DEF EditByHand
<1>5. CASE UNCHANGED vars
  BY <1>1, <1>5 DEF vars
<1> QED
  BY <1>1, <1>2, <1>3, <1>4, <1>5 DEF Next, ByHand

LEMMA LanesInvNext ==
    ASSUME MaxEdits = 0, OrderlyCommands, BoardInv, LanesInv, [Next]_vars
    PROVE  LanesInv'
<1>1. edits = 0
  BY DEF LanesInv
<1> QED
  BY <1>1, NoEdit, WholeSound, PromiseKept DEF LanesInv

\* Under orderly commands and with no edits every board the commands see is
\* sound, whatever fails and whoever dies.
THEOREM LanesInvHolds ==
    ASSUME MaxEdits = 0, OrderlyCommands, \A b \in Boards : SoundBoard(b)
    PROVE  Spec => []LanesInv
<1>1. Init => LanesInv
  BY LanesInvInit
<1>2. BoardInv /\ LanesInv /\ [Next]_vars => LanesInv'
  BY LanesInvNext
<1> QED
  BY <1>1, <1>2, BoardInvHolds, PTL DEF Spec

-----------------------------------------------------------------------------
(* What a sound board says of its lanes.                                   *)

LEMMA OneTaskOnSoundBoard ==
    ASSUME NEW docs, SoundBoard(docs), NEW r
    PROVE  Cardinality(ActiveInLane(docs, r)) <= 1
<1> DEFINE doc == docs["tasks"]
           active == ActiveInLane(docs, r)
<1>1. ValidDocument(doc, "tasks") /\ SoundDocument(doc, "tasks", IdsIn(docs["archive"]))
  BY DEF SoundBoard, Files
<1>2. ASSUME NEW i \in active, NEW k \in active PROVE i = k
  <2>1. /\ i \in Blocks(doc) /\ doc[i].owner = r /\ doc[i].status = "In Progress"
        /\ k \in Blocks(doc) /\ doc[k].owner = r /\ doc[k].status = "In Progress"
    BY DEF ActiveInLane
  <2>2. doc[i] \in InProgress(doc) /\ doc[k] \in InProgress(doc)
    BY <2>1 DEF InProgress, TasksIn
  <2>3. doc[i].id = doc[k].id
    BY <1>1, <2>1, <2>2 DEF SoundDocument
  <2> QED
    BY <1>1, <2>1, <2>3 DEF ValidDocument
<1> HIDE DEF active
<1>3. active = {} => Cardinality(active) = 0
  BY FS_EmptySet
<1>4. ASSUME active # {} PROVE Cardinality(active) = 1
  <2>1. PICK i \in active : TRUE
    BY <1>4
  <2>2. active = {i}
    BY <1>2, <2>1
  <2>3. Cardinality({i}) = 1
    BY FS_Singleton
  <2> QED
    BY <2>2, <2>3
<1>5. Cardinality(active) <= 1
  BY <1>3, <1>4
<1> QED
  BY <1>5 DEF active

\* No worker has two tasks, for any number of workers, tasks and processes,
\* whatever fails and whoever dies (assign.go:33-39).
THEOREM OneTaskPerLaneHolds ==
    ASSUME MaxEdits = 0, OrderlyCommands, \A b \in Boards : SoundBoard(b)
    PROVE  Spec => []OneTaskPerLane
<1>1. LanesInv => OneTaskPerLane
  BY OneTaskOnSoundBoard DEF LanesInv, OneTaskPerLane
<1> QED
  BY <1>1, LanesInvHolds, PTL

\* No task is worked on before what it depends on is archived (assign.go:46).
THEOREM DependenciesFirstHolds ==
    ASSUME MaxEdits = 0, OrderlyCommands, \A b \in Boards : SoundBoard(b)
    PROVE  Spec => []DependenciesFirst
<1>1. LanesInv => DependenciesFirst
  <2> SUFFICES ASSUME LanesInv, NEW i \in Blocks(Whole["tasks"]),
                      Whole["tasks"][i].status = "In Progress"
               PROVE  Whole["tasks"][i].deps \subseteq IdsIn(Whole["archive"])
    BY DEF DependenciesFirst
  <2>1. SoundDocument(Whole["tasks"], "tasks", IdsIn(Whole["archive"]))
    BY DEF LanesInv, SoundBoard, Files
  <2>2. Whole["tasks"][i] \in InProgress(Whole["tasks"])
    BY DEF InProgress, TasksIn
  <2> QED
    BY <2>1, <2>2 DEF SoundDocument
<1> QED
  BY <1>1, LanesInvHolds, PTL

-----------------------------------------------------------------------------
(* What the poll loop reads in the archive without the lock is final.      *)

LEMMA ReplayKeepsDone ==
    ASSUME BoardInv, PromiseInv, NEW p \in Procs, Recovering(p), NEW f \in Files, f \in todo[p],
           files' = [files EXCEPT ![f] = journal.after[f]]
    PROVE  IdsIn(files["archive"]) \subseteq IdsIn(files'["archive"])
<1>1. journal # Absent /\ ~Torn /\ f \in journal.files
  BY DEF BoardInv, RecoveryInv, Recovering
<1>2. IsBoard(files)
  BY DEF BoardInv, ShapeInv, IsBoard
<1>3. files'["archive"] = IF f = "archive" THEN journal.after[f] ELSE files["archive"]
  BY <1>2 DEF IsBoard, Files
<1>4. f = "archive" => files["archive"] \in {journal.before[f], journal.after[f]}
  BY <1>1 DEF Torn, Matched
<1> QED
  BY <1>1, <1>3, <1>4 DEF PromiseInv

LEMMA WriteKeepsDone ==
    ASSUME OrderlyCommands, BoardInv, LanesInv, NEW p \in Procs, pc[p] = "write",
           files' = verdict[p].after
    PROVE  IdsIn(files["archive"]) \subseteq IdsIn(files'["archive"])
<1>1. command[p] \in Commands /\ verdict[p] = Decide(command[p], files) /\ IsBoard(files)
  BY PlannedIsBoard
<1>2. Whole = files
  BY <1>1, WholeIsFiles DEF BoardInv, DecidesOnWholeBoard
<1>3. SoundBoard(files)
  BY <1>2 DEF LanesInv
<1> QED
  BY <1>1, <1>3, DecisionSound

\* A task that the files once showed as archived stays archived, also while a
\* move is half done (archive_verify.go:88, transaction.go:108).
THEOREM DoneReadIsFinalHolds ==
    ASSUME MaxEdits = 0, OrderlyCommands, \A b \in Boards : SoundBoard(b)
    PROVE  Spec => DoneReadIsFinal
<1> DEFINE Lasting == IdsIn(files["archive"]) \subseteq IdsIn(files'["archive"])
<1>1. BoardInv /\ LanesInv /\ [Next]_vars => [Lasting]_vars
  <2> SUFFICES ASSUME BoardInv, LanesInv, [Next]_vars PROVE Lasting
    OBVIOUS
  <2>1. CASE files' = files
    BY <2>1
  <2>2. ASSUME NEW p \in Procs, pc[p] = "write", files' = verdict[p].after PROVE Lasting
    BY <2>2, WriteKeepsDone
  <2>3. ASSUME NEW p \in Procs, Recovering(p), NEW f \in Files, f \in todo[p],
               files' = [files EXCEPT ![f] = journal.after[f]]
        PROVE  Lasting
    BY <2>3, ReplayKeepsDone DEF LanesInv
  <2>4. ASSUME NEW p \in Procs, Step(p) \/ Fault(p) \/ Crash(p)
        PROVE  \/ files' = files
               \/ pc[p] = "write" /\ files' = verdict[p].after
               \/ \E f \in Files : /\ Recovering(p) /\ f \in todo[p]
                                   /\ files' = [files EXCEPT ![f] = journal.after[f]]
    BY <2>4 DEF Step, Fault, Crash, Lock, Inspect, NothingToRecover, Replay, RemoveJournal, Run,
                Write, Stage, ReplayFails, RemoveJournalFails, WriteFails, StageFails, Fail,
                NextToWrite
  <2>5. ~ByHand
    BY NoEdit DEF LanesInv
  <2>6. CASE UNCHANGED vars
    BY <2>1, <2>6 DEF vars
  <2> HIDE DEF Lasting
  <2> QED
    BY <2>1, <2>2, <2>3, <2>4, <2>5, <2>6 DEF Next
<1> QED
  BY <1>1, BoardInvHolds, LanesInvHolds, PTL DEF Spec, DoneReadIsFinal

=============================================================================
