-------------------------- MODULE Secuencias_proofs --------------------------
(***************************************************************************)
(* Lemmas about sequences that the proofs of the other modules share.      *)
(***************************************************************************)
EXTENDS SequencesExt, FiniteSetTheorems, FunctionTheorems, SequenceTheorems,
        WellFoundedInduction, TLAPS

\* A non-empty set of naturals has a minimum.
LEMMA MinimoDeNaturales ==
    ASSUME NEW S \in SUBSET Nat, S # {}
    PROVE  /\ Min(S) \in S
           /\ \A y \in S : Min(S) <= y
<1> DEFINE menor == {ss \in Nat \X Nat : ss[1] < ss[2]}
<1>1. IsWellFoundedOn(menor, Nat)
  BY NatLessThanWellFounded, Zenon DEF OpToRel
<1>2. PICK x \in S : \A y \in S : ~(<<y, x>> \in menor)
  BY <1>1, WFMin
<1>3. ASSUME NEW y \in S PROVE x <= y
  <2>1. x \in Nat /\ y \in Nat
    OBVIOUS
  <2>2. ~(y < x)
    BY <1>2, <2>1, Zenon
  <2> QED BY <2>1, <2>2
<1> QED BY <1>3 DEF Min

\* RemoveAt takes out one position.
LEMMA RemoveAtEs ==
    ASSUME NEW S, NEW s \in Seq(S), NEW i \in 1 .. Len(s)
    PROVE  /\ RemoveAt(s, i) \in Seq(S)
           /\ Len(RemoveAt(s, i)) = Len(s) - 1
           /\ \A j \in 1 .. Len(s) - 1 :
                 RemoveAt(s, i)[j] = IF j < i THEN s[j] ELSE s[j + 1]
<1> DEFINE a == SubSeq(s, 1, i - 1)
           b == SubSeq(s, i + 1, Len(s))
<1>1. a \in Seq(S) /\ Len(a) = i - 1 /\ \A j \in 1 .. i - 1 : a[j] = s[j]
  OBVIOUS
<1>2. b \in Seq(S) /\ Len(b) = Len(s) - i /\ \A j \in 1 .. Len(s) - i : b[j] = s[i + j]
  OBVIOUS
<1>4. RemoveAt(s, i) = a \o b
  BY DEF RemoveAt
<1> HIDE DEF a, b
<1>3. /\ a \o b \in Seq(S) /\ Len(a \o b) = Len(a) + Len(b)
      /\ \A j \in 1 .. Len(a) + Len(b) :
            (a \o b)[j] = IF j <= Len(a) THEN a[j] ELSE b[j - Len(a)]
  BY <1>1, <1>2, ConcatProperties
<1>5. ASSUME NEW j \in 1 .. Len(s) - 1, j < i
      PROVE  (a \o b)[j] = s[j]
  BY <1>1, <1>2, <1>3, <1>5
<1>6. ASSUME NEW j \in 1 .. Len(s) - 1, ~(j < i)
      PROVE  (a \o b)[j] = s[j + 1]
  <2>1. (a \o b)[j] = b[j - (i - 1)]
    BY <1>1, <1>2, <1>3, <1>6
  <2>2. j - (i - 1) \in 1 .. Len(s) - i
    BY <1>6
  <2>3. b[j - (i - 1)] = s[i + (j - (i - 1))]
    BY <1>2, <2>2
  <2>4. i + (j - (i - 1)) = j + 1
    OBVIOUS
  <2> QED BY <2>1, <2>3, <2>4
<1>7. Len(a \o b) = Len(s) - 1
  BY <1>1, <1>2, <1>3
<1> QED BY <1>3, <1>4, <1>5, <1>6, <1>7

\* RemoveFirst removes an element that is there at some position of it.
LEMMA RemoveFirstAt ==
    ASSUME NEW S, NEW s \in Seq(S), NEW e, e \in Range(s)
    PROVE  \E i \in 1 .. Len(s) : s[i] = e /\ RemoveFirst(s, e) = RemoveAt(s, i)
<1> DEFINE I == {i \in 1 .. Len(s) : s[i] = e}
<1>1. I # {} /\ I \in SUBSET Nat
  BY DEF Range
<1>2. Min(I) \in I
  BY <1>1, MinimoDeNaturales
<1>3. RemoveFirst(s, e) = RemoveAt(s, Min(I))
  BY <1>1 DEF RemoveFirst, SelectInSeq
<1> QED BY <1>2, <1>3

\* RemoveFirst shortens the sequence by one when the element is in it.
LEMMA RemoveFirstEs ==
    ASSUME NEW S, NEW s \in Seq(S), NEW e
    PROVE  /\ RemoveFirst(s, e) \in Seq(S)
           /\ e \in Range(s) => Len(RemoveFirst(s, e)) = Len(s) - 1
           /\ e \notin Range(s) => RemoveFirst(s, e) = s
<1> DEFINE I == {i \in 1 .. Len(s) : s[i] = e}
<1>1. e \in Range(s) <=> I # {}
  BY DEF Range
<1>2. CASE I # {}
  <2>1. Min(I) \in 1 .. Len(s)
    <3>1. I \in SUBSET Nat
      OBVIOUS
    <3>2. Min(I) \in I
      BY <1>2, <3>1, MinimoDeNaturales
    <3> QED BY <3>2
  <2>2. RemoveFirst(s, e) = RemoveAt(s, Min(I))
    BY <1>2 DEF RemoveFirst, SelectInSeq
  <2> QED BY <2>1, <2>2, <1>1, <1>2, RemoveAtEs
<1>3. CASE I = {}
  BY <1>1, <1>3 DEF RemoveFirst
<1> QED BY <1>2, <1>3

\* Append adds one element at the end.
LEMMA AppendEs ==
    ASSUME NEW S, NEW s \in Seq(S), NEW e \in S
    PROVE  /\ Append(s, e) \in Seq(S) /\ Append(s, e) # << >>
           /\ Len(Append(s, e)) = Len(s) + 1
           /\ Range(Append(s, e)) = Range(s) \cup {e}
<1>1. /\ Append(s, e) \in Seq(S) /\ Append(s, e) # << >>
      /\ Len(Append(s, e)) = Len(s) + 1
      /\ \A i \in 1 .. Len(s) : Append(s, e)[i] = s[i]
      /\ Append(s, e)[Len(s) + 1] = e
  BY AppendProperties
<1>2. /\ DOMAIN s = 1 .. Len(s) /\ DOMAIN Append(s, e) = 1 .. Len(s) + 1
      /\ Len(s) \in Nat
  BY <1>1
<1>3. ASSUME NEW x \in Range(s) \cup {e} PROVE x \in Range(Append(s, e))
  BY <1>1, <1>2 DEF Range
<1>4. ASSUME NEW x \in Range(Append(s, e)) PROVE x \in Range(s) \cup {e}
  <2>1. PICK i \in 1 .. Len(s) + 1 : Append(s, e)[i] = x
    BY <1>2 DEF Range
  <2>2. CASE i = Len(s) + 1
    BY <1>1, <2>1, <2>2
  <2>3. CASE i \in 1 .. Len(s)
    BY <1>1, <1>2, <2>1, <2>3 DEF Range
  <2> QED BY <1>2, <2>2, <2>3
<1> QED BY <1>1, <1>3, <1>4

\* A sequence without repetitions stays so when it gets an element it lacked.
LEMMA AgregaInyectiva ==
    ASSUME NEW S, NEW s \in Seq(S), NEW e \in S, IsInjective(s), e \notin Range(s)
    PROVE  IsInjective(Append(s, e))
<1>1. /\ DOMAIN s = 1 .. Len(s) /\ DOMAIN Append(s, e) = 1 .. Len(s) + 1
      /\ Len(s) \in Nat
      /\ \A i \in 1 .. Len(s) : Append(s, e)[i] = s[i]
      /\ Append(s, e)[Len(s) + 1] = e
  BY AppendProperties
<1>2. \A i, j \in 1 .. Len(s) : s[i] = s[j] => i = j
  BY <1>1 DEF IsInjective
<1>3. \A i \in 1 .. Len(s) : s[i] # e
  BY <1>1 DEF Range
<1>4. ASSUME NEW i \in 1 .. Len(s) + 1, NEW j \in 1 .. Len(s) + 1,
             Append(s, e)[i] = Append(s, e)[j]
      PROVE  i = j
  <2>1. CASE i = Len(s) + 1 \/ j = Len(s) + 1
    BY <1>1, <1>3, <1>4, <2>1
  <2>2. CASE i \in 1 .. Len(s) /\ j \in 1 .. Len(s)
    BY <1>1, <1>2, <1>4, <2>2
  <2> QED BY <1>1, <2>1, <2>2
<1> QED BY <1>1, <1>4 DEF IsInjective

\* Taking an element out of a sequence that has it once leaves the rest.
LEMMA QuitaInyectiva ==
    ASSUME NEW S, NEW s \in Seq(S), NEW e, e \in Range(s), IsInjective(s)
    PROVE  /\ RemoveFirst(s, e) \in Seq(S) /\ IsInjective(RemoveFirst(s, e))
           /\ Range(RemoveFirst(s, e)) = Range(s) \ {e}
<1>1. PICK i \in 1 .. Len(s) : s[i] = e /\ RemoveFirst(s, e) = RemoveAt(s, i)
  BY RemoveFirstAt
<1>2. PICK t : t = RemoveFirst(s, e)
  OBVIOUS
<1>3. PICK n \in Nat : n = Len(s)
  OBVIOUS
<1>4. /\ t \in Seq(S) /\ DOMAIN t = 1 .. n - 1
      /\ \A j \in 1 .. n - 1 : t[j] = IF j < i THEN s[j] ELSE s[j + 1]
  BY <1>1, <1>2, <1>3, RemoveAtEs
<1>5. i \in 1 .. n /\ DOMAIN s = 1 .. n /\ \A a, b \in 1 .. n : s[a] = s[b] => a = b
  BY <1>1, <1>3 DEF IsInjective
<1>6. ASSUME NEW a \in 1 .. n - 1, NEW b \in 1 .. n - 1, t[a] = t[b]
      PROVE  a = b
  <2> DEFINE De(j) == IF j < i THEN j ELSE j + 1
  <2>1. De(a) \in 1 .. n /\ De(b) \in 1 .. n /\ s[De(a)] = s[De(b)]
    BY <1>4, <1>5, <1>6
  <2>2. De(a) = De(b)
    BY <1>5, <2>1
  <2> QED BY <1>5, <2>2
<1>7. IsInjective(t)
  BY <1>4, <1>6 DEF IsInjective
<1>8. ASSUME NEW j \in 1 .. n - 1
      PROVE  t[j] \in Range(s) \ {e}
  <2>1. CASE j < i
    <3>1. t[j] = s[j] /\ j \in 1 .. n /\ j # i
      BY <1>4, <1>5, <2>1
    <3> QED BY <1>1, <1>5, <3>1 DEF Range
  <2>2. CASE ~(j < i)
    <3>1. t[j] = s[j + 1] /\ j + 1 \in 1 .. n /\ j + 1 # i
      BY <1>4, <1>5, <2>2
    <3> QED BY <1>1, <1>5, <3>1 DEF Range
  <2> QED BY <2>1, <2>2
<1>9. ASSUME NEW x \in Range(s) \ {e}
      PROVE  x \in Range(t)
  <2>1. PICK k \in 1 .. n : x = s[k]
    BY <1>5 DEF Range
  <2>2. k # i
    BY <1>1, <2>1
  <2>3. CASE k < i
    <3>1. k \in 1 .. n - 1 /\ t[k] = s[k]
      BY <1>4, <1>5, <2>3
    <3> QED BY <1>4, <2>1, <3>1 DEF Range
  <2>4. CASE k > i
    <3>1. k - 1 \in 1 .. n - 1 /\ t[k - 1] = s[(k - 1) + 1] /\ (k - 1) + 1 = k
      BY <1>4, <1>5, <2>4
    <3> QED BY <1>4, <2>1, <3>1 DEF Range
  <2> QED BY <1>5, <2>2, <2>3, <2>4
<1>10. Range(t) = Range(s) \ {e}
  <2>1. Range(t) \subseteq Range(s) \ {e}
    BY <1>4, <1>8 DEF Range
  <2> QED BY <1>9, <2>1
<1> QED BY <1>2, <1>4, <1>7, <1>10

\* Tail takes out the head.
LEMMA TailEs ==
    ASSUME NEW S, NEW s \in Seq(S), s # << >>
    PROVE  /\ Head(s) \in S /\ Tail(s) \in Seq(S) /\ Len(Tail(s)) = Len(s) - 1
           /\ Range(s) = Range(Tail(s)) \cup {Head(s)}
           /\ IsInjective(s) => IsInjective(Tail(s)) /\ Head(s) \notin Range(Tail(s))
<1>1. /\ Head(s) \in S /\ Tail(s) \in Seq(S) /\ Len(Tail(s)) = Len(s) - 1
      /\ \A i \in 1 .. Len(Tail(s)) : Tail(s)[i] = s[i + 1]
      /\ Head(s) = s[1]
  BY HeadTailProperties
<1>2. /\ DOMAIN s = 1 .. Len(s) /\ DOMAIN Tail(s) = 1 .. Len(s) - 1
      /\ Len(s) \in Nat /\ Len(s) > 0
  BY <1>1
<1>3. ASSUME NEW x \in Range(Tail(s)) \cup {Head(s)} PROVE x \in Range(s)
  <2>1. CASE x = Head(s)
    BY <1>1, <1>2, <2>1 DEF Range
  <2>2. CASE x \in Range(Tail(s))
    <3>1. PICK i \in 1 .. Len(s) - 1 : Tail(s)[i] = x
      BY <1>2, <2>2 DEF Range
    <3>2. i + 1 \in 1 .. Len(s) /\ s[i + 1] = x
      BY <1>1, <1>2, <3>1
    <3> QED BY <1>2, <3>2 DEF Range
  <2> QED BY <2>1, <2>2
<1>4. ASSUME NEW x \in Range(s) PROVE x \in Range(Tail(s)) \cup {Head(s)}
  <2>1. PICK i \in 1 .. Len(s) : s[i] = x
    BY <1>2 DEF Range
  <2>2. CASE i = 1
    BY <1>1, <2>1, <2>2
  <2>3. CASE i # 1
    <3>1. i - 1 \in 1 .. Len(s) - 1 /\ Tail(s)[i - 1] = s[(i - 1) + 1] /\ (i - 1) + 1 = i
      BY <1>1, <1>2, <2>1, <2>3
    <3> QED BY <1>2, <2>1, <3>1 DEF Range
  <2> QED BY <2>2, <2>3
<1>5. ASSUME IsInjective(s)
      PROVE  IsInjective(Tail(s)) /\ Head(s) \notin Range(Tail(s))
  <2>1. \A i, j \in 1 .. Len(s) : s[i] = s[j] => i = j
    BY <1>2, <1>5 DEF IsInjective
  <2>2. ASSUME NEW i \in 1 .. Len(s) - 1, NEW j \in 1 .. Len(s) - 1, Tail(s)[i] = Tail(s)[j]
        PROVE  i = j
    <3>1. /\ i + 1 \in 1 .. Len(s) /\ j + 1 \in 1 .. Len(s)
          /\ s[i + 1] = s[j + 1]
      BY <1>1, <1>2, <2>2
    <3>2. i + 1 = j + 1
      BY <2>1, <3>1
    <3> QED BY <3>2
  <2>3. ASSUME NEW i \in 1 .. Len(s) - 1 PROVE Tail(s)[i] # Head(s)
    <3>1. i + 1 \in 1 .. Len(s) /\ 1 \in 1 .. Len(s) /\ i + 1 # 1 /\ Tail(s)[i] = s[i + 1]
      BY <1>1, <1>2
    <3> QED BY <1>1, <2>1, <3>1
  <2> QED BY <1>2, <2>2, <2>3 DEF IsInjective, Range
<1> QED BY <1>1, <1>3, <1>4, <1>5

\* What SelectInSeq computes for the elements of a set.
Primera(s, A) ==
    LET I == {k \in 1 .. Len(s) : s[k] \in A} IN IF I # {} THEN Min(I) ELSE 0

\* It is the first position of an element of the set, 0 if there is none.
LEMMA PrimeraPosicion ==
    ASSUME NEW S, NEW s \in Seq(S), NEW A, NEW i, i = Primera(s, A)
    PROVE  /\ i \in 0 .. Len(s)
           /\ i # 0 => s[i] \in A /\ \A k \in 1 .. i - 1 : s[k] \notin A
           /\ i = 0 => \A k \in 1 .. Len(s) : s[k] \notin A
<1> DEFINE I == {k \in 1 .. Len(s) : s[k] \in A}
<1>1. CASE I # {}
  <2>1. I \in SUBSET Nat
    OBVIOUS
  <2>2. Min(I) \in I /\ \A k \in I : Min(I) <= k
    BY <1>1, <2>1, MinimoDeNaturales
  <2>3. i = Min(I)
    BY <1>1 DEF Primera
  <2>4. i \in 1 .. Len(s) /\ s[i] \in A
    BY <2>2, <2>3
  <2>5. ASSUME NEW k \in 1 .. i - 1 PROVE s[k] \notin A
    <3>1. k \in 1 .. Len(s) /\ ~(i <= k)
      BY <2>4
    <3>2. k \notin I
      BY <2>2, <2>3, <3>1, Zenon
    <3> QED BY <3>1, <3>2
  <2>6. i # 0 /\ i \in 0 .. Len(s)
    BY <2>4
  <2> QED BY <2>4, <2>5, <2>6
<1>2. CASE I = {}
  BY <1>2 DEF Primera
<1> QED BY <1>1, <1>2

-----------------------------------------------------------------------------
(* How many times an element is in a sequence.                             *)

Lugares(s, e) == {i \in 1 .. Len(s) : s[i] = e}
VecesEn(s, e) == Cardinality(Lugares(s, e))

\* It is a number, positive when the element is there.
LEMMA VecesEs ==
    ASSUME NEW S, NEW s \in Seq(S), NEW e
    PROVE  /\ IsFiniteSet(Lugares(s, e))
           /\ VecesEn(s, e) \in Nat
           /\ VecesEn(s, e) > 0 => e \in Range(s)
<1> DEFINE I == Lugares(s, e)
<1>1. IsFiniteSet(1 .. Len(s))
  BY FS_Interval
<1>2. IsFiniteSet(I) /\ Cardinality(I) \in Nat
  BY <1>1, FS_Subset, FS_CardinalityType DEF Lugares
<1>3. Cardinality(I) > 0 => I # {}
  BY <1>2, FS_EmptySet
<1>4. I # {} => e \in Range(s)
  BY DEF Range, Lugares
<1> QED BY <1>2, <1>3, <1>4 DEF VecesEn

\* An element of a sequence without repetitions is in it once.
LEMMA VecesInyectiva ==
    ASSUME NEW S, NEW s \in Seq(S), NEW e, IsInjective(s)
    PROVE  VecesEn(s, e) <= 1
<1>1. CASE Lugares(s, e) = {}
  BY <1>1, FS_EmptySet DEF VecesEn
<1>2. CASE Lugares(s, e) # {}
  <2>1. PICK i : i \in Lugares(s, e)
    BY <1>2
  <2>2. Lugares(s, e) = {i}
    BY <2>1 DEF Lugares, IsInjective
  <2>3. Cardinality(Lugares(s, e)) = 1
    BY <2>2, FS_Singleton, Zenon
  <2> QED BY <2>3 DEF VecesEn
<1> QED BY <1>1, <1>2

\* Append adds one time.
LEMMA VecesAppend ==
    ASSUME NEW S, NEW s \in Seq(S), NEW x \in S, NEW e
    PROVE  VecesEn(Append(s, x), e) = VecesEn(s, e) + (IF x = e THEN 1 ELSE 0)
<1> DEFINE n == Len(s)
           I == Lugares(s, e)
           J == Lugares(Append(s, x), e)
<1>1. /\ n \in Nat /\ Len(Append(s, x)) = n + 1 /\ Append(s, x)[n + 1] = x
      /\ \A i \in 1 .. n : Append(s, x)[i] = s[i]
  BY AppendProperties
<1>2. IsFiniteSet(I) /\ n + 1 \notin I
  <2>1. IsFiniteSet(Lugares(s, e))
    BY VecesEs
  <2> QED BY <1>1, <2>1 DEF Lugares
<1>3. Cardinality(I \cup {n + 1}) = Cardinality(I) + 1
  BY <1>2, FS_AddElement
<1>4. J = IF x = e THEN I \cup {n + 1} ELSE I
  <2>1. 1 .. n + 1 = (1 .. n) \cup {n + 1}
    BY <1>1
  <2> QED BY <1>1, <2>1 DEF Lugares
<1>5. Cardinality(I) \in Nat
  BY VecesEs DEF VecesEn
<1> HIDE DEF I, J
<1>6. Cardinality(J) = Cardinality(I) + (IF x = e THEN 1 ELSE 0)
  BY <1>3, <1>4, <1>5
<1> QED BY <1>6 DEF VecesEn, I, J

\* RemoveFirst takes away one time of its element, if any, and none of another.
LEMMA VecesRemoveFirst ==
    ASSUME NEW S, NEW s \in Seq(S), NEW x, NEW e
    PROVE  VecesEn(RemoveFirst(s, x), e) >= VecesEn(s, e) - (IF x = e THEN 1 ELSE 0)
<1>0. VecesEn(s, e) \in Nat
  BY VecesEs
<1>1. CASE x \notin Range(s)
  <2>1. RemoveFirst(s, x) = s
    BY <1>1, RemoveFirstEs
  <2> QED BY <1>0, <2>1
<1>2. CASE x \in Range(s)
  <2>1. PICK r \in Seq(S) : r = RemoveFirst(s, x)
    BY RemoveFirstEs
  <2>2. PICK k \in 1 .. Len(s) : s[k] = x /\ r = RemoveAt(s, k)
    BY <1>2, <2>1, RemoveFirstAt
  <2>3. /\ Len(r) = Len(s) - 1 /\ Len(s) \in Nat
        /\ \A j \in 1 .. Len(s) - 1 : r[j] = IF j < k THEN s[j] ELSE s[j + 1]
    <3>1. PICK q : q = RemoveAt(s, k)
      OBVIOUS
    <3>2. /\ Len(q) = Len(s) - 1
          /\ \A j \in 1 .. Len(s) - 1 : q[j] = IF j < k THEN s[j] ELSE s[j + 1]
      BY ONLY <3>1, s \in Seq(S), k \in 1 .. Len(s), RemoveAtEs
    <3> QED BY <2>2, <3>1, <3>2
  <2> DEFINE I == Lugares(s, e)
             J == Lugares(r, e)
             f == [i \in I \ {k} |-> IF i < k THEN i ELSE i - 1]
  <2>4. IsFiniteSet(I) /\ IsFiniteSet(J)
    BY VecesEs
  <2>5. f \in [I \ {k} -> J]
    <3>1. ASSUME NEW i \in I \ {k} PROVE (IF i < k THEN i ELSE i - 1) \in J
      BY <2>2, <2>3 DEF Lugares
    <3> QED BY <3>1
  <2>6. \A a, b \in I \ {k} : f[a] = f[b] => a = b
    BY <2>2 DEF Lugares
  <2> HIDE DEF f
  <2>7. f \in Injection(I \ {k}, J)
    BY <2>5, <2>6 DEF Injection, IsInjective
  <2>8. Cardinality(I \ {k}) <= Cardinality(J)
    <3> HIDE DEF I, J
    <3> QED BY <2>4, <2>7, FS_Injection
  <2>9. Cardinality(I \ {k}) = IF k \in I THEN Cardinality(I) - 1 ELSE Cardinality(I)
    <3> HIDE DEF I
    <3> QED BY <2>4, FS_RemoveElement
  <2>10. k \in I <=> x = e
    BY <2>2 DEF Lugares
  <2>11. Cardinality(I) \in Nat /\ Cardinality(J) \in Nat
    BY <2>4, FS_CardinalityType
  <2>12. Cardinality(J) >= Cardinality(I) - (IF x = e THEN 1 ELSE 0)
    <3> HIDE DEF I, J
    <3> QED BY <2>8, <2>9, <2>10, <2>11
  <2> QED BY <2>1, <2>12 DEF VecesEn
<1> QED BY <1>1, <1>2
=============================================================================
