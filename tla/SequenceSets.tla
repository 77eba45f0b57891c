---------------------------- MODULE SequenceSets ----------------------------
(***************************************************************************)
(* Facts about sequences that the proofs of the walks share: the set of    *)
(* the elements, and a stack whose last element is taken or replaced.      *)
(***************************************************************************)
EXTENDS SequencesExt, SequenceTheorems, NaturalsInduction, WellFoundedInduction, TLAPS

LEMMA ConcatSet ==
    ASSUME NEW S, NEW s \in Seq(S), NEW t \in Seq(S)
    PROVE  ToSet(s \o t) = ToSet(s) \cup ToSet(t)
  <1>1. /\ DOMAIN s = 1..Len(s) /\ DOMAIN t = 1..Len(t) /\ DOMAIN (s \o t) = 1..(Len(s) + Len(t))
        /\ Len(s) \in Nat /\ Len(t) \in Nat
        /\ \A i \in 1..(Len(s) + Len(t)) :
                (s \o t)[i] = IF i <= Len(s) THEN s[i] ELSE t[i - Len(s)]
    BY LenProperties, ConcatProperties
  <1>2. ASSUME NEW x \in ToSet(s \o t) PROVE x \in ToSet(s) \cup ToSet(t)
    <2>1. PICK i \in 1..(Len(s) + Len(t)) : x = (s \o t)[i]
      BY <1>1, <1>2 DEF ToSet
    <2>2. CASE i <= Len(s)
      BY <1>1, <2>1, <2>2 DEF ToSet
    <2>3. CASE ~(i <= Len(s))
      <3>1. i - Len(s) \in 1..Len(t) /\ x = t[i - Len(s)]
        BY <1>1, <2>1, <2>3
      <3> QED BY <1>1, <3>1 DEF ToSet
    <2> QED BY <2>2, <2>3
  <1>3. ASSUME NEW i \in 1..Len(s) PROVE s[i] \in ToSet(s \o t)
    <2>1. i \in 1..(Len(s) + Len(t)) /\ (s \o t)[i] = s[i]
      BY <1>1
    <2> QED BY <1>1, <2>1 DEF ToSet
  <1>4. ASSUME NEW i \in 1..Len(t) PROVE t[i] \in ToSet(s \o t)
    <2>1. i + Len(s) \in 1..(Len(s) + Len(t)) /\ (s \o t)[i + Len(s)] = t[i]
      BY <1>1
    <2> QED BY <1>1, <2>1 DEF ToSet
  <1> QED BY <1>1, <1>2, <1>3, <1>4 DEF ToSet

LEMMA TailSet ==
    ASSUME NEW S, NEW s \in Seq(S), s # <<>>
    PROVE  /\ Head(s) \in S /\ Tail(s) \in Seq(S)
           /\ ToSet(s) = {Head(s)} \cup ToSet(Tail(s))
  <1>1. /\ Head(s) \in S /\ Tail(s) \in Seq(S) /\ Len(Tail(s)) = Len(s) - 1
        /\ \A i \in 1..Len(Tail(s)) : Tail(s)[i] = s[i + 1]
        /\ Head(s) = s[1] /\ Len(s) \in Nat \ {0}
        /\ DOMAIN s = 1..Len(s) /\ DOMAIN Tail(s) = 1..Len(Tail(s))
    BY HeadTailProperties, LenProperties, EmptySeq
  <1>2. ASSUME NEW x \in ToSet(s) PROVE x \in {Head(s)} \cup ToSet(Tail(s))
    <2>1. PICK i \in 1..Len(s) : x = s[i]
      BY <1>1, <1>2 DEF ToSet
    <2>2. CASE i # 1
      <3>1. i - 1 \in 1..Len(Tail(s)) /\ x = Tail(s)[i - 1]
        BY <1>1, <2>1, <2>2
      <3> QED BY <1>1, <3>1 DEF ToSet
    <2> QED BY <1>1, <2>1, <2>2
  <1>3. Head(s) \in ToSet(s)
    BY <1>1 DEF ToSet
  <1>4. ASSUME NEW i \in 1..Len(Tail(s)) PROVE Tail(s)[i] \in ToSet(s)
    <2>1. i + 1 \in 1..Len(s) /\ Tail(s)[i] = s[i + 1]
      BY <1>1
    <2> QED BY <1>1, <2>1 DEF ToSet
  <1> QED BY <1>1, <1>2, <1>3, <1>4 DEF ToSet

LEMMA HeadApart ==
    ASSUME NEW S, NEW s \in Seq(S), s # <<>>, IsInjective(s)
    PROVE  IsInjective(Tail(s)) /\ Head(s) \notin ToSet(Tail(s))
  <1> DEFINE n == Len(s)
             t == Tail(s)
  <1>1. /\ Len(t) = n - 1 /\ \A i \in 1..Len(t) : t[i] = s[i + 1]
        /\ Head(s) = s[1] /\ n \in Nat \ {0}
        /\ DOMAIN s = 1..n /\ DOMAIN t = 1..Len(t)
    BY HeadTailProperties, LenProperties, EmptySeq
  <1> HIDE DEF n, t
  <1>2. /\ 1 \in 1..n /\ \A i \in 1..(n - 1) : i + 1 \in 1..n /\ i + 1 # 1
        /\ \A i, j \in 1..(n - 1) : i + 1 = j + 1 => i = j
    BY <1>1
  <1>3. \A i, j \in 1..n : s[i] = s[j] => i = j
    BY <1>1 DEF IsInjective
  <1> QED BY <1>1, <1>2, <1>3 DEF IsInjective, ToSet, t

LEMMA SingleSet ==
    ASSUME NEW S, NEW e \in S
    PROVE  <<e>> \in Seq(S) /\ ToSet(<<e>>) = {e}
  <1>1. DOMAIN <<e>> = 1..1 /\ <<e>>[1] = e /\ <<e>> \in Seq(S)
    OBVIOUS
  <1> QED BY <1>1 DEF ToSet

LEMMA AppendSet ==
    ASSUME NEW S, NEW s \in Seq(S), NEW e \in S
    PROVE  /\ Append(s, e) \in Seq(S)
           /\ ToSet(Append(s, e)) = ToSet(s) \cup {e}
  <1> DEFINE t == <<e>>
  <1>1. t \in Seq(S) /\ ToSet(t) = {e}
    BY SingleSet
  <1>2. Append(s, e) \in Seq(S) /\ Append(s, e) = s \o t
    BY AppendProperties, AppendIsConcat
  <1> HIDE DEF t
  <1>3. ToSet(s \o t) = ToSet(s) \cup ToSet(t)
    BY <1>1, ConcatSet
  <1> QED BY <1>1, <1>2, <1>3

(* A new element leaves a sequence without repetitions.                    *)
LEMMA AppendNew ==
    ASSUME NEW S, NEW s \in Seq(S), NEW e \in S, IsInjective(s), e \notin ToSet(s)
    PROVE  IsInjective(Append(s, e))
  <1> DEFINE t == Append(s, e)
  <1>1. /\ Len(s) \in Nat /\ DOMAIN s = 1..Len(s) /\ DOMAIN t = 1..(Len(s) + 1)
        /\ t[Len(s) + 1] = e /\ \A i \in 1..Len(s) : t[i] = s[i]
    BY AppendProperties, LenProperties
  <1> HIDE DEF t
  <1>2. \A i \in 1..Len(s) : s[i] # e
    BY <1>1 DEF ToSet
  <1>3. \A i, j \in 1..Len(s) : s[i] = s[j] => i = j
    BY <1>1 DEF IsInjective
  <1>4. \A i \in 1..(Len(s) + 1) : i = Len(s) + 1 \/ i \in 1..Len(s)
    BY <1>1
  <1>5. \A i, j \in 1..(Len(s) + 1) : t[i] = t[j] => i = j
    BY <1>1, <1>2, <1>3, <1>4
  <1> QED BY <1>1, <1>5 DEF IsInjective, t

(* Sequences without repetitions that share no element join into another.  *)
LEMMA ConcatNew ==
    ASSUME NEW S, NEW s \in Seq(S), NEW t \in Seq(S), IsInjective(s), IsInjective(t),
           ToSet(s) \cap ToSet(t) = {}
    PROVE  IsInjective(s \o t)
  <1> DEFINE u == s \o t
  <1>1. /\ DOMAIN s = 1..Len(s) /\ DOMAIN t = 1..Len(t) /\ DOMAIN u = 1..(Len(s) + Len(t))
        /\ Len(s) \in Nat /\ Len(t) \in Nat
        /\ \A i \in 1..(Len(s) + Len(t)) :
                u[i] = IF i <= Len(s) THEN s[i] ELSE t[i - Len(s)]
    BY LenProperties, ConcatProperties
  <1> HIDE DEF u
  <1>2. \A i \in 1..Len(s) : \A j \in 1..Len(t) : s[i] # t[j]
    BY <1>1 DEF ToSet
  <1>3. /\ \A i, j \in 1..Len(s) : s[i] = s[j] => i = j
        /\ \A i, j \in 1..Len(t) : t[i] = t[j] => i = j
    BY <1>1 DEF IsInjective
  <1> SUFFICES ASSUME NEW i \in 1..(Len(s) + Len(t)), NEW j \in 1..(Len(s) + Len(t)),
                      u[i] = u[j]
               PROVE  i = j
    BY <1>1 DEF IsInjective, u
  <1>4. \A k \in 1..(Len(s) + Len(t)) : k <= Len(s) => k \in 1..Len(s) /\ u[k] = s[k]
    BY <1>1
  <1>5. \A k \in 1..(Len(s) + Len(t)) : ~(k <= Len(s)) =>
            k - Len(s) \in 1..Len(t) /\ u[k] = t[k - Len(s)]
    BY <1>1
  <1>6. CASE i <= Len(s) /\ j <= Len(s)
    BY <1>3, <1>4, <1>6
  <1>7. CASE ~(i <= Len(s)) /\ ~(j <= Len(s))
    <2>1. i - Len(s) = j - Len(s)
      BY <1>3, <1>5, <1>7
    <2> QED BY <1>1, <2>1
  <1>8. CASE i <= Len(s) /\ ~(j <= Len(s))
    BY <1>2, <1>4, <1>5, <1>8
  <1>9. CASE ~(i <= Len(s)) /\ j <= Len(s)
    BY <1>2, <1>4, <1>5, <1>9
  <1> QED BY <1>6, <1>7, <1>8, <1>9

(* A sequence without its last element, and with another in its place.     *)
LEMMA LastReplaced ==
    ASSUME NEW S, NEW s \in Seq(S), s # <<>>, NEW e \in S
    PROVE  /\ Len(s) \in Nat \ {0} /\ Last(s) = s[Len(s)] /\ Last(s) \in S
           /\ Front(s) \in Seq(S) /\ Len(Front(s)) = Len(s) - 1
           /\ \A i \in 1..(Len(s) - 1) : Front(s)[i] = s[i]
           /\ Append(Front(s), e) \in Seq(S) /\ Len(Append(Front(s), e)) = Len(s)
           /\ \A i \in 1..Len(s) :
                Append(Front(s), e)[i] = IF i = Len(s) THEN e ELSE s[i]
  <1> DEFINE n == Len(s)
  <1>1. n \in Nat \ {0} /\ Last(s) = s[n] /\ \A i \in 1..n : s[i] \in S
    BY LenProperties, EmptySeq, ElementOfSeq DEF Last
  <1>2. /\ Front(s) \in Seq(S) /\ Len(Front(s)) = n - 1
        /\ \A i \in 1..(n - 1) : Front(s)[i] = s[i]
    <2>1. n - 1 \in Int /\ \A i \in 1..(n - 1) : s[i] \in S
      BY <1>1
    <2>2. /\ SubSeq(s, 1, n - 1) \in Seq(S)
          /\ Len(SubSeq(s, 1, n - 1)) = IF 1 <= n - 1 THEN n - 1 - 1 + 1 ELSE 0
          /\ \A i \in 1..(n - 1 - 1 + 1) : SubSeq(s, 1, n - 1)[i] = s[1 + i - 1]
      BY <2>1, SubSeqProperties, 1 \in Int
    <2>3. (IF 1 <= n - 1 THEN n - 1 - 1 + 1 ELSE 0) = n - 1 /\ n - 1 - 1 + 1 = n - 1
      <3>1. \A m \in Nat \ {0} :
                (IF 1 <= m - 1 THEN m - 1 - 1 + 1 ELSE 0) = m - 1 /\ m - 1 - 1 + 1 = m - 1
        OBVIOUS
      <3> QED BY <1>1, <3>1
    <2>4. \A i \in 1..(n - 1) : 1 + i - 1 = i
      OBVIOUS
    <2> QED BY <2>2, <2>3, <2>4 DEF Front
  <1> DEFINE t == Front(s)
  <1> HIDE DEF n, t
  <1>3. /\ Append(t, e) \in Seq(S) /\ Len(Append(t, e)) = Len(t) + 1
        /\ \A i \in 1..Len(t) : Append(t, e)[i] = t[i]
        /\ Append(t, e)[Len(t) + 1] = e
    BY <1>2, AppendProperties DEF t
  <1>4. /\ Len(Append(t, e)) = n
        /\ \A i \in 1..n : Append(t, e)[i] = IF i = n THEN e ELSE s[i]
    BY <1>1, <1>2, <1>3 DEF t
  <1> QED BY <1>1, <1>2, <1>3, <1>4 DEF n, t

(* A sequence whose last two elements become one, `e`.                     *)
PairAs(s, e) == [SubSeq(s, 1, Len(s) - 1) EXCEPT ![Len(s) - 1] = e]

LEMMA PairReplaced ==
    ASSUME NEW S, NEW s \in Seq(S), NEW e \in S, Len(s) # 0, Len(s) # 1
    PROVE  /\ PairAs(s, e) \in Seq(S) /\ Len(PairAs(s, e)) = Len(s) - 1
           /\ PairAs(s, e) # <<>>
           /\ \A i \in 1..(Len(s) - 1) :
                PairAs(s, e)[i] = IF i = Len(s) - 1 THEN e ELSE s[i]
  <1> DEFINE n == Len(s)
             t == PairAs(s, e)
             u == Front(s)
  <1>1. n \in Nat \ {0} /\ s # <<>>
    BY LenProperties, EmptySeq
  <1>2. n - 1 \in 1..n /\ n \in 1..n /\ n - 1 \in 1..(n - 1) /\ n - 1 # 0
    <2>1. \A k \in Nat : k # 0 /\ k # 1 =>
              k - 1 \in 1..k /\ k \in 1..k /\ k - 1 \in 1..(k - 1) /\ k - 1 # 0
      OBVIOUS
    <2> QED BY <1>1, <2>1
  <1>3. /\ u \in Seq(S) /\ Len(u) = n - 1
        /\ \A i \in 1..(n - 1) : u[i] = s[i]
    BY <1>1, LastReplaced
  <1>4. t = [u EXCEPT ![n - 1] = e]
    BY DEF Front, PairAs
  <1> HIDE DEF n, u, t
  <1>5. /\ t \in Seq(S) /\ Len(t) = n - 1
        /\ \A i \in 1..(n - 1) : t[i] = IF i = n - 1 THEN e ELSE u[i]
    BY <1>2, <1>3, <1>4, ExceptSeq
  <1>6. t # <<>>
    BY <1>2, <1>5, EmptySeq
  <1> QED BY <1>2, <1>3, <1>5, <1>6 DEF n, t

(* A set of numbers that has one has a least.                              *)
LEMMA LeastNumber ==
    ASSUME NEW S \in SUBSET Nat, S # {}
    PROVE  \E x \in S : \A y \in S : x <= y
  <1> DEFINE R == OpToRel(<, Nat)
  <1>1. IsWellFoundedOn(R, Nat)
    BY NatLessThanWellFounded
  <1>2. \A x, y \in Nat : x < y => <<x, y>> \in R
    BY DEF OpToRel
  <1> HIDE DEF R
  <1>3. PICK x \in S : \A y \in S : ~(<<y, x>> \in R)
    BY <1>1, WFMin
  <1>4. x \in Nat /\ \A y \in S : y \in Nat /\ ~(y < x)
    BY <1>2, <1>3
  <1> QED BY <1>4

LEMMA LastSet ==
    ASSUME NEW S, NEW s \in Seq(S), s # <<>>
    PROVE  /\ ToSet(s) = ToSet(Front(s)) \cup {Last(s)}
           /\ IsInjective(s) => IsInjective(Front(s)) /\ Last(s) \notin ToSet(Front(s))
  <1> DEFINE n == Len(s)
             t == Front(s)
  <1>1. n \in Nat \ {0}
    BY EmptySeq
  <1>2. s[n] \in S
    BY <1>1, ElementOfSeq
  <1>3. /\ Last(s) = s[n] /\ t \in Seq(S) /\ Len(t) = n - 1
        /\ \A i \in 1..(n - 1) : t[i] = s[i]
    BY <1>2, LastReplaced
  <1>4. DOMAIN s = 1..n /\ DOMAIN t = 1..(n - 1)
    BY <1>3, LenProperties
  <1>5. \A i \in 1..n : i # n => i \in 1..(n - 1)
    BY <1>1
  <1>6. n \in 1..n /\ \A i \in 1..(n - 1) : i \in 1..n /\ i # n
    BY <1>1
  <1> HIDE DEF n, t
  <1>7. ToSet(s) = ToSet(t) \cup {s[n]}
    <2>1. ASSUME NEW x \in ToSet(s) PROVE x \in ToSet(t) \cup {s[n]}
      BY <1>3, <1>4, <1>5, <2>1 DEF ToSet
    <2> QED BY <1>3, <1>4, <1>6, <2>1 DEF ToSet
  <1>8. ASSUME IsInjective(s) PROVE IsInjective(t) /\ s[n] \notin ToSet(t)
    <2>1. IsInjective(t)
      BY <1>3, <1>4, <1>6, <1>8 DEF IsInjective
    <2>2. ASSUME NEW i \in 1..(n - 1) PROVE t[i] # s[n]
      BY <1>3, <1>4, <1>6, <1>8 DEF IsInjective
    <2> QED BY <1>4, <2>1, <2>2 DEF ToSet
  <1> QED BY <1>3, <1>7, <1>8 DEF n, t

(* What is in a sequence of sequences laid end to end.                     *)
Joins(seqs, f) ==
    f = [i \in 1..Len(seqs) |-> IF i = 1 THEN seqs[i] ELSE f[i - 1] \o seqs[i]]

LEMMA JoinsExists ==
    ASSUME NEW S, NEW seqs \in Seq(Seq(S))
    PROVE  \E f : Joins(seqs, f)
  <1> DEFINE Up(k, f) == f = [i \in 1..k |-> IF i = 1 THEN seqs[i] ELSE f[i - 1] \o seqs[i]]
             Not == {k \in Nat : ~ \E f : Up(k, f)}
  <1>1. ASSUME NEW k \in Not PROVE \E m \in Not : ~(k <= m)
    <2>1. k \in Nat
      OBVIOUS
    <2>2. CASE k = 0
      <3> DEFINE f == [i \in 1..0 |-> seqs[i]]
      <3>1. Up(0, f)
        OBVIOUS
      <3> QED BY <2>2, <3>1
    <2>3. CASE k # 0
      <3>1. k - 1 \in Nat /\ ~(k <= k - 1)
        BY <2>1, <2>3
      <3>2. SUFFICES ASSUME NEW f, Up(k - 1, f) PROVE \E g : Up(k, g)
        BY <3>1
      <3> DEFINE next(h, i) == IF i = 1 THEN seqs[i] ELSE h[i - 1] \o seqs[i]
                 g == [i \in 1..k |-> IF i = k THEN next(f, k) ELSE f[i]]
      <3>3. ASSUME NEW i \in 1..k PROVE g[i] = next(g, i)
        <4>1. i # 1 => i - 1 \in 1..k /\ i - 1 # k
          BY <2>1
        <4>2. i # 1 => g[i - 1] = f[i - 1]
          BY <4>1
        <4>3. CASE i = k
          BY <4>2, <4>3
        <4>4. CASE i # k
          <5>1. i \in 1..(k - 1)
            BY <2>1, <4>4
          <5>2. f[i] = next(f, i)
            BY <3>2, <5>1
          <5> QED BY <4>2, <4>4, <5>2
        <4> QED BY <4>3, <4>4
      <3>4. g = [i \in 1..k |-> next(g, i)]
        <4>1. g = [i \in 1..k |-> g[i]]
          OBVIOUS
        <4> HIDE DEF g, next
        <4> QED BY <3>3, <4>1
      <3> HIDE DEF g
      <3> QED BY <3>4
    <2> QED BY <2>2, <2>3
  <1>2. Not = {}
    <2>1. Not \in SUBSET Nat
      OBVIOUS
    <2> HIDE DEF Not
    <2> QED BY <1>1, <2>1, LeastNumber
  <1>3. Len(seqs) \in Nat
    BY LenProperties
  <1> QED BY <1>2, <1>3 DEF Joins

LEMMA FlattenedSet ==
    ASSUME NEW S, NEW seqs \in Seq(Seq(S))
    PROVE  /\ FlattenSeq(seqs) \in Seq(S)
           /\ \A x : x \in ToSet(FlattenSeq(seqs)) <=> \E i \in DOMAIN seqs : x \in ToSet(seqs[i])
  <1> DEFINE n == Len(seqs)
             f == CHOOSE f : Joins(seqs, f)
             Said(k) == /\ f[k] \in Seq(S)
                        /\ \A x : x \in ToSet(f[k]) <=> \E i \in 1..k : x \in ToSet(seqs[i])
             Not == {k \in 1..n : ~Said(k)}
  <1>1. n \in Nat /\ DOMAIN seqs = 1..n /\ \A i \in 1..n : seqs[i] \in Seq(S)
    BY LenProperties, ElementOfSeq
  <1>2. Joins(seqs, f)
    BY JoinsExists
  <1>3. \A i \in 1..n : f[i] = IF i = 1 THEN seqs[i] ELSE f[i - 1] \o seqs[i]
    <2> HIDE DEF f
    <2> QED BY <1>2 DEF Joins
  <1>4. n # 0 => FlattenSeq(seqs) = f[n]
    BY DEF FlattenSeq, Joins
  <1> HIDE DEF f, n
  <1>5. ASSUME NEW k \in Not PROVE \E m \in Not : ~(k <= m)
    <2>1. k \in 1..n /\ ~Said(k)
      OBVIOUS
    <2>2. k # 1
      <3>1. ASSUME k = 1 PROVE Said(k)
        <4>1. f[k] = seqs[k] /\ seqs[k] \in Seq(S) /\ 1..k = {k}
          BY <1>1, <1>3, <2>1, <3>1
        <4> QED BY <4>1
      <3> QED BY <2>1, <3>1
    <2>3. k - 1 \in 1..n /\ ~(k <= k - 1) /\ \A i \in 1..k : i = k \/ i \in 1..(k - 1)
      BY <1>1, <2>1, <2>2
    <2>4. k \in 1..k /\ \A i \in 1..(k - 1) : i \in 1..k
      BY <1>1, <2>1
    <2>5. f[k] = f[k - 1] \o seqs[k] /\ seqs[k] \in Seq(S)
      BY <1>1, <1>3, <2>1, <2>2
    <2>6. ASSUME Said(k - 1) PROVE Said(k)
      <3> DEFINE s == f[k - 1]
                 t == seqs[k]
      <3>1. s \in Seq(S) /\ t \in Seq(S) /\ f[k] = s \o t
        BY <2>5, <2>6
      <3> HIDE DEF s, t
      <3>2. f[k] \in Seq(S) /\ ToSet(f[k]) = ToSet(s) \cup ToSet(t)
        BY <3>1, ConcatSet, ConcatProperties
      <3> QED BY <2>3, <2>4, <2>6, <3>2 DEF s, t
    <2> HIDE DEF Said
    <2> QED BY <2>1, <2>3, <2>6
  <1>6. Not = {}
    <2>1. Not \in SUBSET Nat
      BY <1>1
    <2> HIDE DEF Not
    <2> QED BY <1>5, <2>1, LeastNumber
  <1>7. CASE n = 0
    <2>1. FlattenSeq(seqs) = seqs /\ seqs = <<>>
      BY <1>7, EmptySeq DEF FlattenSeq, n
    <2>2. ToSet(seqs) = {} /\ DOMAIN seqs = {}
      BY <1>1, <1>7 DEF ToSet
    <2> QED BY <2>1, <2>2, EmptySeq
  <1>8. CASE n # 0
    <2>1. n \in 1..n
      BY <1>1, <1>8
    <2>2. Said(n)
      <3> HIDE DEF Said
      <3> QED BY <1>6, <2>1
    <2> QED BY <1>1, <1>4, <1>8, <2>2
  <1> QED BY <1>7, <1>8
=============================================================================
