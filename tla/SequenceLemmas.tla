---------------------------- MODULE SequenceLemmas ----------------------------
(***************************************************************************)
(* Facts about sequences that the proofs of several modules need: the last *)
(* entries of a growing sequence, and what FlattenSeq, a recursive         *)
(* function, computes. Induction is over sets: a set of numbers that holds *)
(* 0 and with each number the next holds all of them, for the least number *)
(* outside of it (LeastNatural) has a predecessor inside.                  *)
(***************************************************************************)
EXTENDS Integers, SequencesExt, SequenceTheorems, WellFoundedInduction, TLAPS

\* A nonempty set of natural numbers has a least element.
LEMMA LeastNatural ==
    ASSUME NEW S \in SUBSET Nat, S # {}
    PROVE  \E x \in S : \A y \in S : x <= y
<1> DEFINE R == OpToRel(<, Nat)
<1>1. IsWellFoundedOn(R, Nat)
  BY NatLessThanWellFounded
<1>2. \A x, y \in Nat : <<x, y>> \in R <=> x < y
  BY DEF OpToRel
<1> HIDE DEF R
<1>3. PICK x \in S : \A y \in S : ~ (<<y, x>> \in R)
  BY <1>1, WFMin
<1>4. ASSUME NEW y \in S  PROVE  x <= y
  <2>1. x \in Nat /\ y \in Nat
    OBVIOUS
  <2>2. ~ (y < x)
    BY <1>2, <1>3, <2>1
  <2> QED BY <2>1, <2>2
<1> QED BY <1>4

\* Induction over the natural numbers, for a set in place of a predicate.
LEMMA SetInduction ==
    ASSUME NEW S, 0 \in S, \A n \in Nat : n \in S => n + 1 \in S
    PROVE  Nat \subseteq S
<1> DEFINE T == {n \in Nat : n \notin S}
<1> SUFFICES ASSUME T # {} PROVE FALSE
  OBVIOUS
<1>1. PICK x \in T : \A y \in T : x <= y
  BY LeastNatural
<1>2. x - 1 \in Nat /\ x - 1 \notin T
  BY <1>1
<1> QED BY <1>1, <1>2

-----------------------------------------------------------------------------
\* One more element behind a sequence does not change what was there.
LEMMA AppendPrefix ==
    ASSUME NEW S, NEW s \in Seq(S), NEW e \in S, NEW n \in 0..Len(s)
    PROVE  SubSeq(Append(s, e), 1, n) = SubSeq(s, 1, n)
<1> DEFINE t == Append(s, e)
<1>1. /\ t \in Seq(S) /\ Len(t) = Len(s) + 1 /\ Len(s) \in Nat /\ n \in Int
      /\ \A i \in 1..Len(s) : t[i] = s[i]
  BY AppendProperties, LenProperties
<1>2. \A i \in 1..n : s[i] \in S /\ t[i] \in S /\ t[i] = s[i]
  BY <1>1, ElementOfSeq
<1>3. /\ SubSeq(s, 1, n) \in Seq(S) /\ Len(SubSeq(s, 1, n)) = n
      /\ \A i \in 1..n : SubSeq(s, 1, n)[i] = s[i]
  BY <1>1, <1>2, SubSeqProperties
<1> HIDE DEF t
<1>4. /\ SubSeq(t, 1, n) \in Seq(S) /\ Len(SubSeq(t, 1, n)) = n
      /\ \A i \in 1..n : SubSeq(t, 1, n)[i] = t[i]
  BY <1>1, <1>2, SubSeqProperties
<1>5. SubSeq(t, 1, n) = SubSeq(s, 1, n)
  BY <1>2, <1>3, <1>4, SeqEqual
<1> QED BY <1>5 DEF t

\* An element joins the sequence that begins at place m.
LEMMA AppendSuffix ==
    ASSUME NEW S, NEW s \in Seq(S), NEW e \in S, NEW m \in 1..Len(s) + 1
    PROVE  Append(SubSeq(s, m, Len(s)), e) = SubSeq(Append(s, e), m, Len(s) + 1)
<1> DEFINE t == Append(s, e)
           old == SubSeq(s, m, Len(s))
           new == SubSeq(t, m, Len(s) + 1)
           k == Len(s) - m + 1
<1>1. /\ t \in Seq(S) /\ Len(t) = Len(s) + 1 /\ Len(s) \in Nat /\ m \in Int
      /\ \A i \in 1..Len(s) : t[i] = s[i]
      /\ t[Len(s) + 1] = e
      /\ k \in Nat
  BY AppendProperties, LenProperties
<1>2. /\ \A i \in m..Len(s) : s[i] \in S
      /\ \A i \in m..Len(s) + 1 : t[i] \in S
  BY <1>1, ElementOfSeq
<1>3. /\ old \in Seq(S) /\ Len(old) = k
      /\ \A i \in 1..k : old[i] = s[m + i - 1]
  BY <1>1, <1>2, SubSeqProperties
<1> HIDE DEF t
<1>4. /\ new \in Seq(S) /\ Len(new) = k + 1
      /\ \A i \in 1..k + 1 : new[i] = t[m + i - 1]
  BY <1>1, <1>2, SubSeqProperties
<1> HIDE DEF old, new
<1>5. /\ Append(old, e) \in Seq(S) /\ Len(Append(old, e)) = k + 1
      /\ \A i \in 1..k : Append(old, e)[i] = old[i]
      /\ Append(old, e)[k + 1] = e
  BY <1>3, AppendProperties
<1>k. k \in Nat
  BY <1>1
<1> HIDE DEF k
<1>6. ASSUME NEW i \in 1..k + 1  PROVE  Append(old, e)[i] = new[i]
  <2>1. new[i] = t[m + i - 1]
    BY <1>4
  <2>2. CASE i \in 1..k
    <3>1. m + i - 1 \in 1..Len(s)
      BY <1>1, <2>2 DEF k
    <3> QED BY <1>1, <1>3, <1>5, <2>1, <2>2, <3>1
  <2>3. CASE i = k + 1
    <3>1. m + i - 1 = Len(s) + 1
      BY <1>1, <2>3 DEF k
    <3> QED BY <1>1, <1>5, <2>1, <2>3, <3>1
  <2>4. i \in 1..k \/ i = k + 1
    BY <1>k
  <2> QED BY <2>2, <2>3, <2>4, Zenon
<1>7. Append(old, e) = new
  BY <1>4, <1>5, <1>6, SeqEqual
<1> QED BY <1>7 DEF old, new, t

\* Appending to the second of two sequences appends to both.
LEMMA ConcatAppend ==
    ASSUME NEW S, NEW a \in Seq(S), NEW b \in Seq(S), NEW e \in S
    PROVE  a \o Append(b, e) = Append(a \o b, e)
<1>1. <<e>> \in Seq(S) /\ a \o b \in Seq(S)
  BY ConcatProperties
<1>2. Append(b, e) = b \o <<e>> /\ Append(a \o b, e) = (a \o b) \o <<e>>
  BY <1>1, AppendIsConcat
<1> QED BY <1>1, <1>2, ConcatAssociative

\* The last n elements, all of them if there are no more.
LastN(s, n) == IF Len(s) <= n THEN s ELSE SubSeq(s, Len(s) - n + 1, Len(s))

\* One more element joins the last n; if they were n, the first of them goes,
\* in whichever of the two orders.
LEMMA LastNAppend ==
    ASSUME NEW S, NEW s \in Seq(S), NEW e \in S, NEW n \in Nat \ {0}
    PROVE  LET last == LastN(s, n)
           IN  /\ last \in Seq(S)
               /\ Len(last) = IF Len(s) <= n THEN Len(s) ELSE n
               /\ LastN(Append(s, e), n) = IF Len(last) < n
                                             THEN Append(last, e)
                                             ELSE Append(Tail(last), e)
               /\ last # <<>> => Append(Tail(last), e)
                                   = SubSeq(Append(last, e), 2, Len(last) + 1)
<1> DEFINE last == LastN(s, n)
           m == Len(s) - n + 1
<1>1. Len(s) \in Nat /\ Len(Append(s, e)) = Len(s) + 1
  BY LenProperties, AppendProperties
<1>2. /\ last \in Seq(S)
      /\ Len(last) = IF Len(s) <= n THEN Len(s) ELSE n
      /\ LastN(Append(s, e), n) = IF Len(last) < n THEN Append(last, e)
                                                  ELSE Append(Tail(last), e)
  <2>1. CASE Len(s) < n
    <3>1. last = s
      BY <1>1, <2>1 DEF LastN
    <3> QED BY <1>1, <2>1, <3>1 DEF LastN
  <2>2. CASE Len(s) = n
    <3>1. last = s
      BY <1>1, <2>2 DEF LastN
    <3>2. s # <<>>
      BY <2>2, EmptySeq
    <3>3. Append(Tail(s), e) = SubSeq(Append(s, e), 2, Len(s) + 1)
      BY <1>1, <3>2, TailIsSubSeq, AppendSuffix, EmptySeq
    <3>4. LastN(Append(s, e), n) = Append(Tail(s), e)
      BY <1>1, <2>2, <3>3 DEF LastN
    <3> HIDE DEF last
    <3> QED BY <1>1, <2>2, <3>1, <3>4
  <2>3. CASE Len(s) > n
    <3>1. last = SubSeq(s, m, Len(s)) /\ m \in 1..Len(s) /\ m + 1 \in 1..Len(s) + 1
      BY <1>1, <2>3 DEF LastN
    <3>2. last \in Seq(S) /\ Len(last) = n
      <4>1. \A i \in m..Len(s) : s[i] \in S
        BY <1>1, <3>1, ElementOfSeq
      <4> QED BY <1>1, <3>1, <4>1, SubSeqProperties
    <3>3. Tail(last) = SubSeq(s, m + 1, Len(s))
      BY <1>1, <3>1, HeadTailOfSubSeq
    <3>4. Append(Tail(last), e) = SubSeq(Append(s, e), m + 1, Len(s) + 1)
      BY <3>1, <3>3, AppendSuffix
    <3>5. LastN(Append(s, e), n) = SubSeq(Append(s, e), m + 1, Len(s) + 1)
      BY <1>1, <2>3 DEF LastN
    <3> HIDE DEF last, m
    <3>6. LastN(Append(s, e), n) = Append(Tail(last), e)
      BY <3>4, <3>5
    <3> QED BY <1>1, <2>3, <3>2, <3>6
  <2> QED BY <1>1, <2>1, <2>2, <2>3
<1>3. last # <<>> /\ last \in Seq(S) =>
        Append(Tail(last), e) = SubSeq(Append(last, e), 2, Len(last) + 1)
  <2> SUFFICES ASSUME last # <<>>, last \in Seq(S)
               PROVE  Append(Tail(last), e) = SubSeq(Append(last, e), 2, Len(last) + 1)
    OBVIOUS
  <2> HIDE DEF last
  <2>1. Append(last, e) \in Seq(S) /\ Append(last, e) # <<>>
        /\ Len(Append(last, e)) = Len(last) + 1
    BY AppendProperties
  <2>2. Tail(Append(last, e)) = Append(Tail(last), e)
    BY HeadTailAppend
  <2> QED BY <2>1, <2>2, TailIsSubSeq
<1> QED BY <1>2, <1>3

-----------------------------------------------------------------------------
\* What the function that FlattenSeq chooses satisfies up to its n-th place.
FlatUpTo(f, bs, n) ==
    \A i \in 1..n : f[i] = IF i = 1 THEN bs[i] ELSE f[i - 1] \o bs[i]

\* There is such a function for every number of places.
LEMMA FlatExists ==
    ASSUME NEW X, NEW bs \in Seq(Seq(X)), NEW n \in 0..Len(bs)
    PROVE  \E f \in [1..n -> Seq(X)] : FlatUpTo(f, bs, n)
<1> DEFINE S == {k \in Nat : k <= Len(bs) =>
                    \E f \in [1..k -> Seq(X)] : FlatUpTo(f, bs, k)}
<1>1. 0 \in S
  <2>1. [i \in 1..0 |-> <<>>] \in [1..0 -> Seq(X)]
    OBVIOUS
  <2>2. FlatUpTo([i \in 1..0 |-> <<>>], bs, 0)
    BY DEF FlatUpTo
  <2> QED BY <2>1, <2>2
<1>2. ASSUME NEW k \in Nat, k \in S, k + 1 <= Len(bs)
      PROVE  \E g \in [1..k + 1 -> Seq(X)] : FlatUpTo(g, bs, k + 1)
  <2>1. Len(bs) \in Nat /\ k <= Len(bs) /\ bs[k + 1] \in Seq(X)
    BY <1>2, LenProperties, ElementOfSeq
  <2>2. PICK f \in [1..k -> Seq(X)] : FlatUpTo(f, bs, k)
    BY <1>2, <2>1
  <2> DEFINE last == IF k = 0 THEN bs[k + 1] ELSE f[k] \o bs[k + 1]
             g == [i \in 1..k + 1 |-> IF i = k + 1 THEN last ELSE f[i]]
  <2>3. last \in Seq(X)
    BY <2>1, ConcatProperties
  <2> HIDE DEF last
  <2>4. g \in [1..k + 1 -> Seq(X)]
    BY <2>3
  <2>5. g[k + 1] = last /\ \A i \in 1..k : g[i] = f[i]
    OBVIOUS
  <2> HIDE DEF g
  <2>6. ASSUME NEW i \in 1..k + 1
        PROVE  g[i] = IF i = 1 THEN bs[i] ELSE g[i - 1] \o bs[i]
    <3>1. CASE i \in 1..k
      <4>1. i # 1 => i - 1 \in 1..k
        BY <3>1
      <4> QED BY <2>2, <2>5, <3>1, <4>1 DEF FlatUpTo
    <3>2. CASE i = k + 1
      BY <2>5, <3>2 DEF last
    <3> QED BY <3>1, <3>2
  <2> QED BY <2>4, <2>6 DEF FlatUpTo
<1>3. \A k \in Nat : k \in S => k + 1 \in S
  BY <1>2
<1> HIDE DEF S
<1>4. Nat \subseteq S
  BY <1>1, <1>3, SetInduction
<1> QED BY <1>4, LenProperties DEF S

\* Two sequences that agree up to a place are flattened alike up to it.
Agree(bs, cs, n) == \A i \in 1..n : bs[i] = cs[i]

LEMMA FlatUnique ==
    ASSUME NEW bs, NEW cs, NEW n \in Nat, Agree(bs, cs, n)
    PROVE  \A f, g : FlatUpTo(f, bs, n) /\ FlatUpTo(g, cs, n) => Agree(f, g, n)
<1> SUFFICES ASSUME NEW f, NEW g, FlatUpTo(f, bs, n), FlatUpTo(g, cs, n)
             PROVE  \A i \in 1..n : f[i] = g[i]
  BY DEF Agree
<1> DEFINE S == {k \in Nat : k \in 1..n => f[k] = g[k]}
<1>1. 0 \in S
  OBVIOUS
<1>2. ASSUME NEW k \in Nat, k \in S, k + 1 \in 1..n
      PROVE  f[k + 1] = g[k + 1]
  <2>1. k # 0 => f[k] = g[k]
    BY <1>2
  <2>2. /\ f[k + 1] = IF k + 1 = 1 THEN bs[k + 1] ELSE f[(k + 1) - 1] \o bs[k + 1]
        /\ g[k + 1] = IF k + 1 = 1 THEN cs[k + 1] ELSE g[(k + 1) - 1] \o cs[k + 1]
    BY <1>2 DEF FlatUpTo
  <2>3. (k + 1) - 1 = k /\ (k + 1 = 1 <=> k = 0)
    OBVIOUS
  <2> QED BY <1>2, <2>1, <2>2, <2>3 DEF Agree
<1>3. \A k \in Nat : k \in S => k + 1 \in S
  BY <1>2
<1> HIDE DEF S
<1>4. Nat \subseteq S
  BY <1>1, <1>3, SetInduction
<1> QED BY <1>4 DEF S

\* FlattenSeq is the last place of such a function.
LEMMA FlattenIs ==
    ASSUME NEW X, NEW bs \in Seq(Seq(X)), bs # <<>>
    PROVE  \E f \in [1..Len(bs) -> Seq(X)] :
             FlatUpTo(f, bs, Len(bs)) /\ FlattenSeq(bs) = f[Len(bs)]
<1> DEFINE Fits(f) == f = [i \in 1..Len(bs) |->
                             IF i = 1 THEN bs[i] ELSE f[i - 1] \o bs[i]]
           h == CHOOSE f : Fits(f)
<1>1. Len(bs) \in Nat /\ Len(bs) # 0
  BY EmptySeq, LenProperties
<1>n. Len(bs) \in 0..Len(bs) /\ Len(bs) \in 1..Len(bs)
  BY <1>1
<1>e. \A n \in 0..Len(bs) : \E f \in [1..n -> Seq(X)] : FlatUpTo(f, bs, n)
  BY FlatExists
<1>2. PICK f \in [1..Len(bs) -> Seq(X)] : FlatUpTo(f, bs, Len(bs))
  BY <1>n, <1>e, Zenon
<1>3. Fits(f)
  BY Zenon, <1>2 DEF FlatUpTo
<1>4. FlattenSeq(bs) = h[Len(bs)]
  BY <1>1 DEF FlattenSeq
<1>5. Fits(h)
  BY Zenon, <1>3
<1> HIDE DEF h
<1>6. FlatUpTo(h, bs, Len(bs))
  BY <1>5 DEF FlatUpTo
<1>7. \A i \in 1..Len(bs) : f[i] = h[i]
  BY <1>1, <1>2, <1>6, FlatUnique DEF Agree
<1>8. FlattenSeq(bs) = f[Len(bs)]
  BY <1>n, <1>4, <1>7
<1> QED BY <1>2, <1>8, Zenon

\* One more sequence adds its elements at the end.
LEMMA FlatStep ==
    ASSUME NEW bs, NEW cs, NEW n \in Nat \ {0}, Agree(bs, cs, n)
    PROVE  \A f, g : FlatUpTo(f, bs, n) /\ FlatUpTo(g, cs, n + 1) =>
             g[n + 1] = f[n] \o cs[n + 1]
<1> SUFFICES ASSUME NEW f, NEW g, FlatUpTo(f, bs, n), FlatUpTo(g, cs, n + 1)
             PROVE  g[n + 1] = f[n] \o cs[n + 1]
  OBVIOUS
<1>1. FlatUpTo(g, cs, n)
  BY DEF FlatUpTo
<1>2. Agree(f, g, n)
  BY <1>1, FlatUnique
<1>3. f[n] = g[n]
  BY <1>2 DEF Agree
<1>4. n + 1 \in 1..n + 1 /\ n + 1 # 1 /\ (n + 1) - 1 = n
  OBVIOUS
<1>5. g[n + 1] = g[(n + 1) - 1] \o cs[n + 1]
  BY <1>4 DEF FlatUpTo
<1> QED BY <1>3, <1>4, <1>5

LEMMA FlattenAppend ==
    ASSUME NEW X, NEW bs \in Seq(Seq(X)), NEW b \in Seq(X)
    PROVE  /\ FlattenSeq(bs) \in Seq(X)
           /\ FlattenSeq(Append(bs, b)) = FlattenSeq(bs) \o b
<1> DEFINE cs == Append(bs, b)
           n == Len(bs)
<1>1. /\ cs \in Seq(Seq(X)) /\ cs # <<>> /\ n \in Nat /\ Len(cs) = n + 1
      /\ cs[n + 1] = b /\ \A i \in 1..n : cs[i] = bs[i]
  BY AppendProperties, LenProperties, EmptySeq
<1>2. Agree(bs, cs, n)
  BY <1>1 DEF Agree
<1> HIDE DEF cs, n
<1>3. PICK g : FlatUpTo(g, cs, n + 1) /\ FlattenSeq(cs) = g[n + 1]
  BY <1>1, FlattenIs
<1>4. CASE bs = <<>>
  <2>1. n = 0 /\ FlattenSeq(bs) = <<>>
    BY <1>4, EmptySeq DEF FlattenSeq, n
  <2>2. FlattenSeq(cs) = b
    BY <1>1, <1>3, <2>1 DEF FlatUpTo
  <2>3. <<>> \o b = b /\ <<>> \in Seq(X)
    BY ConcatEmptySeq, EmptySeq
  <2> QED BY <2>1, <2>2, <2>3 DEF cs
<1>5. CASE bs # <<>>
  <2>1. PICK f \in [1..n -> Seq(X)] : FlatUpTo(f, bs, n) /\ FlattenSeq(bs) = f[n]
    BY <1>5, FlattenIs DEF n
  <2>2. n \in Nat \ {0}
    BY <1>1, <1>5, EmptySeq DEF n
  <2>3. g[n + 1] = f[n] \o cs[n + 1]
    <3>1. \A f1, g1 : FlatUpTo(f1, bs, n) /\ FlatUpTo(g1, cs, n + 1) =>
            g1[n + 1] = f1[n] \o cs[n + 1]
      BY <1>2, <2>2, FlatStep
    <3> QED BY <1>3, <2>1, <3>1
  <2> QED BY <1>1, <1>3, <2>1, <2>2, <2>3 DEF cs
<1> QED BY <1>4, <1>5
=============================================================================
