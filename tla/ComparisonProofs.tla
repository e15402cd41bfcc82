-------------------------- MODULE ComparisonProofs --------------------------
(***************************************************************************)
(* For a file of any length. CInv says where a row without a stage can be  *)
(* and that no row is written to the file of a killed actor: loading fails *)
(* only on a last row that was cut off before its stage. DInv says that    *)
(* what is drawn is what was loaded, what is loaded is what the file       *)
(* holds, and the file what was logged up to the row where the kill cut    *)
(* it, after which there are rows of actors and the last row only. From    *)
(* it and what the loop over the rows (Selected), the subtraction of the   *)
(* origin and the edges of the buckets do follow what a kill costs and     *)
(* that no frame is left out of the lines.                                 *)
(***************************************************************************)
EXTENDS Comparison, SequenceLemmas, FiniteSetTheorems

CInv ==
    /\ csv \in Seq(Row)
    /\ killed => phase # "running"
    /\ \A i \in DOMAIN csv : csv[i].stage = None => killed /\ i = Len(csv)
    /\ phase = "failed" => csv # <<>>
    /\ FailsOnlyOnTornTail

-----------------------------------------------------------------------------
LEMMA InitCInv == Init => CInv
BY EmptySeq DEF Init, CInv, FailsOnlyOnTornTail

\* What is left of a row when it is cut off.
LEMMA CutOffIsRow ==
    ASSUME NEW row \in Row, NEW cut \in CutOff(row)
    PROVE  cut \in Row
BY DEF CutOff, Row, Stages

LEMMA LogKeeps ==
    ASSUME CInv, NEW stage \in Stages, NEW t \in Clock, NEW v \in Values, Log(stage, t, v)
    PROVE  CInv'
<1> DEFINE row == [timestamp |-> t, stage |-> stage, value |-> v]
<1>1. row \in Row /\ row.stage # None
  BY NoneAssumption DEF Row
<1>2. csv' = Append(csv, row) /\ killed' = killed /\ phase' = phase /\ phase = "running"
  BY DEF Log
<1>3. csv \in Seq(Row) /\ ~killed /\ \A i \in DOMAIN csv : csv[i].stage # None
  BY <1>2 DEF CInv
<1> HIDE DEF row
<1>4. csv' \in Seq(Row) /\ \A i \in DOMAIN csv' : csv'[i].stage # None
  BY <1>1, <1>2, <1>3, AppendProperties
<1>5. FailsOnlyOnTornTail'
  BY <1>2 DEF FailsOnlyOnTornTail
<1> QED BY <1>2, <1>3, <1>4, <1>5 DEF CInv

\* A kill leaves n whole rows and perhaps a part of the next.
LEMMA CutFile ==
    ASSUME NEW X, NEW s \in Seq(X), NEW n \in 0..Len(s) - 1
    PROVE  /\ SubSeq(s, 1, n) \in Seq(X) /\ Len(SubSeq(s, 1, n)) = n
           /\ \A i \in 1..n : SubSeq(s, 1, n)[i] = s[i]
           /\ n \in Nat /\ n + 1 \in DOMAIN s /\ s[n + 1] \in X
<1>1. Len(s) \in Nat /\ DOMAIN s = 1..Len(s)
  BY LenProperties
<1>2. n \in Nat /\ n + 1 \in 1..Len(s) /\ \A i \in 1..n : i \in 1..Len(s)
  BY <1>1
<1>3. s[n + 1] \in X /\ \A i \in 1..n : s[i] \in X
  BY <1>2, ElementOfSeq
<1>4. SubSeq(s, 1, n) \in Seq(X) /\ Len(SubSeq(s, 1, n)) = n
      /\ \A i \in 1..n : SubSeq(s, 1, n)[i] = s[i]
  BY <1>1, <1>2, SubSeqProperties
<1> QED BY <1>1, <1>2, <1>3, <1>4

\* One more row of a prefix.
LEMMA PrefixAppend ==
    ASSUME NEW X, NEW s \in Seq(X), NEW n \in 0..Len(s) - 1
    PROVE  SubSeq(s, 1, n + 1) = Append(SubSeq(s, 1, n), s[n + 1])
<1>1. Len(s) \in Nat /\ n \in Nat /\ n + 1 \in 1..Len(s)
  BY LenProperties
<1> DEFINE a == SubSeq(s, 1, n)
           b == SubSeq(s, 1, n + 1)
<1>2. /\ a \in Seq(X) /\ Len(a) = n /\ s[n + 1] \in X
      /\ \A i \in 1..n : a[i] = s[i]
  BY CutFile
<1>3. /\ b \in Seq(X) /\ Len(b) = n + 1
      /\ \A i \in 1..n + 1 : b[i] = s[i]
  <2>1. \A i \in 1..n + 1 : s[i] \in X
    BY <1>1, ElementOfSeq
  <2> QED BY <1>1, <2>1, SubSeqProperties
<1> HIDE DEF a, b
<1> DEFINE c == Append(a, s[n + 1])
<1>4. /\ c \in Seq(X) /\ Len(c) = n + 1 /\ c[n + 1] = s[n + 1]
      /\ \A i \in 1..n : c[i] = a[i]
  BY <1>2, AppendProperties
<1> HIDE DEF c
<1>5. \A i \in 1..n + 1 : b[i] = c[i]
  BY <1>1, <1>2, <1>3, <1>4
<1>6. b = c
  BY <1>3, <1>4, <1>5, SeqEqual
<1> QED BY <1>6 DEF a, b, c

LEMMA KilledKeeps ==
    ASSUME CInv, Killed
    PROVE  CInv'
<1>1. PICK n \in 0..Len(csv) - 1 :
        csv' \in {SubSeq(csv, 1, n)}
                 \cup {Append(SubSeq(csv, 1, n), row) : row \in CutOff(csv[n + 1])}
  BY DEF Killed
<1>2. /\ killed' /\ phase' = "ended" /\ phase = "running"
      /\ csv \in Seq(Row) /\ \A i \in DOMAIN csv : csv[i].stage # None
  BY DEF Killed, CInv
<1> DEFINE whole == SubSeq(csv, 1, n)
<1>3. /\ whole \in Seq(Row) /\ Len(whole) = n /\ n \in Nat
      /\ \A i \in 1..n : whole[i] = csv[i] /\ i \in DOMAIN csv
      /\ csv[n + 1] \in Row
  <2>1. DOMAIN csv = 1..Len(csv) /\ Len(csv) \in Nat
    BY <1>2, LenProperties
  <2> QED BY <1>2, <2>1, CutFile
<1> HIDE DEF whole
<1>4. DOMAIN whole = 1..n /\ \A i \in 1..n : whole[i].stage # None
  BY <1>2, <1>3, LenProperties
<1>5. FailsOnlyOnTornTail'
  BY <1>2 DEF FailsOnlyOnTornTail
<1>6. CASE csv' = whole
  BY <1>2, <1>3, <1>4, <1>5, <1>6 DEF CInv
<1>7. ASSUME NEW row \in CutOff(csv[n + 1]), csv' = Append(whole, row)
      PROVE  CInv'
  <2>1. row \in Row
    BY <1>3, CutOffIsRow
  <2>2. /\ csv' \in Seq(Row) /\ Len(csv') = n + 1 /\ DOMAIN csv' = 1..n + 1
        /\ \A i \in 1..n : csv'[i] = whole[i]
    BY <1>3, <1>7, <2>1, AppendProperties, LenProperties
  <2>3. ASSUME NEW i \in DOMAIN csv', csv'[i].stage = None  PROVE  i = Len(csv')
    BY <1>3, <1>4, <2>2, <2>3
  <2> QED BY <1>2, <1>5, <2>2, <2>3 DEF CInv
<1> QED BY <1>1, <1>6, <1>7 DEF whole

LEMMA LoadFailsKeeps ==
    ASSUME CInv, LoadFails
    PROVE  CInv'
<1>1. PICK i \in DOMAIN csv : Raises(csv[i])
  BY DEF LoadFails
<1>2. csv[i].stage = None
  BY <1>1 DEF Raises
<1>3. killed /\ Last(csv).stage = None /\ csv # <<>>
  BY <1>1, <1>2, EmptySeq DEF CInv, Last
<1> QED BY <1>3 DEF CInv, LoadFails, fileVars, FailsOnlyOnTornTail

LEMMA StepCInv ==
    ASSUME CInv, [Next]_vars
    PROVE  CInv'
<1>1. ASSUME NEW stage \in Stages, NEW t \in Clock, NEW v \in Values, Log(stage, t, v)
      PROVE  CInv'
  BY <1>1, LogKeeps
<1>2. CASE End
  BY <1>2 DEF End, fileVars, CInv, FailsOnlyOnTornTail
<1>3. CASE Killed
  BY <1>3, KilledKeeps
<1>4. CASE LoadRun
  BY <1>4 DEF LoadRun, fileVars, CInv, FailsOnlyOnTornTail
<1>5. CASE LoadFails
  BY <1>5, LoadFailsKeeps
<1>6. CASE Draw
  BY <1>6 DEF Draw, fileVars, CInv, FailsOnlyOnTornTail
<1>7. CASE UNCHANGED vars
  BY <1>7 DEF vars, fileVars, CInv, FailsOnlyOnTornTail
<1> QED BY <1>1, <1>2, <1>3, <1>4, <1>5, <1>6, <1>7 DEF Next

\* A last row cut off before its stage is the only thing that can keep main()
\* from drawing, however many rows the file has.
THEOREM FailsOnlyOnTornTailCorrect == Spec => []FailsOnlyOnTornTail
<1>1. CInv => FailsOnlyOnTornTail
  BY DEF CInv
<1> QED BY <1>1, InitCInv, StepCInv, PTL DEF Spec
-----------------------------------------------------------------------------
\* What the function that Selected is the last place of satisfies.
SelUpTo(f, s, set, n) ==
    \A i \in 0..n : f[i] = IF i = 0 THEN <<>>
                           ELSE IF s[i] \in set THEN Append(f[i - 1], s[i])
                           ELSE f[i - 1]

\* There is such a function for every number of places.
LEMMA SelExists ==
    ASSUME NEW X, NEW set, NEW s \in Seq(X), NEW n \in 0..Len(s)
    PROVE  \E f \in [0..n -> Seq(X \cap set)] : SelUpTo(f, s, set, n)
<1> DEFINE Y == X \cap set
           S == {k \in Nat : k <= Len(s) =>
                    \E f \in [0..k -> Seq(Y)] : SelUpTo(f, s, set, k)}
<1>1. 0 \in S
  <2> DEFINE f == [i \in 0..0 |-> <<>>]
  <2>1. f \in [0..0 -> Seq(Y)] /\ f[0] = <<>>
    BY EmptySeq
  <2> HIDE DEF f, Y
  <2>2. SelUpTo(f, s, set, 0)
    BY <2>1 DEF SelUpTo
  <2> QED BY <2>1, <2>2
<1>2. ASSUME NEW k \in Nat, k \in S, k + 1 <= Len(s)
      PROVE  \E g \in [0..k + 1 -> Seq(Y)] : SelUpTo(g, s, set, k + 1)
  <2>1. Len(s) \in Nat /\ k <= Len(s) /\ s[k + 1] \in X
    BY <1>2, LenProperties, ElementOfSeq
  <2>2. PICK f \in [0..k -> Seq(Y)] : SelUpTo(f, s, set, k)
    BY <1>2, <2>1
  <2> DEFINE last == IF s[k + 1] \in set THEN Append(f[k], s[k + 1]) ELSE f[k]
             g == [i \in 0..k + 1 |-> IF i = k + 1 THEN last ELSE f[i]]
  <2>3. last \in Seq(Y)
    <3>1. f[k] \in Seq(Y)
      BY <1>2
    <3>2. CASE s[k + 1] \in set
      <4>1. s[k + 1] \in Y
        BY <2>1, <3>2
      <4> HIDE DEF Y
      <4>2. Append(f[k], s[k + 1]) \in Seq(Y)
        BY <3>1, <4>1, AppendProperties
      <4> QED BY <3>2, <4>2
    <3> QED BY <3>1, <3>2
  <2> HIDE DEF last, Y
  <2>4. g \in [0..k + 1 -> Seq(Y)]
    BY <2>3
  <2>5. g[k + 1] = last /\ \A i \in 0..k : g[i] = f[i]
    OBVIOUS
  <2> HIDE DEF g
  <2>6. ASSUME NEW i \in 0..k + 1
        PROVE  g[i] = IF i = 0 THEN <<>>
                      ELSE IF s[i] \in set THEN Append(g[i - 1], s[i])
                      ELSE g[i - 1]
    <3>1. CASE i \in 0..k
      <4>1. i # 0 => i - 1 \in 0..k
        BY <3>1
      <4> QED BY <2>2, <2>5, <3>1, <4>1 DEF SelUpTo
    <3>2. CASE i = k + 1
      <4>1. i - 1 = k /\ i # 0 /\ k \in 0..k
        BY <3>2
      <4> QED BY <2>5, <3>2, <4>1 DEF last
    <3> QED BY <3>1, <3>2
  <2> QED BY <2>4, <2>6 DEF SelUpTo
<1>3. ASSUME NEW k \in Nat, k \in S PROVE k + 1 \in S
  <2>1. CASE k + 1 <= Len(s)
    <3>1. \E g \in [0..k + 1 -> Seq(Y)] : SelUpTo(g, s, set, k + 1)
      BY <1>2, <1>3, <2>1
    <3> QED BY <3>1
  <2>2. CASE ~(k + 1 <= Len(s))
    BY <2>2
  <2> QED BY <2>1, <2>2
<1> HIDE DEF S
<1>4. Nat \subseteq S
  BY <1>1, <1>3, SetInduction
<1> QED BY <1>4, LenProperties DEF S

\* s and r agree up to a place, and A and B tell their elements apart alike.
SameChoice(s, A, r, B, n) ==
    \A i \in 1..n : s[i] = r[i] /\ (s[i] \in A <=> r[i] \in B)

\* Then they give the same function up to it.
LEMMA SelUnique ==
    ASSUME NEW s, NEW r, NEW A, NEW B, NEW n \in Nat, SameChoice(s, A, r, B, n)
    PROVE  \A f, g : SelUpTo(f, s, A, n) /\ SelUpTo(g, r, B, n) =>
             \A i \in 0..n : f[i] = g[i]
<1> SUFFICES ASSUME NEW f, NEW g, SelUpTo(f, s, A, n), SelUpTo(g, r, B, n)
             PROVE  \A i \in 0..n : f[i] = g[i]
  OBVIOUS
<1> DEFINE S == {k \in Nat : k \in 0..n => f[k] = g[k]}
<1>1. 0 \in S
  BY DEF SelUpTo
<1>2. ASSUME NEW k \in Nat, k \in S, k + 1 \in 0..n
      PROVE  f[k + 1] = g[k + 1]
  <2>1. f[k] = g[k] /\ k + 1 \in 1..n /\ (k + 1) - 1 = k /\ k + 1 # 0
    BY <1>2
  <2>2. /\ f[k + 1] = IF s[k + 1] \in A THEN Append(f[k], s[k + 1]) ELSE f[k]
        /\ g[k + 1] = IF r[k + 1] \in B THEN Append(g[k], r[k + 1]) ELSE g[k]
    BY <1>2, <2>1 DEF SelUpTo
  <2>3. s[k + 1] = r[k + 1] /\ (s[k + 1] \in A <=> r[k + 1] \in B)
    BY <2>1 DEF SameChoice
  <2> QED BY <2>1, <2>2, <2>3
<1>3. \A k \in Nat : k \in S => k + 1 \in S
  BY <1>2
<1> HIDE DEF S
<1>4. Nat \subseteq S
  BY <1>1, <1>3, SetInduction
<1> QED BY <1>4 DEF S

LEMMA SelectedIs ==
    ASSUME NEW X, NEW set, NEW s \in Seq(X)
    PROVE  \E f \in [0..Len(s) -> Seq(X \cap set)] :
             SelUpTo(f, s, set, Len(s)) /\ Selected(s, set) = f[Len(s)]
<1> DEFINE Fits(f) == f = [n \in 0..Len(s) |->
                             IF n = 0 THEN <<>>
                             ELSE IF s[n] \in set THEN Append(f[n - 1], s[n])
                             ELSE f[n - 1]]
           h == CHOOSE f : Fits(f)
<1>1. Len(s) \in Nat /\ Len(s) \in 0..Len(s)
  BY LenProperties
<1>e. \A n \in 0..Len(s) :
        \E f \in [0..n -> Seq(X \cap set)] : SelUpTo(f, s, set, n)
  BY SelExists
<1>2. PICK f \in [0..Len(s) -> Seq(X \cap set)] : SelUpTo(f, s, set, Len(s))
  BY <1>1, <1>e, Zenon
<1>3. Fits(f)
  BY Zenon, <1>2 DEF SelUpTo
<1>4. Selected(s, set) = h[Len(s)]
  BY DEF Selected
<1>5. Fits(h)
  BY Zenon, <1>3
<1> HIDE DEF h
<1>6. SelUpTo(h, s, set, Len(s))
  BY <1>5 DEF SelUpTo
<1>7. \A i \in 0..Len(s) : f[i] = h[i]
  <2>1. SameChoice(s, set, s, set, Len(s))
    BY DEF SameChoice
  <2> QED BY <1>1, <1>2, <1>6, <2>1, SelUnique
<1>8. Selected(s, set) = f[Len(s)]
  BY <1>1, <1>4, <1>7
<1> QED BY <1>2, <1>8, Zenon

\* The loop takes the next element if it is in the set.
LEMMA SelectedAppend ==
    ASSUME NEW X, NEW set, NEW s \in Seq(X), NEW e \in X
    PROVE  /\ e \in set => Selected(Append(s, e), set) = Append(Selected(s, set), e)
           /\ e \notin set => Selected(Append(s, e), set) = Selected(s, set)
<1> DEFINE r == Append(s, e)
           n == Len(s)
<1>1. /\ r \in Seq(X) /\ n \in Nat /\ Len(r) = n + 1
      /\ r[n + 1] = e /\ \A i \in 1..n : r[i] = s[i]
  BY AppendProperties, LenProperties
<1>2. PICK f \in [0..n -> Seq(X \cap set)] :
        SelUpTo(f, s, set, n) /\ Selected(s, set) = f[n]
  BY SelectedIs
<1> HIDE DEF r, n
<1>r. PICK g \in [0..Len(r) -> Seq(X \cap set)] :
        SelUpTo(g, r, set, Len(r)) /\ Selected(r, set) = g[Len(r)]
  BY <1>1, SelectedIs
<1>3. SelUpTo(g, r, set, n + 1) /\ Selected(r, set) = g[n + 1]
  BY <1>1, <1>r
<1>4. SelUpTo(g, r, set, n)
  <2>1. \A i \in 0..n : i \in 0..n + 1
    BY <1>1
  <2> QED BY <1>3, <2>1 DEF SelUpTo
<1>u. \A h, k : SelUpTo(h, s, set, n) /\ SelUpTo(k, r, set, n) =>
        \A i \in 0..n : h[i] = k[i]
  <2>1. SameChoice(s, set, r, set, n)
    BY <1>1 DEF SameChoice
  <2> QED BY <1>1, <2>1, SelUnique
<1>5. \A i \in 0..n : f[i] = g[i]
  BY <1>2, <1>4, <1>u
<1>6. f[n] = g[n] /\ f[n] \in Seq(X \cap set)
  BY <1>1, <1>2, <1>5
<1>7. n + 1 \in 0..n + 1 /\ n + 1 # 0 /\ (n + 1) - 1 = n
  BY <1>1
<1>8. g[n + 1] = IF r[n + 1] \in set THEN Append(g[n], r[n + 1]) ELSE g[n]
  BY <1>3, <1>7 DEF SelUpTo
<1> QED BY <1>1, <1>2, <1>3, <1>6, <1>8 DEF r

\* Nothing is selected from nothing.
LEMMA SelectedEmpty ==
    ASSUME NEW set
    PROVE  Selected(<<>>, set) = <<>>
<1>1. <<>> \in Seq({}) /\ Len(<<>>) = 0
  BY EmptySeq
<1>2. \E f \in [0..Len(<<>>) -> Seq({} \cap set)] :
        SelUpTo(f, <<>>, set, Len(<<>>)) /\ Selected(<<>>, set) = f[Len(<<>>)]
  BY <1>1, SelectedIs
<1>3. PICK f : SelUpTo(f, <<>>, set, 0) /\ Selected(<<>>, set) = f[0]
  BY <1>1, <1>2
<1> QED BY <1>3 DEF SelUpTo

\* What is passed over at the end of s is as good as not there.
LEMMA SelectedPrefix ==
    ASSUME NEW X, NEW set, NEW s \in Seq(X), NEW n \in Nat, NEW m \in Nat,
           n <= m, m <= Len(s), \A i \in n + 1..m : s[i] \notin set
    PROVE  Selected(SubSeq(s, 1, m), set) = Selected(SubSeq(s, 1, n), set)
<1> DEFINE Sel(k) == Selected(SubSeq(s, 1, k), set)
           S == {k \in Nat : n <= k /\ k <= m => Sel(k) = Sel(n)}
<1>1. Len(s) \in Nat
  BY LenProperties
<1>2. 0 \in S
  OBVIOUS
<1>3. ASSUME NEW k \in Nat, k \in S PROVE k + 1 \in S
  <2>1. CASE n <= k /\ k + 1 <= m
    <3>1. /\ k \in 0..Len(s) - 1 /\ k + 1 \in n + 1..m /\ k + 1 \in 1..Len(s)
      BY <1>1, <2>1
    <3>2. SubSeq(s, 1, k) \in Seq(X) /\ s[k + 1] \in X
      BY <3>1, CutFile
    <3>3. SubSeq(s, 1, k + 1) = Append(SubSeq(s, 1, k), s[k + 1])
      BY <1>1, <3>1, PrefixAppend
    <3>4. s[k + 1] \notin set
      BY <3>1
    <3>5. Sel(k + 1) = Sel(k)
      BY <3>2, <3>3, <3>4, SelectedAppend
    <3>6. Sel(k) = Sel(n)
      BY <1>3, <2>1
    <3> HIDE DEF Sel
    <3> QED BY <3>5, <3>6
  <2>2. CASE ~(k + 1 <= m)
    BY <2>2
  <2>3. CASE ~(n <= k)
    <3> HIDE DEF Sel
    <3>1. n <= k + 1 => k + 1 = n
      BY <2>3
    <3> QED BY <3>1
  <2> QED BY <2>1, <2>2, <2>3
<1> HIDE DEF S
<1>4. Nat \subseteq S
  BY <1>2, <1>3, SetInduction
<1>5. Sel(m) = Sel(n)
  BY <1>4 DEF S
<1> QED BY <1>5

\* Sets that tell the elements of s apart alike select the same.
LEMMA SelectedAgree ==
    ASSUME NEW X, NEW A, NEW B, NEW s \in Seq(X),
           \A i \in DOMAIN s : s[i] \in A <=> s[i] \in B
    PROVE  Selected(s, A) = Selected(s, B)
<1>1. Len(s) \in Nat /\ DOMAIN s = 1..Len(s)
  BY LenProperties
<1>2. PICK f \in [0..Len(s) -> Seq(X \cap A)] :
        SelUpTo(f, s, A, Len(s)) /\ Selected(s, A) = f[Len(s)]
  BY SelectedIs
<1>3. PICK g \in [0..Len(s) -> Seq(X \cap B)] :
        SelUpTo(g, s, B, Len(s)) /\ Selected(s, B) = g[Len(s)]
  BY SelectedIs
<1>4. SameChoice(s, A, s, B, Len(s))
  BY <1>1 DEF SameChoice
<1>5. \A i \in 0..Len(s) : f[i] = g[i]
  BY <1>1, <1>2, <1>3, <1>4, SelUnique
<1> QED BY <1>1, <1>2, <1>3, <1>5

\* The elements of r are those of s that are in set.
InBoth(r, s, set) ==
    \A x : (\E i \in DOMAIN r : r[i] = x) <=> x \in set /\ \E i \in DOMAIN s : s[i] = x

LEMMA SelectedMembers ==
    ASSUME NEW X, NEW set, NEW s \in Seq(X)
    PROVE  InBoth(Selected(s, set), s, set)
<1> DEFINE n == Len(s)
           Y == X \cap set
<1>1. n \in Nat /\ DOMAIN s = 1..n
  BY LenProperties
<1>2. PICK f \in [0..n -> Seq(Y)] : SelUpTo(f, s, set, n) /\ Selected(s, set) = f[n]
  BY SelectedIs
<1> DEFINE Right(k) == \A x : (\E i \in DOMAIN f[k] : f[k][i] = x)
                                 <=> x \in set /\ \E i \in 1..k : s[i] = x
           S == {k \in Nat : k <= n => Right(k)}
<1> HIDE DEF n, Y
<1>3. Right(0)
  <2>1. f[0] = <<>>
    BY <1>1, <1>2 DEF SelUpTo
  <2>2. DOMAIN f[0] = {}
    BY <2>1, EmptySeq, LenProperties
  <2> QED BY <2>2
<1>4. ASSUME NEW k \in Nat, Right(k), k + 1 <= n
      PROVE  Right(k + 1)
  <2>1. k \in 0..n /\ k + 1 \in 0..n /\ k + 1 # 0 /\ (k + 1) - 1 = k
    BY <1>1, <1>4
  <2>2. f[k + 1] = IF s[k + 1] \in set THEN Append(f[k], s[k + 1]) ELSE f[k]
    BY <1>2, <2>1 DEF SelUpTo
  <2>3. \A i : i \in 1..k + 1 <=> i \in 1..k \/ i = k + 1
    OBVIOUS
  <2>4. CASE s[k + 1] \notin set
    BY <1>4, <2>2, <2>3, <2>4
  <2>5. CASE s[k + 1] \in set
    <3>1. f[k] \in Seq(Y) /\ s[k + 1] \in Y
      <4>1. s[k + 1] \in X
        BY <1>1, <2>1, ElementOfSeq DEF n
      <4> QED BY <2>1, <2>5, <4>1 DEF Y
    <3> DEFINE b == f[k]
               c == f[k + 1]
    <3>2. c = Append(b, s[k + 1])
      BY <2>2, <2>5
    <3> HIDE DEF b, c
    <3>3. /\ Len(b) \in Nat /\ DOMAIN b = 1..Len(b) /\ DOMAIN c = 1..Len(b) + 1
          /\ \A i \in 1..Len(b) : c[i] = b[i]
          /\ c[Len(b) + 1] = s[k + 1]
      BY <3>1, <3>2, AppendProperties, LenProperties DEF b
    <3>4. \A x : (\E i \in DOMAIN c : c[i] = x)
                   <=> (\E i \in DOMAIN b : b[i] = x) \/ x = s[k + 1]
      BY <3>3
    <3>5. \A x : (\E i \in DOMAIN b : b[i] = x)
                   <=> x \in set /\ \E i \in 1..k : s[i] = x
      BY <1>4 DEF b
    <3>6. \A x : (\E i \in DOMAIN c : c[i] = x)
                   <=> x \in set /\ \E i \in 1..k + 1 : s[i] = x
      BY <2>3, <2>5, <3>4, <3>5
    <3> QED BY <3>6 DEF c
  <2> QED BY <2>4, <2>5
<1>5. 0 \in S /\ \A k \in Nat : k \in S => k + 1 \in S
  <2>1. 0 \in S
    BY <1>3
  <2>2. ASSUME NEW k \in Nat, k \in S PROVE k + 1 \in S
    <3>1. CASE k + 1 <= n
      <4>1. k <= n
        BY <1>1, <3>1
      <4>2. Right(k)
        BY <2>2, <4>1
      <4> HIDE DEF Right
      <4> QED BY <1>4, <3>1, <4>2
    <3>2. CASE ~(k + 1 <= n)
      <4> HIDE DEF Right
      <4> QED BY <3>2
    <3> QED BY <3>1, <3>2
  <2> QED BY <2>1, <2>2
<1> HIDE DEF S
<1>6. n \in S
  BY <1>1, <1>5, SetInduction
<1>7. Right(n)
  BY <1>1, <1>6 DEF S
<1> QED BY <1>1, <1>2, <1>7 DEF InBoth

-----------------------------------------------------------------------------
\* A function on 1..n is a sequence of length n.
LEMMA IntervalSeq ==
    \A S : \A n \in Nat : \A f \in [1..n -> S] : f \in Seq(S) /\ Len(f) = n
<1> SUFFICES ASSUME NEW S, NEW n \in Nat, NEW f \in [1..n -> S]
             PROVE  f \in Seq(S) /\ Len(f) = n
  OBVIOUS
<1>1. f \in Seq(S)
  BY SeqDef
<1>2. DOMAIN f = 1..n /\ DOMAIN f = 1..Len(f) /\ Len(f) \in Nat
  BY <1>1, LenProperties
<1>3. Len(f) = n
  BY <1>2
<1> QED BY <1>1, <1>3

\* The rows the MetricsActor writes are complete.
Written == [timestamp : Clock, stage : Stages, value : Values]

LEMMA WrittenIsRow ==
    ASSUME NEW row \in Written
    PROVE  /\ row \in Row /\ row.stage # None /\ row.stage \in Stages
           /\ row.timestamp \in Clock /\ row.value \in Values
           /\ row.timestamp # NaN /\ row.value # NaN
           /\ IsE2e(row) <=> row.stage = "e2e"
BY ValuesAssumption, NoneAssumption DEF Written, Row, IsE2e

\* What load_run keeps of a file.
FrameRows == {row \in Row : IsE2e(row)}
ActorRows == {row \in Row : IsActor(row)}

Frames == Selected(csv, FrameRows)
Readings == Selected(csv, ActorRows)

Kept == [timestamp : Clock, stage : Stages \cup {None}, value : Values \cup {NaN}]

LEMMA KeptRows ==
    /\ Kept \subseteq Row
    /\ \A row \in FrameRows : row \in Kept /\ row.timestamp \in Nat /\ row.value \in Values
    /\ \A row \in ActorRows : row \in Kept /\ row.timestamp \in Nat
    /\ \A row \in Kept : row.timestamp \in Nat /\ row.value \in Values \cup {NaN}
BY ClockAssumption, ValuesAssumption
   DEF Kept, FrameRows, ActorRows, IsE2e, IsActor, Row

LEMMA SelectedRows ==
    ASSUME csv \in Seq(Row)
    PROVE  /\ Frames \in Seq(Kept) /\ Readings \in Seq(Kept)
           /\ \A i \in DOMAIN Frames : Frames[i] \in FrameRows
<1>1. Row \cap FrameRows = FrameRows /\ Row \cap ActorRows = ActorRows
  BY DEF FrameRows, ActorRows
<1>2. \A set : Selected(csv, set) \in Seq(Row \cap set)
  <2> TAKE set
  <2>1. \E f \in [0..Len(csv) -> Seq(Row \cap set)] :
          SelUpTo(f, csv, set, Len(csv)) /\ Selected(csv, set) = f[Len(csv)]
    BY SelectedIs
  <2>2. Len(csv) \in 0..Len(csv)
    BY LenProperties
  <2> QED BY <2>1, <2>2
<1>3. Frames \in Seq(FrameRows) /\ Readings \in Seq(ActorRows)
  BY <1>1, <1>2 DEF Frames, Readings
<1>4. FrameRows \subseteq Kept /\ ActorRows \subseteq Kept
  BY KeptRows
<1>5. Frames \in Seq(Kept) /\ Readings \in Seq(Kept)
  <2> HIDE DEF Frames, Readings
  <2> QED BY <1>3, <1>4, SeqMonotonic
<1>6. \A i \in DOMAIN Frames : Frames[i] \in FrameRows
  <2> HIDE DEF Frames
  <2> QED BY <1>3, ElementOfSeq, LenProperties
<1> QED BY <1>5, <1>6

\* The least of the timestamps, when there is one.
LEMMA OriginIsLeast ==
    ASSUME NEW a \in Seq(Kept), NEW b \in Seq(Kept)
    PROVE  LET times == {a[i].timestamp : i \in DOMAIN a}
                          \cup {b[i].timestamp : i \in DOMAIN b}
           IN  /\ Origin(a, b) \in Nat
               /\ times \subseteq Nat
               /\ \A t \in times : Origin(a, b) <= t
               /\ times = {} \/ Origin(a, b) \in times
<1> DEFINE times == {a[i].timestamp : i \in DOMAIN a}
                      \cup {b[i].timestamp : i \in DOMAIN b}
           c == a \o b
<1>1. /\ c \in Seq(Kept) /\ Len(a) \in Nat /\ Len(b) \in Nat
      /\ Len(c) = Len(a) + Len(b)
      /\ DOMAIN a = 1..Len(a) /\ DOMAIN b = 1..Len(b) /\ DOMAIN c = 1..Len(a) + Len(b)
      /\ \A i \in 1..Len(a) + Len(b) :
           c[i] = IF i <= Len(a) THEN a[i] ELSE b[i - Len(a)]
  BY ConcatProperties, LenProperties
<1>2. c = <<>> <=> Len(c) = 0
  BY <1>1, EmptySeq
<1> HIDE DEF c
<1>3. \A x \in Kept : x.timestamp \in Nat
  BY KeptRows
<1>4. /\ \A i \in DOMAIN a : a[i].timestamp \in Nat
      /\ \A i \in DOMAIN b : b[i].timestamp \in Nat
  <2>1. \A i \in DOMAIN a : a[i] \in Kept
    BY LenProperties
  <2>2. \A i \in DOMAIN b : b[i] \in Kept
    BY LenProperties
  <2> QED BY <1>3, <2>1, <2>2
<1>5. times \subseteq Nat
  BY <1>4
<1>6. Times(c) = times
  <2>1. ASSUME NEW t \in Times(c) PROVE t \in times
    <3>1. PICK i \in 1..Len(a) + Len(b) : t = c[i].timestamp
      BY <1>1 DEF Times
    <3>2. CASE i <= Len(a)
      <4>1. i \in DOMAIN a /\ c[i] = a[i]
        BY <1>1, <3>1, <3>2
      <4> QED BY <3>1, <4>1
    <3>3. CASE ~(i <= Len(a))
      <4>1. i - Len(a) \in DOMAIN b /\ c[i] = b[i - Len(a)]
        BY <1>1, <3>1, <3>3
      <4> QED BY <3>1, <4>1
    <3> QED BY <3>2, <3>3
  <2>2. ASSUME NEW i \in DOMAIN a PROVE a[i].timestamp \in Times(c)
    <3>1. i \in DOMAIN c /\ c[i] = a[i]
      BY <1>1
    <3> QED BY <3>1 DEF Times
  <2>3. ASSUME NEW i \in DOMAIN b PROVE b[i].timestamp \in Times(c)
    <3>1. /\ i + Len(a) \in 1..Len(a) + Len(b) /\ ~(i + Len(a) <= Len(a))
          /\ (i + Len(a)) - Len(a) = i
      BY <1>1
    <3>2. i + Len(a) \in DOMAIN c /\ c[i + Len(a)] = b[i]
      BY <1>1, <3>1
    <3> QED BY <3>2 DEF Times
  <2> QED BY <2>1, <2>2, <2>3
<1>7. CASE c = <<>>
  <2>1. DOMAIN a = {} /\ DOMAIN b = {}
    BY <1>1, <1>2, <1>7
  <2>2. Origin(a, b) = 0
    BY <1>7 DEF Origin, c
  <2> QED BY <2>1, <2>2
<1>8. CASE c # <<>>
  <2>1. Origin(a, b) = Min(times)
    BY <1>6, <1>8 DEF Origin, c
  <2>2. 1 \in DOMAIN c
    BY <1>1, <1>2, <1>8
  <2>3. times # {}
    BY <1>6, <2>2 DEF Times
  <2> HIDE DEF times
  <2>4. \E x \in times : \A y \in times : x <= y
    BY <1>5, <2>3, LeastNatural
  <2>5. Min(times) \in times /\ \A y \in times : Min(times) <= y
    BY <2>4 DEF Min
  <2> QED BY <1>5, <2>1, <2>5 DEF times
<1> QED BY <1>7, <1>8

\* One sample for each row, at its distance from the origin.
LEMMA RelativeIs ==
    ASSUME NEW rows \in Seq(Kept), NEW origin \in Nat, NEW V,
           \A i \in DOMAIN rows : rows[i].value \in V
    PROVE  /\ Relative(rows, origin) \in Seq([t : Int, v : V])
           /\ Len(Relative(rows, origin)) = Len(rows)
           /\ DOMAIN Relative(rows, origin) = DOMAIN rows
           /\ \A i \in DOMAIN rows :
                /\ Relative(rows, origin)[i].t = rows[i].timestamp - origin
                /\ Relative(rows, origin)[i].v = rows[i].value
<1>1. Len(rows) \in Nat /\ DOMAIN rows = 1..Len(rows)
  BY LenProperties
<1>2. \A i \in DOMAIN rows : rows[i].timestamp \in Nat
  <2>1. \A i \in DOMAIN rows : rows[i] \in Kept
    BY LenProperties
  <2> QED BY <2>1, KeptRows
<1> DEFINE r == Relative(rows, origin)
<1>3. /\ DOMAIN r = 1..Len(rows)
      /\ \A i \in DOMAIN rows : r[i] = [t |-> rows[i].timestamp - origin, v |-> rows[i].value]
  BY <1>1 DEF Relative
<1>4. r \in [1..Len(rows) -> [t : Int, v : V]]
  <2>1. \A i \in DOMAIN rows :
          [t |-> rows[i].timestamp - origin, v |-> rows[i].value] \in [t : Int, v : V]
    BY <1>2
  <2> QED BY <1>1, <2>1 DEF Relative
<1> DEFINE W == [t : Int, v : V]
<1> HIDE DEF r
<1>5. r \in [1..Len(rows) -> W]
  BY <1>4
<1> HIDE DEF W
<1>6. r \in Seq(W) /\ Len(r) = Len(rows)
  <2>1. \A n \in Nat : \A f \in [1..n -> W] : f \in Seq(W) /\ Len(f) = n
    BY IntervalSeq
  <2> QED BY <1>1, <1>5, <2>1
<1> QED BY <1>1, <1>3, <1>6 DEF r, W

-----------------------------------------------------------------------------
\* What is on disk of the log: n whole rows, perhaps a part of the next, and
\* nothing of the others, which are rows of actors but for the last.
KeptUpTo(n) ==
    /\ \A i \in n + 1..Len(logged) - 1 : logged[i].stage = "actor"
    /\ \/ csv = SubSeq(logged, 1, n)
       \/ \E cut \in CutOff(logged[n + 1]) : csv = Append(SubSeq(logged, 1, n), cut)

FileInv ==
    /\ logged \in Seq(Written)
    /\ killed => phase # "running"
    /\ ~killed => csv = logged
    /\ killed => \E n \in 0..Len(logged) - 1 : KeptUpTo(n)

\* What is loaded is what the file holds.
LoadInv ==
    /\ ~Loaded => e2e = <<>> /\ actor = <<>>
    /\ Loaded => /\ e2e = Relative(Frames, Origin(Frames, Readings))
                 /\ actor = Relative(Readings, Origin(Frames, Readings))
                 /\ \A i \in DOMAIN csv : ~Raises(csv[i])

\* What is drawn is what was loaded.
DrawInv ==
    IF phase = "drawn"
      THEN /\ figures.p50 = E2eTimeseries(50)
           /\ figures.p99 = E2eTimeseries(99)
           /\ figures.bars = <<E2eBar(50), E2eBar(99)>>
      ELSE figures = Blank

DInv == TypeOK /\ FileInv /\ LoadInv /\ DrawInv

\* A step that leaves the file alone keeps what is known of it.
LEMMA FileStays ==
    ASSUME FileInv, UNCHANGED <<logged, csv, killed>>, phase' = "running" => phase = "running"
    PROVE  FileInv'
<1>1. \A n : KeptUpTo(n)' <=> KeptUpTo(n)
  BY DEF KeptUpTo
<1> QED BY <1>1 DEF FileInv

LEMMA InitDInv == Init => DInv
<1> SUFFICES ASSUME Init PROVE DInv
  OBVIOUS
<1>1. \A S : <<>> \in Seq(S)
  BY EmptySeq
<1>2. Blank.count = 0 /\ Blank.rss = <<>>
  BY DEF Blank
<1>3. TypeOK
  <2>1. /\ logged \in Seq(Row) /\ csv \in Seq(Row)
        /\ e2e \in Seq([t : Int, v : Values]) /\ actor \in Seq(Sample)
    BY <1>1 DEF Init
  <2>2. /\ killed \in BOOLEAN
        /\ phase \in {"running", "ended", "loaded", "failed", "drawn"}
    BY DEF Init
  <2>3. figures.count \in Nat /\ figures.rss \in Seq(Sample)
    BY <1>1, <1>2 DEF Init
  <2> QED BY <2>1, <2>2, <2>3 DEF TypeOK
<1>4. FileInv /\ LoadInv /\ DrawInv
  BY <1>1 DEF Init, FileInv, LoadInv, DrawInv, Loaded
<1> QED BY <1>3, <1>4 DEF DInv

LEMMA LogKeepsDInv ==
    ASSUME DInv, NEW stage \in Stages, NEW t \in Clock, NEW v \in Values, Log(stage, t, v)
    PROVE  DInv'
<1> DEFINE row == [timestamp |-> t, stage |-> stage, value |-> v]
<1>1. row \in Written /\ row \in Row
  BY WrittenIsRow DEF Written
<1>2. /\ logged' = Append(logged, row) /\ csv' = Append(csv, row)
      /\ UNCHANGED <<killed, phase, e2e, actor, figures>> /\ phase = "running"
  BY DEF Log
<1> HIDE DEF row
<1>3. /\ logged \in Seq(Written) /\ logged \in Seq(Row) /\ csv \in Seq(Row)
      /\ csv = logged /\ ~killed
  BY <1>2 DEF DInv, TypeOK, FileInv
<1>4. logged' \in Seq(Written) /\ logged' \in Seq(Row) /\ csv' \in Seq(Row)
  BY <1>1, <1>2, <1>3, AppendProperties
<1>5. TypeOK'
  BY <1>2, <1>4 DEF DInv, TypeOK
<1>6. FileInv'
  BY <1>2, <1>3, <1>4 DEF FileInv
<1>7. LoadInv' /\ DrawInv'
  BY <1>2 DEF DInv, LoadInv, DrawInv, Loaded
<1> QED BY <1>5, <1>6, <1>7 DEF DInv

LEMMA KilledKeepsDInv ==
    ASSUME DInv, Killed
    PROVE  DInv'
<1>1. PICK n \in 0..Len(csv) - 1 :
        /\ \A i \in n + 1..Len(csv) - 1 : csv[i].stage = "actor"
        /\ csv' \in {SubSeq(csv, 1, n)}
                    \cup {Append(SubSeq(csv, 1, n), row) : row \in CutOff(csv[n + 1])}
  BY DEF Killed
<1>2. /\ killed' /\ phase' = "ended" /\ phase = "running"
      /\ UNCHANGED <<logged, e2e, actor, figures>>
  BY DEF Killed
<1>3. /\ csv = logged /\ logged \in Seq(Written) /\ csv \in Seq(Row)
  BY <1>2 DEF DInv, TypeOK, FileInv
<1>4. SubSeq(csv, 1, n) \in Seq(Row) /\ csv[n + 1] \in Row
  BY <1>3, CutFile
<1>5. csv' \in Seq(Row)
  <2> DEFINE whole == SubSeq(csv, 1, n)
  <2>1. csv' = whole \/ \E row \in CutOff(csv[n + 1]) : csv' = Append(whole, row)
    BY <1>1
  <2>2. \A row \in CutOff(csv[n + 1]) : row \in Row
    BY <1>4, CutOffIsRow
  <2>3. whole \in Seq(Row)
    BY <1>4
  <2> HIDE DEF whole
  <2>4. \A row \in Row : Append(whole, row) \in Seq(Row)
    BY <2>3, AppendProperties
  <2> QED BY <2>1, <2>2, <2>3, <2>4
<1>6. TypeOK'
  <2>1. killed' \in BOOLEAN
    BY DEF Killed
  <2> QED BY <1>2, <1>5, <2>1 DEF DInv, TypeOK
<1>7. FileInv'
  <2>1. n \in 0..Len(logged') - 1 /\ KeptUpTo(n)'
    BY <1>1, <1>2, <1>3 DEF KeptUpTo
  <2> QED BY <1>2, <1>3, <2>1 DEF FileInv
<1>8. LoadInv' /\ DrawInv'
  BY <1>2 DEF DInv, LoadInv, DrawInv, Loaded
<1> QED BY <1>6, <1>7, <1>8 DEF DInv

\* What load_run gives for a file.
LEMMA LoadedSamples ==
    ASSUME csv \in Seq(Row)
    PROVE  LET origin == Origin(Frames, Readings)
               frames == Relative(Frames, origin)
               readings == Relative(Readings, origin)
           IN  /\ origin \in Nat
               /\ frames \in Seq([t : Int, v : Values]) /\ Len(frames) = Len(Frames)
               /\ DOMAIN frames = DOMAIN Frames
               /\ \A i \in DOMAIN Frames :
                    /\ frames[i].t = Frames[i].timestamp - origin
                    /\ frames[i].v = Frames[i].value
               /\ readings \in Seq(Sample)
               /\ DOMAIN readings = DOMAIN Readings
               /\ \A i \in DOMAIN Readings :
                    readings[i].t = Readings[i].timestamp - origin
<1> DEFINE F == Frames
           R == Readings
           origin == Origin(F, R)
<1>1. /\ F \in Seq(Kept) /\ R \in Seq(Kept)
      /\ \A i \in DOMAIN F : F[i] \in FrameRows
  BY SelectedRows
<1> HIDE DEF F, R
<1>2. origin \in Nat
  BY <1>1, OriginIsLeast
<1>3. \A i \in DOMAIN F : F[i].value \in Values
  BY <1>1, KeptRows
<1>4. \A i \in DOMAIN R : R[i].value \in Values \cup {NaN}
  <2>1. \A i \in DOMAIN R : R[i] \in Kept
    BY <1>1, LenProperties
  <2> QED BY <2>1, KeptRows
<1> HIDE DEF origin
<1>5. /\ Relative(F, origin) \in Seq([t : Int, v : Values])
      /\ Len(Relative(F, origin)) = Len(F)
      /\ DOMAIN Relative(F, origin) = DOMAIN F
      /\ \A i \in DOMAIN F :
           /\ Relative(F, origin)[i].t = F[i].timestamp - origin
           /\ Relative(F, origin)[i].v = F[i].value
  BY <1>1, <1>2, <1>3, RelativeIs
<1>6. /\ Relative(R, origin) \in Seq([t : Int, v : Values \cup {NaN}])
      /\ DOMAIN Relative(R, origin) = DOMAIN R
      /\ \A i \in DOMAIN R : Relative(R, origin)[i].t = R[i].timestamp - origin
  BY <1>1, <1>2, <1>4, RelativeIs
<1> QED BY <1>2, <1>5, <1>6 DEF Sample, F, R, origin

LEMMA LoadKeepsDInv ==
    ASSUME DInv, LoadRun
    PROVE  DInv'
<1> DEFINE origin == Origin(Frames, Readings)
<1>1. /\ UNCHANGED <<logged, csv, killed, figures>>
      /\ phase = "ended" /\ phase' = "loaded"
      /\ e2e' = Relative(Frames, origin)
      /\ actor' = Relative(Readings, origin)
      /\ \A i \in DOMAIN csv : ~Raises(csv[i])
  BY DEF LoadRun, fileVars, Frames, Readings, FrameRows, ActorRows
<1>2. csv \in Seq(Row)
  BY DEF DInv, TypeOK
<1>3. e2e' \in Seq([t : Int, v : Values]) /\ actor' \in Seq(Sample)
  BY <1>1, <1>2, LoadedSamples
<1>4. TypeOK'
  BY <1>1, <1>3 DEF DInv, TypeOK
<1>5. FileInv'
  BY <1>1, FileStays DEF DInv
<1>6. DrawInv'
  BY <1>1 DEF DInv, DrawInv
<1>7. Frames' = Frames /\ Readings' = Readings
  BY <1>1 DEF Frames, Readings
<1>8. LoadInv'
  <2>1. Loaded'
    BY <1>1 DEF Loaded
  <2>2. \A i \in DOMAIN csv' : ~Raises(csv[i])'
    BY <1>1 DEF Raises
  <2> QED BY <1>1, <1>7, <2>1, <2>2 DEF LoadInv
<1> QED BY <1>4, <1>5, <1>6, <1>8 DEF DInv

\* The RSS line has the samples of the CPU points.
LEMMA RssLine ==
    ASSUME actor \in Seq(Sample), NEW order \in Orders(actor)
    PROVE  ActorRssLine(order) \in Seq(Sample)
<1>1. Len(actor) \in Nat /\ DOMAIN actor = 1..Len(actor) /\ actor \in [1..Len(actor) -> Sample]
  BY LenProperties
<1>2. order \in [DOMAIN actor -> DOMAIN actor]
  BY DEF Orders
<1>3. ActorRssLine(order) \in [1..Len(actor) -> Sample]
  BY <1>1, <1>2 DEF ActorRssLine
<1>4. \A n \in Nat : \A f \in [1..n -> Sample] : f \in Seq(Sample)
  BY IntervalSeq
<1> QED BY <1>1, <1>3, <1>4

LEMMA DrawKeepsDInv ==
    ASSUME DInv, Draw
    PROVE  DInv'
<1>1. /\ UNCHANGED <<logged, csv, killed, e2e, actor>>
      /\ phase = "loaded" /\ phase' = "drawn"
  BY DEF Draw, fileVars
<1>2. PICK order \in Orders(actor) :
        figures' = [p50   |-> E2eTimeseries(50),
                    p99   |-> E2eTimeseries(99),
                    bars  |-> <<E2eBar(50), E2eBar(99)>>,
                    count |-> FrameCountBar,
                    cpu   |-> ActorCpuLine,
                    rss   |-> ActorRssLine(order)]
  BY DEF Draw
<1>3. figures'.count \in Nat /\ figures'.rss \in Seq(Sample)
  BY <1>2, RssLine, LenProperties DEF FrameCountBar, DInv, TypeOK
<1>4. TypeOK'
  BY <1>1, <1>3 DEF DInv, TypeOK
<1>5. FileInv'
  BY <1>1, FileStays DEF DInv
<1>6. LoadInv'
  <2>1. Frames' = Frames /\ Readings' = Readings /\ Loaded /\ Loaded'
    BY <1>1 DEF Frames, Readings, Loaded
  <2>2. \A i \in DOMAIN csv' : ~Raises(csv[i])'
    BY <1>1, <2>1 DEF DInv, LoadInv, Raises
  <2> QED BY <1>1, <2>1, <2>2 DEF DInv, LoadInv
<1>7. E2eTimeseries(50)' = E2eTimeseries(50) /\ E2eTimeseries(99)' = E2eTimeseries(99)
      /\ E2eBar(50)' = E2eBar(50) /\ E2eBar(99)' = E2eBar(99)
  BY <1>1 DEF E2eTimeseries, E2eBar
<1>8. DrawInv'
  BY <1>1, <1>2, <1>7 DEF DrawInv
<1> QED BY <1>4, <1>5, <1>6, <1>8 DEF DInv

LEMMA StepDInv ==
    ASSUME DInv, [Next]_vars
    PROVE  DInv'
<1>1. ASSUME NEW stage \in Stages, NEW t \in Clock, NEW v \in Values, Log(stage, t, v)
      PROVE  DInv'
  BY <1>1, LogKeepsDInv
<1>2. CASE End \/ LoadFails
  <2>1. /\ UNCHANGED <<logged, csv, killed, e2e, actor, figures>>
        /\ phase \in {"running", "ended"} /\ phase' \in {"ended", "failed"}
    BY <1>2 DEF End, LoadFails, fileVars
  <2>2. TypeOK'
    BY <2>1 DEF DInv, TypeOK
  <2>3. FileInv'
    BY <2>1, FileStays DEF DInv
  <2>4. LoadInv' /\ DrawInv'
    BY <2>1 DEF DInv, LoadInv, DrawInv, Loaded
  <2> QED BY <2>2, <2>3, <2>4 DEF DInv
<1>3. CASE Killed
  BY <1>3, KilledKeepsDInv
<1>4. CASE LoadRun
  BY <1>4, LoadKeepsDInv
<1>5. CASE Draw
  BY <1>5, DrawKeepsDInv
<1>6. CASE UNCHANGED vars
  <2>1. /\ UNCHANGED <<logged, csv, killed, phase, e2e, actor, figures>>
        /\ Frames' = Frames /\ Readings' = Readings
    BY <1>6 DEF vars, fileVars, Frames, Readings
  <2>2. E2eTimeseries(50)' = E2eTimeseries(50) /\ E2eTimeseries(99)' = E2eTimeseries(99)
        /\ E2eBar(50)' = E2eBar(50) /\ E2eBar(99)' = E2eBar(99)
    BY <2>1 DEF E2eTimeseries, E2eBar
  <2>3. TypeOK'
    BY <2>1 DEF DInv, TypeOK
  <2>4. FileInv'
    BY <2>1, FileStays DEF DInv
  <2>5. (Loaded' <=> Loaded) /\ \A i \in DOMAIN csv : Raises(csv[i])' <=> Raises(csv[i])
    BY <2>1 DEF Loaded, Raises
  <2>6. LoadInv'
    BY <2>1, <2>5 DEF DInv, LoadInv
  <2>7. DrawInv'
    BY <2>1, <2>2 DEF DInv, DrawInv
  <2> QED BY <2>3, <2>4, <2>6, <2>7 DEF DInv
<1> QED BY <1>1, <1>2, <1>3, <1>4, <1>5, <1>6 DEF Next

THEOREM DInvCorrect == Spec => []DInv
BY InitDInv, StepDInv, PTL DEF Spec

\* The types of Comparison.tla hold for a file of any length; what is loaded
\* as a frame always has a latency.
THEOREM CTypeCorrect == Spec => []TypeOK
<1>1. DInv => TypeOK
  BY DEF DInv
<1> QED BY <1>1, DInvCorrect, PTL

-----------------------------------------------------------------------------
\* The rows of frames that KillCosts counts in the log.
E2eRows == {row \in Row : row.stage = "e2e"}

\* Of rows that are complete, load_run keeps all frames.
LEMMA CompleteFrames ==
    ASSUME NEW s \in Seq(Written)
    PROVE  /\ s \in Seq(Row)
           /\ Selected(s, E2eRows) = Selected(s, FrameRows)
           /\ Selected(s, FrameRows) \in Seq(Row)
<1>1. Written \subseteq Row
  BY WrittenIsRow
<1>2. s \in Seq(Row)
  BY <1>1, SeqMonotonic
<1>3. \A i \in DOMAIN s : s[i] \in E2eRows <=> s[i] \in FrameRows
  <2>1. \A i \in DOMAIN s : s[i] \in Written
    BY LenProperties
  <2> QED BY <2>1, WrittenIsRow DEF E2eRows, FrameRows
<1>4. Selected(s, E2eRows) = Selected(s, FrameRows)
  BY <1>2, <1>3, SelectedAgree
<1>5. Selected(s, FrameRows) \in Seq(Row)
  <2>1. \E f \in [0..Len(s) -> Seq(Row \cap FrameRows)] :
          SelUpTo(f, s, FrameRows, Len(s)) /\ Selected(s, FrameRows) = f[Len(s)]
    BY <1>2, SelectedIs
  <2>2. Len(s) \in 0..Len(s)
    BY LenProperties
  <2>3. Selected(s, FrameRows) \in Seq(Row \cap FrameRows)
    BY <2>1, <2>2
  <2>4. Row \cap FrameRows \subseteq Row
    OBVIOUS
  <2> HIDE DEF FrameRows
  <2> QED BY <2>3, <2>4, SeqMonotonic
<1> QED BY <1>2, <1>4, <1>5

\* A row that is still a frame's after it has been cut off was a frame's.
LEMMA CutOffFrame ==
    ASSUME NEW last \in Written, NEW cut \in CutOff(last)
    PROVE  /\ last \in Row /\ cut \in Row
           /\ cut \in FrameRows => last \in E2eRows
<1>1. last \in Row /\ cut \in Row
  BY WrittenIsRow, CutOffIsRow
<1>2. ASSUME cut.stage = "e2e" PROVE last.stage = "e2e"
  <2>1. CASE cut \in {[last EXCEPT !.value = v] : v \in Values \cup {NaN}}
    BY <1>2, <2>1 DEF Written
  <2>2. CASE cut \in {[last EXCEPT !.stage = s, !.value = NaN] : s \in {None, "other"}}
    <3>1. cut.stage \in {None, "other"}
      BY <2>2 DEF Written
    <3> QED BY <1>2, <3>1, NoneAssumption DEF Stages
  <2> QED BY <2>1, <2>2 DEF CutOff
<1> QED BY <1>1, <1>2 DEF FrameRows, E2eRows, IsE2e

\* What can be lost between the log and the file: the frame of the last row.
LEMMA FileKeepsFrames ==
    ASSUME DInv
    PROVE  /\ Len(LoggedFrames) \in Nat /\ Len(Frames) \in Nat
           /\ DOMAIN Frames = 1..Len(Frames)
           /\ \/ /\ Len(LoggedFrames) = Len(Frames)
                 /\ \A i \in DOMAIN Frames : Frames[i].value = LoggedFrames[i].value
              \/ /\ killed /\ Last(logged).stage = "e2e"
                 /\ Len(LoggedFrames) - Len(Frames) \in {0, 1}
                 /\ \A i \in DOMAIN Frames :
                      Frames[i].value = LoggedFrames[i].value \/ i = Len(LoggedFrames)
<1> DEFINE frames == Selected(logged, E2eRows)
           L == Len(logged)
<1>0. LoggedFrames = frames
  BY DEF LoggedFrames, E2eRows
<1>1. csv \in Seq(Row) /\ logged \in Seq(Written)
  BY DEF DInv, TypeOK, FileInv
<1>2. Len(Frames) \in Nat /\ DOMAIN Frames = 1..Len(Frames)
  <2>1. Frames \in Seq(Kept)
    BY <1>1, SelectedRows
  <2> HIDE DEF Frames
  <2> QED BY <2>1, LenProperties
<1>3. CASE ~killed
  <2>1. csv = logged
    BY <1>3 DEF DInv, FileInv
  <2>2. frames = Frames
    BY <1>1, <2>1, CompleteFrames DEF Frames
  <2> QED BY <1>0, <1>2, <2>2
<1>4. CASE killed
  <2>1. PICK n \in 0..L - 1 : KeptUpTo(n)
    BY <1>4 DEF DInv, FileInv
  <2> DEFINE W == SubSeq(logged, 1, n)
             H == Selected(W, FrameRows)
             last == logged[L]
  <2>2. /\ L \in Nat /\ L - 1 \in 0..L - 1 /\ (L - 1) + 1 = L /\ n \in Nat
        /\ n <= L - 1 /\ L - 1 <= L /\ L - 1 \in Nat
    BY <1>1, <2>1, LenProperties
  <2>3. W \in Seq(Written) /\ logged[n + 1] \in Written
    BY <1>1, <2>1, CutFile
  <2>4. H \in Seq(Row) /\ W \in Seq(Row) /\ H = Selected(W, E2eRows)
    BY <2>3, CompleteFrames
  <2>5. /\ SubSeq(logged, 1, L - 1) \in Seq(Written) /\ last \in Written
        /\ SubSeq(logged, 1, L) = Append(SubSeq(logged, 1, L - 1), last)
    BY <1>1, <2>2, CutFile, PrefixAppend
  <2>6. SubSeq(logged, 1, L) = logged
    BY <1>1, SubSeqFull
  <2>7. Selected(SubSeq(logged, 1, L - 1), E2eRows) = H
    <3>1. \A i \in n + 1..L - 1 : logged[i] \notin E2eRows
      BY <2>1 DEF KeptUpTo, E2eRows
    <3>2. logged \in Seq(Row)
      BY <1>1, CompleteFrames
    <3> HIDE DEF W, H
    <3>3. Selected(SubSeq(logged, 1, L - 1), E2eRows) = Selected(W, E2eRows)
      BY <2>2, <3>1, <3>2, SelectedPrefix DEF W
    <3> QED BY <2>4, <3>3
  <2>8. last \in Row /\ (last \in E2eRows <=> last.stage = "e2e")
    BY <2>5, WrittenIsRow DEF E2eRows
  <2>9. frames = IF last \in E2eRows THEN Append(H, last) ELSE H
    <3>1. SubSeq(logged, 1, L - 1) \in Seq(Row)
      BY <2>5, CompleteFrames
    <3> DEFINE butLast == SubSeq(logged, 1, L - 1)
    <3>2. butLast \in Seq(Row) /\ Selected(butLast, E2eRows) = H
          /\ logged = Append(butLast, last)
      BY <2>5, <2>6, <2>7, <3>1
    <3> HIDE DEF H, last, butLast
    <3>3. /\ last \in E2eRows =>
               Selected(Append(butLast, last), E2eRows) = Append(Selected(butLast, E2eRows), last)
          /\ last \notin E2eRows =>
               Selected(Append(butLast, last), E2eRows) = Selected(butLast, E2eRows)
      BY <2>8, <3>2, SelectedAppend
    <3> QED BY <3>2, <3>3
  <2>10. Last(logged) = last
    BY DEF Last
  <2>11. \A e \in Row :
           /\ e \in FrameRows => Selected(Append(W, e), FrameRows) = Append(H, e)
           /\ e \notin FrameRows => Selected(Append(W, e), FrameRows) = H
    <3> SUFFICES ASSUME NEW e \in Row
                 PROVE  /\ e \in FrameRows => Selected(Append(W, e), FrameRows) = Append(H, e)
                        /\ e \notin FrameRows => Selected(Append(W, e), FrameRows) = H
      OBVIOUS
    <3>1. W \in Seq(Row) /\ Selected(W, FrameRows) = H
      BY <2>4
    <3> HIDE DEF W, H, FrameRows
    <3>2. /\ e \in FrameRows => Selected(Append(W, e), FrameRows) = Append(Selected(W, FrameRows), e)
          /\ e \notin FrameRows => Selected(Append(W, e), FrameRows) = Selected(W, FrameRows)
      BY <3>1, SelectedAppend
    <3> QED BY <3>1, <3>2
  <2>12. \/ Frames = H
         \/ \E cut \in Row : last \in E2eRows /\ Frames = Append(H, cut)
    <3>1. CASE csv = W
      BY <3>1 DEF Frames
    <3>2. ASSUME NEW cut \in CutOff(logged[n + 1]), csv = Append(W, cut)
          PROVE  \/ Frames = H
                 \/ cut \in Row /\ last \in E2eRows /\ Frames = Append(H, cut)
      <4>1. /\ cut \in Row
            /\ cut \in FrameRows => logged[n + 1] \in E2eRows
        BY <2>3, CutOffFrame
      <4>2. CASE cut \notin FrameRows
        <5>1. Frames = Selected(Append(W, cut), FrameRows)
          BY <3>2 DEF Frames
        <5> HIDE DEF W, H, Frames, FrameRows
        <5> QED BY <2>11, <4>1, <4>2, <5>1
      <4>3. CASE cut \in FrameRows
        <5>1. logged[n + 1].stage = "e2e"
          BY <4>1, <4>3 DEF E2eRows
        <5>2. n + 1 \notin n + 1..L - 1
          <6>1. \A i \in n + 1..L - 1 : logged[i].stage = "actor"
            BY <2>1 DEF KeptUpTo
          <6> QED BY <5>1, <6>1
        <5>3. n + 1 = L
          <6>1. L \in Nat /\ n \in Nat /\ n <= L - 1
            BY <2>2
          <6> HIDE DEF L
          <6> QED BY <5>2, <6>1
        <5>4. last \in E2eRows
          BY <4>1, <4>3, <5>3
        <5>5. Frames = Selected(Append(W, cut), FrameRows)
          BY <3>2 DEF Frames
        <5> HIDE DEF W, H, Frames, FrameRows, last
        <5> QED BY <2>11, <4>1, <4>3, <5>4, <5>5
      <4> QED BY <4>2, <4>3
    <3> QED BY <2>1, <3>1, <3>2 DEF KeptUpTo
  <2> HIDE DEF H, frames, Frames, last, L
  <2>13. /\ Len(H) \in Nat /\ DOMAIN H = 1..Len(H)
         /\ \A e \in Row : /\ Len(Append(H, e)) = Len(H) + 1
                          /\ \A i \in 1..Len(H) : Append(H, e)[i] = H[i]
    BY <2>4, AppendProperties, LenProperties
  <2>14. CASE last \notin E2eRows
    <3>1. Frames = H /\ frames = H
      BY <2>9, <2>12, <2>14
    <3> QED BY <1>0, <1>2, <3>1
  <2>15. CASE last \in E2eRows
    <3>1. killed /\ Last(logged).stage = "e2e"
      BY <1>4, <2>8, <2>10, <2>15
    <3>2. frames = Append(H, last) /\ Len(frames) = Len(H) + 1
          /\ \A i \in 1..Len(H) : frames[i] = H[i]
      BY <2>8, <2>9, <2>13, <2>15
    <3>3. CASE Frames = H
      <4>1. Len(frames) - Len(Frames) \in {0, 1}
        BY <2>13, <3>2, <3>3
      <4>2. \A i \in DOMAIN Frames : Frames[i].value = frames[i].value
        BY <2>13, <3>2, <3>3
      <4>3. Len(frames) \in Nat
        BY <2>13, <3>2
      <4> QED BY <1>0, <1>2, <3>1, <4>1, <4>2, <4>3
    <3>4. ASSUME NEW cut \in Row, Frames = Append(H, cut)
          PROVE  /\ Len(frames) = Len(Frames) /\ Len(frames) \in Nat
                 /\ \A i \in DOMAIN Frames :
                      Frames[i].value = frames[i].value \/ i = Len(frames)
      <4>1. /\ Len(Frames) = Len(H) + 1
            /\ \A i \in 1..Len(H) : Frames[i] = H[i]
        BY <2>13, <3>4
      <4>2. \A i \in DOMAIN Frames : i \in 1..Len(H) \/ i = Len(frames)
        BY <1>2, <2>13, <3>2, <4>1
      <4> QED BY <2>13, <3>2, <4>1, <4>2
    <3>5. CASE \E cut \in Row : Frames = Append(H, cut)
      <4>1. /\ Len(frames) = Len(Frames) /\ Len(frames) \in Nat
            /\ \A i \in DOMAIN Frames :
                 Frames[i].value = frames[i].value \/ i = Len(frames)
        BY <3>4, <3>5
      <4>2. Len(frames) - Len(Frames) \in {0, 1}
        BY <4>1
      <4> QED BY <1>0, <1>2, <3>1, <4>1, <4>2
    <3> QED BY <2>12, <3>3, <3>5
  <2> QED BY <2>14, <2>15
<1> QED BY <1>3, <1>4

\* A file that ends without a stage cannot be loaded.
LEMMA StagelessRaises ==
    ASSUME DInv, csv # <<>>, Last(csv).stage = None
    PROVE  ~Loaded
<1>1. csv \in Seq(Row) /\ logged \in Seq(Written)
  BY DEF DInv, TypeOK, FileInv
<1>2. Len(csv) \in Nat /\ Len(csv) > 0 /\ DOMAIN csv = 1..Len(csv) /\ Last(csv) = csv[Len(csv)]
  BY <1>1, EmptySeq, LenProperties DEF Last
<1>3. csv[Len(csv)].timestamp # NaN
  <2>1. CASE ~killed
    <3>1. csv = logged
      BY <2>1 DEF DInv, FileInv
    <3>2. logged[Len(csv)] \in Written
      BY <1>1, <1>2, <3>1, ElementOfSeq
    <3> QED BY <3>1, <3>2, WrittenIsRow
  <2>2. CASE killed
    <3>1. PICK n \in 0..Len(logged) - 1 : KeptUpTo(n)
      BY <2>2 DEF DInv, FileInv
    <3> DEFINE W == SubSeq(logged, 1, n)
    <3>2. W \in Seq(Written) /\ logged[n + 1] \in Written
      BY <1>1, <3>1, CutFile
    <3>3. csv = W \/ \E cut \in CutOff(logged[n + 1]) : csv = Append(W, cut)
      BY <3>1 DEF KeptUpTo
    <3> HIDE DEF W
    <3>4. CASE csv = W
      <4>1. csv[Len(csv)] \in Written
        BY <1>2, <3>2, <3>4, ElementOfSeq
      <4> QED BY <4>1, WrittenIsRow
    <3>5. ASSUME NEW cut \in CutOff(logged[n + 1]), csv = Append(W, cut)
          PROVE  csv[Len(csv)].timestamp # NaN
      <4>1. cut.timestamp = logged[n + 1].timestamp
        BY <3>2 DEF CutOff, Written
      <4>2. csv[Len(csv)] = cut
        <5>1. W \in Seq(Row) /\ cut \in Row
          BY <3>2, CompleteFrames, CutOffIsRow, WrittenIsRow
        <5> QED BY <3>5, <5>1, AppendProperties
      <4> QED BY <3>2, <4>1, <4>2, WrittenIsRow
    <3> QED BY <3>3, <3>4, <3>5
  <2> QED BY <2>1, <2>2
<1>4. Raises(csv[Len(csv)])
  BY <1>2, <1>3 DEF Raises
<1> QED BY <1>2, <1>4 DEF DInv, LoadInv

\* What a kill costs, for a log of any length: everything when it cuts a row
\* off before its stage, otherwise at most the frame of the last row.
THEOREM KillCostsCorrect == Spec => []KillCosts
<1>1. ASSUME CInv, DInv, phase \in {"failed", "loaded", "drawn"},
             csv # <<>>, Last(csv).stage = None
      PROVE  phase = "failed" /\ e2e = <<>> /\ figures = Blank
  BY <1>1, StagelessRaises DEF DInv, LoadInv, DrawInv, Loaded
<1>2. ASSUME CInv, DInv, phase \in {"failed", "loaded", "drawn"},
             ~(csv # <<>> /\ Last(csv).stage = None)
      PROVE  Loaded
  BY <1>2 DEF CInv, FailsOnlyOnTornTail, Loaded
<1>3. ASSUME DInv, Loaded
      PROVE  LET lost == Len(LoggedFrames) - Len(e2e) IN
             /\ lost \in {0, 1}
             /\ Altered \subseteq {Len(LoggedFrames)}
             /\ lost = 1 \/ Altered # {} => killed /\ Last(logged).stage = "e2e"
  <2>1. /\ Len(e2e) = Len(Frames) /\ DOMAIN e2e = DOMAIN Frames
        /\ \A i \in DOMAIN Frames : e2e[i].v = Frames[i].value
    <3>1. csv \in Seq(Row) /\ e2e = Relative(Frames, Origin(Frames, Readings))
      BY <1>3 DEF DInv, TypeOK, LoadInv
    <3> HIDE DEF Frames, Readings
    <3> QED BY <3>1, LoadedSamples
  <2> DEFINE unlike == {i \in DOMAIN Frames : Frames[i].value # LoggedFrames[i].value}
  <2>2. Altered = unlike
    BY <2>1 DEF Altered
  <2> DEFINE F == Frames
             G == LoggedFrames
  <2>3. /\ Len(G) \in Nat /\ Len(F) \in Nat
        /\ \/ Len(G) = Len(F) /\ unlike = {}
           \/ /\ killed /\ Last(logged).stage = "e2e"
              /\ Len(G) - Len(F) \in {0, 1}
              /\ unlike \subseteq {Len(G)}
    BY <1>3, FileKeepsFrames
  <2> HIDE DEF F, G, unlike
  <2>4. /\ Len(G) - Len(F) \in {0, 1}
        /\ unlike \subseteq {Len(G)}
        /\ Len(G) - Len(F) = 1 \/ unlike # {} => killed /\ Last(logged).stage = "e2e"
    BY <2>3
  <2> QED BY <2>1, <2>2, <2>4 DEF F, G
<1>4. CInv /\ DInv => KillCosts
  <2> SUFFICES ASSUME CInv, DInv PROVE KillCosts
    OBVIOUS
  <2> QED BY <1>1, <1>2, <1>3 DEF KillCosts
<1>5. Spec => []CInv
  BY InitCInv, StepCInv, PTL DEF Spec
<1> QED BY <1>4, <1>5, DInvCorrect, PTL

-----------------------------------------------------------------------------
\* The numbers in a sequence have a bound.
LEMMA NumbersBounded ==
    ASSUME NEW s \in Seq(Nat)
    PROVE  \E b \in Nat : \A i \in DOMAIN s : s[i] <= b
<1> DEFINE S == {k \in Nat : k <= Len(s) =>
                    \E b \in Nat : \A i \in 1..k : s[i] <= b}
<1>1. Len(s) \in Nat /\ DOMAIN s = 1..Len(s)
  BY LenProperties
<1>2. 0 \in S
  OBVIOUS
<1>3. ASSUME NEW k \in Nat, k \in S PROVE k + 1 \in S
  <2>1. CASE k + 1 <= Len(s)
    <3>1. PICK b \in Nat : \A i \in 1..k : s[i] <= b
      BY <1>1, <1>3, <2>1
    <3>2. s[k + 1] \in Nat
      BY <1>1, <2>1, ElementOfSeq
    <3>3. b + s[k + 1] \in Nat
      BY <3>2
    <3>4. ASSUME NEW i \in 1..k + 1 PROVE s[i] <= b + s[k + 1]
      <4>1. s[i] \in Nat
        BY <1>1, <2>1, ElementOfSeq
      <4> QED BY <3>1, <3>2, <4>1
    <3>5. \E c \in Nat : \A i \in 1..k + 1 : s[i] <= c
      BY <3>3, <3>4
    <3>6. k + 1 \in Nat
      OBVIOUS
    <3> QED BY <3>5, <3>6, Zenon
  <2>2. CASE ~(k + 1 <= Len(s))
    BY <2>2
  <2> QED BY <2>1, <2>2
<1> HIDE DEF S
<1>4. Len(s) \in S
  BY <1>1, <1>2, <1>3, SetInduction
<1> QED BY <1>1, <1>4 DEF S

\* A bounded set of numbers has a greatest.
LEMMA GreatestNatural ==
    ASSUME NEW T \in SUBSET Nat, T # {}, NEW b \in Nat, \A x \in T : x <= b
    PROVE  Max(T) \in T /\ \A x \in T : x <= Max(T)
<1> DEFINE B == {c \in Nat : \A x \in T : x <= c}
<1>1. PICK m \in B : \A c \in B : m <= c
  BY LeastNatural
<1>2. m \in T
  <2> SUFFICES ASSUME m \notin T PROVE FALSE
    OBVIOUS
  <2>1. m \in Nat /\ \A x \in T : x \in Nat /\ x < m
    BY <1>1
  <2>0. PICK z \in T : TRUE
    OBVIOUS
  <2>2. m \in Nat /\ m - 1 \in Nat /\ \A x \in T : x <= m - 1
    <3> HIDE DEF B
    <3> QED BY <2>0, <2>1
  <2>3. m - 1 \in B
    BY <2>2
  <2> QED BY <1>1, <2>2, <2>3
<1>3. \E x \in T : \A y \in T : x >= y
  BY <1>1, <1>2
<1>4. Max(T) \in T /\ \A y \in T : Max(T) >= y
  BY <1>3 DEF Max
<1> QED BY <1>4

\* Multiples of the bucket size are as far apart as their factors.
LEMMA Multiples ==
    ASSUME NEW p \in Nat, NEW q \in Nat
    PROVE  /\ Bucket * p \in Nat /\ Bucket * q \in Nat
           /\ p <= q => Bucket * p <= Bucket * q
           /\ p > q => Bucket * p >= Bucket * q + Bucket
           /\ (Bucket * p) % Bucket = 0
<1>1. Bucket \in Nat /\ Bucket > 0
  BY BucketAssumption
<1>2. \A i, j \in Nat : i <= j => Bucket * i <= Bucket * j
  BY <1>1
<1>3. \A i \in Nat : Bucket * i \in Nat /\ Bucket * (i + 1) = Bucket * i + Bucket
  BY <1>1
<1>4. \A i, j \in Nat : i > j => Bucket * i >= Bucket * j + Bucket
  <2> TAKE i, j \in Nat
  <2> HAVE i > j
  <2>1. Bucket * (j + 1) <= Bucket * i
    <3>1. j + 1 \in Nat /\ j + 1 <= i
      OBVIOUS
    <3> QED BY <1>2, <3>1
  <2>2. Bucket * (j + 1) = Bucket * j + Bucket
    BY <1>3
  <2>3. PICK x \in Nat, y \in Nat : x = Bucket * j /\ y = Bucket * i
    BY <1>3
  <2> QED BY <1>1, <2>1, <2>2, <2>3
<1>5. (Bucket * p) % Bucket = 0
  <2> DEFINE n == Bucket * p
             d == n \div Bucket
             m == n % Bucket
  <2>1. n \in Nat
    BY <1>3
  <2>2. d \in Nat /\ m \in 0..Bucket - 1 /\ n = (Bucket * d) + m
    <3> HIDE DEF n
    <3> QED BY <1>1, <2>1
  <2> HIDE DEF d, m
  <2>3. PICK x \in Nat, y \in Nat : x = Bucket * d /\ y = Bucket * p
    BY <1>3, <2>2
  <2>4. y = x + m /\ m \in 0..Bucket - 1
    BY <2>2, <2>3
  <2>5. ~(p > d)
    <3>1. p > d => y >= x + Bucket
      BY <1>4, <2>2, <2>3
    <3> QED BY <1>1, <2>4, <3>1
  <2>6. ~(d > p)
    <3>1. d > p => x >= y + Bucket
      BY <1>4, <2>2, <2>3
    <3> QED BY <1>1, <2>4, <3>1
  <2>7. d = p
    BY <2>2, <2>5, <2>6
  <2>8. m = 0
    BY <2>3, <2>4, <2>7
  <2> QED BY <2>8 DEF m
<1> QED BY <1>2, <1>3, <1>4, <1>5

\* Among the multiples of the bucket size there is one at or just below every
\* number, and only one.
LEMMA OneMultiple ==
    ASSUME NEW t \in Nat
    PROVE  /\ \E lo \in Nat : lo % Bucket = 0 /\ lo <= t /\ t < lo + Bucket
           /\ \A lo, hi \in Nat :
                /\ lo % Bucket = 0 /\ lo <= t /\ t < lo + Bucket
                /\ hi % Bucket = 0 /\ hi <= t /\ t < hi + Bucket
                => lo = hi
<1>1. Bucket \in Nat /\ Bucket > 0
  BY BucketAssumption
<1>2. \A n \in Nat : /\ n \div Bucket \in Nat /\ n % Bucket \in 0..Bucket - 1
                     /\ n = (Bucket * (n \div Bucket)) + (n % Bucket)
  BY <1>1
<1>3. \E lo \in Nat : lo % Bucket = 0 /\ lo <= t /\ t < lo + Bucket
  <2> DEFINE lo == Bucket * (t \div Bucket)
             rest == t % Bucket
  <2>1. lo \in Nat /\ lo % Bucket = 0
    BY <1>2, Multiples
  <2>2. t = lo + rest /\ rest \in 0..Bucket - 1
    BY <1>2
  <2> HIDE DEF lo, rest
  <2>3. lo <= t /\ t < lo + Bucket
    BY <1>1, <2>1, <2>2
  <2> QED BY <2>1, <2>3
<1>4. ASSUME NEW lo \in Nat, NEW hi \in Nat, lo % Bucket = 0, hi % Bucket = 0,
             lo <= t, t < hi + Bucket
      PROVE  lo <= hi
  <2> SUFFICES ASSUME hi < lo PROVE FALSE
    BY <1>4
  <2> DEFINE p == lo \div Bucket
             q == hi \div Bucket
  <2>1. p \in Nat /\ q \in Nat
    BY <1>2
  <2>2. lo = (Bucket * p) + (lo % Bucket) /\ hi = (Bucket * q) + (hi % Bucket)
    BY <1>2
  <2> HIDE DEF p, q
  <2>3. /\ Bucket * p \in Nat /\ Bucket * q \in Nat
        /\ p <= q => Bucket * p <= Bucket * q
        /\ p > q => Bucket * p >= Bucket * q + Bucket
    BY <2>1, Multiples
  <2>4. PICK x \in Nat, y \in Nat : x = Bucket * p /\ y = Bucket * q
    BY <2>3
  <2>5. lo = x /\ hi = y
    BY <1>4, <2>2, <2>4
  <2>6. lo < hi + Bucket
    BY <1>1, <1>4
  <2>7. x <= y \/ x >= y + Bucket
    BY <2>1, <2>3, <2>4
  <2> QED BY <1>1, <2>5, <2>6, <2>7
<1>5. \A lo, hi \in Nat :
        /\ lo % Bucket = 0 /\ lo <= t /\ t < lo + Bucket
        /\ hi % Bucket = 0 /\ hi <= t /\ t < hi + Bucket
        => lo = hi
  <2> TAKE lo, hi \in Nat
  <2> HAVE /\ lo % Bucket = 0 /\ lo <= t /\ t < lo + Bucket
           /\ hi % Bucket = 0 /\ hi <= t /\ t < hi + Bucket
  <2>1. lo <= hi /\ hi <= lo
    BY <1>4
  <2> QED BY <2>1
<1> QED BY <1>3, <1>5

\* Sample t lies in the bucket that begins at lo.
Within(lo, t) == lo <= t /\ t < lo + Bucket

\* A bucket is empty when no sample lies in it.
LEMMA BucketMembers ==
    ASSUME NEW samples \in Seq(Sample), NEW lo \in Nat
    PROVE  /\ InBucket(samples, lo) \in Seq(Sample)
           /\ InBucket(samples, lo) # <<>>
                <=> \E i \in DOMAIN samples : Within(lo, samples[i].t)
<1> DEFINE set == {s \in Sample : lo <= s.t /\ s.t < lo + Bucket}
           r == Selected(samples, set)
<1>1. \E f \in [0..Len(samples) -> Seq(Sample \cap set)] :
        SelUpTo(f, samples, set, Len(samples)) /\ r = f[Len(samples)]
  <2> HIDE DEF set
  <2> QED BY SelectedIs
<1>2. Len(samples) \in 0..Len(samples)
  BY LenProperties
<1>3. r \in Seq(Sample \cap set)
  <2> HIDE DEF r, set
  <2> QED BY <1>1, <1>2
<1>4. r \in Seq(Sample)
  <2> HIDE DEF r
  <2>1. Sample \cap set \subseteq Sample
    OBVIOUS
  <2> QED BY <1>3, <2>1, SeqMonotonic
<1>5. \A x : (\E i \in DOMAIN r : r[i] = x)
               <=> x \in set /\ \E i \in DOMAIN samples : samples[i] = x
  <2> HIDE DEF set
  <2>1. InBoth(r, samples, set)
    BY SelectedMembers
  <2> HIDE DEF r
  <2> QED BY <2>1 DEF InBoth
<1>6. \A i \in DOMAIN samples : samples[i] \in Sample
  BY LenProperties
<1>7. \A i \in DOMAIN samples : samples[i] \in set <=> Within(lo, samples[i].t)
  BY <1>6 DEF Within
<1>8. InBucket(samples, lo) = r
  BY DEF InBucket
<1> HIDE DEF r, set
<1>9. r # <<>> <=> \E i \in DOMAIN r : TRUE
  <2>1. Len(r) \in Nat /\ DOMAIN r = 1..Len(r) /\ (r = <<>> <=> Len(r) = 0)
    BY <1>4, EmptySeq, LenProperties
  <2>2. r # <<>> => 1 \in DOMAIN r
    BY <2>1
  <2>3. r = <<>> => DOMAIN r = {}
    BY <2>1
  <2> QED BY <2>2, <2>3
<1>10. (\E i \in DOMAIN r : TRUE) <=> \E i \in DOMAIN samples : samples[i] \in set
  <2>1. ASSUME NEW i \in DOMAIN r PROVE \E j \in DOMAIN samples : samples[j] \in set
    BY <1>5
  <2>2. ASSUME NEW j \in DOMAIN samples, samples[j] \in set PROVE \E i \in DOMAIN r : TRUE
    BY <1>5, <2>2
  <2> QED BY <2>1, <2>2
<1> QED BY <1>4, <1>7, <1>8, <1>9, <1>10

\* The buckets of samples at times from 0 on: every sample has one edge at or
\* just below it and no other.
LEMMA EdgesCover ==
    ASSUME NEW samples \in Seq(Sample), samples # <<>>,
           \A i \in DOMAIN samples : samples[i].t \in Nat
    PROVE  /\ Edges(samples) \subseteq Nat
           /\ \A i \in DOMAIN samples :
                \E lo \in Edges(samples) : Within(lo, samples[i].t)
           /\ \A i \in DOMAIN samples : \A lo, hi \in Edges(samples) :
                Within(lo, samples[i].t) /\ Within(hi, samples[i].t) => lo = hi
<1> DEFINE T == {samples[i].t : i \in DOMAIN samples}
           last == Max(T)
<1>1. Bucket \in Nat /\ Bucket > 0
  BY BucketAssumption
<1>2. Len(samples) \in Nat /\ DOMAIN samples = 1..Len(samples) /\ 1 \in DOMAIN samples
  BY EmptySeq, LenProperties
<1>3. last \in T /\ \A x \in T : x <= last
  <2> DEFINE times == [i \in 1..Len(samples) |-> samples[i].t]
  <2>1. times \in [1..Len(samples) -> Nat]
    BY <1>2
  <2>2. DOMAIN times = DOMAIN samples /\ \A i \in DOMAIN samples : times[i] = samples[i].t
    BY <1>2
  <2> HIDE DEF times
  <2>3. times \in Seq(Nat)
    <3>1. \A n \in Nat : \A f \in [1..n -> Nat] : f \in Seq(Nat)
      BY IntervalSeq
    <3> QED BY <1>2, <2>1, <3>1
  <2>4. PICK b \in Nat : \A i \in DOMAIN times : times[i] <= b
    BY <2>3, NumbersBounded
  <2>5. T \subseteq Nat /\ T # {} /\ \A x \in T : x <= b
    BY <1>2, <2>2, <2>4
  <2> HIDE DEF T
  <2> QED BY <2>5, GreatestNatural
<1>4. Edges(samples) = {lo \in 0..last + Bucket : lo % Bucket = 0 /\ lo < last + Bucket}
  BY DEF Edges
<1>5. last \in Nat /\ \A i \in DOMAIN samples : samples[i].t <= last
  BY <1>3
<1> HIDE DEF last
<1>6. Edges(samples) \subseteq Nat
  BY <1>1, <1>4, <1>5
<1>7. ASSUME NEW i \in DOMAIN samples
      PROVE  \E lo \in Edges(samples) : Within(lo, samples[i].t)
  <2>1. PICK t \in Nat : t = samples[i].t
    OBVIOUS
  <2>2. PICK lo \in Nat : lo % Bucket = 0 /\ lo <= t /\ t < lo + Bucket
    BY OneMultiple
  <2>3. t <= last
    BY <1>5, <2>1
  <2>4. lo \in 0..last + Bucket /\ lo < last + Bucket
    BY <1>1, <1>5, <2>2, <2>3
  <2> QED BY <1>4, <2>1, <2>2, <2>4 DEF Within
<1>8. ASSUME NEW i \in DOMAIN samples, NEW lo \in Edges(samples), NEW hi \in Edges(samples),
             Within(lo, samples[i].t), Within(hi, samples[i].t)
      PROVE  lo = hi
  <2>1. PICK t \in Nat : t = samples[i].t
    OBVIOUS
  <2>2. lo \in Nat /\ hi \in Nat /\ lo % Bucket = 0 /\ hi % Bucket = 0
    BY <1>4, <1>6
  <2>3. lo <= t /\ t < lo + Bucket /\ hi <= t /\ t < hi + Bucket
    BY <1>8, <2>1 DEF Within
  <2>4. \A x, y \in Nat :
          /\ x % Bucket = 0 /\ x <= t /\ t < x + Bucket
          /\ y % Bucket = 0 /\ y <= t /\ t < y + Bucket
          => x = y
    BY OneMultiple
  <2> QED BY <2>2, <2>3, <2>4
<1> QED BY <1>6, <1>7, <1>8

\* The frames that were loaded lie at times from 0 on.
LEMMA FramesFromZero ==
    ASSUME DInv
    PROVE  /\ e2e \in Seq(Sample) /\ e2e \in Seq([t : Int, v : Values])
           /\ \A i \in DOMAIN e2e : e2e[i].t \in Nat
<1>1. e2e \in Seq([t : Int, v : Values])
  BY DEF DInv, TypeOK
<1>2. e2e \in Seq(Sample)
  <2>1. [t : Int, v : Values] \subseteq Sample
    BY DEF Sample
  <2> QED BY <1>1, <2>1, SeqMonotonic
<1>3. CASE e2e = <<>>
  <2>1. DOMAIN e2e = {}
    BY <1>3, EmptySeq, LenProperties
  <2> QED BY <1>1, <1>2, <2>1
<1>4. CASE Loaded
  <2> DEFINE F == Frames
             R == Readings
             origin == Origin(F, R)
  <2>1. csv \in Seq(Row) /\ e2e = Relative(F, origin)
    BY <1>4 DEF DInv, TypeOK, LoadInv
  <2>2. /\ DOMAIN e2e = DOMAIN F
        /\ \A i \in DOMAIN F : e2e[i].t = F[i].timestamp - origin
    BY <2>1, LoadedSamples
  <2>3. F \in Seq(Kept) /\ R \in Seq(Kept)
    BY <2>1, SelectedRows
  <2> HIDE DEF F, R
  <2>4. /\ origin \in Nat
        /\ \A i \in DOMAIN F : F[i].timestamp \in Nat /\ origin <= F[i].timestamp
    BY <2>3, OriginIsLeast
  <2> HIDE DEF origin
  <2>5. ASSUME NEW i \in DOMAIN e2e PROVE e2e[i].t \in Nat
    <3>1. PICK x \in Nat : x = F[i].timestamp
      BY <2>2, <2>4
    <3>2. x - origin \in Nat
      BY <2>2, <2>4, <3>1
    <3> QED BY <2>2, <3>1, <3>2
  <2> QED BY <1>1, <1>2, <2>5
<1> QED BY <1>3, <1>4 DEF DInv, LoadInv

\* The buckets that are drawn are those with a frame, for either line.
LEMMA DrawnBuckets ==
    ASSUME DInv, NEW pct
    PROVE  /\ e2e = <<>> => E2eTimeseries(pct) = <<>>
           /\ e2e # <<>> => DOMAIN E2eTimeseries(pct) =
                              {l \in Edges(e2e) : InBucket(e2e, l) # <<>>}
BY DEF E2eTimeseries, BucketedPercentiles

\* However long the run and however wide the buckets: no frame is left out of
\* the latency lines, none is counted in two buckets, and no bucket that is
\* drawn is empty.
THEOREM EveryFrameInOneBucketCorrect == Spec => []EveryFrameInOneBucket
<1>1. ASSUME DInv, phase = "drawn"
      PROVE  LET within(lo, s) == lo <= s.t /\ s.t < lo + Bucket
                 los == DOMAIN figures.p50 IN
             /\ DOMAIN figures.p99 = los
             /\ \A i \in DOMAIN e2e : Cardinality({lo \in los : within(lo, e2e[i])}) = 1
             /\ \A lo \in los : \E i \in DOMAIN e2e : within(lo, e2e[i])
  <2> DEFINE los == DOMAIN figures.p50
  <2>1. figures.p50 = E2eTimeseries(50) /\ figures.p99 = E2eTimeseries(99)
    BY <1>1 DEF DInv, DrawInv
  <2>2. CASE e2e = <<>>
    <3>1. figures.p50 = <<>> /\ figures.p99 = <<>>
      BY <1>1, <2>1, <2>2, DrawnBuckets
    <3>2. DOMAIN figures.p50 = {} /\ DOMAIN figures.p99 = {} /\ DOMAIN e2e = {}
      BY <2>2, <3>1, EmptySeq, LenProperties
    <3> QED BY <3>2
  <2>3. CASE e2e # <<>>
    <3> DEFINE drawn == {l \in Edges(e2e) : InBucket(e2e, l) # <<>>}
    <3>0. DOMAIN E2eTimeseries(50) = drawn /\ DOMAIN E2eTimeseries(99) = drawn
      BY <1>1, <2>3, DrawnBuckets
    <3>1. /\ los = {l \in Edges(e2e) : InBucket(e2e, l) # <<>>}
          /\ DOMAIN figures.p99 = {l \in Edges(e2e) : InBucket(e2e, l) # <<>>}
      BY <2>1, <3>0
    <3> HIDE DEF los
    <3>2. e2e \in Seq(Sample) /\ \A i \in DOMAIN e2e : e2e[i].t \in Nat
      BY <1>1, FramesFromZero
    <3>3. /\ Edges(e2e) \subseteq Nat
          /\ \A i \in DOMAIN e2e : \E lo \in Edges(e2e) : Within(lo, e2e[i].t)
          /\ \A i \in DOMAIN e2e : \A lo, hi \in Edges(e2e) :
               Within(lo, e2e[i].t) /\ Within(hi, e2e[i].t) => lo = hi
      BY <2>3, <3>2, EdgesCover
    <3>4. \A lo \in Edges(e2e) :
            lo \in los <=> \E i \in DOMAIN e2e : Within(lo, e2e[i].t)
      BY <3>1, <3>2, <3>3, BucketMembers
    <3>5. los \subseteq Edges(e2e)
      BY <3>1
    <3>6. ASSUME NEW i \in DOMAIN e2e
          PROVE  Cardinality({lo \in los : Within(lo, e2e[i].t)}) = 1
      <4>1. PICK lo \in Edges(e2e) : Within(lo, e2e[i].t)
        BY <3>3
      <4>2. lo \in los
        BY <3>4, <4>1
      <4>3. {l \in los : Within(l, e2e[i].t)} = {lo}
        BY <3>3, <3>5, <4>1, <4>2
      <4> QED BY <4>3, FS_Singleton
    <3>7. \A i \in DOMAIN e2e :
            Cardinality({lo \in los : lo <= e2e[i].t /\ e2e[i].t < lo + Bucket}) = 1
      BY <3>6 DEF Within
    <3>8. \A lo \in los : \E i \in DOMAIN e2e : lo <= e2e[i].t /\ e2e[i].t < lo + Bucket
      BY <3>4, <3>5 DEF Within
    <3> QED BY <3>1, <3>7, <3>8 DEF los
  <2> QED BY <2>2, <2>3
<1>2. DInv => EveryFrameInOneBucket
  BY <1>1 DEF EveryFrameInOneBucket
<1> QED BY <1>2, DInvCorrect, PTL

=============================================================================
