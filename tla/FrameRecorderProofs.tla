------------------------- MODULE FrameRecorderProofs -------------------------
(***************************************************************************)
(* Proofs about FrameRecorder. The type invariant holds for every          *)
(* max_frames; that the array holds the last max_frames entries, and that  *)
(* the two containers agree, for every max_frames that leaves room for an  *)
(* entry: with max_frames 0 the array's cut [-0:] cuts nothing.            *)
(***************************************************************************)
EXTENDS FrameRecorder, SequenceLemmas

\* The constants as the provers need them.
LEMMA RecorderConstants == MaxRecorded \in Nat /\ MaxAppends \in Nat
BY MaxRecordedAssumption, MaxAppendsAssumption

\* Either container stays a sequence of entries; the deque within its maxlen.
LEMMA ContainersTyped ==
    ASSUME NEW a \in Seq(Entry), NEW e \in Entry
    PROVE  /\ NpAppend(a, e) \in Seq(Entry)
           /\ DequeAppend(a, e) \in Seq(Entry)
           /\ Len(a) <= MaxRecorded => Len(DequeAppend(a, e)) <= MaxRecorded
<1> DEFINE grown == Append(a, e)
           n == MaxRecorded
<1>1. /\ grown \in Seq(Entry) /\ Len(grown) = Len(a) + 1
      /\ Len(a) \in Nat /\ n \in Nat
  BY AppendProperties, LenProperties, RecorderConstants
<1>2. NpAppend(a, e) \in Seq(Entry)
  <2> HIDE DEF grown
  <2>1. n # 0 /\ n < Len(grown) => SubSeq(grown, Len(grown) - n + 1, Len(grown)) \in Seq(Entry)
    <3> SUFFICES ASSUME n # 0, n < Len(grown)
                 PROVE  SubSeq(grown, Len(grown) - n + 1, Len(grown)) \in Seq(Entry)
      OBVIOUS
    <3> DEFINE m == Len(grown) - n + 1
    <3>1. m \in Int /\ Len(grown) \in Int /\ \A i \in m..Len(grown) : grown[i] \in Entry
      BY <1>1, ElementOfSeq
    <3> QED BY <3>1, SubSeqProperties
  <2> QED BY <1>1, <2>1 DEF NpAppend, SliceLast, grown
<1>3. CASE a = <<>>
  BY <1>1, <1>2, <1>3, EmptySeq DEF DequeAppend
<1>4. CASE a # <<>>
  <2>1. /\ Tail(a) \in Seq(Entry) /\ Len(Tail(a)) = Len(a) - 1
        /\ Append(Tail(a), e) \in Seq(Entry)
        /\ Len(Append(Tail(a), e)) = Len(a)
    BY <1>1, <1>4, HeadTailProperties, AppendProperties
  <2> QED BY <1>1, <1>2, <2>1, EmptySeq DEF DequeAppend
<1> QED BY <1>3, <1>4

\* With room for an entry both containers, when they hold the last entries of
\* a history, hold the last entries of the longer history after an append.
LEMMA ContainersKeepLast ==
    ASSUME MaxRecorded > 0, NEW h \in Seq(Entry), NEW e \in Entry
    PROVE  /\ NpAppend(LastRecorded(h), e) = LastRecorded(Append(h, e))
           /\ DequeAppend(LastRecorded(h), e) = LastRecorded(Append(h, e))
<1> DEFINE last == LastN(h, MaxRecorded)
           new  == LastN(Append(h, e), MaxRecorded)
<1>1. MaxRecorded \in Nat \ {0}
  BY RecorderConstants
<1>2. \A s : LastRecorded(s) = LastN(s, MaxRecorded)
  BY DEF LastRecorded, LastN
<1>3. /\ last \in Seq(Entry) /\ Len(last) \in Nat /\ Len(last) <= MaxRecorded
      /\ new = IF Len(last) < MaxRecorded THEN Append(last, e)
                                          ELSE Append(Tail(last), e)
      /\ last # <<>> => Append(Tail(last), e)
                          = SubSeq(Append(last, e), 2, Len(last) + 1)
  BY <1>1, LastNAppend, LenProperties
<1> HIDE DEF last, new
<1>4. Append(last, e) \in Seq(Entry) /\ Len(Append(last, e)) = Len(last) + 1
  BY <1>3, AppendProperties
<1>5. DequeAppend(last, e) = new
  BY <1>1, <1>3 DEF DequeAppend
<1>6. NpAppend(last, e) = new
  <2>1. CASE Len(last) < MaxRecorded
    BY <1>1, <1>3, <1>4, <2>1 DEF NpAppend
  <2>2. CASE Len(last) = MaxRecorded
    <3>1. last # <<>>
      BY <1>1, <2>2, EmptySeq
    <3>2. NpAppend(last, e) = SubSeq(Append(last, e), 2, Len(last) + 1)
      BY <1>1, <1>3, <1>4, <2>2 DEF NpAppend, SliceLast
    <3> QED BY <1>3, <2>2, <3>1, <3>2
  <2> QED BY <1>1, <1>3, <2>1, <2>2
<1> QED BY <1>2, <1>5, <1>6 DEF last, new

-----------------------------------------------------------------------------
\* Both containers hold entries and the deque never outgrows its maxlen,
\* also with max_frames 0.
THEOREM RTypeCorrect == Spec => []TypeOK
<1>1. Init => TypeOK
  BY EmptySeq, RecorderConstants DEF Init, TypeOK, Entry
<1>2. TypeOK /\ [Next]_vars => TypeOK'
  <2> SUFFICES ASSUME TypeOK, [Next]_vars PROVE TypeOK'
    OBVIOUS
  <2>1. CASE Record
    <3> DEFINE e == appended + 1
    <3>1. e \in Entry
      BY DEF TypeOK, Entry
    <3>2. /\ frames' = NpAppend(frames, e) /\ ring' = DequeAppend(ring, e)
          /\ history' = Append(history, e) /\ appended' = e
          /\ snapshot' = snapshot
      BY <2>1 DEF Record
    <3> HIDE DEF e
    <3> QED BY <3>1, <3>2, ContainersTyped, AppendProperties DEF TypeOK, Entry
  <2>2. CASE GetAll
    BY <2>2 DEF GetAll, TypeOK
  <2>3. CASE Clear
    BY <2>3, EmptySeq, RecorderConstants DEF Clear, TypeOK
  <2>4. CASE UNCHANGED vars
    BY <2>4 DEF vars, TypeOK
  <2> QED BY <2>1, <2>2, <2>3, <2>4 DEF Next
<1> QED BY <1>1, <1>2, PTL DEF Spec

\* Both containers hold the last entries, and so did the snapshot's.
BothKeepLast ==
    /\ frames = LastRecorded(history)
    /\ ring = LastRecorded(history)
    /\ snapshot.np = snapshot.deque

LEMMA BothKeepLastCorrect ==
    ASSUME MaxRecorded > 0
    PROVE  Spec => []BothKeepLast
<1>1. Init => BothKeepLast
  BY EmptySeq, RecorderConstants DEF Init, BothKeepLast, LastRecorded
<1>2. TypeOK /\ BothKeepLast /\ [Next]_vars => BothKeepLast'
  <2> SUFFICES ASSUME TypeOK, BothKeepLast, [Next]_vars PROVE BothKeepLast'
    OBVIOUS
  <2>1. CASE Record
    <3> DEFINE e == appended + 1
    <3>1. e \in Entry /\ history \in Seq(Entry)
      BY DEF TypeOK, Entry
    <3>2. /\ frames' = NpAppend(frames, e) /\ ring' = DequeAppend(ring, e)
          /\ history' = Append(history, e) /\ snapshot' = snapshot
      BY <2>1 DEF Record
    <3> HIDE DEF e
    <3> QED BY <3>1, <3>2, ContainersKeepLast DEF BothKeepLast
  <2>2. CASE GetAll
    BY <2>2 DEF GetAll, BothKeepLast
  <2>3. CASE Clear
    BY <2>3, EmptySeq, RecorderConstants DEF Clear, BothKeepLast, LastRecorded
  <2>4. CASE UNCHANGED vars
    BY <2>4 DEF vars, BothKeepLast
  <2> QED BY <2>1, <2>2, <2>3, <2>4 DEF Next
<1> QED BY <1>1, <1>2, RTypeCorrect, PTL DEF Spec

\* The np.append container holds exactly the last max_frames entries appended
\* since the last clear, oldest first.
THEOREM KeepsLastCorrect ==
    ASSUME MaxRecorded > 0
    PROVE  Spec => []KeepsLast
<1>1. BothKeepLast => KeepsLast
  BY DEF BothKeepLast, KeepsLast
<1> QED BY <1>1, BothKeepLastCorrect, PTL

\* use_deque_recorder changes what the recorder costs, never what it holds or
\* hands to a utility task.
THEOREM ContainersAgreeCorrect ==
    ASSUME MaxRecorded > 0
    PROVE  Spec => []ContainersAgree
<1>1. BothKeepLast => ContainersAgree
  BY DEF BothKeepLast, ContainersAgree
<1> QED BY <1>1, BothKeepLastCorrect, PTL
=============================================================================
