------------------------- MODULE AnalysisActorProofs -------------------------
(***************************************************************************)
(* Proofs about AnalysisActor: types, what a snapshot holds, how batches   *)
(* partition the processed frames, and what FrameChannel promises to this  *)
(* actor and to any other that takes from it. All for any batch size, fps, *)
(* number of CPUs, recorder size and number of frames.                     *)
(***************************************************************************)
EXTENDS AnalysisActor, SequenceLemmas

\* The constants as the provers need them.
LEMMA ActorConstants ==
    /\ MaxRecorded \in Nat \ {0}
    /\ BatchFrameCount \in Nat \ {0}
    /\ Fps \in Nat \ {0}
    /\ NumCpus \in Nat \ {0}
    /\ EventInterval \in Nat \ {0}
    /\ MaxFrames \in Nat
BY MaxRecordedAssumption, RecorderAssumption, BatchAssumption, FpsAssumption,
   CpusAssumption, EventAssumption, FramesAssumption

\* With either container the recorder of a longer run of frames holds the
\* last of them, and never more than recorder_max_frames.
LEMMA RecorderKeepsLast ==
    ASSUME NEW S, NEW h \in Seq(S), NEW e \in S
    PROVE  RecorderAppend(LastRecorded(h), e) = LastRecorded(Append(h, e))
<1> DEFINE last == LastN(h, MaxRecorded)
           new  == LastN(Append(h, e), MaxRecorded)
<1>1. \A s : LastRecorded(s) = LastN(s, MaxRecorded)
  BY DEF LastRecorded, LastN
<1>2. /\ last \in Seq(S) /\ Len(last) \in Nat /\ Len(last) <= MaxRecorded
      /\ new = IF Len(last) < MaxRecorded THEN Append(last, e)
                                          ELSE Append(Tail(last), e)
      /\ last # <<>> => Append(Tail(last), e)
                          = SubSeq(Append(last, e), 2, Len(last) + 1)
  <2>1. MaxRecorded \in Nat \ {0}
    BY ActorConstants
  <2> QED BY <2>1, LastNAppend, LenProperties
<1> HIDE DEF last, new
<1>3. Append(last, e) \in Seq(S) /\ Len(Append(last, e)) = Len(last) + 1
  BY <1>2, AppendProperties
<1>4. DequeAppend(last, e) = new
  BY <1>2, ActorConstants DEF DequeAppend
<1>5. NpAppend(last, e) = new
  <2>1. CASE Len(last) < MaxRecorded
    BY <1>2, <1>3, <2>1, ActorConstants DEF NpAppend
  <2>2. CASE Len(last) = MaxRecorded
    <3>1. last # <<>>
      BY <2>2, EmptySeq, ActorConstants
    <3>2. NpAppend(last, e) = SubSeq(Append(last, e), 2, Len(last) + 1)
      BY <1>2, <1>3, <2>2, ActorConstants DEF NpAppend, SliceLast
    <3> QED BY <1>2, <2>2, <3>1, <3>2
  <2> QED BY <1>2, <2>1, <2>2, ActorConstants
<1> QED BY <1>1, <1>4, <1>5 DEF last, new, RecorderAppend

\* Either container stays a sequence within recorder_max_frames.
LEMMA RecorderTyped ==
    ASSUME NEW S, NEW r \in Seq(S), NEW e \in S, Len(r) <= MaxRecorded
    PROVE  RecorderAppend(r, e) \in Seq(S) /\ Len(RecorderAppend(r, e)) <= MaxRecorded
<1>1. Len(r) \in Nat
  BY LenProperties
<1>2. r = LastN(r, MaxRecorded) /\ LastRecorded(r) = r
  BY <1>1, ActorConstants DEF LastN, LastRecorded
<1> DEFINE t == Append(r, e)
<1>3. t \in Seq(S)
  BY AppendProperties
<1>4. LastN(t, MaxRecorded) \in Seq(S) /\ Len(LastN(t, MaxRecorded)) <= MaxRecorded
  <2> HIDE DEF t
  <2>1. MaxRecorded \in Nat \ {0} /\ Len(t) \in Nat
    BY <1>3, ActorConstants, LenProperties
  <2> QED BY <1>3, <2>1, LastNAppend
<1>5. RecorderAppend(r, e) = LastN(Append(r, e), MaxRecorded)
  BY <1>2, RecorderKeepsLast DEF LastN, LastRecorded
<1> QED BY <1>4, <1>5

-----------------------------------------------------------------------------
LEMMA TypeInit == Init => TypeOK
BY EmptySeq, ActorConstants DEF Init, TypeOK, Stream!Init, Locations

\* The counters of TypeOK one by one.
LEMMA CountersTyped ==
    ({scheduled, waiting, answered, framesReported, eventsReported} \subseteq Nat)
      <=> /\ scheduled \in Nat /\ waiting \in Nat /\ answered \in Nat
          /\ framesReported \in Nat /\ eventsReported \in Nat
OBVIOUS

LEMMA TypeNext == TypeOK /\ [Next]_vars => TypeOK'
<1> SUFFICES ASSUME TypeOK, [Next]_vars PROVE TypeOK'
  OBVIOUS
<1> USE DEF vars, streamVars, taskVars, batchVars, frameVars
<1>0. /\ scheduled \in Nat /\ waiting \in Nat /\ answered \in Nat
      /\ framesReported \in Nat /\ eventsReported \in Nat
      /\ batchQueued \in Nat /\ batchRunning \in 0..NumCpus
      /\ frameCount \in Nat /\ sinceEvent \in 0..EventInterval
  BY CountersTyped DEF TypeOK
<1>1. CASE StreamStep
  <2>1. next' \in Nat /\ pending' \subseteq Nat /\ received' = received
    <3> next \in Nat /\ pending \subseteq Nat
      BY DEF TypeOK
    <3>1. CASE Stream!Produce
      <4>1. next' = next + 1 /\ pending' = pending \cup {next} /\ received' = received
        BY <3>1 DEF Stream!Produce
      <4> QED BY <4>1
    <3>2. CASE Stream!Lose
      BY <3>2 DEF Stream!Lose
    <3> QED BY <1>1, <3>1, <3>2 DEF StreamStep
  <2> QED BY <1>1, <2>1 DEF StreamStep, TypeOK
<1>2. CASE Tick
  BY <1>2, ActorConstants DEF Tick, TypeOK
<1>3. CASE PullNone \/ Wake \/ FetchFrame \/ Detect
  BY <1>3 DEF PullNone, Wake, FetchFrame, Detect, TypeOK, Locations
<1>4. CASE PullFrame
  <2>1. PICK f \in pending : received' = Append(received, f)
                             /\ pending' = pending \ {f} /\ next' = next
    BY <1>4 DEF PullFrame, Stream!Receive
  <2>2. f \in Nat /\ received' \in Seq(Nat) /\ received'[Len(received')] = f
    BY <2>1, AppendProperties DEF TypeOK
  <2>3. cur' = f
    BY <1>4, <2>2 DEF PullFrame, Last
  <2> QED BY <1>4, <2>1, <2>2, <2>3 DEF PullFrame, TypeOK, Locations
<1>5. ASSUME NEW stage \in {"detect", "track", "pose"}, InferFails(stage)
      PROVE  TypeOK'
  BY <1>5 DEF InferFails, TypeOK, Locations
<1>6. CASE Track
  <2>1. recorder' \in Seq(Nat) /\ Len(recorder') <= MaxRecorded
    <3>1. recorder \in Seq(Nat) /\ Len(recorder) <= MaxRecorded /\ cur \in Nat
      BY DEF TypeOK
    <3>2. /\ RecorderAppend(recorder, cur) \in Seq(Nat)
          /\ Len(RecorderAppend(recorder, cur)) <= MaxRecorded
      BY <3>1, RecorderTyped
    <3>3. recorder' \in {recorder, RecorderAppend(recorder, cur)}
      BY <1>6 DEF Track
    <3> QED BY <3>1, <3>2, <3>3
  <2> QED BY <1>6, <2>1 DEF Track, TypeOK, Locations
<1>7. CASE Pose
  <2> DEFINE filled == Append(batchBuffer, cur)
  <2>1. filled \in Seq(Nat) /\ Append(batches, filled) \in Seq(Seq(Nat))
    BY AppendProperties DEF TypeOK
  <2>2. /\ batches' = batches \/ batches' = Append(batches, filled)
        /\ batchBuffer' = <<>> \/ batchBuffer' = filled
        /\ batchQueued' = batchQueued \/ batchQueued' = batchQueued + 2
    BY <1>7 DEF Pose, FillBatch
  <2> HIDE DEF filled
  <2>3. batches' \in Seq(Seq(Nat)) /\ batchBuffer' \in Seq(Nat) /\ batchQueued' \in Nat
    <3>1. batches \in Seq(Seq(Nat)) /\ <<>> \in Seq(Nat)
      BY EmptySeq DEF TypeOK
    <3>2. batchQueued' \in Nat
      BY <1>0, <2>2
    <3> QED BY <2>1, <2>2, <3>1, <3>2
  <2> QED BY <1>7, <2>3 DEF Pose, TypeOK, Locations
<1>8. CASE FrameDone
  <2>1. framesReported' \in Nat
    BY <1>0, <1>8 DEF FrameDone, MaybeReport
  <2>2. scheduled' \in Nat /\ sinceEvent' \in 0..EventInterval
    BY <1>0, <1>8, ActorConstants DEF FrameDone, MaybeTriggerEvent
  <2>3. frameCount' \in Nat /\ UNCHANGED <<waiting, answered, eventsReported>>
    BY <1>0, <1>8 DEF FrameDone
  <2>4. {scheduled', waiting', answered', framesReported', eventsReported'} \subseteq Nat
    BY <1>0, <2>1, <2>2, <2>3
  <2> QED BY <1>8, <2>2, <2>3, <2>4 DEF FrameDone, TypeOK, Locations
<1>9. CASE StartBatchTask \/ EndBatchTask
  <2>1. batchQueued' \in Nat /\ batchRunning' \in 0..NumCpus
    BY <1>0, <1>9, ActorConstants DEF StartBatchTask, EndBatchTask, CpuFree
  <2> QED BY <1>9, <2>1 DEF StartBatchTask, EndBatchTask, TypeOK
<1>10. CASE CallGetRecorder
  <2>1. {scheduled', waiting', answered', framesReported', eventsReported'} \subseteq Nat
    BY <1>0, <1>10 DEF CallGetRecorder
  <2> QED BY <1>10, <2>1 DEF CallGetRecorder, TypeOK
<1>11. CASE GetRecorder
  <2>1. {scheduled', waiting', answered', framesReported', eventsReported'} \subseteq Nat
    BY <1>0, <1>11 DEF GetRecorder
  <2>2. snapshot' \in [count : Nat, frames : Seq(Nat), loopAlive : BOOLEAN]
    <3>1. snapshot' = [count |-> frameCount, frames |-> recorder, loopAlive |-> pc # "dead"]
      BY <1>11 DEF GetRecorder
    <3>2. recorder \in Seq(Nat) /\ (pc # "dead") \in BOOLEAN
      BY DEF TypeOK
    <3> QED BY <1>0, <3>1, <3>2
  <2> QED BY <1>11, <2>1, <2>2 DEF GetRecorder, TypeOK
<1>12. CASE RecordEvent
  <2>1. {scheduled', waiting', answered', framesReported', eventsReported'} \subseteq Nat
    BY <1>0, <1>12 DEF RecordEvent
  <2> QED BY <1>12, <2>1 DEF RecordEvent, TypeOK
<1>13. CASE UNCHANGED vars
  BY <1>13 DEF TypeOK
<1> QED
  BY <1>1, <1>2, <1>3, <1>4, <1>5, <1>6, <1>7, <1>8, <1>9, <1>10, <1>11,
     <1>12, <1>13 DEF Next, LoopStep

\* Actor, stream and tasks are well typed in every reachable state, and the
\* recorder holds at most recorder_max_frames entries.
THEOREM ATypeCorrect == Spec => []TypeOK
BY TypeInit, TypeNext, PTL DEF Spec

-----------------------------------------------------------------------------
\* The loop holds a frame from PullFrame to FrameDone: the last one received,
\* and the only received one that is not counted. None is in hand otherwise.
Counted ==
    /\ pc \in {"pull", "sleep"} => Len(received) = frameCount
    /\ pc \in {"fetch", "detect", "track", "pose", "done"} =>
         Len(received) = frameCount + 1 /\ cur = received[frameCount + 1]
    /\ frameCount <= Len(received)

\* The recorder lags behind by the frame in hand until that is tracked.
Recorded ==
    variant.stress =>
        /\ pc \in {"pull", "sleep", "fetch", "detect", "track"} =>
             recorder = LastRecorded(Processed)
        /\ pc \in {"pose", "done"} =>
             recorder = LastRecorded(Append(Processed, cur))

FrameInv ==
    /\ Counted
    /\ Recorded
    /\ snapshot.count <= Len(received)
    /\ SnapshotBetweenFrames
    /\ BatchesPartition

\* With a frame in hand, the processed frames and that one are all received.
LEMMA InHand ==
    ASSUME TypeOK, Counted, pc \in {"fetch", "detect", "track", "pose", "done"}
    PROVE  /\ Processed \in Seq(Nat)
           /\ Append(Processed, cur) = received
           /\ SubSeq(received, 1, frameCount + 1) = received
<1>1. /\ received \in Seq(Nat) /\ frameCount \in Nat
      /\ Len(received) = frameCount + 1 /\ cur = received[frameCount + 1]
  BY DEF TypeOK, Counted
<1>2. SubSeq(received, 1, frameCount + 1) = received
  BY <1>1, SubSeqFull
<1>3. SubSeq(received, 1, frameCount + 1) = Processed \o <<cur>>
  <2>1. 1 \in 1..Len(received) /\ frameCount + 1 \in 1..Len(received)
        /\ (frameCount + 1) - 1 = frameCount
    BY <1>1
  <2> QED BY <1>1, <2>1, SubSeqRecursiveSecond DEF Processed
<1>4. Processed \in Seq(Nat)
  <2>1. \A i \in 1..frameCount : received[i] \in Nat
    BY <1>1, ElementOfSeq
  <2> QED BY <1>1, <2>1, SubSeqProperties DEF Processed
<1>5. Append(Processed, cur) = Processed \o <<cur>>
  BY <1>4, AppendIsConcat DEF TypeOK
<1> QED BY <1>2, <1>3, <1>4, <1>5

\* What Pose makes of batches and buffer: one frame more, in its place.
LEMMA FillBatchPartition ==
    ASSUME TypeOK, BatchesPartition, variant.stress, pc = "pose", FillBatch
    PROVE  /\ \A k \in DOMAIN batches' : Len(batches'[k]) = BatchFrameCount
           /\ Len(batchBuffer') < BatchFrameCount
           /\ FlattenSeq(batches') \o batchBuffer' = Append(Processed, cur)
<1> DEFINE filled == Append(batchBuffer, cur)
           flat == FlattenSeq(batches)
<1>1. /\ batches \in Seq(Seq(Nat)) /\ batchBuffer \in Seq(Nat) /\ cur \in Nat
      /\ BatchFrameCount \in Nat \ {0} /\ Len(batchBuffer) \in Nat
      /\ \A k \in DOMAIN batches : Len(batches[k]) = BatchFrameCount
      /\ Len(batchBuffer) < BatchFrameCount
      /\ flat \o batchBuffer = Processed
  BY ActorConstants, LenProperties DEF TypeOK, BatchesPartition
<1>2. filled \in Seq(Nat) /\ Len(filled) = Len(batchBuffer) + 1
  BY <1>1, AppendProperties
<1>3. flat \in Seq(Nat) /\ FlattenSeq(Append(batches, filled)) = flat \o filled
  BY <1>1, <1>2, FlattenAppend
<1>4. flat \o filled = Append(Processed, cur)
  <2> HIDE DEF flat
  <2>1. flat \o filled = Append(flat \o batchBuffer, cur)
    <3>1. flat \in Seq(Nat) /\ batchBuffer \in Seq(Nat) /\ cur \in Nat
      BY <1>1, <1>3
    <3> QED BY <3>1, ConcatAppend
  <2> QED BY Zenon, <1>1, <2>1
<1> HIDE DEF flat, filled
<1>5. CASE Len(filled) >= BatchFrameCount
  <2>1. /\ batches' = Append(batches, filled) /\ batchBuffer' = <<>>
        /\ Len(filled) = BatchFrameCount
    BY <1>1, <1>2, <1>5 DEF FillBatch, filled
  <2>2. \A k \in DOMAIN batches' : Len(batches'[k]) = BatchFrameCount
    BY <1>1, <1>2, <2>1, AppendProperties, LenProperties
  <2>3. flat \o filled \in Seq(Nat)
    BY <1>2, <1>3, ConcatProperties
  <2>4. (flat \o filled) \o <<>> = flat \o filled
    BY <2>3, ConcatEmptySeq
  <2> QED BY <1>1, <1>3, <1>4, <2>1, <2>2, <2>4, EmptySeq
<1>6. CASE ~ (Len(filled) >= BatchFrameCount)
  <2>1. batches' = batches /\ batchBuffer' = filled
    BY <1>6 DEF FillBatch, filled
  <2>2. Len(filled) < BatchFrameCount
    BY <1>1, <1>2, <1>6
  <2>3. FlattenSeq(batches') \o batchBuffer' = Append(Processed, cur)
    BY <1>4, <2>1 DEF flat
  <2> QED BY <1>1, <2>1, <2>2, <2>3
<1> QED BY <1>5, <1>6

LEMMA FrameInvInit == Init => FrameInv
<1> SUFFICES ASSUME Init PROVE FrameInv
  OBVIOUS
<1>1. SubSeq(<<>>, 1, 0) = <<>> /\ <<>> \in Seq(Nat) /\ Len(<<>>) = 0
  BY SubSeqEmpty, EmptySeq
<1>2. received = <<>> /\ frameCount = 0 /\ Processed = <<>>
  BY <1>1 DEF Init, Stream!Init, Processed
<1>3. Counted
  BY <1>1, <1>2 DEF Init, Counted
<1>4. LastRecorded(<<>>) = <<>>
  BY <1>1, ActorConstants DEF LastRecorded
<1>5. Recorded /\ SnapshotBetweenFrames /\ snapshot.count <= Len(received)
  <2>1. pc = "pull" /\ recorder = <<>> /\ snapshot.count = 0 /\ snapshot.frames = <<>>
    BY DEF Init
  <2>2. Recorded
    BY <1>2, <1>4, <2>1 DEF Recorded
  <2>3. SubSeq(received, 1, snapshot.count) = <<>>
    BY <1>1, <1>2, <2>1
  <2>4. SnapshotBetweenFrames
    BY <1>4, <2>1, <2>3 DEF SnapshotBetweenFrames
  <2>5. Len(received) = 0
    BY <1>1, <1>2
  <2> QED BY <2>1, <2>2, <2>4, <2>5
<1>6. FlattenSeq(<<>>) \o <<>> = <<>>
  BY <1>1, ConcatEmptySeq DEF FlattenSeq
<1>7. BatchesPartition
  BY <1>1, <1>2, <1>6, ActorConstants DEF Init, BatchesPartition
<1> QED BY <1>3, <1>5, <1>7 DEF FrameInv

LEMMA FrameInvNext == TypeOK /\ FrameInv /\ [Next]_vars => FrameInv'
<1> SUFFICES ASSUME TypeOK, FrameInv, [Next]_vars PROVE FrameInv'
  OBVIOUS
<1> USE DEF vars, streamVars, taskVars, batchVars, frameVars
<1>0. /\ received \in Seq(Nat) /\ Len(received) \in Nat
      /\ frameCount \in Nat /\ cur \in Nat /\ pc \in Locations
      /\ snapshot.count \in Nat /\ snapshot.count <= Len(received)
      /\ frameCount <= Len(received)
  BY LenProperties DEF TypeOK, FrameInv, Counted
\* Steps that leave loop, recorder and batches alone.
<1>1. ASSUME UNCHANGED <<received, frameVars, snapshot, variant, pc>>
      PROVE  FrameInv'
  BY <1>1 DEF FrameInv, Counted, Recorded, SnapshotBetweenFrames,
              BatchesPartition, Processed
<1>2. CASE StreamStep
  <2>1. received' = received
    BY <1>2 DEF StreamStep, Stream!Produce, Stream!Lose
  <2> QED BY <1>1, <1>2, <2>1 DEF StreamStep
<1>3. CASE \/ Tick \/ StartBatchTask \/ EndBatchTask \/ CallGetRecorder
           \/ RecordEvent \/ UNCHANGED vars
  BY <1>1, <1>3 DEF Tick, StartBatchTask, EndBatchTask, CallGetRecorder, RecordEvent
\* Steps of the loop alone.
<1>4. ASSUME UNCHANGED <<received, frameVars, snapshot, variant>>,
             \/ pc \in {"pull", "sleep"} /\ pc' \in {"pull", "sleep"}
             \/ /\ pc \in {"fetch", "detect"}
                /\ pc' \in {"detect", "track"}
             \/ pc # "done" /\ pc' = "dead"
      PROVE  FrameInv'
  <2>1. Counted' /\ Recorded'
    BY <1>4 DEF FrameInv, Counted, Recorded, Processed
  <2>2. SnapshotBetweenFrames' /\ (snapshot.count <= Len(received))'
    BY <1>4 DEF FrameInv, SnapshotBetweenFrames
  <2>3. BatchesPartition'
    BY <1>4 DEF FrameInv, BatchesPartition, Processed
  <2> QED BY <2>1, <2>2, <2>3 DEF FrameInv
<1>5. CASE PullNone \/ Wake \/ FetchFrame \/ Detect
  BY <1>4, <1>5 DEF PullNone, Wake, FetchFrame, Detect
<1>6. ASSUME NEW stage \in {"detect", "track", "pose"}, InferFails(stage)
      PROVE  FrameInv'
  BY <1>4, <1>6 DEF InferFails
<1>7. CASE PullFrame
  <2>1. PICK f \in pending : received' = Append(received, f)
    BY <1>7 DEF PullFrame, Stream!Receive
  <2>2. /\ f \in Nat /\ received' \in Seq(Nat)
        /\ Len(received') = Len(received) + 1 /\ received'[Len(received')] = f
        /\ cur' = received'[Len(received')]
    BY <1>0, <1>7, <2>1, AppendProperties DEF TypeOK, PullFrame, Last
  <2>3. /\ pc = "pull" /\ pc' = "fetch"
        /\ UNCHANGED <<frameCount, recorder, batchBuffer, batches, snapshot, variant>>
        /\ Len(received) = frameCount
    BY <1>7 DEF PullFrame, FrameInv, Counted
  <2>4. \A n \in 0..Len(received) : SubSeq(received', 1, n) = SubSeq(received, 1, n)
    BY <1>0, <2>1, <2>2, AppendPrefix
  <2>5. Processed' = Processed
    BY <1>0, <2>3, <2>4 DEF Processed
  <2>6. Counted'
    BY <1>0, <2>2, <2>3 DEF Counted
  <2>7. Recorded'
    BY <2>3, <2>5 DEF FrameInv, Recorded
  <2>8. SubSeq(received', 1, snapshot.count) = SubSeq(received, 1, snapshot.count)
    BY <1>0, <2>4
  <2>9. SnapshotBetweenFrames' /\ (snapshot.count <= Len(received))'
    <3>1. SnapshotBetweenFrames'
      BY <2>3, <2>8 DEF FrameInv, SnapshotBetweenFrames
    <3>2. snapshot'.count <= Len(received')
      BY <1>0, <2>2, <2>3
    <3> QED BY <3>1, <3>2
  <2>10. BatchesPartition'
    BY <2>3, <2>5 DEF FrameInv, BatchesPartition
  <2> QED BY <2>6, <2>7, <2>9, <2>10 DEF FrameInv
<1>8. CASE Track
  <2>1. /\ pc = "track" /\ pc' = IF variant.stress THEN "pose" ELSE "done"
        /\ variant.stress => recorder' = RecorderAppend(recorder, cur)
        /\ UNCHANGED <<received, cur, frameCount, batchBuffer, batches, snapshot, variant>>
    BY <1>8 DEF Track
  <2>2. Processed' = Processed /\ Processed \in Seq(Nat)
    BY <2>1, InHand DEF FrameInv, Processed
  <2>3. Counted'
    BY <2>1 DEF FrameInv, Counted
  <2>4. Recorded'
    BY <1>0, <2>1, <2>2, RecorderKeepsLast DEF FrameInv, Recorded
  <2>5. SnapshotBetweenFrames' /\ (snapshot.count <= Len(received))'
    BY <2>1 DEF FrameInv, SnapshotBetweenFrames
  <2>6. BatchesPartition'
    BY <2>1, <2>2 DEF FrameInv, BatchesPartition
  <2> QED BY <2>3, <2>4, <2>5, <2>6 DEF FrameInv
<1>9. CASE Pose
  <2>1. /\ pc = "pose" /\ pc' = "done" /\ FillBatch
        /\ UNCHANGED <<received, cur, frameCount, recorder, snapshot, variant>>
    BY <1>9 DEF Pose
  <2>2. Processed' = Processed
    BY <2>1 DEF Processed
  <2>3. Counted' /\ Recorded'
    BY <2>1, <2>2 DEF FrameInv, Counted, Recorded
  <2>4. SnapshotBetweenFrames' /\ (snapshot.count <= Len(received))'
    BY <2>1 DEF FrameInv, SnapshotBetweenFrames
  <2>5. BatchesPartition'
    BY <2>1, <2>2, FillBatchPartition DEF FrameInv, BatchesPartition
  <2> QED BY <2>3, <2>4, <2>5 DEF FrameInv
<1>10. CASE FrameDone
  <2>1. /\ pc = "done" /\ pc' = "pull" /\ frameCount' = frameCount + 1
        /\ UNCHANGED <<received, cur, recorder, batchBuffer, batches, snapshot, variant>>
    BY <1>10 DEF FrameDone
  <2>2. Processed' = Append(Processed, cur)
    BY <2>1, InHand DEF FrameInv, Processed
  <2>3. Counted'
    BY <1>0, <2>1 DEF FrameInv, Counted
  <2>4. Recorded'
    BY <2>1, <2>2 DEF FrameInv, Recorded
  <2>5. SnapshotBetweenFrames' /\ (snapshot.count <= Len(received))'
    BY <2>1 DEF FrameInv, SnapshotBetweenFrames
  <2>6. BatchesPartition'
    BY <2>1, <2>2 DEF FrameInv, BatchesPartition
  <2> QED BY <2>3, <2>4, <2>5, <2>6 DEF FrameInv
<1>11. CASE GetRecorder
  <2>1. /\ UNCHANGED <<received, frameVars, variant, pc>>
        /\ snapshot' = [count |-> frameCount, frames |-> recorder,
                        loopAlive |-> pc # "dead"]
        /\ pc = "dead" \/ pc \in {"pull", "sleep", "fetch"}
    BY <1>11 DEF GetRecorder, CanDispatch, AwaitPoints
  <2>2. Counted' /\ Recorded' /\ BatchesPartition'
    BY <2>1 DEF FrameInv, Counted, Recorded, BatchesPartition, Processed
  <2>3. snapshot'.count = frameCount /\ snapshot'.frames = recorder
        /\ snapshot'.loopAlive = (pc # "dead")
    BY <2>1
  <2>4. SnapshotBetweenFrames'
    BY <2>1, <2>3 DEF FrameInv, Recorded, SnapshotBetweenFrames, Processed
  <2>5. (snapshot.count <= Len(received))'
    BY <1>0, <2>1, <2>3
  <2> QED BY <2>2, <2>4, <2>5 DEF FrameInv
<1> QED
  BY <1>2, <1>3, <1>5, <1>6, <1>7, <1>8, <1>9, <1>10, <1>11 DEF Next, LoopStep

\* What the frames in flight, the recorder, the batches and the last snapshot
\* have to do with each other, in every reachable state.
THEOREM FrameInvCorrect == Spec => []FrameInv
BY ATypeCorrect, FrameInvInit, FrameInvNext, PTL DEF Spec

\* A snapshot served while the loop runs holds exactly the last
\* recorder_max_frames frames that were processed and counted by then, never
\* the frame in the stages, whatever awaits the event loop interleaves.
THEOREM SnapshotCorrect == Spec => []SnapshotBetweenFrames
<1>1. FrameInv => SnapshotBetweenFrames
  BY DEF FrameInv
<1> QED BY <1>1, FrameInvCorrect, PTL

\* No frame is lost between two batches or in two of them, for every number
\* of frames per batch; an actor that died has them all too.
THEOREM BatchesCorrect == Spec => []BatchesPartition
<1>1. FrameInv => BatchesPartition
  BY DEF FrameInv
<1> QED BY <1>1, FrameInvCorrect, PTL

-----------------------------------------------------------------------------
\* The stream inside of the composition is the FrameChannel that module
\* StreamActor implements: no step of actor or tasks touches it otherwise.
LEMMA PullsFromChannel == Spec => Stream!Spec
<1>1. Init => Stream!Init
  BY DEF Init
<1>2. [Next]_vars => [Stream!Next]_(Stream!vars)
  <2> SUFFICES ASSUME [Next]_vars PROVE [Stream!Next]_(Stream!vars)
    OBVIOUS
  <2>1. CASE StreamStep
    BY <2>1 DEF StreamStep, Stream!Next
  <2>2. CASE PullFrame
    BY <2>2 DEF PullFrame, Stream!Next
  <2>3. CASE \/ Tick \/ PullNone \/ Wake \/ FetchFrame \/ Detect \/ Track \/ Pose
             \/ FrameDone \/ StartBatchTask \/ EndBatchTask \/ CallGetRecorder
             \/ GetRecorder \/ RecordEvent \/ UNCHANGED vars
             \/ \E stage \in {"detect", "track", "pose"} : InferFails(stage)
    BY <2>3 DEF Tick, PullNone, Wake, FetchFrame, Detect, Track, Pose, FrameDone,
                StartBatchTask, EndBatchTask, CallGetRecorder, GetRecorder,
                RecordEvent, InferFails, vars, streamVars, Stream!vars
  <2> QED BY <2>1, <2>2, <2>3 DEF Next, LoopStep
<1> QED BY <1>1, <1>2, PTL DEF Spec, Stream!Spec

-----------------------------------------------------------------------------
\* What the channel promises whoever takes from it: frames come in the order
\* of their ids, none twice.
InOrder == \A i, j \in DOMAIN received : i < j => received[i] < received[j]

\* What has been received is older than what is pending and than what comes.
ChannelInv ==
    /\ next \in Nat /\ pending \in SUBSET Nat /\ received \in Seq(Nat)
    /\ \A f \in pending : f < next
    /\ \A i \in DOMAIN received :
         received[i] < next /\ \A f \in pending : received[i] < f
    /\ InOrder

LEMMA ChannelInvInit == Stream!Init => ChannelInv
<1> SUFFICES ASSUME Stream!Init PROVE ChannelInv
  OBVIOUS
<1>1. next = 0 /\ pending = {} /\ received = <<>>
  BY DEF Stream!Init
<1>2. received \in Seq(Nat) /\ DOMAIN received = {}
  BY <1>1, EmptySeq
<1> QED BY <1>1, <1>2 DEF ChannelInv, InOrder

LEMMA ChannelInvNext == ChannelInv /\ [Stream!Next]_(Stream!vars) => ChannelInv'
<1> SUFFICES ASSUME ChannelInv, [Stream!Next]_(Stream!vars) PROVE ChannelInv'
  OBVIOUS
<1>1. CASE Stream!Produce
  <2>1. next' = next + 1 /\ pending' = pending \cup {next} /\ received' = received
    BY <1>1 DEF Stream!Produce
  <2>2. \A i \in DOMAIN received : received[i] \in Nat
    BY LenProperties DEF ChannelInv
  <2> QED BY <2>1, <2>2 DEF ChannelInv, InOrder
<1>2. CASE Stream!Lose
  <2>1. pending' \in SUBSET pending /\ next' = next /\ received' = received
    BY <1>2 DEF Stream!Lose
  <2> QED BY <2>1 DEF ChannelInv, InOrder
<1>3. CASE Stream!Receive
  <2>1. PICK f \in pending : /\ \A g \in pending : f <= g
                             /\ received' = Append(received, f)
                             /\ pending' = pending \ {f} /\ next' = next
    BY <1>3 DEF Stream!Receive, Stream!Oldest
  <2>2. /\ f \in Nat /\ received' \in Seq(Nat)
        /\ Len(received) \in Nat /\ DOMAIN received = 1..Len(received)
        /\ DOMAIN received' = 1..(Len(received) + 1)
        /\ \A i \in 1..Len(received) : received'[i] = received[i]
        /\ received'[Len(received) + 1] = f
    BY <2>1, AppendProperties, LenProperties DEF ChannelInv
  <2>3. ASSUME NEW g \in pending' PROVE g < next' /\ f < g
    BY <2>1 DEF ChannelInv
  <2>4. ASSUME NEW i \in DOMAIN received'
        PROVE  received'[i] < next' /\ \A g \in pending' : received'[i] < g
    <3>1. CASE i = Len(received) + 1
      BY <2>1, <2>2, <2>3, <3>1 DEF ChannelInv
    <3>2. CASE i \in DOMAIN received
      BY <2>1, <2>2, <3>2 DEF ChannelInv
    <3> QED BY <2>2, <3>1, <3>2
  <2>5. ASSUME NEW i \in DOMAIN received', NEW j \in DOMAIN received', i < j
        PROVE  received'[i] < received'[j]
    <3>1. i \in DOMAIN received
      BY <2>2, <2>5
    <3>2. CASE j = Len(received) + 1
      BY <2>2, <3>1, <3>2 DEF ChannelInv
    <3>3. CASE j \in DOMAIN received
      BY <2>2, <2>5, <3>1, <3>3 DEF ChannelInv, InOrder
    <3> QED BY <2>2, <3>2, <3>3
  <2>6. next' \in Nat /\ pending' \in SUBSET Nat
    BY <2>1 DEF ChannelInv
  <2> QED BY <2>2, <2>3, <2>4, <2>5, <2>6 DEF ChannelInv, InOrder
<1>4. CASE UNCHANGED Stream!vars
  BY <1>4 DEF Stream!vars, ChannelInv, InOrder
<1> QED BY <1>1, <1>2, <1>3, <1>4 DEF Stream!Next

\* Any stream that is a FrameChannel delivers in order.
THEOREM ChannelInOrder == Stream!Spec => []InOrder
<1>1. ChannelInv => InOrder
  BY DEF ChannelInv
<1> QED BY <1>1, ChannelInvInit, ChannelInvNext, PTL DEF Stream!Spec

\* Hence the analysis, and with BatchesPartition every batch, has a camera's
\* frames in the order they were made and no frame twice.
THEOREM AnalysedInOrder == Spec => []InOrder
BY PullsFromChannel, ChannelInOrder, PTL
=============================================================================
