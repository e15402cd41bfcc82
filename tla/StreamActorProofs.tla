-------------------------- MODULE StreamActorProofs --------------------------
(***************************************************************************)
(* Theorems about the StreamActor, for every queue size, every number of   *)
(* restarts and every number of frames.                                    *)
(*                                                                         *)
(* They rest on one inductive invariant, IInv: the type invariant, the     *)
(* fact that at most one thread is alive until threads overlap, what a     *)
(* positive fullness test leaves true until the append (RoomReserved), and *)
(* the order of all frame_ids on their way to the consumer (Order).        *)
(*                                                                         *)
(* Three invariants are proved beside it, each for one property: Dense     *)
(* (the deque ends just below the next id; NewestKept), Accounted (nothing *)
(* that was put is in two places; EveryPutAccounted) and Supply (the two   *)
(* streams of ConditionalPut side by side; SameSupply).                    *)
(***************************************************************************)
EXTENDS ConditionalPut, TLAPS, SequenceTheorems, FiniteSetTheorems

OneThread ==
    ~overlapped =>
        \A t, u \in Threads : pc[t] # "off" /\ pc[u] # "off" => t = u

RoomReserved ==
    useConditionalPut /\ ~overlapped =>
        /\ evicted = {}
        /\ \A t \in Threads : pc[t] \in {"put", "append"} => Len(buffer) < QueueMax

\* Ids of the frames in s are all below n.
Below(s, n) == \A i \in DOMAIN s : s[i].id < n

\* d, then b, is increasing and below n: what was delivered and what waits.
Queued(d, b, n) ==
    /\ Increasing(d) /\ Below(d, n)
    /\ Increasing(b) /\ Below(b, n)
    /\ \A i \in DOMAIN b : Below(d, b[i].id)

Order ==
    ~overlapped =>
        /\ Queued(delivered, buffer, frameId)
        /\ \A t \in Threads :
             /\ pc[t] = "bump" => held[t].id = frameId
             /\ pc[t] \in {"full", "put", "append"} =>
                  held[t].id < frameId /\ Queued(delivered, buffer, held[t].id)

-----------------------------------------------------------------------------
\* The assumptions on the constants, gathered for citing.
LEMMA Constants ==
    /\ QueueMax \in Nat /\ QueueMax > 0
    /\ MaxStarts \in Nat /\ MaxStarts > 0
    /\ MaxFrames \in Nat
BY QueueMaxAssumption, StartsAssumption, FramesAssumption

\* ray.put gives a frame its reference and leaves its id alone.
LEMMA PutFrame ==
    ASSUME NEW f \in Frame, NEW n \in Nat
    PROVE  /\ [f EXCEPT !.ref = n + 1] \in Frame
           /\ [f EXCEPT !.ref = n + 1].id = f.id
BY DEF Frame

\* A sequence of frames all below n stays so when a frame below n joins it.
LEMMA BelowAppend ==
    ASSUME NEW s \in Seq(Frame), NEW f \in Frame, NEW n \in Nat,
           Below(s, n), f.id < n
    PROVE  Below(Append(s, f), n)
BY AppendProperties, LenProperties DEF Below

\* It stays so when the oldest frame leaves it.
LEMMA BelowTail ==
    ASSUME NEW s \in Seq(Frame), s # <<>>, NEW n \in Nat, Below(s, n)
    PROVE  Below(Tail(s), n)
<1>1. \A i \in DOMAIN Tail(s) : i + 1 \in DOMAIN s /\ Tail(s)[i] = s[i + 1]
  BY HeadTailProperties, LenProperties
<1> QED
  BY <1>1 DEF Below

\* A frame newer than all others may join an increasing sequence.
LEMMA IncreasingAppend ==
    ASSUME NEW s \in Seq(Frame), NEW f \in Frame,
           Increasing(s), Below(s, f.id)
    PROVE  Increasing(Append(s, f))
<1> DEFINE t == Append(s, f)
<1>1. /\ Len(s) \in Nat
      /\ DOMAIN s = 1..Len(s)
      /\ DOMAIN t = 1..(Len(s) + 1)
      /\ \A i \in 1..Len(s) : t[i] = s[i]
      /\ t[Len(s) + 1] = f
  BY AppendProperties, LenProperties
<1> HIDE DEF t
<1>2. ASSUME NEW i \in DOMAIN t, NEW j \in DOMAIN t, i < j
      PROVE  t[i].id < t[j].id
  <2>1. CASE j = Len(s) + 1
    BY <1>1, <1>2, <2>1 DEF Below
  <2>2. CASE j # Len(s) + 1
    BY <1>1, <1>2, <2>2 DEF Increasing
  <2> QED
    BY <2>1, <2>2
<1>3. Increasing(t)
  BY <1>2 DEF Increasing
<1> QED
  BY <1>3 DEF t

\* The oldest frame of an increasing sequence is below the others, which
\* stay increasing without it.
LEMMA IncreasingTail ==
    ASSUME NEW s \in Seq(Frame), s # <<>>, Increasing(s)
    PROVE  /\ Increasing(Tail(s))
           /\ \A i \in DOMAIN Tail(s) :
                /\ Head(s).id < Tail(s)[i].id
                /\ \E j \in DOMAIN s : Tail(s)[i] = s[j]
           /\ 1 \in DOMAIN s /\ Head(s) = s[1]
<1>1. \A i \in DOMAIN Tail(s) :
        i \in Nat /\ i > 0 /\ i + 1 \in DOMAIN s /\ Tail(s)[i] = s[i + 1]
  BY HeadTailProperties, LenProperties
<1>2. 1 \in DOMAIN s /\ Head(s) = s[1]
  BY EmptySeq, LenProperties
<1>3. Increasing(Tail(s))
  <2> SUFFICES ASSUME NEW i \in DOMAIN Tail(s), NEW j \in DOMAIN Tail(s), i < j
               PROVE  Tail(s)[i].id < Tail(s)[j].id
    BY DEF Increasing
  <2>1. i + 1 \in DOMAIN s /\ j + 1 \in DOMAIN s /\ i + 1 < j + 1
    BY <1>1
  <2>2. s[i + 1].id < s[j + 1].id
    BY <2>1 DEF Increasing
  <2> QED BY <1>1, <2>2
<1>4. ASSUME NEW i \in DOMAIN Tail(s)
      PROVE  Head(s).id < Tail(s)[i].id /\ \E j \in DOMAIN s : Tail(s)[i] = s[j]
  <2>1. i + 1 \in DOMAIN s /\ 1 < i + 1
    BY <1>1
  <2>2. s[1].id < s[i + 1].id
    BY <1>2, <2>1 DEF Increasing
  <2> QED BY <1>1, <1>2, <2>1, <2>2
<1> QED BY <1>2, <1>3, <1>4

\* The frames of a sequence have numbers for ids.
LEMMA IdsAreNumbers ==
    ASSUME NEW s \in Seq(Frame)
    PROVE  \A i \in DOMAIN s : s[i] \in Frame /\ s[i].id \in Nat
<1>1. \A i \in DOMAIN s : s[i] \in Frame
  BY LenProperties
<1>2. \A f \in Frame : f.id \in Nat
  BY DEF Frame
<1> QED
  BY <1>1, <1>2

\* get_frame moves the oldest frame from the queue to the delivered ones.
LEMMA QueuedDeliver ==
    ASSUME NEW d \in Seq(Frame), NEW b \in Seq(Frame), b # <<>>, NEW n \in Nat,
           Queued(d, b, n)
    PROVE  Queued(Append(d, Head(b)), Tail(b), n)
<1>1. /\ Increasing(Tail(b))
      /\ \A i \in DOMAIN Tail(b) :
           /\ Head(b).id < Tail(b)[i].id
           /\ \E j \in DOMAIN b : Tail(b)[i] = b[j]
      /\ 1 \in DOMAIN b /\ Head(b) = b[1]
  BY IncreasingTail DEF Queued
<1>2. Head(b) \in Frame /\ Head(b).id \in Nat
  BY <1>1, IdsAreNumbers
<1>3. Below(d, Head(b).id) /\ Head(b).id < n
  BY <1>1 DEF Queued, Below
<1>4. Increasing(Append(d, Head(b)))
  BY <1>2, <1>3, IncreasingAppend DEF Queued
<1>5. Below(Append(d, Head(b)), n)
  BY <1>2, <1>3, BelowAppend DEF Queued
<1>6. Below(Tail(b), n)
  BY BelowTail DEF Queued
<1>7. ASSUME NEW i \in DOMAIN Tail(b)
      PROVE  Below(Append(d, Head(b)), Tail(b)[i].id)
  <2>1. Tail(b)[i].id \in Nat
    BY HeadTailProperties, IdsAreNumbers
  <2>2. Below(d, Tail(b)[i].id)
    BY <1>1 DEF Queued
  <2> QED
    BY <1>1, <1>2, <2>1, <2>2, BelowAppend
<1> QED
  BY <1>1, <1>4, <1>5, <1>6, <1>7 DEF Queued

\* A frame newer than all others is appended.
LEMMA QueuedPush ==
    ASSUME NEW d \in Seq(Frame), NEW b \in Seq(Frame), NEW f \in Frame,
           NEW n \in Nat, f.id < n, Queued(d, b, f.id)
    PROVE  Queued(d, Append(b, f), n)
<1>0. f.id \in Nat
  BY DEF Frame
<1>1. Increasing(Append(b, f))
  BY IncreasingAppend DEF Queued
<1>2. \A i \in DOMAIN d : d[i].id \in Nat
  BY IdsAreNumbers
<1>3. \A i \in DOMAIN b : b[i].id \in Nat
  BY IdsAreNumbers
<1>4. Below(d, n) /\ Below(b, n)
  BY <1>0, <1>2, <1>3 DEF Queued, Below
<1>5. Below(Append(b, f), n)
  BY <1>4, BelowAppend
<1>6. \A i \in DOMAIN Append(b, f) :
        Append(b, f)[i] = f \/ \E j \in DOMAIN b : Append(b, f)[i] = b[j]
  BY AppendProperties, LenProperties
<1>7. \A i \in DOMAIN Append(b, f) : Below(d, Append(b, f)[i].id)
  BY <1>6 DEF Queued
<1> QED
  BY <1>1, <1>4, <1>5, <1>7 DEF Queued

\* deque(maxlen) drops the oldest frame.
LEMMA QueuedDrop ==
    ASSUME NEW d \in Seq(Frame), NEW b \in Seq(Frame), b # <<>>, NEW n \in Nat,
           Queued(d, b, n)
    PROVE  Queued(d, Tail(b), n)
<1>1. Increasing(Tail(b)) /\ Below(Tail(b), n)
  BY IncreasingTail, BelowTail DEF Queued
<1>2. \A i \in DOMAIN Tail(b) : \E j \in DOMAIN b : Tail(b)[i] = b[j]
  BY IncreasingTail DEF Queued
<1> QED
  BY <1>1, <1>2 DEF Queued

\* What is below n is below n + 1.
LEMMA QueuedBump ==
    ASSUME NEW d \in Seq(Frame), NEW b \in Seq(Frame), NEW n \in Nat,
           Queued(d, b, n)
    PROVE  Queued(d, b, n + 1)
<1>1. /\ \A i \in DOMAIN d : d[i].id \in Nat
      /\ \A i \in DOMAIN b : b[i].id \in Nat
  BY IdsAreNumbers
<1> QED
  BY <1>1 DEF Queued, Below

\* Threads that have overlapped once have overlapped for good.
LEMMA OverlapStays == [Next]_vars /\ ~overlapped' => ~overlapped
<1> SUFFICES ASSUME [Next]_vars, ~overlapped'
             PROVE  ~overlapped
    OBVIOUS
<1>1. CASE StartStreaming
  BY <1>1 DEF StartStreaming
<1>2. CASE Stop \/ GetFrame \/ UNCHANGED vars
  BY <1>2 DEF Stop, GetFrame, vars
<1>3. CASE \E t \in Threads : ThreadStep(t)
  BY <1>3 DEF ThreadStep, Loop, ReadFrameId, BumpFrameId, CheckFull, Put, AppendFrame
<1> QED
  BY <1>1, <1>2, <1>3 DEF Next

\* The flag is never changed.
LEMMA FlagStays == [Next]_vars => useConditionalPut' = useConditionalPut
<1> SUFFICES ASSUME [Next]_vars
             PROVE  useConditionalPut' = useConditionalPut
    OBVIOUS
<1>1. CASE StartStreaming \/ Stop \/ GetFrame \/ UNCHANGED vars
  BY <1>1 DEF StartStreaming, Stop, GetFrame, vars
<1>2. CASE \E t \in Threads : ThreadStep(t)
  BY <1>2 DEF ThreadStep, Loop, ReadFrameId, BumpFrameId, CheckFull, Put, AppendFrame
<1> QED
  BY <1>1, <1>2 DEF Next

\* TypeOK holds initially.
LEMMA TypeInit == Init => TypeOK
<1> SUFFICES ASSUME Init PROVE TypeOK
    OBVIOUS
<1>1. running \in BOOLEAN /\ overlapped \in BOOLEAN
  BY DEF Init
<1>2. pc \in [Threads -> Locations] /\ held \in [Threads -> Frame]
  BY DEF Init, Locations, Frame
<1>3. buffer \in Seq(Frame) /\ Len(buffer) <= QueueMax /\ delivered \in Seq(Frame)
  BY Constants, EmptySeq DEF Init
<1>4. starts \in 0..MaxStarts /\ frameId \in Nat /\ puts \in Nat
  BY Constants DEF Init
<1> QED
  BY <1>1, <1>2, <1>3, <1>4 DEF Init, TypeOK

\* No step of the actor breaks TypeOK.
LEMMA TypeNext == TypeOK /\ [Next]_vars => TypeOK'
<1> SUFFICES ASSUME TypeOK, [Next]_vars PROVE TypeOK'
    OBVIOUS
<1> USE Constants DEF TypeOK
<1>1. CASE StartStreaming
  <2>1. starts + 1 \in Threads
    BY <1>1 DEF StartStreaming, Threads
  <2>2. pc' \in [Threads -> Locations]
    BY <1>1, <2>1 DEF StartStreaming, Locations
  <2> QED
    BY <1>1, <2>2 DEF StartStreaming
<1>2. CASE Stop
  BY <1>2 DEF Stop
<1>3. CASE GetFrame
  <2>1. CASE buffer = <<>> /\ UNCHANGED vars
    BY <2>1 DEF vars
  <2>2. CASE buffer # <<>> /\ GetFrame
    <3>1. /\ Head(buffer) \in Frame
          /\ Tail(buffer) \in Seq(Frame)
          /\ Len(Tail(buffer)) = Len(buffer) - 1
      BY <2>2, HeadTailProperties
    <3>2. /\ delivered' = Append(delivered, Head(buffer))
          /\ buffer' = Tail(buffer)
          /\ UNCHANGED <<running, starts, pc, held, frameId, puts,
                        evicted, skipped, overlapped, useConditionalPut>>
      BY <2>2 DEF GetFrame
    <3>3. delivered' \in Seq(Frame)
      BY <3>1, <3>2, AppendProperties
    <3>4. Len(buffer') <= QueueMax
      BY <3>1, <3>2, LenProperties
    <3> QED
      BY <3>1, <3>2, <3>3, <3>4
  <2> QED
    BY <1>3, <2>1, <2>2 DEF GetFrame
<1>4. ASSUME NEW t \in Threads, ThreadStep(t) PROVE TypeOK'
  <2>1. CASE Loop(t)
    BY <2>1 DEF Loop, Locations
  <2>2. CASE ReadFrameId(t)
    BY <2>2 DEF ReadFrameId, Locations, Frame
  <2>3. CASE BumpFrameId(t)
    BY <2>3 DEF BumpFrameId, Locations
  <2>4. CASE CheckFull(t)
    <3>1. held[t].id \in Nat
      BY DEF Frame
    <3> QED
      BY <2>4, <3>1 DEF CheckFull, Locations
  <2>5. CASE Put(t)
    <3>1. [held[t] EXCEPT !.ref = puts + 1] \in Frame
      BY PutFrame
    <3>2. held' = [held EXCEPT ![t] = [held[t] EXCEPT !.ref = puts + 1]]
      BY <2>5 DEF Put
    <3>3. held' \in [Threads -> Frame]
      BY <3>1, <3>2
    <3> QED
      BY <2>5, <3>3 DEF Put, Locations
  <2>6. CASE AppendFrame(t)
    <3>1. held[t] \in Frame
      OBVIOUS
    <3>2. pc' \in [Threads -> Locations]
      BY <2>6 DEF AppendFrame, Locations
    <3>3. CASE Len(buffer) < QueueMax
      <4>0. buffer' = Append(buffer, held[t])
        BY <2>6, <3>3 DEF AppendFrame
      <4>1. /\ buffer' \in Seq(Frame)
            /\ Len(buffer') = Len(buffer) + 1
        BY <3>1, <4>0, AppendProperties
      <4> QED
        BY <2>6, <3>2, <3>3, <4>1, LenProperties, SMT DEF AppendFrame
    <3>4. CASE ~(Len(buffer) < QueueMax)
      <4>1. buffer # <<>> /\ Len(buffer) = QueueMax
        BY <3>4, LenProperties, SMT
      <4>2. /\ Head(buffer) \in Frame
            /\ Tail(buffer) \in Seq(Frame)
            /\ Len(Tail(buffer)) = Len(buffer) - 1
        BY <4>1, HeadTailProperties
      <4>0. buffer' = Append(Tail(buffer), held[t])
        BY <2>6, <3>4 DEF AppendFrame
      <4>3. /\ buffer' \in Seq(Frame)
            /\ Len(buffer') = Len(Tail(buffer)) + 1
        BY <3>1, <4>0, <4>2, AppendProperties
      <4>4. Len(buffer') <= QueueMax
        BY <4>1, <4>2, <4>3, SMT
      <4>5. evicted' \subseteq Frame
        BY <2>6, <3>4, <4>2 DEF AppendFrame
      <4> QED
        BY <2>6, <3>2, <4>3, <4>4, <4>5 DEF AppendFrame
    <3> QED
      BY <3>3, <3>4
  <2> QED
    BY <1>4, <2>1, <2>2, <2>3, <2>4, <2>5, <2>6 DEF ThreadStep
<1>5. CASE UNCHANGED vars
  BY <1>5 DEF vars
<1> QED
  BY <1>1, <1>2, <1>3, <1>4, <1>5 DEF Next

\* The deque never outgrows FRAME_QUEUE_MAX_SIZE and every variable keeps its
\* type, whatever restarts and interleavings occur.
THEOREM TypeCorrect == Spec => []TypeOK
BY TypeInit, TypeNext, PTL DEF Spec

-----------------------------------------------------------------------------
\* The inductive invariant.
IInv == TypeOK /\ OneThread /\ RoomReserved /\ Order

LEMMA IInvInit == Init => IInv
<1> SUFFICES ASSUME Init PROVE IInv
    OBVIOUS
<1>1. OneThread /\ RoomReserved
  BY DEF Init, OneThread, RoomReserved
<1>2. DOMAIN buffer = {} /\ DOMAIN delivered = {}
  BY EmptySeq, LenProperties DEF Init
<1>3. Order
  BY <1>2 DEF Init, Order, Queued, Increasing, Below
<1> QED
  BY <1>1, <1>3, TypeInit DEF IInv

\* Until threads overlap, the start of a thread finds none alive, so there is
\* never a second one.
LEMMA OneThreadNext == IInv /\ [Next]_vars => OneThread'
<1> SUFFICES ASSUME IInv, [Next]_vars, ~overlapped' PROVE
        \A t, u \in Threads : pc'[t] # "off" /\ pc'[u] # "off" => t = u
    BY DEF OneThread
<1>0. pc \in [Threads -> Locations]
  BY DEF IInv, TypeOK
<1>1. CASE StartStreaming
  <2>1. \A t \in Threads : pc[t] = "off"
    BY <1>1 DEF StartStreaming, Alive
  <2> QED
    BY <1>0, <1>1, <2>1 DEF StartStreaming
<1>2. ASSUME ~overlapped, NEW t \in Threads, pc[t] # "off",
             pc' \in [Threads -> Locations],
             \A u \in Threads \ {t} : pc'[u] = pc[u]
      PROVE  \A x, u \in Threads : pc'[x] # "off" /\ pc'[u] # "off" => x = u
  BY <1>2 DEF IInv, OneThread
<1>3. CASE Stop \/ GetFrame \/ UNCHANGED vars
  BY <1>3 DEF Stop, GetFrame, vars, IInv, OneThread
<1>4. ASSUME NEW t \in Threads, ThreadStep(t)
      PROVE  /\ ~overlapped
             /\ pc[t] # "off"
             /\ \A u \in Threads \ {t} : pc'[u] = pc[u]
  BY <1>0, <1>4 DEF ThreadStep, Loop, ReadFrameId, BumpFrameId, CheckFull,
                    Put, AppendFrame
<1>5. pc' \in [Threads -> Locations]
  BY TypeNext DEF IInv, TypeOK
<1> QED
  BY <1>1, <1>2, <1>3, <1>4, <1>5 DEF Next

\* Between a thread's fullness test and its append the deque only shrinks:
\* the consumer takes frames, and no other thread is there to add one.
LEMMA RoomReservedNext == IInv /\ [Next]_vars => RoomReserved'
<1> SUFFICES ASSUME IInv, [Next]_vars, useConditionalPut, ~overlapped'
             PROVE  /\ evicted' = {}
                    /\ \A u \in Threads :
                         pc'[u] \in {"put", "append"} => Len(buffer') < QueueMax
    BY FlagStays DEF RoomReserved
<1>0. /\ pc \in [Threads -> Locations]
      /\ buffer \in Seq(Frame) /\ Len(buffer) \in Nat
      /\ QueueMax \in Nat
      /\ ~overlapped
  BY OverlapStays, LenProperties, Constants DEF IInv, TypeOK
<1>1. /\ evicted = {}
      /\ \A u \in Threads : pc[u] \in {"put", "append"} => Len(buffer) < QueueMax
      /\ \A t, u \in Threads : pc[t] # "off" /\ pc[u] # "off" => t = u
  BY <1>0 DEF IInv, RoomReserved, OneThread
<1>2. CASE StartStreaming
  BY <1>0, <1>1, <1>2 DEF StartStreaming
<1>3. CASE Stop
  BY <1>1, <1>3 DEF Stop
<1>4. CASE GetFrame
  <2>1. CASE buffer = <<>> /\ UNCHANGED vars
    BY <1>1, <2>1 DEF vars
  <2>2. CASE buffer # <<>> /\ buffer' = Tail(buffer) /\ UNCHANGED <<pc, evicted>>
    <3>1. Len(Tail(buffer)) = Len(buffer) - 1
      BY <1>0, <2>2, HeadTailProperties
    <3> QED
      BY <1>0, <1>1, <2>2, <3>1
  <2> QED
    BY <1>4, <2>1, <2>2 DEF GetFrame
<1>5. ASSUME NEW t \in Threads, Loop(t) \/ ReadFrameId(t) \/ BumpFrameId(t)
      PROVE  /\ evicted' = {}
             /\ \A u \in Threads : pc'[u] \notin {"put", "append"}
  <2>1. \A u \in Threads \ {t} : pc[u] = "off"
    BY <1>1, <1>5 DEF Loop, ReadFrameId, BumpFrameId
  <2> QED
    BY <1>0, <1>1, <1>5, <2>1 DEF Loop, ReadFrameId, BumpFrameId
<1>6. ASSUME NEW t \in Threads, CheckFull(t)
      PROVE  /\ evicted' = {}
             /\ \A u \in Threads :
                  pc'[u] \in {"put", "append"} => Len(buffer') < QueueMax
  BY <1>0, <1>1, <1>6 DEF CheckFull
<1>7. ASSUME NEW t \in Threads, Put(t)
      PROVE  /\ evicted' = {}
             /\ \A u \in Threads :
                  pc'[u] \in {"put", "append"} => Len(buffer') < QueueMax
  BY <1>0, <1>1, <1>7 DEF Put
<1>8. ASSUME NEW t \in Threads, AppendFrame(t)
      PROVE  /\ evicted' = {}
             /\ \A u \in Threads : pc'[u] \notin {"put", "append"}
  <2>1. \A u \in Threads \ {t} : pc[u] = "off"
    BY <1>1, <1>8 DEF AppendFrame
  <2>2. Len(buffer) < QueueMax
    BY <1>1, <1>8 DEF AppendFrame
  <2> QED
    BY <1>0, <1>1, <1>8, <2>1, <2>2 DEF AppendFrame
<1>9. CASE UNCHANGED vars
  BY <1>1, <1>9 DEF vars
<1> QED
  BY <1>2, <1>3, <1>4, <1>5, <1>6, <1>7, <1>8, <1>9 DEF Next, ThreadStep

\* Every step keeps the frames on their way in the order of their ids.
LEMMA OrderNext == IInv /\ [Next]_vars => Order'
<1> SUFFICES ASSUME IInv, [Next]_vars, ~overlapped'
             PROVE  Order'
    BY DEF Order
<1>0. /\ pc \in [Threads -> Locations]
      /\ held \in [Threads -> Frame]
      /\ frameId \in Nat
      /\ buffer \in Seq(Frame)
      /\ delivered \in Seq(Frame)
      /\ \A u \in Threads : held[u].id \in Nat
  BY DEF IInv, TypeOK, Frame
<1>1. ~overlapped
  BY OverlapStays
<1>2. /\ Queued(delivered, buffer, frameId)
      /\ \A u \in Threads :
           /\ pc[u] = "bump" => held[u].id = frameId
           /\ pc[u] \in {"full", "put", "append"} =>
                held[u].id < frameId /\ Queued(delivered, buffer, held[u].id)
      /\ \A t, u \in Threads : pc[t] # "off" /\ pc[u] # "off" => t = u
  BY <1>1 DEF IInv, Order, OneThread
<1>3. CASE StartStreaming
  BY <1>0, <1>2, <1>3 DEF StartStreaming, Order
<1>4. CASE Stop \/ UNCHANGED vars
  BY <1>2, <1>4 DEF Stop, vars, Order
<1>5. CASE GetFrame
  <2>1. CASE buffer = <<>> /\ UNCHANGED vars
    BY <1>2, <2>1 DEF vars, Order
  <2>2. CASE /\ buffer # <<>>
             /\ delivered' = Append(delivered, Head(buffer))
             /\ buffer' = Tail(buffer)
             /\ UNCHANGED <<pc, held, frameId>>
    <3>1. Queued(delivered', buffer', frameId)
      BY <1>0, <1>2, <2>2, QueuedDeliver
    <3>2. \A u \in Threads : pc[u] \in {"full", "put", "append"} =>
            Queued(delivered', buffer', held[u].id)
      BY <1>0, <1>2, <2>2, QueuedDeliver
    <3> QED
      BY <1>2, <2>2, <3>1, <3>2 DEF Order
  <2> QED
    BY <1>5, <2>1, <2>2 DEF GetFrame
<1>6. ASSUME NEW t \in Threads, Loop(t) \/ CheckFull(t)
      PROVE  Order'
  <2>1. /\ UNCHANGED <<held, frameId, buffer, delivered>>
        /\ \A u \in Threads \ {t} : pc'[u] = pc[u]
        /\ pc'[t] # "bump"
        /\ pc'[t] \in {"full", "put", "append"} => pc[t] = "full"
    BY <1>0, <1>6 DEF Loop, CheckFull
  <2> QED
    BY <1>2, <2>1 DEF Order
<1>7. ASSUME NEW t \in Threads, ReadFrameId(t)
      PROVE  Order'
  <2>1. /\ UNCHANGED <<frameId, buffer, delivered>>
        /\ \A u \in Threads \ {t} : pc'[u] = pc[u] /\ held'[u] = held[u]
        /\ pc'[t] = "bump" /\ held'[t].id = frameId
    BY <1>0, <1>7 DEF ReadFrameId
  <2> QED
    BY <1>2, <2>1 DEF Order
<1>8. ASSUME NEW t \in Threads, BumpFrameId(t)
      PROVE  Order'
  <2>1. \A u \in Threads \ {t} : pc'[u] = "off"
    BY <1>0, <1>2, <1>8 DEF BumpFrameId
  <2>2. /\ frameId' = frameId + 1
        /\ UNCHANGED <<held, buffer, delivered>>
        /\ held[t].id = frameId
        /\ pc'[t] \in {"full", "put"}
    BY <1>0, <1>2, <1>8 DEF BumpFrameId
  <2>3. Queued(delivered, buffer, frameId + 1)
    BY <1>0, <1>2, QueuedBump
  <2> QED
    BY <1>0, <1>2, <2>1, <2>2, <2>3 DEF Order
<1>9. ASSUME NEW t \in Threads, Put(t)
      PROVE  Order'
  <2>1. held'[t] = [held[t] EXCEPT !.ref = puts + 1]
    BY <1>0, <1>9 DEF Put
  <2>2. held'[t].id = held[t].id
    BY <1>0, <2>1, PutFrame DEF IInv, TypeOK
  <2>3. /\ UNCHANGED <<frameId, buffer, delivered>>
        /\ \A u \in Threads \ {t} : pc'[u] = pc[u] /\ held'[u] = held[u]
        /\ pc[t] = "put" /\ pc'[t] = "append"
    BY <1>0, <1>9 DEF Put
  <2> QED
    BY <1>2, <2>2, <2>3 DEF Order
<1>10. ASSUME NEW t \in Threads, AppendFrame(t)
       PROVE  Order'
  <2>1. /\ \A u \in Threads \ {t} : pc'[u] = "off"
        /\ pc'[t] = "loop"
        /\ UNCHANGED <<held, frameId, delivered>>
    BY <1>0, <1>2, <1>10 DEF AppendFrame
  <2>2. held[t].id < frameId /\ Queued(delivered, buffer, held[t].id)
    BY <1>2, <1>10 DEF AppendFrame
  <2>3. CASE buffer' = Append(buffer, held[t])
    BY <1>0, <2>1, <2>2, <2>3, QueuedPush DEF Order
  <2>4. CASE buffer # <<>> /\ buffer' = Append(Tail(buffer), held[t])
    <3>1. Queued(delivered, Tail(buffer), held[t].id) /\ Tail(buffer) \in Seq(Frame)
      BY <1>0, <2>2, <2>4, QueuedDrop, HeadTailProperties
    <3> QED
      BY <1>0, <2>1, <2>2, <2>4, <3>1, QueuedPush DEF Order
  <2>5. buffer = <<>> => Len(buffer) < QueueMax
    BY Constants, EmptySeq
  <2> QED
    BY <1>10, <2>3, <2>4, <2>5 DEF AppendFrame
<1> QED
  BY <1>3, <1>4, <1>5, <1>6, <1>7, <1>8, <1>9, <1>10 DEF Next, ThreadStep

\* The conjunction is inductive.
THEOREM IInvCorrect == Spec => []IInv
<1>1. IInv /\ [Next]_vars => IInv'
  BY TypeNext, OneThreadNext, RoomReservedNext, OrderNext DEF IInv
<1> QED
  BY IInvInit, <1>1, PTL DEF Spec

\* With the conditional put, no frame that was put is ever evicted while
\* threads do not overlap (standalone/actors.py 113-125).
THEOREM NoWastedPutCorrect == Spec => []NoWastedPut
<1>1. IInv => NoWastedPut
  BY DEF IInv, RoomReserved, NoWastedPut
<1> QED
  BY IInvCorrect, <1>1, PTL

\* What Queued says of the two sequences, said of their concatenation.
LEMMA QueuedConcat ==
    ASSUME NEW d \in Seq(Frame), NEW b \in Seq(Frame), NEW n \in Nat,
           Queued(d, b, n)
    PROVE  Increasing(d \o b)
<1> DEFINE s == d \o b
<1>1. /\ Len(d) \in Nat /\ DOMAIN d = 1..Len(d)
      /\ Len(b) \in Nat /\ DOMAIN b = 1..Len(b)
      /\ DOMAIN s = 1..(Len(d) + Len(b))
      /\ \A i \in 1..(Len(d) + Len(b)) :
           s[i] = IF i <= Len(d) THEN d[i] ELSE b[i - Len(d)]
  BY ConcatProperties, LenProperties
<1> HIDE DEF s
<1>2. ASSUME NEW i \in DOMAIN s, NEW j \in DOMAIN s, i < j
      PROVE  s[i].id < s[j].id
  <2>1. CASE j <= Len(d)
    BY <1>1, <1>2, <2>1 DEF Queued, Increasing
  <2>2. CASE i <= Len(d) /\ ~(j <= Len(d))
    <3>1. /\ i \in DOMAIN d /\ s[i] = d[i]
          /\ j - Len(d) \in DOMAIN b /\ s[j] = b[j - Len(d)]
      BY <1>1, <2>2
    <3> QED
      BY <3>1 DEF Queued, Below
  <2>3. CASE ~(i <= Len(d))
    <3>1. /\ i - Len(d) \in DOMAIN b /\ s[i] = b[i - Len(d)]
          /\ j - Len(d) \in DOMAIN b /\ s[j] = b[j - Len(d)]
          /\ i - Len(d) < j - Len(d)
      BY <1>1, <1>2, <2>3
    <3> QED
      BY <3>1 DEF Queued, Increasing
  <2> QED
    BY <2>1, <2>2, <2>3, <1>1
<1>3. Increasing(s)
  BY <1>2 DEF Increasing
<1> QED
  BY <1>3 DEF s

\* The consumer gets frames in strictly increasing order of their ids, and
\* those that wait are newer still, while threads do not overlap.
THEOREM InOrderDeliveryCorrect == Spec => []InOrderDelivery
<1>1. IInv => InOrderDelivery
  BY QueuedConcat DEF IInv, TypeOK, Order, InOrderDelivery
<1> QED
  BY IInvCorrect, <1>1, PTL

-----------------------------------------------------------------------------
\* The ids of the delivered frames, as the channel sees them.
Ids(s) == [i \in DOMAIN s |-> s[i].id]

LEMMA IdsAppend ==
    ASSUME NEW d \in Seq(Frame), NEW f \in Frame
    PROVE  Ids(Append(d, f)) = Append(Ids(d), f.id)
<1> DEFINE a == Append(d, f)
           ids == Ids(d)
<1>1. /\ a \in Seq(Frame)
      /\ Len(d) \in Nat /\ DOMAIN d = 1..Len(d)
      /\ Len(a) = Len(d) + 1 /\ DOMAIN a = 1..(Len(d) + 1)
      /\ \A i \in 1..Len(d) : a[i] = d[i]
      /\ a[Len(d) + 1] = f
  BY AppendProperties, LenProperties
<1>2. ids \in [1..Len(d) -> Nat] /\ f.id \in Nat
  BY <1>1, IdsAreNumbers DEF Ids, Frame
<1>3. ids \in Seq(Nat) /\ Len(ids) = Len(d)
  BY <1>1, <1>2
<1>4. Ids(a) \in Seq(Nat) /\ Len(Ids(a)) = Len(d) + 1
  <2>1. Ids(a) \in [1..(Len(d) + 1) -> Nat]
    BY <1>1, IdsAreNumbers DEF Ids
  <2> QED
    BY <1>1, <2>1
<1>5. /\ Append(ids, f.id) \in Seq(Nat)
      /\ Len(Append(ids, f.id)) = Len(d) + 1
      /\ \A i \in 1..Len(d) : Append(ids, f.id)[i] = ids[i]
      /\ Append(ids, f.id)[Len(d) + 1] = f.id
  BY <1>2, <1>3, AppendProperties
<1>6. \A i \in 1..(Len(d) + 1) : Ids(a)[i] = Append(ids, f.id)[i]
  BY <1>1, <1>5 DEF Ids
<1>7. Ids(a) = Append(ids, f.id)
  BY <1>4, <1>5, <1>6, SeqEqual
<1> QED
  BY <1>7

\* A frame is on its way in the deque or in a thread's hand.
LEMMA InPending ==
    \A x : x \in Pending <=>
        \/ \E i \in DOMAIN buffer : x = buffer[i].id
        \/ \E t \in Threads : pc[t] \in {"full", "put", "append"} /\ x = held[t].id
BY DEF Pending, Numbered, Range

LEMMA InPendingNext ==
    \A x : x \in Pending' <=>
        \/ \E i \in DOMAIN buffer' : x = buffer'[i].id
        \/ \E t \in Threads : pc'[t] \in {"full", "put", "append"} /\ x = held'[t].id
BY DEF Pending, Numbered, Range

\* Sets with the same members are equal.
LEMMA SameMembers ==
    ASSUME NEW A, NEW B, \A x : x \in A <=> x \in B
    PROVE  A = B
BY Zenon

\* Taking a frame off leaves the others.
LEMMA AllButOne ==
    ASSUME NEW A, NEW B, NEW f, \A x : x \in B <=> x \in A /\ x # f
    PROVE  B = A \ {f}
BY Zenon

\* The oldest frame of a nonempty deque is the oldest on its way.
LEMMA HeadIsOldest ==
    ASSUME IInv, ~overlapped, buffer # <<>>
    PROVE  /\ Head(buffer).id \in Pending
           /\ \A x \in Pending : Head(buffer).id <= x
           /\ \A i \in DOMAIN Tail(buffer) :
                /\ Head(buffer).id # Tail(buffer)[i].id
                /\ \E j \in DOMAIN buffer : Tail(buffer)[i] = buffer[j]
           /\ \A i \in DOMAIN buffer :
                \/ buffer[i] = Head(buffer)
                \/ \E j \in DOMAIN Tail(buffer) : buffer[i] = Tail(buffer)[j]
           /\ \A t \in Threads : pc[t] \in {"full", "put", "append"} =>
                Head(buffer).id < held[t].id
<1>1. buffer \in Seq(Frame) /\ \A t \in Threads : held[t].id \in Nat
  BY DEF IInv, TypeOK, Frame
<1>2. \A i \in DOMAIN buffer : buffer[i].id \in Nat
  BY <1>1, IdsAreNumbers
<1>3. Queued(delivered, buffer, frameId)
  BY DEF IInv, Order
<1>4. /\ \A i \in DOMAIN Tail(buffer) :
           /\ Head(buffer).id < Tail(buffer)[i].id
           /\ \E j \in DOMAIN buffer : Tail(buffer)[i] = buffer[j]
      /\ 1 \in DOMAIN buffer /\ Head(buffer) = buffer[1]
  BY <1>1, <1>3, IncreasingTail DEF Queued
<1>5. \A i \in DOMAIN buffer :
        i = 1 \/ (i - 1 \in DOMAIN Tail(buffer) /\ buffer[i] = Tail(buffer)[i - 1])
  BY <1>1, HeadTailProperties, LenProperties
<1>6. \A t \in Threads : pc[t] \in {"full", "put", "append"} =>
        Head(buffer).id < held[t].id
  BY <1>4 DEF IInv, Order, Queued, Below
<1>7. \A i \in DOMAIN buffer : Head(buffer).id <= buffer[i].id
  <2> SUFFICES ASSUME NEW i \in DOMAIN buffer
               PROVE  Head(buffer).id <= buffer[i].id
    OBVIOUS
  <2>1. Head(buffer).id \in Nat /\ buffer[i].id \in Nat
    BY <1>2, <1>4
  <2>2. buffer[i] = Head(buffer) \/ Head(buffer).id < buffer[i].id
    BY <1>4, <1>5, Zenon
  <2> QED
    BY <2>1, <2>2
<1>8. Head(buffer).id \in Pending /\ \A x \in Pending : Head(buffer).id <= x
  BY <1>1, <1>2, <1>4, <1>6, <1>7, InPending
<1>9. \A i \in DOMAIN Tail(buffer) : Head(buffer).id # Tail(buffer)[i].id
  BY <1>2, <1>4
<1> QED
  BY <1>4, <1>5, <1>6, <1>8, <1>9

\* Every step of the actor is a step of the channel or leaves it as it is.
LEMMA ChannelNext ==
    IInv /\ ~overlapped /\ ~overlapped' /\ [Next]_vars =>
        [Channel!Next]_(Channel!vars)
<1> SUFFICES ASSUME IInv, ~overlapped, ~overlapped', [Next]_vars
             PROVE  [Channel!Next]_(Channel!vars)
    OBVIOUS
<1>0. /\ pc \in [Threads -> Locations]
      /\ held \in [Threads -> Frame]
      /\ frameId \in Nat
      /\ buffer \in Seq(Frame)
      /\ delivered \in Seq(Frame)
      /\ \A u \in Threads : held[u].id \in Nat
      /\ \A i \in DOMAIN buffer : buffer[i].id \in Nat
  BY IdsAreNumbers DEF IInv, TypeOK, Frame
<1>1. /\ Queued(delivered, buffer, frameId)
      /\ \A u \in Threads :
           /\ pc[u] = "bump" => held[u].id = frameId
           /\ pc[u] \in {"full", "put", "append"} =>
                held[u].id < frameId /\ Queued(delivered, buffer, held[u].id)
      /\ \A t, u \in Threads : pc[t] # "off" /\ pc[u] # "off" => t = u
  BY DEF IInv, Order, OneThread
<1>2. ASSUME UNCHANGED <<frameId, delivered, Pending>>
      PROVE  [Channel!Next]_(Channel!vars)
  BY <1>2 DEF Channel!vars
<1>3. ASSUME UNCHANGED <<frameId, delivered, buffer>>,
             \A u \in Threads :
                /\ pc'[u] \in {"full", "put", "append"}
                     <=> pc[u] \in {"full", "put", "append"}
                /\ pc[u] \in {"full", "put", "append"} => held'[u].id = held[u].id
      PROVE  [Channel!Next]_(Channel!vars)
  <2>1. \A x : x \in Pending' <=> x \in Pending
    BY <1>3, InPending, InPendingNext
  <2> QED
    BY <1>2, <1>3, <2>1, SameMembers
<1>4. CASE StartStreaming
  <2>1. \A u \in Threads : pc[u] = "off"
    BY <1>4 DEF StartStreaming, Alive
  <2> QED
    BY <1>0, <1>3, <1>4, <2>1 DEF StartStreaming
<1>5. CASE Stop \/ UNCHANGED vars
  BY <1>3, <1>5 DEF Stop, vars
<1>6. CASE GetFrame
  <2>1. CASE buffer = <<>> /\ UNCHANGED vars
    BY <1>3, <2>1 DEF vars
  <2>2. CASE /\ buffer # <<>>
             /\ delivered' = Append(delivered, Head(buffer))
             /\ buffer' = Tail(buffer)
             /\ UNCHANGED <<pc, held, frameId>>
    <3> DEFINE f == Head(buffer).id
    <3>1. Channel!Oldest(f)
      BY <2>2, HeadIsOldest DEF Channel!Oldest
    <3>2. Pending' = Pending \ {f}
      <4> DEFINE rest == Tail(buffer)
      <4>1. \A i \in DOMAIN rest :
              /\ f # rest[i].id
              /\ \E j \in DOMAIN buffer : rest[i] = buffer[j]
        BY <2>2, HeadIsOldest
      <4>2. \A i \in DOMAIN buffer :
              \/ buffer[i].id = f
              \/ \E j \in DOMAIN rest : buffer[i] = rest[j]
        BY <2>2, HeadIsOldest
      <4>3. \A u \in Threads : pc[u] \in {"full", "put", "append"} =>
              f # held[u].id
        BY <1>0, <2>2, HeadIsOldest, IdsAreNumbers
      <4>4. buffer' = rest
        BY <2>2
      <4> HIDE DEF f, rest
      <4>5. \A x : x \in Pending' <=>
              \/ \E i \in DOMAIN rest : x = rest[i].id
              \/ \E u \in Threads : pc[u] \in {"full", "put", "append"} /\ x = held[u].id
        BY <2>2, <4>4, InPendingNext
      <4>6. \A x : x \in Pending' <=> x \in Pending /\ x # f
        BY <4>1, <4>2, <4>3, <4>5, InPending
      <4> QED
        BY <4>6, AllButOne
    <3>3. Ids(delivered') = Append(Ids(delivered), f)
      <4>1. Head(buffer) \in Frame
        BY <1>0, <2>2, HeadTailProperties
      <4> QED
        BY <1>0, <2>2, <4>1, IdsAppend
    <3>4. Channel!Receive
      BY <2>2, <3>1, <3>2, <3>3 DEF Channel!Receive, Channel!Oldest, Ids
    <3> QED
      BY <3>4 DEF Channel!Next
  <2> QED
    BY <1>6, <2>1, <2>2 DEF GetFrame
<1>7. ASSUME NEW t \in Threads, Loop(t) \/ ReadFrameId(t)
      PROVE  [Channel!Next]_(Channel!vars)
  <2>1. /\ UNCHANGED <<frameId, delivered, buffer>>
        /\ \A u \in Threads \ {t} : pc'[u] = pc[u] /\ held'[u] = held[u]
        /\ pc[t] \in {"loop", "read"} /\ pc'[t] \in {"off", "read", "bump"}
    BY <1>0, <1>7 DEF Loop, ReadFrameId
  <2> QED
    BY <1>3, <2>1
<1>8. ASSUME NEW t \in Threads, BumpFrameId(t)
      PROVE  [Channel!Next]_(Channel!vars)
  <2>1. /\ frameId' = frameId + 1
        /\ UNCHANGED <<held, buffer, delivered>>
        /\ held[t].id = frameId
        /\ pc[t] = "bump" /\ pc'[t] \in {"full", "put"}
        /\ \A u \in Threads \ {t} : pc'[u] = pc[u]
    BY <1>0, <1>1, <1>8 DEF BumpFrameId
  <2>2. Pending' = Pending \cup {frameId}
    BY <2>1, InPending, InPendingNext
  <2>3. Channel!Produce
    BY <2>1, <2>2 DEF Channel!Produce
  <2> QED
    BY <2>3 DEF Channel!Next
<1>9. ASSUME NEW t \in Threads, CheckFull(t)
      PROVE  [Channel!Next]_(Channel!vars)
  <2>1. /\ UNCHANGED <<frameId, delivered, buffer, held>>
        /\ \A u \in Threads \ {t} : pc'[u] = pc[u] /\ pc[u] = "off"
        /\ pc[t] = "full" /\ pc'[t] \in {"loop", "put"}
    BY <1>0, <1>1, <1>9 DEF CheckFull
  <2>2. CASE pc'[t] = "put"
    BY <1>3, <2>1, <2>2
  <2>3. CASE pc'[t] = "loop"
    <3> DEFINE f == held[t].id
    <3>1. \A i \in DOMAIN buffer : buffer[i].id < f
      BY <1>1, <2>1 DEF Queued, Below
    <3>2. Channel!Newest(f)
      BY <1>0, <2>1, <3>1, InPending DEF Channel!Newest
    <3>3. Pending' = Pending \ {f}
      <4>1. \A i \in DOMAIN buffer : buffer[i].id # f
        BY <1>0, <3>1
      <4>2. \A u \in Threads :
              pc'[u] \in {"full", "put", "append"} <=> FALSE
        BY <2>1, <2>3
      <4>3. \A u \in Threads :
              pc[u] \in {"full", "put", "append"} <=> u = t
        BY <2>1
      <4> HIDE DEF f
      <4>4. \A x : x \in Pending <=> x = f \/ \E i \in DOMAIN buffer : x = buffer[i].id
        BY <4>3, InPending DEF f
      <4>5. \A x : x \in Pending' <=> \E i \in DOMAIN buffer : x = buffer[i].id
        BY <2>1, <4>2, InPendingNext
      <4> QED
        BY <4>1, <4>4, <4>5, AllButOne
    <3>4. Channel!Lose
      BY <2>1, <3>2, <3>3 DEF Channel!Lose, Channel!Newest
    <3> QED
      BY <3>4 DEF Channel!Next
  <2> QED
    BY <2>1, <2>2, <2>3
<1>10. ASSUME NEW t \in Threads, Put(t)
       PROVE  [Channel!Next]_(Channel!vars)
  <2>1. held'[t] = [held[t] EXCEPT !.ref = puts + 1]
    BY <1>0, <1>10 DEF Put
  <2>2. held'[t].id = held[t].id
    BY <1>0, <2>1, PutFrame DEF IInv, TypeOK
  <2>3. /\ UNCHANGED <<frameId, buffer, delivered>>
        /\ \A u \in Threads \ {t} : pc'[u] = pc[u] /\ held'[u] = held[u]
        /\ pc[t] = "put" /\ pc'[t] = "append"
    BY <1>0, <1>10 DEF Put
  <2> QED
    BY <1>3, <2>2, <2>3
<1>11. ASSUME NEW t \in Threads, AppendFrame(t)
       PROVE  [Channel!Next]_(Channel!vars)
  <2>1. /\ UNCHANGED <<frameId, delivered, held>>
        /\ \A u \in Threads \ {t} : pc'[u] = pc[u] /\ pc[u] = "off"
        /\ pc[t] = "append" /\ pc'[t] = "loop"
    BY <1>0, <1>1, <1>11 DEF AppendFrame
  <2>2. CASE buffer' = Append(buffer, held[t])
    <3>1. /\ \A i \in DOMAIN buffer : i \in DOMAIN buffer' /\ buffer'[i] = buffer[i]
          /\ \A i \in DOMAIN buffer' : i \in DOMAIN buffer \/ buffer'[i] = held[t]
          /\ \E i \in DOMAIN buffer' : buffer'[i] = held[t]
      BY <1>0, <2>2, AppendProperties, LenProperties
    <3>2. \A x : x \in Pending' <=> x \in Pending
      BY <2>1, <3>1, InPending, InPendingNext
    <3> QED
      BY <1>2, <2>1, <3>2, SameMembers
  <2>3. CASE buffer # <<>> /\ buffer' = Append(Tail(buffer), held[t])
    <3> DEFINE f == Head(buffer).id
               rest == Tail(buffer)
    <3>1. rest \in Seq(Frame)
      BY <1>0, <2>3, HeadTailProperties
    <3>2. /\ \A i \in DOMAIN rest : i \in DOMAIN buffer' /\ buffer'[i] = rest[i]
          /\ \A i \in DOMAIN buffer' : i \in DOMAIN rest \/ buffer'[i] = held[t]
          /\ \E i \in DOMAIN buffer' : buffer'[i] = held[t]
      <4>1. held[t] \in Frame /\ buffer' = Append(rest, held[t])
        BY <1>0, <2>3
      <4> HIDE DEF rest
      <4>2. /\ Len(rest) \in Nat /\ DOMAIN rest = 1..Len(rest)
            /\ DOMAIN buffer' = 1..(Len(rest) + 1)
            /\ \A i \in 1..Len(rest) : buffer'[i] = rest[i]
            /\ buffer'[Len(rest) + 1] = held[t]
        BY <3>1, <4>1, AppendProperties, LenProperties
      <4> QED BY <4>2
    <3>3. Channel!Oldest(f)
      BY <2>3, HeadIsOldest DEF Channel!Oldest
    <3>4. f # held[t].id
      BY <1>0, <2>1, <2>3, HeadIsOldest, IdsAreNumbers
    <3>5. /\ \A i \in DOMAIN rest : f # rest[i].id
                                   /\ \E j \in DOMAIN buffer : rest[i] = buffer[j]
          /\ \A i \in DOMAIN buffer : \/ buffer[i].id = f
                                     \/ \E j \in DOMAIN rest : buffer[i] = rest[j]
      BY <2>3, HeadIsOldest
    <3> HIDE DEF f, rest
    <3>6. Pending' = Pending \ {f}
      <4>1. \A x : x \in Pending <=>
              x = held[t].id \/ \E i \in DOMAIN buffer : x = buffer[i].id
        BY <2>1, InPending
      <4>2. \A x : x \in Pending' <=> \E i \in DOMAIN buffer' : x = buffer'[i].id
        BY <2>1, InPendingNext
      <4>3. \A x : x \in Pending' <=>
              x = held[t].id \/ \E i \in DOMAIN rest : x = rest[i].id
        BY <3>2, <4>2
      <4>4. \A x : x \in Pending' <=> x \in Pending /\ x # f
        BY <3>4, <3>5, <4>1, <4>3
      <4> QED
        BY <4>4, AllButOne
    <3>7. Channel!Lose
      BY <2>1, <3>3, <3>6 DEF Channel!Lose, Channel!Oldest
    <3> QED
      BY <3>7 DEF Channel!Next
  <2>4. buffer = <<>> => Len(buffer) < QueueMax
    BY Constants, EmptySeq
  <2> QED
    BY <1>11, <2>2, <2>3, <2>4 DEF AppendFrame
<1> QED
  BY <1>4, <1>5, <1>6, <1>7, <1>8, <1>9, <1>10, <1>11 DEF Next, ThreadStep

\* The empty stream is an empty channel.
LEMMA ChannelInit == Init => Channel!Init
<1> SUFFICES ASSUME Init PROVE Channel!Init
  OBVIOUS
<1>1. DOMAIN buffer = {} /\ DOMAIN delivered = {}
  BY EmptySeq, LenProperties DEF Init
<1>2. \A x : x \notin Pending
  BY <1>1, InPending DEF Init
<1>3. [i \in DOMAIN delivered |-> delivered[i].id] = <<>>
  BY <1>1
<1> QED
  BY <1>2, <1>3 DEF Init, Channel!Init

\* Until threads overlap the stream implements the channel the analysis actor
\* counts on, whatever the queue size and the put policy.
THEOREM StreamImplementsChannel == Spec => ImplementsChannel
<1>1. IInv /\ [Next]_vars => [~overlapped' => Channel!Next]_(Channel!vars)
  BY ChannelNext, OverlapStays
<1> QED
  BY <1>1, ChannelInit, IInvCorrect, PTL DEF Spec, ImplementsChannel

\* A stream in which threads never overlap is a channel.
THEOREM StreamIsChannel == Spec /\ []~overlapped => Channel!Spec
BY ChannelInit, ChannelNext, IInvCorrect, PTL DEF Spec, Channel!Spec

-----------------------------------------------------------------------------
\* b holds the frames just below n, without a hole; those in e are older.
Follows(b, e, n) ==
    /\ \A i \in DOMAIN b : b[i].id + Len(b) + 1 = n + i
    /\ \A f \in e : f.id + Len(b) < n

\* What is in the deque ends just below the id that comes next: the id in the
\* hand of the thread that is about to append it, or else frame_id.
Dense ==
    ~useConditionalPut /\ ~overlapped =>
        /\ \A t \in Threads : pc[t] # "full"
        /\ \A t \in Threads : pc[t] \in {"put", "append"} =>
             held[t].id + 1 = frameId /\ Follows(buffer, evicted, held[t].id)
        /\ (\A t \in Threads : pc[t] \notin {"put", "append"}) =>
             Follows(buffer, evicted, frameId)

\* get_frame leaves the newest frames without a hole.
LEMMA FollowsTail ==
    ASSUME NEW b \in Seq(Frame), b # <<>>, NEW e \in SUBSET Frame, NEW n \in Nat,
           Follows(b, e, n)
    PROVE  Follows(Tail(b), e, n)
<1> DEFINE r == Tail(b)
<1>1. /\ r \in Seq(Frame) /\ Len(b) \in Nat /\ Len(b) > 0
      /\ Len(r) = Len(b) - 1 /\ DOMAIN r = 1..Len(r) /\ DOMAIN b = 1..Len(b)
      /\ \A i \in 1..Len(r) : r[i] = b[i + 1]
  BY HeadTailProperties, LenProperties, EmptySeq
<1> HIDE DEF r
<1>2. ASSUME NEW i \in DOMAIN r PROVE r[i].id + Len(r) + 1 = n + i
  <2>1. i \in Nat /\ i + 1 \in DOMAIN b /\ r[i] = b[i + 1]
    BY <1>1
  <2>2. r[i].id \in Nat /\ r[i].id + Len(b) + 1 = n + (i + 1)
    BY <2>1, IdsAreNumbers DEF Follows
  <2>3. Len(r) = Len(b) - 1 /\ Len(b) \in Nat
    BY <1>1
  <2>4. PICK x \in Nat : x = r[i].id
    BY <2>2
  <2>5. x + Len(b) + 1 = n + (i + 1) /\ i \in Nat
    BY <2>1, <2>2, <2>4
  <2>6. x + Len(r) + 1 = n + i
    BY <2>3, <2>5
  <2> QED BY <2>4, <2>6
<1>3. ASSUME NEW f \in e PROVE f.id + Len(r) < n
  <2>1. f.id \in Nat /\ f.id + Len(b) < n
    BY DEF Follows, Frame
  <2> QED BY <1>1, <2>1
<1> QED BY <1>2, <1>3 DEF Follows, r

\* The next frame joins a deque that has room.
LEMMA FollowsAppend ==
    ASSUME NEW b \in Seq(Frame), NEW e \in SUBSET Frame, NEW h \in Frame,
           Follows(b, e, h.id)
    PROVE  Follows(Append(b, h), e, h.id + 1)
<1> DEFINE r == Append(b, h)
<1>1. /\ r \in Seq(Frame) /\ Len(b) \in Nat
      /\ Len(r) = Len(b) + 1 /\ DOMAIN r = 1..Len(r) /\ DOMAIN b = 1..Len(b)
      /\ \A i \in 1..Len(b) : r[i] = b[i]
      /\ r[Len(b) + 1] = h /\ h.id \in Nat
  BY AppendProperties, LenProperties DEF Frame
<1> HIDE DEF r
<1>2. ASSUME NEW i \in DOMAIN r PROVE r[i].id + Len(r) + 1 = (h.id + 1) + i
  <2>1. CASE i = Len(b) + 1
    BY <1>1, <2>1
  <2>2. CASE i \in DOMAIN b
    <3>1. b[i].id \in Nat /\ b[i].id + Len(b) + 1 = h.id + i
      BY <2>2, IdsAreNumbers DEF Follows
    <3>2. r[i] = b[i] /\ i \in Nat
      BY <1>1, <2>2
    <3>3. Len(r) = Len(b) + 1 /\ Len(b) \in Nat /\ h.id \in Nat
      BY <1>1
    <3>4. PICK x \in Nat, y \in Nat : x = b[i].id /\ y = h.id
      BY <3>1, <3>3
    <3>5. x + Len(b) + 1 = y + i
      <4>1. b[i].id + Len(b) + 1 = h.id + i
        BY <3>1
      <4> QED BY Zenon, <3>4, <4>1
    <3>6. x + Len(r) + 1 = (y + 1) + i
      BY <3>2, <3>3, <3>5
    <3> QED BY <3>2, <3>4, <3>6
  <2> QED BY <1>1, <2>1, <2>2
<1>3. ASSUME NEW f \in e PROVE f.id + Len(r) < h.id + 1
  <2>1. f.id \in Nat /\ f.id + Len(b) < h.id
    BY DEF Follows, Frame
  <2> QED BY <1>1, <2>1
<1> QED BY <1>2, <1>3 DEF Follows, r

\* A full deque drops its oldest frame for the next one.
LEMMA FollowsPush ==
    ASSUME NEW b \in Seq(Frame), b # <<>>, NEW e \in SUBSET Frame, NEW h \in Frame,
           Follows(b, e, h.id)
    PROVE  Follows(Append(Tail(b), h), e \cup {Head(b)}, h.id + 1)
<1>1. /\ Tail(b) \in Seq(Frame) /\ Len(b) \in Nat /\ Len(b) > 0
      /\ Len(Tail(b)) = Len(b) - 1 /\ Head(b) \in Frame
      /\ h.id \in Nat
  <2>1. Len(b) \in Nat \ {0} /\ h.id \in Nat
    BY EmptySeq DEF Frame
  <2> QED BY <2>1, HeadTailProperties
<1>5. 1 \in DOMAIN b /\ Head(b) = b[1]
  BY <1>1, LenProperties
<1>2. Follows(Append(Tail(b), h), e, h.id + 1)
  BY <1>1, FollowsTail, FollowsAppend
<1>3. Len(Append(Tail(b), h)) = Len(b)
  BY <1>1, AppendProperties
<1>4. Head(b).id + Len(b) < h.id + 1
  <2>1. b[1].id \in Nat /\ b[1].id + Len(b) + 1 = h.id + 1
    BY <1>1, <1>5, IdsAreNumbers DEF Follows
  <2> QED BY <1>1, <1>5, <2>1
<1> QED BY <1>2, <1>3, <1>4 DEF Follows

LEMMA DenseInit == Init => Dense
<1> SUFFICES ASSUME Init PROVE Dense
  OBVIOUS
<1>1. DOMAIN buffer = {} /\ evicted = {}
  BY EmptySeq, LenProperties DEF Init
<1>2. Follows(buffer, evicted, frameId)
  BY <1>1 DEF Follows
<1> QED BY <1>2 DEF Init, Dense

LEMMA DenseNext == IInv /\ Dense /\ [Next]_vars => Dense'
<1> SUFFICES ASSUME IInv, Dense, [Next]_vars, ~useConditionalPut, ~overlapped'
             PROVE  Dense'
  BY FlagStays DEF Dense
<1>0. /\ pc \in [Threads -> Locations] /\ held \in [Threads -> Frame]
      /\ frameId \in Nat /\ buffer \in Seq(Frame) /\ evicted \in SUBSET Frame
      /\ \A u \in Threads : held[u].id \in Nat
      /\ ~overlapped
  BY OverlapStays DEF IInv, TypeOK, Frame
<1>1. /\ \A u \in Threads : pc[u] # "full"
      /\ \A u \in Threads : pc[u] \in {"put", "append"} =>
           held[u].id + 1 = frameId /\ Follows(buffer, evicted, held[u].id)
      /\ (\A u \in Threads : pc[u] \notin {"put", "append"}) =>
           Follows(buffer, evicted, frameId)
      /\ \A u \in Threads : pc[u] = "bump" => held[u].id = frameId
      /\ \A t, u \in Threads : pc[t] # "off" /\ pc[u] # "off" => t = u
  BY <1>0 DEF Dense, IInv, Order, OneThread
\* Steps after which the same ids are in the deque, in hand and to come.
<1>2. ASSUME UNCHANGED <<frameId, buffer, evicted>>,
             \A u \in Threads :
               /\ pc'[u] # "full"
               /\ pc'[u] \in {"put", "append"} <=> pc[u] \in {"put", "append"}
               /\ pc[u] \in {"put", "append"} => held'[u].id = held[u].id
      PROVE  Dense'
  BY <1>1, <1>2 DEF Dense
<1>3. CASE StartStreaming
  BY <1>0, <1>1, <1>2, <1>3 DEF StartStreaming, Alive
<1>4. CASE Stop \/ UNCHANGED vars
  BY <1>1, <1>2, <1>4 DEF Stop, vars
<1>5. CASE GetFrame
  <2>1. CASE buffer = <<>> /\ UNCHANGED vars
    BY <1>1, <1>2, <2>1 DEF vars
  <2>2. CASE buffer # <<>> /\ buffer' = Tail(buffer)
             /\ UNCHANGED <<pc, held, frameId, evicted>>
    BY <1>0, <1>1, <2>2, FollowsTail DEF Dense
  <2> QED BY <1>5, <2>1, <2>2 DEF GetFrame
<1>6. ASSUME NEW t \in Threads, Loop(t) \/ ReadFrameId(t)
      PROVE  Dense'
  <2>1. /\ UNCHANGED <<frameId, buffer, evicted>>
        /\ \A u \in Threads \ {t} : pc'[u] = pc[u] /\ held'[u] = held[u]
        /\ pc[t] \in {"loop", "read"} /\ pc'[t] \in {"off", "read", "bump"}
    BY <1>0, <1>6 DEF Loop, ReadFrameId
  <2> QED BY <1>1, <1>2, <2>1
<1>7. ASSUME NEW t \in Threads, BumpFrameId(t)
      PROVE  Dense'
  <2>1. /\ frameId' = frameId + 1 /\ held[t].id = frameId
        /\ pc[t] = "bump" /\ pc'[t] = "put"
        /\ UNCHANGED <<held, buffer, evicted>>
        /\ \A u \in Threads \ {t} : pc[u] = "off" /\ pc'[u] = "off"
    BY <1>0, <1>1, <1>7 DEF BumpFrameId
  <2>2. Follows(buffer, evicted, frameId)
    BY <1>1, <2>1
  <2> QED BY <2>1, <2>2 DEF Dense
<1>8. ASSUME NEW t \in Threads, CheckFull(t)
      PROVE  FALSE
  BY <1>1, <1>8 DEF CheckFull
<1>9. ASSUME NEW t \in Threads, Put(t)
      PROVE  Dense'
  <2>1. held'[t] = [held[t] EXCEPT !.ref = puts + 1]
    BY <1>0, <1>9 DEF Put
  <2>2. held'[t].id = held[t].id
    BY <1>0, <2>1, PutFrame DEF IInv, TypeOK
  <2>3. /\ UNCHANGED <<frameId, buffer, evicted>>
        /\ \A u \in Threads \ {t} : pc'[u] = pc[u] /\ held'[u] = held[u]
        /\ pc[t] = "put" /\ pc'[t] = "append"
    BY <1>0, <1>9 DEF Put
  <2> QED BY <1>1, <1>2, <2>2, <2>3
<1>10. ASSUME NEW t \in Threads, AppendFrame(t)
       PROVE  Dense'
  <2>1. /\ pc[t] = "append" /\ pc'[t] = "loop"
        /\ \A u \in Threads \ {t} : pc[u] = "off" /\ pc'[u] = "off"
        /\ frameId' = frameId
    BY <1>0, <1>1, <1>10 DEF AppendFrame
  <2>2. held[t] \in Frame /\ held[t].id + 1 = frameId /\ Follows(buffer, evicted, held[t].id)
    BY <1>0, <1>1, <2>1
  <2>3. Follows(buffer', evicted', frameId)
    <3>1. CASE Len(buffer) < QueueMax
      BY <1>0, <1>10, <2>2, <3>1, FollowsAppend DEF AppendFrame
    <3>2. CASE ~(Len(buffer) < QueueMax)
      <4>1. buffer # <<>>
        BY <3>2, Constants, EmptySeq
      <4>2. /\ buffer' = Append(Tail(buffer), held[t])
            /\ evicted' = evicted \cup {Head(buffer)}
        BY <1>10, <3>2 DEF AppendFrame
      <4> QED BY <1>0, <2>2, <4>1, <4>2, FollowsPush
    <3> QED BY <3>1, <3>2
  <2> QED BY <2>1, <2>3 DEF Dense
<1> QED
  BY <1>3, <1>4, <1>5, <1>6, <1>7, <1>8, <1>9, <1>10 DEF Next, ThreadStep

\* Ids without a hole, and older ones gone: what the property says of them.
LEMMA FollowsKept ==
    ASSUME NEW b \in Seq(Frame), NEW e \in SUBSET Frame, NEW n \in Nat,
           Follows(b, e, n)
    PROVE  /\ \A i, j \in DOMAIN b : b[j].id + i = b[i].id + j
           /\ \A f \in e : \A i \in DOMAIN b : f.id < b[i].id
<1>1. Len(b) \in Nat /\ DOMAIN b = 1..Len(b)
  BY LenProperties
<1>2. ASSUME NEW i \in DOMAIN b, NEW j \in DOMAIN b
      PROVE  b[j].id + i = b[i].id + j
  <2>1. PICK x \in Nat, y \in Nat : x = b[i].id /\ y = b[j].id
    BY IdsAreNumbers
  <2>2. x + Len(b) + 1 = n + i /\ y + Len(b) + 1 = n + j /\ i \in Nat /\ j \in Nat
    BY <1>1, <2>1 DEF Follows
  <2>3. y + i = x + j
    BY <1>1, <2>2
  <2> QED BY <2>1, <2>3
<1>3. ASSUME NEW f \in e, NEW i \in DOMAIN b
      PROVE  f.id < b[i].id
  <2>1. PICK x \in Nat, y \in Nat : x = b[i].id /\ y = f.id
    BY IdsAreNumbers DEF Frame
  <2>2. x + Len(b) + 1 = n + i /\ y + Len(b) < n /\ i \in Nat /\ i > 0
    BY <1>1, <2>1 DEF Follows
  <2>3. y < x
    BY <1>1, <2>2
  <2> QED BY <2>1, <2>3
<1> QED BY <1>2, <1>3

\* Without the conditional put the deque always holds the newest frames,
\* consecutive ids, and what was pushed out is older, for every queue size.
THEOREM NewestKeptCorrect == Spec => []NewestKept
<1>1. IInv /\ Dense => NewestKept
  <2> SUFFICES ASSUME IInv, Dense, ~useConditionalPut, ~overlapped
               PROVE  /\ \A i, j \in DOMAIN buffer : buffer[j].id + i = buffer[i].id + j
                      /\ \A f \in evicted : \A i \in DOMAIN buffer : f.id < buffer[i].id
    BY DEF NewestKept
  <2>1. \E n \in Nat : Follows(buffer, evicted, n)
    BY DEF IInv, TypeOK, Dense, Frame
  <2> QED BY <2>1, FollowsKept DEF IInv, TypeOK
<1>2. IInv /\ Dense /\ [Next]_vars => Dense'
  BY DenseNext
<1> QED BY <1>1, <1>2, DenseInit, IInvCorrect, PTL DEF Spec

-----------------------------------------------------------------------------
\* Where the frames that were put are. In flight: put, not appended yet.
Everywhere == InFlight \cup Range(buffer) \cup Range(delivered) \cup evicted

\* No frame is in two hands, twice in the deque, or in two places before it is
\* delivered, and no thread runs that was not started. With these the sum of
\* EveryPutAccounted counts each frame once.
Apart ==
    /\ \A t \in Threads : t > starts => pc[t] = "off"
    /\ \A t, u \in Threads :
         pc[t] = "append" /\ pc[u] = "append" /\ held[t] = held[u] => t = u
    /\ IsInjective(buffer)
    /\ Range(buffer) \cap evicted = {}
    /\ InFlight \cap (Range(buffer) \cup evicted) = {}
    /\ IsFiniteSet(InFlight) /\ IsFiniteSet(evicted)

Accounted == Apart /\ EveryPutAccounted

LEMMA InRange ==
    ASSUME NEW s, NEW x
    PROVE  x \in Range(s) <=> \E i \in DOMAIN s : x = s[i]
BY DEF Range

\* A frame joins a sequence.
LEMMA RangeAppend ==
    ASSUME NEW s \in Seq(Frame), NEW f \in Frame
    PROVE  /\ Range(Append(s, f)) = Range(s) \cup {f}
           /\ IsInjective(s) /\ f \notin Range(s) => IsInjective(Append(s, f))
<1> DEFINE r == Append(s, f)
<1>1. /\ Len(s) \in Nat /\ DOMAIN s = 1..Len(s) /\ DOMAIN r = 1..(Len(s) + 1)
      /\ \A i \in 1..Len(s) : r[i] = s[i]
      /\ r[Len(s) + 1] = f
  BY AppendProperties, LenProperties
<1> HIDE DEF r
<1>2. \A i \in DOMAIN r : i \in DOMAIN s \/ i = Len(s) + 1
  BY <1>1
<1>3. DOMAIN s \subseteq DOMAIN r /\ Len(s) + 1 \in DOMAIN r
  BY <1>1
<1>4. \A x : x \in Range(r) <=> x \in Range(s) \/ x = f
  BY <1>1, <1>2, <1>3, InRange
<1>5. ASSUME IsInjective(s), f \notin Range(s), NEW i \in DOMAIN r, NEW j \in DOMAIN r,
             r[i] = r[j]
      PROVE  i = j
  BY <1>1, <1>2, <1>5, InRange DEF IsInjective
<1>6. IsInjective(s) /\ f \notin Range(s) => IsInjective(r)
  BY <1>5 DEF IsInjective
<1>7. Range(r) = Range(s) \cup {f}
  BY <1>4
<1> QED BY <1>6, <1>7 DEF r

\* The oldest frame leaves a sequence that holds it once.
LEMMA RangeTail ==
    ASSUME NEW s \in Seq(Frame), s # <<>>
    PROVE  /\ Range(s) = Range(Tail(s)) \cup {Head(s)}
           /\ IsInjective(s) => IsInjective(Tail(s)) /\ Head(s) \notin Range(Tail(s))
<1> DEFINE r == Tail(s)
<1>1. Len(s) \in Nat \ {0} /\ DOMAIN s = 1..Len(s)
  BY EmptySeq, LenProperties
<1>2. /\ r \in Seq(Frame) /\ Len(r) = Len(s) - 1
      /\ \A i \in 1..Len(r) : r[i] = s[i + 1]
  BY HeadTailProperties
<1>3. Head(s) = s[1] /\ 1 \in DOMAIN s
  BY <1>1
<1>4. DOMAIN r = 1..(Len(s) - 1)
  BY <1>2, LenProperties
<1> HIDE DEF r
<1>5. \A i \in DOMAIN r : i \in Nat /\ i > 0 /\ i + 1 \in DOMAIN s /\ r[i] = s[i + 1]
  BY <1>1, <1>2, <1>4
<1>6. \A i \in DOMAIN s : i = 1 \/ (i - 1 \in DOMAIN r /\ r[i - 1] = s[i])
  <2> SUFFICES ASSUME NEW i \in DOMAIN s, i # 1
               PROVE  i - 1 \in DOMAIN r /\ r[i - 1] = s[i]
    OBVIOUS
  <2>1. i - 1 \in DOMAIN r /\ (i - 1) + 1 = i
    BY <1>1, <1>4
  <2> QED BY <1>5, <2>1
<1>7. \A x : x \in Range(s) <=> x \in Range(r) \/ x = Head(s)
  BY <1>3, <1>5, <1>6, InRange
<1>8. ASSUME IsInjective(s)
      PROVE  IsInjective(r) /\ Head(s) \notin Range(r)
  <2>1. \A i, j \in DOMAIN s : s[i] = s[j] => i = j
    BY <1>8 DEF IsInjective
  <2>2. ASSUME NEW i \in DOMAIN r, NEW j \in DOMAIN r, r[i] = r[j]
        PROVE  i = j
    <3>1. i + 1 = j + 1 /\ i \in Nat /\ j \in Nat
      BY <1>5, <2>1, <2>2
    <3> QED BY <3>1
  <2>3. ASSUME NEW i \in DOMAIN r
        PROVE  Head(s) # r[i]
    <3>1. i \in Nat /\ i > 0 /\ i + 1 \in DOMAIN s /\ r[i] = s[i + 1]
      BY <1>5
    <3>2. i + 1 # 1
      BY <3>1
    <3> QED BY <1>3, <2>1, <3>1, <3>2
  <2> QED BY <2>2, <2>3, InRange DEF IsInjective
<1>9. Range(s) = Range(r) \cup {Head(s)}
  BY <1>7
<1> QED BY <1>8, <1>9 DEF r

\* A frame is in flight in the hand of a thread about to append it.
LEMMA InFlightIs ==
    \A x : x \in InFlight <=> \E t \in Threads : pc[t] = "append" /\ x = held[t]
BY DEF InFlight

LEMMA InFlightNextIs ==
    \A x : x \in InFlight' <=> \E t \in Threads : pc'[t] = "append" /\ x = held'[t]
BY DEF InFlight

Refs(S) == {f.ref : f \in S}

LEMMA AccountedInit == Init => Accounted
<1> SUFFICES ASSUME Init PROVE Accounted
  OBVIOUS
<1>1. DOMAIN buffer = {} /\ DOMAIN delivered = {} /\ Len(buffer) = 0 /\ Len(delivered) = 0
  BY EmptySeq, LenProperties DEF Init
<1>2. \A x : x \notin InFlight
  BY InFlightIs DEF Init
<1>3. InFlight = {} /\ Range(buffer) = {} /\ Range(delivered) = {} /\ evicted = {}
  BY <1>1, <1>2 DEF Init, Range
<1>4. IsFiniteSet({}) /\ Cardinality({}) = 0
  BY FS_EmptySet
<1>5. Apart
  BY <1>1, <1>3, <1>4 DEF Init, Apart, IsInjective
<1>6. EveryPutAccounted
  <2>1. {f.ref : f \in InFlight \cup Range(buffer) \cup Range(delivered) \cup evicted} = {}
    BY <1>3
  <2>2. 1..puts = {} /\ puts = 0
    BY DEF Init
  <2>3. Cardinality(InFlight) = 0 /\ Cardinality(evicted) = 0
    BY <1>3, <1>4
  <2>4. Cardinality(InFlight) + Len(buffer) + Len(delivered)
          + Cardinality(evicted) = puts
    BY <1>1, <2>2, <2>3
  <2>5. {f.ref : f \in InFlight \cup Range(buffer) \cup Range(delivered)
                         \cup evicted} = 1..puts
    BY <2>1, <2>2
  <2> QED BY <2>4, <2>5 DEF EveryPutAccounted
<1> QED BY <1>5, <1>6 DEF Accounted

LEMMA AccountedNext == TypeOK /\ Accounted /\ [Next]_vars => Accounted'
<1> SUFFICES ASSUME TypeOK, Accounted, [Next]_vars PROVE Accounted'
  OBVIOUS
<1>0. /\ pc \in [Threads -> Locations] /\ held \in [Threads -> Frame]
      /\ puts \in Nat /\ buffer \in Seq(Frame) /\ delivered \in Seq(Frame)
      /\ Len(buffer) \in Nat /\ Len(delivered) \in Nat
      /\ evicted \in SUBSET Frame /\ starts \in Nat
      /\ \A t \in Threads : t \in Nat /\ held[t] \in Frame
  BY LenProperties, Constants DEF TypeOK, Threads
<1>1. /\ \A t \in Threads : t > starts => pc[t] = "off"
      /\ \A t, u \in Threads :
           pc[t] = "append" /\ pc[u] = "append" /\ held[t] = held[u] => t = u
      /\ IsInjective(buffer)
      /\ Range(buffer) \cap evicted = {}
      /\ InFlight \cap (Range(buffer) \cup evicted) = {}
      /\ IsFiniteSet(InFlight) /\ IsFiniteSet(evicted)
  BY DEF Accounted, Apart
<1>2. /\ Refs(Everywhere) = 1..puts
      /\ Cardinality(InFlight) \in Nat /\ Cardinality(evicted) \in Nat
      /\ Cardinality(InFlight) + Len(buffer) + Len(delivered) + Cardinality(evicted) = puts
  BY <1>1, FS_CardinalityType DEF Accounted, EveryPutAccounted, Refs, Everywhere
<1>3. \A f \in Everywhere : f.ref \in 1..puts
  BY <1>2 DEF Refs
<1>e. ASSUME Refs(Everywhere') = 1..puts',
             Cardinality(InFlight') + Len(buffer') + Len(delivered')
               + Cardinality(evicted') = puts'
      PROVE  EveryPutAccounted'
  BY <1>e DEF EveryPutAccounted, Refs, Everywhere
\* Steps that neither put nor move a frame.
<1>4. ASSUME UNCHANGED <<buffer, delivered, evicted, puts>>,
             \A u \in Threads :
               /\ pc'[u] = "append" <=> pc[u] = "append"
               /\ pc[u] = "append" => held'[u] = held[u]
               /\ u > starts' => pc'[u] = "off"
      PROVE  Accounted'
  <2>1. \A x : x \in InFlight' <=> x \in InFlight
    BY <1>4, InFlightIs, InFlightNextIs
  <2>2. InFlight' = InFlight
    BY <2>1, SameMembers
  <2>3. Apart'
    BY <1>1, <1>4, <2>2 DEF Apart
  <2>4. Everywhere' = Everywhere
    BY <1>4, <2>2 DEF Everywhere
  <2>5. EveryPutAccounted'
    BY <1>2, <1>4, <1>e, <2>2, <2>4
  <2> QED BY <2>3, <2>5 DEF Accounted
<1>5. CASE StartStreaming
  <2>1. starts + 1 \in Threads /\ pc[starts + 1] = "off"
    <3>1. starts + 1 \in Threads
      BY <1>0, <1>5, Constants DEF StartStreaming, Threads
    <3> QED BY <1>0, <1>1, <3>1
  <2> QED BY <1>0, <1>1, <1>4, <1>5, <2>1 DEF StartStreaming
<1>6. CASE Stop \/ UNCHANGED vars
  BY <1>1, <1>4, <1>6 DEF Stop, vars
<1>7. CASE GetFrame
  <2>1. CASE buffer = <<>> /\ UNCHANGED vars
    BY <1>1, <1>4, <2>1 DEF vars
  <2>2. CASE /\ buffer # <<>>
             /\ delivered' = Append(delivered, Head(buffer))
             /\ buffer' = Tail(buffer)
             /\ UNCHANGED <<pc, held, puts, evicted, starts>>
    <3> DEFINE h == Head(buffer)
    <3>1. h \in Frame /\ Len(buffer') = Len(buffer) - 1
      BY <1>0, <2>2, HeadTailProperties
    <3>2. /\ Range(buffer) = Range(buffer') \cup {h}
          /\ IsInjective(buffer') /\ h \notin Range(buffer')
      BY <1>0, <1>1, <2>2, RangeTail
    <3>3. Range(delivered') = Range(delivered) \cup {h}
      BY <1>0, <2>2, <3>1, RangeAppend
    <3>4. Len(delivered') = Len(delivered) + 1
      BY <1>0, <2>2, <3>1, AppendProperties
    <3> HIDE DEF h
    <3>5. InFlight' = InFlight
      BY <2>2 DEF InFlight
    <3>6. Apart'
      BY <1>1, <2>2, <3>2, <3>5 DEF Apart
    <3>7. Everywhere' = Everywhere
      BY <2>2, <3>2, <3>3, <3>5 DEF Everywhere
    <3>8. EveryPutAccounted'
      BY <1>0, <1>2, <1>e, <2>2, <3>1, <3>4, <3>5, <3>7
    <3> QED BY <3>6, <3>8 DEF Accounted
  <2> QED BY <1>7, <2>1, <2>2 DEF GetFrame
<1>8. ASSUME NEW t \in Threads,
             Loop(t) \/ ReadFrameId(t) \/ BumpFrameId(t) \/ CheckFull(t)
      PROVE  Accounted'
  <2>1. /\ UNCHANGED <<buffer, delivered, evicted, puts, starts>>
        /\ pc[t] \in {"loop", "read", "bump", "full"} /\ pc'[t] # "append"
        /\ \A u \in Threads \ {t} : pc'[u] = pc[u] /\ held'[u] = held[u]
    BY <1>0, <1>8 DEF Loop, ReadFrameId, BumpFrameId, CheckFull
  <2> QED BY <1>1, <1>4, <2>1
<1>9. ASSUME NEW t \in Threads, Put(t)
      PROVE  Accounted'
  <2> DEFINE f == held'[t]
  <2>1. /\ f = [held[t] EXCEPT !.ref = puts + 1]
        /\ UNCHANGED <<buffer, delivered, evicted, starts>>
        /\ puts' = puts + 1
        /\ pc[t] = "put" /\ pc'[t] = "append"
        /\ \A u \in Threads \ {t} : pc'[u] = pc[u] /\ held'[u] = held[u]
    BY <1>0, <1>9 DEF Put
  <2>2. f.ref = puts + 1
    BY <1>0, <2>1 DEF Frame
  <2>3. f \notin Everywhere
    BY <1>0, <1>3, <2>2
  <2>4. \A u \in Threads \ {t} : pc[u] = "append" => held[u] # f
    BY <2>3, InFlightIs DEF Everywhere
  <2> HIDE DEF f
  <2>5. \A x : x \in InFlight' <=> x \in InFlight \/ x = f
    BY <2>1, InFlightIs, InFlightNextIs DEF f
  <2>6. InFlight' = InFlight \cup {f}
    BY <2>5
  <2>7. IsFiniteSet(InFlight') /\ Cardinality(InFlight') = Cardinality(InFlight) + 1
    BY <1>1, <2>3, <2>6, FS_AddElement DEF Everywhere
  <2>8. \A u \in Threads \ {t} : pc'[u] = "append" => held'[u] # held'[t]
    BY <2>1, <2>4 DEF f
  <2>9. \A u, v \in Threads :
          pc'[u] = "append" /\ pc'[v] = "append" /\ held'[u] = held'[v] => u = v
    BY <1>1, <2>1, <2>8
  <2>10. Apart'
    BY <1>1, <2>1, <2>3, <2>6, <2>7, <2>9 DEF Apart, Everywhere
  <2>11. Refs(Everywhere') = 1..puts'
    <3>1. Everywhere' = Everywhere \cup {f}
      BY <2>1, <2>6 DEF Everywhere
    <3>2. Refs(Everywhere') = Refs(Everywhere) \cup {puts + 1}
      BY <2>2, <3>1 DEF Refs
    <3> QED BY <1>0, <1>2, <2>1, <3>2
  <2>12. EveryPutAccounted'
    BY <1>0, <1>2, <1>e, <2>1, <2>7, <2>11
  <2> QED BY <2>10, <2>12 DEF Accounted
<1>10. ASSUME NEW t \in Threads, AppendFrame(t)
       PROVE  Accounted'
  <2> DEFINE f == held[t]
  <2>1. /\ UNCHANGED <<delivered, puts, held, starts>>
        /\ pc[t] = "append" /\ pc'[t] = "loop"
        /\ \A u \in Threads \ {t} : pc'[u] = pc[u]
        /\ f \in Frame
    BY <1>0, <1>10 DEF AppendFrame
  <2>2. f \in InFlight /\ f \notin Range(buffer) /\ f \notin evicted
    BY <1>1, <2>1, InFlightIs
  <2>3. \A x : x \in InFlight' <=> x \in InFlight /\ x # f
    BY <1>1, <2>1, InFlightIs, InFlightNextIs
  <2>4. InFlight' = InFlight \ {f}
    BY <2>3, AllButOne
  <2> HIDE DEF f
  <2>5. IsFiniteSet(InFlight') /\ Cardinality(InFlight') = Cardinality(InFlight) - 1
    BY <1>1, <2>2, <2>4, FS_RemoveElement
  <2>6. /\ \A u \in Threads : u > starts' => pc'[u] = "off"
        /\ \A u, v \in Threads :
             pc'[u] = "append" /\ pc'[v] = "append" /\ held'[u] = held'[v] => u = v
    BY <1>1, <2>1
  <2>7. CASE Len(buffer) < QueueMax
    <3>1. buffer' = Append(buffer, f) /\ evicted' = evicted
      BY <1>10, <2>7 DEF AppendFrame, f
    <3>2. /\ Range(buffer') = Range(buffer) \cup {f} /\ IsInjective(buffer')
          /\ Len(buffer') = Len(buffer) + 1
      BY <1>0, <1>1, <2>1, <2>2, <3>1, RangeAppend, AppendProperties
    <3>3. Apart'
      BY <1>1, <2>2, <2>4, <2>5, <2>6, <3>1, <3>2 DEF Apart
    <3>4. Everywhere' = Everywhere
      BY <2>1, <2>2, <2>4, <3>1, <3>2 DEF Everywhere
    <3>5. EveryPutAccounted'
      BY <1>0, <1>2, <1>e, <2>1, <2>5, <3>1, <3>2, <3>4
    <3> QED BY <3>3, <3>5 DEF Accounted
  <2>8. CASE ~(Len(buffer) < QueueMax)
    <3> DEFINE h == Head(buffer)
               rest == Tail(buffer)
    <3>1. buffer # <<>>
      BY <2>8, Constants, EmptySeq
    <3>2. /\ rest \in Seq(Frame) /\ Len(rest) = Len(buffer) - 1
          /\ Range(buffer) = Range(rest) \cup {h}
          /\ IsInjective(rest) /\ h \notin Range(rest)
      BY <1>0, <1>1, <3>1, RangeTail, HeadTailProperties
    <3>3. buffer' = Append(rest, f) /\ evicted' = evicted \cup {h}
      BY <1>10, <2>8 DEF AppendFrame, f
    <3> HIDE DEF h, rest
    <3>4. /\ Range(buffer') = Range(rest) \cup {f} /\ IsInjective(buffer')
          /\ Len(buffer') = Len(buffer)
      <4>1. f \notin Range(rest)
        BY <2>2, <3>2
      <4> QED BY <1>0, <2>1, <3>2, <3>3, <4>1, RangeAppend, AppendProperties
    <3>5. IsFiniteSet(evicted') /\ Cardinality(evicted') = Cardinality(evicted) + 1
      BY <1>1, <3>2, <3>3, FS_AddElement
    <3>6. Apart'
      BY <1>1, <2>2, <2>4, <2>5, <2>6, <3>2, <3>3, <3>4, <3>5 DEF Apart
    <3>7. Everywhere' = Everywhere
      BY <2>1, <2>2, <2>4, <3>2, <3>3, <3>4 DEF Everywhere
    <3>8. EveryPutAccounted'
      BY <1>0, <1>2, <1>e, <2>1, <2>5, <3>4, <3>5, <3>7
    <3> QED BY <3>6, <3>8 DEF Accounted
  <2> QED BY <2>7, <2>8
<1> QED
  BY <1>5, <1>6, <1>7, <1>8, <1>9, <1>10 DEF Next, ThreadStep

\* Every object that was put is in exactly one place, for every queue size and
\* any number of threads that overlap: none leaks, none is handed out twice.
THEOREM EveryPutAccountedCorrect == Spec => []EveryPutAccounted
<1>1. Accounted => EveryPutAccounted
  BY DEF Accounted
<1> QED BY <1>1, AccountedInit, AccountedNext, TypeCorrect, PTL DEF Spec

-----------------------------------------------------------------------------
\* The conditional stream beside the unconditional one (ConditionalPut).

\* p, the ids in the unconditional deque, is increasing and below n.
Rising(p, n) ==
    /\ \A i, j \in DOMAIN p : i < j => p[i] < p[j]
    /\ \A i \in DOMAIN p : p[i] < n

\* The deques are as long as each other, and the frames of the conditional
\* one are place by place no fresher.
Matched(b, p) ==
    /\ Len(b) = Len(p)
    /\ \A i \in DOMAIN b : b[i].id <= p[i]

Supply ==
    /\ useConditionalPut
    /\ plain \in Seq(Nat)
    /\ plainDelivered \in Seq(Nat)
    /\ ~overlapped =>
        /\ Matched(buffer, plain)
        /\ Len(delivered) = Len(plainDelivered)
        /\ Rising(plain, frameId)
        /\ \A t \in Threads :
             pc[t] \in {"full", "put", "append"} => Rising(plain, held[t].id)

\* A frame newer than all may join the unconditional deque.
LEMMA RisingAppend ==
    ASSUME NEW p \in Seq(Nat), NEW n \in Nat, NEW m \in Nat, n < m, Rising(p, n)
    PROVE  Rising(Append(p, n), m)
<1> DEFINE q == Append(p, n)
<1>1. /\ Len(p) \in Nat
      /\ DOMAIN p = 1..Len(p)
      /\ DOMAIN q = 1..(Len(p) + 1)
      /\ \A i \in 1..Len(p) : q[i] = p[i] /\ p[i] \in Nat
      /\ q[Len(p) + 1] = n
  BY AppendProperties, LenProperties
<1> HIDE DEF q
<1>2. ASSUME NEW i \in DOMAIN q, NEW j \in DOMAIN q, i < j
      PROVE  q[i] < q[j]
  <2>1. CASE j = Len(p) + 1
    BY <1>1, <1>2, <2>1 DEF Rising
  <2>2. CASE j # Len(p) + 1
    BY <1>1, <1>2, <2>2 DEF Rising
  <2> QED BY <2>1, <2>2
<1>3. ASSUME NEW i \in DOMAIN q PROVE q[i] < m
  BY <1>1 DEF Rising
<1> QED BY <1>2, <1>3 DEF Rising, q

\* Without its oldest id it stays in order.
LEMMA RisingTail ==
    ASSUME NEW p \in Seq(Nat), p # <<>>, NEW n \in Nat, Rising(p, n)
    PROVE  Tail(p) \in Seq(Nat) /\ Rising(Tail(p), n)
<1>1. \A i \in DOMAIN Tail(p) :
        i \in Nat /\ i + 1 \in DOMAIN p /\ Tail(p)[i] = p[i + 1]
  BY HeadTailProperties, LenProperties
<1>2. Tail(p) \in Seq(Nat)
  BY HeadTailProperties
<1>3. ASSUME NEW i \in DOMAIN Tail(p), NEW j \in DOMAIN Tail(p), i < j
      PROVE  Tail(p)[i] < Tail(p)[j]
  <2>1. i + 1 \in DOMAIN p /\ j + 1 \in DOMAIN p /\ i + 1 < j + 1
    BY <1>1, <1>3
  <2>2. p[i + 1] < p[j + 1]
    BY <2>1 DEF Rising
  <2> QED BY <1>1, <2>2
<1>4. \A i \in DOMAIN Tail(p) : Tail(p)[i] < n
  BY <1>1 DEF Rising
<1> QED BY <1>2, <1>3, <1>4 DEF Rising

LEMMA RisingMore ==
    ASSUME NEW p \in Seq(Nat), NEW n \in Nat, NEW m \in Nat, n <= m, Rising(p, n)
    PROVE  Rising(p, m)
<1>1. \A i \in DOMAIN p : p[i] \in Nat
  BY LenProperties
<1> QED BY <1>1 DEF Rising

\* get_frame finds both deques empty, or takes one frame from each.
LEMMA MatchedTail ==
    ASSUME NEW b \in Seq(Frame), NEW p \in Seq(Nat), b # <<>>, Matched(b, p)
    PROVE  p # <<>> /\ Matched(Tail(b), Tail(p))
<1>1. Len(b) \in Nat /\ Len(b) # 0 /\ Len(p) = Len(b) /\ p # <<>>
  BY EmptySeq, LenProperties DEF Matched
<1>2. /\ Len(Tail(b)) = Len(b) - 1 /\ Len(Tail(p)) = Len(b) - 1
      /\ \A i \in DOMAIN Tail(b) :
           /\ i + 1 \in DOMAIN b
           /\ Tail(b)[i] = b[i + 1] /\ Tail(p)[i] = p[i + 1]
  BY <1>1, HeadTailProperties, LenProperties
<1> QED BY <1>1, <1>2 DEF Matched

\* Both streams append the frame.
LEMMA MatchedAppend ==
    ASSUME NEW b \in Seq(Frame), NEW p \in Seq(Nat), NEW f \in Frame, Matched(b, p)
    PROVE  Matched(Append(b, f), Append(p, f.id))
<1> DEFINE c == Append(b, f)
           q == Append(p, f.id)
<1>1. f.id \in Nat /\ Len(b) \in Nat /\ Len(p) = Len(b)
  BY LenProperties DEF Matched, Frame
<1>2. /\ DOMAIN b = 1..Len(b) /\ DOMAIN c = 1..(Len(b) + 1)
      /\ Len(c) = Len(b) + 1 /\ Len(q) = Len(b) + 1
      /\ c[Len(b) + 1] = f /\ q[Len(b) + 1] = f.id
      /\ \A i \in 1..Len(b) : c[i] = b[i] /\ q[i] = p[i]
  BY <1>1, AppendProperties, LenProperties
<1> HIDE DEF c, q
<1>3. ASSUME NEW i \in DOMAIN c PROVE c[i].id <= q[i]
  <2>1. CASE i = Len(b) + 1
    BY <1>1, <1>2, <2>1
  <2>2. CASE i \in DOMAIN b
    BY <1>2, <2>2 DEF Matched
  <2> QED BY <1>1, <1>2, <2>1, <2>2
<1> QED BY <1>2, <1>3 DEF Matched, c, q

\* The conditional stream passes the frame over where the unconditional one
\* pushes its oldest frame out for it.
LEMMA MatchedOver ==
    ASSUME NEW b \in Seq(Frame), NEW p \in Seq(Nat), b # <<>>, NEW n \in Nat,
           Matched(b, p), Rising(p, n)
    PROVE  Matched(b, Append(Tail(p), n))
<1> DEFINE r == Tail(p)
           q == Append(r, n)
<1>1. /\ Len(b) \in Nat /\ Len(b) > 0 /\ Len(p) = Len(b) /\ p # <<>>
      /\ DOMAIN b = 1..Len(b) /\ DOMAIN p = 1..Len(b)
  BY EmptySeq, LenProperties DEF Matched
<1>2. r \in Seq(Nat) /\ Len(r) = Len(b) - 1 /\ \A i \in 1..(Len(b) - 1) : r[i] = p[i + 1]
  BY <1>1, HeadTailProperties
<1> HIDE DEF r
<1>3. Len(q) = Len(r) + 1 /\ q[Len(r) + 1] = n /\ \A i \in 1..Len(r) : q[i] = r[i]
  BY <1>2, AppendProperties
<1> HIDE DEF q
<1>4. /\ Len(q) = Len(b) /\ q[Len(b)] = n
      /\ \A i \in 1..(Len(b) - 1) : q[i] = p[i + 1]
  BY <1>1, <1>2, <1>3
<1>5. ASSUME NEW i \in DOMAIN b PROVE b[i].id <= q[i]
  <2>1. PICK x \in Nat : x = b[i].id
    BY IdsAreNumbers
  <2>2. PICK y \in Nat : y = p[i]
    BY <1>1, ElementOfSeq
  <2>3. x <= y /\ y < n
    BY <1>1, <2>1, <2>2 DEF Matched, Rising
  <2>4. CASE i = Len(b)
    BY <1>4, <2>1, <2>3, <2>4
  <2>5. CASE i # Len(b)
    <3>1. i \in Nat /\ i < i + 1 /\ i + 1 \in DOMAIN p /\ i \in DOMAIN p
      BY <1>1, <2>5
    <3>2. PICK z \in Nat : z = p[i + 1]
      BY <1>1, <3>1, ElementOfSeq
    <3>3. y < z
      BY <2>2, <3>1, <3>2 DEF Rising
    <3>4. x <= z
      BY <2>3, <3>3
    <3>5. q[i] = z
      BY <1>1, <1>4, <2>5, <3>2
    <3> QED BY <2>1, <3>4, <3>5
  <2> QED BY <2>4, <2>5
<1> QED BY <1>4, <1>5 DEF Matched, q, r

\* Beside the unconditional deque the actor behaves as it does alone.
LEMMA LockstepIsStream == [LockstepNext]_allVars => [Next]_vars
<1> SUFFICES ASSUME [LockstepNext]_allVars PROVE [Next]_vars
  OBVIOUS
<1>1. CASE LockstepGetFrame
  BY <1>1 DEF LockstepGetFrame, Next
<1>2. CASE \E t \in Threads : LockstepCheckFull(t) \/ LockstepAppend(t)
  BY <1>2 DEF LockstepCheckFull, LockstepAppend, Next, ThreadStep
<1>3. CASE \/ StartStreaming
           \/ Stop
           \/ \E t \in Threads : Loop(t) \/ ReadFrameId(t) \/ BumpFrameId(t) \/ Put(t)
  BY <1>3 DEF Next, ThreadStep
<1>4. CASE UNCHANGED allVars
  BY <1>4 DEF allVars, vars
<1> QED BY <1>1, <1>2, <1>3, <1>4 DEF LockstepNext

THEOREM LockstepInv == LockstepSpec => []IInv
<1>1. IInv /\ [Next]_vars => IInv'
  BY TypeNext, OneThreadNext, RoomReservedNext, OrderNext DEF IInv
<1>2. LockstepInit => Init
  BY DEF LockstepInit
<1> QED BY <1>1, <1>2, IInvInit, LockstepIsStream, PTL DEF LockstepSpec

LEMMA SupplyInit == LockstepInit => Supply
<1> SUFFICES ASSUME LockstepInit PROVE Supply
  OBVIOUS
<1>1. /\ DOMAIN buffer = {} /\ DOMAIN plain = {} /\ Len(buffer) = Len(plain)
      /\ Len(delivered) = Len(plainDelivered)
      /\ plain \in Seq(Nat) /\ plainDelivered \in Seq(Nat)
  BY EmptySeq, LenProperties DEF LockstepInit, Init
<1>2. Matched(buffer, plain) /\ Rising(plain, frameId)
  BY <1>1 DEF Matched, Rising
<1> QED BY <1>1, <1>2 DEF LockstepInit, Init, Supply

LEMMA SupplyNext == IInv /\ IInv' /\ Supply /\ [LockstepNext]_allVars => Supply'
<1> SUFFICES ASSUME IInv, IInv', Supply, [LockstepNext]_allVars PROVE Supply'
  OBVIOUS
<1>0. /\ pc \in [Threads -> Locations] /\ held \in [Threads -> Frame]
      /\ frameId \in Nat /\ buffer \in Seq(Frame) /\ delivered \in Seq(Frame)
      /\ \A u \in Threads : held[u] \in Frame /\ held[u].id \in Nat
      /\ QueueMax \in Nat /\ QueueMax > 0
      /\ Len(buffer) \in Nat
  BY LenProperties, Constants DEF IInv, TypeOK, Frame
<1>1. /\ plain \in Seq(Nat) /\ plainDelivered \in Seq(Nat) /\ Len(plain) \in Nat
      /\ useConditionalPut /\ useConditionalPut'
      /\ (plain = <<>> <=> Len(plain) = 0) /\ (buffer = <<>> <=> Len(buffer) = 0)
  BY <1>0, LenProperties, EmptySeq, LockstepIsStream, FlagStays DEF Supply
<1>2. ~overlapped' => ~overlapped
  BY LockstepIsStream, OverlapStays
<1>3. ~overlapped =>
        /\ Matched(buffer, plain) /\ Len(buffer) = Len(plain)
        /\ Len(delivered) = Len(plainDelivered)
        /\ Rising(plain, frameId)
        /\ \A u \in Threads :
             /\ pc[u] = "bump" => held[u].id = frameId
             /\ pc[u] \in {"full", "put", "append"} =>
                  held[u].id < frameId /\ Rising(plain, held[u].id)
             /\ pc[u] \in {"put", "append"} => Len(buffer) < QueueMax
        /\ \A t, u \in Threads : pc[t] # "off" /\ pc[u] # "off" => t = u
  BY <1>1 DEF IInv, Order, OneThread, RoomReserved, Supply, Matched
<1>4. CASE UNCHANGED allVars
  BY <1>4 DEF Supply, allVars
<1>5. CASE LockstepGetFrame
  <2>1. CASE buffer = <<>> /\ UNCHANGED vars /\ plain = <<>>
    BY <1>1, <1>3, <1>5, <2>1 DEF LockstepGetFrame, vars, Supply
  <2>2. CASE /\ UNCHANGED vars /\ plain # <<>>
             /\ plainDelivered' = Append(plainDelivered, Head(plain))
             /\ plain' = Tail(plain)
             /\ buffer = <<>>
    <3>1. plain' \in Seq(Nat) /\ plainDelivered' \in Seq(Nat)
      BY <1>1, <2>2, HeadTailProperties, AppendProperties
    <3>2. overlapped'
      BY <1>1, <1>2, <1>3, <2>2
    <3> QED BY <1>1, <3>1, <3>2 DEF Supply
  <2>3. CASE /\ buffer # <<>>
             /\ delivered' = Append(delivered, Head(buffer))
             /\ buffer' = Tail(buffer)
             /\ UNCHANGED <<pc, held, frameId, overlapped>>
             /\ plain = <<>> /\ UNCHANGED <<plain, plainDelivered>>
    <3>1. overlapped'
      BY <1>1, <1>2, <1>3, <2>3
    <3> QED BY <1>1, <2>3, <3>1 DEF Supply
  <2>4. CASE /\ buffer # <<>>
             /\ delivered' = Append(delivered, Head(buffer))
             /\ buffer' = Tail(buffer)
             /\ UNCHANGED <<pc, held, frameId, overlapped>>
             /\ plain # <<>>
             /\ plainDelivered' = Append(plainDelivered, Head(plain))
             /\ plain' = Tail(plain)
    <3>1. Head(plain) \in Nat /\ Head(buffer) \in Frame /\ plain' \in Seq(Nat)
      BY <1>0, <1>1, <2>4, HeadTailProperties
    <3>2. /\ plainDelivered' \in Seq(Nat)
          /\ Len(plainDelivered') = Len(plainDelivered) + 1
          /\ Len(delivered') = Len(delivered) + 1
      BY <1>0, <1>1, <2>4, <3>1, AppendProperties
    <3>3. ~overlapped =>
            /\ Matched(buffer', plain')
            /\ Rising(plain', frameId)
            /\ \A u \in Threads :
                 pc[u] \in {"full", "put", "append"} => Rising(plain', held[u].id)
      BY <1>0, <1>1, <1>3, <2>4, MatchedTail, RisingTail
    <3> QED BY <1>1, <1>3, <2>4, <3>1, <3>2, <3>3 DEF Supply
  <2> QED BY <1>5, <2>1, <2>2, <2>3, <2>4 DEF LockstepGetFrame, GetFrame, vars
<1>6. ASSUME NEW t \in Threads, LockstepCheckFull(t) PROVE Supply'
  <2>1. /\ UNCHANGED <<buffer, delivered, frameId, held, overlapped, plainDelivered>>
        /\ \A u \in Threads \ {t} : pc'[u] = pc[u]
        /\ pc[t] = "full"
    BY <1>0, <1>6 DEF LockstepCheckFull, CheckFull
  <2>2. CASE Len(buffer) < QueueMax
    <3>1. UNCHANGED plain
      BY <1>0, <1>6, <2>2 DEF LockstepCheckFull, CheckFull
    <3> QED BY <1>1, <1>3, <2>1, <3>1 DEF Supply
  <2>3. CASE Len(buffer) >= QueueMax
    <3>1. pc'[t] = "loop" /\ PushPlain(held[t].id)
      BY <1>0, <1>6, <2>3 DEF LockstepCheckFull, CheckFull
    <3>2. CASE Len(plain) < QueueMax
      <4>1. plain' \in Seq(Nat) /\ overlapped
        BY <1>0, <1>1, <1>3, <2>3, <3>1, <3>2, AppendProperties DEF PushPlain
      <4> QED BY <1>1, <2>1, <4>1 DEF Supply
    <3>3. CASE ~(Len(plain) < QueueMax)
      <4>1. plain' = Append(Tail(plain), held[t].id) /\ plain # <<>>
        BY <1>0, <1>1, <3>1, <3>3 DEF PushPlain
      <4>2. Tail(plain) \in Seq(Nat) /\ plain' \in Seq(Nat)
        BY <1>0, <1>1, <4>1, HeadTailProperties, AppendProperties
      <4>3. ASSUME ~overlapped
            PROVE  /\ Matched(buffer, plain')
                   /\ Rising(plain', frameId)
                   /\ \A u \in Threads : pc'[u] \notin {"full", "put", "append"}
        <5>1. Rising(plain, held[t].id) /\ held[t].id < frameId
          BY <1>3, <2>1, <4>3
        <5>2. Matched(buffer, plain')
          BY <1>0, <1>1, <1>3, <2>3, <4>1, <4>3, <5>1, MatchedOver
        <5>3. Rising(Tail(plain), held[t].id)
          BY <1>0, <1>1, <4>1, <5>1, RisingTail
        <5>4. Rising(plain', frameId)
          BY <1>0, <4>1, <4>2, <5>1, <5>3, RisingAppend
        <5>5. \A u \in Threads \ {t} : pc[u] = "off"
          BY <1>3, <2>1, <4>3
        <5> QED BY <2>1, <3>1, <5>2, <5>4, <5>5
      <4> QED BY <1>1, <1>3, <2>1, <4>2, <4>3 DEF Supply
    <3> QED BY <3>2, <3>3
  <2> QED BY <1>0, <2>2, <2>3
<1>7. ASSUME NEW t \in Threads, LockstepAppend(t) PROVE Supply'
  <2>1. /\ UNCHANGED <<delivered, frameId, held, overlapped, plainDelivered>>
        /\ \A u \in Threads \ {t} : pc'[u] = pc[u]
        /\ pc[t] = "append" /\ pc'[t] = "loop" /\ PushPlain(held[t].id)
    BY <1>0, <1>7 DEF LockstepAppend, AppendFrame
  <2>2. plain' \in Seq(Nat)
    <3>1. CASE Len(plain) < QueueMax
      BY <1>0, <1>1, <2>1, <3>1, AppendProperties DEF PushPlain
    <3>2. CASE ~(Len(plain) < QueueMax)
      <4>1. plain' = Append(Tail(plain), held[t].id) /\ plain # <<>>
        BY <1>0, <1>1, <2>1, <3>2 DEF PushPlain
      <4> QED BY <1>0, <1>1, <4>1, HeadTailProperties, AppendProperties
    <3> QED BY <3>1, <3>2
  <2>3. ASSUME ~overlapped
        PROVE  /\ Matched(buffer', plain')
               /\ Rising(plain', frameId)
               /\ \A u \in Threads : pc'[u] \notin {"full", "put", "append"}
    <3>1. /\ Len(buffer) < QueueMax /\ Len(plain) < QueueMax
          /\ Rising(plain, held[t].id) /\ held[t].id < frameId
      BY <1>3, <2>1, <2>3
    <3>2. buffer' = Append(buffer, held[t]) /\ plain' = Append(plain, held[t].id)
      BY <1>7, <2>1, <3>1 DEF LockstepAppend, AppendFrame, PushPlain
    <3>3. Matched(buffer', plain')
      BY <1>0, <1>1, <1>3, <2>3, <3>2, MatchedAppend
    <3>4. Rising(plain', frameId)
      BY <1>0, <1>1, <3>1, <3>2, RisingAppend
    <3>5. \A u \in Threads \ {t} : pc[u] = "off"
      BY <1>3, <2>1, <2>3
    <3> QED BY <2>1, <3>3, <3>4, <3>5
  <2> QED BY <1>1, <1>3, <2>1, <2>2, <2>3 DEF Supply
<1>8. CASE StartStreaming /\ UNCHANGED <<plain, plainDelivered>>
  <2>1. /\ UNCHANGED <<held, frameId, buffer, delivered>>
        /\ \A u \in Threads : pc'[u] = pc[u] \/ pc'[u] = "loop"
    BY <1>0, <1>8 DEF StartStreaming
  <2> QED BY <1>1, <1>2, <1>3, <1>8, <2>1 DEF Supply
<1>9. CASE Stop /\ UNCHANGED <<plain, plainDelivered>>
  BY <1>1, <1>3, <1>9 DEF Stop, Supply
<1>10. ASSUME NEW t \in Threads, Loop(t) \/ ReadFrameId(t),
              UNCHANGED <<plain, plainDelivered>>
       PROVE  Supply'
  <2>1. /\ UNCHANGED <<frameId, buffer, delivered, overlapped>>
        /\ \A u \in Threads \ {t} : pc'[u] = pc[u] /\ held'[u] = held[u]
        /\ pc'[t] \notin {"full", "put", "append"}
    BY <1>0, <1>10 DEF Loop, ReadFrameId
  <2> QED BY <1>1, <1>3, <1>10, <2>1 DEF Supply
<1>11. ASSUME NEW t \in Threads, BumpFrameId(t), UNCHANGED <<plain, plainDelivered>>
       PROVE  Supply'
  <2>1. /\ frameId' = frameId + 1 /\ pc[t] = "bump"
        /\ UNCHANGED <<held, buffer, delivered, overlapped>>
        /\ \A u \in Threads \ {t} : pc'[u] = pc[u]
    BY <1>0, <1>11 DEF BumpFrameId
  <2>2. ASSUME ~overlapped
        PROVE  /\ Rising(plain, frameId')
               /\ \A u \in Threads : pc'[u] \in {"full", "put", "append"} =>
                    Rising(plain, held[u].id)
    <3>1. Rising(plain, frameId')
      BY <1>0, <1>1, <1>3, <2>1, <2>2, RisingMore
    <3>2. \A u \in Threads \ {t} : pc[u] = "off"
      BY <1>3, <2>1, <2>2
    <3>3. held[t].id = frameId /\ Rising(plain, frameId)
      BY <1>3, <2>1, <2>2
    <3> QED BY <2>1, <3>1, <3>2, <3>3
  <2> QED BY <1>1, <1>3, <1>11, <2>1, <2>2 DEF Supply
<1>12. ASSUME NEW t \in Threads, Put(t), UNCHANGED <<plain, plainDelivered>>
       PROVE  Supply'
  <2>1. /\ UNCHANGED <<frameId, buffer, delivered, overlapped>>
        /\ \A u \in Threads \ {t} : pc'[u] = pc[u] /\ held'[u] = held[u]
        /\ pc[t] = "put" /\ held'[t] = [held[t] EXCEPT !.ref = puts + 1]
    BY <1>0, <1>12 DEF Put
  <2>2. held'[t].id = held[t].id
    BY <1>0, <2>1, PutFrame DEF IInv, TypeOK
  <2> QED BY <1>1, <1>3, <1>12, <2>1, <2>2 DEF Supply
<1> QED
  BY <1>4, <1>5, <1>6, <1>7, <1>8, <1>9, <1>10, <1>11, <1>12 DEF LockstepNext

\* For every queue size, the conditional put decides which frames are kept,
\* never how many: until threads overlap the two deques are as long as each
\* other and the conditional stream's frames are never the fresher.
THEOREM SameSupplyCorrect == LockstepSpec => []SameSupply
<1>1. Supply => SameSupply
  BY DEF Supply, Matched, SameSupply
<1>2. LockstepSpec => []Supply
  BY LockstepInv, SupplyInit, SupplyNext, PTL DEF LockstepSpec
<1> QED BY <1>1, <1>2, PTL
=============================================================================
