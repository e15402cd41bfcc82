------------------------ MODULE InferenceServerProofs ------------------------
(***************************************************************************)
(* Two theorems for every number of clients, workers, slots and calls,     *)
(* though calls are given up at any moment: the mock server never has more *)
(* inferences under way than max_concurrency, and a falldown task ends up  *)
(* with the state of its successful calls.                                 *)
(*                                                                         *)
(* SInv adds what ties a call to its client: its ordinal has been given    *)
(* out (CallsMade), and as long as it is waited for it carries the state   *)
(* its client has (Carries).                                               *)
(***************************************************************************)
EXTENDS InferenceServer, TLAPS, FiniteSetTheorems, SequenceTheorems

\* Calls at the server, not answered yet.
Pool == queued \cup atSem \cup running

OpenMade == \A c \in open : made[c] > 0

\* Every slot in use has taken a permit that has not been returned.
PermitsHeld ==
    /\ IsFiniteSet(running)
    /\ mock => Cardinality(running) + permits <= MaxConcurrency

CallsMade == \A r \in Pool \cup replies : r.n <= made[r.client]

\* A falldown call that is waited for has the state of its task, its answer
\* that state with the frame of the call appended.
Carries ==
    /\ \A r \in Pool : r.client \in Chainers /\ Awaited(r) =>
         r.stage = Falldown /\ r.blob = blob[r.client]
    /\ \A r \in replies : r.client \in Chainers /\ Awaited(r) =>
         r.blob = Append(blob[r.client], r.n)

\* The ordinal of the last call of c that has ended.
LastDone(c) == IF c \in open THEN made[c] - 1 ELSE made[c]

FailedDone == \A c \in Clients : failed[c] \subseteq 1..LastDone(c)

Chain == CallsMade /\ Carries /\ FailedDone /\ ChainIsSuccesses

SInv == TypeOK /\ OpenMade /\ PermitsHeld /\ Chain

-----------------------------------------------------------------------------
\* The assumptions on the constants, gathered for citing.
LEMMA Constants ==
    /\ Chainers \subseteq Clients
    /\ MaxConcurrency \in Nat /\ MaxConcurrency > 0
    /\ MaxCalls \in Nat
BY ClientsAssumption, ConcurrencyAssumption, CallsAssumption

\* What the handler answers is a call record again.
LEMMA AnswerIsCall ==
    ASSUME NEW r \in Call
    PROVE  LET answer == [r EXCEPT !.blob = UpdatedState(r)] IN
             /\ answer \in Call
             /\ answer.client = r.client /\ answer.n = r.n
             /\ answer.blob = UpdatedState(r)
<1>1. UpdatedState(r) \in Seq(1..MaxCalls)
  <2>1. r.blob \in Seq(1..MaxCalls) /\ r.n \in 1..MaxCalls
    BY DEF Call
  <2>2. Append(r.blob, r.n) \in Seq(1..MaxCalls)
    BY <2>1, AppendProperties
  <2> QED
    BY <2>1, <2>2 DEF UpdatedState
<1> QED
  BY <1>1 DEF Call

\* What a step of the server does to the calls, whichever step it is.
LEMMA ServerMoves ==
    ASSUME NEW r,
           \/ r \in queued /\ (DropGivenUp(r) \/ TakeWorker(r) \/ StartInstance(r))
           \/ r \in atSem /\ Acquire(r)
           \/ r \in running /\ Finish(r)
    PROVE  /\ UNCHANGED <<clientVars, mock>>
           /\ Pool' \subseteq Pool
           /\ \/ replies' = replies
              \/ /\ r \in running
                 /\ replies' = replies \cup {[r EXCEPT !.blob = UpdatedState(r)]}
<1>1. CASE DropGivenUp(r)
  BY <1>1 DEF DropGivenUp, Pool
<1>2. CASE r \in queued /\ TakeWorker(r)
  BY <1>2 DEF TakeWorker, Pool
<1>3. CASE r \in queued /\ StartInstance(r)
  BY <1>3 DEF StartInstance, Pool
<1>4. CASE r \in atSem /\ Acquire(r)
  BY <1>4 DEF Acquire, Pool
<1>5. CASE r \in running /\ Finish(r)
  BY <1>5 DEF Finish, Pool
<1> QED
  BY <1>1, <1>2, <1>3, <1>4, <1>5

\* SInv holds initially.
LEMMA SInit == Init => SInv
<1> SUFFICES ASSUME Init PROVE SInv
    OBVIOUS
<1>1. IsFiniteSet(running) /\ Cardinality(running) = 0
  BY FS_EmptySet DEF Init
<1>2. blob \in [Clients -> Seq(1..MaxCalls)] /\ \A c \in Clients : DOMAIN blob[c] = {}
  BY EmptySeq DEF Init
<1>3. PermitsHeld /\ OpenMade
  BY <1>1, Constants DEF Init, PermitsHeld, OpenMade
<1>4. TypeOK
  BY <1>2, Constants DEF Init, TypeOK
<1>5. Pool = {} /\ replies = {}
  BY DEF Init, Pool
<1>6. CallsMade /\ Carries /\ FailedDone
  BY <1>5 DEF CallsMade, Carries, FailedDone, Init
<1>7. ChainIsSuccesses
  BY <1>2, Constants DEF Init, ChainIsSuccesses, Range
<1> QED
  BY <1>3, <1>4, <1>6, <1>7 DEF SInv, Chain

-----------------------------------------------------------------------------
\* A slot is taken with a permit: the sum of both stays.
LEMMA SlotTaken ==
    ASSUME TypeOK, PermitsHeld, NEW r, Acquire(r)
    PROVE  PermitsHeld' /\ permits' \in 0..MaxConcurrency
<1>1. /\ permits \in Nat /\ permits > 0 /\ permits' = permits - 1
      /\ running' = running \cup {r} /\ mock /\ mock'
      /\ permits <= MaxConcurrency
  BY Constants DEF Acquire, TypeOK
<1>2. IsFiniteSet(running) /\ Cardinality(running) \in Nat
  BY FS_CardinalityType DEF PermitsHeld
<1>3. /\ IsFiniteSet(running')
      /\ Cardinality(running') = IF r \in running THEN Cardinality(running)
                                                  ELSE Cardinality(running) + 1
  BY <1>1, <1>2, FS_AddElement
<1> QED
  BY <1>1, <1>2, <1>3, Constants DEF PermitsHeld

\* A slot is given back with its permit, whether or not anybody waits for
\* the answer.
LEMMA SlotReturned ==
    ASSUME TypeOK, PermitsHeld, NEW r, Finish(r)
    PROVE  PermitsHeld' /\ permits' \in 0..MaxConcurrency
<1>1. /\ r \in running /\ running' = running \ {r} /\ mock' = mock
      /\ permits' = permits + (IF mock THEN 1 ELSE 0)
      /\ permits \in Nat /\ permits <= MaxConcurrency
  BY Constants DEF Finish, TypeOK
<1>2. IsFiniteSet(running) /\ Cardinality(running) \in Nat
  BY FS_CardinalityType DEF PermitsHeld
<1>3. /\ IsFiniteSet(running')
      /\ Cardinality(running') = Cardinality(running) - 1
  BY <1>1, <1>2, FS_RemoveElement
<1>4. Cardinality(running') \in Nat
  BY <1>3, FS_CardinalityType
<1> QED
  BY <1>1, <1>2, <1>3, <1>4, Constants DEF PermitsHeld

\* Types, and the account of the permits, survive every step.
LEMMA STypeNext ==
    TypeOK /\ OpenMade /\ PermitsHeld /\ [Next]_vars
      => TypeOK' /\ OpenMade' /\ PermitsHeld'
<1> SUFFICES ASSUME TypeOK, OpenMade, PermitsHeld, [Next]_vars
             PROVE  TypeOK' /\ OpenMade' /\ PermitsHeld'
    OBVIOUS
<1>1. ASSUME NEW c \in Clients, NEW stage \in StageOf(c), Request(c, stage)
      PROVE  TypeOK' /\ OpenMade' /\ PermitsHeld'
  <2> DEFINE call == [client |-> c, n |-> made[c] + 1, stage |-> stage,
                      blob |-> blob[c]]
  <2>1. made[c] + 1 \in 1..MaxCalls /\ made[c] + 1 \in 0..MaxCalls
    BY <1>1, Constants DEF Request, TypeOK
  <2>2. stage \in Stages \cup {Falldown}
    BY DEF StageOf
  <2>3. call \in Call
    BY <2>1, <2>2 DEF Call, TypeOK
  <2>4. queued' = queued \cup {call}
    BY <1>1 DEF Request
  <2>5. \A r \in (queued \cup atSem \cup running \cup replies)' : r \in Call
    BY <1>1, <2>3, <2>4 DEF Request, TypeOK
  <2>6. TypeOK'
    BY <1>1, <2>1, <2>5 DEF Request, TypeOK
  <2> QED
    BY <1>1, <2>1, <2>6 DEF Request, TypeOK, OpenMade, PermitsHeld
<1>2. ASSUME NEW c \in Clients, CallFails(c)
      PROVE  TypeOK' /\ OpenMade' /\ PermitsHeld'
  <2>1. made[c] \in 1..MaxCalls
    BY <1>2, Constants DEF CallFails, OpenMade, TypeOK
  <2> QED
    BY <1>2, <2>1 DEF CallFails, serverVars, TypeOK, OpenMade, PermitsHeld
<1>3. ASSUME NEW r \in queued, DropGivenUp(r) \/ TakeWorker(r)
      PROVE  TypeOK' /\ OpenMade' /\ PermitsHeld'
  BY <1>3 DEF DropGivenUp, TakeWorker, clientVars, TypeOK, OpenMade, PermitsHeld
<1>4. ASSUME NEW r \in queued, StartInstance(r)
      PROVE  TypeOK' /\ OpenMade' /\ PermitsHeld'
  <2>1. IsFiniteSet(running') /\ ~mock'
    BY <1>4, FS_AddElement DEF StartInstance, PermitsHeld
  <2> QED
    BY <1>4, <2>1 DEF StartInstance, clientVars, TypeOK, OpenMade, PermitsHeld
<1>5. ASSUME NEW r \in atSem, Acquire(r)
      PROVE  TypeOK' /\ OpenMade' /\ PermitsHeld'
  BY <1>5, SlotTaken DEF Acquire, clientVars, TypeOK, OpenMade
<1>6. ASSUME NEW r \in running, Finish(r)
      PROVE  TypeOK' /\ OpenMade' /\ PermitsHeld'
  <2>1. [r EXCEPT !.blob = UpdatedState(r)] \in Call
    BY AnswerIsCall DEF TypeOK
  <2> QED
    BY <1>6, <2>1, SlotReturned DEF Finish, clientVars, TypeOK, OpenMade
<1>7. ASSUME NEW r \in replies, Deliver(r)
      PROVE  TypeOK' /\ OpenMade' /\ PermitsHeld'
  <2>1. r.client \in Clients /\ r.blob \in Seq(1..MaxCalls)
    BY DEF TypeOK, Call
  <2> QED
    BY <1>7, <2>1 DEF Deliver, serverVars, TypeOK, OpenMade, PermitsHeld
<1>8. CASE UNCHANGED vars
  BY <1>8 DEF vars, clientVars, serverVars, TypeOK, OpenMade, PermitsHeld
<1> QED
  BY <1>1, <1>2, <1>3, <1>4, <1>5, <1>6, <1>7, <1>8 DEF Next

-----------------------------------------------------------------------------
\* Facts about the records and numbers the invariant speaks of.
LEMMA CallTypes ==
    ASSUME TypeOK
    PROVE  /\ \A r \in Pool \cup replies : r \in Call /\ r.client \in Clients /\ r.n \in Nat
           /\ \A c \in Clients : made[c] \in Nat /\ LastDone(c) \in Int
<1>1. \A r \in Call : r.client \in Clients /\ r.n \in Nat
  BY DEF Call
<1>2. \A c \in Clients : made[c] \in Nat
  BY Constants DEF TypeOK
<1> QED
  BY <1>1, <1>2 DEF TypeOK, Pool, LastDone

\* A call just made is the only one its client waits for, and it carries the
\* client's state.
LEMMA ChainRequest ==
    ASSUME SInv, NEW c \in Clients, NEW stage \in StageOf(c), Request(c, stage)
    PROVE  Chain'
<1> DEFINE call == [client |-> c, n |-> made[c] + 1, stage |-> stage,
                    blob |-> blob[c]]
<1>0. TypeOK /\ Chain
  BY DEF SInv
<1>1. /\ Pool' = Pool \cup {call} /\ replies' = replies
      /\ made' = [made EXCEPT ![c] = made[c] + 1]
      /\ open' = open \cup {c} /\ c \notin open
      /\ UNCHANGED <<blob, failed>>
  BY DEF Request, Pool
<1>2. /\ call.client = c /\ call.n = made[c] + 1 /\ call.blob = blob[c]
      /\ call.stage = stage
  OBVIOUS
<1> HIDE DEF call
<1>3. /\ made'[c] = made[c] + 1 /\ made[c] \in Nat
      /\ \A d \in Clients \ {c} : made'[d] = made[d]
      /\ \A d \in Clients : made[d] \in Nat
  BY <1>0, <1>1, CallTypes DEF TypeOK
<1>4. CallsMade'
  BY <1>0, <1>1, <1>2, <1>3, CallTypes DEF Chain, CallsMade
<1>5. \A r \in Pool \cup replies : Awaited(r)' => r.client # c /\ Awaited(r)
  BY <1>0, <1>1, <1>3, CallTypes DEF Chain, CallsMade, Awaited
<1>6. Carries'
  <2>1. c \in Chainers => stage = Falldown
    BY DEF StageOf
  <2> QED
    BY <1>0, <1>1, <1>2, <1>5, <2>1 DEF Chain, Carries
<1>7. \A d \in Clients : LastDone(d)' = LastDone(d)
  BY <1>1, <1>3 DEF LastDone
<1>8. FailedDone'
  BY <1>0, <1>1, <1>7 DEF Chain, FailedDone
<1>9. ChainIsSuccesses'
  BY <1>0, <1>1, <1>7, Constants DEF Chain, ChainIsSuccesses, LastDone
<1> QED
  BY <1>4, <1>6, <1>8, <1>9 DEF Chain

\* A call that fails is done, failed, and waited for no longer.
LEMMA ChainCallFails ==
    ASSUME SInv, NEW c \in Clients, CallFails(c)
    PROVE  Chain'
<1>0. TypeOK /\ Chain /\ OpenMade
  BY DEF SInv
<1>1. /\ Pool' = Pool /\ replies' = replies
      /\ c \in open /\ open' = open \ {c}
      /\ failed' = [failed EXCEPT ![c] = failed[c] \cup {made[c]}]
      /\ UNCHANGED <<made, blob>>
  BY DEF CallFails, serverVars, Pool
<1>2. made[c] \in Nat /\ made[c] > 0
  BY <1>0, <1>1, CallTypes DEF OpenMade
<1>3. CallsMade'
  BY <1>0, <1>1 DEF Chain, CallsMade
<1>4. Carries'
  <2>1. \A r : Awaited(r)' => Awaited(r)
    BY <1>1 DEF Awaited
  <2> QED
    BY <1>0, <1>1, <2>1 DEF Chain, Carries
<1>5. /\ LastDone(c) = made[c] - 1 /\ LastDone(c)' = made[c]
      /\ \A d \in Clients \ {c} : LastDone(d)' = LastDone(d)
  BY <1>1 DEF LastDone
<1>6. /\ failed'[c] = failed[c] \cup {made[c]}
      /\ \A d \in Clients \ {c} : failed'[d] = failed[d]
  BY <1>0, <1>1 DEF TypeOK
<1>7. FailedDone'
  BY <1>0, <1>2, <1>5, <1>6 DEF Chain, FailedDone
<1>8. (1..made[c]) \ (failed[c] \cup {made[c]}) = (1..(made[c] - 1)) \ failed[c]
  BY <1>2
<1>9. ChainIsSuccesses'
  <2> SUFFICES ASSUME NEW d \in Chainers
               PROVE  /\ Range(blob[d]) = (1..LastDone(d)') \ failed'[d]
                      /\ \A i, j \in DOMAIN blob[d] : i < j => blob[d][i] < blob[d][j]
      BY <1>1 DEF ChainIsSuccesses, LastDone
  <2>1. /\ Range(blob[d]) = (1..LastDone(d)) \ failed[d]
        /\ \A i, j \in DOMAIN blob[d] : i < j => blob[d][i] < blob[d][j]
    BY <1>0 DEF Chain, ChainIsSuccesses, LastDone
  <2>2. CASE d = c
    BY <1>5, <1>6, <1>8, <2>1, <2>2
  <2>3. CASE d # c
    BY <1>5, <1>6, <2>1, <2>3, Constants
  <2> QED
    BY <2>1, <2>2, <2>3
<1> QED
  BY <1>3, <1>4, <1>7, <1>9 DEF Chain

\* The answer waited for extends the chain by its call, any other is dropped.
LEMMA ChainDeliver ==
    ASSUME SInv, NEW r \in replies, Deliver(r)
    PROVE  Chain'
<1>0. TypeOK /\ Chain /\ OpenMade
  BY DEF SInv
<1>1. /\ Pool' = Pool /\ replies' \subseteq replies
      /\ UNCHANGED <<made, failed>>
  BY DEF Deliver, serverVars, Pool
<1>2. CallsMade'
  BY <1>0, <1>1 DEF Chain, CallsMade
<1>3. CASE ~Awaited(r)
  <2>1. UNCHANGED <<open, blob>>
    BY <1>3 DEF Deliver
  <2>2. Carries'
    BY <1>0, <1>1, <2>1 DEF Chain, Carries, Awaited
  <2>3. FailedDone' /\ ChainIsSuccesses'
    BY <1>0, <1>1, <2>1 DEF Chain, FailedDone, ChainIsSuccesses, LastDone
  <2> QED
    BY <1>2, <2>2, <2>3 DEF Chain
<1>4. CASE Awaited(r)
  <2> DEFINE c == r.client
  <2>1. /\ c \in open /\ r.n = made[c] /\ open' = open \ {c}
        /\ blob' = [blob EXCEPT ![c] = r.blob]
    BY <1>4 DEF Deliver, Awaited
  <2>2. c \in Clients /\ made[c] \in Nat /\ made[c] > 0
    BY <1>0, <2>1, CallTypes DEF OpenMade
  <2>3. c \in Chainers => r.blob = Append(blob[c], made[c])
    BY <1>0, <1>4, <2>1 DEF Chain, Carries
  <2> HIDE DEF c
  <2>4. /\ LastDone(c) = made[c] - 1 /\ LastDone(c)' = made[c]
        /\ \A d \in Clients \ {c} : LastDone(d)' = LastDone(d)
    BY <1>1, <2>1 DEF LastDone
  <2>5. /\ blob'[c] = r.blob
        /\ \A d \in Clients \ {c} : blob'[d] = blob[d]
    BY <1>0, <2>1, <2>2 DEF TypeOK
  <2>6. Carries'
    <3>1. \A q \in Pool \cup replies : Awaited(q)' =>
            Awaited(q) /\ blob'[q.client] = blob[q.client]
      BY <1>0, <1>1, <2>1, <2>5, CallTypes DEF Awaited
    <3> QED
      BY <1>0, <1>1, <3>1 DEF Chain, Carries
  <2>7. failed[c] \subseteq 1..(made[c] - 1)
    BY <1>0, <2>2, <2>4 DEF Chain, FailedDone
  <2>8. FailedDone'
    BY <1>0, <1>1, <2>2, <2>4, <2>7 DEF Chain, FailedDone
  <2>9. ChainIsSuccesses'
    <3> SUFFICES ASSUME NEW d \in Chainers
                 PROVE  /\ Range(blob'[d]) = (1..LastDone(d)') \ failed[d]
                        /\ \A i, j \in DOMAIN blob'[d] :
                             i < j => blob'[d][i] < blob'[d][j]
        BY <1>1 DEF ChainIsSuccesses, LastDone
    <3>1. /\ Range(blob[d]) = (1..LastDone(d)) \ failed[d]
          /\ \A i, j \in DOMAIN blob[d] : i < j => blob[d][i] < blob[d][j]
      BY <1>0 DEF Chain, ChainIsSuccesses, LastDone
    <3>2. CASE d # c
      BY <2>4, <2>5, <3>1, <3>2, Constants
    <3>3. CASE d = c
      <4> DEFINE b == blob[c]
                 b1 == Append(blob[c], made[c])
      <4>1. b \in Seq(1..MaxCalls) /\ made[c] \in 1..MaxCalls
        BY <1>0, <2>2, Constants DEF TypeOK
      <4>2. /\ Len(b) \in Nat /\ DOMAIN b = 1..Len(b)
            /\ DOMAIN b1 = 1..(Len(b) + 1)
            /\ \A i \in 1..Len(b) : b1[i] = b[i]
            /\ b1[Len(b) + 1] = made[c]
        BY <4>1, AppendProperties, LenProperties
      <4>3. \A i \in DOMAIN b : b[i] \in 1..(made[c] - 1)
        BY <2>4, <3>1, <3>3 DEF Range
      <4> HIDE DEF b1
      <4>4. Range(b1) = Range(b) \cup {made[c]}
        <5>1. DOMAIN b1 = DOMAIN b \cup {Len(b) + 1} /\ \A i \in DOMAIN b : b1[i] = b[i]
          BY <4>2
        <5> QED
          BY <4>2, <5>1 DEF Range
      <4>5. (1..made[c]) \ failed[c] = ((1..(made[c] - 1)) \ failed[c]) \cup {made[c]}
        BY <2>2, <2>7
      <4>6. Range(b1) = (1..made[c]) \ failed[c]
        BY <2>4, <3>1, <3>3, <4>4, <4>5
      <4>7. ASSUME NEW i \in DOMAIN b1, NEW j \in DOMAIN b1, i < j
            PROVE  b1[i] < b1[j]
        <5>1. i \in DOMAIN b /\ b1[i] = b[i]
          BY <4>2, <4>7
        <5>2. CASE j \in DOMAIN b
          BY <3>1, <3>3, <4>2, <4>7, <5>1, <5>2
        <5>3. CASE j = Len(b) + 1
          BY <2>2, <4>2, <4>3, <5>1, <5>3
        <5> QED
          BY <4>2, <5>2, <5>3
      <4>8. blob'[c] = b1
        BY <2>3, <2>5, <3>3 DEF b1
      <4> QED
        BY <2>4, <3>3, <4>6, <4>7, <4>8
    <3> QED
      BY <3>2, <3>3
  <2> QED
    BY <1>2, <2>6, <2>8, <2>9 DEF Chain
<1> QED
  BY <1>3, <1>4

\* The server hands the state on: into the answer goes the state that came
\* with the call, with the call's frame appended.
LEMMA ChainServer ==
    ASSUME SInv, NEW r,
           \/ r \in queued /\ (DropGivenUp(r) \/ TakeWorker(r) \/ StartInstance(r))
           \/ r \in atSem /\ Acquire(r)
           \/ r \in running /\ Finish(r)
    PROVE  Chain'
<1>0. TypeOK /\ Chain
  BY DEF SInv
<1> DEFINE answer == [r EXCEPT !.blob = UpdatedState(r)]
<1>1. /\ UNCHANGED clientVars
      /\ Pool' \subseteq Pool
      /\ \/ replies' = replies
         \/ r \in running /\ replies' = replies \cup {answer}
  BY ServerMoves
<1>2. r \in running =>
        r \in Pool /\ answer.client = r.client /\ answer.n = r.n
                   /\ answer.blob = UpdatedState(r)
  BY <1>0, AnswerIsCall, CallTypes DEF Pool
<1> HIDE DEF answer
<1>3. CallsMade'
  BY <1>0, <1>1, <1>2 DEF clientVars, Chain, CallsMade
<1>4. \A q : Awaited(q)' <=> Awaited(q)
  BY <1>1 DEF clientVars, Awaited
<1>5. r \in running /\ r.client \in Chainers /\ Awaited(answer) =>
        answer.blob = Append(blob[r.client], r.n)
  BY <1>0, <1>2 DEF Chain, Carries, UpdatedState, Awaited
<1>6. Carries'
  BY <1>0, <1>1, <1>2, <1>4, <1>5 DEF clientVars, Chain, Carries
<1>7. FailedDone' /\ ChainIsSuccesses'
  BY <1>0, <1>1 DEF clientVars, Chain, FailedDone, ChainIsSuccesses, LastDone
<1> QED
  BY <1>3, <1>6, <1>7 DEF Chain

-----------------------------------------------------------------------------
\* The inductive invariant holds in every reachable state.
THEOREM SInvCorrect == Spec => []SInv
<1>1. SInv /\ [Next]_vars => SInv'
  <2> SUFFICES ASSUME SInv, [Next]_vars PROVE Chain'
      BY STypeNext DEF SInv
  <2>1. CASE \E c \in Clients : \E stage \in StageOf(c) : Request(c, stage)
    BY <2>1, ChainRequest
  <2>2. CASE \E c \in Clients : CallFails(c)
    BY <2>2, ChainCallFails
  <2>3. CASE \/ \E r \in queued : DropGivenUp(r) \/ TakeWorker(r) \/ StartInstance(r)
             \/ \E r \in atSem : Acquire(r)
             \/ \E r \in running : Finish(r)
    BY <2>3, ChainServer
  <2>4. CASE \E r \in replies : Deliver(r)
    BY <2>4, ChainDeliver
  <2>5. CASE UNCHANGED vars
    BY <2>5 DEF vars, clientVars, serverVars, SInv, Chain, CallsMade, Carries,
                FailedDone, ChainIsSuccesses, LastDone, Pool, Awaited
  <2> QED
    BY <2>1, <2>2, <2>3, <2>4, <2>5 DEF Next
<1> QED
  BY SInit, <1>1, PTL DEF Spec

\* Every variable keeps its type; no permit is returned twice.
THEOREM STypeCorrect == Spec => []TypeOK
<1>1. SInv => TypeOK
  BY DEF SInv
<1> QED
  BY SInvCorrect, <1>1, PTL

\* The semaphore of the mock server (inference_mock/server.py 40) limits the
\* inferences of all stages together to max_concurrency, timeouts or not.
THEOREM SlotsRespectedCorrect == Spec => []SlotsRespected
<1>1. SInv => SlotsRespected
  <2> SUFFICES ASSUME SInv, mock PROVE Cardinality(running) <= MaxConcurrency
      BY DEF SlotsRespected
  <2>1. Cardinality(running) \in Nat /\ permits \in Nat
    BY Constants, FS_CardinalityType DEF SInv, TypeOK, PermitsHeld
  <2> QED
    BY <2>1, Constants DEF SInv, PermitsHeld
<1> QED
  BY SInvCorrect, <1>1, PTL

\* The state_blob of a falldown task (nested/actors.py 133-144) is the chain
\* of its successful calls, in order, whatever times out or comes late.
THEOREM ChainCorrect == Spec => []ChainIsSuccesses
<1>1. SInv => ChainIsSuccesses
  BY DEF SInv, Chain
<1> QED
  BY SInvCorrect, <1>1, PTL
=============================================================================
