-------------------------- MODULE DeploymentProofs --------------------------
(***************************************************************************)
(* For any number of cameras, frames and calls, any batch size and any     *)
(* deadline: with Triton no client gets to a call before the server        *)
(* listens, and every result fits what was asked. And the models answer a  *)
(* list of requests as the mock server answers each of them.               *)
(*                                                                         *)
(* DInv adds what the results rest on: a client that is to make a call has *)
(* one left (CallsLeft), and a violence_task has not begun when the batch  *)
(* it is started with becomes full (NoResultsYet, OneTask).                *)
(***************************************************************************)
EXTENDS Deployment, TLAPS, SequenceTheorems

CallsLeft ==
    \A c \in Clients : pc[c] \in {"call", "wait"} => Len(cur[c]) < Len(Calls(c))

NoResultsYet ==
    \A cam \in Cameras :
        pc[<<cam, "task">>] \in {"none", "query", "check"} => cur[<<cam, "task">>] = <<>>

OneTask ==
    \A cam \in Cameras : pc[<<cam, "task">>] # "none" =>
        /\ frames[cam] >= BatchFrameCount
        /\ pc[<<cam, "actor">>] \in {"call", "wait"} => frames[cam] > BatchFrameCount

DInv == TypeOK /\ CallsLeft /\ NoResultsYet /\ OneTask

-----------------------------------------------------------------------------
\* The stages.

Requests == Seq([stage : Stages, items : Nat])

\* The Triton models and the mock server answer alike: one response for each
\* request, in its place, with a number of items the mock handler could have
\* answered it with.
THEOREM SameAnswers ==
    ASSUME NEW model \in Stages, NEW requests \in Requests,
           \A i \in DOMAIN requests : requests[i].stage = model,
           NEW responses \in Execute(model, requests)
    PROVE  /\ DOMAIN responses = DOMAIN requests
           /\ \A i \in DOMAIN requests : responses[i] \in Handle(requests[i])
<1>1. CASE model = "detect"
  <2>1. responses \in [DOMAIN requests -> Boxes]
    BY <1>1 DEF Execute, ExecuteDetect
  <2>2. \A i \in DOMAIN requests : Handle(requests[i]) = Boxes
    BY <1>1 DEF Handle, Detect
  <2> QED BY <2>1, <2>2
<1>2. CASE model # "detect"
  <2>1. responses = [i \in DOMAIN requests |-> requests[i].items]
    BY <1>2 DEF Execute, ExecuteTrack, ExecutePose, ExecuteViolence, Stages
  <2>2. \A i \in DOMAIN requests : Handle(requests[i]) = {requests[i].items}
    BY <1>2 DEF Handle, Track, Pose, BatchViolence, Stages
  <2> QED BY <2>1, <2>2
<1> QED BY <1>1, <1>2

-----------------------------------------------------------------------------
\* The assumptions on the constants, gathered for citing.
LEMMA Constants ==
    /\ Boxes \subseteq Nat
    /\ BatchFrameCount \in Nat /\ BatchFrameCount > 0
    /\ ViolenceCalls \in Nat /\ ViolenceCalls > 0
    /\ ReadyTimeout \in Nat /\ MaxFrames \in Nat
BY BoxesAssumption, BatchAssumption, ViolenceAssumption, TimeoutAssumption,
   FramesAssumption

LEMMA ClientKinds ==
    /\ \A c \in Clients :
         /\ c[1] \in Cameras /\ c[2] \in {"actor", "task"}
         /\ c = <<c[1], c[2]>>
    /\ \A cam \in Cameras :
         /\ <<cam, "actor">> \in Clients /\ <<cam, "task">> \in Clients
         /\ <<cam, "actor">>[1] = cam /\ <<cam, "actor">>[2] = "actor"
         /\ <<cam, "task">>[1] = cam /\ <<cam, "task">>[2] = "task"
         /\ <<cam, "actor">> # <<cam, "task">>
BY DEF Clients

\* How many calls a client has to make, and which.
LEMMA CallsOf ==
    ASSUME NEW c \in Clients
    PROVE  /\ Len(Calls(c)) \in Nat /\ Len(Calls(c)) > 0
           /\ c[2] = "actor" => /\ Len(Calls(c)) = 3
                                /\ Calls(c)[1] = "detect"
                                /\ Calls(c)[2] = "track"
                                /\ Calls(c)[3] = "pose"
           /\ c[2] = "task" => /\ Len(Calls(c)) = ViolenceCalls
                               /\ \A i \in 1..ViolenceCalls : Calls(c)[i] = "violence"
<1>1. CASE c[2] = "actor"
  BY <1>1 DEF Calls
<1>2. CASE c[2] = "task"
  <2> DEFINE s == [i \in 1..ViolenceCalls |-> "violence"]
  <2>1. Calls(c) = s
    BY <1>2 DEF Calls
  <2>2. s \in Seq({"violence"}) /\ Len(s) = ViolenceCalls
    BY Constants, LenProperties
  <2> QED BY <1>2, <2>1, <2>2, Constants
<1> QED BY <1>1, <1>2, ClientKinds

\* A step that leaves the invariant's variables alone keeps it.
LEMMA DInvStutters ==
    ASSUME DInv, UNCHANGED <<pc, waited, frames, cur>>,
           triton' = triton, driver' \in {"start", "launching", "up", "down"},
           launched' \subseteq Cameras, loaded' \subseteq Models,
           server' \in {"off", "listening", "stopped"}
    PROVE  DInv'
BY DEF DInv, TypeOK, CallsLeft, NoResultsYet, OneTask

-----------------------------------------------------------------------------
\* What a server may answer to the call a client is in.
Wanted(c) ==
    IF c[2] = "actor" /\ cur[c] = <<>> THEN Boxes ELSE {Request(c).items}

LEMMA WantedIsNat ==
    ASSUME DInv, NEW c \in Clients
    PROVE  Wanted(c) \subseteq Nat /\ Request(c).items \in Nat
<1>1. cur[c] \in Seq(Nat)
  BY DEF DInv, TypeOK
<1>2. cur[c] # <<>> => Last(cur[c]) \in Nat
  <2>1. cur[c] # <<>> => Len(cur[c]) \in 1..Len(cur[c])
    BY <1>1, EmptySeq, LenProperties
  <2> QED BY <1>1, <2>1, ElementOfSeq DEF Last
<1>3. Request(c).items \in Nat
  BY <1>2, Constants DEF Request
<1> QED BY <1>3, Constants DEF Wanted

\* Whoever answers: what the client goes on with is wanted.
LEMMA AnswerFits ==
    ASSUME DInv, NEW c \in Clients, Answer(c)
    PROVE  \E items \in Wanted(c) : Proceed(c, items)
<1> DEFINE r == Request(c)
<1>1. /\ cur[c] \in Seq(Nat) /\ Len(cur[c]) \in Nat
      /\ Len(cur[c]) < Len(Calls(c))
      /\ cur[c] = <<>> <=> Len(cur[c]) = 0
  BY DEF DInv, TypeOK, CallsLeft, Answer
<1>2. r.stage = Calls(c)[Len(cur[c]) + 1]
  BY DEF Request
<1>3. /\ r.stage \in Stages
      /\ r.stage = "detect" <=> c[2] = "actor" /\ cur[c] = <<>>
  <2>1. CASE c[2] = "actor"
    <3>1. Len(Calls(c)) = 3
      BY <2>1, CallsOf
    <3>2. Len(cur[c]) \in {0, 1, 2}
      <4>1. \A n \in Nat : n < 3 => n \in {0, 1, 2}
        OBVIOUS
      <4> QED BY <1>1, <3>1, <4>1
    <3> QED BY <1>1, <1>2, <2>1, <3>2, CallsOf DEF Stages
  <2>2. CASE c[2] = "task"
    BY <1>1, <1>2, <2>2, CallsOf DEF Stages
  <2> QED BY <2>1, <2>2, ClientKinds
<1>4. Handle(r) = Wanted(c)
  <2>1. CASE r.stage = "detect"
    BY <1>3, <2>1 DEF Handle, Detect, Wanted
  <2>2. CASE r.stage # "detect"
    <3>1. Handle(r) = {r.items}
      BY <1>3, <2>2 DEF Handle, Track, Pose, BatchViolence, Stages
    <3> QED BY <1>3, <2>2, <3>1 DEF Wanted
  <2> QED BY <2>1, <2>2
<1>5. CASE triton
  <2>1. PICK responses \in Execute(r.stage, <<r>>) : Proceed(c, responses[1])
    BY <1>5 DEF Answer
  <2>2. r \in [stage : Stages, items : Nat]
    BY <1>3, WantedIsNat DEF Request
  <2>3. /\ <<r>> \in Requests /\ DOMAIN <<r>> = {1}
        /\ \A i \in DOMAIN <<r>> : <<r>>[i].stage = r.stage
    BY <2>2 DEF Requests
  <2>4. responses[1] \in Handle(<<r>>[1])
    BY <1>3, <2>3, SameAnswers
  <2> QED BY <1>4, <2>1, <2>4
<1>6. CASE ~triton
  BY <1>4, <1>6 DEF Answer
<1> QED BY <1>5, <1>6

\* A client that gets on with its calls keeps the invariant.
LEMMA ProceedKeeps ==
    ASSUME DInv, NEW c \in Clients, pc[c] \in {"call", "wait"},
           NEW items \in Nat, Proceed(c, items)
    PROVE  DInv'
<1> DEFINE got  == Append(cur[c], items)
           task == <<c[1], "task">>
           full == /\ Len(got) = Len(Calls(c)) /\ c[2] = "actor"
                   /\ frames[c[1]] = BatchFrameCount
<1>1. /\ cur[c] \in Seq(Nat) /\ Len(cur[c]) < Len(Calls(c))
      /\ got \in Seq(Nat) /\ Len(got) = Len(cur[c]) + 1
      /\ Len(cur[c]) \in Nat /\ Len(Calls(c)) \in Nat
  BY CallsOf DEF DInv, TypeOK, CallsLeft
<1>2. /\ cur' = [cur EXCEPT ![c] = got]
      /\ pc' \in [Clients -> Locations]
      /\ \A x \in Clients : x # c /\ ~(full /\ x = task) => pc'[x] = pc[x]
      /\ full => pc'[task] \in {"query", "call"}
      /\ pc'[c] = IF Len(got) # Len(Calls(c)) THEN "call"
                  ELSE IF c[2] = "actor" THEN "pull" ELSE "ended"
      /\ UNCHANGED <<triton, driver, launched, loaded, server, waited, frames>>
  <2>1. pc' = [x \in Clients |->
                IF x = c THEN IF Len(got) # Len(Calls(c)) THEN "call"
                              ELSE IF c[2] = "actor" THEN "pull" ELSE "ended"
                ELSE IF full /\ x = task THEN Backend(task) ELSE pc[x]]
    BY DEF Proceed
  <2>2. task \in Clients /\ Backend(task) \in {"query", "call"} /\ (full => task # c)
    BY ClientKinds DEF Backend, Begin
  <2>3. pc \in [Clients -> Locations]
    BY DEF DInv, TypeOK
  <2>4. cur' = [cur EXCEPT ![c] = got]
        /\ UNCHANGED <<triton, driver, launched, loaded, server, waited, frames>>
    BY DEF Proceed, serverVars
  <2> HIDE DEF got, task, full
  <2> QED BY <2>1, <2>2, <2>3, <2>4 DEF Locations
\* The task of a batch that is full now has not begun.
<1>3. full => pc[task] = "none" /\ cur[task] = <<>>
  <2> SUFFICES ASSUME full  PROVE  pc[task] = "none" /\ cur[task] = <<>>
    OBVIOUS
  <2>1. c[1] \in Cameras /\ c = <<c[1], "actor">>
    BY ClientKinds
  <2>2. pc[<<c[1], "actor">>] \in {"call", "wait"} /\ frames[c[1]] = BatchFrameCount
    BY <2>1
  <2>3. ~(frames[c[1]] > BatchFrameCount)
    BY <2>2, Constants
  <2>4. pc[task] = "none"
    BY <2>1, <2>2, <2>3 DEF DInv, OneTask
  <2> QED BY <2>1, <2>4 DEF DInv, NoResultsYet
<1>4. TypeOK'
  <2> HIDE DEF got, task, full
  <2>1. cur' \in [Clients -> Seq(Nat)]
    BY <1>1, <1>2 DEF DInv, TypeOK
  <2>2. ASSUME NEW x \in Clients  PROVE  Len(cur'[x]) <= Len(Calls(x))
    <3>1. CASE x = c
      BY <1>1, <1>2, <3>1 DEF DInv, TypeOK
    <3>2. CASE x # c
      BY <1>2, <3>2 DEF DInv, TypeOK
    <3> QED BY <3>1, <3>2
  <2> QED BY <1>2, <2>1, <2>2 DEF DInv, TypeOK, Calls
<1>5. CallsLeft'
  <2> SUFFICES ASSUME NEW x \in Clients, pc'[x] \in {"call", "wait"}
               PROVE  Len(cur'[x]) < Len(Calls(x))
    BY DEF CallsLeft, Calls
  <2> HIDE DEF got, task, full
  <2>1. CASE x = c
    BY <1>1, <1>2, <2>1 DEF DInv, TypeOK
  <2>2. CASE x # c /\ full /\ x = task
    BY <1>2, <1>3, <2>2, CallsOf, EmptySeq DEF DInv, TypeOK
  <2>3. CASE x # c /\ ~(full /\ x = task)
    BY <1>2, <2>3 DEF DInv, TypeOK, CallsLeft
  <2> QED BY <2>1, <2>2, <2>3
<1>6. NoResultsYet'
  <2> SUFFICES ASSUME NEW cam \in Cameras,
                      pc'[<<cam, "task">>] \in {"none", "query", "check"}
               PROVE  cur'[<<cam, "task">>] = <<>>
    BY DEF NoResultsYet
  <2> DEFINE x == <<cam, "task">>
  <2>1. x \in Clients /\ x[2] = "task"
    BY ClientKinds
  <2>2. x # c
    BY <1>2, <2>1
  <2>3. cur'[x] = cur[x]
    BY <1>2, <2>1, <2>2 DEF DInv, TypeOK
  <2> HIDE DEF got, full, x
  <2>4. CASE full /\ x = task
    BY <1>3, <2>3, <2>4 DEF x
  <2>5. CASE ~(full /\ x = task)
    BY <1>2, <2>1, <2>2, <2>3, <2>5 DEF DInv, NoResultsYet, x
  <2> QED BY <2>4, <2>5
<1>7. OneTask'
  <2> SUFFICES ASSUME NEW cam \in Cameras, pc'[<<cam, "task">>] # "none"
               PROVE  /\ frames[cam] >= BatchFrameCount
                      /\ pc'[<<cam, "actor">>] \in {"call", "wait"} =>
                           frames[cam] > BatchFrameCount
    BY <1>2 DEF OneTask
  <2> DEFINE x == <<cam, "task">>
             a == <<cam, "actor">>
  <2>1. /\ x \in Clients /\ a \in Clients /\ a # x
        /\ x[1] = cam /\ a[1] = cam /\ x[2] = "task" /\ a[2] = "actor"
    BY ClientKinds
  <2>2. frames[cam] \in Nat
    BY DEF DInv, TypeOK
  \* A camera whose task has begun before.
  <2>3. CASE pc[x] # "none"
    <3>1. frames[cam] >= BatchFrameCount
          /\ (pc[a] \in {"call", "wait"} => frames[cam] > BatchFrameCount)
      BY <2>3 DEF DInv, OneTask
    <3>2. pc'[a] \in {"call", "wait"} => pc[a] \in {"call", "wait"}
      <4>1. a # task
        BY <2>1
      <4> HIDE DEF got, task, full, a
      <4> QED BY <1>2, <2>1, <4>1
    <3> QED BY <3>1, <3>2
  \* The one whose task is started in this step.
  <2>4. CASE pc[x] = "none"
    <3>1. x # c
      BY <2>4
    <3>2. full /\ x = task
      <4> HIDE DEF got, task, full, x
      <4> QED BY <1>2, <2>1, <2>4, <3>1 DEF x
    <3>3. c = a
      BY <3>2, ClientKinds
    <3>4. pc'[a] = "pull"
      BY <1>2, <3>2, <3>3
    <3> QED BY <2>2, <3>2, <3>4, Constants
  <2> QED BY <2>3, <2>4
<1> QED BY <1>4, <1>5, <1>6, <1>7 DEF DInv

-----------------------------------------------------------------------------
LEMMA InitInv == Init => DInv
<1> SUFFICES ASSUME Init  PROVE  DInv
  OBVIOUS
<1>1. TypeOK
  <2>1. \A c \in Clients : Len(cur[c]) <= Len(Calls(c))
    BY CallsOf, EmptySeq DEF Init
  <2> QED BY <2>1, Constants DEF Init, TypeOK, Locations
<1> QED BY <1>1, ClientKinds DEF Init, DInv, CallsLeft, NoResultsYet, OneTask

\* A step of one client that makes no call and gets no result.
LEMMA MovesKeep ==
    ASSUME DInv, NEW c \in Clients, NEW l \in Locations,
           pc' = [pc EXCEPT ![c] = l],
           l \in {"call", "wait"} => \/ pc[c] \in {"call", "wait"}
                                     \/ c[2] = "task" /\ pc[c] = "query",
           l \in {"none", "query", "check"} => pc[c] \in {"query", "check"},
           pc[c] # "none",
           waited' \in [Clients -> 0..ReadyTimeout],
           UNCHANGED <<serverVars, frames, cur>>
    PROVE  DInv'
<1>1. /\ pc \in [Clients -> Locations]
      /\ \A x \in Clients : pc'[x] = IF x = c THEN l ELSE pc[x]
  BY DEF DInv, TypeOK
<1>2. TypeOK'
  BY <1>1 DEF DInv, TypeOK, serverVars, Calls
<1>3. CallsLeft'
  <2> SUFFICES ASSUME NEW x \in Clients, pc'[x] \in {"call", "wait"}
               PROVE  Len(cur[x]) < Len(Calls(x))
    BY DEF CallsLeft, Calls
  <2>1. CASE pc[x] \in {"call", "wait"}
    BY <2>1 DEF DInv, CallsLeft
  <2>2. CASE pc[x] \notin {"call", "wait"}
    <3>1. x = c /\ c[2] = "task" /\ pc[c] = "query"
      BY <1>1, <2>2
    <3>2. cur[c] = <<>>
      BY <3>1, ClientKinds DEF DInv, NoResultsYet
    <3> QED BY <3>1, <3>2, CallsOf, EmptySeq
  <2> QED BY <2>1, <2>2
<1>4. NoResultsYet'
  <2> SUFFICES ASSUME NEW cam \in Cameras, pc'[<<cam, "task">>] \in {"none", "query", "check"}
               PROVE  cur'[<<cam, "task">>] = <<>>
    BY DEF NoResultsYet
  <2>1. pc[<<cam, "task">>] \in {"none", "query", "check"}
    BY <1>1, ClientKinds
  <2> QED BY <1>1, <2>1 DEF DInv, NoResultsYet
<1>5. OneTask'
  <2> SUFFICES ASSUME NEW cam \in Cameras, pc'[<<cam, "task">>] # "none"
               PROVE  /\ frames[cam] >= BatchFrameCount
                      /\ pc'[<<cam, "actor">>] \in {"call", "wait"} =>
                           frames[cam] > BatchFrameCount
    BY DEF OneTask
  <2>1. pc[<<cam, "task">>] # "none"
    BY <1>1, ClientKinds
  <2>2. pc'[<<cam, "actor">>] \in {"call", "wait"} => pc[<<cam, "actor">>] \in {"call", "wait"}
    BY <1>1, ClientKinds
  <2> QED BY <2>1, <2>2 DEF DInv, OneTask
<1> QED BY <1>2, <1>3, <1>4, <1>5 DEF DInv

LEMMA PullKeeps ==
    ASSUME DInv, NEW cam \in Cameras, Pull(cam)
    PROVE  DInv'
<1> DEFINE a == <<cam, "actor">>
<1>1. /\ a \in Clients /\ a[2] = "actor" /\ Len(Calls(a)) = 3
      /\ \A k \in Cameras : <<k, "task">> # a /\ <<k, "task">> \in Clients
  BY ClientKinds, CallsOf
<1>2. /\ pc \in [Clients -> Locations] /\ cur \in [Clients -> Seq(Nat)]
      /\ frames \in [Cameras -> 0..MaxFrames] /\ MaxFrames \in Nat
  BY Constants DEF DInv, TypeOK
<1>3. /\ pc' = [pc EXCEPT ![a] = "call"] /\ cur' = [cur EXCEPT ![a] = <<>>]
      /\ frames' = [frames EXCEPT ![cam] = @ + 1] /\ frames[cam] < MaxFrames
      /\ pc[a] = "pull" /\ UNCHANGED <<serverVars, waited>>
  BY DEF Pull
<1> HIDE DEF a
<1>4. /\ \A x \in Clients : x # a => pc'[x] = pc[x] /\ cur'[x] = cur[x]
      /\ pc'[a] = "call" /\ cur'[a] = <<>>
      /\ \A k \in Cameras : k # cam => frames'[k] = frames[k]
      /\ frames'[cam] = frames[cam] + 1 /\ frames[cam] \in Nat
  BY <1>1, <1>2, <1>3
<1>5. TypeOK'
  <2>1. ASSUME NEW x \in Clients  PROVE  Len(cur'[x]) <= Len(Calls(x))
    <3>1. CASE x = a
      BY <1>1, <1>4, <3>1, EmptySeq
    <3>2. CASE x # a
      BY <1>4, <3>2 DEF DInv, TypeOK
    <3> QED BY <3>1, <3>2
  <2>2. /\ pc' \in [Clients -> Locations] /\ cur' \in [Clients -> Seq(Nat)]
        /\ frames' \in [Cameras -> 0..MaxFrames]
    <3>1. frames[cam] + 1 \in 0..MaxFrames
      BY <1>2, <1>3, <1>4
    <3>2. frames' \in [Cameras -> 0..MaxFrames]
      BY <1>2, <1>3, <3>1
    <3>3. "call" \in Locations /\ <<>> \in Seq(Nat)
      BY DEF Locations
    <3>4. pc' \in [Clients -> Locations]
      BY <1>2, <1>3, <3>3
    <3>5. cur' \in [Clients -> Seq(Nat)]
      BY <1>2, <1>3, <3>3
    <3> QED BY <3>2, <3>4, <3>5
  <2> QED BY <1>3, <2>1, <2>2 DEF DInv, TypeOK, serverVars, Calls
<1>6. CallsLeft'
  <2> SUFFICES ASSUME NEW x \in Clients, pc'[x] \in {"call", "wait"}
               PROVE  Len(cur'[x]) < Len(Calls(x))
    BY DEF CallsLeft, Calls
  <2>1. CASE x = a
    BY <1>1, <1>4, <2>1, EmptySeq
  <2>2. CASE x # a
    BY <1>4, <2>2 DEF DInv, CallsLeft
  <2> QED BY <2>1, <2>2
<1>7. NoResultsYet'
  BY <1>1, <1>4 DEF DInv, NoResultsYet
<1>8. OneTask'
  <2> SUFFICES ASSUME NEW k \in Cameras, pc'[<<k, "task">>] # "none"
               PROVE  /\ frames'[k] >= BatchFrameCount
                      /\ pc'[<<k, "actor">>] \in {"call", "wait"} =>
                           frames'[k] > BatchFrameCount
    BY DEF OneTask
  <2>1. pc[<<k, "task">>] # "none" /\ frames[k] >= BatchFrameCount
    BY <1>1, <1>4 DEF DInv, OneTask
  <2>2. CASE k = cam
    BY <1>4, <2>1, <2>2, Constants
  <2>3. CASE k # cam
    <3>1. <<k, "actor">> \in Clients /\ <<k, "actor">> # a
      BY <2>3, ClientKinds DEF a
    <3>2. pc'[<<k, "actor">>] = pc[<<k, "actor">>] /\ frames'[k] = frames[k]
      BY <1>4, <2>3, <3>1
    <3>3. pc[<<k, "actor">>] \in {"call", "wait"} => frames[k] > BatchFrameCount
      BY <2>1 DEF DInv, OneTask
    <3> QED BY <2>1, <3>2, <3>3
  <2> QED BY <2>2, <2>3
<1> QED BY <1>5, <1>6, <1>7, <1>8 DEF DInv

LEMMA LaunchKeeps ==
    ASSUME DInv, NEW cam \in Cameras, LaunchCamera(cam)
    PROVE  DInv'
<1> DEFINE a == <<cam, "actor">>
<1>1. /\ a \in Clients /\ \A k \in Cameras : <<k, "task">> # a /\ <<k, "task">> \in Clients
      /\ \A k \in Cameras : <<k, "actor">> \in Clients
      /\ Backend(a) \in {"query", "pull"}
  BY ClientKinds DEF Backend, Begin
<1>2. pc' = [pc EXCEPT ![a] = Backend(a)] /\ pc \in [Clients -> Locations]
  BY DEF LaunchCamera, DInv, TypeOK
<1> HIDE DEF a
<1>3. /\ pc' \in [Clients -> Locations] /\ pc'[a] \in {"query", "pull"}
      /\ \A x \in Clients : x # a => pc'[x] = pc[x]
  BY <1>1, <1>2 DEF Locations
<1>4. TypeOK'
  BY <1>3 DEF DInv, TypeOK, LaunchCamera, Calls
<1>5. CallsLeft'
  BY <1>3 DEF DInv, CallsLeft, LaunchCamera, Calls
<1>6. NoResultsYet'
  BY <1>1, <1>3 DEF DInv, NoResultsYet, LaunchCamera
<1>7. OneTask'
  BY <1>1, <1>3 DEF DInv, OneTask, LaunchCamera
<1> QED BY <1>4, <1>5, <1>6, <1>7 DEF DInv

LEMMA ClientStepKeeps ==
    ASSUME DInv, NEW c \in Clients, ClientStep(c)
    PROVE  DInv'
<1>1. CASE Query(c)
  <2> DEFINE l == IF server = "listening" THEN Begin(c) ELSE "check"
  <2>1. /\ l \in Locations
        /\ l \in {"call", "wait"} => c[2] = "task"
        /\ l \notin {"none", "query"}
    BY ClientKinds DEF Begin, Locations
  <2>2. /\ pc' = [pc EXCEPT ![c] = l] /\ pc[c] = "query"
        /\ waited' \in [Clients -> 0..ReadyTimeout]
        /\ UNCHANGED <<serverVars, frames, cur>>
    BY <1>1 DEF Query, DInv, TypeOK
  <2> HIDE DEF l
  <2> QED BY <2>1, <2>2, MovesKeep
<1>2. CASE Check(c)
  <2>1. CASE waited[c] >= ReadyTimeout
    <3>1. /\ pc' = [pc EXCEPT ![c] = "dead"] /\ pc[c] = "check"
          /\ waited' \in [Clients -> 0..ReadyTimeout]
          /\ UNCHANGED <<serverVars, frames, cur>>
      BY <1>2, <2>1 DEF Check, DInv, TypeOK
    <3> QED BY <3>1, MovesKeep DEF Locations
  <2>2. CASE ~(waited[c] >= ReadyTimeout)
    <3>1. /\ pc' = [pc EXCEPT ![c] = "query"] /\ pc[c] = "check"
          /\ waited' = [waited EXCEPT ![c] = @ + 1]
          /\ UNCHANGED <<serverVars, frames, cur>>
      BY <1>2, <2>2 DEF Check
    <3>2. waited \in [Clients -> 0..ReadyTimeout] /\ waited[c] + 1 \in 0..ReadyTimeout
      BY <2>2, Constants DEF DInv, TypeOK
    <3>3. waited' \in [Clients -> 0..ReadyTimeout]
      BY <3>1, <3>2
    <3> QED BY <3>1, <3>3, MovesKeep DEF Locations
  <2> QED BY <2>1, <2>2
<1>3. CASE Send(c)
  <2>1. /\ pc' = [pc EXCEPT ![c] = "wait"] /\ pc[c] = "call"
        /\ waited' \in [Clients -> 0..ReadyTimeout]
        /\ UNCHANGED <<serverVars, frames, cur>>
    BY <1>3 DEF Send, DInv, TypeOK
  <2> QED BY <2>1, MovesKeep DEF Locations
<1>4. CASE Answer(c)
  <2>1. PICK items \in Wanted(c) : Proceed(c, items)
    BY <1>4, AnswerFits
  <2>2. pc[c] \in {"call", "wait"} /\ items \in Nat
    BY <1>4, WantedIsNat DEF Answer
  <2> QED BY <2>1, <2>2, ProceedKeeps
<1>5. CASE CallFails(c)
  <2>1. pc[c] \in {"call", "wait"}
    BY <1>5 DEF CallFails
  <2>2. CASE triton
    <3>1. /\ pc' = [pc EXCEPT ![c] = "dead"]
          /\ waited' \in [Clients -> 0..ReadyTimeout]
          /\ UNCHANGED <<serverVars, frames, cur>>
      BY <1>5, <2>2 DEF CallFails, Fail, DInv, TypeOK
    <3> QED BY <2>1, <3>1, MovesKeep DEF Locations
  <2>3. CASE ~triton
    <3>1. Proceed(c, 0)
      BY <1>5, <2>3 DEF CallFails, Fail
    <3> QED BY <2>1, <3>1, ProceedKeeps
  <2> QED BY <2>2, <2>3
<1> QED BY <1>1, <1>2, <1>3, <1>4, <1>5 DEF ClientStep

LEMMA StepInv ==
    ASSUME DInv, [Next]_vars
    PROVE  DInv'
<1>0. TypeOK
  BY DEF DInv
<1>1. CASE RayInit
  BY <1>0, <1>1, DInvStutters DEF RayInit, TypeOK
<1>2. ASSUME NEW cam \in Cameras, LaunchCamera(cam) \/ Pull(cam)  PROVE  DInv'
  BY <1>2, LaunchKeeps, PullKeeps
<1>3. CASE InitializeReturns
  <2>1. loaded' \subseteq Models
    BY <1>0, <1>3 DEF InitializeReturns, TypeOK, Models
  <2> QED BY <1>0, <1>3, <2>1, DInvStutters DEF InitializeReturns, TypeOK
<1>4. CASE Shutdown
  BY <1>0, <1>4, DInvStutters DEF Shutdown, TypeOK
<1>5. ASSUME NEW model \in StageModels, LoadModel(model)  PROVE  DInv'
  <2>1. loaded' \subseteq Models
    BY <1>0, <1>5 DEF LoadModel, TypeOK, Models
  <2> QED BY <1>0, <1>5, <2>1, DInvStutters DEF LoadModel, TypeOK
<1>6. CASE Listen
  BY <1>0, <1>6, DInvStutters DEF Listen, TypeOK
<1>7. CASE StopServer
  BY <1>0, <1>7, DInvStutters DEF StopServer, TypeOK
<1>8. ASSUME NEW c \in Clients, ClientStep(c)  PROVE  DInv'
  BY <1>8, ClientStepKeeps
<1>9. CASE UNCHANGED vars
  BY <1>0, <1>9, DInvStutters DEF vars, serverVars, TypeOK
<1> QED BY <1>1, <1>2, <1>3, <1>4, <1>5, <1>6, <1>7, <1>8, <1>9 DEF Next

\* The strengthened invariant holds in every reachable state.
THEOREM DInvCorrect == Spec => []DInv
BY InitInv, StepInv, PTL DEF Spec

\* Type correctness: no client gets more results than it makes calls, and no
\* poll sleeps after its deadline.
THEOREM DTypeCorrect == Spec => []TypeOK
<1>1. DInv => TypeOK
  BY DEF DInv
<1> QED BY <1>1, DInvCorrect, PTL

-----------------------------------------------------------------------------
\* The poll at the head of every Triton client does what it is there for: no
\* client gets to a call before the server listens.
THEOREM ServedOnceReadyCorrect == Spec => []ServedOnceReady
<1>1. Init => ServedOnceReady
  BY DEF Init, ServedOnceReady, Served
<1>2. ASSUME DInv, ServedOnceReady, [Next]_vars  PROVE  ServedOnceReady'
  <2> SUFFICES ASSUME triton', server' = "off"
               PROVE  \A x \in Clients : pc'[x] \notin Served
    BY DEF ServedOnceReady
  <2>0. pc \in [Clients -> Locations]
    BY <1>2 DEF DInv, TypeOK
  <2>1. triton /\ server = "off"
    BY <1>2 DEF Next, vars, serverVars, RayInit, LaunchCamera, Pull,
       InitializeReturns, Shutdown, LoadModel, Listen, StopServer, ClientStep,
       Query, Check, Send, Answer, Proceed, CallFails, Fail
  <2>2. \A x \in Clients : pc[x] \notin Served
    BY <1>2, <2>1 DEF ServedOnceReady
  <2>3. ASSUME UNCHANGED pc  PROVE  \A x \in Clients : pc'[x] \notin Served
    BY <2>2, <2>3
  <2>4. CASE RayInit \/ InitializeReturns \/ Shutdown \/ Listen \/ StopServer \/ UNCHANGED vars
    BY <2>3, <2>4 DEF RayInit, InitializeReturns, Shutdown, Listen, StopServer, vars
  <2>5. ASSUME NEW model \in StageModels, LoadModel(model)
        PROVE  \A x \in Clients : pc'[x] \notin Served
    BY <2>3, <2>5 DEF LoadModel
  <2>6. ASSUME NEW cam \in Cameras, LaunchCamera(cam)
        PROVE  \A x \in Clients : pc'[x] \notin Served
    BY <2>0, <2>1, <2>2, <2>6, ClientKinds DEF LaunchCamera, Backend, Served
  <2>7. ASSUME NEW cam \in Cameras, Pull(cam)  PROVE  FALSE
    BY <2>2, <2>7, ClientKinds DEF Pull, Served
  <2>8. ASSUME NEW c \in Clients, ClientStep(c)
        PROVE  \A x \in Clients : pc'[x] \notin Served
    <3>1. CASE Query(c)
      BY <2>0, <2>1, <2>2, <3>1 DEF Query, Served
    <3>2. CASE Check(c)
      BY <2>0, <2>2, <3>2 DEF Check, Served
    <3>3. CASE Send(c) \/ Answer(c) \/ CallFails(c)
      BY <2>2, <3>3 DEF Send, Answer, CallFails, Served
    <3> QED BY <2>8, <3>1, <3>2, <3>3 DEF ClientStep
  <2> QED BY <1>2, <2>4, <2>5, <2>6, <2>7, <2>8 DEF Next
<1> QED BY <1>1, <1>2, DInvCorrect, PTL DEF Spec

-----------------------------------------------------------------------------
\* What ResultsFit says of the i-th of the results s of a client.
FitsAt(c, s, i) ==
    IF c[2] = "task" THEN s[i] = BatchFrameCount \/ (~triton /\ s[i] = 0)
    ELSE IF i = 1 THEN s[1] \in Boxes \/ (~triton /\ s[1] = 0)
    ELSE s[i] = s[i - 1] \/ (~triton /\ s[i] = 0)

LEMMA ResultsFitAt ==
    /\ ResultsFit <=> \A c \in Clients : \A i \in DOMAIN cur[c] : FitsAt(c, cur[c], i)
    /\ triton' = triton =>
         (ResultsFit' <=>
            \A c \in Clients : \A i \in DOMAIN cur'[c] : FitsAt(c, cur'[c], i))
BY DEF ResultsFit, FitsAt

\* One more result that was wanted, or none after a failure in the fallback.
LEMMA ProceedFits ==
    ASSUME DInv, ResultsFit, NEW c \in Clients, NEW items \in Nat,
           items \in Wanted(c) \/ (~triton /\ items = 0), Proceed(c, items)
    PROVE  ResultsFit'
<1> DEFINE s   == cur[c]
           got == Append(cur[c], items)
<1>1. /\ triton' = triton /\ cur \in [Clients -> Seq(Nat)]
      /\ cur' = [cur EXCEPT ![c] = got]
  BY DEF DInv, TypeOK, Proceed, serverVars
<1>2. /\ s \in Seq(Nat) /\ Len(s) \in Nat /\ DOMAIN s = 1..Len(s)
      /\ DOMAIN got = 1..(Len(s) + 1)
      /\ \A i \in 1..Len(s) : got[i] = s[i]
      /\ got[Len(s) + 1] = items
      /\ s = <<>> <=> Len(s) = 0
  BY <1>1
<1> SUFFICES ASSUME NEW x \in Clients, NEW i \in DOMAIN cur'[x]
             PROVE  FitsAt(x, cur'[x], i)
  BY <1>1, ResultsFitAt
<1>3. CASE x # c
  <2>1. cur'[x] = cur[x]
    BY <1>1, <1>3
  <2> QED BY <2>1, ResultsFitAt
<1>4. CASE x = c
  <2>1. cur'[x] = got
    BY <1>1, <1>4
  <2> HIDE DEF got
  <2>2. i \in 1..(Len(s) + 1)
    BY <1>2, <2>1
  <2>3. CASE i \in 1..Len(s)
    <3>1. FitsAt(c, s, i)
      BY <1>2, <2>3, ResultsFitAt
    <3>2. got[i] = s[i] /\ got[1] = s[1] /\ (i # 1 => got[i - 1] = s[i - 1])
      <4>1. 1 \in 1..Len(s) /\ (i # 1 => i - 1 \in 1..Len(s))
        BY <1>2, <2>3
      <4>2. \A k \in 1..Len(s) : got[k] = s[k]
        BY <1>2
      <4> HIDE DEF s
      <4> QED BY <2>3, <4>1, <4>2
    <3> QED BY <1>4, <2>1, <3>1, <3>2 DEF FitsAt
  <2>4. CASE i = Len(s) + 1
    <3>1. got[i] = items
      BY <1>2, <2>4
    <3>2. CASE c[2] = "task"
      <4>1. items = BatchFrameCount \/ (~triton /\ items = 0)
        BY <3>2 DEF Wanted, Request
      <4> QED BY <1>4, <2>1, <3>1, <3>2, <4>1 DEF FitsAt
    <3>3. CASE c[2] = "actor" /\ s = <<>>
      <4>1. i = 1 /\ (items \in Boxes \/ (~triton /\ items = 0))
        BY <1>2, <2>4, <3>3 DEF Wanted
      <4> QED BY <1>4, <2>1, <3>1, <3>3, <4>1 DEF FitsAt
    <3>4. CASE c[2] = "actor" /\ s # <<>>
      <4>1. i # 1 /\ i - 1 = Len(s) /\ i - 1 \in 1..Len(s)
        BY <1>2, <2>4, <3>4
      <4>2. items = s[Len(s)] \/ (~triton /\ items = 0)
        BY <3>4 DEF Wanted, Request, Last
      <4>3. got[i - 1] = s[Len(s)]
        BY <1>2, <4>1
      <4> QED BY <1>4, <2>1, <3>1, <3>4, <4>1, <4>2, <4>3 DEF FitsAt
    <3> QED BY <3>2, <3>3, <3>4, ClientKinds
  <2> QED BY <1>2, <2>2, <2>3, <2>4
<1> QED BY <1>3, <1>4

\* Every result fits what was asked, and with Triton none is made up.
THEOREM ResultsFitCorrect == Spec => []ResultsFit
<1>1. Init => ResultsFit
  BY DEF Init, ResultsFit
<1>2. ASSUME DInv, ResultsFit, [Next]_vars  PROVE  ResultsFit'
  <2>1. ASSUME UNCHANGED <<triton, cur>>  PROVE  ResultsFit'
    BY <1>2, <2>1 DEF ResultsFit
  <2>2. CASE RayInit \/ InitializeReturns \/ Shutdown \/ Listen \/ StopServer \/ UNCHANGED vars
    BY <2>1, <2>2 DEF RayInit, InitializeReturns, Shutdown, Listen, StopServer,
       vars, serverVars
  <2>3. ASSUME NEW model \in StageModels, LoadModel(model)  PROVE  ResultsFit'
    BY <2>1, <2>3 DEF LoadModel
  <2>4. ASSUME NEW cam \in Cameras, LaunchCamera(cam)  PROVE  ResultsFit'
    BY <2>1, <2>4 DEF LaunchCamera
  <2>5. ASSUME NEW cam \in Cameras, Pull(cam)  PROVE  ResultsFit'
    <3> DEFINE a == <<cam, "actor">>
    <3>1. /\ triton' = triton /\ cur \in [Clients -> Seq(Nat)]
          /\ cur' = [cur EXCEPT ![a] = <<>>]
      BY <1>2, <2>5 DEF Pull, serverVars, DInv, TypeOK
    <3>2. a \in Clients
      BY ClientKinds
    <3> HIDE DEF a
    <3> SUFFICES ASSUME NEW x \in Clients, NEW i \in DOMAIN cur'[x]
                 PROVE  FitsAt(x, cur'[x], i)
      BY <3>1, ResultsFitAt
    <3>3. cur'[a] = <<>>
      BY <3>1, <3>2
    <3>4. DOMAIN cur'[a] = {}
      BY <3>3
    <3>5. x # a
      BY <3>4
    <3>6. cur'[x] = cur[x]
      BY <3>1, <3>5
    <3> QED BY <1>2, <3>6, ResultsFitAt
  <2>6. ASSUME NEW c \in Clients, ClientStep(c)  PROVE  ResultsFit'
    <3>1. CASE Query(c) \/ Check(c) \/ Send(c)
      BY <2>1, <3>1 DEF Query, Check, Send, serverVars
    <3>2. CASE Answer(c)
      <4>1. PICK items \in Wanted(c) : Proceed(c, items)
        BY <1>2, <3>2, AnswerFits
      <4>2. items \in Nat
        BY <1>2, WantedIsNat
      <4> QED BY <1>2, <4>1, <4>2, ProceedFits
    <3>3. CASE CallFails(c)
      <4>1. CASE triton
        BY <2>1, <3>3, <4>1 DEF CallFails, Fail, serverVars
      <4>2. CASE ~triton
        <5>1. Proceed(c, 0)
          BY <3>3, <4>2 DEF CallFails, Fail
        <5> QED BY <1>2, <4>2, <5>1, ProceedFits
      <4> QED BY <4>1, <4>2
    <3> QED BY <2>6, <3>1, <3>2, <3>3 DEF ClientStep
  <2> QED BY <1>2, <2>2, <2>3, <2>4, <2>5, <2>6 DEF Next
<1> QED BY <1>1, <1>2, DInvCorrect, PTL DEF Spec
=============================================================================
