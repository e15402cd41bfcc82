----------------------------- MODULE Deployment -----------------------------
(***************************************************************************)
(* How experiment A comes up, works and goes down, with the server inside  *)
(* or beside the pipeline:                                                 *)
(*   - Triton: the pipeline model's initialize() starts nested Ray and the *)
(*     actors; the actors call back into the very server that listens only *)
(*     after initialize() has returned, so their backend polls it first;   *)
(*   - the fallback: run_parent with the mock server, whose clients do not *)
(*     wait for it and take a failed call for an empty result.             *)
(* Followed are, per camera, the analysis actor in stress mode and the     *)
(* violence_task of its first batch. What the server answers is            *)
(* StageHandlers; how many calls it serves at a time is InferenceServer.   *)
(***************************************************************************)
EXTENDS StageHandlers, SequencesExt

CONSTANTS
    Cameras,
    BatchFrameCount,   \* batch_frame_count
    ViolenceCalls,     \* violence_num_calls
    ReadyTimeout,      \* ready_timeout_s, in units of the poll's sleep
    MaxFrames          \* bound: frames of a camera

ASSUME BatchAssumption    == BatchFrameCount \in Nat \ {0}
ASSUME ViolenceAssumption == ViolenceCalls \in Nat \ {0}
ASSUME TimeoutAssumption  == ReadyTimeout \in Nat
\* One batch for each camera.
ASSUME FramesAssumption   == MaxFrames \in Nat /\ MaxFrames < 2 * BatchFrameCount

VARIABLES
    triton,    \* the Triton path, and not the fallback
    driver,    \* "start", "launching", "up", "down": initialize() or run()
    launched,  \* the cameras whose actors have been created
    loaded,    \* the models Triton has loaded
    server,    \* "off", "listening", "stopped"
    pc,        \* of each client
    waited,    \* of each client: time.monotonic() since its poll began
    frames,    \* of each camera: frames pulled
    cur        \* of each client: items of the results it has got, in order

serverVars == <<triton, driver, launched, loaded, server>>
vars == <<serverVars, pc, waited, frames, cur>>

Clients == Cameras \X {"actor", "task"}

\* The directories of triton/models. But for the pipeline's, initialize() only
\* reads the configuration.
StageModels == Stages \cup {"falldown"}

Models == StageModels \cup {"pipeline"}

\* "none": not created; "query", "check": in TritonInferenceBackend.__init__;
\* "pull": start_analysis between two frames; "call": about to call a stage;
\* "wait": in that call; "ended": violence_task returned; "dead": by an
\* exception.
Locations == {"none", "query", "check", "pull", "call", "wait", "ended", "dead"}

Init ==
    /\ triton \in BOOLEAN
    /\ driver = "start"
    /\ launched = {} /\ loaded = {}
    /\ server = "off"
    /\ pc = [c \in Clients |-> "none"]
    /\ waited = [c \in Clients |-> 0]
    /\ frames = [cam \in Cameras |-> 0]
    /\ cur = [c \in Clients |-> <<>>]

-----------------------------------------------------------------------------
\* The driver: TritonPythonModel.initialize and finalize, run_parent.run.

RayInit ==
    /\ driver = "start"
    /\ driver' = "launching"
    /\ UNCHANGED <<triton, launched, loaded, server, pc, waited, frames, cur>>

\* Where a client goes on when its backend has been made.
Begin(c) == IF c[2] = "actor" THEN "pull" ELSE "call"

\* create_inference_backend: one for Triton polls, an InferenceClient does
\* not even connect.
Backend(c) == IF triton THEN "query" ELSE Begin(c)

\* AnalysisActor.remote and start_analysis.remote: neither is waited for.
LaunchCamera(cam) ==
    /\ driver = "launching"
    /\ cam \notin launched
    /\ launched' = launched \cup {cam}
    /\ pc' = [pc EXCEPT ![<<cam, "actor">>] = Backend(<<cam, "actor">>)]
    /\ UNCHANGED <<triton, driver, loaded, server, waited, frames, cur>>

\* A client past its constructor, and one still in it.
Served == {"pull", "call", "wait", "ended"}
Polling(c) == pc[c] \in {"query", "check"}

\* MUTANT of InitializeReturns: ray.get of every actor's constructor, which
\* raises if that has failed.
InitializeReturnsLast ==
    /\ driver = "launching"
    /\ launched = Cameras
    /\ \A cam \in Cameras : pc[<<cam, "actor">>] \in Served
    /\ driver' = "up"
    /\ loaded' = loaded \cup (IF triton THEN {"pipeline"} ELSE {})
    /\ UNCHANGED <<triton, launched, server, pc, waited, frames, cur>>

InitializeReturns ==
    /\ driver = "launching"
    /\ launched = Cameras
    /\ driver' = "up"
    /\ loaded' = loaded \cup (IF triton THEN {"pipeline"} ELSE {})
    /\ UNCHANGED <<triton, launched, server, pc, waited, frames, cur>>

\* finalize() when Triton stops, the end of run(): ray.shutdown kills actors
\* and tasks wherever they are.
Shutdown ==
    /\ driver = "up"
    /\ triton => server = "stopped"
    /\ driver' = "down"
    /\ UNCHANGED <<triton, launched, loaded, server, pc, waited, frames, cur>>

-----------------------------------------------------------------------------
\* The server.

\* initialize() of a model that calls nobody.
LoadModel(model) ==
    /\ triton
    /\ model \in StageModels \ loaded
    /\ loaded' = loaded \cup {model}
    /\ UNCHANGED <<triton, driver, launched, server, pc, waited, frames, cur>>

\* Triton listens once every model is loaded; serve() when it gets to it.
Listen ==
    /\ server = "off"
    /\ triton => loaded = Models
    /\ server' = "listening"
    /\ UNCHANGED <<triton, driver, launched, loaded, pc, waited, frames, cur>>

\* docker compose down, or KeyboardInterrupt: stop(0) cancels every call.
StopServer ==
    /\ server = "listening"
    /\ server' = "stopped"
    /\ UNCHANGED <<triton, driver, launched, loaded, pc, waited, frames, cur>>

-----------------------------------------------------------------------------
\* A client: the poll of TritonInferenceBackend.__init__.

\* MUTANT of Query: the deadline is tested before the server is asked.
QueryInTime(c) ==
    /\ driver # "down"
    /\ pc[c] = "query"
    /\ pc' = [pc EXCEPT ![c] = IF waited[c] >= ReadyTimeout THEN "dead"
                               ELSE IF server = "listening" THEN Begin(c)
                               ELSE "check"]
    /\ UNCHANGED <<serverVars, waited, frames, cur>>

\* MUTANT of Query: the poll is left out.
QuerySkipped(c) ==
    /\ driver # "down"
    /\ pc[c] = "query"
    /\ pc' = [pc EXCEPT ![c] = Begin(c)]
    /\ UNCHANGED <<serverVars, waited, frames, cur>>

\* is_server_ready.
Query(c) ==
    /\ driver # "down"
    /\ pc[c] = "query"
    /\ pc' = [pc EXCEPT ![c] = IF server = "listening" THEN Begin(c) ELSE "check"]
    /\ UNCHANGED <<serverVars, waited, frames, cur>>

\* MUTANT of Check: one more sleep after the deadline.
CheckLate(c) ==
    /\ driver # "down"
    /\ pc[c] = "check"
    /\ IF waited[c] > ReadyTimeout
         THEN pc' = [pc EXCEPT ![c] = "dead"] /\ UNCHANGED waited
         ELSE /\ pc' = [pc EXCEPT ![c] = "query"]
              /\ waited' = [waited EXCEPT ![c] = @ + 1]
    /\ UNCHANGED <<serverVars, frames, cur>>

\* The deadline: raise RuntimeError, or sleep(1.0) and ask again.
Check(c) ==
    /\ driver # "down"
    /\ pc[c] = "check"
    /\ IF waited[c] >= ReadyTimeout
         THEN pc' = [pc EXCEPT ![c] = "dead"] /\ UNCHANGED waited
         ELSE /\ pc' = [pc EXCEPT ![c] = "query"]
              /\ waited' = [waited EXCEPT ![c] = @ + 1]
    /\ UNCHANGED <<serverVars, frames, cur>>

-----------------------------------------------------------------------------
\* A client at work.

\* start_analysis has got a frame from its stream.
Pull(cam) ==
    LET c == <<cam, "actor">> IN
    /\ driver # "down"
    /\ pc[c] = "pull"
    /\ frames[cam] < MaxFrames
    /\ frames' = [frames EXCEPT ![cam] = @ + 1]
    /\ cur' = [cur EXCEPT ![c] = <<>>]
    /\ pc' = [pc EXCEPT ![c] = "call"]
    /\ UNCHANGED <<serverVars, waited>>

\* The calls of _process_frame and of violence_task, in their order.
Calls(c) ==
    IF c[2] = "actor" THEN <<"detect", "track", "pose">>
    ELSE [i \in 1..ViolenceCalls |-> "violence"]

\* The tracks of the detections, the poses of the tracks, a batch's results.
Request(c) ==
    [stage |-> Calls(c)[Len(cur[c]) + 1],
     items |-> IF c[2] = "task" THEN BatchFrameCount
               ELSE IF cur[c] = <<>> THEN 1 ELSE Last(cur[c])]

Send(c) ==
    /\ driver # "down"
    /\ pc[c] = "call"
    /\ server = "listening"
    /\ pc' = [pc EXCEPT ![c] = "wait"]
    /\ UNCHANGED <<serverVars, waited, frames, cur>>

\* The client goes on with the items; after its last call the actor hands a
\* full batch to a violence_task and pulls again.
Proceed(c, items) ==
    LET got   == Append(cur[c], items)
        ended == Len(got) = Len(Calls(c))
        full  == ended /\ c[2] = "actor" /\ frames[c[1]] = BatchFrameCount
        next  == IF ~ended THEN "call" ELSE IF c[2] = "actor" THEN "pull" ELSE "ended"
        task  == <<c[1], "task">> IN
    /\ cur' = [cur EXCEPT ![c] = got]
    /\ pc' = [x \in Clients |->
                IF x = c THEN next
                ELSE IF full /\ x = task THEN Backend(task)
                ELSE pc[x]]
    /\ UNCHANGED <<serverVars, waited, frames>>

\* Triton ends the inferences under way when it is stopped.
Answer(c) ==
    /\ driver # "down"
    /\ pc[c] = "wait"
    /\ triton \/ server = "listening"
    /\ IF triton
         THEN \E responses \in Execute(Request(c).stage, <<Request(c)>>) :
                Proceed(c, responses[1])
         ELSE \E items \in Handle(Request(c)) : Proceed(c, items)

\* A failed call: the exception ends a Triton client; InferenceClient goes on
\* without items.
Fail(c) ==
    IF triton THEN /\ pc' = [pc EXCEPT ![c] = "dead"]
                   /\ UNCHANGED <<serverVars, waited, frames, cur>>
    ELSE Proceed(c, 0)

\* MUTANT of CallFails: calls wait for a server that does not listen.
CallFailsOnTimeout(c) ==
    /\ driver # "down"
    /\ pc[c] = "wait"
    /\ Fail(c)

\* The server does not listen, or not any more, or the call's time is up.
CallFails(c) ==
    /\ driver # "down"
    /\ pc[c] = "wait" \/ (pc[c] = "call" /\ server # "listening")
    /\ Fail(c)

-----------------------------------------------------------------------------
ClientStep(c) == Query(c) \/ Check(c) \/ Send(c) \/ Answer(c) \/ CallFails(c)

Next ==
    \/ RayInit
    \/ \E cam \in Cameras : LaunchCamera(cam) \/ Pull(cam)
    \/ InitializeReturns
    \/ Shutdown
    \/ \E model \in StageModels : LoadModel(model)
    \/ Listen
    \/ StopServer
    \/ \E c \in Clients : ClientStep(c)

Spec == Init /\ [][Next]_vars

\* Processes go on, and a call ends in an answer or a failure. Nobody has to
\* stop anything, and the camera owes no frame.
FairSpec ==
    /\ Spec
    /\ WF_vars(RayInit) /\ WF_vars(InitializeReturns) /\ WF_vars(Listen)
    /\ \A cam \in Cameras : WF_vars(LaunchCamera(cam))
    /\ \A model \in StageModels : WF_vars(LoadModel(model))
    /\ \A c \in Clients : WF_vars(ClientStep(c))

-----------------------------------------------------------------------------
\* Type invariant; no more results than calls, no sleep after the deadline.
TypeOK ==
    /\ triton \in BOOLEAN
    /\ driver \in {"start", "launching", "up", "down"}
    /\ launched \subseteq Cameras /\ loaded \subseteq Models
    /\ server \in {"off", "listening", "stopped"}
    /\ pc \in [Clients -> Locations]
    /\ waited \in [Clients -> 0..ReadyTimeout]
    /\ frames \in [Cameras -> 0..MaxFrames]
    /\ cur \in [Clients -> Seq(Nat)]
    /\ \A c \in Clients : Len(cur[c]) <= Len(Calls(c))

\* What the comment in TritonInferenceBackend.__init__ is afraid of: no actor
\* and no task gets to a call, which would be refused and kill it, before the
\* server listens. The fallback has no such promise.
ServedOnceReady ==
    triton /\ server = "off" => \A c \in Clients : pc[c] \notin Served

\* Results fit what was asked: as many tracks as detections, as many poses as
\* tracks, a result for each frame of the batch. A failed call of a mock
\* client leaves no items, which every later stage of the frame inherits; with
\* Triton no result is ever made up.
ResultsFit ==
    LET fits(items, expected) == items = expected \/ (~triton /\ items = 0) IN
    \A c \in Clients : \A i \in DOMAIN cur[c] :
        IF c[2] = "task" THEN fits(cur[c][i], BatchFrameCount)
        ELSE IF i = 1 THEN cur[c][1] \in Boxes \/ (~triton /\ cur[c][1] = 0)
        ELSE fits(cur[c][i], cur[c][i - 1])

\* The server inside waits for the pipeline and the pipeline's actors wait for
\* the server: still the server comes up.
ServerComesUp == triton ~> (server # "off")

\* A poll ends, and when the server listens it ends well, even if that is
\* after the deadline.
PollEnds ==
    \A c \in Clients :
        /\ Polling(c) ~> (~Polling(c) \/ driver = "down")
        /\ (pc[c] = "query" /\ server = "listening")
             ~> (pc[c] \in Served
                 \/ server = "stopped" \/ driver = "down")

\* Work comes to an end, whatever fails and whoever stops the server. In the
\* fallback it is never by death: every frame pulled gets through its stages
\* and is counted as a frame, one whose calls all failed as well.
WorkEnds ==
    \A c \in Clients :
        (pc[c] \in {"call", "wait"})
            ~> (pc[c] \in {"pull", "ended"} \/ (triton /\ pc[c] = "dead")
                \/ driver = "down")
=============================================================================
