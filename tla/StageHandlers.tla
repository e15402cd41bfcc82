---------------------------- MODULE StageHandlers ----------------------------
(***************************************************************************)
(* What the stages answer, in the mock server (inference_mock/server.py)   *)
(* and in the Triton models (triton/models/*/1/model.py). Coordinates,     *)
(* confidences and keypoints are random or constant; what goes from stage  *)
(* to stage, and from the server to the recorder, is how many items there  *)
(* are. A handler maps a request to the numbers of items it may answer.    *)
(***************************************************************************)
EXTENDS Naturals, Sequences

CONSTANTS Boxes   \* dummy detections of a frame: randint(5, 11) is 5 to 10

ASSUME BoxesAssumption == Boxes # {} /\ Boxes \subseteq Nat \ {0}

Stages == {"detect", "track", "pose", "violence"}

-----------------------------------------------------------------------------
\* MockInferenceServicer: one request at a time.

Detect(request) == Boxes

\* One track for each detection of the request.
Track(request) == {request.items}

\* One pose for each track of the request.
Pose(request) == {request.items}

\* One result for each of the batch_size frames.
BatchViolence(request) == {request.items}

Handle(request) ==
    CASE request.stage = "detect"   -> Detect(request)
      [] request.stage = "track"    -> Track(request)
      [] request.stage = "pose"     -> Pose(request)
      [] request.stage = "violence" -> BatchViolence(request)

-----------------------------------------------------------------------------
\* TritonPythonModel.execute: a list of requests, one response for each. The
\* caller matches them by their place in the list.

\* detect: OUTPUT_COUNT.
ExecuteDetect(requests) == [DOMAIN requests -> Boxes]

\* MUTANT of ExecuteTrack: the count is drawn anew.
ExecuteTrackAnew(requests) == [DOMAIN requests -> Boxes]

\* track: INPUT_COUNT comes back as OUTPUT_COUNT.
ExecuteTrack(requests) == {[i \in DOMAIN requests |-> requests[i].items]}

\* pose: as track.
ExecutePose(requests) == {[i \in DOMAIN requests |-> requests[i].items]}

\* violence: BATCH_SIZE comes back as RESULT_COUNT.
ExecuteViolence(requests) == {[i \in DOMAIN requests |-> requests[i].items]}

Execute(model, requests) ==
    CASE model = "detect"   -> ExecuteDetect(requests)
      [] model = "track"    -> ExecuteTrack(requests)
      [] model = "pose"     -> ExecutePose(requests)
      [] model = "violence" -> ExecuteViolence(requests)
=============================================================================
