---------------------------- MODULE AnalysisActor ----------------------------
(***************************************************************************)
(* One camera's analysis actor with the stream it pulls from and the       *)
(* utility tasks that call back into it.                                   *)
(*                                                                         *)
(* start_analysis never returns: it pulls a frame from the StreamActor,    *)
(* runs it through the stages, hands every full batch to two               *)
(* fire-and-forget tasks and, when the event interval has passed, starts a *)
(* utility_task that asks this same actor for its recorder. In a sync      *)
(* actor (nested AnalysisActor, SyncAnalysisActor) that request waits for  *)
(* the dispatch thread start_analysis occupies; in AsyncAnalysisActor it   *)
(* runs when the loop awaits. process_frame contains no await.             *)
(*                                                                         *)
(* The stream is the FrameChannel that module StreamActor implements. A    *)
(* call made with .remote() on another actor is a message that arrives     *)
(* later; only the answers the actor waits for have a step of their own.   *)
(*                                                                         *)
(* All tasks share the num_cpus of ray.init. A task needs a CPU to start   *)
(* and gives it back while it waits in ray.get.                            *)
(***************************************************************************)
EXTENDS RecorderOps, FiniteSets, SequencesExt

CONSTANTS
    BatchFrameCount,   \* batch_frame_count
    Fps,               \* fps
    NumCpus,           \* num_cpus
    EventInterval,     \* event_trigger_interval, in clock ticks
    MaxFrames          \* bound: frames the stream produces

\* Without room for an entry the two recorders differ (see FrameRecorder).
ASSUME RecorderAssumption == MaxRecorded > 0
ASSUME BatchAssumption  == BatchFrameCount \in Nat \ {0}
ASSUME FpsAssumption    == Fps \in Nat \ {0}
ASSUME CpusAssumption   == NumCpus \in Nat \ {0}
ASSUME EventAssumption  == EventInterval \in Nat \ {0}
ASSUME FramesAssumption == MaxFrames \in Nat

VARIABLES
    next, pending, received,  \* the stream, see FrameChannel
    pc,           \* where start_analysis is
    cur,          \* the frame_id of the frame in hand
    frameCount,   \* self.frame_count
    recorder,     \* self.recorder, as frame_ids
    batchBuffer,  \* self.batch_buffer, as frame_ids
    batches,      \* history: batches given to violence_task, falldown_task
    batchQueued,  \* violence and falldown tasks that have no CPU yet
    batchRunning, \* violence and falldown tasks that run
    sinceEvent,   \* ticks since last_event_time, EventInterval at most
    scheduled,    \* utility tasks started, get_recorder not called yet
    waiting,      \* get_recorder calls queued at this actor
    answered,     \* utility tasks with a snapshot, event not recorded yet
    framesReported, \* record_frame_processed messages sent
    eventsReported, \* record_event messages sent
    snapshot,     \* history: the last get_recorder answer, and frame_count
    variant       \* which actor the driver started, with which flags

streamVars == <<next, pending, received>>
taskVars   == <<scheduled, waiting, answered, eventsReported>>
batchVars  == <<batchQueued, batchRunning>>
frameVars  == <<cur, frameCount, recorder, batchBuffer, batches, framesReported>>
vars == <<streamVars, pc, frameVars, batchVars, sinceEvent, taskVars, snapshot,
          variant>>

Stream == INSTANCE FrameChannel

\* "pull": waiting for get_frame; "sleep": after None; "fetch": waiting for
\* the frame; "detect", "track", "pose": in that inference call; "done": the
\* frame went through all stages; "dead": start_analysis ended by exception.
Locations == {"pull", "sleep", "fetch", "detect", "track", "pose", "done", "dead"}

\* The awaits of AsyncAnalysisActor.start_analysis.
AwaitPoints == {"pull", "sleep", "fetch"}

\* async: use_async_actor; deque: use_deque_recorder; stress: workload_mode;
\* raises: a failed inference raises (TritonInferenceBackend) and does not
\* return [] (InferenceClient). Triton is the backend of nested actors only.
Variants ==
    {v \in [async : BOOLEAN, deque : BOOLEAN, stress : BOOLEAN, raises : BOOLEAN] :
        v.raises => ~v.async /\ ~v.deque}

Init ==
    /\ variant \in Variants
    /\ Stream!Init
    /\ pc = "pull"
    /\ cur = 0
    /\ frameCount = 0
    /\ recorder = <<>>
    /\ batchBuffer = <<>>
    /\ batches = <<>>
    /\ batchQueued = 0 /\ batchRunning = 0
    /\ sinceEvent = 0
    /\ scheduled = 0 /\ waiting = 0 /\ answered = 0
    /\ framesReported = 0 /\ eventsReported = 0
    /\ snapshot = [count |-> 0, frames |-> <<>>, loopAlive |-> TRUE]

-----------------------------------------------------------------------------
\* The environment: the camera and the clock.

StreamStep ==
    /\ \/ next < MaxFrames /\ Stream!Produce
       \/ Stream!Lose
    /\ UNCHANGED <<pc, frameVars, batchVars, sinceEvent, taskVars, snapshot, variant>>

Tick ==
    /\ sinceEvent < EventInterval
    /\ sinceEvent' = sinceEvent + 1
    /\ UNCHANGED <<streamVars, pc, frameVars, batchVars, taskVars, snapshot, variant>>

-----------------------------------------------------------------------------
\* start_analysis.

PullNone ==
    /\ pc = "pull"
    /\ pc' = "sleep"
    /\ UNCHANGED <<streamVars, frameVars, batchVars, sinceEvent, taskVars, snapshot,
                   variant>>

Wake ==
    /\ pc = "sleep"
    /\ pc' = "pull"
    /\ UNCHANGED <<streamVars, frameVars, batchVars, sinceEvent, taskVars, snapshot,
                   variant>>

PullFrame ==
    /\ pc = "pull"
    /\ Stream!Receive
    /\ cur' = Last(received')
    /\ pc' = "fetch"
    /\ UNCHANGED <<frameCount, recorder, batchBuffer, batches, framesReported,
                   batchVars, sinceEvent, taskVars, snapshot, variant>>

FetchFrame ==
    /\ pc = "fetch"
    /\ pc' = "detect"
    /\ UNCHANGED <<streamVars, frameVars, batchVars, sinceEvent, taskVars, snapshot,
                   variant>>

\* An inference call of the stage fails: the exception ends start_analysis,
\* or InferenceClient turns it into an empty result and the stage goes on.
InferFails(stage) ==
    /\ variant.raises
    /\ pc = stage
    /\ pc' = "dead"
    /\ UNCHANGED <<streamVars, frameVars, batchVars, sinceEvent, taskVars, snapshot,
                   variant>>

Detect ==
    /\ pc = "detect"
    /\ pc' = "track"
    /\ UNCHANGED <<streamVars, frameVars, batchVars, sinceEvent, taskVars, snapshot,
                   variant>>

\* MUTANT of RecorderAppend: a recorder that never drops an entry.
RecorderAppendUncut(r, e) == Append(r, e)

\* build_recorder: the flag picks the container.
RecorderAppend(r, e) ==
    IF variant.deque THEN DequeAppend(r, e) ELSE NpAppend(r, e)

\* In idle mode process_frame returns after tracking.
Track ==
    /\ pc = "track"
    /\ IF variant.stress
         THEN /\ recorder' = RecorderAppend(recorder, cur)
              /\ pc' = "pose"
         ELSE /\ pc' = "done"
              /\ UNCHANGED recorder
    /\ UNCHANGED <<streamVars, cur, frameCount, batchBuffer, batches,
                   framesReported, batchVars, sinceEvent, taskVars, snapshot, variant>>

\* MUTANT of FillBatch: the buffer is handed over but not cleared.
FillBatchKeeps ==
    LET filled == Append(batchBuffer, cur) IN
    IF Len(filled) >= BatchFrameCount
      THEN /\ batches' = Append(batches, filled)
           /\ batchQueued' = batchQueued + 2
           /\ batchBuffer' = Tail(filled)
      ELSE /\ batchBuffer' = filled
           /\ UNCHANGED <<batches, batchQueued>>

\* The batch is copied and cleared before the two tasks are started with it.
FillBatch ==
    LET filled == Append(batchBuffer, cur) IN
    IF Len(filled) >= BatchFrameCount
      THEN /\ batches' = Append(batches, filled)
           /\ batchQueued' = batchQueued + 2
           /\ batchBuffer' = <<>>
      ELSE /\ batchBuffer' = filled
           /\ UNCHANGED <<batches, batchQueued>>

\* pose, the busy-waits of intrusion and loitering, and the batch.
Pose ==
    /\ pc = "pose"
    /\ FillBatch
    /\ pc' = "done"
    /\ UNCHANGED <<streamVars, cur, frameCount, recorder, framesReported,
                   batchRunning, sinceEvent, taskVars, snapshot, variant>>

\* _maybe_report_self_metrics.
MaybeReport ==
    framesReported' = framesReported + (IF frameCount % Fps = 0 THEN 1 ELSE 0)

\* _maybe_trigger_event.
MaybeTriggerEvent ==
    IF sinceEvent < EventInterval
      THEN UNCHANGED <<sinceEvent, scheduled>>
      ELSE /\ sinceEvent' = 0
           /\ scheduled' = scheduled + 1

\* on_frame_done (standalone), the end of the loop body (nested).
FrameDone ==
    /\ pc = "done"
    /\ MaybeReport
    /\ MaybeTriggerEvent
    /\ frameCount' = frameCount + 1
    /\ pc' = "pull"
    /\ UNCHANGED <<streamVars, cur, recorder, batchBuffer, batches, batchVars,
                   waiting, answered, eventsReported, snapshot, variant>>

-----------------------------------------------------------------------------
\* violence_task and falldown_task; what they do is InferenceServer's.

CpuFree == batchRunning < NumCpus

StartBatchTask ==
    /\ batchQueued > 0
    /\ CpuFree
    /\ batchQueued' = batchQueued - 1
    /\ batchRunning' = batchRunning + 1
    /\ UNCHANGED <<streamVars, pc, frameVars, sinceEvent, taskVars, snapshot, variant>>

\* It returns or fails; nobody has its result or its exception.
EndBatchTask ==
    /\ batchRunning > 0
    /\ batchRunning' = batchRunning - 1
    /\ UNCHANGED <<streamVars, pc, frameVars, batchQueued, sinceEvent, taskVars,
                   snapshot, variant>>

-----------------------------------------------------------------------------
\* utility_task, in a worker of its own, and the actor's get_recorder.

CallGetRecorder ==
    /\ scheduled > 0
    /\ CpuFree
    /\ scheduled' = scheduled - 1
    /\ waiting' = waiting + 1
    /\ UNCHANGED <<streamVars, pc, frameVars, batchVars, sinceEvent, answered,
                   eventsReported, snapshot, variant>>

\* MUTANT of CanDispatch: the event loop runs other methods in any stage, as
\* if the inference calls were awaited.
CanDispatchAnywhere == pc = "dead" \/ variant.async

\* MUTANT of CanDispatch: an async actor whose loop blocks in ray.get.
CanDispatchAfterLoop == pc = "dead"

\* MUTANT of CanDispatch: the dispatch thread is lost with the exception.
CanDispatchNever == variant.async /\ pc \in AwaitPoints

\* When Ray can run another method of the actor: a sync actor's only thread
\* is in start_analysis until that ends; an event loop is free at an await.
CanDispatch == pc = "dead" \/ (variant.async /\ pc \in AwaitPoints)

GetRecorder ==
    /\ waiting > 0
    /\ CanDispatch
    /\ waiting' = waiting - 1
    /\ answered' = answered + 1
    /\ snapshot' = [count |-> frameCount, frames |-> recorder,
                    loopAlive |-> pc # "dead"]
    /\ UNCHANGED <<streamVars, pc, frameVars, batchVars, sinceEvent, scheduled,
                   eventsReported, variant>>

\* The event is recorded only once the snapshot has arrived.
RecordEvent ==
    /\ answered > 0
    /\ answered' = answered - 1
    /\ eventsReported' = eventsReported + 1
    /\ UNCHANGED <<streamVars, pc, frameVars, batchVars, sinceEvent, scheduled, waiting,
                   snapshot, variant>>

-----------------------------------------------------------------------------
LoopStep == PullNone \/ Wake \/ PullFrame \/ FetchFrame \/ Detect \/ Track
            \/ Pose \/ FrameDone

Next ==
    \/ StreamStep
    \/ Tick
    \/ LoopStep
    \/ \E stage \in {"detect", "track", "pose"} : InferFails(stage)
    \/ StartBatchTask
    \/ EndBatchTask
    \/ CallGetRecorder
    \/ GetRecorder
    \/ RecordEvent

Spec == Init /\ [][Next]_vars

\* The actor's process, the workers and the clock keep running; an event loop
\* serves a ready method at the latest after finitely many awaits it could
\* have served it at, hence the strong fairness of GetRecorder. A batch task
\* ends as its calls do (InferenceServer), and a task gets a CPU that stays
\* free. The camera and inference failures owe nothing.
FairSpec ==
    /\ Spec
    /\ WF_vars(LoopStep)
    /\ WF_vars(Tick)
    /\ WF_vars(StartBatchTask)
    /\ WF_vars(EndBatchTask)
    /\ WF_vars(CallGetRecorder)
    /\ SF_vars(GetRecorder)
    /\ WF_vars(RecordEvent)

-----------------------------------------------------------------------------
Triggered == scheduled + waiting + answered + eventsReported

\* Frames that went through on_frame_done.
Processed == SubSeq(received, 1, frameCount)

\* Type invariant; the recorder never outgrows recorder_max_frames.
TypeOK ==
    /\ next \in Nat /\ pending \subseteq Nat /\ received \in Seq(Nat)
    /\ pc \in Locations
    /\ cur \in Nat /\ frameCount \in Nat
    /\ recorder \in Seq(Nat) /\ Len(recorder) <= MaxRecorded
    /\ batchBuffer \in Seq(Nat)
    /\ batches \in Seq(Seq(Nat))
    /\ batchQueued \in Nat /\ batchRunning \in 0..NumCpus
    /\ sinceEvent \in 0..EventInterval
    /\ {scheduled, waiting, answered, framesReported, eventsReported} \subseteq Nat
    /\ variant \in Variants
    /\ snapshot \in [count : Nat, frames : Seq(Nat), loopAlive : BOOLEAN]

\* A snapshot served while the loop runs is taken between two frames: it holds
\* exactly the last recorder_max_frames frames that were fully processed and
\* counted, never the one in the stages.
SnapshotBetweenFrames ==
    variant.stress /\ snapshot.loopAlive =>
        snapshot.frames = LastRecorded(SubSeq(received, 1, snapshot.count))

\* The batches and the rest in the buffer are the processed frames, each once
\* and in order, every batch of exactly batch_frame_count frames. Only a frame
\* past its pose stage is in there without being counted yet.
BatchesPartition ==
    variant.stress =>
        /\ \A k \in DOMAIN batches : Len(batches[k]) = BatchFrameCount
        /\ Len(batchBuffer) < BatchFrameCount
        /\ FlattenSeq(batches) \o batchBuffer =
             IF pc = "done" THEN Append(Processed, cur) ELSE Processed

\* An async actor's events are counted: every utility task it started is
\* answered at some await, however few frames are still to come, and then told
\* to events_triggered_total, with one CPU for all.
EventsCounted ==
    \A k \in 1..MaxFrames :
        (variant.async /\ Triggered >= k) ~> (eventsReported >= k)

\* An inference exception ends the loop of a sync actor and so frees its
\* dispatch thread: the get_recorder calls that hung until then are answered.
DeathReleasesTasks == (pc = "dead" /\ waiting > 0) ~> (waiting = 0)

\* "Total frames processed": between two frames, frames_processed_total has
\* been told of every frame that was processed.
FramesCounted == pc = "pull" => framesReported = frameCount
=============================================================================
