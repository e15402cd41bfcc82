# A verification of ray-multiprocessing in TLA+

The repository compares two ways to run a video-analysis pipeline on Ray: *nested* (experiment A, Ray
started inside a Triton python backend, with the structural problems of an original system reproduced on
purpose) and *standalone* (experiment B, the same pipeline with improvement flags). What makes the
comparison worth anything is that the two do the same work: the same frames in the same order, the same
recorder content, every batch once, metrics that mean what they are named after. These modules state such
properties of the code, TLC checks them on small instances, and TLAPS proves every safety property that holds
for every instance.

## 1. Inventory

| Component | Code | State | Operations | Talks to |
|---|---|---|---|---|
| FramePool, FrameSequence | `benchmark/common/frame_generator.py` | `pool_index`, `frame_id` | `get_frame`, `next_frame` | called by the producer thread, without a lock |
| StreamActor (two of them) | `benchmark/nested/actors.py:56-106`, `benchmark/standalone/actors.py:66-136` | `_running`, thread, `buffer` (bounded deque), lock | `start_streaming`, `stop`, `get_frame`, the thread's `_streaming_loop` | object store (`ray.put`), analysis actor (pull) |
| Analysis actors | `nested/actors.py:147-276`, `standalone/actors.py:139-347` | `recorder`, `batch_buffer`, `frame_count`, `last_event_time` | `start_analysis` (never returns), `get_recorder` | StreamActor, inference backend, tasks, MetricsActor |
| Recorders | `common/stages.py:291-368`, `standalone/recorder.py` | array or deque | `append`, `get_all`, `clear` | in the analysis actor |
| `utility_task` | `nested/actors.py:109-122` | none | asks for the recorder, then reports the event | analysis actor, MetricsActor |
| `violence_task`, `falldown_task` | `nested/actors.py:125-144` | `state_blob` of a falldown chain | serial inference calls over one batch | inference backend, MetricsActor |
| InferenceClient, backends | `common/stages.py:19-288`, `nested/inference_backend.py` | stub | one call per stage, timeout, errors | mock server or Triton |
| Mock inference server | `inference_mock/server.py` | semaphore, worker pool | five handlers | clients |
| Triton models | `triton/models/*/1/model.py` | none; instances by `config.pbtxt` | `initialize`, `execute` | clients |
| Triton pipeline model | `triton/models/pipeline/1/model.py` | actor handles | `initialize`, `execute`, `finalize` | starts the nested experiment inside the server it then calls |
| MetricsCollector, MetricsActor | `common/metrics.py` | CSV file and writer, histogram, counters | `record_*`, `close` | everybody sends to it |
| Drivers | `nested/run_parent.py`, `standalone/run_standalone.py` | flags | start everything, sleep, close, `ray.shutdown` | all actors |
| Plots | `analysis/plot_comparison.py` | the arrays of a run | `load_run`, five `plot_*` functions | reads the CSV files the experiments left |
| Configuration, mock latency, smoke test, scripts, dashboards | | | | not modelled (section 8) |

How they interact: the driver starts per camera one StreamActor and one analysis actor. The producer thread
fills the deque while the actor's dispatch thread serves `get_frame`. The analysis actor pulls, fetches the
object, calls the stages one after the other, hands full batches to fire-and-forget tasks and starts
`utility_task`s that call back into it. All of them send fire-and-forget records to the MetricsActor. Nobody
stops the actors; the driver closes the CSV and shuts Ray down under them.

What is hard here:

* *interleaving*: producer thread against dispatch thread; other methods of an async actor at its awaits;
  senders against `close`; calls against each other at the server's semaphore;
* *stale checks*: the fullness test is used after its lock is released, with a `ray.put` in between;
* *protocol*: `stop` does not join, so `start_streaming` after it may leave two producers;
* *starvation*: a sync actor that never returns cannot answer `get_recorder`;
* *circular start*: Triton listens once `initialize` of every model has returned, and the actors that the pipeline
  model's `initialize` starts poll that same server;
* *partial failure*: an exception from Triton ends a loop or a chain anywhere; a timed-out call is still
  executed by the server; with the mock server a failed call is an empty result for all later stages;
* *boundaries*: a full deque, `max_frames`, `batch_frame_count`, `frame_count % fps`;
* *end of the experiment*: rows in a file buffer, a kill between the write and the flush of a row, calls that arrive
  after `close`, a row cut off by a kill and met again by the plots.

`PROJECT.json` lists each hazard at its line with the properties that would notice it going wrong, and for
those no property covers yet the reason.

## 2. Modules

| Module | Models | Composes / extends |
|---|---|---|
| `FrameChannel` | what a stream promises: an ordered channel that loses frames only at its ends | abstract specification |
| `StreamActor` | both StreamActors (flag `useConditionalPut`), thread by thread | implements `FrameChannel` (`ImplementsChannel`) |
| `ConditionalPut` | StreamActor in lockstep with the deque of the other flag value | extends `StreamActor` |
| `RecorderOps` | the two recorder containers as functions | used by the next two |
| `FrameRecorder` | recorder calls on both containers | extends `RecorderOps` |
| `AnalysisActor` | an analysis actor, its clock, its stream and its utility tasks | `RecorderOps`, `INSTANCE FrameChannel` for the stream |
| `MetricsActor` | MetricsActor, senders, driver's end of run | |
| `InferenceServer` | clients with timeouts, mock server or Triton, the falldown chain | |
| `StageHandlers` | what the stages answer, mock handlers and Triton's `execute`, as functions | used by the next |
| `Deployment` | start-up, work and end of experiment A, in Triton or with the mock server: driver, server, each camera's actor and a `violence_task` | extends `StageHandlers` |
| `Comparison` | a CSV file from its first row to the five figures | |
| `StreamActorProofs`, `FrameRecorderProofs`, `AnalysisActorProofs`, `MetricsActorProofs`, `InferenceServerProofs`, `DeploymentProofs`, `ComparisonProofs` | theorems about the module named; those about `ConditionalPut` are in `StreamActorProofs` | extend it and TLAPS |
| `SequenceLemmas` | no code: induction, the last entries of a sequence, what `FlattenSeq` computes | used by three of the proof modules |

Flags of the experiments are variables that `Init` chooses and nothing changes (`useConditionalPut`, `variant`,
`closesFirst`, `mock`, `triton`), so that one run covers every setting and a theorem speaks of all of them; sizes are constants.

Definitions after *MUTANT of X* in a comment are broken variants of `X`. No specification uses
them; `PROJECT.json` names for each checked property a variant under which TLC finds it violated, which shows
that the property can fail and that the bounds are large enough to see it fail.

**StreamActor.** `pc[t]` is where thread `t` is in `_streaming_loop`. A step ends where another thread may run:
each critical section of `self.lock` is one step, `ray.put` is one, and `next_frame` is two (the id is read,
`perf_counter` is called, the id is incremented, all without the lock). The sleeps need no location of their
own: a sleeping thread is at `"loop"`. A frame is its `frame_id` and the number of its `ray.put`; pixels and
timestamps are left out, for no property tells them apart. `delivered`, `evicted`, `skipped` and `overlapped`
are history. The deque's `maxlen` behaviour (drop at the left) is part of `AppendFrame`. The nested actor is the
case `useConditionalPut = FALSE`.

`overlapped` becomes true when a thread is started while another is alive. The drivers never call `stop`, so
it stays false in the experiments, but nothing in the actor prevents it, and then order and the conditional
put's economy are lost: two threads may both see a free place, and may number two frames alike. The
properties that need a single thread say so (`~overlapped`), `EveryPutAccounted` and `StopEndsThreads` do not.

**AnalysisActor.** The stream is the abstract `FrameChannel`, which `StreamActor` implements; an empty answer
(`PullNone`) is possible at any time. `CanDispatch` is the heart: a sync actor's only thread is in
`start_analysis` until that ends, an async actor's event loop is free at the three awaits and nowhere in
`process_frame`. An answer the code waits for is a step; a message it does not wait for is counted when sent.
Time is `sinceEvent`, ticks since `last_event_time`, capped at the interval because only "has the interval
passed" matters. `variant` is what the driver started: sync or async, array or deque recorder, stress or idle mode,
and whether inference errors raise. They do with the Triton backend only, which only the nested (sync, array)
actor uses; `InferenceClient` catches everything.

A full batch becomes two tasks (`batchQueued`). Ray starts a task when a CPU of `num_cpus` is free and takes the CPU back while
the task waits in `ray.get`, so `CpuFree` counts running batch tasks and not the utility tasks that hang; that is Ray's doing
and no property of the code, but a utility task of an async actor has to wait for its turn (`EventsCounted`). That a
utility task between its calls needs a CPU for a moment is part of the step that needs it (`CallGetRecorder`).

**InferenceServer.** One module for both deployments, since what is to be compared is the same five calls under a
shared semaphore (`mock`) and under per-model instances. A call waits for a worker (`queued`), for the semaphore
(`atSem`), runs, and is answered; `CallFails` may happen wherever it is. A blob is the sequence of frame ids in it.

**Deployment.** `pc[c]` is where client `c` is, a camera's analysis actor or the `violence_task` of its first batch;
`TritonInferenceBackend.__init__` is `"query"` (`is_server_ready`) and `"check"` (deadline, then sleep). `waited` counts sleeps,
which are the time of a poll. `initialize` creates the actors with `.remote()` and does not wait for them, so
`InitializeReturns` asks nothing of a client; `Listen` asks for all six models of the repository, the pipeline and `falldown`
(whose calls are InferenceServer's) among them. `cur[c]` is the
numbers of items the client's calls of this frame or batch have returned: the only thing that goes from stage
to stage. `Fail` is where the two backends differ. The server may be stopped and calls may fail at any moment.

**StageHandlers.** A handler maps a request to the set of answers it may give. Triton's `execute` gets a list and must
answer it place by place; a client of ours sends one request at a time. Theorem `SameAnswers` says that both
servers answer alike, whatever the length of the list.

**Comparison.** `csv` is the file as `DictReader` and `_to_float` read it: a field is a value, `NaN` (missing or empty) or, for the
stage, `None` (the row ends before it). `Killed` leaves what `MetricsActor` allows (`OnlyLastLatencyAtRisk`): some whole rows and
perhaps a part of the next, cut off in front of its stage, in it, or in its number, where fewer digits are another number;
the rows lost for good are rows of processes and the last row of all. `logged` is history. numpy's percentile is not computed: a
point or bar is the values it is the percentile of (`Percentile`), for nothing here depends on more. `Selected` is the
loop over the rows, in a form theorems can speak of. `np.argsort` may order equal times either way. All runs are loaded
before the first figure is drawn and do not touch each other, hence one run is enough.

**MetricsActor.** One FIFO inbox per sender, any interleaving between senders (Ray's guarantee for a sync actor).
`close` is one more call. `record_frame_latency` is three steps, for a kill or a scrape by the Prometheus thread may fall between
them: the histogram observes (`Observe`), the row is given to the file (`LogCsvRow`), the file is flushed (`FlushRow`). `doing` is the
call in between. The `latencies` list is appended with the observe; nothing reads it. `record_process_metrics` writes and does not
flush, one step: nothing of it is visible outside of the actor before the file buffer goes to disk. `flushed` is how many rows are
whole on disk, `torn` whether a part of the next is there too; the file object may spill up to any byte at any time
(`BufferSpills`). `Shutdown` may strike anywhere where the drivers call `ray.shutdown`: after `close` has been executed for the two
`run()`s, at any moment for `finalize()`.

## 3. Runs

Passing runs (deadlock is checked unless noted):

| Run | Question | Bounds |
|---|---|---|
| `stream` | Safety: where every object that was put is (`EveryPutAccounted`), no put wasted with the conditional put (`NoWastedPut`), no hole in the deque without it (`NewestKept`), order (`InOrderDelivery`), refinement of `FrameChannel` (`ImplementsChannel`). Liveness: a stopped stream winds down though nobody takes frames (`StopEndsThreads`), a polling consumer gets every frame out of the deque (`BufferedFrameLeaves`) | queue 2, two starts, no loop entered at id 3 or more; both flag values |
| `supply_same` | `SameSupply`: the conditional put changes which frames are kept, never how many | queue 2, one start, 6 ids |
| `recorder_agree` | `KeepsLast`, `ContainersAgree` | 3 entries kept, 8 appends |
| `analysis` | `SnapshotBetweenFrames`, `BatchesPartition`; async: `EventsCounted`; Triton backend: `DeathReleasesTasks` | 4 frames, batches and recorder of 2, fps 2, 1 CPU; every variant; stops when the stream is over or the actor dead |
| `metrics` | with close: `NothingLostAtExit`; with and without: what a kill can cost (`OnlyLastLatencyAtRisk`), how far the histogram can be ahead of the disk (`LatenciesReachDisk`), `SenderOrderKept` | two senders, two calls each; ends with shutdown |
| `server` | `SlotsRespected` (mock server), `ChainIsSuccesses` and `EveryCallEnds` (both deployments), with failures at any moment | a falldown task and a stage client, 3 calls each, 2 workers, 1 permit or 1 instance per model; ends when all calls are made |
| `deployment` | `ServedOnceReady`, `ResultsFit`; `ServerComesUp` (the circular start resolves), `PollEnds`, `WorkEnds` (nobody hangs in a call, no fallback client dies) | 2 cameras, 2 frames each in batches of 2, 2 violence calls, a deadline of 1 sleep, 5 or 10 boxes; both servers, stopped at any moment; ends when everything is down or idle |
| `comparison` | What a kill costs in the end (`KillCosts`: nothing, the very last frame, or, with a row cut before its stage, everything), `FailsOnlyOnTornTail`, `EveryFrameInOneBucket` | 3 rows of any kind in any order, 4 clock values, buckets of 2, 2 values; ends when drawn or failed |

Why the bounds are enough: a queue of 2 is the least in which "oldest" and "newest" differ and in which a stale
test can matter with a place left; two starts are the least for overlapping threads; recorder and batch limits
are reached twice; a chain of 3 has a failed call with a good one before and one after it; fewer permits than
workers is the least for waiting at the semaphore, and as a given-up call stays at the server while its client
makes the next, two clients are enough to fill both workers and the queue before them. One CPU is the least with which a task can be kept from starting. Two cameras let one actor poll while the other
works, one sleep gives a poll before and one at its deadline, and two numbers of boxes are enough to notice an
answer that was made up. Three rows are enough for a cut-off row after good ones with process rows lost
behind it, for two frames in one bucket or on both sides of an edge, and for a clock set back; four clock values reach
two buckets and the edge behind them. The bounds appear in
guards as `MaxStarts`, `MaxFrames`, `MaxAppends`, `MaxSent`, `MaxCalls` and `MaxRows`. In
`Deployment`, `MaxFrames` ends a camera's frames before its second batch, which would need a second task. `MaxFrames` of the StreamActor keeps a running
thread asleep before its next iteration, a state the program is in between any two frames; a stopped thread is
not held back by it, so it weakens no liveness property. Runs that really end (shutdown, all calls made, actor
dead) have `CHECK_DEADLOCK FALSE`.

Runs that find a sentence of the repository not true of the code:

| Run | The sentence | What the run shows |
|---|---|---|
| `skipped_lost` | "어차피 밀려날 프레임" (standalone/actors.py:114) | the frame skipped at a full queue is the newest; the unconditional stream evicts the oldest and later delivers the newest |
| `analysis_frames_counted` | "Total frames processed" (metrics.py:43) | one increment in `fps` frames; the dashboard plots it as FPS |
| `metrics_late_calls` | "Prometheus + CSV 동시 기록" (metrics.py:120) | after `close` the histogram observes, then the CSV write raises |
| `server_slots` | slots processing at the same time (default.yaml:53-54), reproduced by `instance_group` (detect/config.pbtxt:15-16) | Triton's limit is per model, the mock server's is one for all |

Three more differences of the same kind are known and have no run. The docstring of `load_run` (plot_comparison.py:103-104) has
the time axis begin at the run's first timestamp; line 128 takes the earliest of the e2e and actor rows only. Each
CSV in `docs/data` begins with a `detect` row, so its axis begins 0.1 to 0.4 s later. With `recorder_max_frames = 0` the array
recorder keeps everything, since `[-0:]` is the whole array, while the deque keeps nothing (`RecorderOps!SliceLast` has it; the
properties are about sizes above zero, the only ones the configuration uses). And `events_triggered_total`, "Total
events triggered (get_recorder calls)" (metrics.py:49), counts no event of a sync actor while its loop lives, for `record_event` is
sent only after `get_recorder` has been answered (`RecordEvent`, `CanDispatch`).

## 4. Fairness

* `StreamActor!FairSpec`: weak fairness of each producer thread (the OS schedules it). Nothing is assumed of
  `start_streaming` and `stop`. That the consumer polls for ever, as the analysis loop does, is not part of it:
  it is the premise of `BufferedFrameLeaves`, the only property that needs it.
* `AnalysisActor!FairSpec`: weak fairness of the loop, the clock and the tasks' steps. `GetRecorder` gets strong fairness:
  an async actor is able to serve it only at its awaits, which come and go, and asyncio runs ready callbacks in
  FIFO order, so a call is not passed over at every await for ever. For a sync actor the assumption is empty until
  the loop died, when its one thread is free. The stream owes nothing.
* `InferenceServer!FairSpec`: for each client, strong fairness of the server's steps on its calls and weak fairness of their
  delivery. Strong, since a permit or worker may be taken by others again and again; `threading.Semaphore` wakes its
  waiters in turn, the pool's queue and Triton's are FIFO. Failures are never required, so `EveryCallEnds` does not
  lean on the timeout.
  `AnalysisActor` likewise assumes weak fairness of a batch task's start and end: its calls end (`EveryCallEnds`), and
  Ray's scheduler gives a CPU that stays free to a task that waits for one.
* `Deployment!FairSpec`: weak fairness of the driver's and the server's start-up steps, of each model's load and of each
  client's steps, for each is a process or thread of its own that runs; a call under way ends in an answer or in
  `CallFails` (Triton client without a deadline: the server answers or the connection ends). Nobody has to stop the
  server or the driver, the camera owes no frame, and whether a call fails is open.
* `MetricsActor` and `Comparison`: no liveness is claimed.

## 5. What is proved

`StreamActorProofs.tla`, for every `QueueMax >= 1`, both flag values and any number of starts and frames:

* `TypeCorrect`: `Spec => []TypeOK`, the bound of the deque included.
* `NoWastedPutCorrect`: `Spec => []NoWastedPut`.
* `InOrderDeliveryCorrect`: `Spec => []InOrderDelivery`.
* `StreamImplementsChannel`: `Spec => ImplementsChannel`: every step of the StreamActor is a step of FrameChannel or leaves it
  unchanged, as long as threads have not overlapped.
* `NewestKeptCorrect`: `Spec => []NewestKept`, from `Dense`.
* `EveryPutAccountedCorrect`: `Spec => []EveryPutAccounted`, from `Accounted`; threads may overlap.
* `SameSupplyCorrect`: `LockstepSpec => []SameSupply` of `ConditionalPut`, from `Supply`.
* `StreamIsChannel`: `Spec /\ []~overlapped => Channel!Spec`. The hypothesis excludes the behaviours in which somebody
  restarts a stream before its old thread has noticed the stop; with them the claim is false.

None of the safety properties is inductive. `NoWastedPut` says nothing about the thread that has passed the test
and has not appended yet; `InOrderDelivery` says nothing of the frame in a thread's hand. The inductive
invariant `IInv` (theorem `IInvCorrect`) is the conjunction of

* `TypeOK`;
* `OneThread`: until threads overlap at most one is alive;
* `RoomReserved`: a thread between a negative fullness test and its append finds a place when it gets there (the
  consumer can only make more room, and there is no second producer) and nothing has been evicted;
* `Order`: delivered frames, the deque, the frame in hand and `frame_id` are increasing in this order.

`NewestKept` does not see the frame that the producer holds, so `Dense` ties the newest frame of the deque to the next
id, which is the one in the hand of a thread at its append and `frame_id` otherwise; an evicted frame is below all of
them. `EveryPutAccounted` counts places and could be kept by two errors that cancel each other, so `Accounted`
adds that the places are disjoint and what is in each of them different: no two threads hold the same object, the deque
repeats none, no frame is in the deque and evicted. `Supply` compares the two deques in each of the producer's
states: before the append they have the same length, and with `IInv` (`RoomReserved`) the conditional one has
a place; the unconditional ids are increasing, so dropping the oldest keeps them place by place no smaller.

There is one lemma per conjunct, each with one step per action, over lemmas about sequences (`Queued...`, `Increasing...`,
`Below...`). The refinement proof (`ChannelNext`) maps each action to `Produce` (`BumpFrameId`), `Lose` (`CheckFull` when full:
the newest; `AppendFrame` when full: the oldest), `Receive` (`GetFrame`) or a stutter. The only assumptions are
the named ones on the constants.

`FrameRecorderProofs.tla`: `RTypeCorrect` for every `max_frames`; `KeepsLastCorrect` and `ContainersAgreeCorrect` for every
`max_frames` above zero, which is their hypothesis (at zero they are false, section 3). Neither is inductive alone: the snapshots must
agree too (`BothKeepLast`). The lemma below both is `LastNAppend`: what the last `n` entries become when one is appended.

`AnalysisActorProofs.tla`, for any batch size, `fps`, number of CPUs, recorder size and number of frames, in every variant:

* `ATypeCorrect`: `TypeOK` with the bounds of recorder, batch buffer and tasks.
* `FrameInvCorrect`: the inductive invariant `FrameInv`, where the frame in hand is. `Counted`: it is the last one received and
  the only one not counted; `Recorded`: the recorder holds the last processed frames, and the one in hand from its track
  stage to its end; and `SnapshotBetweenFrames` and `BatchesPartition` themselves, which follow (`SnapshotCorrect`,
  `BatchesCorrect`).
* `ChannelInOrder`: `Stream!Spec => []InOrder`, the promise of the abstraction, from `ChannelInv` (what was received is older than what
  is pending, and that older than what comes). The actor's steps on its stream are the channel's own (lemma `PullsFromChannel`), which
  the StreamActor implements (`StreamIsChannel`); hence `AnalysedInOrder`, `Spec => []InOrder`: an actor, and
  with `BatchesPartition` every batch, has the frames in order and none twice.

`MetricsActorProofs.tla`, for any set of senders and any number of calls, with and without a close: `MTypeCorrect`,
`NothingLostCorrect`, `AtRiskCorrect`, `SenderOrderCorrect` and `ReachDiskCorrect`, one per property of the run. The
invariant `MInv` (`MInvCorrect`) says what none of them does:

* `CallUnderWay`: the actor is idle or has one latency in hand, whose row is the last one when only its flush is missing;
* `ClosedFile`: a closed file has everything on disk, with no flush outstanding, and a `run()` that is down has closed it. That
  `close` runs between two calls and never inside one is what makes this inductive;
* `AtRisk`: a row that is not whole on disk is a process row or the one whose flush is next;
* `CallsOrdered`: the rows of a sender, its call in hand, the calls in its inbox and the number of calls it made are
  increasing in this order.

`InferenceServerProofs.tla`, for any clients, workers, slots and batch lengths, failures at any moment:

* `SlotsRespectedCorrect`, from `PermitsHeld`: inferences under way and free permits together are at most
  `max_concurrency`. It also gives the range of `permits` in `STypeCorrect`.
* `ChainCorrect`: `ChainIsSuccesses` does not say what a call carries. The invariant `SInv` adds `CallsMade` (no call at
  the server is newer than the last one its client made, so only that one can be waited for), `Carries` (it has the
  client's state, its answer that state and its frame) and `FailedDone` (only ended calls have failed). One lemma per
  kind of step; the steps inside the server share `ServerMoves`.

`DeploymentProofs.tla`, for any cameras, batch lengths, numbers of calls and deadlines:

* `SameAnswers`: for a list of requests of any length, Triton's `execute` answers each in its place with what the mock
  handler could have answered.
* `DTypeCorrect`: with the bounds of `TypeOK`, no call after the last and no sleep after the deadline. The invariant `DInv` adds
  `CallsLeft` (a client about to call has calls left), `NoResultsYet` (a client still at its backend has no results) and
  `OneTask` (a camera's task exists only once its batch was full, so the full batch never meets an existing task).
* `ServedOnceReadyCorrect`: no Triton client is past its poll while the server is off; with `DInv`, since a batch task
  is only started by an actor that is past its own poll.
* `ResultsFitCorrect`, from `AnswerFits` (what either server may answer fits the request) and `ProceedFits`.

`ComparisonProofs.tla`, for a file of any length, any clock and latency values and any width of a bucket:

* `FailsOnlyOnTornTailCorrect`. `CInv` adds that only the last row of a torn file can be without a stage and that nothing is
  written to a torn file.
* `DInvCorrect` and `CTypeCorrect`: `DInv` says of each phase where its data come from: what is drawn is computed from what is
  loaded (`DrawInv`), what is loaded from the file (`LoadInv`), and the file is what was logged or what a kill left of it
  (`FileInv`, `KeptUpTo`).
* `KillCostsCorrect`: `SelectedAppend` says what the loop over the rows does with one more row and `SelectedPrefix` that rows of
  processes at the end add no frame, so that the frames loaded from the file and those logged differ in the last one at most
  (`FileKeepsFrames`); the other case is `StagelessRaises`: a row without a stage makes `load_run` raise, for its timestamp is a number.
* `EveryFrameInOneBucketCorrect`: every natural number up to the last time has exactly one multiple of `BUCKET_SECONDS` below it
  by less than that (`OneMultiple`), and the edges go one bucket beyond the last time (`EdgesCover`).

Induction over data is needed for the loop over the rows and for `FlattenSeq`. `SequenceLemmas` has it as
`SetInduction`, about a set of numbers in place of a predicate, which is derived from the well-foundedness of `<` in the library. The
recursive functions are then characterised by what they do with an appended element (`FlattenAppend`, `SelectedAppend`).

The assumptions are the named ones on the constants, and `MaxRecorded > 0` where it is said.

## 6. Only model-checked

The liveness properties, for liveness under fairness and `ENABLED` are out of the proof system's reach: `StopEndsThreads` and
`BufferedFrameLeaves` of the StreamActor; `EventsCounted` and `DeathReleasesTasks` of the analysis actor; `EveryCallEnds`
of the inference server; `ServerComesUp`, `PollEnds` and `WorkEnds` of the deployment. What they rest on is proved as far as it is
safety. The four runs that show a sentence of the repository not to hold are counterexamples, which need no proof.

Every other property that a passing run checks is stated by a theorem of section 5.

## 7. Plan

1. *Done*: the frame path (`StreamActor`, `FrameChannel`, `ConditionalPut`, `FrameRecorder`, `AnalysisActor`), the metrics, the
   inference server, start-up and end of experiment A (`Deployment`, `StageHandlers`), the plots (`Comparison`); the theorems of
   section 5. `StreamActor` and `AnalysisActor` are not composed in a module of their own: the one is proved to implement the
   `FrameChannel` the other is checked against, a dead consumer included (`get_frame` is never owed).
2. *Done*: a theorem for every safety property that a passing run checks.
3. *Next*: what the liveness properties rest on as safety, for every instance: for each a measure that the steps with fairness
   lower and the others do not raise.
4. *Perhaps*: `resolve_flags` and `duration_seconds or default`, as functions against what the command line asks for.

## 8. Not modelled

* Pixels, coordinates, tensors, protobuf messages: data no property here tells apart. Of results the number is kept.
* Real time: latencies, jitter, busy-waits, `time.sleep`, perf counters, CPU affinity. A latency is the time between two
  steps; a timeout may strike at any moment. So how fast batch tasks pile up when inference is slower than the camera
  is not modelled, only that each of them ends.
* Configuration parsing, `resolve_flags`, mock latency, scripts, dashboards, the smoke test: no concurrency and no state of
  the system.
* Bytes: which object pins how much of `object_store_memory`, spilling, the OOM killer. Ray decides them, the source
  only names the limit. `use_objectref_recorder` differs in what an entry is, not in which entries are kept.
* Ray's own failure handling (worker crashes, retries): neither experiment configures it.
* In `Deployment`: the falldown task (it is `InferenceServer`'s), batches after a camera's first, a Triton server stopped while
  models load, `execute` of the pipeline model (it answers HEALTHY, looks at nothing and changes nothing).
* In `Comparison`: styles, labels and image files; a file that is missing or was cut off in its header.
* `record_ray_metrics` (nobody calls it), the Prometheus server, gauges.
* `stop` of the analysis actors: nothing clears `_running` or `core.running`.
