----------------------------- MODULE StreamActor -----------------------------
(***************************************************************************)
(* One camera's StreamActor: a background thread produces frames, puts     *)
(* them in the object store and appends their references to a bounded      *)
(* deque; the actor's single dispatch thread serves start_streaming, stop  *)
(* and get_frame between the producer's steps.                             *)
(*                                                                         *)
(* In benchmark/standalone/actors.py use_conditional_put is a parameter of *)
(* the actor; benchmark/nested/actors.py is the actor without it.          *)
(*                                                                         *)
(* Every operation is cut where another thread can run: the critical       *)
(* sections of self.lock are single steps, ray.put is a step, and          *)
(* next_frame is two, for it reads frame_id, calls perf_counter and only   *)
(* then increments it, without the lock.                                   *)
(***************************************************************************)
EXTENDS Naturals, Sequences, FiniteSets, Functions

CONSTANTS
    QueueMax,           \* FRAME_QUEUE_MAX_SIZE
    MaxStarts,          \* bound: calls of start_streaming that start a thread
    MaxFrames           \* bound: no loop iteration begins at this frame_id

ASSUME QueueMaxAssumption == QueueMax \in Nat \ {0}
ASSUME StartsAssumption   == MaxStarts \in Nat \ {0}
ASSUME FramesAssumption   == MaxFrames \in Nat

\* The k-th thread is the one the k-th effective start_streaming creates.
Threads == 1..MaxStarts

\* A frame is its frame_id and its ObjectRef (refs are numbered from 1 in
\* the order of ray.put; 0: not put yet). Pixels and timestamp are left out.
Frame == [id : Nat, ref : Nat]

VARIABLES
    running,    \* self._running
    starts,     \* threads created so far
    pc,         \* where each thread is in _streaming_loop
    held,       \* each thread's local frame
    frameId,    \* self.sequence.frame_id
    puts,       \* number of ray.put calls made
    buffer,     \* self.buffer, oldest first
    delivered,  \* history: what get_frame returned, in order
    evicted,    \* history: frames deque(maxlen) pushed out
    skipped,    \* history: frame_ids the conditional put passed over
    overlapped, \* history: a thread was started while another was alive
    useConditionalPut  \* self.use_conditional_put, set once by __init__

vars == <<running, starts, pc, held, frameId, puts, buffer,
          delivered, evicted, skipped, overlapped, useConditionalPut>>

\* "loop": about to test self._running (also asleep before it);
\* "read"/"bump": in next_frame; "full": about to test the queue;
\* "put": about to ray.put; "append": about to append; "off": not alive.
Locations == {"off", "loop", "read", "bump", "full", "put", "append"}

Alive == {t \in Threads : pc[t] # "off"}

Init ==
    /\ running = FALSE
    /\ starts = 0
    /\ pc = [t \in Threads |-> "off"]
    /\ held = [t \in Threads |-> [id |-> 0, ref |-> 0]]
    /\ frameId = 0
    /\ puts = 0
    /\ buffer = <<>>
    /\ delivered = <<>>
    /\ evicted = {}
    /\ skipped = {}
    /\ overlapped = FALSE
    /\ useConditionalPut \in BOOLEAN

-----------------------------------------------------------------------------
\* Methods of the actor, run one at a time by its dispatch thread.

\* A call made while self._running is set returns at once: a stuttering step.
StartStreaming ==
    /\ ~running
    /\ starts < MaxStarts
    /\ running' = TRUE
    /\ starts' = starts + 1
    /\ pc' = [pc EXCEPT ![starts + 1] = "loop"]
    /\ overlapped' = (overlapped \/ Alive # {})
    /\ UNCHANGED <<held, frameId, puts, buffer, delivered, evicted, skipped,
                   useConditionalPut>>

\* stop does not join the thread.
Stop ==
    /\ running
    /\ running' = FALSE
    /\ UNCHANGED <<starts, pc, held, frameId, puts, buffer,
                   delivered, evicted, skipped, overlapped, useConditionalPut>>

\* MUTANT of GetFrame: returns the oldest frame without removing it.
GetFramePeeks ==
    \/ /\ buffer = <<>>
       /\ UNCHANGED vars
    \/ /\ buffer # <<>>
       /\ delivered' = Append(delivered, Head(buffer))
       /\ UNCHANGED <<running, starts, pc, held, frameId, puts, buffer,
                      evicted, skipped, overlapped, useConditionalPut>>

\* MUTANT of GetFrame: pop() where the code has popleft().
GetFrameNewest ==
    \/ /\ buffer = <<>>
       /\ UNCHANGED vars
    \/ /\ buffer # <<>>
       /\ delivered' = Append(delivered, buffer[Len(buffer)])
       /\ buffer' = SubSeq(buffer, 1, Len(buffer) - 1)
       /\ UNCHANGED <<running, starts, pc, held, frameId, puts,
                      evicted, skipped, overlapped, useConditionalPut>>

\* MUTANT of GetFrame: an off-by-one in the emptiness test.
GetFrameKeepsLast ==
    \/ /\ Len(buffer) <= 1
       /\ UNCHANGED vars
    \/ /\ Len(buffer) > 1
       /\ delivered' = Append(delivered, Head(buffer))
       /\ buffer' = Tail(buffer)
       /\ UNCHANGED <<running, starts, pc, held, frameId, puts,
                      evicted, skipped, overlapped, useConditionalPut>>

\* A call on an empty buffer returns None and changes nothing.
GetFrame ==
    \/ /\ buffer = <<>>
       /\ UNCHANGED vars
    \/ /\ buffer # <<>>
       /\ delivered' = Append(delivered, Head(buffer))
       /\ buffer' = Tail(buffer)
       /\ UNCHANGED <<running, starts, pc, held, frameId, puts,
                      evicted, skipped, overlapped, useConditionalPut>>

-----------------------------------------------------------------------------
\* _streaming_loop, by thread t.

\* The bound stops a running thread here, where it sleeps; a stopped one ends.
Loop(t) ==
    /\ pc[t] = "loop"
    /\ running => frameId < MaxFrames
    /\ pc' = [pc EXCEPT ![t] = IF running THEN "read" ELSE "off"]
    /\ UNCHANGED <<running, starts, held, frameId, puts, buffer,
                   delivered, evicted, skipped, overlapped, useConditionalPut>>

ReadFrameId(t) ==
    /\ pc[t] = "read"
    /\ held' = [held EXCEPT ![t] = [id |-> frameId, ref |-> 0]]
    /\ pc' = [pc EXCEPT ![t] = "bump"]
    /\ UNCHANGED <<running, starts, frameId, puts, buffer,
                   delivered, evicted, skipped, overlapped, useConditionalPut>>

BumpFrameId(t) ==
    /\ pc[t] = "bump"
    /\ frameId' = frameId + 1
    /\ pc' = [pc EXCEPT ![t] = IF useConditionalPut THEN "full" ELSE "put"]
    /\ UNCHANGED <<running, starts, held, puts, buffer,
                   delivered, evicted, skipped, overlapped, useConditionalPut>>

\* MUTANT of CheckFull: > where the code has >=.
CheckFullOffByOne(t) ==
    /\ pc[t] = "full"
    /\ IF Len(buffer) > QueueMax
         THEN /\ pc' = [pc EXCEPT ![t] = "loop"]
              /\ skipped' = skipped \cup {held[t].id}
         ELSE /\ pc' = [pc EXCEPT ![t] = "put"]
              /\ UNCHANGED skipped
    /\ UNCHANGED <<running, starts, held, frameId, puts, buffer,
                   delivered, evicted, overlapped, useConditionalPut>>

\* MUTANT of CheckFull: gives the last place of the queue away.
CheckFullEarly(t) ==
    /\ pc[t] = "full"
    /\ IF Len(buffer) + 1 >= QueueMax
         THEN /\ pc' = [pc EXCEPT ![t] = "loop"]
              /\ skipped' = skipped \cup {held[t].id}
         ELSE /\ pc' = [pc EXCEPT ![t] = "put"]
              /\ UNCHANGED skipped
    /\ UNCHANGED <<running, starts, held, frameId, puts, buffer,
                   delivered, evicted, overlapped, useConditionalPut>>

\* MUTANT of CheckFull: waits for room instead of returning to the loop head.
CheckFullSpins(t) ==
    /\ pc[t] = "full"
    /\ IF Len(buffer) >= QueueMax
         THEN UNCHANGED <<pc, skipped>>
         ELSE /\ pc' = [pc EXCEPT ![t] = "put"]
              /\ UNCHANGED skipped
    /\ UNCHANGED <<running, starts, held, frameId, puts, buffer,
                   delivered, evicted, overlapped, useConditionalPut>>

\* `full` is computed under the lock and used after it is released.
CheckFull(t) ==
    /\ pc[t] = "full"
    /\ IF Len(buffer) >= QueueMax
         THEN /\ pc' = [pc EXCEPT ![t] = "loop"]
              /\ skipped' = skipped \cup {held[t].id}
         ELSE /\ pc' = [pc EXCEPT ![t] = "put"]
              /\ UNCHANGED skipped
    /\ UNCHANGED <<running, starts, held, frameId, puts, buffer,
                   delivered, evicted, overlapped, useConditionalPut>>

Put(t) ==
    /\ pc[t] = "put"
    /\ puts' = puts + 1
    /\ held' = [held EXCEPT ![t].ref = puts + 1]
    /\ pc' = [pc EXCEPT ![t] = "append"]
    /\ UNCHANGED <<running, starts, frameId, buffer,
                   delivered, evicted, skipped, overlapped, useConditionalPut>>

\* MUTANT of AppendFrame: a full buffer refuses the new frame.
AppendFrameDropsNew(t) ==
    /\ pc[t] = "append"
    /\ IF Len(buffer) < QueueMax
         THEN /\ buffer' = Append(buffer, held[t])
              /\ UNCHANGED evicted
         ELSE /\ evicted' = evicted \cup {held[t]}
              /\ UNCHANGED buffer
    /\ pc' = [pc EXCEPT ![t] = "loop"]
    /\ UNCHANGED <<running, starts, held, frameId, puts,
                   delivered, skipped, overlapped, useConditionalPut>>

\* MUTANT of AppendFrame: a deque without maxlen.
AppendFrameUnbounded(t) ==
    /\ pc[t] = "append"
    /\ buffer' = Append(buffer, held[t])
    /\ pc' = [pc EXCEPT ![t] = "loop"]
    /\ UNCHANGED <<running, starts, held, frameId, puts, evicted,
                   delivered, skipped, overlapped, useConditionalPut>>

\* deque(maxlen=FRAME_QUEUE_MAX_SIZE): a full deque drops its oldest item.
AppendFrame(t) ==
    /\ pc[t] = "append"
    /\ IF Len(buffer) < QueueMax
         THEN /\ buffer' = Append(buffer, held[t])
              /\ UNCHANGED evicted
         ELSE /\ buffer' = Append(Tail(buffer), held[t])
              /\ evicted' = evicted \cup {Head(buffer)}
    /\ pc' = [pc EXCEPT ![t] = "loop"]
    /\ UNCHANGED <<running, starts, held, frameId, puts,
                   delivered, skipped, overlapped, useConditionalPut>>

-----------------------------------------------------------------------------
ThreadStep(t) ==
    \/ Loop(t)
    \/ ReadFrameId(t)
    \/ BumpFrameId(t)
    \/ CheckFull(t)
    \/ Put(t)
    \/ AppendFrame(t)

Next ==
    \/ StartStreaming
    \/ Stop
    \/ GetFrame
    \/ \E t \in Threads : ThreadStep(t)

Spec == Init /\ [][Next]_vars

\* The OS schedules every thread. Nothing makes anybody call get_frame,
\* start_streaming or stop.
FairSpec ==
    /\ Spec
    /\ \A t \in Threads : WF_vars(ThreadStep(t))

-----------------------------------------------------------------------------
\* Type invariant: the ids and references stay natural numbers, the locations
\* are those of the loop and the deque never outgrows its maxlen.
TypeOK ==
    /\ running \in BOOLEAN
    /\ starts \in 0..MaxStarts
    /\ pc \in [Threads -> Locations]
    /\ held \in [Threads -> Frame]
    /\ frameId \in Nat
    /\ puts \in Nat
    /\ buffer \in Seq(Frame)
    /\ Len(buffer) <= QueueMax
    /\ delivered \in Seq(Frame)
    /\ evicted \subseteq Frame
    /\ skipped \subseteq Nat
    /\ overlapped \in BOOLEAN
    /\ useConditionalPut \in BOOLEAN

\* The point of the conditional put: although the fullness test and the
\* append are separate critical sections, no frame paid for with a ray.put
\* is ever pushed out of the deque, as long as threads did not overlap.
NoWastedPut ==
    useConditionalPut /\ ~overlapped => evicted = {}

InFlight == {held[t] : t \in {u \in Threads : pc[u] = "append"}}

\* Every object that was put is in exactly one place: in a thread's hand, in
\* the deque, handed to the consumer (once), or pushed out. This holds with
\* overlapping threads too.
EveryPutAccounted ==
    /\ {f.ref : f \in InFlight \cup Range(buffer) \cup Range(delivered)
                      \cup evicted} = 1..puts
    /\ Cardinality(InFlight) + Len(buffer) + Len(delivered)
         + Cardinality(evicted) = puts

Increasing(s) == \A i, j \in DOMAIN s : i < j => s[i].id < s[j].id

\* The consumer sees frame_ids in strictly increasing order: no frame twice,
\* none out of order, whatever was dropped in between.
InOrderDelivery == ~overlapped => Increasing(delivered \o buffer)

\* Without the conditional put the deque holds the newest frames, without a
\* hole: consecutive ids up to the last one appended.
NewestKept ==
    ~useConditionalPut /\ ~overlapped =>
        /\ \A i, j \in DOMAIN buffer : buffer[j].id + i = buffer[i].id + j
        /\ \A f \in evicted : \A i \in DOMAIN buffer : f.id < buffer[i].id

Buffered(r) == \E f \in Range(buffer) : f.ref = r

\* As long as the consumer polls, a buffered frame, and with it its place in
\* a full deque, does not stay for ever: the consumer takes it or a newer
\* frame pushes it out, also when the stream has been stopped.
BufferedFrameLeaves ==
    WF_vars(GetFrame) => \A r \in 1..MaxFrames : Buffered(r) ~> ~Buffered(r)

\* A stopped stream winds down: each thread ends unless the stream is started
\* again, even one whose deque is full because nobody takes frames any more.
StopEndsThreads ==
    \A t \in Threads :
        (~running /\ pc[t] # "off") ~> (running \/ pc[t] = "off")

-----------------------------------------------------------------------------
\* Refinement: the frames on their way are those in the deque and the one a
\* thread has numbered but not yet appended or passed over.
Numbered == {t \in Threads : pc[t] \in {"full", "put", "append"}}

Pending == {f.id : f \in Range(buffer)} \cup {held[t].id : t \in Numbered}

Channel == INSTANCE FrameChannel WITH
    next     <- frameId,
    pending  <- Pending,
    received <- [i \in DOMAIN delivered |-> delivered[i].id]

\* Until threads overlap the stream is a FrameChannel: put, eviction,
\* conditional put and the empty reply of get_frame never make it repeat,
\* reorder or drop a frame from the middle.
ImplementsChannel ==
    Channel!Init /\ [][~overlapped' => Channel!Next]_(Channel!vars)
=============================================================================
