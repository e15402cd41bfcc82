--------------------------- MODULE InferenceServer ---------------------------
(***************************************************************************)
(* The inference server and its clients, in the two deployments the        *)
(* experiments compare.                                                    *)
(*                                                                         *)
(* If mock holds: inference_mock/server.py. A pool of MaxWorkers threads   *)
(* serves the gRPC calls; one semaphore of MaxConcurrency permits, common  *)
(* to all stages, is held around the simulated inference. The client       *)
(* (InferenceClient) gives each call 10 seconds and turns any error into   *)
(* an empty result.                                                        *)
(*                                                                         *)
(* Otherwise: Triton. Each model has MaxConcurrency instances of its       *)
(* own, no client timeout, and an error ends the client's loop or task.    *)
(*                                                                         *)
(* Clients are the processes with a backend of their own: an analysis      *)
(* actor calling stage after stage, a violence_task, or a falldown_task    *)
(* that calls once per frame of its batch and hands the state_blob of each *)
(* answer to the next call.                                                *)
(***************************************************************************)
EXTENDS Naturals, Sequences, FiniteSets, Functions

CONSTANTS
    Clients,
    Chainers,        \* the clients that are falldown tasks
    Stages,          \* the stages the other clients call
    MaxConcurrency,  \* max_concurrency, instance_group count
    MaxWorkers,      \* ThreadPoolExecutor(max_workers=10)
    MaxCalls         \* batch length of a falldown task; bound for the others

ASSUME ClientsAssumption     == IsFiniteSet(Clients) /\ Chainers \subseteq Clients
ASSUME ConcurrencyAssumption == MaxConcurrency \in Nat \ {0}
ASSUME WorkersAssumption     == MaxWorkers \in Nat \ {0}
ASSUME CallsAssumption       == MaxCalls \in Nat

Falldown == "falldown"

\* A call: who makes it, the how-manieth it is (for a falldown task also the
\* index of its frame, which is the frame_id), its stage and its state_blob.
\* A blob is the sequence of frame_ids the server has appended to it.
Call == [client : Clients, n : 1..MaxCalls, stage : Stages \cup {Falldown},
         blob : Seq(1..MaxCalls)]

VARIABLES
    made,      \* calls each client has made
    open,      \* clients waiting for the answer to their last call
    blob,      \* state_blob of each falldown task
    failed,    \* calls that ended in an error, by client
    dead,      \* clients ended by an exception
    queued,    \* calls at the server without a worker
    atSem,     \* calls whose worker waits for the semaphore
    running,   \* calls in simulate_inference
    replies,   \* answers on their way
    permits,   \* self._semaphore
    mock       \* the mock server is deployed, not Triton

clientVars == <<made, open, blob, failed, dead>>
serverVars == <<queued, atSem, running, permits, mock>>
vars == <<clientVars, serverVars, replies>>

Init ==
    /\ made = [c \in Clients |-> 0]
    /\ open = {}
    /\ blob = [c \in Clients |-> <<>>]
    /\ failed = [c \in Clients |-> {}]
    /\ dead = {}
    /\ queued = {} /\ atSem = {} /\ running = {} /\ replies = {}
    /\ permits = MaxConcurrency
    /\ mock \in BOOLEAN

\* r is the call its client is waiting for.
Awaited(r) == r.client \in open /\ r.n = made[r.client]

-----------------------------------------------------------------------------
\* Clients.

Request(c, stage) ==
    /\ c \notin open \cup dead
    /\ made[c] < MaxCalls
    /\ made' = [made EXCEPT ![c] = @ + 1]
    /\ open' = open \cup {c}
    /\ queued' = queued \cup
         {[client |-> c, n |-> made[c] + 1, stage |-> stage, blob |-> blob[c]]}
    /\ UNCHANGED <<blob, failed, dead, atSem, running, permits, replies, mock>>

\* MUTANT of CallFails: the server's cancellation returns the permit, which
\* the handler returns as well.
CallFailsReleases(c) ==
    /\ c \in open
    /\ open' = open \ {c}
    /\ failed' = [failed EXCEPT ![c] = @ \cup {made[c]}]
    /\ dead' = IF mock THEN dead ELSE dead \cup {c}
    /\ permits' = permits + (IF mock THEN 1 ELSE 0)
    /\ UNCHANGED <<made, blob, queued, atSem, running, replies, mock>>

\* The deadline passes or the connection breaks, wherever the call is. The
\* falldown task keeps the state_blob it had and goes on with its next frame.
CallFails(c) ==
    /\ c \in open
    /\ open' = open \ {c}
    /\ failed' = [failed EXCEPT ![c] = @ \cup {made[c]}]
    /\ dead' = IF mock THEN dead ELSE dead \cup {c}
    /\ UNCHANGED <<made, blob, serverVars, replies>>

\* MUTANT of Deliver: an answer is taken for the call in progress whichever
\* call it answers.
DeliverAny(r) ==
    /\ r \in replies
    /\ replies' = replies \ {r}
    /\ IF r.client \in open
         THEN /\ open' = open \ {r.client}
              /\ blob' = [blob EXCEPT ![r.client] = r.blob]
         ELSE UNCHANGED <<open, blob>>
    /\ UNCHANGED <<made, failed, dead, serverVars>>

\* An answer to a call already given up is dropped by gRPC.
Deliver(r) ==
    /\ r \in replies
    /\ replies' = replies \ {r}
    /\ IF Awaited(r)
         THEN /\ open' = open \ {r.client}
              /\ blob' = [blob EXCEPT ![r.client] = r.blob]
         ELSE UNCHANGED <<open, blob>>
    /\ UNCHANGED <<made, failed, dead, serverVars>>

-----------------------------------------------------------------------------
\* The server.

\* gRPC skips the handler of a call that was given up before it got a worker.
DropGivenUp(r) ==
    /\ r \in queued
    /\ ~Awaited(r)
    /\ queued' = queued \ {r}
    /\ UNCHANGED <<clientVars, atSem, running, permits, replies, mock>>

\* A worker of the pool takes the call and comes to the semaphore. Triton
\* keeps the call queued until an instance is free.
TakeWorker(r) ==
    /\ mock
    /\ r \in queued
    /\ Cardinality(atSem \cup running) < MaxWorkers
    /\ queued' = queued \ {r}
    /\ atSem' = atSem \cup {r}
    /\ UNCHANGED <<clientVars, running, permits, replies, mock>>

\* MUTANT of Acquire: the semaphore is per stage.
AcquirePerStage(r) ==
    /\ mock
    /\ r \in atSem
    /\ Cardinality({q \in running : q.stage = r.stage}) < MaxConcurrency
    /\ atSem' = atSem \ {r}
    /\ running' = running \cup {r}
    /\ UNCHANGED <<clientVars, queued, permits, replies, mock>>

Acquire(r) ==
    /\ mock
    /\ r \in atSem
    /\ permits > 0
    /\ permits' = permits - 1
    /\ atSem' = atSem \ {r}
    /\ running' = running \cup {r}
    /\ UNCHANGED <<clientVars, queued, replies, mock>>

\* instance_group: a call starts on an idle instance of its model.
StartInstance(r) ==
    /\ ~mock
    /\ r \in queued
    /\ Cardinality({q \in running : q.stage = r.stage}) < MaxConcurrency
    /\ queued' = queued \ {r}
    /\ running' = running \cup {r}
    /\ UNCHANGED <<clientVars, atSem, permits, replies, mock>>

\* The Falldown handler appends the frame_id to the blob it was given.
UpdatedState(r) ==
    IF r.stage = Falldown THEN Append(r.blob, r.n) ELSE r.blob

\* MUTANT of Finish: the permit of a call nobody waits for is not returned.
FinishLeaks(r) ==
    /\ r \in running
    /\ running' = running \ {r}
    /\ permits' = permits + (IF mock /\ Awaited(r) THEN 1 ELSE 0)
    /\ replies' = replies \cup {[r EXCEPT !.blob = UpdatedState(r)]}
    /\ UNCHANGED <<clientVars, queued, atSem, mock>>

\* The inference ends; a call given up meanwhile has held its slot as long as
\* any other, and its answer is sent all the same.
Finish(r) ==
    /\ r \in running
    /\ running' = running \ {r}
    /\ permits' = permits + (IF mock THEN 1 ELSE 0)
    /\ replies' = replies \cup {[r EXCEPT !.blob = UpdatedState(r)]}
    /\ UNCHANGED <<clientVars, queued, atSem, mock>>

-----------------------------------------------------------------------------
StageOf(c) == IF c \in Chainers THEN {Falldown} ELSE Stages

ServerStep(r) == TakeWorker(r) \/ Acquire(r) \/ StartInstance(r) \/ Finish(r)

Next ==
    \/ \E c \in Clients : \E stage \in StageOf(c) : Request(c, stage)
    \/ \E c \in Clients : CallFails(c)
    \/ \E r \in queued : DropGivenUp(r) \/ TakeWorker(r) \/ StartInstance(r)
    \/ \E r \in atSem : Acquire(r)
    \/ \E r \in running : Finish(r)
    \/ \E r \in replies : Deliver(r)

Spec == Init /\ [][Next]_vars

CallsOf(c) == {r \in queued \cup atSem \cup running \cup replies : r.client = c}

\* Worker threads, the inference and the network make progress for every
\* client, and a waiting thread is not passed over for ever (Semaphore wakes
\* its waiters in turn, Triton queues calls in order), hence the strong
\* fairness. No call need fail and no client need call again.
FairSpec ==
    /\ Spec
    /\ \A c \in Clients :
         /\ SF_vars(\E r \in CallsOf(c) : ServerStep(r))
         /\ WF_vars(\E r \in CallsOf(c) : Deliver(r))

-----------------------------------------------------------------------------
\* Type invariant.
TypeOK ==
    /\ made \in [Clients -> 0..MaxCalls]
    /\ open \subseteq Clients
    /\ blob \in [Clients -> Seq(1..MaxCalls)]
    /\ failed \in [Clients -> SUBSET (1..MaxCalls)]
    /\ dead \subseteq Clients
    /\ permits \in 0..MaxConcurrency
    /\ mock \in BOOLEAN
    /\ \A r \in queued \cup atSem \cup running \cup replies : r \in Call

\* max_concurrency is the "number of slots processing at the same time": no
\* more inferences than that are under way, all stages together, not even
\* when clients have given up some of them.
SlotsRespected == mock => Cardinality(running) <= MaxConcurrency

\* The instance counts of the Triton models are said to reproduce that limit.
SameSlotsInTriton == ~mock => Cardinality(running) <= MaxConcurrency

\* The state a falldown task ends up with is the chain of its successful
\* calls, in order and each once: a failed call leaves no trace in it although
\* the server may have computed its state, and a late answer is never mixed in.
ChainIsSuccesses ==
    \A c \in Chainers :
        LET done == 1..(IF c \in open THEN made[c] - 1 ELSE made[c]) IN
        /\ Range(blob[c]) = done \ failed[c]
        /\ \A i, j \in DOMAIN blob[c] : i < j => blob[c][i] < blob[c][j]

\* Workers blocked on the semaphore never block the server for good, not even
\* when they serve calls nobody waits for any more: every call comes to an end
\* without the help of the timeout.
EveryCallEnds == \A c \in Clients : c \in open ~> c \notin open
=============================================================================
