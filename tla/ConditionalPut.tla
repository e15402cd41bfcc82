--------------------------- MODULE ConditionalPut ---------------------------
(***************************************************************************)
(* The StreamActor with the conditional put on, in lockstep with the deque *)
(* the same frames would fill with it off: same camera, same pace, same    *)
(* get_frame calls. The comparison decides what the flag costs: which      *)
(* frames the consumer no longer gets.                                     *)
(***************************************************************************)
EXTENDS StreamActor

VARIABLES
    plain,          \* ids in the deque of the unconditional stream
    plainDelivered  \* history: ids get_frame returns from it

allVars == <<running, starts, pc, held, frameId, puts, buffer, delivered,
             evicted, skipped, overlapped, useConditionalPut, plain,
             plainDelivered>>

PushPlain(id) ==
    plain' = Append(IF Len(plain) < QueueMax THEN plain ELSE Tail(plain), id)

LockstepInit ==
    /\ Init
    /\ useConditionalPut
    /\ plain = <<>>
    /\ plainDelivered = <<>>

\* Passing a frame over is the moment the unconditional stream appends it.
LockstepCheckFull(t) ==
    /\ CheckFull(t)
    /\ IF pc'[t] = "loop" THEN PushPlain(held[t].id) ELSE UNCHANGED plain
    /\ UNCHANGED plainDelivered

LockstepAppend(t) ==
    /\ AppendFrame(t)
    /\ PushPlain(held[t].id)
    /\ UNCHANGED plainDelivered

LockstepGetFrame ==
    /\ GetFrame
    /\ IF plain = <<>>
         THEN UNCHANGED <<plain, plainDelivered>>
         ELSE /\ plainDelivered' = Append(plainDelivered, Head(plain))
              /\ plain' = Tail(plain)

LockstepNext ==
    \/ LockstepGetFrame
    \/ \E t \in Threads : LockstepCheckFull(t) \/ LockstepAppend(t)
    \/ /\ \/ StartStreaming
          \/ Stop
          \/ \E t \in Threads :
               Loop(t) \/ ReadFrameId(t) \/ BumpFrameId(t) \/ Put(t)
       /\ UNCHANGED <<plain, plainDelivered>>

LockstepSpec == LockstepInit /\ [][LockstepNext]_allVars

-----------------------------------------------------------------------------
\* The flag changes which frames are kept, never how many: the two deques
\* have the same length at every moment, so get_frame answers None at the
\* same calls, and the conditional stream's frames are never the fresher.
SameSupply ==
    ~overlapped =>
        /\ Len(buffer) = Len(plain)
        /\ Len(delivered) = Len(plainDelivered)
        /\ \A i \in DOMAIN buffer : buffer[i].id <= plain[i]

\* What the comment at the fullness test says: a frame passed over because
\* the deque was full "would be pushed out anyway", so the consumer of the
\* unconditional stream would not have got it either.
SkippedWouldBeLost ==
    ~overlapped => skipped \cap Range(plainDelivered) = {}
=============================================================================
