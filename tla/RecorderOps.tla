------------------------------- MODULE RecorderOps -------------------------------
(***************************************************************************)
(* The two containers an analysis actor's recorder is built on, as         *)
(* functions of the entries they hold (oldest first) and the new entry.    *)
(***************************************************************************)
EXTENDS Integers, Sequences

CONSTANT MaxRecorded   \* recorder_max_frames

ASSUME MaxRecordedAssumption == MaxRecorded \in Nat

\* numpy's a[-n:]: the last n rows, but -0 is 0, so a[-0:] is all of a.
SliceLast(a, n) ==
    IF n = 0 \/ n >= Len(a) THEN a ELSE SubSeq(a, Len(a) - n + 1, Len(a))

\* MUTANT of NpAppend: cuts the array only when it is past max_frames + 1.
NpAppendLate(a, e) ==
    LET grown == Append(a, e)
    IN  IF Len(grown) > MaxRecorded + 1 THEN SliceLast(grown, MaxRecorded)
                                        ELSE grown

\* FrameRecorder.append: np.append, then cut if too long.
NpAppend(a, e) ==
    LET grown == Append(a, e)
    IN  IF Len(grown) > MaxRecorded THEN SliceLast(grown, MaxRecorded)
                                    ELSE grown

\* MUTANT of DequeAppend: a deque without maxlen.
DequeAppendUnbounded(d, e) == Append(d, e)

\* FrameRecorderDeque.append: deque(maxlen) discards from the left; with
\* maxlen 0 nothing is kept.
DequeAppend(d, e) ==
    IF MaxRecorded = 0 THEN <<>>
    ELSE IF Len(d) < MaxRecorded THEN Append(d, e)
    ELSE Append(Tail(d), e)

\* The entries either container is meant to hold.
LastRecorded(h) ==
    IF Len(h) <= MaxRecorded THEN h
    ELSE SubSeq(h, Len(h) - MaxRecorded + 1, Len(h))
=============================================================================
