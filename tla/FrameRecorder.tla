---------------------------- MODULE FrameRecorder ----------------------------
(***************************************************************************)
(* The recorders of an analysis actor. Two containers hold the last        *)
(* max_frames entries: an object array grown with np.append and cut with   *)
(* [-max_frames:] (FrameRecorder, ObjectRefRecorder with use_deque off)    *)
(* and a deque(maxlen=max_frames) (FrameRecorderDeque, ObjectRefRecorder   *)
(* with use_deque on). build_recorder picks one by flags; the experiment   *)
(* compares their costs, so they must hold the same entries.               *)
(*                                                                         *)
(* Both containers are driven here by the same calls, beside the history   *)
(* of what was appended since the last clear.                              *)
(***************************************************************************)
EXTENDS RecorderOps

CONSTANT MaxAppends     \* bound: appends in a behaviour

ASSUME MaxAppendsAssumption  == MaxAppends \in Nat

\* An entry (timestamp, frame or ObjectRef, tracks) is known by the ordinal
\* of its append: both containers store the three fields as they come.
Entry == Nat

VARIABLES
    frames,     \* FrameRecorder.frames
    ring,       \* FrameRecorderDeque.frames
    history,    \* entries appended since the last clear
    appended,   \* number of appends
    snapshot    \* the last get_all: what each container returned

vars == <<frames, ring, history, appended, snapshot>>

Init ==
    /\ frames = <<>>
    /\ ring = <<>>
    /\ history = <<>>
    /\ appended = 0
    /\ snapshot = [np |-> <<>>, deque |-> <<>>]

Record ==
    /\ appended < MaxAppends
    /\ LET e == appended + 1 IN
         /\ frames' = NpAppend(frames, e)
         /\ ring' = DequeAppend(ring, e)
         /\ history' = Append(history, e)
         /\ appended' = e
    /\ UNCHANGED snapshot

\* get_all returns a copy: later appends leave a snapshot as it was.
GetAll ==
    /\ snapshot' = [np |-> frames, deque |-> ring]
    /\ UNCHANGED <<frames, ring, history, appended>>

\* MUTANT of Clear: the deque keeps what it holds.
ClearArrayOnly ==
    /\ frames' = <<>>
    /\ history' = <<>>
    /\ UNCHANGED <<ring, appended, snapshot>>

Clear ==
    /\ frames' = <<>>
    /\ ring' = <<>>
    /\ history' = <<>>
    /\ UNCHANGED <<appended, snapshot>>

Next == Record \/ GetAll \/ Clear

Spec == Init /\ [][Next]_vars

-----------------------------------------------------------------------------
\* Type invariant; the deque never outgrows its maxlen.
TypeOK ==
    /\ frames \in Seq(Entry)
    /\ ring \in Seq(Entry)
    /\ Len(ring) <= MaxRecorded
    /\ history \in Seq(Entry)
    /\ appended \in Nat
    /\ snapshot \in [np : Seq(Entry), deque : Seq(Entry)]

\* "Keep only last max_frames": the np.append container holds exactly the
\* last max_frames entries appended since clear, oldest first.
KeepsLast == frames = LastRecorded(history)

\* The two containers, and any two snapshots taken together, agree after
\* every sequence of appends and clears: turning use_deque_recorder on
\* changes cost, not content.
ContainersAgree ==
    /\ frames = ring
    /\ snapshot.np = snapshot.deque
=============================================================================
