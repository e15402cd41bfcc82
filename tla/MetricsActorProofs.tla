-------------------------- MODULE MetricsActorProofs --------------------------
(***************************************************************************)
(* Theorems about the MetricsActor, for every set of senders and any       *)
(* number of calls, with and without a close before the shutdown, which    *)
(* may come between any two steps of a call.                               *)
(*                                                                         *)
(* MInv adds to the properties what is known of the call under way         *)
(* (CallUnderWay), what close leaves true for good (ClosedFile), that no   *)
(* latency row is at risk but in the step before its flush (AtRisk), and   *)
(* the order of a sender's calls on their whole way, in the inbox, in the  *)
(* actor's hand and in the file (CallsOrdered).                            *)
(***************************************************************************)
EXTENDS MetricsActor, TLAPS, SequenceTheorems

\* The actor is idle or has one latency in hand; before the flush its row is
\* the last one.
CallUnderWay ==
    /\ at = "idle" => doing = {}
    /\ at # "idle" => \E c \in Call : doing = {c}
    /\ at = "flush" => Len(rows) > 0 /\ doing = {rows[Len(rows)]}

\* A closed file has everything on disk, with no flush outstanding; a run()
\* that is down has closed it.
ClosedFile ==
    /\ file = "closed" => flushed = Len(rows) /\ ~torn /\ at # "flush"
    /\ driver = "closed" \/ (closesFirst /\ driver = "down") => file = "closed"

\* Only between its write and its flush can a latency row be lost.
AtRisk ==
    \A i \in DOMAIN rows :
        i > flushed => rows[i].kind = "process" \/ (at = "flush" /\ i = Len(rows))

\* Calls of one sender wait in the order they were made, after all of its
\* rows and after its call in hand, and none has a greater ordinal than the
\* last one made.
CallsOrdered ==
    \A s \in Senders :
        /\ \A i \in DOMAIN inbox[s] :
             /\ inbox[s][i].from = s
             /\ inbox[s][i].n <= sent[s]
        /\ \A i, j \in DOMAIN inbox[s] : i < j => inbox[s][i].n < inbox[s][j].n
        /\ \A k \in DOMAIN rows : rows[k].from = s =>
             /\ rows[k].n <= sent[s]
             /\ \A i \in DOMAIN inbox[s] : rows[k].n < inbox[s][i].n
        /\ \A c \in doing : at = "write" /\ c.from = s =>
             /\ c.n <= sent[s]
             /\ \A i \in DOMAIN inbox[s] : c.n < inbox[s][i].n
             /\ \A k \in DOMAIN rows : rows[k].from = s => rows[k].n < c.n

MInv ==
    /\ TypeOK
    /\ CallUnderWay
    /\ ClosedFile
    /\ AtRisk
    /\ LatenciesReachDisk
    /\ CallsOrdered
    /\ SenderOrderKept

-----------------------------------------------------------------------------
\* The head of an inbox is a call, and the rest of it stays a sequence.
LEMMA HeadCall ==
    ASSUME TypeOK, NEW s \in Senders, inbox[s] # <<>>
    PROVE  /\ Head(inbox[s]) \in Call
           /\ Head(inbox[s]) = inbox[s][1]
           /\ 1 \in DOMAIN inbox[s]
           /\ Tail(inbox[s]) \in Seq(Call)
           /\ Len(Tail(inbox[s])) = Len(inbox[s]) - 1
           /\ \A i \in DOMAIN Tail(inbox[s]) :
                /\ i \in Nat /\ i + 1 \in DOMAIN inbox[s]
                /\ 1 < i + 1
                /\ Tail(inbox[s])[i] = inbox[s][i + 1]
<1>1. inbox[s] \in Seq(Call)
  BY DEF TypeOK
<1>2. 1 \in DOMAIN inbox[s] /\ Head(inbox[s]) = inbox[s][1]
  BY <1>1, EmptySeq, LenProperties
<1>3. /\ Tail(inbox[s]) \in Seq(Call)
      /\ Len(Tail(inbox[s])) = Len(inbox[s]) - 1
      /\ \A i \in 1..(Len(inbox[s]) - 1) : Tail(inbox[s])[i] = inbox[s][i + 1]
  BY <1>1, HeadTailProperties
<1>4. DOMAIN Tail(inbox[s]) = 1..(Len(inbox[s]) - 1) /\ Len(inbox[s]) \in Nat
      /\ DOMAIN inbox[s] = 1..Len(inbox[s])
  BY <1>1, <1>3, LenProperties
<1> QED
  BY <1>1, <1>2, <1>3, <1>4, HeadTailProperties

\* Appending a row leaves the others where they are.
LEMMA RowAppended ==
    ASSUME TypeOK, NEW row \in Call
    PROVE  LET new == Append(rows, row) IN
             /\ new \in Seq(Call)
             /\ Len(rows) \in Nat /\ DOMAIN rows = 1..Len(rows)
             /\ Len(new) = Len(rows) + 1
             /\ DOMAIN new = 1..(Len(rows) + 1)
             /\ \A k \in 1..Len(rows) : new[k] = rows[k]
             /\ new[Len(rows) + 1] = row
<1>1. rows \in Seq(Call)
  BY DEF TypeOK
<1> QED
  BY <1>1, AppendProperties, LenProperties

\* MInv holds initially.
LEMMA MInvInit == Init => MInv
<1> SUFFICES ASSUME Init PROVE MInv
    OBVIOUS
<1>1. rows = <<>> /\ Len(rows) = 0 /\ DOMAIN rows = {} /\ rows \in Seq(Call)
  BY EmptySeq, LenProperties DEF Init
<1>2. inbox \in [Senders -> Seq(Call)] /\ \A s \in Senders : DOMAIN inbox[s] = {}
  BY EmptySeq DEF Init
<1>3. TypeOK
  <2>1. flushed \in 0..Len(rows) /\ sent \in [Senders -> 0..MaxSent]
    BY <1>1, SentAssumption DEF Init
  <2>2. torn \in BOOLEAN
    BY DEF Init
  <2> QED
    BY <1>1, <1>2, <2>1, <2>2 DEF Init, TypeOK
<1>4. ClosedFile /\ AtRisk /\ SenderOrderKept /\ CallUnderWay
  BY <1>1 DEF Init, ClosedFile, AtRisk, SenderOrderKept, CallUnderWay
<1>5. CallsOrdered
  BY <1>1, <1>2 DEF Init, CallsOrdered
<1>6. LatenciesReachDisk
  BY DEF Init, LatenciesReachDisk
<1> QED
  BY <1>3, <1>4, <1>5, <1>6 DEF MInv

-----------------------------------------------------------------------------
\* The steps that leave calls, file and counts alone.
Elsewhere == UNCHANGED <<call, csv, tally>>

LEMMA ElsewhereSteps ==
    ASSUME \/ \E s \in Senders, kind \in Kinds : Send(s, kind)
           \/ AskClose \/ Shutdown \/ UNCHANGED vars
    PROVE  Elsewhere
  BY DEF Send, AskClose, Shutdown, vars, Elsewhere

\* log_csv_row with a call in hand: the row at an open file, an exception at
\* a closed one.
LEMMA LogCases ==
    ASSUME LogCsvRow
    PROVE  /\ at = "write" /\ UNCHANGED <<sent, inbox, file, flushed, torn, observed, end>>
           /\ \E c \in doing :
                \/ /\ file = "open" /\ at' = "flush" /\ doing' = doing
                   /\ rows' = Append(rows, c) /\ raised' = raised
                \/ /\ file # "open" /\ at' = "idle" /\ doing' = {}
                   /\ rows' = rows /\ raised' = raised \cup {c}
  BY DEF LogCsvRow, WriteRow, CallEnds

\* record_process_metrics writes its row, raises or does nothing.
LEMMA ProcessCases ==
    ASSUME NEW s \in Senders, RecordProcessMetrics(s)
    PROVE  /\ Receive(s) /\ Head(inbox[s]).kind = "process"
           /\ UNCHANGED <<sent, call, file, flushed, torn, observed, end>>
           /\ \/ rows' = rows /\ (raised' = raised \/ raised' = raised \cup {Head(inbox[s])})
              \/ file = "open" /\ rows' = Append(rows, Head(inbox[s])) /\ raised' = raised
  BY DEF RecordProcessMetrics

\* No step breaks TypeOK.
LEMMA MTypeNext == TypeOK /\ [Next]_vars => TypeOK'
<1> SUFFICES ASSUME TypeOK, [Next]_vars PROVE TypeOK'
    OBVIOUS
<1> USE DEF call, csv, tally, end
<1>0. Len(rows) \in Nat
  BY LenProperties DEF TypeOK
<1>1. ASSUME NEW s \in Senders, NEW kind \in Kinds, Send(s, kind) PROVE TypeOK'
  <2> DEFINE c == NewCall(s, kind)
  <2>1. sent[s] + 1 \in 1..MaxSent /\ sent[s] + 1 \in 0..MaxSent
    BY <1>1, SentAssumption DEF Send, TypeOK
  <2>2. c \in Call
    BY <2>1 DEF Call, NewCall
  <2>3. inbox[s] \in Seq(Call)
    BY DEF TypeOK
  <2>4. Append(inbox[s], c) \in Seq(Call)
    BY <2>2, <2>3, AppendProperties
  <2>5. inbox' = [inbox EXCEPT ![s] = Append(inbox[s], c)]
    BY <1>1 DEF Send
  <2> HIDE DEF c
  <2>6. inbox' \in [Senders -> Seq(Call)]
    BY <2>4, <2>5 DEF TypeOK
  <2> QED
    BY <1>1, <2>1, <2>6 DEF Send, TypeOK
<1>2. ASSUME NEW s \in Senders, Receive(s)
      PROVE  /\ Head(inbox[s]) \in Call
             /\ inbox' \in [Senders -> Seq(Call)]
  <2>1. inbox[s] # <<>> /\ inbox' = [inbox EXCEPT ![s] = Tail(inbox[s])]
    BY <1>2 DEF Receive
  <2>2. Head(inbox[s]) \in Call /\ Tail(inbox[s]) \in Seq(Call)
    BY <2>1, HeadCall
  <2> QED
    BY <2>1, <2>2 DEF TypeOK
<1>3. ASSUME NEW s \in Senders, Observe(s) PROVE TypeOK'
  <2>1. Receive(s) /\ doing' = {Head(inbox[s])} /\ observed' = observed \cup {Head(inbox[s])}
    BY <1>3 DEF Observe
  <2>2. Head(inbox[s]) \in Call /\ inbox' \in [Senders -> Seq(Call)]
    BY <1>2, <2>1
  <2>3. doing' \subseteq Call /\ observed' \subseteq Call
    BY <2>1, <2>2 DEF TypeOK
  <2>4. at' = "write" /\ UNCHANGED <<sent, csv, raised, end>>
    BY <1>3 DEF Observe
  <2> QED
    BY <2>2, <2>3, <2>4 DEF TypeOK
<1>4. ASSUME NEW c \in Call, rows' = Append(rows, c), flushed' = flushed
      PROVE  rows' \in Seq(Call) /\ flushed' \in 0..Len(rows')
  <2>1. rows' \in Seq(Call) /\ Len(rows') = Len(rows) + 1
    BY <1>4, RowAppended
  <2> QED
    BY <1>0, <1>4, <2>1 DEF TypeOK
<1>5. ASSUME NEW s \in Senders, RecordProcessMetrics(s) PROVE TypeOK'
  <2>1. Head(inbox[s]) \in Call /\ inbox' \in [Senders -> Seq(Call)]
    BY <1>2, <1>5, ProcessCases
  <2>2. rows' \in Seq(Call) /\ flushed' \in 0..Len(rows')
    <3>1. CASE rows' = rows
      BY <1>5, <3>1, ProcessCases DEF TypeOK
    <3>2. CASE rows' = Append(rows, Head(inbox[s]))
      BY <1>4, <1>5, <2>1, <3>2, ProcessCases
    <3> QED
      BY <1>5, <3>1, <3>2, ProcessCases
  <2>3. raised' \subseteq Call
    BY <1>5, <2>1, ProcessCases DEF TypeOK
  <2> QED
    BY <1>5, <2>1, <2>2, <2>3, ProcessCases DEF TypeOK
<1>6. ASSUME LogCsvRow PROVE TypeOK'
  <2>1. PICK c \in doing :
          \/ /\ file = "open" /\ at' = "flush" /\ doing' = doing
             /\ rows' = Append(rows, c) /\ raised' = raised
          \/ /\ file # "open" /\ at' = "idle" /\ doing' = {}
             /\ rows' = rows /\ raised' = raised \cup {c}
    BY <1>6, LogCases
  <2>2. c \in Call /\ UNCHANGED <<sent, inbox, file, flushed, torn, observed, end>>
    BY <1>6, LogCases DEF TypeOK
  <2>3. rows' \in Seq(Call) /\ flushed' \in 0..Len(rows')
    <3>1. CASE rows' = rows
      BY <2>2, <3>1 DEF TypeOK
    <3>2. CASE rows' = Append(rows, c)
      BY <1>4, <2>2, <3>2
    <3> QED
      BY <2>1, <3>1, <3>2
  <2>4. doing' \subseteq Call /\ raised' \subseteq Call /\ at' \in {"idle", "write", "flush"}
    BY <2>1, <2>2 DEF TypeOK
  <2> QED
    BY <2>2, <2>3, <2>4 DEF TypeOK
<1>7. CASE FlushRow
  <2>1. flushed' \in 0..Len(rows') /\ rows' \in Seq(Call)
    BY <1>0, <1>7 DEF FlushRow, TypeOK
  <2>2. torn' \in BOOLEAN
    BY <1>7 DEF FlushRow
  <2> QED
    BY <1>7, <2>1, <2>2 DEF FlushRow, CallEnds, TypeOK
<1>8. CASE BufferSpills
  <2>1. flushed \in Nat /\ flushed' \in flushed..Len(rows)
    BY <1>0, <1>8 DEF BufferSpills, TypeOK
  <2>2. flushed' \in 0..Len(rows)
    BY <1>0, <2>1
  <2>3. (flushed' < Len(rows)) \in BOOLEAN
    OBVIOUS
  <2>4. torn' \in BOOLEAN
    BY <1>8, <2>3, Zenon DEF BufferSpills
  <2> QED
    BY <1>8, <2>2, <2>4 DEF BufferSpills, TypeOK
<1>9. CASE AskClose \/ Close \/ Shutdown
  <2>1. flushed' \in 0..Len(rows') /\ rows' \in Seq(Call)
    BY <1>0, <1>9 DEF AskClose, Close, Shutdown, TypeOK
  <2>2. torn' \in BOOLEAN
    BY <1>9 DEF AskClose, Close, Shutdown, TypeOK
  <2> QED
    BY <1>9, <2>1, <2>2 DEF AskClose, Close, Shutdown, TypeOK
<1>10. CASE UNCHANGED vars
  BY <1>10 DEF vars, TypeOK
<1> QED
  BY <1>1, <1>3, <1>5, <1>6, <1>7, <1>8, <1>9, <1>10 DEF Next

\* What is known of the call under way: one step of it follows the other.
LEMMA CallUnderWayNext == TypeOK /\ CallUnderWay /\ [Next]_vars => CallUnderWay'
<1> SUFFICES ASSUME TypeOK, CallUnderWay, [Next]_vars PROVE CallUnderWay'
    OBVIOUS
<1> USE DEF call, csv, tally, end
<1>1. CASE Elsewhere
  BY <1>1 DEF Elsewhere, CallUnderWay
<1>2. ASSUME NEW s \in Senders, Observe(s) PROVE CallUnderWay'
  <2>1. Head(inbox[s]) \in Call
    BY <1>2, HeadCall DEF Observe, Receive
  <2> QED
    BY <1>2, <2>1 DEF Observe, CallUnderWay
<1>3. ASSUME NEW s \in Senders, RecordProcessMetrics(s) PROVE CallUnderWay'
  BY <1>3, ProcessCases DEF Receive, CallUnderWay
<1>4. ASSUME LogCsvRow PROVE CallUnderWay'
  <2>1. PICK c \in doing :
          \/ /\ file = "open" /\ at' = "flush" /\ doing' = doing
             /\ rows' = Append(rows, c) /\ raised' = raised
          \/ /\ file # "open" /\ at' = "idle" /\ doing' = {}
             /\ rows' = rows /\ raised' = raised \cup {c}
    BY <1>4, LogCases
  <2>2. doing = {c} /\ c \in Call
    BY <1>4, <2>1, LogCases DEF CallUnderWay
  <2>3. CASE doing' = {} /\ at' = "idle"
    BY <2>3 DEF CallUnderWay
  <2>4. CASE rows' = Append(rows, c) /\ doing' = doing /\ at' = "flush"
    <3>1. Len(rows') = Len(rows) + 1 /\ Len(rows) \in Nat /\ rows'[Len(rows) + 1] = c
      BY <2>2, <2>4, RowAppended
    <3> QED
      BY <2>2, <2>4, <3>1 DEF CallUnderWay
  <2> QED
    BY <2>1, <2>3, <2>4
<1>5. CASE FlushRow
  BY <1>5 DEF FlushRow, CallEnds, CallUnderWay
<1>6. CASE BufferSpills \/ Close
  BY <1>6 DEF BufferSpills, Close, CallUnderWay
<1> QED
  BY <1>1, <1>2, <1>3, <1>4, <1>5, <1>6, ElsewhereSteps DEF Next

\* Once closed, the file has every row on disk and takes no more.
LEMMA ClosedFileNext == TypeOK /\ ClosedFile /\ [Next]_vars => ClosedFile'
<1> SUFFICES ASSUME TypeOK, ClosedFile, [Next]_vars PROVE ClosedFile'
    OBVIOUS
<1> USE DEF call, csv, tally, end
<1>1. ASSUME NEW s \in Senders, NEW kind \in Kinds, Send(s, kind)
      PROVE  ClosedFile'
  BY <1>1 DEF Send, ClosedFile
<1>2. ASSUME NEW s \in Senders, Observe(s) PROVE ClosedFile'
  BY <1>2 DEF Observe, ClosedFile
<1>3. ASSUME NEW s \in Senders, RecordProcessMetrics(s) PROVE ClosedFile'
  BY <1>3, ProcessCases DEF ClosedFile
<1>4. CASE LogCsvRow
  BY <1>4, LogCases DEF ClosedFile
<1>5. CASE FlushRow
  BY <1>5 DEF FlushRow, CallEnds, ClosedFile
<1>6. CASE BufferSpills
  <2>1. Len(rows) \in Nat
    BY LenProperties DEF TypeOK
  <2> QED
    BY <1>6, <2>1 DEF BufferSpills, ClosedFile, TypeOK
<1>7. CASE AskClose \/ Close \/ Shutdown
  BY <1>7 DEF AskClose, Close, Shutdown, ClosedFile
<1>8. CASE UNCHANGED vars
  BY <1>8 DEF vars, ClosedFile
<1> QED
  BY <1>1, <1>2, <1>3, <1>4, <1>5, <1>6, <1>7, <1>8 DEF Next

\* A latency row is at risk from the step that writes it to the next step of
\* its call, and no row is written in between.
LEMMA AtRiskNext ==
    TypeOK /\ CallUnderWay /\ AtRisk /\ [Next]_vars => AtRisk'
<1> SUFFICES ASSUME TypeOK, CallUnderWay, AtRisk, [Next]_vars PROVE AtRisk'
    OBVIOUS
<1> USE DEF call, csv, tally, end
<1>0. Len(rows) \in Nat /\ DOMAIN rows = 1..Len(rows) /\ flushed \in Nat
  BY LenProperties DEF TypeOK
<1>1. CASE Elsewhere
  BY <1>1 DEF Elsewhere, AtRisk
<1>2. ASSUME NEW s \in Senders, Observe(s) PROVE AtRisk'
  BY <1>2 DEF Observe, Receive, AtRisk
<1>3. ASSUME NEW c \in Call, at # "flush", rows' = Append(rows, c), flushed' = flushed,
             c.kind = "process" \/ at' = "flush"
      PROVE  AtRisk'
  <2>1. /\ DOMAIN rows' = 1..(Len(rows) + 1) /\ Len(rows') = Len(rows) + 1
        /\ \A k \in 1..Len(rows) : rows'[k] = rows[k]
        /\ rows'[Len(rows) + 1] = c
    BY <1>3, RowAppended
  <2>2. ASSUME NEW i \in DOMAIN rows', i > flushed
        PROVE  rows'[i].kind = "process" \/ (at' = "flush" /\ i = Len(rows'))
    <3>1. CASE i \in 1..Len(rows)
      BY <1>0, <1>3, <2>1, <2>2, <3>1 DEF AtRisk
    <3>2. CASE i = Len(rows) + 1
      BY <1>3, <2>1, <3>2
    <3> QED
      BY <1>0, <2>1, <3>1, <3>2
  <2> QED
    BY <1>3, <2>2 DEF AtRisk
<1>4. ASSUME NEW s \in Senders, RecordProcessMetrics(s) PROVE AtRisk'
  <2>1. at = "idle" /\ at' = at /\ flushed' = flushed /\ Head(inbox[s]).kind = "process"
    BY <1>4, ProcessCases DEF Receive
  <2>2. Head(inbox[s]) \in Call
    BY <1>4, ProcessCases, HeadCall DEF Receive
  <2>3. CASE rows' = rows
    BY <2>1, <2>3 DEF AtRisk
  <2>4. CASE rows' = Append(rows, Head(inbox[s]))
    BY <1>3, <2>1, <2>2, <2>4
  <2> QED
    BY <1>4, <2>3, <2>4, ProcessCases
<1>5. ASSUME LogCsvRow PROVE AtRisk'
  <2>1. at = "write" /\ flushed' = flushed
    BY <1>5, LogCases
  <2>2. PICK c \in doing : \/ at' = "flush" /\ rows' = Append(rows, c)
                           \/ rows' = rows
    BY <1>5, LogCases
  <2>3. c \in Call
    BY DEF TypeOK
  <2>4. CASE rows' = rows
    BY <2>1, <2>4 DEF AtRisk
  <2>5. CASE at' = "flush" /\ rows' = Append(rows, c)
    BY <1>3, <2>1, <2>3, <2>5
  <2> QED
    BY <2>2, <2>4, <2>5
<1>6. CASE FlushRow \/ Close
  BY <1>0, <1>6 DEF FlushRow, Close, AtRisk
<1>7. CASE BufferSpills
  <2>1. flushed' \in Nat /\ flushed' >= flushed /\ UNCHANGED <<rows, at>>
    BY <1>0, <1>7 DEF BufferSpills
  <2> QED
    BY <1>0, <2>1 DEF AtRisk
<1> QED
  BY <1>1, <1>2, <1>4, <1>5, <1>6, <1>7, ElsewhereSteps DEF Next

\* What is on disk stays there; the flush adds the call under way.
LEMMA ReachDiskNext ==
    TypeOK /\ CallUnderWay /\ LatenciesReachDisk /\ [Next]_vars => LatenciesReachDisk'
<1> SUFFICES ASSUME TypeOK, CallUnderWay, LatenciesReachDisk, [Next]_vars
             PROVE  LatenciesReachDisk'
    OBVIOUS
<1> USE DEF call, csv, tally, end
<1>0. /\ Len(rows) \in Nat /\ DOMAIN rows = 1..Len(rows)
      /\ flushed \in Nat /\ flushed <= Len(rows)
  BY LenProperties DEF TypeOK
<1>1. ASSUME OnDisk \subseteq OnDisk', raised \subseteq raised',
             doing \subseteq OnDisk' \cup raised' \cup doing',
             observed' \subseteq observed \cup doing'
      PROVE  LatenciesReachDisk'
  BY <1>1 DEF LatenciesReachDisk
<1>2. ASSUME UNCHANGED rows, flushed' \in Nat, flushed <= flushed'
      PROVE  OnDisk \subseteq OnDisk'
  BY <1>0, <1>2 DEF OnDisk
<1>3. ASSUME NEW c \in Call, rows' = Append(rows, c), flushed' = flushed
      PROVE  OnDisk \subseteq OnDisk'
  <2>1. \A k \in 1..Len(rows) : rows'[k] = rows[k]
    BY <1>3, RowAppended
  <2> QED
    BY <1>0, <1>3, <2>1 DEF OnDisk
<1>4. CASE Elsewhere
  BY <1>4 DEF Elsewhere, LatenciesReachDisk, OnDisk
<1>5. ASSUME NEW s \in Senders, Observe(s) PROVE LatenciesReachDisk'
  <2>1. doing = {}
    BY <1>5 DEF Observe, Receive, CallUnderWay
  <2> QED
    BY <1>0, <1>1, <1>2, <1>5, <2>1 DEF Observe
<1>6. ASSUME NEW s \in Senders, RecordProcessMetrics(s) PROVE LatenciesReachDisk'
  <2>1. Head(inbox[s]) \in Call
    BY <1>6, ProcessCases, HeadCall DEF Receive
  <2>2. OnDisk \subseteq OnDisk'
    BY <1>0, <1>2, <1>3, <1>6, <2>1, ProcessCases
  <2> QED
    BY <1>1, <1>6, <2>2, ProcessCases
<1>7. ASSUME LogCsvRow PROVE LatenciesReachDisk'
  <2>1. flushed' = flushed /\ observed' = observed
    BY <1>7, LogCases
  <2>2. PICK c \in doing :
          \/ /\ doing' = doing /\ rows' = Append(rows, c) /\ raised' = raised
          \/ /\ doing' = {} /\ rows' = rows /\ raised' = raised \cup {c}
    BY <1>7, LogCases
  <2>3. c \in Call /\ doing = {c}
    BY <1>7, LogCases DEF CallUnderWay, TypeOK
  <2>4. OnDisk \subseteq OnDisk'
    BY <1>0, <1>2, <1>3, <2>1, <2>2, <2>3
  <2> QED
    BY <1>1, <2>1, <2>2, <2>3, <2>4
<1>8. CASE FlushRow
  <2>1. flushed' = Len(rows) /\ UNCHANGED <<rows, observed, raised>>
    BY <1>8 DEF FlushRow
  <2>2. doing = {rows[Len(rows)]} /\ Len(rows) > 0
    BY <1>8 DEF FlushRow, CallUnderWay
  <2>3. doing \subseteq OnDisk'
    BY <1>0, <2>1, <2>2 DEF OnDisk
  <2> QED
    BY <1>0, <1>1, <1>2, <2>1, <2>3
<1>9. CASE BufferSpills \/ Close
  <2>1. UNCHANGED <<rows, doing, observed, raised>>
    BY <1>9 DEF BufferSpills, Close
  <2>2. flushed' \in flushed..Len(rows) \/ flushed' = Len(rows)
    BY <1>9 DEF BufferSpills, Close
  <2>3. flushed' \in Nat /\ flushed <= flushed'
    BY <1>0, <2>2
  <2> QED
    BY <1>1, <1>2, <2>1, <2>3
<1> QED
  BY <1>4, <1>5, <1>6, <1>7, <1>8, <1>9, ElsewhereSteps DEF Next

\* A row appended after all rows of its sender keeps the file in order.
LEMMA RowInOrder ==
    ASSUME TypeOK, SenderOrderKept, NEW c \in Call, rows' = Append(rows, c),
           \A k \in DOMAIN rows : rows[k].from = c.from => rows[k].n < c.n
    PROVE  SenderOrderKept'
<1>1. /\ Len(rows) \in Nat /\ DOMAIN rows = 1..Len(rows)
      /\ DOMAIN rows' = 1..(Len(rows) + 1)
      /\ \A k \in 1..Len(rows) : rows'[k] = rows[k]
      /\ rows'[Len(rows) + 1] = c
  BY RowAppended
<1> SUFFICES ASSUME NEW k \in DOMAIN rows', NEW l \in DOMAIN rows', k < l,
                    rows'[k].from = rows'[l].from
             PROVE  rows'[k].n < rows'[l].n
    BY DEF SenderOrderKept
<1>2. k \in DOMAIN rows /\ rows'[k] = rows[k]
  BY <1>1
<1>3. CASE l \in DOMAIN rows
  BY <1>1, <1>2, <1>3 DEF SenderOrderKept
<1>4. CASE l = Len(rows) + 1
  BY <1>1, <1>2, <1>4
<1> QED
  BY <1>1, <1>3, <1>4

\* Calls stay in order on their way from the sender to the file.
LEMMA OrderNext ==
    TypeOK /\ CallUnderWay /\ CallsOrdered /\ SenderOrderKept /\ [Next]_vars
      => CallsOrdered' /\ SenderOrderKept'
<1> SUFFICES ASSUME TypeOK, CallUnderWay, CallsOrdered, SenderOrderKept, [Next]_vars
             PROVE  CallsOrdered' /\ SenderOrderKept'
    OBVIOUS
<1> USE DEF call, csv, tally, end
<1>0. /\ Len(rows) \in Nat /\ DOMAIN rows = 1..Len(rows)
      /\ \A k \in DOMAIN rows : rows[k] \in Call /\ rows[k].n \in Nat
      /\ \A s \in Senders : inbox[s] \in Seq(Call) /\ sent[s] \in Nat
      /\ \A c \in doing : c \in Call /\ c.n \in Nat
  <2>1. \A k \in DOMAIN rows : rows[k] \in Call
    BY LenProperties DEF TypeOK
  <2>2. \A c \in Call : c.n \in Nat
    BY DEF Call
  <2> QED
    BY <2>1, <2>2, LenProperties DEF TypeOK
<1>1. CASE UNCHANGED <<sent, inbox, rows>> /\ (doing' = {} \/ UNCHANGED call)
  BY <1>1 DEF CallsOrdered, SenderOrderKept
<1>2. ASSUME NEW s \in Senders, NEW kind \in Kinds, Send(s, kind)
      PROVE  CallsOrdered' /\ SenderOrderKept'
  <2> DEFINE new == NewCall(s, kind)
  <2>1. /\ inbox' = [inbox EXCEPT ![s] = Append(inbox[s], new)]
        /\ sent' = [sent EXCEPT ![s] = sent[s] + 1]
        /\ rows' = rows /\ doing' = doing /\ at' = at
    BY <1>2 DEF Send
  <2>2. new \in Call /\ new.from = s /\ new.n = sent[s] + 1
    <3>1. sent[s] + 1 \in 1..MaxSent
      BY <1>2, SentAssumption DEF Send, TypeOK
    <3> QED
      BY <3>1 DEF Call, NewCall
  <2> HIDE DEF new
  <2>3. /\ inbox'[s] = Append(inbox[s], new) /\ sent'[s] = sent[s] + 1
        /\ \A r \in Senders \ {s} : inbox'[r] = inbox[r] /\ sent'[r] = sent[r]
    BY <2>1 DEF TypeOK
  <2>4. /\ Len(inbox[s]) \in Nat /\ DOMAIN inbox[s] = 1..Len(inbox[s])
        /\ DOMAIN inbox'[s] = 1..(Len(inbox[s]) + 1)
        /\ \A i \in 1..Len(inbox[s]) : inbox'[s][i] = inbox[s][i]
        /\ inbox'[s][Len(inbox[s]) + 1] = new
    BY <1>0, <2>2, <2>3, AppendProperties, LenProperties
  <2>5. \A i \in DOMAIN inbox[s] : inbox[s][i].n \in Nat
    <3>1. \A i \in DOMAIN inbox[s] : inbox[s][i] \in Call
      BY <1>0, LenProperties
    <3> QED
      BY <3>1 DEF Call
  <2>6. \A i \in DOMAIN inbox'[s] :
          \/ i \in DOMAIN inbox[s] /\ inbox'[s][i] = inbox[s][i]
          \/ i = Len(inbox[s]) + 1 /\ inbox'[s][i] = new
    BY <2>4
  <2>7. \A i \in DOMAIN inbox'[s] :
          inbox'[s][i].from = s /\ inbox'[s][i].n <= sent'[s]
    BY <1>0, <2>2, <2>3, <2>5, <2>6 DEF CallsOrdered
  <2>8. \A i, j \in DOMAIN inbox'[s] : i < j => inbox'[s][i].n < inbox'[s][j].n
    <3> SUFFICES ASSUME NEW i \in DOMAIN inbox'[s], NEW j \in DOMAIN inbox'[s], i < j
                 PROVE  inbox'[s][i].n < inbox'[s][j].n
        OBVIOUS
    <3>1. i \in DOMAIN inbox[s] /\ inbox'[s][i] = inbox[s][i]
      BY <2>4
    <3>2. CASE j \in DOMAIN inbox[s]
      BY <2>6, <3>1, <3>2, <2>4 DEF CallsOrdered
    <3>3. CASE j = Len(inbox[s]) + 1
      <4>1. inbox[s][i].n <= sent[s]
        BY <3>1 DEF CallsOrdered
      <4> QED
        BY <1>0, <2>2, <2>4, <2>5, <3>1, <3>3, <4>1
    <3> QED
      BY <2>6, <3>2, <3>3
  <2>9. ASSUME NEW k \in DOMAIN rows, rows[k].from = s
        PROVE  /\ rows[k].n <= sent'[s]
               /\ \A i \in DOMAIN inbox'[s] : rows[k].n < inbox'[s][i].n
    <3>1. rows[k].n <= sent[s] /\ \A i \in DOMAIN inbox[s] : rows[k].n < inbox[s][i].n
      BY <2>9 DEF CallsOrdered
    <3> QED BY <1>0, <2>2, <2>3, <2>6, <2>9, <3>1
  <2>10. ASSUME NEW c \in doing, at = "write", c.from = s
         PROVE  /\ c.n <= sent'[s]
                /\ \A i \in DOMAIN inbox'[s] : c.n < inbox'[s][i].n
    <3>1. c.n <= sent[s] /\ \A i \in DOMAIN inbox[s] : c.n < inbox[s][i].n
      BY <2>10 DEF CallsOrdered
    <3> QED BY <1>0, <2>2, <2>3, <2>6, <3>1
  <2>11. CallsOrdered'
    BY <2>1, <2>3, <2>7, <2>8, <2>9, <2>10 DEF CallsOrdered
  <2> QED
    BY <2>1, <2>11 DEF SenderOrderKept
<1>3. ASSUME NEW s \in Senders, Observe(s) \/ RecordProcessMetrics(s)
      PROVE  CallsOrdered' /\ SenderOrderKept'
  <2> DEFINE c == Head(inbox[s])
  <2>1. /\ at = "idle" /\ doing = {}
        /\ inbox[s] # <<>> /\ inbox' = [inbox EXCEPT ![s] = Tail(inbox[s])]
        /\ sent' = sent
        /\ \/ rows' = rows /\ doing' \subseteq {c}
           \/ rows' = Append(rows, c) /\ doing' = {}
    BY <1>3, ProcessCases DEF Observe, Receive, CallUnderWay
  <2>2. /\ c \in Call /\ c = inbox[s][1] /\ 1 \in DOMAIN inbox[s]
        /\ \A i \in DOMAIN Tail(inbox[s]) :
             /\ i \in Nat /\ i + 1 \in DOMAIN inbox[s]
             /\ 1 < i + 1
             /\ Tail(inbox[s])[i] = inbox[s][i + 1]
    BY <2>1, HeadCall
  <2>3. /\ inbox'[s] = Tail(inbox[s])
        /\ \A r \in Senders \ {s} : inbox'[r] = inbox[r]
    BY <2>1 DEF TypeOK
  <2> HIDE DEF c
  <2>4. /\ c.from = s /\ c.n <= sent[s] /\ c.n \in Nat
        /\ \A k \in DOMAIN rows : rows[k].from = s => rows[k].n < c.n
    BY <2>2 DEF CallsOrdered, Call
  <2>5. \A i \in DOMAIN inbox'[s] :
          /\ inbox'[s][i].from = s /\ inbox'[s][i].n <= sent[s]
          /\ c.n < inbox'[s][i].n
          /\ \A k \in DOMAIN rows : rows[k].from = s => rows[k].n < inbox'[s][i].n
    BY <2>2, <2>3 DEF CallsOrdered
  <2>6. \A i, j \in DOMAIN inbox'[s] : i < j => inbox'[s][i].n < inbox'[s][j].n
    <3> SUFFICES ASSUME NEW i \in DOMAIN inbox'[s], NEW j \in DOMAIN inbox'[s], i < j
                 PROVE  inbox'[s][i].n < inbox'[s][j].n
        OBVIOUS
    <3>1. /\ i + 1 \in DOMAIN inbox[s] /\ inbox'[s][i] = inbox[s][i + 1]
          /\ j + 1 \in DOMAIN inbox[s] /\ inbox'[s][j] = inbox[s][j + 1]
          /\ i + 1 < j + 1
      BY <2>2, <2>3
    <3> QED
      BY <3>1 DEF CallsOrdered
  <2>7. \A k \in DOMAIN rows' :
          \/ k \in DOMAIN rows /\ rows'[k] = rows[k]
          \/ doing' = {} /\ rows'[k] = c
    <3>1. CASE rows' = rows
      BY <3>1
    <3>2. CASE rows' = Append(rows, c) /\ doing' = {}
      BY <2>2, <3>2, RowAppended
    <3> QED
      BY <2>1, <3>1, <3>2
  <2>8. CallsOrdered'
    <3> SUFFICES ASSUME NEW r \in Senders
                 PROVE  /\ \A i \in DOMAIN inbox'[r] :
                             inbox'[r][i].from = r /\ inbox'[r][i].n <= sent'[r]
                        /\ \A i, j \in DOMAIN inbox'[r] :
                             i < j => inbox'[r][i].n < inbox'[r][j].n
                        /\ \A k \in DOMAIN rows' : rows'[k].from = r =>
                             /\ rows'[k].n <= sent'[r]
                             /\ \A i \in DOMAIN inbox'[r] : rows'[k].n < inbox'[r][i].n
                        /\ \A d \in doing' : d.from = r =>
                             /\ d.n <= sent'[r]
                             /\ \A i \in DOMAIN inbox'[r] : d.n < inbox'[r][i].n
                             /\ \A k \in DOMAIN rows' :
                                  rows'[k].from = r => rows'[k].n < d.n
        BY DEF CallsOrdered
    <3>1. CASE r = s
      <4>1. \A d \in doing' : d = c
        BY <2>1
      <4>2. \A d \in doing' :
              /\ d.n <= sent'[r]
              /\ \A i \in DOMAIN inbox'[r] : d.n < inbox'[r][i].n
              /\ \A k \in DOMAIN rows' : rows'[k].from = r => rows'[k].n < d.n
        BY <2>1, <2>4, <2>5, <2>7, <3>1, <4>1
      <4> QED
        BY <2>1, <2>4, <2>5, <2>6, <2>7, <3>1, <4>2 DEF CallsOrdered
    <3>2. CASE r # s
      <4>1. \A d \in doing' : d.from # r
        BY <2>1, <2>4, <3>2
      <4> QED
        BY <2>1, <2>3, <2>4, <2>7, <3>2, <4>1 DEF CallsOrdered
    <3> QED
      BY <3>1, <3>2
  <2>9. SenderOrderKept'
    <3>1. CASE rows' = rows
      BY <3>1 DEF SenderOrderKept
    <3>2. CASE rows' = Append(rows, c)
      BY <2>2, <2>4, <3>2, RowInOrder
    <3> QED
      BY <2>1, <3>1, <3>2
  <2> QED
    BY <2>8, <2>9
<1>4. ASSUME LogCsvRow PROVE CallsOrdered' /\ SenderOrderKept'
  <2>1. at = "write" /\ UNCHANGED <<sent, inbox>>
    BY <1>4, LogCases
  <2>2. PICK c \in doing : \/ at' = "flush" /\ rows' = Append(rows, c)
                           \/ doing' = {} /\ rows' = rows
    BY <1>4, LogCases
  <2>3. CASE doing' = {} /\ rows' = rows
    BY <1>1, <2>1, <2>3
  <2>4. CASE at' = "flush" /\ rows' = Append(rows, c)
    <3>1. c \in Call /\ c.from \in Senders
      BY <1>0 DEF Call
    <3>2. /\ c.n <= sent[c.from]
          /\ \A i \in DOMAIN inbox[c.from] : c.n < inbox[c.from][i].n
          /\ \A k \in DOMAIN rows : rows[k].from = c.from => rows[k].n < c.n
      BY <2>1, <3>1 DEF CallsOrdered
    <3>3. SenderOrderKept'
      BY <2>4, <3>1, <3>2, RowInOrder
    <3>4. \A k \in DOMAIN rows' :
            (k \in DOMAIN rows /\ rows'[k] = rows[k]) \/ rows'[k] = c
      BY <2>4, <3>1, RowAppended
    <3>5. CallsOrdered'
      BY <2>1, <2>4, <3>2, <3>4 DEF CallsOrdered
    <3> QED
      BY <3>3, <3>5
  <2> QED
    BY <2>2, <2>3, <2>4
<1>5. CASE FlushRow
  BY <1>1, <1>5 DEF FlushRow, CallEnds
<1>6. CASE BufferSpills \/ AskClose \/ Close \/ Shutdown \/ UNCHANGED vars
  BY <1>1, <1>6 DEF BufferSpills, AskClose, Close, Shutdown, vars
<1> QED
  BY <1>2, <1>3, <1>4, <1>5, <1>6 DEF Next

-----------------------------------------------------------------------------
\* Every variable keeps its type, and no more is on disk than was written.
THEOREM MTypeCorrect == Spec => []TypeOK
<1>1. Init => TypeOK
  BY MInvInit DEF MInv
<1> QED
  BY <1>1, MTypeNext, PTL DEF Spec

\* The inductive invariant holds in every reachable state.
THEOREM MInvCorrect == Spec => []MInv
<1>1. MInv /\ [Next]_vars => MInv'
  BY MTypeNext, CallUnderWayNext, ClosedFileNext, AtRiskNext, ReachDiskNext, OrderNext
     DEF MInv
<1> QED
  BY MInvInit, <1>1, PTL DEF Spec

\* After run(), which closes before it shuts down, every row is on disk and
\* none in part, also the process rows that are written without a flush
\* (metrics.py 172-184).
THEOREM NothingLostCorrect == Spec => []NothingLostAtExit
<1>1. MInv => NothingLostAtExit
  BY DEF MInv, ClosedFile, NothingLostAtExit
<1> QED
  BY MInvCorrect, <1>1, PTL

\* Wherever the kill falls, between the write and the flush of log_csv_row
\* too (metrics.py 225-236), it costs process rows and at most one latency
\* row, the last row, of the call that has not returned.
THEOREM AtRiskCorrect == Spec => []OnlyLastLatencyAtRisk
<1>1. MInv => OnlyLastLatencyAtRisk
  <2> SUFFICES ASSUME MInv, NEW i \in DOMAIN rows, i > flushed
               PROVE  rows[i].kind = "process" \/ (i = Len(rows) /\ rows[i] \in doing)
      BY DEF OnlyLastLatencyAtRisk
  <2> QED
    BY DEF MInv, AtRisk, CallUnderWay
<1> QED
  BY MInvCorrect, <1>1, PTL

\* The rows of a sender stand in the file in the order it sent them.
THEOREM SenderOrderCorrect == Spec => []SenderOrderKept
<1>1. MInv => SenderOrderKept
  BY DEF MInv
<1> QED
  BY MInvCorrect, <1>1, PTL

\* At any moment, and whenever the actor is killed, the histogram counts no
\* latency that is not on disk, but one under way and those refused.
THEOREM ReachDiskCorrect == Spec => []LatenciesReachDisk
<1>1. MInv => LatenciesReachDisk
  BY DEF MInv
<1> QED
  BY MInvCorrect, <1>1, PTL
=============================================================================
