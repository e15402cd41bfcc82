---------------------------- MODULE MetricsActor ----------------------------
(***************************************************************************)
(* The central MetricsActor (benchmark/common/metrics.py): every process   *)
(* of the experiment sends it fire-and-forget record_* calls, the driver   *)
(* closes the CSV file through it and then shuts Ray down, while the       *)
(* senders, which nobody stops, go on sending.                             *)
(*                                                                         *)
(* Ray delivers the calls of one sender to a sync actor in order; calls of *)
(* different senders interleave freely. The actor runs one call at a time. *)
(* ray.shutdown kills it between any two of the steps of a call, and the   *)
(* thread of the Prometheus server answers scrapes between any two.        *)
(***************************************************************************)
EXTENDS Naturals, Sequences, Functions

CONSTANTS
    Senders,  \* analysis actors and batch tasks
    MaxSent   \* bound: calls per sender

ASSUME SentAssumption == MaxSent \in Nat

Driver == "driver"

\* record_frame_latency, record_process_metrics; the counters touch no file.
Kinds == {"latency", "process"}

\* A call is its sender, its ordinal there and its kind.
Call == [from : Senders, n : 1..MaxSent, kind : Kinds]

VARIABLES
    sent,       \* calls each sender has made
    inbox,      \* calls of each sender on their way or queued, oldest first
    doing,      \* the record_frame_latency call under way: a set of none or one
    at,         \* where it stands: "idle", before "write" or before "flush"
    file,       \* csv_file: "open" or "closed" (csv_writer is never reset)
    rows,       \* rows handed to the csv writer
    flushed,    \* how many of them are on disk, whole
    torn,       \* a part of the next one is on disk too
    observed,   \* latency calls the histogram has seen
    raised,     \* calls that ended in an exception
    driver,     \* "running", "closing", "closed", "down" (after ray.shutdown)
    closesFirst \* run() closes the CSV before ray.shutdown; finalize() of the
                \* Triton pipeline model only shuts down

call  == <<doing, at>>
csv   == <<file, rows, flushed, torn>>
tally == <<observed, raised>>
end   == <<driver, closesFirst>>
vars  == <<sent, inbox, call, csv, tally, end>>

\* __init__: start_prometheus_server and init_csv_logging (header flushed).
Init ==
    /\ sent = [s \in Senders |-> 0]
    /\ inbox = [s \in Senders |-> <<>>]
    /\ doing = {} /\ at = "idle"
    /\ file = "open"
    /\ rows = <<>>
    /\ flushed = 0 /\ torn = FALSE
    /\ observed = {}
    /\ raised = {}
    /\ driver = "running"
    /\ closesFirst \in BOOLEAN

Up == driver # "down"

NewCall(s, kind) == [from |-> s, n |-> sent[s] + 1, kind |-> kind]

\* MUTANT of Send: with a threaded actor a call may overtake earlier ones.
SendOvertakes(s, kind) ==
    /\ Up
    /\ sent[s] < MaxSent
    /\ sent' = [sent EXCEPT ![s] = @ + 1]
    /\ inbox' = [inbox EXCEPT ![s] = <<NewCall(s, kind)>> \o @]
    /\ UNCHANGED <<call, csv, tally, end>>

Send(s, kind) ==
    /\ Up
    /\ sent[s] < MaxSent
    /\ sent' = [sent EXCEPT ![s] = @ + 1]
    /\ inbox' = [inbox EXCEPT ![s] = Append(@, NewCall(s, kind))]
    /\ UNCHANGED <<call, csv, tally, end>>

\* Between two calls the actor takes the oldest one of some sender.
Receive(s) ==
    /\ Up
    /\ at = "idle"
    /\ inbox[s] # <<>>
    /\ inbox' = [inbox EXCEPT ![s] = Tail(@)]

\* record_frame_latency, before log_csv_row: the histogram sees the latency.
\* (latencies, the list in memory, gets it too; nothing reads that list.)
Observe(s) ==
    /\ Receive(s)
    /\ LET c == Head(inbox[s]) IN
         /\ c.kind = "latency"
         /\ observed' = observed \cup {c}
         /\ doing' = {c}
    /\ at' = "write"
    /\ UNCHANGED <<sent, csv, raised, end>>

CallEnds == doing' = {} /\ at' = "idle"

\* MUTANT of WriteRow: the flush is left to the file object.
WriteRowUnflushed(c) ==
    /\ IF file = "open" THEN rows' = Append(rows, c) /\ UNCHANGED raised
                        ELSE raised' = raised \cup {c} /\ UNCHANGED rows
    /\ CallEnds
    /\ UNCHANGED flushed

\* MUTANT of WriteRow: no row is written when csv_lock is not free at once.
WriteRowTryLock(c) ==
    /\ \/ CallEnds /\ UNCHANGED rows
       \/ at' = "flush" /\ rows' = Append(rows, c) /\ UNCHANGED doing
    /\ UNCHANGED <<flushed, raised>>

\* MUTANT of WriteRow: a refused row counts as written to disk.
WriteRowCountsRefused(c) ==
    IF file = "open"
      THEN at' = "flush" /\ rows' = Append(rows, c)
           /\ UNCHANGED <<doing, flushed, raised>>
      ELSE CallEnds /\ flushed' = flushed + 1 /\ UNCHANGED <<rows, raised>>

\* log_csv_row hands the row to the file; on a closed file writerow raises.
WriteRow(c) ==
    /\ IF file = "open"
         THEN at' = "flush" /\ rows' = Append(rows, c) /\ UNCHANGED <<doing, raised>>
         ELSE CallEnds /\ raised' = raised \cup {c} /\ UNCHANGED rows
    /\ UNCHANGED flushed

LogCsvRow ==
    /\ Up
    /\ at = "write"
    /\ \E c \in doing : WriteRow(c)
    /\ UNCHANGED <<sent, inbox, file, torn, observed, end>>

\* The flush at the end of log_csv_row, with which the call returns.
FlushRow ==
    /\ Up
    /\ at = "flush"
    /\ flushed' = Len(rows)
    /\ torn' = FALSE
    /\ CallEnds
    /\ UNCHANGED <<sent, inbox, file, rows, tally, end>>

\* record_process_metrics writes its row without a flush (psutil may find no
\* such process: no row, no exception); only psutil's errors are caught.
RecordProcessMetrics(s) ==
    /\ Receive(s)
    /\ LET c == Head(inbox[s]) IN
         /\ c.kind = "process"
         /\ \/ UNCHANGED <<rows, raised>>
            \/ IF file = "open"
                 THEN rows' = Append(rows, c) /\ UNCHANGED raised
                 ELSE raised' = raised \cup {c} /\ UNCHANGED rows
    /\ UNCHANGED <<sent, call, file, flushed, torn, observed, end>>

\* The file object's buffer is full, or a flush is half done: what it holds
\* goes to disk up to some byte, which need not be the end of a row.
BufferSpills ==
    /\ Up
    /\ flushed < Len(rows)
    /\ flushed' \in flushed .. Len(rows)
    /\ torn' \in {flushed' < Len(rows), FALSE}
    /\ flushed' > flushed \/ torn'
    /\ UNCHANGED <<sent, inbox, call, file, rows, tally, end>>

-----------------------------------------------------------------------------
\* The driver: sleep(duration), then ray.get(close), then ray.shutdown.

AskClose ==
    /\ closesFirst
    /\ driver = "running"
    /\ driver' = "closing"
    /\ UNCHANGED <<sent, inbox, call, csv, tally, closesFirst>>

\* The close call is one more message: it runs between any two others.
Close ==
    /\ driver = "closing"
    /\ at = "idle"
    /\ file' = "closed"
    /\ flushed' = Len(rows)
    /\ torn' = FALSE
    /\ driver' = "closed"
    /\ UNCHANGED <<sent, inbox, call, rows, tally, closesFirst>>

\* MUTANT of Shutdown: the driver does not wait for close to be executed.
ShutdownEarly ==
    /\ driver \in {"running", "closing", "closed"}
    /\ driver' = "down"
    /\ UNCHANGED <<sent, inbox, call, csv, tally, closesFirst>>

\* ray.shutdown kills the actors, in the middle of a call or between two:
\* what is buffered or queued is lost.
Shutdown ==
    /\ driver = (IF closesFirst THEN "closed" ELSE "running")
    /\ driver' = "down"
    /\ UNCHANGED <<sent, inbox, call, csv, tally, closesFirst>>

Next ==
    \/ \E s \in Senders :
         \/ \E kind \in Kinds : Send(s, kind)
         \/ Observe(s)
         \/ RecordProcessMetrics(s)
    \/ LogCsvRow
    \/ FlushRow
    \/ BufferSpills
    \/ AskClose
    \/ Close
    \/ Shutdown

Spec == Init /\ [][Next]_vars

-----------------------------------------------------------------------------
LatencyRows == {r \in Range(rows) : r.kind = "latency"}

\* What a reader of the file finds whole, also after a kill.
OnDisk == {rows[i] : i \in 1..flushed}

\* Type invariant; nothing is on disk that was not written.
TypeOK ==
    /\ sent \in [Senders -> 0..MaxSent]
    /\ inbox \in [Senders -> Seq(Call)]
    /\ doing \subseteq Call
    /\ at \in {"idle", "write", "flush"}
    /\ file \in {"open", "closed"}
    /\ rows \in Seq(Call)
    /\ flushed \in 0..Len(rows)
    /\ torn \in BOOLEAN
    /\ observed \subseteq Call
    /\ raised \subseteq Call
    /\ driver \in {"running", "closing", "closed", "down"}
    /\ closesFirst \in BOOLEAN

\* When a run() ends, every row the actor accepted is on disk, the unflushed
\* process rows included, and none in part: shutdown only follows an executed
\* close, and no call that started before close is then half done.
NothingLostAtExit ==
    closesFirst /\ driver = "down" => flushed = Len(rows) /\ ~torn

\* Wherever the kill falls, in the middle of a call too, the rows the file
\* can lose or hold in part are process rows and, at the very end, the row of
\* the one record_frame_latency call that has not returned.
OnlyLastLatencyAtRisk ==
    \A i \in DOMAIN rows :
        i > flushed => \/ rows[i].kind = "process"
                       \/ i = Len(rows) /\ rows[i] \in doing

\* The rows of one sender stand in the file in the order it sent them.
SenderOrderKept ==
    \A i, j \in DOMAIN rows :
        i < j /\ rows[i].from = rows[j].from => rows[i].n < rows[j].n

\* "Prometheus + CSV": a latency that a scrape of the histogram can count is
\* whole on disk, unless its call is still under way or was refused by the
\* closed file. A scrape is ahead of the file by one call at most.
LatenciesReachDisk == observed \subseteq OnDisk \cup raised \cup doing

\* The docstring of record_frame_latency: a latency is recorded in Prometheus
\* and in the CSV at the same time, taken to mean by the end of its call.
SameLatencies == doing = {} => LatencyRows = observed
=============================================================================
