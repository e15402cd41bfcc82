------------------------------ MODULE Comparison ------------------------------
(***************************************************************************)
(* analysis/plot_comparison.py: the CSV file that an experiment leaves     *)
(* behind is loaded and drawn in five figures. One run is modelled; load   *)
(* and figures treat the runs one by one, and an exception while one is    *)
(* loaded ends main() before anything is drawn.                            *)
(*                                                                         *)
(* The file holds one row per record_* call (MetricsActor). What a killed  *)
(* experiment leaves of it is what MetricsActor's OnlyLastLatencyAtRisk    *)
(* allows. Numbers are integers; numpy's percentile is not computed, a     *)
(* point or bar is the values it is taken of.                              *)
(***************************************************************************)
EXTENDS Integers, SequencesExt

CONSTANTS
    Clock,       \* values of time.time(), in seconds
    Values,      \* latencies, and CPU/RSS readings
    NaN,         \* what _to_float makes of a missing or empty field
    None,        \* what DictReader gives for a field the row does not have
    Bucket,      \* BUCKET_SECONDS
    MaxRows      \* bound: rows of the file

ASSUME ClockAssumption  == Clock \subseteq Nat
ASSUME ValuesAssumption == Values \subseteq Nat /\ NaN \notin Values \cup Clock
ASSUME BucketAssumption == Bucket \in Nat \ {0}
ASSUME RowsAssumption   == MaxRows \in Nat

\* "other" is detect, track, pose, violence, falldown, or any stage cut short.
\* "actor" is process:analysis_actor_N; its cpu_percent and memory_rss_bytes
\* are one value here, the latency_ms of an e2e row is its value.
Stages == {"e2e", "actor", "other"}

ASSUME NoneAssumption == None \notin Stages

Row == [timestamp : Clock \cup {NaN}, stage : Stages \cup {None},
        value : Values \cup {NaN}]

Sample == [t : Int, v : Values \cup {NaN}]

VARIABLES
    logged,   \* history: the rows the experiment wrote
    csv,      \* the file, as DictReader and _to_float read it
    killed,   \* the actor was killed with rows not yet on disk
    phase,    \* "running", "ended", "loaded", "failed", "drawn"
    e2e,      \* run.e2e_t and run.e2e_latency
    actor,    \* run.actor_t and run.actor_cpu, run.actor_rss_mb
    figures   \* what has been drawn

fileVars == <<logged, csv, killed>>
vars == <<fileVars, phase, e2e, actor, figures>>

Blank == [p50 |-> <<>>, p99 |-> <<>>, bars |-> <<>>, count |-> 0,
          cpu |-> <<>>, rss |-> <<>>]

Init ==
    /\ logged = <<>> /\ csv = <<>> /\ killed = FALSE
    /\ phase = "running"
    /\ e2e = <<>> /\ actor = <<>>
    /\ figures = Blank

-----------------------------------------------------------------------------
\* The experiment.

\* Rows of every kind; the MetricsActor stamps them one after the other, with
\* a wall clock that may be set back in between.
Log(stage, t, v) ==
    /\ phase = "running"
    /\ Len(csv) < MaxRows
    /\ LET row == [timestamp |-> t, stage |-> stage, value |-> v] IN
         /\ logged' = Append(logged, row)
         /\ csv' = Append(csv, row)
    /\ UNCHANGED <<killed, phase, e2e, actor, figures>>

\* A row cut off before its stage, in its stage, or in or after its value,
\* where fewer digits make another number.
CutOff(row) ==
    {[row EXCEPT !.stage = s, !.value = NaN] : s \in {None, "other"}}
    \cup {[row EXCEPT !.value = v] : v \in Values \cup {NaN}}

End ==
    /\ phase = "running"
    /\ phase' = "ended"
    /\ UNCHANGED <<fileVars, e2e, actor, figures>>

\* After n whole rows there may be a part of the next. What is lost for good
\* are rows of processes, which are not flushed, and the last row.
Killed ==
    /\ phase = "running"
    /\ \E n \in 0..Len(csv) - 1 :
         LET whole == SubSeq(csv, 1, n) IN
         /\ \A i \in n + 1..Len(csv) - 1 : csv[i].stage = "actor"
         /\ csv' \in {whole} \cup {Append(whole, row) : row \in CutOff(csv[n + 1])}
    /\ killed' = TRUE
    /\ phase' = "ended"
    /\ UNCHANGED <<logged, e2e, actor, figures>>

-----------------------------------------------------------------------------
\* load_run.

\* The loop over the rows, as the masks of numpy: the elements of s that are
\* in set, in the order of s.
Selected(s, set) ==
    LET upTo[n \in 0..Len(s)] ==
          IF n = 0 THEN <<>>
          ELSE IF s[n] \in set THEN Append(upTo[n - 1], s[n])
          ELSE upTo[n - 1]
    IN  upTo[Len(s)]

\* MUTANT of IsE2e: the latency is not tested for NaN.
IsE2eAnyValue(row) == row.timestamp # NaN /\ row.stage = "e2e"

\* MUTANT of IsE2e: whatever is not an actor's row is taken for a frame.
IsE2eNotActor(row) ==
    row.timestamp # NaN /\ row.stage \in {"e2e", "other"} /\ row.value # NaN

IsE2e(row) == row.timestamp # NaN /\ row.stage = "e2e" /\ row.value # NaN

IsActor(row) == row.timestamp # NaN /\ row.stage = "actor"

\* MUTANT of Raises: float() is called without _to_float.
RaisesOnMissing(row) == row.stage = None \/ row.value = NaN

\* None has no startswith.
Raises(row) == row.timestamp # NaN /\ row.stage = None

Times(rows) == {rows[i].timestamp : i \in DOMAIN rows}

Origin(frames, readings) ==
    IF frames \o readings = <<>> THEN 0 ELSE Min(Times(frames \o readings))

Relative(rows, origin) ==
    [i \in DOMAIN rows |-> [t |-> rows[i].timestamp - origin, v |-> rows[i].value]]

LoadRun ==
    LET frames   == Selected(csv, {row \in Row : IsE2e(row)})
        readings == Selected(csv, {row \in Row : IsActor(row)})
        origin   == Origin(frames, readings) IN
    /\ phase = "ended"
    /\ \A i \in DOMAIN csv : ~Raises(csv[i])
    /\ e2e' = Relative(frames, origin)
    /\ actor' = Relative(readings, origin)
    /\ phase' = "loaded"
    /\ UNCHANGED <<fileVars, figures>>

LoadFails ==
    /\ phase = "ended"
    /\ \E i \in DOMAIN csv : Raises(csv[i])
    /\ phase' = "failed"
    /\ UNCHANGED <<fileVars, e2e, actor, figures>>

-----------------------------------------------------------------------------
\* The figures.

\* np.percentile, of which nothing is used but whose percentile it is.
Percentile(values, pct) == [pct |-> pct, of |-> values]

ValuesOf(samples) == [i \in DOMAIN samples |-> samples[i].v]

InBucket(samples, lo) ==
    Selected(samples, {s \in Sample : lo <= s.t /\ s.t < lo + Bucket})

\* MUTANT of Edges: arange(0, times.max(), bucket).
EdgesToMax(samples) ==
    LET last == Max({samples[i].t : i \in DOMAIN samples}) IN
    {lo \in 0..last : lo % Bucket = 0 /\ lo < last}

\* np.arange(0, times.max() + bucket, bucket).
Edges(samples) ==
    LET last == Max({samples[i].t : i \in DOMAIN samples}) IN
    {lo \in 0..last + Bucket : lo % Bucket = 0 /\ lo < last + Bucket}

\* _bucketed_percentiles: from the lower edge of each bucket that is not empty.
BucketedPercentiles(samples, pct) ==
    IF samples = <<>> THEN <<>>
    ELSE [lo \in {l \in Edges(samples) : InBucket(samples, l) # <<>>} |->
            Percentile(ValuesOf(InBucket(samples, lo)), pct)]

\* plot_e2e_timeseries: the solid and the dashed line.
E2eTimeseries(pct) == BucketedPercentiles(e2e, pct)

\* plot_e2e_percentile_bars: a bar of height 0 for a run without frames.
E2eBar(pct) == IF e2e = <<>> THEN 0 ELSE Percentile(ValuesOf(e2e), pct)

\* plot_frame_count_bars.
FrameCountBar == Len(e2e)

\* plot_actor_cpu_timeseries: in the order of the file.
ActorCpuLine == actor

\* np.argsort; its default sort leaves the order of equal times open.
Orders(samples) ==
    {order \in [DOMAIN samples -> DOMAIN samples] :
        /\ IsInjective(order)
        /\ \A i, j \in DOMAIN samples : i < j =>
             samples[order[i]].t <= samples[order[j]].t}

\* plot_actor_rss_timeseries: in the order of time.
ActorRssLine(order) == [i \in DOMAIN actor |-> actor[order[i]]]

\* The five plot functions, one after the other, in main().
Draw ==
    /\ phase = "loaded"
    /\ \E order \in Orders(actor) :
         figures' = [p50   |-> E2eTimeseries(50),
                     p99   |-> E2eTimeseries(99),
                     bars  |-> <<E2eBar(50), E2eBar(99)>>,
                     count |-> FrameCountBar,
                     cpu   |-> ActorCpuLine,
                     rss   |-> ActorRssLine(order)]
    /\ phase' = "drawn"
    /\ UNCHANGED <<fileVars, e2e, actor>>

Next ==
    \/ \E stage \in Stages, t \in Clock, v \in Values : Log(stage, t, v)
    \/ End
    \/ Killed
    \/ LoadRun
    \/ LoadFails
    \/ Draw

Spec == Init /\ [][Next]_vars

-----------------------------------------------------------------------------
\* Type invariant; a frame without a latency is not loaded.
TypeOK ==
    /\ logged \in Seq(Row) /\ csv \in Seq(Row) /\ killed \in BOOLEAN
    /\ phase \in {"running", "ended", "loaded", "failed", "drawn"}
    /\ e2e \in Seq([t : Int, v : Values])
    /\ actor \in Seq(Sample)
    /\ figures.count \in Nat /\ figures.rss \in Seq(Sample)

Loaded == phase \in {"loaded", "drawn"}

\* The frames the experiment wrote, and those loaded with another latency.
LoggedFrames == Selected(logged, {row \in Row : row.stage = "e2e"})

Altered == {i \in DOMAIN e2e : e2e[i].v # LoggedFrames[i].value}

\* What a kill costs. When the file ends in a row cut off before its stage:
\* everything, for load_run raises and main() ends with nothing drawn. In any
\* other case at most one frame, and only that of the very last row, whose
\* call had not returned: it is missing or has a wrong latency, and all other
\* frames are loaded in order and as they were written.
KillCosts ==
    phase \in {"failed", "loaded", "drawn"} =>
        IF csv # <<>> /\ Last(csv).stage = None
        THEN phase = "failed" /\ e2e = <<>> /\ figures = Blank
        ELSE LET lost == Len(LoggedFrames) - Len(e2e) IN
             /\ Loaded
             /\ lost \in {0, 1}
             /\ Altered \subseteq {Len(LoggedFrames)}
             /\ lost = 1 \/ Altered # {} => killed /\ Last(logged).stage = "e2e"

\* A last row cut off before its stage is the only thing that can keep main()
\* from drawing, for this and for every other run. One cut off in or before
\* its numbers is passed over or loaded, as _to_float is meant to allow.
FailsOnlyOnTornTail == phase = "failed" => killed /\ Last(csv).stage = None

\* The latency lines leave no frame out and count none twice: each lies in
\* exactly one bucket, the last frame and a frame on an edge included, and no
\* bucket is drawn without a frame.
EveryFrameInOneBucket ==
    phase = "drawn" =>
        LET within(lo, s) == lo <= s.t /\ s.t < lo + Bucket
            los == DOMAIN figures.p50 IN
        /\ DOMAIN figures.p99 = los
        /\ \A i \in DOMAIN e2e : Cardinality({lo \in los : within(lo, e2e[i])}) = 1
        /\ \A lo \in los : \E i \in DOMAIN e2e : within(lo, e2e[i])
=============================================================================
