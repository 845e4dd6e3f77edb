------------------------------ MODULE Fetcher ------------------------------
(***************************************************************************)
(* proxmetrics.Fetcher: Gather scrapes the metrics of all targets with a    *)
(* few goroutines, puts the name of its target on each of them, and merges  *)
(* families of the same name.  A target that answers 4xx makes the whole    *)
(* call an error, and so does a failure to gather this process's metrics;   *)
(* any other failure becomes a metric of its own.                           *)
(*                                                                         *)
(* A metric is the function of its labels; its value is left out.  Whether  *)
(* this process's metrics can be gathered is free in every call.            *)
(***************************************************************************)
EXTENDS Naturals, Sequences, FiniteSets, Functions

CONSTANTS
    Targets,       \* the list of targets
    NoTarget,      \* no target
    Exposes,       \* Exposes[t]: the families of target t, by name, as lists of metrics
    Own,           \* the families of this process, likewise
    FetchWorkers   \* goroutines of one call (5 in the code)

\* Names of targets are distinct: their metrics could not be told apart otherwise.
ASSUME TargetsAssumption ==
    /\ Targets \in Seq(DOMAIN Exposes) /\ NoTarget \notin DOMAIN Exposes
    /\ \A i, j \in 1 .. Len(Targets) : Targets[i] = Targets[j] => i = j
ASSUME FetchAssumption == FetchWorkers \in Nat \ {0}

Names == {Targets[i] : i \in 1 .. Len(Targets)}
Fetchers == 1 .. FetchWorkers

VARIABLES
    fetchPc,          \* where the call is: it has "answered", or "failed" with an error
    jobs,             \* targets that no goroutine has taken
    fetcher,          \* where each goroutine is
    job,              \* the target it took
    outcome,          \* how its scrape ended: "ok", "refused" (4xx) or "error"
    wg,               \* the counter of the wait group
    errFetch,         \* the target whose 4xx was recorded last
    metricsUnmerged

fetchVars == <<fetchPc, jobs, fetcher, job, outcome, wg, errFetch, metricsUnmerged>>

FetchInit ==
    /\ fetchPc = "idle" /\ jobs = <<>> /\ wg = 0
    /\ fetcher = [w \in Fetchers |-> "gone"]
    /\ job = [w \in Fetchers |-> NoTarget]
    /\ outcome = [t \in Names |-> "none"]
    /\ errFetch = NoTarget /\ metricsUnmerged = <<>>

-----------------------------------------------------------------------------
(* Families of metrics, by name: functions to lists of metrics. *)

\* Mutant: a label "target" that is there already is kept.
KeepTargetName(metric, t) == IF "target" \in DOMAIN metric THEN metric ELSE
    [l \in DOMAIN metric \union {"target"} |-> IF l = "target" THEN t ELSE metric[l]]

\* The label "target" is removed, if there is one, and added.
AddTargetName(metric, t) ==
    [l \in DOMAIN metric \union {"target"} |-> IF l = "target" THEN t ELSE metric[l]]

Metric(families, t) ==
    [n \in DOMAIN families |->
        [i \in DOMAIN families[n] |-> AddTargetName(families[n][i], t)]]

ScrapeError(t) == [n \in {"scrape_error"} |-> <<[target |-> t]>>]

\* cleanDuplicate: families of the same name become one, with all their metrics,
\* here by place: the group that a metric is from, then its position in there.
Lists(families, n) == IF n \in DOMAIN families THEN families[n] ELSE <<>>
Places(groups, n) ==
    UNION {{i} \X DOMAIN Lists(groups[i], n) : i \in 1 .. Len(groups)}
CleanDuplicate(groups) ==
    [n \in UNION {DOMAIN groups[i] : i \in 1 .. Len(groups)} |->
        [p \in Places(groups, n) |-> groups[p[1]][n][p[2]]]]

-----------------------------------------------------------------------------
(* The call *)

\* The goroutines start, and all targets fit in the channel.
FetchBegin ==
    /\ fetchPc = "idle"
    /\ \A w \in Fetchers : fetcher[w] = "gone"
    /\ fetchPc' = "wait"
    /\ jobs' = Targets /\ wg' = Len(Targets)
    /\ fetcher' = [w \in Fetchers |-> "idle"]
    /\ outcome' = [t \in Names |-> "none"]
    /\ UNCHANGED <<job, errFetch, metricsUnmerged>>

TakeJob(w) ==
    /\ fetcher[w] = "idle"
    /\ jobs # <<>>
    /\ job' = [job EXCEPT ![w] = Head(jobs)]
    /\ jobs' = Tail(jobs)
    /\ fetcher' = [fetcher EXCEPT ![w] = "scrape"]
    /\ UNCHANGED <<fetchPc, outcome, wg, errFetch, metricsUnmerged>>

Scrape(w, o) ==
    /\ fetcher[w] = "scrape"
    /\ outcome' = [outcome EXCEPT ![job[w]] = o]
    /\ fetcher' = [fetcher EXCEPT ![w] = "write"]
    /\ UNCHANGED <<fetchPc, jobs, job, wg, errFetch, metricsUnmerged>>

\* What a goroutine does under muWrite.
WriteRefused(w) ==
    /\ errFetch' = job[w]
    /\ UNCHANGED metricsUnmerged

NewMetrics(t) == IF outcome[t] = "ok" THEN Metric(Exposes[t], t) ELSE ScrapeError(t)
AppendMetrics(w) ==
    /\ metricsUnmerged' = Append(metricsUnmerged, NewMetrics(job[w]))
    /\ UNCHANGED errFetch

Write(w) ==
    /\ fetcher[w] = "write"
    /\ IF outcome[job[w]] = "refused" THEN WriteRefused(w) ELSE AppendMetrics(w)
    /\ fetcher' = [fetcher EXCEPT ![w] = "done"]
    /\ UNCHANGED <<fetchPc, jobs, job, outcome, wg>>

JobDone(w) ==
    /\ fetcher[w] = "done"
    /\ wg' = wg - 1
    /\ job' = [job EXCEPT ![w] = NoTarget]
    /\ fetcher' = [fetcher EXCEPT ![w] = "idle"]
    /\ UNCHANGED <<fetchPc, jobs, outcome, errFetch, metricsUnmerged>>

\* Mutant: the call returns when all targets are taken.
AllTaken == jobs = <<>>
AllDone == wg = 0

\* wg.Wait returns, and the channel is closed; unless a target refused, this
\* process's own metrics are gathered, which may fail.
FetchReturn ==
    /\ fetchPc = "wait"
    /\ AllDone
    /\ \E ownFails \in BOOLEAN :
          fetchPc' = IF errFetch # NoTarget \/ ownFails THEN "failed" ELSE "answered"
    /\ UNCHANGED <<jobs, fetcher, job, outcome, wg, errFetch, metricsUnmerged>>

\* Mutant: the channel is never closed.
JobsLeftOpen == FALSE
JobsClosed == fetchPc # "wait"

\* The loop of a goroutine ends on a closed, empty channel.
FetcherEnds(w) ==
    /\ fetcher[w] = "idle"
    /\ jobs = <<>> /\ JobsClosed
    /\ fetcher' = [fetcher EXCEPT ![w] = "gone"]
    /\ UNCHANGED <<fetchPc, jobs, job, outcome, wg, errFetch, metricsUnmerged>>

\* What Gather returns without an error: with this process's own metrics.
Gathered == CleanDuplicate(Append(metricsUnmerged, Metric(Own, "gsloc")))

\* The caller is done with the answer, or the error.
FetchEnd ==
    /\ fetchPc \in {"answered", "failed"}
    /\ fetchPc' = "idle"
    /\ errFetch' = NoTarget /\ metricsUnmerged' = <<>>
    /\ UNCHANGED <<jobs, fetcher, job, outcome, wg>>

FetchStep(w) ==
    \/ TakeJob(w) \/ Write(w) \/ JobDone(w) \/ FetcherEnds(w)
    \/ \E o \in {"ok", "refused", "error"} : Scrape(w, o)
FetchNext == FetchBegin \/ FetchReturn \/ FetchEnd \/ \E w \in Fetchers : FetchStep(w)

-----------------------------------------------------------------------------
(* Properties *)

\* What one goroutine adds.
Groups == {Metric(Exposes[t], t) : t \in Names} \union {ScrapeError(t) : t \in Names}

FetchTypeOK ==
    /\ fetchPc \in {"idle", "wait", "answered", "failed"}
    /\ jobs \in Seq(Names) /\ wg \in 0 .. Len(Targets)
    /\ fetcher \in [Fetchers -> {"gone", "idle", "scrape", "write", "done"}]
    /\ job \in [Fetchers -> Names \union {NoTarget}]
    /\ outcome \in [Names -> {"none", "ok", "refused", "error"}]
    /\ errFetch \in Names \union {NoTarget}
    /\ metricsUnmerged \in Seq(Groups) /\ Len(metricsUnmerged) <= Len(Targets)

\* A call answers without an error only if no target refused its scrape, whichever
\* goroutine met it and in whatever order they ended; and the error of a call that
\* failed is a refusal (errFetch) if and only if there was one: it is of this
\* process's own metrics otherwise.
Refused == \E t \in Names : outcome[t] = "refused"
GatherRefused ==
    /\ fetchPc = "answered" => ~Refused
    /\ fetchPc = "failed" => (errFetch # NoTarget <=> Refused)

\* A call without an error answers every metric of every target, of this process
\* (here NoTarget) and one scrape error of each target that could not be scraped:
\* each once, in the family of its name and labelled with where it comes from,
\* whatever label it had.
Sources == Names \union {NoTarget}
LabelOf(t) == IF t = NoTarget THEN "gsloc" ELSE t
FamiliesOf(t) ==
    IF t = NoTarget THEN Own ELSE IF outcome[t] = "ok" THEN Exposes[t] ELSE ScrapeError(t)
MetricsNamed(n) == UNION {{t} \X DOMAIN Lists(FamiliesOf(t), n) : t \in Sources}
Stripped(metric) == [l \in DOMAIN metric \ {"target"} |-> metric[l]]
Exactly(n) ==
    \E from \in Bijection(DOMAIN Lists(Gathered, n), MetricsNamed(n)) :
        \A p \in DOMAIN from :
            LET metric == Gathered[n][p] t == from[p][1]
            IN  /\ metric.target = LabelOf(t)
                /\ Stripped(metric) = Stripped(FamiliesOf(t)[n][from[p][2]])
GatherExact ==
    fetchPc = "answered" =>
        \A n \in DOMAIN Gathered \union UNION {DOMAIN FamiliesOf(t) : t \in Sources} : Exactly(n)

\* Some step of the call is open; and when it is over, what its goroutines have
\* still to do is to end.
FetcherCanStep(w) ==
    \/ fetcher[w] \in {"scrape", "write", "done"}
    \/ fetcher[w] = "idle" /\ (jobs # <<>> \/ JobsClosed)
GatherCanStep ==
    \/ fetchPc = "wait" /\ AllDone
    \/ fetchPc \in {"answered", "failed"}
    \/ \E w \in Fetchers : FetcherCanStep(w)
FetchersCanEnd ==
    fetchPc # "wait" =>
        \A w \in Fetchers : fetcher[w] # "gone" => fetcher[w] = "idle" /\ jobs = <<>> /\ JobsClosed

\* The inductive invariant behind GatherRefused: each target is in the channel,
\* with one goroutine or done, and the counters count those that are not done.
Pending == {w \in Fetchers : fetcher[w] \in {"scrape", "write"}}
Taken == Pending \union {w \in Fetchers : fetcher[w] = "done"}
Waiting(t) ==
    \/ \E i \in 1 .. Len(jobs) : jobs[i] = t
    \/ \E w \in Fetchers : fetcher[w] = "scrape" /\ job[w] = t
JobsOK ==
    /\ \A i, j \in 1 .. Len(jobs) : jobs[i] = jobs[j] => i = j
    /\ \A w \in Pending : /\ job[w] \in Names
                          /\ \A i \in 1 .. Len(jobs) : jobs[i] # job[w]
                          /\ \A v \in Pending : job[v] = job[w] => v = w
    /\ \A w \in Taken : job[w] \in Names
OutcomesOK ==
    /\ \A t \in Names : Waiting(t) => outcome[t] = "none"
    /\ \A t \in Names : outcome[t] = "refused" =>
          \/ errFetch # NoTarget \/ fetchPc = "idle"
          \/ \E w \in Fetchers : fetcher[w] = "write" /\ job[w] = t
    /\ errFetch # NoTarget => outcome[errFetch] = "refused"
CountersOK ==
    /\ wg = Len(jobs) + Cardinality(Taken)
    /\ Len(metricsUnmerged) + Len(jobs) + Cardinality(Pending) <= Len(Targets)
    /\ fetchPc # "wait" => wg = 0
    /\ fetchPc = "idle" => errFetch = NoTarget /\ metricsUnmerged = <<>>
    /\ fetchPc = "answered" => errFetch = NoTarget

\* And behind GatherExact: each group of metrics is from a target of its own
\* whose scrape is written, and every such target has one.
Written ==
    {t \in Names : /\ outcome[t] \in {"ok", "error"}
                   /\ \A w \in Fetchers : fetcher[w] = "write" => job[w] # t}
OwnedBy(owner) ==
    /\ owner \in Bijection(1 .. Len(metricsUnmerged), Written)
    /\ \A i \in 1 .. Len(metricsUnmerged) : metricsUnmerged[i] = NewMetrics(owner[i])
MetricsOK ==
    /\ \A w \in Fetchers : fetcher[w] = "write" => outcome[job[w]] # "none"
    /\ fetchPc # "idle" =>
          /\ \A t \in Names : outcome[t] = "none" => Waiting(t)
          /\ \E owner \in [1 .. Len(metricsUnmerged) -> Names] : OwnedBy(owner)
\* And behind GatherCanStep: no goroutine ends before the call does.
FetchersRun == fetchPc = "wait" => \A w \in Fetchers : fetcher[w] # "gone"
FetchInv == JobsOK /\ OutcomesOK /\ CountersOK /\ MetricsOK
=============================================================================
