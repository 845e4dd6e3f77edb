--------------------------- MODULE FetcherProofs ---------------------------
(* The steps of Fetcher keep its types and the invariant behind              *)
(* GatherRefused and GatherExact, for any targets and any number of          *)
(* goroutines.                                                               *)
EXTENDS Fetcher, SequenceTheorems, FiniteSetTheorems, TLAPS

\* What the assumption says of the names of targets.
LEMMA TargetNames ==
    /\ Targets \in Seq(Names) /\ Len(Targets) \in Nat /\ NoTarget \notin Names
    /\ \A i, j \in 1 .. Len(Targets) : Targets[i] = Targets[j] => i = j
  <1>1. Targets \in Seq(DOMAIN Exposes)
    BY TargetsAssumption
  <1>2. \A i \in 1 .. Len(Targets) : Targets[i] \in DOMAIN Exposes
    BY <1>1, ElementOfSeq
  <1>3. Targets \in Seq(Range(Targets)) /\ Range(Targets) = Names
    BY <1>1, SeqOfRange, RangeEquality DEF Names
  <1>. QED  BY <1>1, <1>2, <1>3, LenProperties, TargetsAssumption DEF Names

\* The goroutines that hold a target are finitely many.
LEMMA HoldersFinite ==
    /\ IsFiniteSet(Pending) /\ Cardinality(Pending) \in Nat
    /\ IsFiniteSet(Taken) /\ Cardinality(Taken) \in Nat
  <1>1. IsFiniteSet(Fetchers)
    BY FS_Interval, FetchAssumption DEF Fetchers
  <1>2. Pending \in SUBSET Fetchers /\ Taken \in SUBSET Fetchers
    BY DEF Pending, Taken
  <1>. QED  BY <1>1, <1>2, FS_Subset, FS_CardinalityType

\* A goroutine that holds a target is counted.
LEMMA HolderCounted ==
    ASSUME NEW S, IsFiniteSet(S), NEW w
    PROVE  /\ Cardinality(S) \in Nat
           /\ w \in S => Cardinality(S) >= 1 /\ Cardinality(S \ {w}) = Cardinality(S) - 1
           /\ w \notin S => Cardinality(S \union {w}) = Cardinality(S) + 1
  <1>1. Cardinality(S) \in Nat
    BY FS_CardinalityType
  <1>2. w \in S => Cardinality(S) # 0
    BY FS_EmptySet
  <1>. QED  BY <1>1, <1>2, FS_AddElement, FS_RemoveElement

LEMMA Bijections ==
    ASSUME NEW S, NEW T, NEW F
    PROVE  F \in Bijection(S, T) <=>
              /\ F \in [S -> T]
              /\ \A a, b \in S : F[a] = F[b] => a = b
              /\ \A t \in T : \E x \in S : F[x] = t
  BY DEF Bijection, Injection, Surjection, IsInjective

-----------------------------------------------------------------------------
(* One lemma per step; each keeps the types and the invariant. *)

Good == FetchTypeOK /\ FetchInv

\* A step that neither ends a scrape nor writes one.
LEMMA MetricsSame ==
    ASSUME Good, fetchPc' # "idle" => fetchPc # "idle", UNCHANGED <<outcome, metricsUnmerged>>,
           \A w \in Fetchers : fetcher'[w] = "write" <=> fetcher[w] = "write",
           \A w \in Fetchers : fetcher[w] = "write" => job'[w] = job[w],
           \A t \in Names : Waiting(t) => Waiting(t)'
    PROVE  MetricsOK'
  <1>1. MetricsOK
    BY DEF Good, FetchInv
  <1>2. Written' = Written
    BY DEF Written
  <1>3. \A t \in Names : NewMetrics(t)' = NewMetrics(t)
    BY DEF NewMetrics
  <1>4. \A owner \in [1 .. Len(metricsUnmerged) -> Names] : OwnedBy(owner) => OwnedBy(owner)'
    BY <1>2, <1>3 DEF OwnedBy
  <1>. QED  BY <1>1, <1>4 DEF MetricsOK

LEMMA BeginGood == Good /\ FetchBegin => Good'
  <1>. SUFFICES ASSUME Good, FetchBegin PROVE Good'
    OBVIOUS
  <1>. USE DEF Good, FetchBegin
  <1>1. Pending' = {} /\ Taken' = {}
    BY DEF Pending, Taken
  <1>2. Cardinality({}) = 0
    BY FS_EmptySet
  <1>3. FetchTypeOK'
    BY TargetNames DEF FetchTypeOK
  <1>4. JobsOK'
    BY <1>1, TargetNames DEF JobsOK
  <1>5. OutcomesOK'
    BY DEF OutcomesOK, FetchInv, CountersOK
  <1>6. CountersOK'
    BY <1>1, <1>2, TargetNames, EmptySeq DEF CountersOK, FetchInv, FetchTypeOK
  <1>7. MetricsOK'
    <2>1. metricsUnmerged' = <<>> /\ Len(<<>>) = 0 /\ 1 .. 0 = {}
      BY EmptySeq DEF FetchInv, CountersOK
    <2>2. Written' = {}
      BY DEF Written
    <2>3. \A t \in Names : Waiting(t)'
      BY DEF Waiting, Names
    <2>4. \E owner \in [{} -> Names] : owner \in Bijection({}, {})
      <3>1. [i \in {} |-> NoTarget] \in [{} -> Names] /\ [i \in {} |-> NoTarget] \in Bijection({}, {})
        BY Bijections
      <3>. QED  BY <3>1
    <2>. QED  BY <2>1, <2>2, <2>3, <2>4 DEF MetricsOK, OwnedBy
  <1>. QED  BY <1>3, <1>4, <1>5, <1>6, <1>7 DEF FetchInv

LEMMA TakeGood == ASSUME Good, NEW w \in Fetchers, TakeJob(w) PROVE Good'
  <1>. USE DEF Good, TakeJob
  <1>1. /\ jobs \in Seq(Names) /\ Len(jobs) \in Nat /\ Len(jobs) >= 1 /\ Head(jobs) = jobs[1]
        /\ jobs' \in Seq(Names) /\ Len(jobs') = Len(jobs) - 1 /\ Head(jobs) \in Names
        /\ \A i \in 1 .. Len(jobs') : jobs'[i] = jobs[i + 1]
    BY HeadTailProperties, LenProperties, EmptySeq DEF FetchTypeOK
  <1>2. /\ fetcher' = [fetcher EXCEPT ![w] = "scrape"] /\ fetcher[w] = "idle"
        /\ job' = [job EXCEPT ![w] = jobs[1]]
        /\ UNCHANGED <<fetchPc, outcome, wg, errFetch, metricsUnmerged>>
    BY <1>1
  <1>3. /\ Pending' = Pending \union {w} /\ Taken' = Taken \union {w}
        /\ w \notin Pending /\ w \notin Taken
    BY <1>2 DEF Pending, Taken, FetchTypeOK
  <1>4. FetchTypeOK'
    BY <1>1, <1>2 DEF FetchTypeOK
  <1>5. JobsOK'
    <2>1. \A v \in Pending : job'[v] = job[v] /\ job[v] # jobs[1]
      BY <1>1, <1>2, <1>3 DEF FetchInv, JobsOK, FetchTypeOK, Pending
    <2>2. \A i \in 1 .. Len(jobs') : i + 1 \in 1 .. Len(jobs) /\ jobs'[i] # jobs[1]
      BY <1>1 DEF FetchInv, JobsOK
    <2>3. job'[w] = jobs[1] /\ jobs[1] \in Names
      BY <1>1, <1>2 DEF FetchTypeOK
    <2>4. \A i, j \in 1 .. Len(jobs') : jobs'[i] = jobs'[j] => i = j
      BY <1>1, <2>2 DEF FetchInv, JobsOK
    <2>5. \A v \in Pending : \A i \in 1 .. Len(jobs') : jobs'[i] # job'[v]
      BY <1>1, <2>1, <2>2 DEF FetchInv, JobsOK
    <2>6. \A v \in Taken : job'[v] = job[v] /\ job[v] \in Names
      BY <1>2, <1>3 DEF FetchInv, JobsOK, FetchTypeOK, Taken, Pending
    <2>7. \A v \in Pending : v \in Taken
      BY DEF Taken
    <2>. QED
      BY <1>3, <2>1, <2>2, <2>3, <2>4, <2>5, <2>6, <2>7 DEF FetchInv, JobsOK
  <1>6. OutcomesOK'
    <2>1. ASSUME NEW t \in Names, Waiting(t)' PROVE Waiting(t)
      <3>1. CASE \E i \in 1 .. Len(jobs') : jobs'[i] = t
        BY <3>1, <1>1 DEF Waiting
      <3>2. CASE \E v \in Fetchers : fetcher'[v] = "scrape" /\ job'[v] = t
        BY <3>2, <1>1, <1>2 DEF Waiting, FetchTypeOK
      <3>. QED  BY <2>1, <3>1, <3>2 DEF Waiting
    <2>2. \A v \in Fetchers : fetcher[v] = "write" => fetcher'[v] = "write" /\ job'[v] = job[v]
      BY <1>2 DEF FetchTypeOK
    <2>. QED  BY <1>2, <2>1, <2>2 DEF FetchInv, OutcomesOK
  <1>7. CountersOK'
    <2>1. /\ Cardinality(Pending') = Cardinality(Pending) + 1
          /\ Cardinality(Taken') = Cardinality(Taken) + 1
          /\ Cardinality(Pending) \in Nat /\ Cardinality(Taken) \in Nat
      BY <1>3, HoldersFinite, HolderCounted
    <2>2. Len(metricsUnmerged) \in Nat /\ Len(Targets) \in Nat
      BY LenProperties, TargetNames DEF FetchTypeOK
    <2>3. /\ wg' = wg /\ fetchPc' = fetchPc /\ metricsUnmerged' = metricsUnmerged
          /\ Len(jobs) \in Nat /\ Len(jobs) >= 1 /\ Len(jobs') = Len(jobs) - 1
      BY <1>1, <1>2, LenProperties, EmptySeq DEF FetchTypeOK
    <2>4. /\ wg = Len(jobs) + Cardinality(Taken)
          /\ Len(metricsUnmerged) + Len(jobs) + Cardinality(Pending) <= Len(Targets)
          /\ fetchPc # "wait" => wg = 0
      BY DEF FetchInv, CountersOK
    <2>5. fetchPc = "wait"
      BY ONLY <2>1, <2>3, <2>4
    <2>6. Len(metricsUnmerged') + Len(jobs') + Cardinality(Pending') <= Len(Targets)
      BY <2>1, <2>2, <2>3, <2>4
    <2>7. fetchPc' = "wait" /\ wg' = Len(jobs') + Cardinality(Taken')
      BY <2>1, <2>3, <2>4, <2>5
    <2>. QED  BY <2>6, <2>7 DEF CountersOK
  <1>8. MetricsOK'
    <2>1. \A v \in Fetchers : fetcher'[v] = "write" <=> fetcher[v] = "write"
      BY <1>2 DEF FetchTypeOK
    <2>2. \A v \in Fetchers : fetcher[v] = "write" => job'[v] = job[v]
      BY <1>2 DEF FetchTypeOK
    <2>3. ASSUME NEW t \in Names, Waiting(t)  PROVE Waiting(t)'
      <3>1. CASE \E v \in Fetchers : fetcher[v] = "scrape" /\ job[v] = t
        BY <3>1, <1>2 DEF Waiting, FetchTypeOK
      <3>2. ASSUME NEW i \in 1 .. Len(jobs), jobs[i] = t  PROVE Waiting(t)'
        <4>1. CASE i = 1
          BY <3>2, <4>1, <1>2 DEF Waiting, FetchTypeOK
        <4>2. CASE i # 1
          <5>1. i - 1 \in 1 .. Len(jobs') /\ jobs'[i - 1] = jobs[(i - 1) + 1] /\ (i - 1) + 1 = i
            BY <1>1, <4>2
          <5>. QED  BY <3>2, <5>1 DEF Waiting
        <4>. QED  BY <4>1, <4>2
      <3>. QED  BY <2>3, <3>1, <3>2 DEF Waiting
    <2>. QED  BY <1>2, <2>1, <2>2, <2>3, MetricsSame
  <1>. QED  BY <1>4, <1>5, <1>6, <1>7, <1>8 DEF FetchInv

LEMMA ScrapeGood ==
    ASSUME Good, NEW w \in Fetchers, NEW o \in {"ok", "refused", "error"}, Scrape(w, o)
    PROVE  Good'
  <1>. USE DEF Good, Scrape
  <1>1. w \in Pending /\ job[w] \in Names
    BY DEF Pending, FetchInv, JobsOK
  <1>2. Pending' = Pending /\ Taken' = Taken
    BY DEF Pending, Taken, FetchTypeOK
  <1>3. FetchTypeOK'
    BY <1>1 DEF FetchTypeOK
  <1>4. JobsOK'
    BY <1>2 DEF FetchInv, JobsOK
  <1>5. outcome[job[w]] = "none"
    BY <1>1 DEF FetchInv, OutcomesOK, Waiting
  <1>6. OutcomesOK'
    <2>1. ASSUME NEW t \in Names, Waiting(t)' PROVE Waiting(t) /\ t # job[w]
      <3>1. CASE \E i \in 1 .. Len(jobs) : jobs[i] = t
        BY <3>1, <1>1 DEF Waiting, FetchInv, JobsOK
      <3>2. CASE \E v \in Fetchers : fetcher'[v] = "scrape" /\ job[v] = t
        <4>1. PICK v \in Fetchers : fetcher'[v] = "scrape" /\ job[v] = t
          BY <3>2
        <4>2. v # w /\ v \in Pending /\ fetcher[v] = "scrape"
          BY <4>1 DEF FetchTypeOK, Pending
        <4>. QED  BY <4>1, <4>2, <1>1 DEF Waiting, FetchInv, JobsOK
      <3>. QED  BY <2>1, <3>1, <3>2 DEF Waiting
    <2>2. \A v \in Fetchers : fetcher[v] = "write" => fetcher'[v] = "write"
      BY DEF FetchTypeOK
    <2>3. fetcher'[w] = "write"
      BY DEF FetchTypeOK
    <2>4. \A t \in Names : t # job[w] => outcome'[t] = outcome[t]
      BY DEF FetchTypeOK
    <2>5. \A t \in Names : Waiting(t)' => outcome'[t] = "none"
      BY <2>1, <2>4 DEF FetchInv, OutcomesOK
    <2>6. errFetch # NoTarget => errFetch # job[w]
      BY <1>5 DEF FetchInv, OutcomesOK
    <2>7. errFetch # NoTarget => errFetch \in Names
      BY DEF FetchTypeOK
    <2>. QED
      BY <1>1, <2>2, <2>3, <2>4, <2>5, <2>6, <2>7 DEF FetchInv, OutcomesOK
  <1>7. CountersOK'
    BY <1>2 DEF FetchInv, CountersOK
  <1>8. MetricsOK'
    <2>0. MetricsOK
      BY DEF FetchInv
    <2>1. /\ fetcher' = [fetcher EXCEPT ![w] = "write"] /\ outcome' = [outcome EXCEPT ![job[w]] = o]
          /\ UNCHANGED <<fetchPc, jobs, job, metricsUnmerged>> /\ fetcher[w] = "scrape"
      OBVIOUS
    <2>2. \A v \in Fetchers : fetcher[v] = "write" => v # w /\ job[v] # job[w]
      BY <1>1 DEF Pending, FetchInv, JobsOK
    <2>3. \A v \in Fetchers : fetcher'[v] = "write" <=> fetcher[v] = "write" \/ v = w
      BY <2>1 DEF FetchTypeOK
    <2>4. \A t \in Names : outcome'[t] = IF t = job[w] THEN o ELSE outcome[t]
      BY <2>1, <1>1 DEF FetchTypeOK
    <2>5. Written' = Written /\ job[w] \notin Written
      BY <1>5, <2>1, <2>3, <2>4 DEF Written
    <2>6. \A t \in Written : NewMetrics(t)' = NewMetrics(t)
      BY <2>4, <2>5 DEF NewMetrics, Written
    <2>7. ASSUME NEW owner \in [1 .. Len(metricsUnmerged) -> Names], OwnedBy(owner)
          PROVE  OwnedBy(owner)'
      <3>1. \A i \in 1 .. Len(metricsUnmerged) : owner[i] \in Written
        BY <2>7, Bijections DEF OwnedBy
      <3>. QED  BY <2>1, <2>5, <2>6, <2>7, <3>1 DEF OwnedBy
    <2>8. \A v \in Fetchers : fetcher'[v] = "write" => outcome'[job'[v]] # "none"
      <3>1. \A v \in Fetchers : fetcher'[v] = "write" => job[v] \in Names
        BY <1>1, <2>3 DEF FetchInv, JobsOK, Taken, Pending
      <3>. QED  BY <2>0, <2>1, <2>2, <2>3, <2>4, <3>1 DEF MetricsOK
    <2>9. ASSUME NEW t \in Names, outcome'[t] = "none", Waiting(t)  PROVE Waiting(t)'
      <3>1. t # job[w]
        BY <2>4, <2>9
      <3>. QED  BY <2>1, <2>9, <3>1 DEF Waiting, FetchTypeOK
    <2>10. \A t \in Names : outcome'[t] = "none" => outcome[t] = "none"
      BY <2>4
    <2>. QED  BY <2>0, <2>1, <2>7, <2>8, <2>9, <2>10 DEF MetricsOK
  <1>. QED  BY <1>3, <1>4, <1>6, <1>7, <1>8 DEF FetchInv

LEMMA WriteGood == ASSUME Good, NEW w \in Fetchers, Write(w) PROVE Good'
  <1>. USE DEF Good, Write
  <1>1. w \in Pending /\ job[w] \in Names /\ fetcher' = [fetcher EXCEPT ![w] = "done"]
    BY DEF Pending, FetchInv, JobsOK
  <1>2. Pending' = Pending \ {w} /\ Taken' = Taken
    BY <1>1 DEF Pending, Taken, FetchTypeOK
  <1>3. Cardinality(Pending) \in Nat /\ Cardinality(Pending) >= 1
        /\ Cardinality(Pending') = Cardinality(Pending) - 1
    BY <1>1, <1>2, HoldersFinite, HolderCounted
  <1>4. /\ Len(jobs) \in Nat /\ Len(metricsUnmerged) \in Nat /\ Len(Targets) \in Nat
        /\ Len(metricsUnmerged) + 1 <= Len(Targets)
    BY <1>3, LenProperties, TargetNames DEF FetchInv, CountersOK, FetchTypeOK
  <1>5. /\ metricsUnmerged' \in Seq(Groups)
        /\ Len(metricsUnmerged') \in {Len(metricsUnmerged), Len(metricsUnmerged) + 1}
        /\ errFetch' \in {errFetch, job[w]}
    <2>1. Metric(Exposes[job[w]], job[w]) \in Groups /\ ScrapeError(job[w]) \in Groups
      BY <1>1 DEF Groups
    <2>2. metricsUnmerged \in Seq(Groups) /\ Len(metricsUnmerged) \in Nat /\ NewMetrics(job[w]) \in Groups
      BY <1>4, <2>1 DEF NewMetrics, FetchTypeOK
    <2>3. \/ metricsUnmerged' = metricsUnmerged /\ errFetch' = job[w]
          \/ metricsUnmerged' = Append(metricsUnmerged, NewMetrics(job[w])) /\ errFetch' = errFetch
      BY ONLY Write(w) DEF Write, WriteRefused, AppendMetrics, NewMetrics
    <2>. QED  BY ONLY <2>2, <2>3, AppendProperties
  <1>6. FetchTypeOK'
    BY <1>1, <1>4, <1>5 DEF FetchTypeOK
  <1>7. JobsOK'
    BY <1>2 DEF FetchInv, JobsOK
  <1>8. OutcomesOK'
    <2>1. \A t \in Names : Waiting(t)' => Waiting(t)
      BY <1>1 DEF Waiting, FetchTypeOK
    <2>2. \A v \in Fetchers : fetcher[v] = "write" => fetcher'[v] = "write" \/ v = w
      BY <1>1 DEF FetchTypeOK
    <2>3. CASE outcome[job[w]] = "refused"
      BY <2>1, <2>3, <1>1, TargetNames DEF WriteRefused, FetchInv, OutcomesOK
    <2>4. CASE outcome[job[w]] # "refused"
      BY <2>1, <2>2, <2>4 DEF AppendMetrics, FetchInv, OutcomesOK
    <2>. QED  BY <2>3, <2>4
  <1>9. CountersOK'
    <2>1. fetchPc = "wait"
      <3>1. Cardinality(Taken) \in Nat /\ Cardinality(Taken) >= 1
        BY <1>1, HoldersFinite, HolderCounted DEF Taken
      <3>2. wg # 0
        BY <1>4, <3>1 DEF FetchInv, CountersOK
      <3>. QED  BY <3>2 DEF FetchInv, CountersOK
    <2>. QED  BY <1>2, <1>3, <1>4, <1>5, <2>1 DEF FetchInv, CountersOK
  <1>10. MetricsOK'
    <2>0. MetricsOK
      BY DEF FetchInv
    <2>1. /\ UNCHANGED <<fetchPc, jobs, job, outcome>> /\ fetcher[w] = "write"
          /\ outcome[job[w]] # "none" /\ outcome[job[w]] \in {"none", "ok", "refused", "error"}
      BY <2>0, <1>1 DEF MetricsOK, FetchTypeOK
    <2>2. \A v \in Fetchers : fetcher'[v] = "write" <=> fetcher[v] = "write" /\ v # w
      BY <1>1 DEF FetchTypeOK
    <2>3. \A v \in Fetchers : fetcher[v] = "write" /\ v # w => job[v] # job[w]
      BY <1>1 DEF Pending, FetchInv, JobsOK
    <2>4. \A v \in Fetchers : fetcher'[v] = "write" => outcome'[job'[v]] # "none"
      BY <2>0, <2>1, <2>2 DEF MetricsOK
    <2>5. \A t \in Names : Waiting(t) => Waiting(t)'
      BY <1>1, <2>1 DEF Waiting, FetchTypeOK
    <2>6. \A t \in Names : NewMetrics(t)' = NewMetrics(t)
      BY <2>1 DEF NewMetrics
    <2>7. job[w] \notin Written
      BY <2>1 DEF Written
    <2>8. CASE outcome[job[w]] = "refused"
      <3>1. metricsUnmerged' = metricsUnmerged
        BY <2>8 DEF WriteRefused
      <3>2. Written' = Written
        BY <2>1, <2>2, <2>8 DEF Written
      <3>3. \A owner \in [1 .. Len(metricsUnmerged) -> Names] : OwnedBy(owner) => OwnedBy(owner)'
        BY <2>6, <3>1, <3>2 DEF OwnedBy
      <3>. QED  BY <2>0, <2>1, <2>4, <2>5, <3>1, <3>3 DEF MetricsOK
    <2>9. CASE outcome[job[w]] # "refused"
      <3>0. PICK n : n = Len(metricsUnmerged)
        OBVIOUS
      <3>1. /\ metricsUnmerged' = Append(metricsUnmerged, NewMetrics(job[w]))
            /\ NewMetrics(job[w]) \in Groups /\ metricsUnmerged \in Seq(Groups) /\ n \in Nat
        BY <1>1, <1>4, <2>9, <3>0 DEF AppendMetrics, NewMetrics, Groups, FetchTypeOK
      <3>2. /\ Len(metricsUnmerged') = n + 1 /\ metricsUnmerged'[n + 1] = NewMetrics(job[w])
            /\ \A i \in 1 .. n : metricsUnmerged'[i] = metricsUnmerged[i]
        BY <3>0, <3>1, AppendProperties
      <3>3. Written' = Written \union {job[w]}
        BY <1>1, <2>1, <2>2, <2>3, <2>9 DEF Written
      <3>4. ASSUME NEW owner \in [1 .. n -> Names], OwnedBy(owner)
            PROVE  \E new \in [1 .. n + 1 -> Names] : OwnedBy(new)'
        <4>0. PICK new : new = [i \in 1 .. n + 1 |-> IF i = n + 1 THEN job[w] ELSE owner[i]]
          OBVIOUS
        <4>1. /\ owner \in [1 .. n -> Written]
              /\ \A i, j \in 1 .. n : owner[i] = owner[j] => i = j
              /\ \A t \in Written : \E i \in 1 .. n : owner[i] = t
              /\ \A i \in 1 .. n : metricsUnmerged[i] = NewMetrics(owner[i])
          <5>1. owner \in Bijection(1 .. n, Written)
            BY ONLY <3>0, <3>4 DEF OwnedBy
          <5>2. \A i \in 1 .. n : metricsUnmerged[i] = NewMetrics(owner[i])
            BY ONLY <3>0, <3>4 DEF OwnedBy
          <5>3. /\ owner \in [1 .. n -> Written]
                /\ \A i, j \in 1 .. n : owner[i] = owner[j] => i = j
                /\ \A t \in Written : \E i \in 1 .. n : owner[i] = t
            BY ONLY <5>1 DEF Bijection, Injection, Surjection, IsInjective
          <5>. QED  BY ONLY <5>2, <5>3
        <4>2. /\ \A i \in 1 .. n : i \in 1 .. n + 1 /\ i # n + 1 /\ new[i] = owner[i]
              /\ n + 1 \in 1 .. n + 1 /\ new[n + 1] = job[w]
              /\ \A i \in 1 .. n + 1 : i = n + 1 \/ i \in 1 .. n
          BY <3>1, <4>0
        <4>3. new \in [1 .. n + 1 -> Written'] /\ new \in [1 .. n + 1 -> Names]
          BY <1>1, <3>3, <4>0, <4>1, <4>2
        <4>4. \A i, j \in 1 .. n + 1 : new[i] = new[j] => i = j
          BY <2>7, <4>1, <4>2
        <4>5. \A t \in Written' : \E i \in 1 .. n + 1 : new[i] = t
          <5>1. ASSUME NEW t \in Written  PROVE \E i \in 1 .. n + 1 : new[i] = t
            BY <4>1, <4>2, <5>1
          <5>. QED  BY <3>3, <4>2, <5>1
        <4>6. new \in Bijection(1 .. n + 1, Written')
          BY ONLY <4>3, <4>4, <4>5 DEF Bijection, Injection, Surjection, IsInjective
        <4>7. \A i \in 1 .. n + 1 : metricsUnmerged'[i] = NewMetrics(new[i])'
          BY <1>1, <2>6, <3>2, <4>1, <4>2, <4>3
        <4>8. OwnedBy(new)'
          BY <3>2, <4>6, <4>7 DEF OwnedBy
        <4>. QED  BY <4>3, <4>8
      <3>. QED  BY <2>0, <2>1, <2>4, <2>5, <3>0, <3>2, <3>4 DEF MetricsOK
    <2>. QED  BY <2>8, <2>9
  <1>. QED  BY <1>6, <1>7, <1>8, <1>9, <1>10 DEF FetchInv

LEMMA DoneGood == ASSUME Good, NEW w \in Fetchers, JobDone(w) PROVE Good'
  <1>. USE DEF Good, JobDone
  <1>1. /\ fetcher' = [fetcher EXCEPT ![w] = "idle"] /\ job' = [job EXCEPT ![w] = NoTarget]
        /\ w \in Taken /\ w \notin Pending
    BY DEF Taken, Pending
  <1>2. Pending' = Pending /\ Taken' = Taken \ {w}
    BY <1>1 DEF Pending, Taken, FetchTypeOK
  <1>3. Cardinality(Taken) \in Nat /\ Cardinality(Taken) >= 1
        /\ Cardinality(Taken') = Cardinality(Taken) - 1
    BY <1>1, <1>2, HoldersFinite, HolderCounted
  <1>4. wg >= 1 /\ Len(jobs) \in Nat /\ Len(Targets) \in Nat
    BY <1>3, LenProperties, TargetNames DEF FetchInv, CountersOK, FetchTypeOK
  <1>5. FetchTypeOK'
    BY <1>1, <1>4 DEF FetchTypeOK
  <1>6. \A v \in Fetchers : v # w => job'[v] = job[v] /\ fetcher'[v] = fetcher[v]
    BY <1>1 DEF FetchTypeOK
  <1>7. JobsOK'
    BY <1>1, <1>2, <1>6 DEF FetchInv, JobsOK, Pending, Taken
  <1>8. OutcomesOK'
    <2>1. \A t \in Names : Waiting(t)' => Waiting(t)
      BY <1>1, <1>6 DEF Waiting, FetchTypeOK
    <2>2. \A v \in Fetchers : fetcher[v] = "write" => fetcher'[v] = "write" /\ job'[v] = job[v]
      BY <1>6
    <2>. QED  BY <2>1, <2>2 DEF FetchInv, OutcomesOK
  <1>9. CountersOK'
    <2>1. Cardinality(Pending) \in Nat /\ Len(metricsUnmerged) \in Nat /\ wg \in Nat
      BY HoldersFinite, LenProperties, <1>4 DEF FetchTypeOK
    <2>2. wg' = wg - 1 /\ UNCHANGED <<fetchPc, jobs, errFetch, metricsUnmerged>>
      OBVIOUS
    <2>. QED  BY <1>2, <1>3, <1>4, <2>1, <2>2 DEF FetchInv, CountersOK
  <1>10. MetricsOK'
    <2>1. \A v \in Fetchers : fetcher'[v] = "write" <=> fetcher[v] = "write"
      BY <1>1, <1>6 DEF FetchTypeOK
    <2>2. \A v \in Fetchers : fetcher[v] = "write" => job'[v] = job[v]
      BY <1>6
    <2>3. \A t \in Names : Waiting(t) => Waiting(t)'
      BY <1>6 DEF Waiting
    <2>. QED  BY <2>1, <2>2, <2>3, MetricsSame
  <1>. QED  BY <1>5, <1>7, <1>8, <1>9, <1>10 DEF FetchInv

LEMMA ReturnGood == Good /\ (FetchReturn \/ FetchEnd) => Good'
  <1>. SUFFICES ASSUME Good, FetchReturn \/ FetchEnd PROVE Good'
    OBVIOUS
  <1>. USE DEF Good, FetchReturn, FetchEnd, AllDone
  <1>1. Pending' = Pending /\ Taken' = Taken
    BY DEF Pending, Taken
  <1>2. FetchTypeOK'
    <2>1. CASE FetchReturn
      BY <2>1 DEF FetchTypeOK
    <2>2. CASE FetchEnd
      <3>1. <<>> \in Seq(Groups) /\ Len(<<>>) = 0 /\ Len(Targets) \in Nat
        BY EmptySeq, TargetNames
      <3>. QED  BY <2>2, <3>1 DEF FetchTypeOK
    <2>. QED  BY <2>1, <2>2
  <1>3. JobsOK'
    BY <1>1 DEF FetchInv, JobsOK
  <1>4. \A t \in Names : Waiting(t)' => Waiting(t)
    BY DEF Waiting
  <1>5. OutcomesOK'
    BY <1>4 DEF FetchInv, OutcomesOK
  <1>6. CountersOK'
    BY <1>1, EmptySeq, LenProperties, HoldersFinite, TargetNames DEF FetchInv, CountersOK, FetchTypeOK
  <1>7. MetricsOK'
    <2>1. CASE FetchReturn
      <3>1. \A t \in Names : Waiting(t) => Waiting(t)'
        BY <2>1 DEF Waiting
      <3>. QED  BY <2>1, <3>1, MetricsSame
    <2>2. CASE FetchEnd
      BY <2>2 DEF FetchInv, MetricsOK
    <2>. QED  BY <2>1, <2>2
  <1>. QED  BY <1>2, <1>3, <1>5, <1>6, <1>7 DEF FetchInv

LEMMA EndsGood == ASSUME Good, NEW w \in Fetchers, FetcherEnds(w) PROVE Good'
  <1>. USE DEF Good, FetcherEnds
  <1>1. Pending' = Pending /\ Taken' = Taken
    BY DEF Pending, Taken, FetchTypeOK
  <1>2. FetchTypeOK'
    BY DEF FetchTypeOK
  <1>3. JobsOK'
    BY <1>1 DEF FetchInv, JobsOK
  <1>4. \A t \in Names : Waiting(t)' => Waiting(t)
    BY DEF Waiting, FetchTypeOK
  <1>5. \A v \in Fetchers : fetcher[v] = "write" => fetcher'[v] = "write"
    BY DEF FetchTypeOK
  <1>6. OutcomesOK'
    BY <1>4, <1>5 DEF FetchInv, OutcomesOK
  <1>7. CountersOK'
    BY <1>1 DEF FetchInv, CountersOK
  <1>8. MetricsOK'
    <2>1. \A v \in Fetchers : fetcher'[v] = "write" <=> fetcher[v] = "write"
      BY DEF FetchTypeOK
    <2>2. \A t \in Names : Waiting(t) => Waiting(t)'
      BY DEF Waiting, FetchTypeOK
    <2>. QED  BY <2>1, <2>2, MetricsSame
  <1>. QED  BY <1>2, <1>3, <1>6, <1>7, <1>8 DEF FetchInv

-----------------------------------------------------------------------------
\* Before the first call nothing is under way.
LEMMA FetchInitGood == FetchInit => Good
  <1>. SUFFICES ASSUME FetchInit PROVE Good
    OBVIOUS
  <1>. USE DEF FetchInit
  <1>1. Pending = {} /\ Taken = {} /\ Cardinality({}) = 0 /\ Len(<<>>) = 0
    BY FS_EmptySet, EmptySeq DEF Pending, Taken
  <1>2. FetchTypeOK
    BY <1>1, EmptySeq, TargetNames DEF FetchTypeOK
  <1>. QED
    BY <1>1, <1>2, TargetNames
       DEF Good, FetchInv, JobsOK, OutcomesOK, CountersOK, MetricsOK, Waiting

\* Every step keeps the types and the invariant.
LEMMA FetchGood == Good /\ [FetchNext]_fetchVars => Good'
  <1>1. ASSUME Good, UNCHANGED fetchVars  PROVE Good'
    <2>1. FetchTypeOK' /\ JobsOK' /\ OutcomesOK' /\ CountersOK'
      BY <1>1 DEF Good, fetchVars, FetchTypeOK, FetchInv, JobsOK, OutcomesOK, CountersOK, Waiting,
                  Pending, Taken
    <2>2. MetricsOK'
      <3>1. \A t \in Names : Waiting(t) => Waiting(t)'
        BY <1>1 DEF Waiting, fetchVars
      <3>. QED  BY <1>1, <3>1, MetricsSame DEF fetchVars
    <2>. QED  BY <2>1, <2>2 DEF Good, FetchInv
  <1>. QED
    BY <1>1, BeginGood, TakeGood, ScrapeGood, WriteGood, DoneGood, ReturnGood, EndsGood
       DEF FetchNext, FetchStep

\* When the call is over every target is done, and a refusal was recorded.
LEMMA FetchInvImplies == Good => GatherRefused
  <1>. SUFFICES ASSUME Good, fetchPc \in {"answered", "failed"}
                PROVE  /\ errFetch # NoTarget <=> Refused
                       /\ fetchPc = "answered" => errFetch = NoTarget
    BY DEF GatherRefused
  <1>0. fetchPc = "answered" => errFetch = NoTarget
    BY DEF Good, FetchInv, CountersOK
  <1>1. Cardinality(Taken) = 0
    BY HoldersFinite, LenProperties DEF Good, FetchInv, CountersOK, FetchTypeOK
  <1>2. Taken = {}
    BY <1>1, HoldersFinite, FS_EmptySet
  <1>3. \A w \in Fetchers : fetcher[w] # "write"
    BY <1>2 DEF Taken, Pending
  <1>4. errFetch # NoTarget <=> Refused
    BY <1>3 DEF Good, FetchInv, OutcomesOK, FetchTypeOK, Refused
  <1>. QED  BY <1>0, <1>4

-----------------------------------------------------------------------------
(* What the answer of a call holds. *)

\* Group g holds the metrics of the families f, labelled t.
Labelled(g, f, t) ==
    \A n : /\ DOMAIN Lists(g, n) = DOMAIN Lists(f, n)
           /\ \A k \in DOMAIN Lists(f, n) : /\ n \in DOMAIN g
                                            /\ g[n][k].target = t
                                            /\ Stripped(g[n][k]) = Stripped(f[n][k])

LEMMA MetricLabels ==
    ASSUME NEW f, NEW t
    PROVE  Labelled(Metric(f, t), f, t)
  <1>. SUFFICES ASSUME NEW n
                PROVE  /\ DOMAIN Lists(Metric(f, t), n) = DOMAIN Lists(f, n)
                       /\ \A k \in DOMAIN Lists(f, n) :
                            /\ n \in DOMAIN Metric(f, t)
                            /\ Metric(f, t)[n][k].target = t
                            /\ Stripped(Metric(f, t)[n][k]) = Stripped(f[n][k])
    BY DEF Labelled
  <1>1. CASE n \notin DOMAIN f
    <2>1. DOMAIN <<>> = {}
      OBVIOUS
    <2>. QED  BY <1>1, <2>1 DEF Lists, Metric
  <1>2. CASE n \in DOMAIN f
    <2>1. /\ n \in DOMAIN Metric(f, t)
          /\ Metric(f, t)[n] = [i \in DOMAIN f[n] |-> AddTargetName(f[n][i], t)]
      BY <1>2 DEF Metric
    <2>2. Lists(f, n) = f[n] /\ Lists(Metric(f, t), n) = Metric(f, t)[n]
      BY <1>2, <2>1 DEF Lists
    <2>3. ASSUME NEW metric
          PROVE  AddTargetName(metric, t).target = t /\ Stripped(AddTargetName(metric, t)) = Stripped(metric)
      <3>1. DOMAIN AddTargetName(metric, t) = DOMAIN metric \union {"target"}
        BY DEF AddTargetName
      <3>2. \A l \in DOMAIN metric \ {"target"} : AddTargetName(metric, t)[l] = metric[l]
        BY DEF AddTargetName
      <3>3. (DOMAIN metric \union {"target"}) \ {"target"} = DOMAIN metric \ {"target"}
        OBVIOUS
      <3>4. Stripped(AddTargetName(metric, t)) = Stripped(metric)
        BY <3>1, <3>2, <3>3 DEF Stripped
      <3>. QED  BY <3>4 DEF AddTargetName
    <2>. QED  BY <2>1, <2>2, <2>3
  <1>. QED  BY <1>1, <1>2

LEMMA ErrorLabels == ASSUME NEW t PROVE Labelled(ScrapeError(t), ScrapeError(t), t)
  <1>. SUFFICES ASSUME NEW n, NEW k \in DOMAIN Lists(ScrapeError(t), n)
                PROVE  n \in DOMAIN ScrapeError(t) /\ ScrapeError(t)[n][k].target = t
    BY DEF Labelled
  <1>1. DOMAIN <<>> = {} /\ DOMAIN <<[target |-> t]>> = {1}
    OBVIOUS
  <1>2. n = "scrape_error"
    BY <1>1 DEF Lists, ScrapeError
  <1>3. ScrapeError(t)[n] = <<[target |-> t]>> /\ n \in DOMAIN ScrapeError(t)
    BY <1>2 DEF ScrapeError
  <1>4. k = 1
    BY <1>1, <1>3 DEF Lists
  <1>. QED  BY <1>3, <1>4

\* A place is a group and a position in its list.
LEMMA PlaceOf ==
    ASSUME NEW groups, NEW n, NEW p
    PROVE  p \in Places(groups, n) <=>
              \E i \in 1 .. Len(groups) : \E k \in DOMAIN Lists(groups[i], n) : p = <<i, k>>
  BY DEF Places

LEMMA MetricOf ==
    ASSUME NEW n, NEW x
    PROVE  x \in MetricsNamed(n) <=>
              \E t \in Sources : \E k \in DOMAIN Lists(FamiliesOf(t), n) : x = <<t, k>>
  BY DEF MetricsNamed

\* The merged family of a name has the places of that name.
HasPlaces(groups, n) ==
    \A i \in 1 .. Len(groups) : \A k \in DOMAIN Lists(groups[i], n) : n \in DOMAIN groups[i]
LEMMA MergedFamily ==
    ASSUME NEW groups, NEW n, HasPlaces(groups, n)
    PROVE  /\ DOMAIN Lists(CleanDuplicate(groups), n) = Places(groups, n)
           /\ \A p \in Places(groups, n) :
                 CleanDuplicate(groups)[n][p] = groups[p[1]][n][p[2]]
  <1>1. PICK D : D = UNION {DOMAIN groups[i] : i \in 1 .. Len(groups)}
    OBVIOUS
  <1>2. CleanDuplicate(groups) =
          [m \in D |-> [p \in Places(groups, m) |-> groups[p[1]][m][p[2]]]]
    BY <1>1 DEF CleanDuplicate
  <1>3. CASE n \in D
    <2>1. CleanDuplicate(groups)[n] = [p \in Places(groups, n) |-> groups[p[1]][n][p[2]]]
      BY <1>2, <1>3
    <2>2. Lists(CleanDuplicate(groups), n) = CleanDuplicate(groups)[n]
      BY <1>2, <1>3 DEF Lists
    <2>. QED  BY <2>1, <2>2
  <1>4. CASE n \notin D
    <2>1. DOMAIN <<>> = {}
      OBVIOUS
    <2>2. Lists(CleanDuplicate(groups), n) = <<>>
      BY <1>2, <1>4 DEF Lists
    <2>3. Places(groups, n) = {}
      <3>1. ASSUME NEW p \in Places(groups, n)  PROVE FALSE
        <4>1. PICK i, k : i \in 1 .. Len(groups) /\ k \in DOMAIN Lists(groups[i], n) /\ p = <<i, k>>
          BY <3>1, PlaceOf
        <4>. QED  BY <4>1, <1>1, <1>4 DEF HasPlaces
      <3>. QED  BY <3>1
    <2>. QED  BY <2>1, <2>2, <2>3
  <1>. QED  BY <1>3, <1>4

\* When the call returns without an error, every target is scraped and written.
LEMMA AllWritten ==
    ASSUME Good, fetchPc = "answered"
    PROVE  /\ \A t \in Names : outcome[t] \in {"ok", "error"}
           /\ Written = Names
  <1>1. Cardinality(Taken) = 0 /\ Len(jobs) = 0
    BY HoldersFinite, LenProperties DEF Good, FetchInv, CountersOK, FetchTypeOK
  <1>2. Taken = {}
    BY <1>1, HoldersFinite, FS_EmptySet
  <1>3. \A w \in Fetchers : fetcher[w] # "write" /\ fetcher[w] # "scrape"
    BY <1>2 DEF Taken, Pending
  <1>4. \A t \in Names : ~ Waiting(t)
    BY <1>1, <1>3 DEF Waiting
  <1>5. \A t \in Names : outcome[t] # "none"
    BY <1>4 DEF Good, FetchInv, MetricsOK
  <1>6. \A t \in Names : outcome[t] # "refused"
    BY FetchInvImplies DEF GatherRefused, Refused
  <1>7. \A t \in Names : outcome[t] \in {"ok", "error"}
    BY <1>5, <1>6 DEF Good, FetchTypeOK
  <1>. QED  BY <1>3, <1>7 DEF Written

\* The groups of the answer and where each is from.
LEMMA GroupSources ==
    ASSUME Good, fetchPc = "answered"
    PROVE  \E groups, src :
              /\ Gathered = CleanDuplicate(groups)
              /\ src \in Bijection(1 .. Len(groups), Sources)
              /\ \A i \in 1 .. Len(groups) :
                    Labelled(groups[i], FamiliesOf(src[i]), LabelOf(src[i]))
  <1>0. PICK L : L = Len(metricsUnmerged)
    OBVIOUS
  <1>1. L \in Nat /\ metricsUnmerged \in Seq(Groups)
    BY <1>0, LenProperties DEF Good, FetchTypeOK
  <1>2. PICK groups : groups = Append(metricsUnmerged, Metric(Own, "gsloc"))
    OBVIOUS
  <1>3. /\ Len(groups) = L + 1 /\ groups[L + 1] = Metric(Own, "gsloc")
        /\ \A i \in 1 .. L : groups[i] = metricsUnmerged[i]
    <2>1. PICK S : S = Groups \union {Metric(Own, "gsloc")}
      OBVIOUS
    <2>2. \A g \in Groups : g \in S
      BY <2>1
    <2>3. \A i \in 1 .. L : metricsUnmerged[i] \in S
      BY <1>0, <1>1, <2>2, ElementOfSeq
    <2>4. metricsUnmerged = [i \in 1 .. L |-> metricsUnmerged[i]]
      BY <1>0, <1>1, SeqDef
    <2>5. metricsUnmerged \in Seq(S)
      BY <1>1, <2>3, <2>4, SeqDef
    <2>. QED  BY <1>0, <1>2, <2>1, <2>5, AppendProperties
  <1>4. Written = Names /\ \A t \in Names : outcome[t] \in {"ok", "error"}
    BY AllWritten
  <1>5. PICK owner \in [1 .. L -> Names] : OwnedBy(owner)
    BY <1>0 DEF Good, FetchInv, MetricsOK
  <1>6. /\ \A i, j \in 1 .. L : owner[i] = owner[j] => i = j
        /\ \A t \in Names : \E i \in 1 .. L : owner[i] = t
        /\ \A i \in 1 .. L : groups[i] = NewMetrics(owner[i])
    BY <1>0, <1>3, <1>4, <1>5, Bijections DEF OwnedBy
  <1>7. PICK src : src = [i \in 1 .. L + 1 |-> IF i = L + 1 THEN NoTarget ELSE owner[i]]
    OBVIOUS
  <1>8. /\ \A i \in 1 .. L : i \in 1 .. L + 1 /\ i # L + 1 /\ src[i] = owner[i] /\ owner[i] \in Names
        /\ L + 1 \in 1 .. L + 1 /\ src[L + 1] = NoTarget
        /\ \A i \in 1 .. L + 1 : i = L + 1 \/ i \in 1 .. L
    BY <1>1, <1>5, <1>7
  <1>9. src \in Bijection(1 .. L + 1, Sources)
    <2>1. src \in [1 .. L + 1 -> Sources]
      BY <1>7, <1>8 DEF Sources
    <2>2. \A i, j \in 1 .. L + 1 : src[i] = src[j] => i = j
      BY <1>6, <1>8, TargetNames
    <2>3. \A t \in Sources : \E i \in 1 .. L + 1 : src[i] = t
      <3>1. ASSUME NEW t \in Names  PROVE \E i \in 1 .. L + 1 : src[i] = t
        BY <1>6, <1>8
      <3>. QED  BY <1>8, <3>1 DEF Sources
    <2>. QED  BY <2>1, <2>2, <2>3, Bijections
  <1>10. ASSUME NEW i \in 1 .. L + 1
         PROVE  Labelled(groups[i], FamiliesOf(src[i]), LabelOf(src[i]))
    <2>1. CASE i = L + 1
      BY <1>3, <1>8, <2>1, MetricLabels DEF FamiliesOf, LabelOf
    <2>2. CASE i \in 1 .. L
      <3>1. PICK t : t = owner[i]
        OBVIOUS
      <3>2. src[i] = t /\ t \in Names /\ t # NoTarget /\ groups[i] = NewMetrics(t)
        BY <1>6, <1>8, <2>2, <3>1, TargetNames
      <3>3. CASE outcome[t] = "ok"
        BY <3>2, <3>3, MetricLabels DEF FamiliesOf, LabelOf, NewMetrics
      <3>4. CASE outcome[t] # "ok"
        BY <3>2, <3>4, ErrorLabels DEF FamiliesOf, LabelOf, NewMetrics
      <3>. QED  BY <3>3, <3>4
    <2>. QED  BY <1>8, <2>1, <2>2
  <1>. QED  BY <1>2, <1>3, <1>9, <1>10 DEF Gathered

\* A call without an error answers each metric once, under where it is from.
LEMMA GatherImplies == Good => GatherExact
  <1>. SUFFICES ASSUME Good, fetchPc = "answered", NEW n
                PROVE  Exactly(n)
    BY DEF GatherExact
  <1>1. PICK groups, src :
           /\ Gathered = CleanDuplicate(groups)
           /\ src \in Bijection(1 .. Len(groups), Sources)
           /\ \A i \in 1 .. Len(groups) :
                 Labelled(groups[i], FamiliesOf(src[i]), LabelOf(src[i]))
    BY GroupSources
  <1>2. PICK I : I = 1 .. Len(groups)
    OBVIOUS
  <1>3. /\ \A i \in I : src[i] \in Sources
        /\ \A i, j \in I : src[i] = src[j] => i = j
        /\ \A t \in Sources : \E i \in I : src[i] = t
    BY <1>1, <1>2, Bijections
  <1>4. ASSUME NEW i \in I
        PROVE  /\ DOMAIN Lists(groups[i], n) = DOMAIN Lists(FamiliesOf(src[i]), n)
               /\ \A k \in DOMAIN Lists(groups[i], n) :
                     /\ n \in DOMAIN groups[i]
                     /\ groups[i][n][k].target = LabelOf(src[i])
                     /\ Stripped(groups[i][n][k]) = Stripped(FamiliesOf(src[i])[n][k])
    BY <1>1, <1>2, <1>4 DEF Labelled
  <1>5. /\ DOMAIN Lists(Gathered, n) = Places(groups, n)
        /\ \A p \in Places(groups, n) : Gathered[n][p] = groups[p[1]][n][p[2]]
    <2>1. HasPlaces(groups, n)
      BY <1>2, <1>4 DEF HasPlaces
    <2>2. /\ DOMAIN Lists(CleanDuplicate(groups), n) = Places(groups, n)
          /\ \A p \in Places(groups, n) : CleanDuplicate(groups)[n][p] = groups[p[1]][n][p[2]]
      BY <2>1, MergedFamily
    <2>. QED  BY <1>1, <2>2
  <1>6. PICK P : P = Places(groups, n)
    OBVIOUS
  <1>7. \A p : p \in P <=> \E i \in I : \E k \in DOMAIN Lists(groups[i], n) : p = <<i, k>>
    BY <1>2, <1>6, PlaceOf
  <1>8. PICK from : from = [p \in P |-> <<src[p[1]], p[2]>>]
    OBVIOUS
  <1>9. ASSUME NEW i \in I, NEW k \in DOMAIN Lists(groups[i], n)
        PROVE  <<i, k>> \in P /\ from[<<i, k>>] = <<src[i], k>>
    BY <1>7, <1>8
  <1>10. from \in Bijection(P, MetricsNamed(n))
    <2>1. from \in [P -> MetricsNamed(n)]
      <3>1. ASSUME NEW p \in P  PROVE from[p] \in MetricsNamed(n)
        <4>1. PICK i, k : i \in I /\ k \in DOMAIN Lists(groups[i], n) /\ p = <<i, k>>
          BY <1>7
        <4>. QED  BY <4>1, <1>3, <1>4, <1>9, MetricOf
      <3>. QED  BY <1>8, <3>1
    <2>2. ASSUME NEW p \in P, NEW q \in P, from[p] = from[q]  PROVE p = q
      <3>1. PICK i, k : i \in I /\ k \in DOMAIN Lists(groups[i], n) /\ p = <<i, k>>
        BY <1>7
      <3>2. PICK j, m : j \in I /\ m \in DOMAIN Lists(groups[j], n) /\ q = <<j, m>>
        BY <1>7
      <3>3. <<src[i], k>> = <<src[j], m>>
        BY <2>2, <3>1, <3>2, <1>9
      <3>. QED  BY <3>1, <3>2, <3>3, <1>3
    <2>3. ASSUME NEW x \in MetricsNamed(n)  PROVE \E p \in P : from[p] = x
      <3>1. PICK t, k : t \in Sources /\ k \in DOMAIN Lists(FamiliesOf(t), n) /\ x = <<t, k>>
        BY MetricOf
      <3>2. PICK i \in I : src[i] = t
        BY <1>3, <3>1
      <3>3. k \in DOMAIN Lists(groups[i], n)
        BY <3>1, <3>2, <1>4
      <3>. QED  BY <3>1, <3>2, <3>3, <1>9
    <2>. QED  BY <2>1, <2>2, <2>3, Bijections
  <1>11. ASSUME NEW p \in P
         PROVE  /\ Gathered[n][p].target = LabelOf(from[p][1])
                /\ Stripped(Gathered[n][p]) = Stripped(FamiliesOf(from[p][1])[n][from[p][2]])
    <2>1. PICK i, k : i \in I /\ k \in DOMAIN Lists(groups[i], n) /\ p = <<i, k>>
      BY <1>7
    <2>2. Gathered[n][p] = groups[i][n][k]
      BY <1>5, <1>6, <2>1
    <2>3. from[p][1] = src[i] /\ from[p][2] = k
      BY <1>9, <2>1
    <2>. QED  BY <1>4, <2>1, <2>2, <2>3
  <1>12. DOMAIN from = P
    BY <1>8
  <1>. QED  BY <1>5, <1>6, <1>10, <1>11, <1>12 DEF Exactly

-----------------------------------------------------------------------------
\* No goroutine ends while the call waits: the channel is open.
LEMMA FetchersRunKept == FetchTypeOK /\ FetchersRun /\ [FetchNext]_fetchVars => FetchersRun'
  <1>. SUFFICES ASSUME FetchTypeOK, FetchersRun, [FetchNext]_fetchVars, fetchPc' = "wait"
                PROVE  \A v \in Fetchers : fetcher'[v] # "gone"
    BY DEF FetchersRun
  <1>. USE DEF FetchTypeOK, FetchersRun
  <1>1. CASE FetchBegin
    BY <1>1 DEF FetchBegin
  <1>2. ASSUME NEW w \in Fetchers, FetchStep(w)
        PROVE  fetcher' \in {[fetcher EXCEPT ![w] = s] : s \in {"idle", "scrape", "write", "done"}}
               /\ fetchPc' = fetchPc
    <2>1. ~ FetcherEnds(w)
      BY DEF FetcherEnds, JobsClosed
    <2>. QED  BY <1>2, <2>1 DEF FetchStep, TakeJob, Scrape, Write, JobDone
  <1>3. CASE \E w \in Fetchers : FetchStep(w)
    BY <1>2, <1>3
  <1>4. CASE UNCHANGED fetchVars
    BY <1>4 DEF fetchVars
  <1>. QED  BY <1>1, <1>3, <1>4 DEF FetchNext, FetchReturn, FetchEnd

\* A call under way has a step open, and one that is over leaves goroutines that
\* can end: the counter of the wait group is that of the targets not done.
LEMMA GatherNeverStuck ==
    Good /\ FetchersRun => (fetchPc # "idle" => GatherCanStep) /\ FetchersCanEnd
  <1>. SUFFICES ASSUME Good, FetchersRun PROVE (fetchPc # "idle" => GatherCanStep) /\ FetchersCanEnd
    OBVIOUS
  <1>1. /\ Len(jobs) \in Nat /\ wg = Len(jobs) + Cardinality(Taken) /\ Cardinality(Taken) \in Nat
        /\ Len(jobs) = 0 => jobs = <<>>
    BY HoldersFinite, LenProperties, EmptySeq DEF Good, FetchInv, CountersOK, FetchTypeOK
  <1>2. wg = 0 => Taken = {} /\ jobs = <<>>
    BY <1>1, HoldersFinite, FS_EmptySet
  <1>3. fetchPc # "wait" => wg = 0
    BY DEF Good, FetchInv, CountersOK
  <1>4. \A w \in Fetchers : w \notin Taken => fetcher[w] \in {"gone", "idle"}
    BY DEF Taken, Pending, Good, FetchTypeOK
  <1>5. FetchersCanEnd
    BY <1>2, <1>3, <1>4 DEF FetchersCanEnd, JobsClosed
  <1>6. ASSUME fetchPc # "idle" PROVE GatherCanStep
    <2>1. CASE fetchPc \in {"answered", "failed"} \/ wg = 0
      BY <1>6, <2>1 DEF GatherCanStep, AllDone, Good, FetchTypeOK
    <2>2. CASE fetchPc = "wait" /\ wg # 0
      <3>1. CASE Taken # {}
        BY <3>1 DEF Taken, Pending, GatherCanStep, FetcherCanStep
      <3>2. CASE Taken = {}
        <4>1. jobs # <<>>
          BY <1>1, <2>2, <3>2, FS_EmptySet, EmptySeq
        <4>2. 1 \in Fetchers
          BY FetchAssumption DEF Fetchers
        <4>3. fetcher[1] = "idle"
          BY <1>4, <2>2, <3>2, <4>2 DEF FetchersRun
        <4>. QED  BY <4>1, <4>2, <4>3 DEF GatherCanStep, FetcherCanStep
      <3>. QED  BY <3>1, <3>2
    <2>. QED  BY <1>6, <2>1, <2>2 DEF Good, FetchTypeOK
  <1>. QED  BY <1>5, <1>6

\* Only FetchBegin and FetchEnd take a call out of and back to idle.
LEMMA GatherKept ==
    FetchReturn \/ (\E w \in Fetchers : FetchStep(w)) => (fetchPc' = "idle" <=> fetchPc = "idle")
  BY DEF FetchReturn, FetchStep, TakeJob, Scrape, Write, JobDone, FetcherEnds
=============================================================================
