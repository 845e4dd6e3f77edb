------------------------- MODULE ApplicationProofs -------------------------
(* What Application guarantees for any scenarios, entries, targets, numbers  *)
(* of goroutines and bounds.                                                 *)
EXTENDS Application, EntriesStatusProofs, FetcherProofs

\* A step of the process is one of the two fan-outs or leaves them alone.
LEMMA FanOutSteps == [Next]_vars => [StatusNext]_statusVars /\ [FetchNext]_fetchVars
  <1>. SUFFICES ASSUME [Next]_vars PROVE [StatusNext]_statusVars /\ [FetchNext]_fetchVars
    OBVIOUS
  <1>1. ASSUME NEW s, NEW k, Accept(s, k)
        PROVE  [StatusNext]_statusVars /\ [FetchNext]_fetchVars
    BY <1>1 DEF Accept, StatusNext, FetchNext
  <1>2. ASSUME NEW s, NEW k, Reply(s, k)
        PROVE  [StatusNext]_statusVars /\ [FetchNext]_fetchVars
    BY <1>2 DEF Reply, StatusNext, FetchNext
  <1>3. CASE Fetching \/ Reading \/ Consul
    BY <1>3 DEF Fetching, Reading, Consul, StatusNext, FetchNext
  <1>4. CASE UNCHANGED scrapes
    BY <1>4 DEF scrapes
  <1>5. Stopping \/ Signal \/ RetrieverBoots => UNCHANGED scrapes
    BY DEF Stopping, Main, Http, Dns, Signal, RetrieverBoots, Notify, Cancel, Graceful,
           SecondSignal, Timeout, Exit, WaiterWaits, WaiterPanics, RetrieverStops, HttpShutdown,
           HttpStopped, LocalShutdown, DnsShutdown, DnsStopped
  <1>6. ASSUME NEW s, Listen(s) \/ ListenFails(s) PROVE UNCHANGED scrapes
    BY <1>6 DEF Listen, ListenFails
  <1>7. UNCHANGED vars => UNCHANGED scrapes
    BY DEF vars, scrapes
  <1>. QED
    BY <1>1, <1>2, <1>3, <1>4, <1>5, <1>6, <1>7 DEF Next, Scraping

-----------------------------------------------------------------------------
(* Types *)

\* Steps of Run, of the goroutines it waits for, and signals keep the types.
LEMMA StoppingTypes == RunTypeOK /\ (Stopping \/ Signal \/ RetrieverBoots) => RunTypeOK'
  <1>. SUFFICES ASSUME RunTypeOK, Stopping \/ Signal \/ RetrieverBoots PROVE RunTypeOK'
    OBVIOUS
  <1>. USE DEF RunTypeOK, fixed, run, goroutines, serving
  <1>1. CASE Signal
    <2>1. signals' \in Nat /\ sig' \in 0 .. 1
      BY <1>1 DEF Signal, SignalSent
    <2>2. /\ main' \in {main, "exited"} /\ ending' \in {ending, ending \union {"killed"}}
          /\ UNCHANGED <<scenario, requests, waiter, goroutines, listener, inflight, notStopped>>
      BY <1>1 DEF Signal, Ends
    <2>. QED  BY <2>1, <2>2
  <1>2. CASE Notify
    BY <1>2 DEF Notify
  <1>3. CASE Cancel
    BY <1>3 DEF Cancel
  <1>4. CASE Graceful
    BY <1>4 DEF Graceful
  <1>5. CASE SecondSignal
    BY <1>5 DEF SecondSignal
  <1>6. CASE Timeout
    BY <1>6 DEF Timeout
  <1>7. CASE Exit \/ WaiterPanics
    <2>1. /\ main' = "exited" /\ UNCHANGED <<fixed, sig, waiter, goroutines, serving>>
          /\ ending' = ending \union {"returned"} \/ ending' = ending \union {"panic"}
      BY ONLY <1>7 DEF Exit, WaiterPanics, Ends
    <2>2. ending' \subseteq {"killed", "fatal", "graceful", "forced", "timeout", "returned", "panic"}
      BY <2>1
    <2>. QED  BY <2>1, <2>2
  <1>8. CASE WaiterWaits
    BY <1>8 DEF WaiterWaits
  <1>9. CASE RetrieverBoots \/ RetrieverStops
    <2>1. retriever' \in {"loops", "done"} /\ UNCHANGED <<fixed, run, serving>>
          /\ UNCHANGED <<dnsServer, httpServer, localStop>>
      BY <1>9 DEF RetrieverBoots, RetrieverStops
    <2>. QED  BY <2>1
  <1>10. ASSUME NEW s \in DnsServers, DnsShutdown(s) \/ DnsStopped(s) PROVE RunTypeOK'
    <2>1. s \in Servers /\ After(s) \in {"tcp", "done"}
      BY DEF DnsServers, Servers, After
    <2>2. /\ \/ listener' = listener
             \/ listener' = [listener EXCEPT ![s] = "stopping"]
             \/ listener' = [listener EXCEPT ![s] = "closed"]
          /\ dnsServer' \in {dnsServer, After(s)}
          /\ notStopped' \in {notStopped, notStopped \union {s}}
          /\ UNCHANGED <<fixed, run, retriever, httpServer, localStop, inflight, requests>>
      BY <1>10 DEF DnsShutdown, DnsStopped, IsStopped, Closes
    <2>. QED  BY <2>1, <2>2
  <1>11. CASE HttpShutdown
    BY <1>11 DEF HttpShutdown, Closes, Servers
  <1>12. CASE HttpStopped
    BY <1>12 DEF HttpStopped, IsStopped, Servers
  <1>13. CASE LocalShutdown
    BY <1>13 DEF LocalShutdown, Servers
  <1>. QED
    BY <1>1, <1>2, <1>3, <1>4, <1>5, <1>6, <1>7, <1>8, <1>9, <1>10, <1>11, <1>12, <1>13
       DEF Stopping, Main, Http, Dns

\* So do the others.
LEMMA RunTypes == RunTypeOK /\ [Next]_vars => RunTypeOK'
  <1>. SUFFICES ASSUME RunTypeOK, [Next]_vars PROVE RunTypeOK'
    OBVIOUS
  <1>. USE DEF RunTypeOK, fixed, run, goroutines, serving
  <1>1. ASSUME NEW s \in Servers, Listen(s) PROVE RunTypeOK'
    BY <1>1 DEF Listen
  <1>2. ASSUME NEW s \in Servers, ListenFails(s) PROVE RunTypeOK'
    BY <1>2 DEF ListenFails, Ends
  <1>3. ASSUME NEW s \in Servers, NEW k, Accept(s, k) PROVE RunTypeOK'
    BY <1>3 DEF Accept, Kinds
  <1>4. ASSUME NEW s \in Servers, NEW k, Reply(s, k) PROVE RunTypeOK'
    BY <1>4 DEF Reply
  <1>5. CASE UNCHANGED <<fixed, run, goroutines, serving>>
    BY <1>5
  <1>6. UNCHANGED vars => UNCHANGED <<fixed, run, goroutines, serving>>
    BY DEF vars
  <1>. QED
    BY <1>1, <1>2, <1>3, <1>4, <1>5, <1>6, StoppingTypes DEF Next, Scraping, Consul

\* A process that starts.
LEMMA InitInv == Init => Inv
  <1>. SUFFICES ASSUME Init PROVE Inv
    OBVIOUS
  <1>. USE DEF Init
  <1>1. RunTypeOK
    BY ScenariosAssumption DEF RunTypeOK, Servers, DnsServers, Kinds
  <1>2. StatusTypeOK
    BY StoresAssumption, ChecksAssumption, ScenariosAssumption, EmptySeq
       DEF StatusInit, StatusTypeOK, Statuses
  <1>3. StatusInv /\ ScrapeInv
    <2>1. Sent = <<>> /\ Len(<<>>) = 0
      BY EmptySeq, ConcatEmptySeq DEF StatusInit, Sent
    <2>. QED  BY <2>1 DEF StatusInit, StatusInv, ScrapeInv, TasksOver, ReportOK, Reports
  <1>4. RunInv
    BY DEF RunInv, ServersDone, Stopped, Servers, DnsServers
  <1>5. FetchersRun /\ CallsInv
    BY DEF FetchInit, StatusInit, FetchersRun, CallsInv
  <1>. QED  BY <1>1, <1>2, <1>3, <1>4, <1>5, FetchInitGood DEF Inv, TypeOK, Good

-----------------------------------------------------------------------------
(* Stopping *)

\* Steps of the servers keep RunInv: one that is stopped stays so, and a
\* goroutine is over once the servers it stops are.
LEMMA ServersInductive ==
    ASSUME RunTypeOK, RunInv,
           Http \/ \E s \in DnsServers : Dns(s)
    PROVE  RunInv'
  <1>. USE DEF RunTypeOK, RunInv, Stopped, Servers, DnsServers, ServersDone, run
  <1>1. ASSUME NEW s \in DnsServers, DnsShutdown(s) PROVE RunInv'
    BY <1>1 DEF DnsShutdown, Closes, After
  <1>2. ASSUME NEW s \in DnsServers, DnsStopped(s) PROVE RunInv'
    BY <1>2 DEF DnsStopped, IsStopped, After
  <1>3. CASE HttpShutdown
    BY <1>3 DEF HttpShutdown, Closes
  <1>4. CASE HttpStopped
    BY <1>4 DEF HttpStopped, IsStopped
  <1>5. CASE LocalShutdown
    BY <1>5 DEF LocalShutdown
  <1>. QED  BY <1>1, <1>2, <1>3, <1>4, <1>5 DEF Http, Dns

\* RunInv is inductive.
LEMMA RunInductive == RunTypeOK /\ RunInv /\ [Next]_vars => RunInv'
  <1>. SUFFICES ASSUME RunTypeOK, RunInv, [Next]_vars PROVE RunInv'
    OBVIOUS
  <1>. USE DEF RunInv, Stopped, ServersDone, run, goroutines, serving
  <1>1. CASE Http \/ \E s \in DnsServers : Dns(s)
    BY <1>1, ServersInductive
  <1>2. CASE Signal
    BY <1>2 DEF Signal, SignalSent, Ends, RunTypeOK
  <1>3. CASE Notify \/ Cancel \/ RetrieverBoots \/ RetrieverStops
    BY <1>3 DEF Notify, Cancel, RetrieverBoots, RetrieverStops, RunTypeOK
  <1>4. CASE Graceful \/ SecondSignal \/ Timeout
    BY <1>4 DEF Graceful, SecondSignal, Timeout, RunTypeOK
  <1>5. CASE Exit \/ WaiterPanics
    BY <1>5 DEF Exit, WaiterPanics, Ends, RunTypeOK
  <1>6. CASE WaiterWaits
    BY <1>6 DEF WaiterWaits, RunTypeOK
  <1>7. ASSUME NEW s \in Servers, Listen(s) PROVE RunInv'
    BY <1>7 DEF Listen, RunTypeOK, Servers, DnsServers
  <1>8. ASSUME NEW s \in Servers, ListenFails(s) PROVE RunInv'
    BY <1>8 DEF ListenFails, Ends, RunTypeOK
  <1>9. ASSUME NEW s \in Servers, NEW k, Accept(s, k) PROVE RunInv'
    BY <1>9 DEF Accept, RunTypeOK, Servers, DnsServers
  <1>10. ASSUME NEW s \in Servers, NEW k, Reply(s, k) PROVE RunInv'
    BY <1>10 DEF Reply, RunTypeOK, Servers, DnsServers
  <1>11. CASE UNCHANGED <<run, goroutines, serving>>
    BY <1>11
  <1>12. UNCHANGED vars => UNCHANGED <<run, goroutines, serving>>
    BY DEF vars
  <1>. QED
    BY <1>1, <1>2, <1>3, <1>4, <1>5, <1>6, <1>7, <1>8, <1>9, <1>10, <1>11, <1>12
       DEF Next, Stopping, Main, Scraping, Consul

\* Run closes the channel under a waiter that waits only when it was forced to.
LEMMA PanicInductive ==
    /\ RunInv /\ PanicOnlyAfterForcedStop /\ [Next]_vars => PanicOnlyAfterForcedStop'
    /\ Init => PanicOnlyAfterForcedStop
  <1>1. Init => PanicOnlyAfterForcedStop
    BY DEF Init, PanicOnlyAfterForcedStop
  <1>. SUFFICES ASSUME RunInv, PanicOnlyAfterForcedStop, [Next]_vars
                PROVE  PanicOnlyAfterForcedStop'
    BY <1>1
  <1>. USE DEF PanicOnlyAfterForcedStop
  <1>2. CASE WaiterPanics
    BY <1>2 DEF WaiterPanics, ChannelClosed, Ends, RunInv
  <1>3. CASE ending' = ending
    BY <1>3
  <1>4. CASE \E how \in {"killed", "fatal", "returned", "graceful", "forced", "timeout"} :
                ending' = ending \union {how}
    BY <1>4
  <1>. QED
    BY <1>2, <1>3, <1>4
       DEF Next, Stopping, Main, Scraping, Consul, Dns, Http, vars, run, Signal, Notify, Cancel,
           Graceful, SecondSignal, Timeout, Exit, WaiterWaits, RetrieverBoots, RetrieverStops,
           Listen, ListenFails, Accept, Reply, Ends, DnsShutdown, DnsStopped, HttpShutdown,
           HttpStopped, LocalShutdown

-----------------------------------------------------------------------------
(* Requests and the calls they make *)

\* A call begins with a request and ends with its answer.
LEMMA CallsInductive == RunTypeOK /\ CallsInv /\ [Next]_vars => CallsInv'
  <1>. SUFFICES ASSUME RunTypeOK, CallsInv, [Next]_vars PROVE CallsInv'
    OBVIOUS
  <1>. USE DEF CallsInv
  <1>1. ASSUME UNCHANGED inflight, fetchPc' = "idle" <=> fetchPc = "idle",
               statusPc' = "idle" <=> statusPc = "idle"
        PROVE  CallsInv'
    BY <1>1
  <1>2. ASSUME NEW s \in Servers, NEW k \in Kinds(s), Accept(s, k) PROVE CallsInv'
    <2>1. /\ inflight' = [inflight EXCEPT ![s] = @ \union {k}]
          /\ IF k = "metrics" THEN fetchPc = "idle" /\ fetchPc' = "wait" ELSE fetchPc' = fetchPc
          /\ IF k = "status" THEN statusPc = "idle" /\ statusPc' = "list" ELSE statusPc' = statusPc
      BY <1>2 DEF Accept, FetchBegin, StatusBegin, fetchVars, statusVars, call
    <2>2. \A t \in Servers : inflight'[t] = IF t = s THEN inflight[s] \union {k} ELSE inflight[t]
      BY <2>1 DEF RunTypeOK
    <2>3. k = "metrics" => \A t \in Servers : "metrics" \notin inflight[t]
      BY <2>1
    <2>4. k = "status" => \A t \in Servers : "status" \notin inflight[t]
      BY <2>1
    <2>5. \A t, u \in Servers :
             inflight'[t] \intersect inflight'[u] \intersect {"metrics", "status"} # {} => t = u
      BY <2>2, <2>3, <2>4
    <2>6. statusPc' # "idle" <=> \E t \in Servers : "status" \in inflight'[t]
      BY <2>1, <2>2
    <2>7. fetchPc' # "idle" <=> \E t \in Servers : "metrics" \in inflight'[t]
      BY <2>1, <2>2
    <2>. QED  BY <2>5, <2>6, <2>7
  <1>3. ASSUME NEW s \in Servers, NEW k, Reply(s, k) PROVE CallsInv'
    <2>1. /\ inflight' = [inflight EXCEPT ![s] = @ \ {k}] /\ k \in inflight[s]
          /\ IF k = "metrics" THEN fetchPc' = "idle" ELSE fetchPc' = fetchPc
          /\ IF k = "status" THEN statusPc' = "idle" ELSE statusPc' = statusPc
      BY <1>3 DEF Reply, FetchEnd, StatusEnd, fetchVars, statusVars, call
    <2>2. \A t \in Servers : inflight'[t] = IF t = s THEN inflight[s] \ {k} ELSE inflight[t]
      BY <2>1 DEF RunTypeOK
    <2>3. k \in {"metrics", "status"} => \A t \in Servers : k \in inflight[t] => t = s
      BY <2>1
    <2>4. \A t, u \in Servers :
             inflight'[t] \intersect inflight'[u] \intersect {"metrics", "status"} # {} => t = u
      BY <2>2
    <2>5. statusPc' # "idle" <=> \E t \in Servers : "status" \in inflight'[t]
      BY <2>1, <2>2, <2>3
    <2>6. fetchPc' # "idle" <=> \E t \in Servers : "metrics" \in inflight'[t]
      BY <2>1, <2>2, <2>3
    <2>. QED  BY <2>4, <2>5, <2>6
  <1>4. CASE (Fetching \/ Reading) /\ UNCHANGED <<fixed, run, goroutines, serving>>
    <2>1. UNCHANGED inflight
      BY <1>4 DEF serving
    <2>2. Fetching => UNCHANGED statusPc /\ (fetchPc' = "idle" <=> fetchPc = "idle")
      BY GatherKept DEF Fetching, statusVars, call
    <2>3. Reading => UNCHANGED fetchPc /\ (statusPc' = "idle" <=> statusPc = "idle")
      BY CallKept DEF Reading, fetchVars
    <2>. QED  BY <1>1, <1>4, <2>1, <2>2, <2>3
  <1>5. CASE Consul
    BY <1>1, <1>5, CallKept DEF Consul, serving, fetchVars
  <1>6. CASE UNCHANGED scrapes /\ UNCHANGED inflight
    BY <1>1, <1>6 DEF scrapes, statusVars, call, fetchVars
  <1>7. Stopping \/ Signal \/ RetrieverBoots => UNCHANGED scrapes /\ UNCHANGED inflight
    BY DEF Stopping, Main, Http, Dns, Signal, RetrieverBoots, Notify, Cancel, Graceful,
           SecondSignal, Timeout, Exit, WaiterWaits, WaiterPanics, RetrieverStops, HttpShutdown,
           HttpStopped, LocalShutdown, DnsShutdown, DnsStopped, serving
  <1>8. ASSUME NEW s, Listen(s) \/ ListenFails(s) PROVE UNCHANGED scrapes /\ UNCHANGED inflight
    BY <1>8 DEF Listen, ListenFails, serving
  <1>9. UNCHANGED vars => UNCHANGED scrapes /\ UNCHANGED inflight
    BY DEF vars, scrapes, serving
  <1>. QED
    BY <1>2, <1>3, <1>4, <1>5, <1>6, <1>7, <1>8, <1>9 DEF Next, Scraping

LEMMA CallsInvImplies == Inv => NoScrapeStuck
  BY ListNeverStuck, GatherNeverStuck DEF Inv, TypeOK, Good, CallsInv, NoScrapeStuck

-----------------------------------------------------------------------------
(* Theorems *)

\* Inv holds of every state.
THEOREM Invariant == Spec => []Inv
  <1>1. Inv /\ [Next]_vars => Inv'
    <2>. SUFFICES ASSUME Inv, [Next]_vars PROVE Inv'
      OBVIOUS
    <2>1. [StatusNext]_statusVars /\ [FetchNext]_fetchVars
      BY FanOutSteps
    <2>2. StatusTypeOK' /\ StatusInv' /\ ScrapeInv'
      BY <2>1, StatusTypes, StatusInductive, ScrapeInductive DEF Inv, TypeOK
    <2>3. FetchTypeOK' /\ FetchInv' /\ FetchersRun'
      BY <2>1, FetchGood, FetchersRunKept DEF Inv, TypeOK, Good
    <2>4. RunTypeOK' /\ RunInv' /\ CallsInv'
      BY RunTypes, RunInductive, CallsInductive DEF Inv, TypeOK
    <2>. QED  BY <2>2, <2>3, <2>4 DEF Inv, TypeOK
  <1>. QED  BY <1>1, InitInv, PTL DEF Spec

\* Every variable keeps its type, and the counters of a fan-out their range.
THEOREM TypeCorrect == Spec => []TypeOK
  <1>1. Inv => TypeOK
    BY DEF Inv
  <1>. QED  BY <1>1, Invariant, PTL

\* ListEntriesStatus answers without an error only with all statuses, each once.
THEOREM AllReportedCorrect == Spec => []AllReported
  <1>1. Inv => AllReported
    BY StatusInvImplies DEF Inv, TypeOK
  <1>. QED  BY <1>1, Invariant, PTL

\* An undisturbed scrape exports every member of every entry and no other, with
\* the number of its check.
THEOREM ScrapeExactCorrect == Spec => []ScrapeExact
  <1>1. Inv => ScrapeExact
    BY ScrapeInvImplies DEF Inv, TypeOK
  <1>. QED  BY <1>1, Invariant, PTL

\* Gather answers without an error only if no target refused, and its error is a
\* refusal if and only if there was one.
THEOREM GatherRefusedCorrect == Spec => []GatherRefused
  <1>1. Inv => GatherRefused
    BY FetchInvImplies DEF Inv, TypeOK, Good
  <1>. QED  BY <1>1, Invariant, PTL

\* Gather without an error answers each metric of each source exactly once.
THEOREM GatherExactCorrect == Spec => []GatherExact
  <1>1. Inv => GatherExact
    BY GatherImplies DEF Inv, TypeOK, Good
  <1>. QED  BY <1>1, Invariant, PTL

\* A scrape in flight always has a step open.
THEOREM NoScrapeStuckCorrect == Spec => []NoScrapeStuck
  <1>. QED  BY CallsInvImplies, Invariant, PTL

\* A stop that is reported as graceful was, for the servers that Run waits for.
THEOREM GracefulStopCorrect == Spec => []GracefulStop
  <1>1. Inv => GracefulStop
    BY DEF Inv, TypeOK, RunInv, RunTypeOK, GracefulStop, Stopped, ServersDone, Servers, DnsServers
  <1>. QED  BY <1>1, Invariant, PTL

\* The channel is closed under the waiter only after a forced stop.
THEOREM PanicCorrect == Spec => []PanicOnlyAfterForcedStop
  <1>1. Inv => RunInv
    BY DEF Inv
  <1>. QED  BY <1>1, PanicInductive, Invariant, PTL DEF Spec
=============================================================================
