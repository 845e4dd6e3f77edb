---------------------------- MODULE Application ----------------------------
(***************************************************************************)
(* App.Run: one process of GSLoC from its start to its exit.  It starts the *)
(* retriever and, depending on two flags, the DNS and the HTTP servers;     *)
(* on a signal it cancels their context and waits for them, but no longer   *)
(* than a second signal or ten minutes.  Requests are served meanwhile: a   *)
(* scrape of /metrics is a call of Fetcher, one of /metrics/status a call   *)
(* of EntriesStatus; other requests have no steps of their own.             *)
(***************************************************************************)
EXTENDS EntriesStatus, Fetcher

CONSTANT Scenarios   \* flags of the process, and bounds of what it meets

ASSUME ScenariosAssumption ==
    Scenarios \subseteq
        [onlyServeDns : BOOLEAN, noServeDns : BOOLEAN, listenLocal : BOOLEAN,
         signals : Nat, disturbances : Nat, requests : Nat,
         kinds : SUBSET {"query", "check", "metrics", "status"}]

VARIABLES
    scenario,   \* which scenario this is
    signals, requests,   \* bounds: signals and requests still to come
    main,       \* where Run is
    sig,        \* signals in the channel, of capacity 1
    waiter,     \* the goroutine that waits for the others
    ending,     \* how the process came to its end
    retriever, dnsServer, httpServer, localStop,   \* where these goroutines are
    listener,   \* state of each listening server
    inflight,   \* requests each is answering
    notStopped  \* servers whose shutdown returned an error

run   == <<main, sig, waiter, ending>>
goroutines == <<retriever, dnsServer, httpServer, localStop>>
serving == <<listener, inflight, notStopped, requests>>
vars == <<statusVars, fetchVars, scenario, signals, run, goroutines, serving>>

scrapes == <<statusVars, fetchVars>>
fixed == <<scenario, signals>>

DnsServers == {"udp", "tcp"}
Servers == DnsServers \union {"tls", "local"}
Kinds(s) == IF s \in DnsServers THEN {"query"} ELSE {"check", "metrics", "status"}

\* Run starts the goroutines at once; the listeners start in goroutines of
\* their own, the retriever with polls that do not look at the context.
Init ==
    /\ StatusInit /\ FetchInit
    /\ scenario \in Scenarios
    /\ signals = scenario.signals /\ requests = scenario.requests
    /\ disturbances = scenario.disturbances
    /\ main = "start" /\ sig = 0 /\ waiter = "none" /\ ending = {}
    /\ retriever = "boot"
    /\ dnsServer = IF scenario.noServeDns THEN "none" ELSE "udp"
    /\ httpServer = IF scenario.onlyServeDns THEN "none" ELSE "run"
    /\ localStop = "none"
    /\ listener = [s \in Servers |->
          IF \/ s \in DnsServers /\ ~scenario.noServeDns
             \/ s = "tls" /\ ~scenario.onlyServeDns
             \/ s = "local" /\ ~scenario.onlyServeDns /\ scenario.listenLocal
          THEN "starting" ELSE "none"]
    /\ inflight = [s \in Servers |-> {}]
    /\ notStopped = {}

Ends(how) == main' = "exited" /\ ending' = ending \union {how}

-----------------------------------------------------------------------------
(* Run *)

\* Mutant: every signal finds room in the channel.
SignalQueued == sig' = sig + 1
SignalSent == sig' = 1

\* signal.Notify does not wait for room; before it is called a signal kills.
Signal ==
    /\ signals > 0
    /\ signals' = signals - 1
    /\ \/ main = "start" /\ Ends("killed") /\ UNCHANGED sig
       \/ main # "start" /\ SignalSent /\ UNCHANGED <<main, ending>>
    /\ UNCHANGED <<scrapes, scenario, waiter, goroutines, serving>>

Notify ==
    /\ main = "start"
    /\ main' = "serve"
    /\ UNCHANGED <<scrapes, fixed, sig, waiter, ending, goroutines, serving>>

\* The context is cancelled, and a goroutine waits for the others.
Cancel ==
    /\ main = "serve"
    /\ sig = 1
    /\ sig' = 0
    /\ main' = "select"
    /\ waiter' = "wait"
    /\ UNCHANGED <<scrapes, fixed, ending, goroutines, serving>>

Cancelled == main \in {"select", "closing"}

\* The three ways out of select.
Graceful ==
    /\ main = "select"
    /\ waiter = "send"
    /\ waiter' = "done"
    /\ main' = "closing"
    /\ ending' = ending \union {"graceful"}
    /\ UNCHANGED <<scrapes, fixed, sig, goroutines, serving>>

SecondSignal ==
    /\ main = "select"
    /\ sig = 1
    /\ sig' = 0
    /\ main' = "closing"
    /\ ending' = ending \union {"forced"}
    /\ UNCHANGED <<scrapes, fixed, waiter, goroutines, serving>>

\* Ten minutes are more than what all servers may take to stop: by then only
\* the retriever, in its first polls, can be what is waited for.
ServersDone == dnsServer \in {"none", "done"} /\ httpServer \in {"none", "done"}
\* Mutant: there is no ticker.
NoTicker == FALSE
TenMinutes == ServersDone /\ retriever = "boot"

Timeout ==
    /\ main = "select"
    /\ TenMinutes
    /\ main' = "closing"
    /\ ending' = ending \union {"timeout"}
    /\ UNCHANGED <<scrapes, fixed, sig, waiter, goroutines, serving>>

\* Run has returned, and with it main.
Exit ==
    /\ main = "closing"
    /\ Ends("returned")
    /\ UNCHANGED <<scrapes, fixed, sig, waiter, goroutines, serving>>

\* wg.Wait, for the goroutines there are; the send waits for select.
WaiterWaits ==
    /\ waiter = "wait"
    /\ ServersDone /\ retriever = "done"
    /\ waiter' = "send"
    /\ UNCHANGED <<scrapes, fixed, main, sig, ending, goroutines, serving>>

\* Mutant: the channel is closed before select, not by a deferred call.
ClosedEarly == Cancelled
ChannelClosed == main = "closing"

\* Sending on a closed channel panics.
WaiterPanics ==
    /\ waiter = "send"
    /\ ChannelClosed
    /\ Ends("panic")
    /\ UNCHANGED <<scrapes, fixed, sig, waiter, goroutines, serving>>

-----------------------------------------------------------------------------
(* Retriever.Run *)

\* The first polls are over: nothing says that Consul answers.
RetrieverBoots ==
    /\ retriever = "boot"
    /\ retriever' = "loops"
    /\ UNCHANGED <<scrapes, fixed, run, dnsServer, httpServer, localStop, serving>>

RetrieverStops ==
    /\ retriever = "loops"
    /\ Cancelled
    /\ retriever' = "done"
    /\ UNCHANGED <<scrapes, fixed, run, dnsServer, httpServer, localStop, serving>>

-----------------------------------------------------------------------------
(* Servers *)

Listen(s) ==
    /\ listener[s] = "starting"
    /\ listener' = [listener EXCEPT ![s] = "listening"]
    /\ UNCHANGED <<scrapes, fixed, run, goroutines, inflight, notStopped, requests>>

\* log.Fatalf
ListenFails(s) ==
    /\ listener[s] = "starting"
    /\ Ends("fatal")
    /\ UNCHANGED <<scrapes, fixed, sig, waiter, goroutines, serving>>

Accept(s, k) ==
    /\ listener[s] = "listening"
    /\ k \in (Kinds(s) \intersect scenario.kinds) \ inflight[s]
    /\ requests > 0
    /\ requests' = requests - 1
    /\ inflight' = [inflight EXCEPT ![s] = @ \union {k}]
    /\ IF k = "metrics" THEN FetchBegin ELSE UNCHANGED fetchVars
    /\ IF k = "status" THEN StatusBegin ELSE UNCHANGED statusVars
    /\ UNCHANGED <<fixed, run, goroutines, listener, notStopped>>

Reply(s, k) ==
    /\ k \in inflight[s]
    /\ inflight' = [inflight EXCEPT ![s] = @ \ {k}]
    /\ IF k = "metrics" THEN FetchEnd ELSE UNCHANGED fetchVars
    /\ IF k = "status" THEN StatusEnd ELSE UNCHANGED statusVars
    /\ UNCHANGED <<fixed, run, goroutines, listener, notStopped, requests>>

\* Shutdown stops listening and waits for the requests in flight, ...
Closes(s) == listener' = [listener EXCEPT ![s] = "stopping"]

\* ... until there are none or five seconds are over.
IsStopped(s) ==
    /\ listener[s] = "stopping"
    /\ listener' = [listener EXCEPT ![s] = "closed"]
    /\ \/ inflight[s] = {} /\ UNCHANGED notStopped
       \/ inflight[s] # {} /\ notStopped' = notStopped \union {s}

\* DNSServer.Run stops udp and then tcp.  The shutdown of a server that has not
\* started is an error, and that server may start afterwards.
After(s) == IF s = "udp" THEN "tcp" ELSE "done"

DnsShutdown(s) ==
    /\ dnsServer = s
    /\ Cancelled
    /\ \/ /\ listener[s] = "listening"
          /\ Closes(s)
          /\ UNCHANGED <<dnsServer, notStopped>>
       \/ /\ listener[s] = "starting"
          /\ dnsServer' = After(s)
          /\ notStopped' = notStopped \union {s}
          /\ UNCHANGED listener
    /\ UNCHANGED <<scrapes, fixed, run, retriever, httpServer, localStop, inflight, requests>>

DnsStopped(s) ==
    /\ dnsServer = s
    /\ IsStopped(s)
    /\ dnsServer' = After(s)
    /\ UNCHANGED <<scrapes, fixed, run, retriever, httpServer, localStop, inflight, requests>>

\* HTTPServer.Run stops the local server in a goroutine of its own, and the TLS
\* server itself; one that was still to start will not.
HttpShutdown ==
    /\ httpServer = "run"
    /\ Cancelled
    /\ listener["tls"] \in {"starting", "listening"}
    /\ Closes("tls")
    /\ localStop' = IF scenario.listenLocal THEN "spawned" ELSE "none"
    /\ UNCHANGED <<scrapes, fixed, run, retriever, dnsServer, httpServer, inflight,
                   notStopped, requests>>

\* Mutant: the TLS server is not waited for either.
TlsNotAwaited ==
    /\ httpServer = "run"
    /\ listener["tls"] = "stopping"
    /\ listener' = [listener EXCEPT !["tls"] = "closed"]
    /\ httpServer' = "done"
    /\ UNCHANGED <<scrapes, fixed, run, retriever, dnsServer, localStop, inflight, notStopped, requests>>

HttpStopped ==
    /\ httpServer = "run"
    /\ IsStopped("tls")
    /\ httpServer' = "done"
    /\ UNCHANGED <<scrapes, fixed, run, retriever, dnsServer, localStop, inflight, requests>>

\* What becomes of the requests in flight is logged and nothing else.
LocalShutdown ==
    /\ localStop = "spawned"
    /\ localStop' = "done"
    /\ listener' = [listener EXCEPT !["local"] = "closed"]
    /\ UNCHANGED <<scrapes, fixed, run, retriever, dnsServer, httpServer, inflight,
                   notStopped, requests>>

-----------------------------------------------------------------------------
Main == Notify \/ Cancel \/ Graceful \/ SecondSignal \/ Timeout \/ Exit
Dns(s) == DnsShutdown(s) \/ DnsStopped(s)
Http == HttpShutdown \/ HttpStopped \/ LocalShutdown
Stopping == \/ Main \/ WaiterWaits \/ WaiterPanics \/ RetrieverStops
            \/ Http \/ \E s \in DnsServers : Dns(s)

Fetching == (FetchReturn \/ \E w \in Fetchers : FetchStep(w)) /\ UNCHANGED statusVars
Reading == StatusStep /\ UNCHANGED fetchVars
Scraping ==
    \/ (Fetching \/ Reading) /\ UNCHANGED <<fixed, run, goroutines, serving>>
    \/ \E s \in Servers : \E k \in {"metrics", "status"} : Reply(s, k)

Consul == ConsulStep /\ UNCHANGED <<fetchVars, fixed, run, goroutines, serving>>

\* Nothing happens in a process that has exited.
Alive == main # "exited"
Next ==
    /\ Alive
    /\ \/ Stopping \/ Scraping \/ Signal \/ RetrieverBoots \/ Consul
       \/ \E s \in Servers : Listen(s) \/ ListenFails(s)
       \/ \E s \in Servers : \E k \in Kinds(s) : Accept(s, k) \/ Reply(s, k)

Spec == Init /\ [][Next]_vars

(* Goroutines run and timers fire, and the requests of a scrape end, well   *)
(* or not.  The retriever's first polls and other requests need never end,  *)
(* listeners never start, and nobody need send a signal.                    *)
Fairness == WF_vars(Alive /\ Stopping) /\ WF_vars(Alive /\ Scraping)

FairSpec == Spec /\ Fairness
-----------------------------------------------------------------------------
(* Properties *)

RunTypeOK ==
    /\ scenario \in Scenarios /\ signals \in Nat /\ requests \in Nat
    /\ main \in {"start", "serve", "select", "closing", "exited"}
    /\ sig \in 0 .. 1
    /\ waiter \in {"none", "wait", "send", "done"}
    /\ ending \subseteq {"killed", "fatal", "graceful", "forced", "timeout", "returned", "panic"}
    /\ retriever \in {"boot", "loops", "done"}
    /\ dnsServer \in {"none", "udp", "tcp", "done"}
    /\ httpServer \in {"none", "run", "done"}
    /\ localStop \in {"none", "spawned", "done"}
    /\ listener \in [Servers -> {"none", "starting", "listening", "stopping", "closed"}]
    /\ inflight \in [Servers -> SUBSET {"query", "check", "metrics", "status"}]
    /\ \A s \in Servers : inflight[s] \subseteq Kinds(s)
    /\ notStopped \subseteq Servers

\* Every variable has its type.
TypeOK == StatusTypeOK /\ FetchTypeOK /\ RunTypeOK

\* When Run reports that all servers stopped gracefully, each one it waits for
\* takes no request and has answered all it took, unless its shutdown returned
\* an error that was logged.  The local server is not among them.
GracefulStop ==
    "graceful" \in ending =>
        \A s \in (DnsServers \union {"tls"}) \ notStopped :
            listener[s] # "listening" /\ inflight[s] = {}

\* The process panics on the closed channel only when a second signal or the
\* ten minutes made Run return before the servers had stopped.
PanicOnlyAfterForcedStop == "panic" \in ending => ending \intersect {"forced", "timeout"} # {}

\* The inductive invariant behind both: a goroutine that is over has stopped its
\* servers, and Run closes the channel with the waiter served or for a reason.
Stopped(s) == s \in notStopped \/ (listener[s] = "closed" /\ inflight[s] = {})
RunInv ==
    /\ \A s \in Servers : listener[s] \in {"none", "starting"} => inflight[s] = {}
    /\ dnsServer = "none" => \A s \in DnsServers : listener[s] = "none"
    /\ dnsServer \in {"tcp", "done"} => Stopped("udp")
    /\ dnsServer = "done" => Stopped("tcp")
    /\ httpServer = "none" => listener["tls"] = "none"
    /\ httpServer = "done" => Stopped("tls")
    /\ waiter \in {"send", "done"} => ServersDone
    /\ "graceful" \in ending => waiter = "done"
    /\ main \in {"start", "serve"} => waiter = "none"
    /\ main = "closing" => waiter = "done" \/ ending \intersect {"forced", "timeout"} # {}

\* A request for metrics or statuses never gets stuck: while it is in flight some
\* step of its fan-out is open, however many goroutines and entries there are and
\* however small the channel, and it leaves no goroutine that cannot end.
NoScrapeStuck ==
    /\ \A s \in Servers : "status" \in inflight[s] => ListCanStep
    /\ \A s \in Servers : "metrics" \in inflight[s] => GatherCanStep
    /\ FetchersCanEnd

\* The inductive invariant behind it, with those of the fan-outs: a call is under
\* way exactly while one server has its request in flight.
CallsInv ==
    /\ \A s, t \in Servers : inflight[s] \intersect inflight[t] \intersect {"metrics", "status"} # {} => s = t
    /\ statusPc # "idle" <=> \E s \in Servers : "status" \in inflight[s]
    /\ fetchPc # "idle" <=> \E s \in Servers : "metrics" \in inflight[s]

\* What is proved about all of it.
Inv == TypeOK /\ StatusInv /\ ScrapeInv /\ FetchInv /\ FetchersRun /\ RunInv /\ CallsInv

\* A signal ends the process, even if Consul never answers the retriever and
\* requests never end.
RunReturns == sig = 1 ~> main = "exited"

\* A request for metrics or statuses is answered, and the goroutines that
\* scraped for it end, unless the process exits first.
FetchRuns == fetchPc # "idle" \/ \E w \in Fetchers : fetcher[w] # "gone"
ListRuns == statusPc # "idle"
ScrapesEnd ==
    /\ FetchRuns ~> ~FetchRuns \/ main = "exited"
    /\ ListRuns ~> ~ListRuns \/ main = "exited"
=============================================================================
