# A TLA+ model of GSLoC

GSLoC answers DNS queries for names whose addresses ("members") live in several
datacenters. Users describe a name and its members through a gRPC/HTTP API; the
description is kept in Consul's KV store; every GSLoC server follows that store,
registers the members of its own datacenter as Consul services, lets Consul check
them, follows the result in Consul's catalog and answers DNS from it.

This directory holds TLA+ modules translated from the Go code, TLC configurations
that check them on small instances, and proofs, checked by TLAPS, of what holds
for all instances. Paths below are relative to the repository.

## 1. Inventory

How the parts interact:

    users --gRPC--> gslb.Server --KV put/delete/txn--> Consul KV
    Consul KV --poll--> rets.Retriever.pollKV --KV events--> regs.RegKV
        --> disco.ConsulDiscoverer --register/deregister--> Consul agent
                                   --member events--> regs.RegMember --> healthchecks.HcHandler
    Consul --POST /hc/...--> HcHandler (verdict) --> Consul health
    Consul catalog/health --poll--> Retriever.pollCatalog --catalog events--> regs.RegCatalog
        --> resolvers.GSLBHandler (entries, load balancers) <--queries-- DNS clients
    scrapers --GET /metrics/status--> proxmetrics.StatusHandler
        --> disco.GslocConsul.ListEntriesStatus --> Consul
    scrapers --GET /metrics--> proxmetrics.Fetcher --> other metrics endpoints
    app.Run starts the retriever and the DNS and HTTP servers, and stops them

Events go through `observe`, a thin layer over an emitter library that runs
listeners in goroutines of its own: who emits does not wait.

| Component | State | Operations | Hard behaviour | Correct when |
|---|---|---|---|---|
| Retriever (`rets/retriever.go`) | two signature caches, shared by two polling goroutines and their worker pools | `pollKV`, `pollCatalog`, `Run` | interleaved polls, shared `err`, failing requests, restart with empty caches | listeners are told every lasting change, in order, once; nothing is removed that is still listed; DNS follows Consul |
| Event dispatch (`observe`, `regs`) | pending events, registered listeners | `Emit*`, `Observe` | asynchronous delivery | events of one name take effect in order |
| Registration (`disco/consul.go`) | Consul agent's services | `SetKVEntry`, `RemoveKvEntry` | failing requests, members that move or leave | services are those of the stored entry |
| Health check handler (`healthchecks/handler.go`) | `disabledEntIp` | `DisableEntryIp`, `EnableEntryIp`, `ServeHTTP` | checks racing events, state lost by a restart | a disabled member fails its check |
| API (`gslb/*.go`) | none; the KV store | `SetEntry`, `DeleteEntry`, `SetMember`, `DeleteMember`, `SetHealthCheck`, `GetHealthCheck`, `SetMembersStatus` and reads | read-modify-write without comparing, transactions of 64 | what is stored is valid; a call changes what it was asked; a reply without error means it was done |
| Entry reading (`disco/gsloc.go`) | none | `ListEntries`, `RetrieveSignedEntry`, `GetEntryStatus`, `ListEntriesStatus` | bounded pool sending to a bounded channel, errors of some tasks, entries that change during the call | without an error, every listed entry is reported once, and no nil |
| Status metric (`proxmetrics/status.go`) | none | `Collect` | as above | a member's number is that of its own check, and no member is missing |
| Load balancers (`lb`) | counters and weights shared by queries | `Next` of four algorithms | lock-free steps of several goroutines, overflow, zero ratios | index in range, fair shares, termination |
| Geolocation (`geolocs`) | cache by client address | `FindDc` | cached answers reused for other entries | the nearest of the datacenters asked for |
| DNS handler (`resolvers/handler.go`) | `entries` | `Resolve`, `SetCatalogEntry`, `RemoveCatalogEntry` | fallback chain, entry replaced during a query | a query with members is answered |
| Metrics of other servers (`proxmetrics/fetcher.go`, `scrapper.go`) | none | `Gather`, `Scrape` | five goroutines, a shared list and error, one target of several failing | all metrics of all targets, once, with their target; a 4xx is an error, and never hidden by another target |
| Application, servers (`app/app.go`, `servers`) | goroutines and listeners | `Run`, start and shutdown | signals at any time, servers that start late, requests that outlast a shutdown, a Consul that does not answer | a stop that calls itself graceful is; a signal ends the process |
| Configuration (`config`) | none | parsing, once | | |

`PROJECT.json` lists the same components with what is modelled of each, and under
`hazards` the places in the code where these behaviours bite.

## 2. Modules

| Module | Models |
|---|---|
| `EntryFeed` | abstract: what KV listeners are promised |
| `Retriever` | `rets/retriever.go`, deliveries, and Consul as far as it uses it |
| `MCRetriever` | its constants for TLC |
| `RetrieverProofs` | theorems about `Retriever` |
| `Registration` | `disco/consul.go`, `healthchecks/handler.go`, `regs`, on top of `EntryFeed` |
| `RegistrationProofs` | theorems about `Registration` |
| `Serving`, `MCRegistration` | `Registration` composed with the catalog poll and the DNS entries; constants of both |
| `ServingProofs` | theorems about `Serving` |
| `GslbServer`, `MCGslbServer` | `gslb/*.go`, the reads of `disco/gsloc.go` |
| `GslbServerProofs` | theorems about `GslbServer` |
| `GeoLoc` | `geolocs/geoloc.go` |
| `LoadBalancers` | `lb/*.go`; extends `GeoLoc` |
| `Resolver`, `MCResolver` | `resolvers/handler.go`; extends `LoadBalancers` |
| `ResolverProofs` | theorems about `Resolver` and `LoadBalancers` |
| `EntriesStatus` | `ListEntriesStatus` and `GetEntryStatus` of `disco/gsloc.go`, `proxmetrics/status.go` |
| `Fetcher` | `proxmetrics/fetcher.go`, `scrapper.go` |
| `Application`, `MCApplication` | `App.Run`, `servers/*.go`; extends the two modules above |
| `EntriesStatusProofs`, `FetcherProofs`, `ApplicationProofs` | theorems about the three |

`Retriever` is shown to implement `EntryFeed` (`FeedSpec`), and `Registration`
uses nothing of the retriever but `EntryFeed`: together they cover the path from a
written key to a registered service without multiplying their states. `Serving`
closes the circle, from the registered services through Consul's checks and the
catalog poll to the DNS answers.

Some definitions have a sibling marked "Mutant": the same definition with a bug a
programmer might write. They are not part of any specification; substituting one
makes TLC refute the property listed with it in `PROJECT.json`, which shows that
the property depends on that piece of code.

### Retriever

`log[f]` is the history of the KV key of `f`; a stored entry is a position in it,
so "older" and "newer" can be told. `signEntsCached[f]`, `kvPairs[f]` (the listing),
`kvEvents[f]` (pending events) and `known[f]` (last event delivered) are positions.

| Code | Model |
|---|---|
| `Run`: first `pollKV`, then `pollCatalog`, then both loops | `phase`, `AfterKvPoll`, `CatMayPoll` |
| `pollKV` 114-130 | `KvList`, `KvListFails`; one stage per listed name |
| its worker: decode 131, test and compare 132-146, emit 139/148 | `KvUnmarshal`, `KvApply`, `KvEmit` |
| `p.Wait` 151, removal loop 152-165 | `KvWait`, `RemoveEntry`, `CheckRemoved`, `DropCheck`, `KvDone` |
| `pollCatalog` 173-187 | `CatList`, `CatListFails` |
| its worker: load 188, health 207, `LoadOrStore` 232, `Store` 242, emit 235/244 | `CatLoad`, `CatHealth`, `CatHealthFails`, `CatLoadOrStore`, `CatStore`, `CatEmit` |
| emitter, `RegKV.Observe`, `RegCatalog.Observe` | `DeliverKv`, `DeliverCatalog` |

A step is what runs between two accesses to state another goroutine may touch.
`KvApply` merges `LoadOrStore`, the comparison and `Store`: within a poll one worker
handles a name, the removal loop starts after all workers, and polls of one kind do
not overlap; `pollCatalog` only reads this cache, once. Not modelled: which pair a
pool starts first is free, as is the order of `toRemove` (a Go map); two keys with
the same canonical name; a torn read of the two-word `err` (a read sees one of the
values written); `MessageSignature` failing; signatures are as distinct as contents.

### Registration

A job is one KV event being handled by `ConsulDiscoverer`. `todo` is the set of
members not yet handled (the order in which an entry lists them does not matter to
any property); `at` is the member between `EmitMember` (52) and `ServiceRegister`
(64). The agent is external: `services`, `status` (new services are critical, an
update keeps the status), and the checks it runs, whose request (`CheckBegins`) and
recorded answer (`CheckEnds`) are two steps, so that a verdict may be outdated when
it is recorded. A failing request changes nothing, as the code does not look at it;
`missed` remembers for which addresses this was the last outcome.

### Serving

| Code (`rets/retriever.go`) | Model |
|---|---|
| a catalog worker: load and copy 188-205, health 207-224 | `PollCatalog` |
| `LoadOrStore`, comparison and `Store` 225-242 | `PublishCatalog`, `SameSignature` |
| its emit 235/244 | `EmitCatalog` |
| removal loop: KV event, look into `signCheckCached`, Delete event, `Delete` 152-165 | `TellBoth`, `RemoveChecked` |
| `RegCatalog.Observe`, `SetCatalogEntry`, `RemoveCatalogEntry` | `DeliverCatalog` |

There is one name, hence one catalog worker at a time. `worker` holds the entry it made:
the header it copied (TTL, algorithms: `HeaderOf`) and the members that pass. An event is
emitted whenever `signCheckCached` holds no signature, and when the entry differs from the
one cached, be it in its header only; a removal tells DNS only if a signature is cached.
`entries` is what the DNS handler answers with. `overtaken` remembers that a removal met
a worker that had loaded the entry: the worker emits it afterwards, or leaves its
signature behind, and DNS may serve a ghost until the process restarts (`RetrieverGhost`).

Coarser than the code, and than `Retriever`, which has each of these as a step:

- The listing of a poll, the load and the health request are one step. Between them only
  the entry and the health can change; a worker that has read older ones is one that
  polled earlier and published late.
- `LoadOrStore` and `Store` are one step. A removal between them finds the old signature,
  emits the Delete event and forgets it, and `Store` caches the new one: the same events
  and cache as when the removal comes before both.
- The look and the deletion of a removal are one step, with the KV event. What a worker
  publishes between them is forgotten, as when it publishes before the removal; where the
  look finds no signature nothing is deleted, as when it publishes after it.

### EntriesStatus, Fetcher, Application

| Code | Model |
|---|---|
| `gsloc.go`: `ListEntries` 41-72, pool 75-96 | `ListEntries`, `ListEntriesFails`, one stage of `worker[f]` per name |
| a task: `GetEntryStatus` 102-174 in two requests, error 89-93, send 94 | `GetEntry`, `GetHealth`, `EntryNotFound`, `RequestFails`, `Send` |
| collector 77-82, `p.Wait`, `close`, `<-done` 97-100 | `Collect`, `CloseChan`, `StatusReturn` |
| `status.go`: `Collect`, `memberStatusToProm` | `Metrics`, `StatusValue` |
| `fetcher.go`: `Gather` 36-80, a goroutine 47-65 | `FetchBegin`, `TakeJob`, `Scrape`, `Write`, `JobDone`, `FetchReturn`, `FetcherEnds` |
| `addTargetName`, `scrapeError`, `cleanDuplicate` | `AddTargetName`, `ScrapeError`, `CleanDuplicate`, `Gathered` |
| `app.go`: `Run` 294-320 | `Signal`, `Notify`, `Cancel`, `Graceful`, `SecondSignal`, `Timeout`, `Exit` |
| the waiter 303-306 and the deferred `close` 301 | `WaiterWaits`, `WaiterPanics` |
| `dns.go` 25-61 | `Listen`, `ListenFails`, `DnsShutdown`, `DnsStopped` |
| `http.go` 44-105 | the same two, `HttpShutdown`, `HttpStopped`, `LocalShutdown` |
| a request, from its arrival to its answer | `Accept`, `Reply`, with the steps of a scrape in between |

`Gather` fails when a target refused, or, when none did, because the process's own
metrics cannot be gathered (76-80): `FetchReturn` chooses freely whether they can.

Calls of `ListEntriesStatus` share nothing but Consul, and calls of `Gather` nothing:
one of each at a time is modelled. Consul changes (`Put`, `ChangeHealth`) only during a
call; what happened between two is a different start. `disturbed` remembers whether
anything changed or failed. A metric is the function of its labels, without its value. A family has
its metrics in order, and a merged family is the list of those of its parts (`Lists`,
`Places`), so that a metric exported twice, or put in another family, can be told.
Targets are assumed to have distinct names, which the configuration does not check:
metrics of two targets of the same name could not be told apart. The HTTP and DNS
libraries are external: `Shutdown` stops listening, then waits for requests in flight
or five seconds, and fails for a DNS server that does not listen yet. The first polls
of the retriever cannot be cancelled; the ten-minute ticker fires only when they are
what is left to wait for, since the servers' own limits are far shorter. Besides the
two scrapes, requests have a kind (`Kinds`) and no steps. `isAllowedInspect` is left
out: it changes nothing.

### GslbServer

A call that reads and writes back is one action that validates, reads and computes
(`SetMember`, `DeleteMember`, `SetHealthCheck`, `GetHealthCheck`, `SetMembersStatus`)
and later ones that write (`Put`, `PutFails`, `Txn`, `TxnNotApplied`). The code's
other request, `listDcs`, reads node metadata, which is the constant `KnownDcs`.
`SetEntry` and `DeleteEntry` read nothing and are one step; they also stand for the
writes of any number of other clients. Calls that a validation refuses change
nothing and have no action. `Txn` splits the operations as `applyTx` does; each
transaction is applied or not, and either way may report an error (a lost answer).
A rolled back transaction reports no error in the code (`ok` is ignored): `refused`
remembers its names. `stale` remembers which names another call wrote since the call
read them. An entry has at most one member per address.

### GeoLoc, LoadBalancers, Resolver

`refs` are the entries received from catalog events, each with its three load
balancers: a query works on the one it found when it started, also after it was
replaced. `pc` is where a goroutine is in `nextMember`, with one step per atomic
load or store of `wrr.go`; `rr.go` has one atomic operation and is one step.
`FindDc` is two steps, since another query may fill the cache in between. Integers
of width `Int32` wrap at `Half` (2^31 in the code); Go's remainder keeps the sign.
A goroutine that computes a negative index panics, and nothing runs after that.
Ratios, 32 bits without a sign in the code, are assumed to be below 2^31
(`EntriesAssumption`), as the weights they are compared with have a sign.
`Reset` is not modelled: nothing calls it. `served`, `raced` and `turns` (how often the
loop of `nextMember` has gone on to a next member in one call, counted up to a cap) are
histories used by the properties. Members of one entry are sequences; distances are an order.
An address that the database has no record of is at (0, 0) for the code, and is located
like others; `ByDistance` is empty only for one whose lookup is an error (no IP address,
or an IPv6 address in an IPv4 database). `Answered` are the records of an answer: none
for a query that failed, whatever members were collected before the failure, and none for
one of type ANY, since `dns.NewRR` makes no record of that type (`handler.go:154-160`).

## 3. Runs

All with deadlock checking off where the bounded activity ends (all writes and
calls used up, all queries answered); the retriever's polls never end, so its runs
check deadlock.

| Run | Question | Bounds and why they are enough |
|---|---|---|
| `RetrieverKv` | Are KV listeners told the truth, in order, once (`KvFeedSound`, `FeedSpec`), does a poll apply what it listed but what the shared `err` may hide (`PollApplies`), is a removal always of a cached, unlisted name (`RemovalJustified`)? | two names and two workers so that workers overlap, one of the three contents undecodable, two writes per name (set, change or delete), one restart |
| `RetrieverCatalog` | Both polls interleaved: `CatalogFeedSound`, `DnsKeepsEntries`, and under fairness `KvConverges`, `CatalogConverges` | one name (names only share `err` and the pools); three writes: set, delete, set again, which the removal race needs; one change of health, one restart |
| `RetrieverGhost` (violation) | Does a deleted name leave DNS? | set, delete; one catalog worker that loaded the entry in between |
| `RetrieverErrRace` (violation) | Is an undecodable value ignored? | two names, one of them undecodable, two workers |
| `Registration` | Does the agent have, or is a job about to give it, the members of the entry last told (`AgentFollows`); does the handler refuse those it disables (`HandlerFollows`); does a removal deregister (`RemovalDeregisters`) and leave DNS (`DeletedLeavesUnlessOvertaken`); does a disabled member stop passing and leave DNS (`DisabledLeaves`, `DisabledLeavesDns`) and then stay out (`DisabledStaysOut`); does a present one get registered, and one that is up answered (`MembersArrive`, `EnabledReachesDns`)? | one address that is enabled, disabled, of another datacenter (with another header), or absent; three writes pass through all of them, and through set, delete, set; one fault, a failing request or a restart (`MaxFaults`; what is proved is for any number of both); one catalog event pending when a poll begins, to which a removal may add one |
| `RegistrationRemoved` (violation) | Do services follow the store? | two addresses, one removed |
| `GslbServer` | `StoredValid`, `StatusApplied`, `OnlyAsked` | three names and transactions of two: a full and a partial one, and an empty one when two are selected; two addresses; one client against anonymous writers; four calls (the proofs are for any numbers) |
| `Resolver` | `RoundRobinFair`, `HeaviestFirstAnswered`, `BoundedTurns`, `AnsweredWhenPossible`, `QueriesEnd` | two goroutines, three entries that use the algorithms in each slot, an address that can be located and one whose lookup fails, three queries of up to two answers; the cycle of ratios 2 and 1 has three answers |
| `ResolverRatio` (violation) | Are members answered in proportion to their ratios? | ratios 1 and 2, one goroutine, one cycle |
| `ResolverUnweighted` (violation) | Do queries end when no member has a ratio? | two members, one goroutine |
| `ResolverTopology` (violation) | Is the answer in the nearest datacenter of the members? | an entry whose member moves |
| `Application` | Is an answer without error complete (`AllReported`, `ScrapeExact`, `GatherExact`) and an error justified (`GatherRefused`); can a scrape get stuck (`NoScrapeStuck`); is a graceful stop graceful (`GracefulStop`), the panic confined (`PanicOnlyAfterForcedStop`); does a signal end the process and every scrape its goroutines (`RunReturns`, `ScrapesEnd`)? | seven scenarios: four combinations of the flags with two signals and two requests, a scrape of the targets with one signal, and two scrapes of statuses, with a signal and one change or failure, or with two of these; two entries and targets for two goroutines, a channel of one so that sends block; one target has two metrics of a family, the other labels one with a target itself |

`Half` is 6 in the `Resolver` runs: large enough that `currentWeight` and the round
robin counter stay away from it within the queries checked. What the counter does
when it wraps (`rr.go:36`, a negative index) is in the model, as the state `panic`,
outside these bounds, and in what `ResolverProofs` proves.

Bounds: `MaxWrites`, `MaxChanges`, `MaxRestarts`, `MaxFaults`, `MaxCalls`, `MaxSets`,
`MaxQueries` and the `signals`, `disturbances` and `requests` of a scenario limit what
the environment does, never what the program does. `MaxPending` keeps a poll from
beginning while that many catalog events are undelivered: polls are an interval
apart, and listeners only update a map.
`GslbServer` uses symmetry in names and addresses, and checks safety only.

### Fairness

`Retriever!Fairness`: a goroutine that can step eventually does; tickers tick, so
polls are started again and again (`runKV`, `runCatalog`, which loop whatever a
poll returns); pending events are delivered. `KvList` and `CatList` may fail any
number of times but are always enabled again, hence weak fairness of the answer;
`CatHealth` competes with `CatHealthFails` inside a worker, which is why it needs
strong fairness: a request to Consul does not fail for ever. Nothing is assumed of
writes, health changes and restarts.

`Serving!FairSpec`: the latest content is told eventually (`KvConverges` of the
retriever), listeners run, Consul runs and ends its checks, the catalog is polled again
and again and its events are delivered. No fairness of the requests' success: the code
does not retry them, and the properties except the addresses in `missed`.
`EnabledReachesDns` also assumes a backend that is up whenever it is asked, from some
time on.

`Application!Fairness`: goroutines run and timers fire (`Stopping`), and the requests of
a scrape end, well or not (`Scraping`): those to a target have a limit of ten seconds
(`scrapper.go:27`), those to Consul have none, and that they end is an assumption that
only `ScrapesEnd` needs. Nothing is assumed of the retriever's first polls, of
listeners' start, of other requests, or of signals.

`Resolver!FairSpec`: the goroutine of a query keeps running.

### What the violation runs show

1. `RetrieverGhost`: `pollCatalog`'s worker loads the entry (188), `pollKV` removes
   it and emits the deletions (152-165), the worker then stores its signature and
   emits the entry. The name is in no cache that `pollKV` compares with its listing,
   so DNS serves it until the process restarts.
2. `RetrieverErrRace`: the closure at 129 assigns the `err` of 114. Between 131 and
   132 another worker can set it to nil.
3. `RegistrationRemoved`: `SetKVEntry` deregisters nothing. A member removed from an
   entry that stays, or moved elsewhere, is still registered, checked and served.
4. `ResolverRatio`: `maxWeight` is the first member's weight (102-107).
5. `ResolverUnweighted`: weights of 0 count as 1 when the maximum is computed and as
   0 when compared (54): without a ratio the loop never ends.
6. `ResolverTopology`: `cachedLoc` is keyed by address only (28), though the result
   depends on the datacenters asked for.

Found while modelling and left to the models' assumptions: two goroutines in one
`weightedRef` can take its weight below zero, after which members are skipped until
it wraps, or read a zero and return no member; the properties of weighted round
robin are stated for balancers that were not raced. `SetMember` and the like can
undo each other (`OnlyAsked` is stated for names nobody else wrote since).

Found likewise in registration, metrics and shutdown:

- When the only service of an entry cannot be registered again after a removal, Consul
  does not list the name, the catalog poll (`retriever.go:185`) does not look at it,
  and DNS keeps what a worker of before the removal told it, for ever. Hence the
  exception of `missed` in `DisabledLeavesDns` and `EnabledReachesDns`.
- The metric's help text (`status.go:79`) says that 2 means "offline (disabled by user)".
  The service of a disabled member stays registered, and its check fails
  (`healthchecks/handler.go:95-98`): its status is 1, "check failed". 2 is what a member
  without a service has. `ScrapeExact` is about the code's numbers, not that sentence.
- `src/README.md:8` says that ANY queries are answered. `Resolve` finds members for them,
  asks for records of type ANY, of which `dns.NewRR` makes none, and answers nothing, while
  the query counts as a success (`handler.go:149-165`). `AnsweredWhenPossible` is about A
  and AAAA queries.
- `gsloc.go:141` appends the statuses of IPv6 members to those of IPv4 members, so the
  metric labels them "ipv4". The model does not tell the families apart.
- The shutdown of the local HTTP server runs in a goroutine nobody waits for
  (`http.go:92`); its requests are cut by the exit even when Run reports that all
  servers stopped gracefully. `GracefulStop` is about the others.
- The DNS server listens while the retriever makes its first polls: after a restart,
  names that exist are unknown for a while.
- A second signal or the ticker makes Run close the channel that the waiter may then
  send on: the process may panic instead of returning.

## 4. Proofs

`RetrieverProofs` proves, for any names, contents, numbers of workers and bounds,
from the assumptions `ContentsAssumption`, `HeadersAssumption`, `ViewsAssumption`
(`None` is no content or view, `HeaderOf` is defined on contents, "no member
passes" is a view), `WorkersAssumption`, `SwitchAssumption`, `FqdnsAssumption`
(names are finitely many), and `EntriesAssumption` (`None` is no entry of DNS):

| Theorem | Statement |
|---|---|
| `TypeCorrect` | `Spec => []TypeOK` |
| `RemovalCorrect` | `Spec => []RemovalJustified` |
| `PollAppliesCorrect` | `Spec => []PollApplies` |
| `KvFeedCorrect` | `Spec => []KvFeedSound` |
| `FeedImplemented` | `InOrder => (Spec => FeedSpec)` |
| `CatalogFeedCorrect` | `Spec => []CatalogFeedSound` |
| `DnsKeepsEntriesCorrect` | `Spec => DnsKeepsEntries` |

*Types* (`ConsulTypes`, `KvTypes`, `Positions`, `CatTypes`): positions stay within
histories because histories only grow (`HistoryKept`).

*Removal.* `RemovalJustified` alone is not inductive: a worker could store an entry
that is about to be removed. `RemovalInv` adds `PollPhases`: outside the pool phase
no worker runs, and none ever has a name in `toRemove`.

*Polls.* `PollInv` says of each name, during a poll, that once its worker is over the
cache is what was listed, or the removal loop is to see to it, or the name is one that
`MaySkip` excuses: it, or with several workers another listed name, could not be
decoded. A worker that finds an error set is excused likewise, because errors are only
ever set by such names.

*KV feed.* `KvInv` is a chain per name: `known <` each pending event in turn, the
last of them equal to the cached position, which is at most the listed one; each
link changes the content (`News`). A worker between store and emit is the one
exception, and holds the next link. `Chain*` lemmas say that a step leaves the
chain alone, appends to it or consumes its head; `KvInductive` goes through the
actions. `FeedImplemented` follows: a delivery takes the head of the chain, which is
newer than `known` and differs from it, hence is a `Tell`; all other steps write a
key, restart or stutter.

*Catalog feed.* `CatInv`: when `signCheckCached[f]` holds a signature it is that of
the last event, except while a worker is between store and emit or `pollKV` between
its event and its deletion; in the former case the signature is the worker's own,
or gone (`CatAgrees`). Both exceptions can hold at once, which is the interleaving
behind `RetrieverGhost`: the cache then is empty and DNS serves the entry, so the
feed is sound although the outcome is not what the store says.

*DNS keeps entries.* DNS forgets a name by a pending event, long after what caused it.
`DeletedInv` follows the removal back: a name in `toRemove`, one whose deletion is about
to be emitted and one with a pending Delete are names whose key was deleted at some time
(`Leaving`). What is cached is a content the key had, so that a listing without the key
means that it was deleted since. This holds in any order of deliveries.

The theorems about feeds are about an emitter that keeps the order (`InOrder`),
which the code relies on and does not enforce: `observe` emits and returns
(`emit.go:110`). `InOrder` is TRUE in all runs, so that none shows what happens without
it; the formulas that need it name it, and the others are proved for either value.

`GslbServerProofs` proves, for any names, addresses, datacenters, health checks,
numbers of clients and calls, and any size of transactions, from the assumptions
named in `GslbServer` (`None` is no value of any kind, names are finitely many, a
transaction holds at least one operation):

| Theorem | Statement |
|---|---|
| `Invariant` | `Spec => []Inv` |
| `TypeCorrect` | `Spec => []TypeOK` |
| `StoredValidCorrect` | `Spec => []StoredValid` |
| `StatusAppliedCorrect` | `Spec => []StatusApplied` |
| `OnlyAskedCorrect` | `Spec => OnlyAsked` |

None of the properties is inductive: what will be stored is in the calls, for any
time. `Inv` adds `CallsInv`, which says of each pending call `k` (`CallOK`):

- `Asked`: all it is to write is valid, and differs from the entry as it is now only
  in what was asked, unless the name is in `stale`;
- for `SetMembersStatus` (`Progress`), an entry in its scope that it has no
  operation for has no member it selects (`Untouched`), each operation gives the
  members it selects the status asked for (`SwitchedTo`), those of the transactions
  done so far are stored unless refused, stale, or an error is remembered
  (`Applied`), and it replies after the last transaction only.

A write of another call makes names stale and leaves everything else of the call
(`OvertakenCall`, `Others`). A transaction moves the call's own entries to what
they are to be, of which the same request asks nothing more (`AskedAgain`,
`TxnCall`). New calls are justified by what they read (`NewPut`, `NewTxns`).
`StatusApplied` then needs that transactions numbered from 0 to `Len \div M` cover
all operations, also when the last one is partial or empty (`TransactionsCover`).
`OnlyAsked` follows since a step of another client does not move a call
(`OthersStay`). TLC has found `Inv` true with two clients and the other constants
of the run `GslbServer`, for three calls.

`RegistrationProofs` proves, for any addresses, contents and bounds, from
`NoneAssumption`, `MembersAssumption` and `InOrderAssumption`:

| Theorem | Statement |
|---|---|
| `TypeCorrect` | `Spec => []TypeOK` |
| `AgentFollowsCorrect` | `Spec => []AgentFollows` |
| `HandlerFollowsCorrect` | `Spec => []HandlerFollows` |
| `RemovalDeregistersCorrect` | `Spec => RemovalDeregisters` |

`RegInv` says, when listeners are run in order, what the jobs have still to do. Only
the oldest job has begun, and the youngest is for the entry last told (`JobsInv`).
Each of that entry's own members is still to be handled by the youngest job, or both
sides are settled: the handler has, or after the pending member events will have, the
member's switch, and the agent has the member, unless its request failed or comes next
(`SettledInv`). A removal has deregistered what it has no more to do (`RemovalInv`). A
job that starts anew, for an entry told meanwhile, becomes the youngest with all its
members to do, which makes the rest hold at once. Types hold in any order of
deliveries.

`ServingProofs` proves that `ServingSpec` implements `Registration`'s `Spec`
(`Composition`): a poll, an event or an answer leaves the registration alone, and the
other steps are steps of it. What is proved of `Registration` thus holds of the
composition (`RegistrationServed`). Further assumption: `WorkersAssumption` (`None` is no
state of a worker).

`DeletedLeavesCorrect` is `ServingSpec => []DeletedLeavesUnlessOvertaken`. DNS must get the
Delete event of a removal, which depends on the signature cached at that moment. `SignatureInv`
says that this is the signature of the last event emitted, pending or delivered, unless a
worker has published one and is about to emit that entry; and that after a removal
nobody knows the entry any more, while no removal has met a worker. A delivery in order
leaves the last event what it was (`LastEmittedKept`).

`DisabledStaysOutCorrect` is `ServingSpec => DisabledStaysOut`. `Out(ip)` goes through all
the places that could still bring a disabled member back: jobs for an entry that enables
it, a member event that is late, a check that was begun before HcHandler knew, a result
the agent keeps, a catalog worker's entry, a catalog event. Each step preserves it, in any order of
deliveries: the proof has one lemma per actor, and under it one step per part of `Out`
that the actor touches. That the system comes to be `Out` is `DisabledLeavesDns`, which
TLC checks under fairness.

`EntriesStatusProofs`, `FetcherProofs` and `ApplicationProofs` prove, for any entries,
members, checks, sizes of pool and channel, targets, numbers of goroutines, flags and
bounds, from the assumptions named in the three modules (`None` and `NoTarget` are no
values, pools are not empty and the channel holds a status at least, targets have distinct
names):

| Theorem | Statement |
|---|---|
| `TypeCorrect` | `Spec => []TypeOK` |
| `AllReportedCorrect` | `Spec => []AllReported` |
| `ScrapeExactCorrect` | `Spec => []ScrapeExact` |
| `GatherExactCorrect` | `Spec => []GatherExact` |
| `GatherRefusedCorrect` | `Spec => []GatherRefused` |
| `NoScrapeStuckCorrect` | `Spec => []NoScrapeStuck` |
| `GracefulStopCorrect` | `Spec => []GracefulStop` |
| `PanicCorrect` | `Spec => []PanicOnlyAfterForcedStop` |

Each part has an invariant over its own variables, which the steps of the others leave
alone, and `Inv` is their conjunction:

- `StatusInv`: of each listed entry there is a task or one report, on its way or
  collected; a nil is only reported with an error set.
- `ScrapeInv`: while nothing was disturbed, what tasks read and sent is as it still is.
- `FetchInv`: each target is in the channel, with one goroutine, or done; the wait
  group and the length of the list count them; the error is a target's that refused,
  and a target that refused has set it or is about to; no call is answered with it set. `MetricsOK` gives each list of
  metrics collected so far an owner, a different one of the targets written, of which it is
  what `NewMetrics` says. `GatherExact` needs more than that, as a merged family is the
  metrics of several lists end to end: `PlaceOf`, `MetricOf` and `MergedFamily` show that
  the places of the merge correspond, one to one, to the places of the parts.
- `FetchersRun`, `CallsInv`: no goroutine of a scrape ends while the caller waits, and a
  fan-out runs exactly while one request is in flight for it. `NoScrapeStuck` then follows
  by following what each waits for: a task for room in the channel, the channel for the
  collector, which is there until the channel is closed, the caller for the tasks; a
  fetcher for a target or the closing of the channel, the caller for the counter, which
  `CountersOK` says is 0 when no target is left.
- `RunInv`: a goroutine that is over has stopped its servers, or they are in
  `notStopped`; Run closes the channel with the waiter served or after a second signal
  or the ticker.

`ResolverProofs` proves, for any entries and members, addresses, datacenters, numbers of
goroutines, events and queries, from `EntriesAssumption`, `HalfAssumption` (an `Int32`
has more than two bits) and the assumptions of `GeoLoc`:

| Theorem | Statement |
|---|---|
| `Invariant` | `Spec => []Inv` |
| `TypeCorrect` | `Spec => []TypeOK` |
| `RoundRobinFairCorrect` | `Spec => []RoundRobinFair` |
| `WeightCorrect` | `Spec => []WeightInv` |
| `HeaviestFirstAnsweredCorrect` | `Spec => []HeaviestFirstAnswered` |
| `BoundedTurnsCorrect` | `Spec => []BoundedTurns` |
| `AnsweredWhenPossibleCorrect` | `Spec => []AnsweredWhenPossible` |

- `TypeOK`: the position of a weighted round robin, and the one each goroutine has
  computed and not yet used, is that of a member: they are stored one by one, and
  each is taken modulo the same number of members. Weights stay in an `Int32`, since
  the greatest common divisor is at most a weight (`GcdType`).
- `FairInv`: member `i` of `n` was answered `Share(number, n, i)` times, the numbers from
  0 to the counter that are `i - 1` modulo `n`; shares differ by one at most
  (`ShareFair`). After the counter has overflowed to `-Half`, the index is negative,
  which is a panic, unless `n` divides `Half`: then one more answer is made, at index 0,
  and the next one panics (`Neighbours`).
- `AnswerInv`: a query asks the alternate and the fallback only past load balancers that
  are topologies, the only ones that fail; a nil comes from an entry without members or
  from a weight that is 0 just after it was set to the maximum, which takes a second
  goroutine; and two goroutines in one `nextMember` are noticed (`Noticed`).

- `WeightInv`, for a weighted round robin that was never shared: the weight is one of the
  levels from the maximum down by the greatest common divisor (`Level`), and when the
  first member is the heaviest each member was answered once per level it reaches in the
  whole cycles done, and once per level passed in the present one (`Met`): at the end of
  a cycle that is its ratio over the divisor, hence the proportions. While a call is in
  `nextMember` the same holds of what it has read and is about to store (`Weighed`).
  `Turns` bounds its loop: a member as heavy as the maximum is answered when the position
  comes to it, so no more members are met than lie before it.

A step of a load balancer changes one query and one load balancer: `FineKeeps` says
once what must hold of these two for all the rest to follow, and a lemma for each
algorithm shows that its steps are such.

Only model-checked: what is only true under fairness, which is out of the prover's reach.
These are `KvConverges`, `CatalogConverges`, `DisabledLeaves`, `MembersArrive`,
`DisabledLeavesDns`, `EnabledReachesDns`, `QueriesEnd`, `RunReturns` and `ScrapesEnd`.
Behind some of them the proofs have the safety part: `BoundedTurns` of `QueriesEnd`,
`NoScrapeStuck` of `ScrapesEnd`, `DisabledStaysOut` of `DisabledLeavesDns`. Every other
property of a passing run is stated by a theorem.

## 5. Not modelled

- Parsing and validation of messages and configuration, TLS, authentication and
  authorisation: no state, once, before what is modelled begins.
- TXT answers and the `_all.` prefix, statistics of queries, API calls that only read:
  they change no state, or one that nothing reads. Where a query's address comes from,
  its sender or its EDNS client subnet (`handler.go:61-75`): `Resolver` takes any.
- Health check kinds (`healthchecks/interfaces.go`): calls to a library or a plugin,
  whose outcome is a free choice in `Registration`.
- `NewApp`: wiring, once, in one goroutine.
- Adding and removing listeners of `observe`: only at start.

Consul, the emitter and the HTTP and DNS libraries are external: modelled as the code
uses them, with Consul's KV store linearizable and its transactions atomic.

## 6. Plan

Done: all modules above, each component's with its proofs.

Next, in order:

1. The DNS handler's inspection answers (TXT, `_all.`) and who may ask for them.
2. Calls of the API that only read, as observers of `GslbServer`'s interleavings.
