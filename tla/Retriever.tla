----------------------------- MODULE Retriever -----------------------------
(***************************************************************************)
(* rets.Retriever: how a GSLoC server follows Consul.  One goroutine polls  *)
(* the KV store for the entries users configured (pollKV), another one the *)
(* catalog for the health of their members (pollCatalog); each fans out     *)
(* over a bounded pool of workers, compares signatures with what it cached *)
(* and emits an event when something changed.  Listeners of KV events and   *)
(* the DNS handler, which listens to catalog events, receive them later.    *)
(*                                                                         *)
(* A stored entry is referred to by its position in log[f], the contents   *)
(* the KV key of f has had; position 1 holds None, so a map without an      *)
(* element for f is the map that refers to a position holding None.         *)
(***************************************************************************)
EXTENDS Naturals, Sequences, FiniteSets

CONSTANTS
    Fqdns,          \* names of entries: the KV keys, which are also service names
    Contents,       \* values of a key, told apart by their signature
    Unreadable,     \* those of Contents that protojson.Unmarshal rejects
    HeaderOf,       \* the part of a content that pollCatalog copies (no members)
    Views,          \* what Health().Service can answer: the passing members
    NoMembers,      \* the view in which no member passes
    None,           \* no value
    NbWorkers,      \* goroutines of one pool
    CatalogPolling, \* FALSE after DisableCatalogPolling
    InOrder,        \* the emitter delivers the events of one FQDN in order
    MaxWrites,      \* bound: writes of one KV key
    MaxChanges,     \* bound: changes of health, over all FQDNs
    MaxRestarts     \* bound: restarts of the process

ASSUME FqdnsAssumption    == IsFiniteSet(Fqdns)
ASSUME ContentsAssumption == None \notin Contents /\ Unreadable \subseteq Contents
ASSUME HeadersAssumption  == DOMAIN HeaderOf = Contents
ASSUME ViewsAssumption    == NoMembers \in Views /\ None \notin Views
ASSUME WorkersAssumption  == NbWorkers \in Nat \ {0}
ASSUME SwitchAssumption   == CatalogPolling \in BOOLEAN /\ InOrder \in BOOLEAN

VARIABLES
    log,             \* Consul: the history of each KV key
    health,          \* Consul: each service's view, None when it is not listed
    phase,           \* how far Run is: first KV poll, first catalog poll, loops
    signEntsCached,  \* the entries known from KV
    signCheckCached, \* the signature of the catalog entry last emitted, or None
    kvPc,            \* where pollKV is
    kvPairs,         \* the listing it works on
    kvStage,         \* where its worker for f is
    err,             \* its variable err, which its workers share
    toRemove,        \* cached entries the listing lacks
    removing,        \* the element of toRemove being removed
    catPc,           \* where pollCatalog is
    catStage,        \* where its worker for f is
    catEnt,          \* the header that worker read from signEntsCached
    catView,         \* the view it got from Consul
    kvEvents,        \* KV events emitted for f and not delivered
    catEvents,       \* catalog events emitted for f and not delivered
    known,           \* the last KV event delivered for f
    entries,         \* GSLBHandler.entries: what DNS answers from
    changes, restarts \* how much of the bounds is used

consul  == <<log, health, changes>>
caches  == <<signEntsCached, signCheckCached>>
pollKV  == <<kvPc, kvPairs, kvStage, err, toRemove, removing>>
pollCat == <<catPc, catStage, catEnt, catView>>
feeds   == <<kvEvents, catEvents, known, entries>>
vars == <<consul, phase, caches, pollKV, pollCat, feeds, restarts>>

Headers == {HeaderOf[c] : c \in Contents}
CatalogEntries == [header : Headers, view : Views]

ASSUME EntriesAssumption == None \notin CatalogEntries

Last1(s) == s[Len(s)]
RemoveIth(s, i) == SubSeq(s, 1, i - 1) \o SubSeq(s, i + 1, Len(s))

Current(f) == Last1(log[f])
Listed(f)  == log[f][kvPairs[f]]          \* what the listing says of f
Known(f)   == log[f][signEntsCached[f]]   \* what signEntsCached says of f
Cached(f)  == Known(f) # None

KvRunning  == {f \in Fqdns : kvStage[f] \in {"decoded", "emit"}}
CatRunning == {f \in Fqdns : catStage[f] \in {"health", "publish", "store", "emit"}}

-----------------------------------------------------------------------------
Each(x) == [f \in Fqdns |-> x]

\* Empty caches, no goroutine running, no event pending: a process that starts.
Init ==
    /\ log = Each(<<None>>)
    /\ health = Each(None)
    /\ changes = 0
    /\ restarts = 0
    /\ phase = "bootKv" /\ signEntsCached = Each(1)
    /\ signCheckCached = Each(None) /\ kvPc = "idle"
    /\ kvPairs = Each(1) /\ kvStage = Each("none")
    /\ err = FALSE /\ toRemove = {}
    /\ removing = None /\ catPc = "idle"
    /\ catStage = Each("none") /\ catEnt = Each(None)
    /\ catView = Each(None) /\ kvEvents = Each(<<>>)
    /\ catEvents = Each(<<>>) /\ known = Each(1)
    /\ entries = Each(None)

-----------------------------------------------------------------------------
(* Consul.  Users write keys through any GSLoC server of the cluster, and   *)
(* Consul reports what the health checks of the members find.               *)

Put(f, c) ==
    /\ Len(log[f]) <= MaxWrites
    /\ c # Current(f)
    /\ log' = [log EXCEPT ![f] = Append(@, c)]
    /\ UNCHANGED <<health, changes, phase, caches, pollKV, pollCat, feeds, restarts>>

ChangeHealth(f, v) ==
    /\ CatalogPolling
    /\ changes < MaxChanges
    /\ v # health[f]
    /\ health' = [health EXCEPT ![f] = v]
    /\ changes' = changes + 1
    /\ UNCHANGED <<log, phase, caches, pollKV, pollCat, feeds, restarts>>

-----------------------------------------------------------------------------
(* pollKV *)

KvMayPoll == kvPc = "idle" /\ phase \in {"bootKv", "loops"}

AfterKvPoll ==
    IF phase # "bootKv" THEN phase ELSE IF CatalogPolling THEN "bootCatalog" ELSE "loops"

\* Mutant: listed names are not taken out of toRemove.
OrphansAll == {f \in Fqdns : Cached(f)}
\* The cached FQDNs that the listing being taken does not hold.
Orphans == {f \in Fqdns : Cached(f) /\ Current(f) = None}

\* KV().List answers; one worker is created for every listed pair.
KvList ==
    /\ KvMayPoll
    /\ kvPairs' = [f \in Fqdns |-> Len(log[f])]
    /\ kvStage' = [f \in Fqdns |-> IF Current(f) = None THEN "none" ELSE "todo"]
    /\ err' = FALSE
    /\ toRemove' = Orphans
    /\ kvPc' = "pool"
    /\ UNCHANGED <<consul, phase, caches, removing, pollCat, feeds, restarts>>

\* KV().List fails: the poll is over, and Run goes on as if it had succeeded.
KvListFails ==
    /\ KvMayPoll
    /\ phase' = AfterKvPoll
    /\ UNCHANGED <<consul, caches, pollKV, pollCat, feeds, restarts>>

\* Mutant: the worker declares an err of its own.
KvUnmarshalShadowed(f) ==
    /\ kvStage[f] = "todo"
    /\ Cardinality(KvRunning) < NbWorkers
    /\ kvStage' = [kvStage EXCEPT ![f] = "decoded"]
    /\ UNCHANGED <<consul, phase, caches, kvPc, kvPairs, err, toRemove, removing,
                   pollCat, feeds, restarts>>

\* A worker of the pool decodes its pair; the outcome goes into the shared err.
KvUnmarshal(f) ==
    /\ kvStage[f] = "todo"
    /\ Cardinality(KvRunning) < NbWorkers
    /\ err' = (Listed(f) \in Unreadable)
    /\ kvStage' = [kvStage EXCEPT ![f] = "decoded"]
    /\ UNCHANGED <<consul, phase, caches, kvPc, kvPairs, toRemove, removing,
                   pollCat, feeds, restarts>>

\* Mutant: an entry that is cached counts as unchanged.
SameSignatureIfCached(f) == Cached(f)
SameSignature(f) == Known(f) = Listed(f)

\* It reads err, then compares with the cache and replaces what it holds (no
\* other goroutine writes this key meanwhile).  An entry seen for the first
\* time (LoadOrStore) and a changed one (Store) are treated alike.
KvApply(f) ==
    /\ kvStage[f] = "decoded"
    /\ IF err \/ SameSignature(f)
       THEN /\ kvStage' = [kvStage EXCEPT ![f] = "none"]
            /\ UNCHANGED signEntsCached
       ELSE /\ kvStage' = [kvStage EXCEPT ![f] = "emit"]
            /\ signEntsCached' = [signEntsCached EXCEPT ![f] = kvPairs[f]]
    /\ UNCHANGED <<consul, phase, signCheckCached, kvPc, kvPairs, err, toRemove,
                   removing, pollCat, feeds, restarts>>

\* Mutant: the event overtakes those that are pending.
KvEmitFirst(f) ==
    /\ kvStage[f] = "emit"
    /\ kvEvents' = [kvEvents EXCEPT ![f] = <<kvPairs[f]>> \o @]
    /\ kvStage' = [kvStage EXCEPT ![f] = "none"]
    /\ UNCHANGED <<consul, phase, caches, kvPc, kvPairs, err, toRemove, removing,
                   pollCat, catEvents, known, entries, restarts>>

KvEmit(f) ==
    /\ kvStage[f] = "emit"
    /\ kvEvents' = [kvEvents EXCEPT ![f] = Append(@, kvPairs[f])]
    /\ kvStage' = [kvStage EXCEPT ![f] = "none"]
    /\ UNCHANGED <<consul, phase, caches, kvPc, kvPairs, err, toRemove, removing,
                   pollCat, catEvents, known, entries, restarts>>

\* p.Wait returns once every worker has.
KvWait ==
    /\ kvPc = "pool"
    /\ \A f \in Fqdns : kvStage[f] = "none"
    /\ kvPc' = "remove"
    /\ UNCHANGED <<consul, phase, caches, kvPairs, kvStage, err, toRemove, removing,
                   pollCat, feeds, restarts>>

\* Emits the KV Delete event and forgets the entry.  Removal moves f to the
\* listing's position, at which the key does not exist (RemovalJustified).
RemoveEntry(f) ==
    /\ kvPc = "remove"
    /\ f \in toRemove
    /\ kvEvents' = [kvEvents EXCEPT ![f] = Append(@, kvPairs[f])]
    /\ signEntsCached' = [signEntsCached EXCEPT ![f] = kvPairs[f]]
    /\ toRemove' = toRemove \ {f}
    /\ removing' = f
    /\ kvPc' = "check"
    /\ UNCHANGED <<consul, phase, signCheckCached, kvPairs, kvStage, err, pollCat,
                   catEvents, known, entries, restarts>>

\* If the catalog's entry was emitted its Delete event is, ...
CheckRemoved ==
    /\ kvPc = "check"
    /\ IF signCheckCached[removing] # None
       THEN /\ catEvents' = [catEvents EXCEPT ![removing] = Append(@, None)]
            /\ kvPc' = "drop"
            /\ UNCHANGED removing
       ELSE /\ kvPc' = "remove"
            /\ removing' = None
            /\ UNCHANGED catEvents
    /\ UNCHANGED <<consul, phase, caches, kvPairs, kvStage, err, toRemove, pollCat,
                   kvEvents, known, entries, restarts>>

\* Mutant: the signature is kept.
DropCheckForgotten ==
    /\ kvPc = "drop"
    /\ kvPc' = "remove"
    /\ removing' = None
    /\ UNCHANGED <<consul, phase, caches, kvPairs, kvStage, err, toRemove,
                   pollCat, feeds, restarts>>

\* ... and then its signature is forgotten.
DropCheck ==
    /\ kvPc = "drop"
    /\ signCheckCached' = [signCheckCached EXCEPT ![removing] = None]
    /\ kvPc' = "remove"
    /\ removing' = None
    /\ UNCHANGED <<consul, phase, signEntsCached, kvPairs, kvStage, err, toRemove,
                   pollCat, feeds, restarts>>

KvDone ==
    /\ kvPc = "remove"
    /\ toRemove = {}
    /\ kvPc' = "idle"
    /\ phase' = AfterKvPoll
    /\ UNCHANGED <<consul, caches, kvPairs, kvStage, err, toRemove, removing, pollCat,
                   feeds, restarts>>

-----------------------------------------------------------------------------
(* pollCatalog *)

CatMayPoll == CatalogPolling /\ catPc = "idle" /\ phase \in {"bootCatalog", "loops"}

\* Catalog().Services answers with the services that carry this datacenter's
\* metadata; one worker is created for every one.
CatList ==
    /\ CatMayPoll
    /\ catStage' = [f \in Fqdns |-> IF health[f] = None THEN "none" ELSE "todo"]
    /\ catPc' = "pool"
    /\ UNCHANGED <<consul, phase, caches, pollKV, catEnt, catView, feeds, restarts>>

CatListFails ==
    /\ CatMayPoll
    /\ phase' = "loops"
    /\ UNCHANGED <<consul, caches, pollKV, pollCat, feeds, restarts>>

\* The worker reads the entry, or ends when there is none.
CatLoad(f) ==
    /\ catStage[f] = "todo"
    /\ Cardinality(CatRunning) < NbWorkers
    /\ IF Cached(f)
       THEN /\ catEnt' = [catEnt EXCEPT ![f] = HeaderOf[Known(f)]]
            /\ catStage' = [catStage EXCEPT ![f] = "health"]
       ELSE /\ catStage' = [catStage EXCEPT ![f] = "none"]
            /\ UNCHANGED catEnt
    /\ UNCHANGED <<consul, phase, caches, pollKV, catPc, catView, feeds, restarts>>

\* The members of f that pass, as Health().Service gives them: none of a
\* service that is gone.
Passing(f) == IF health[f] = None THEN NoMembers ELSE health[f]

CatHealth(f) ==
    /\ catStage[f] = "health"
    /\ catView' = [catView EXCEPT ![f] = Passing(f)]
    /\ catStage' = [catStage EXCEPT ![f] = "publish"]
    /\ UNCHANGED <<consul, phase, caches, pollKV, catPc, catEnt, feeds, restarts>>

\* The worker is over: its local variables are.
CatReturn(f) ==
    /\ catStage' = [catStage EXCEPT ![f] = "none"]
    /\ catEnt' = [catEnt EXCEPT ![f] = None]
    /\ catView' = [catView EXCEPT ![f] = None]

CatHealthFails(f) ==
    /\ catStage[f] = "health"
    /\ CatReturn(f)
    /\ UNCHANGED <<consul, phase, caches, pollKV, catPc, feeds, restarts>>

\* Mutant: the members are never copied into the entry.
NewEntryWithoutMembers(f) == [header |-> catEnt[f], view |-> None]
NewEntry(f) == [header |-> catEnt[f], view |-> catView[f]]
\* Mutant: a signature that is cached counts as the same.
SameIfChecked(f) == signCheckCached[f] # None
SameCatalogSignature(f) == signCheckCached[f] = NewEntry(f)

\* LoadOrStore on signCheckCached, and what is done with its result.
CatLoadOrStore(f) ==
    /\ catStage[f] = "publish"
    /\ \/ /\ signCheckCached[f] = None
          /\ signCheckCached' = [signCheckCached EXCEPT ![f] = NewEntry(f)]
          /\ catStage' = [catStage EXCEPT ![f] = "emit"]
          /\ UNCHANGED <<catEnt, catView>>
       \/ /\ SameCatalogSignature(f)
          /\ CatReturn(f)
          /\ UNCHANGED signCheckCached
       \/ /\ signCheckCached[f] # None
          /\ ~SameCatalogSignature(f)
          /\ catStage' = [catStage EXCEPT ![f] = "store"]
          /\ UNCHANGED <<catEnt, catView, signCheckCached>>
    /\ UNCHANGED <<consul, phase, signEntsCached, pollKV, catPc, feeds, restarts>>

CatStore(f) ==
    /\ catStage[f] = "store"
    /\ signCheckCached' = [signCheckCached EXCEPT ![f] = NewEntry(f)]
    /\ catStage' = [catStage EXCEPT ![f] = "emit"]
    /\ UNCHANGED <<consul, phase, signEntsCached, pollKV, catPc, catEnt, catView, feeds, restarts>>

CatEmit(f) ==
    /\ catStage[f] = "emit"
    /\ catEvents' = [catEvents EXCEPT ![f] = Append(@, NewEntry(f))]
    /\ CatReturn(f)
    /\ UNCHANGED <<consul, phase, caches, pollKV, catPc, kvEvents, known, entries, restarts>>

CatDone ==
    /\ catPc = "pool"
    /\ \A f \in Fqdns : catStage[f] = "none"
    /\ catPc' = "idle"
    /\ phase' = "loops"
    /\ UNCHANGED <<consul, caches, pollKV, catStage, catEnt, catView, feeds, restarts>>

-----------------------------------------------------------------------------
(* Delivery.  Emit hands an event to goroutines of the emitter and does not *)
(* wait for them: it reaches the listeners later, and which of two pending  *)
(* events comes first is for the emitter to say.                            *)

Deliverable(q) == IF InOrder THEN {i \in 1 .. Len(q) : i = 1} ELSE 1 .. Len(q)

DeliverKv(f, i) ==
    /\ i \in Deliverable(kvEvents[f])
    /\ known' = [known EXCEPT ![f] = kvEvents[f][i]]
    /\ kvEvents' = [kvEvents EXCEPT ![f] = RemoveIth(@, i)]
    /\ UNCHANGED <<consul, phase, caches, pollKV, pollCat, catEvents, entries, restarts>>

\* SetCatalogEntry, or RemoveCatalogEntry for a Delete event.
DeliverCatalog(f, i) ==
    /\ i \in Deliverable(catEvents[f])
    /\ entries' = [entries EXCEPT ![f] = catEvents[f][i]]
    /\ catEvents' = [catEvents EXCEPT ![f] = RemoveIth(@, i)]
    /\ UNCHANGED <<consul, phase, caches, pollKV, pollCat, kvEvents, known, restarts>>

\* The process stops, at any point, and starts again; Consul keeps its state.
Restart ==
    /\ restarts < MaxRestarts
    /\ restarts' = restarts + 1
    /\ phase' = "bootKv" /\ signEntsCached' = Each(1)
    /\ signCheckCached' = Each(None) /\ kvPc' = "idle"
    /\ kvPairs' = Each(1) /\ kvStage' = Each("none")
    /\ err' = FALSE /\ toRemove' = {}
    /\ removing' = None /\ catPc' = "idle"
    /\ catStage' = Each("none") /\ catEnt' = Each(None)
    /\ catView' = Each(None) /\ kvEvents' = Each(<<>>)
    /\ catEvents' = Each(<<>>) /\ known' = Each(1)
    /\ entries' = Each(None)
    /\ UNCHANGED consul

-----------------------------------------------------------------------------
KvWorker(f) == KvUnmarshal(f) \/ KvApply(f) \/ KvEmit(f)
KvRemoval == (\E f \in Fqdns : RemoveEntry(f)) \/ CheckRemoved \/ DropCheck
CatWorker(f) == CatLoad(f) \/ CatHealth(f) \/ CatLoadOrStore(f) \/ CatStore(f) \/ CatEmit(f)
Deliver(f) == \/ \E i \in 1 .. Len(kvEvents[f]) : DeliverKv(f, i)
              \/ \E i \in 1 .. Len(catEvents[f]) : DeliverCatalog(f, i)

Next ==
    \/ \E f \in Fqdns, c \in Contents \union {None} : Put(f, c)
    \/ \E f \in Fqdns, v \in Views \union {None} : ChangeHealth(f, v)
    \/ KvList \/ KvListFails \/ KvWait \/ KvRemoval \/ KvDone
    \/ CatList \/ CatListFails \/ CatDone
    \/ \E f \in Fqdns : KvWorker(f) \/ CatWorker(f) \/ CatHealthFails(f) \/ Deliver(f)
    \/ Restart

Spec == Init /\ [][Next]_vars

(* Goroutines keep running, events are delivered, tickers keep ticking; a   *)
(* request to Consul may fail any number of times, but not always.          *)
Fairness ==
    /\ WF_vars(KvList) /\ WF_vars(KvWait) /\ WF_vars(KvRemoval) /\ WF_vars(KvDone)
    /\ WF_vars(CatList) /\ WF_vars(CatDone)
    /\ \A f \in Fqdns : /\ WF_vars(KvWorker(f))
                        /\ WF_vars(CatWorker(f))
                        /\ SF_vars(CatHealth(f))
                        /\ WF_vars(Deliver(f))

FairSpec == Spec /\ Fairness
-----------------------------------------------------------------------------
(* Properties *)

KvStages == {"none", "todo", "decoded", "emit"}
CatStages == {"none", "todo", "health", "publish", "store", "emit"}

ConsulTypeOK ==
    /\ log \in [Fqdns -> Seq(Contents \union {None})]
    /\ \A f \in Fqdns : Len(log[f]) >= 1
    /\ health \in [Fqdns -> Views \union {None}]
    /\ changes \in Nat
    /\ restarts \in Nat
    /\ phase \in {"bootKv", "bootCatalog", "loops"}

KvTypeOK ==
    /\ signEntsCached \in [Fqdns -> Nat]
    /\ kvPc \in {"idle", "pool", "remove", "check", "drop"}
    /\ kvPairs \in [Fqdns -> Nat]
    /\ kvStage \in [Fqdns -> KvStages]
    /\ err \in BOOLEAN
    /\ toRemove \subseteq Fqdns
    /\ removing \in Fqdns \union {None}
    /\ kvPc \in {"check", "drop"} => removing \in Fqdns
    /\ kvEvents \in [Fqdns -> Seq(Nat)]
    /\ known \in [Fqdns -> Nat]

PositionsOK ==
    \A f \in Fqdns :
        /\ signEntsCached[f] \in 1 .. Len(log[f])
        /\ kvPairs[f] \in 1 .. Len(log[f])
        /\ known[f] \in 1 .. Len(log[f])
        /\ \A i \in 1 .. Len(kvEvents[f]) : kvEvents[f][i] \in 1 .. Len(log[f])

CatTypeOK ==
    /\ signCheckCached \in [Fqdns -> CatalogEntries \union {None}]
    /\ catPc \in {"idle", "pool"}
    /\ catStage \in [Fqdns -> CatStages]
    /\ catEnt \in [Fqdns -> Headers \union {None}]
    /\ catView \in [Fqdns -> Views \union {None}]
    /\ \A f \in CatRunning : catEnt[f] \in Headers
    /\ \A f \in CatRunning : catStage[f] # "health" => catView[f] \in Views
    /\ catEvents \in [Fqdns -> Seq(CatalogEntries \union {None})]
    /\ entries \in [Fqdns -> CatalogEntries \union {None}]

\* Every variable has its type, and a position is one of the key's history.
TypeOK == ConsulTypeOK /\ KvTypeOK /\ PositionsOK /\ CatTypeOK

LastOr(q, x) == IF q = <<>> THEN x ELSE Last1(q)
KvLastTold(f)  == LastOr(kvEvents[f], known[f])
CatLastTold(f) == LastOr(catEvents[f], entries[f])

\* The cache by which pollKV decides that an entry needs no event never runs
\* ahead of the events: what it holds for f is what listeners were last told,
\* or are about to be by the worker that just stored it.
KvFeedSound ==
    InOrder => \A f \in Fqdns : kvStage[f] # "emit" => KvLastTold(f) = signEntsCached[f]

\* The same for signCheckCached, which two goroutines write: a signature it
\* holds is that of the last catalog event emitted, save between a worker's
\* store and its event and between a Delete event and the cache's deletion.
CatSound(f) ==
    \/ signCheckCached[f] = None
    \/ catStage[f] = "emit"
    \/ kvPc = "drop" /\ removing = f
    \/ CatLastTold(f) = signCheckCached[f]
CatalogFeedSound == InOrder => \A f \in Fqdns : CatSound(f)

\* What the removal loop is about to remove is in the cache (its type
\* assertion on the result of Load would panic otherwise) and is absent from
\* the listing: entries that Consul still lists are never removed.
RemovalJustified == \A f \in toRemove : Cached(f) /\ Listed(f) = None

\* When the workers of a poll are done the cache holds what was listed, but for
\* values that cannot be decoded and for names that another worker's failure to
\* decode, written to the shared err, may have made skip theirs.
MisledBy(f, g) == NbWorkers > 1 /\ g # f /\ Listed(g) \in Unreadable
MaySkip(f) == Listed(f) \in Unreadable \/ \E g \in Fqdns : MisledBy(f, g)
PollApplies ==
    kvPc \in {"remove", "check", "drop"} =>
        \A f \in Fqdns \ toRemove : Known(f) = Listed(f) \/ MaySkip(f)

\* A value that cannot be decoded is logged and ignored: it is never cached,
\* hence never told.
UnreadableIgnored == \A f \in Fqdns : Known(f) \notin Unreadable

\* The key of f was written and deleted.
Deleted(f) == \E n \in 2 .. Len(log[f]) : log[f][n] = None

\* DNS stops serving a name only when its key was deleted or the process
\* restarts: no failing request, failing check or other name does that.
DnsKeepsEntries ==
    [][\A f \in Fqdns : entries[f] # None /\ entries'[f] = None =>
          restarts' # restarts \/ Deleted(f)]_vars

\* The inductive invariant behind it: a name that is to be removed, is being
\* removed or has a pending catalog Delete event is one whose key was deleted.
Leaving(f) ==
    \/ f \in toRemove
    \/ kvPc = "check" /\ removing = f
    \/ \E i \in 1 .. Len(catEvents[f]) : catEvents[f][i] = None
DeletedInv == \A f \in Fqdns : Leaving(f) => Deleted(f)

\* The inductive invariant behind PollApplies: it holds of a name as soon as its
\* worker is over, and a worker that finds an error may indeed skip its name.
AppliedOK(f) == Known(f) = Listed(f) \/ f \in toRemove \/ MaySkip(f)
PollInv ==
    kvPc # "idle" => \A f \in Fqdns :
        /\ kvStage[f] \in {"none", "emit"} => AppliedOK(f)
        /\ kvStage[f] = "decoded" /\ err => MaySkip(f)

\* The inductive invariant of the KV side: the positions known, pending,
\* cached and listed for f follow each other, each event bringing news.
News(f, m, n) == m < n /\ log[f][m] # log[f][n]
Before(f, i) == IF i = 1 THEN known[f] ELSE kvEvents[f][i - 1]
KvQueueOK(f) == \A i \in 1 .. Len(kvEvents[f]) : News(f, Before(f, i), kvEvents[f][i])
KvCacheOK(f) ==
    /\ signEntsCached[f] <= kvPairs[f]
    /\ kvStage[f] # "emit" => KvLastTold(f) = signEntsCached[f]
    /\ kvStage[f] = "emit" => /\ signEntsCached[f] = kvPairs[f]
                              /\ News(f, KvLastTold(f), kvPairs[f])
PollPhases ==
    /\ kvPc # "pool" => \A f \in Fqdns : kvStage[f] = "none"
    /\ \A f \in toRemove : kvStage[f] = "none"
RemovalInv == PollPhases /\ RemovalJustified
KvInv == RemovalInv /\ \A f \in Fqdns : KvQueueOK(f) /\ KvCacheOK(f)

\* The inductive invariant of the catalog side: a worker about to emit finds
\* the signature it stored, or none when pollKV dropped it meanwhile.
CatAgrees(f) == catStage[f] = "emit" => signCheckCached[f] \in {None, NewEntry(f)}
CatIdle(f) == catPc = "idle" => catStage[f] = "none"
CatInv == \A f \in Fqdns : CatSound(f) /\ CatAgrees(f) /\ CatIdle(f)

\* The KV listeners are told a history as EntryFeed describes it.
Feed == INSTANCE EntryFeed WITH told <- known
FeedSpec == Feed!Spec

\* Listeners end up knowing the content each key keeps.
KvConverges ==
    \A f \in Fqdns : \A c \in Contents \union {None} :
        <>[](Current(f) = c) => <>[](log[f][known[f]] = c)

\* DNS ends up serving, for every key that stays and whose service stays
\* listed, the header stored last with the members that pass.
CatalogConverges ==
    \A f \in Fqdns : \A c \in Contents, v \in Views :
        <>[](Current(f) = c /\ health[f] = v)
            => <>[](entries[f] = [header |-> HeaderOf[c], view |-> v])

\* The data a server answers from is what the KV store holds: a name whose key
\* is deleted for good is eventually served no more.
DeletedLeavesDns ==
    \A f \in Fqdns : <>[](Current(f) = None) => <>[](entries[f] = None)
=============================================================================
