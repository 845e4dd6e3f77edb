------------------------------- MODULE Serving -------------------------------
(***************************************************************************)
(* From the KV store to DNS answers: Registration composed with the         *)
(* retriever's catalog poll, which asks Consul for the members that pass,   *)
(* and with the DNS handler, which answers with the entry last told.        *)
(* pollCatalog has one worker for the one name; its steps are those whose   *)
(* order with a removal by pollKV makes a difference to DNS (Retriever has  *)
(* all of them).  The signature of an entry is the entry.                   *)
(***************************************************************************)
EXTENDS Registration

CONSTANTS
    HeaderOf,        \* HeaderOf[c]: what of content c is beside its members
    MaxPending       \* bound: catalog events pending when a poll begins

Entries == [header : {HeaderOf[c] : c \in Contents}, members : SUBSET Ips]
Workers == [stage : {"publish", "emit"}, entry : Entries]
ASSUME WorkersAssumption == None \notin Workers

VARIABLES
    worker,          \* the catalog worker's stage and the entry it made, or None
    signCheckCached, \* the signature of what was emitted for the name, or None
    catalogEvents,   \* catalog events emitted and not delivered: entries or None
    entries,         \* the entry DNS answers with, None for an unknown name
    overtaken        \* history: a removal met a worker that had loaded the entry

dns == <<worker, signCheckCached, catalogEvents, entries, overtaken>>
allVars == <<vars, dns>>

ServingInit ==
    /\ Init
    /\ worker = None /\ signCheckCached = None
    /\ catalogEvents = <<>> /\ entries = None /\ overtaken = FALSE

\* The worker of a service that Consul lists and whose entry is cached copies
\* what the entry has beside its members, and asks Health().Service for the
\* members that pass.
Passing == {ip \in Ips : status[ip] = "passing"}
PollCatalog ==
    /\ worker = None
    /\ Len(catalogEvents) < MaxPending
    /\ \E ip \in Ips : services[ip] # None
    /\ Told # None
    /\ worker' = [stage |-> "publish", entry |-> [header |-> HeaderOf[Told], members |-> Passing]]
    /\ UNCHANGED <<vars, signCheckCached, catalogEvents, entries, overtaken>>

\* Mutant: a signature that is cached counts as the same.
SameIfChecked == signCheckCached # None
SameSignature == signCheckCached = worker.entry

\* LoadOrStore, and Store where that found another signature.
PublishCatalog ==
    /\ worker # None
    /\ worker.stage = "publish"
    /\ IF SameSignature
       THEN worker' = None /\ UNCHANGED signCheckCached
       ELSE /\ worker' = [worker EXCEPT !.stage = "emit"]
            /\ signCheckCached' = worker.entry
    /\ UNCHANGED <<vars, catalogEvents, entries, overtaken>>

EmitCatalog ==
    /\ worker # None
    /\ worker.stage = "emit"
    /\ catalogEvents' = Append(catalogEvents, worker.entry)
    /\ worker' = None
    /\ UNCHANGED <<vars, signCheckCached, entries, overtaken>>

RunCatalog == PollCatalog \/ PublishCatalog \/ EmitCatalog

\* SetCatalogEntry, or RemoveCatalogEntry for the event that carries nothing.
DeliverCatalog(i) ==
    /\ i \in Next1(catalogEvents)
    /\ entries' = catalogEvents[i]
    /\ catalogEvents' = RemoveIth(catalogEvents, i)
    /\ UNCHANGED <<vars, worker, signCheckCached, overtaken>>
DeliverCatalogs == \E i \in 1 .. Len(catalogEvents) : DeliverCatalog(i)

\* Mutant: the signature is forgotten before it is looked at.
RemoveDropped ==
    /\ signCheckCached' = None
    /\ overtaken' = (overtaken \/ worker # None)
    /\ UNCHANGED catalogEvents

\* pollKV's removal: the Delete event if a signature is cached, which it then
\* forgets.  Nothing of this looks at a worker under way.
RemoveChecked ==
    /\ catalogEvents' = IF signCheckCached # None THEN Append(catalogEvents, None) ELSE catalogEvents
    /\ signCheckCached' = None
    /\ overtaken' = (overtaken \/ worker # None)

\* pollKV tells a change to the KV listeners, and a removal to DNS as well.
TellBoth(n) ==
    /\ Tell(n)
    /\ IF Content(n) = None THEN RemoveChecked
                            ELSE UNCHANGED <<signCheckCached, catalogEvents, overtaken>>
    /\ UNCHANGED <<worker, entries>>

RestartBoth ==
    /\ Restart
    /\ worker' = None /\ signCheckCached' = None
    /\ catalogEvents' = <<>> /\ entries' = None /\ overtaken' = FALSE

\* What does not reach DNS but through Consul.
HandleKv == JobStep /\ UNCHANGED dns
HandleMember == (\E i \in 1 .. Len(memberEvents) : DeliverMember(i)) /\ UNCHANGED dns
Check(ip) == (CheckBegins(ip) \/ CheckEnds(ip)) /\ UNCHANGED dns

ServingNext ==
    \/ \E c \in Contents \union {None} : Write(c) /\ UNCHANGED dns
    \/ \E n \in 1 .. Len(log[Fqdn]) : TellBoth(n)
    \/ HandleKv \/ HandleMember
    \/ \E ip \in Ips : Check(ip)
    \/ RestartBoth
    \/ RunCatalog \/ DeliverCatalogs

ServingSpec == ServingInit /\ [][ServingNext]_allVars

(* The retriever polls forever, listeners and Consul's checks keep running. *)
FairSpec ==
    /\ ServingSpec
    /\ WF_told(TellBoth(Len(log[Fqdn]))) /\ WF_jobs(HandleKv) /\ WF_memberEvents(HandleMember)
    /\ \A ip \in Ips : WF_checking(Check(ip))
    /\ WF_worker(RunCatalog) /\ WF_catalogEvents(DeliverCatalogs)

-----------------------------------------------------------------------------
(* Properties *)

\* Every variable has its type (a lemma of the proofs).
ServingTypeOK ==
    /\ worker \in Workers \union {None}
    /\ signCheckCached \in Entries \union {None}
    /\ catalogEvents \in Seq(Entries \union {None})
    /\ entries \in Entries \union {None}
    /\ overtaken \in BOOLEAN

Answers == IF entries = None THEN {} ELSE entries.members

\* A name that is told to be removed is answered no more once the events told
\* are delivered, however often it was stored and removed before: only a
\* catalog worker that had loaded the entry when pollKV removed it can make it
\* a ghost (see DeletedLeavesDns of Retriever), and only until the process
\* restarts.
DeletedLeavesUnlessOvertaken ==
    InOrder /\ Told = None /\ catalogEvents = <<>> /\ ~overtaken => entries = None

\* The inductive invariant behind it: the cached signature is that of the last
\* event, or the worker's that is about to emit it.
LastEmitted == IF catalogEvents = <<>> THEN entries ELSE catalogEvents[Len(catalogEvents)]
SignatureInv ==
    InOrder /\ ~overtaken =>
        /\ IF worker # None /\ worker.stage = "emit" THEN signCheckCached = worker.entry
                                                     ELSE signCheckCached = LastEmitted
        /\ Told = None => worker = None /\ signCheckCached = None

\* A member that is disabled all the way from the entry told to what DNS answers:
\* no registration, member event, check, poll or catalog event that is pending
\* could enable it.
EnabledBy(c, ip) == ip \in OwnOf(c) /\ ~MembersOf[c][ip].disabled
AnsweredBy(e, ip) == e # None /\ ip \in e.members
Out(ip) ==
    /\ \A j \in 1 .. Len(jobs) : jobs[j].kind = "set" => ~EnabledBy(jobs[j].entry, ip)
    /\ \A i \in 1 .. Len(memberEvents) : memberEvents[i].ip = ip => memberEvents[i].disabled
    /\ ip \in disabledEntIp
    /\ checking[ip] \in {None, "critical"} /\ status[ip] = "critical"
    /\ worker # None => ip \notin worker.entry.members
    /\ ~AnsweredBy(entries, ip)
    /\ \A i \in 1 .. Len(catalogEvents) : ~AnsweredBy(catalogEvents[i], ip)

\* It stays out, unless an entry that enables it is told or the process restarts
\* (HcHandler forgets what is disabled): no write that is not told, no other
\* member's events, no removal or registration, failed or not, no check of a
\* backend that is up, no poll and no order of these brings it back.
DisabledStaysOut ==
    [][\A ip \in Ips :
          Out(ip) /\ restarts' = restarts /\ (told' = told \/ ~EnabledBy(Told', ip))
          => Out(ip)']_allVars

\* A member that stays disabled in the store is eventually answered no more,
\* whatever was checked, polled or pending and whenever the process restarted,
\* unless the last request for it failed: without any service Consul does not
\* list the name, which then keeps the answers it had.
DisabledLeavesDns ==
    \A c \in Contents : \A ip \in OwnOf(c) : MembersOf[c][ip].disabled =>
        (<>[](Stored = c /\ ip \notin missed) => <>[](ip \notin Answers))

\* A member that stays enabled, and whose backend is up whenever it is asked
\* from some time on, is eventually answered for good: it was registered, the
\* health check handler does not refuse it any more, and DNS was told.
BackendUp(ip) ==
    checking[ip] = None /\ checking'[ip] # None => checking'[ip] = "passing" \/ ip \in disabledEntIp
EnabledReachesDns ==
    \A c \in Contents : \A ip \in OwnOf(c) : ~MembersOf[c][ip].disabled =>
        (<>[](Stored = c /\ ip \notin missed) /\ <>[][BackendUp(ip)]_checking
            => <>[](ip \in Answers))
=============================================================================
