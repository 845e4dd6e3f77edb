---------------------------- MODULE Registration ----------------------------
(***************************************************************************)
(* How the members of one entry become Consul services whose health check  *)
(* is answered by GSLoC: the KV listener (regs.RegKV, disco.Consul-         *)
(* Discoverer) registers them with the local agent, tells the member        *)
(* listener (regs.RegMember, healthchecks.HcHandler) which are disabled,    *)
(* and Consul posts to HcHandler to know whether a member passes.           *)
(*                                                                         *)
(* KV events come from the retriever; all that is used of it is EntryFeed,  *)
(* which Retriever implements.                                              *)
(***************************************************************************)
EXTENDS Naturals, Sequences

CONSTANTS
    Fqdn,         \* the entry's name
    Ips,          \* addresses of members
    Contents,     \* contents of the entry's key
    MembersOf,    \* MembersOf[c]: a function from c's addresses to their member
    None,         \* no value
    InOrder,      \* the emitter runs listeners one event at a time, in order
    MaxWrites,    \* bound: writes of the key
    MaxFaults     \* bound: failing requests to the agent, and restarts of the process

\* A member: is it of this server's datacenter, is it disabled.
Members == [own : BOOLEAN, disabled : BOOLEAN]

ASSUME NoneAssumption == None \notin Contents /\ None \notin Ips
ASSUME MembersAssumption ==
    /\ DOMAIN MembersOf = Contents
    /\ \A c \in Contents : /\ DOMAIN MembersOf[c] \subseteq Ips
                           /\ \A ip \in DOMAIN MembersOf[c] : MembersOf[c][ip] \in Members
ASSUME InOrderAssumption == InOrder \in BOOLEAN

VARIABLES
    log, told,      \* the key's history and what was told of it (EntryFeed)
    jobs,           \* KV events being handled, oldest first
    services,       \* the agent: the member each address is registered as, or None
    status,         \* the agent: the last result of each service's check
    checking,       \* the result a running check is to report, or None
    memberEvents,   \* member events emitted and not delivered
    disabledEntIp,  \* HcHandler: addresses whose check fails at once
    missed,         \* history: addresses whose last (de)registration failed
    failures, restarts

feed   == <<log, told>>
agent  == <<services, status, checking, missed, failures>>
member == <<memberEvents, disabledEntIp>>
vars   == <<feed, jobs, agent, member, restarts>>

Feed == INSTANCE EntryFeed WITH Fqdns <- {Fqdn}

Content(n) == log[Fqdn][n]
Stored == Content(Len(log[Fqdn]))
Told == Content(told[Fqdn])
AllOf(c) == IF c = None THEN {} ELSE DOMAIN MembersOf[c]
OwnOf(c) == {ip \in AllOf(c) : MembersOf[c][ip].own}

RemoveIth(s, i) == SubSeq(s, 1, i - 1) \o SubSeq(s, i + 1, Len(s))
\* The elements of a queue that may be handled next.
Next1(q) == IF InOrder THEN {i \in 1 .. Len(q) : i = 1} ELSE 1 .. Len(q)

Init ==
    /\ Feed!Init
    /\ jobs = <<>> /\ memberEvents = <<>> /\ disabledEntIp = {}
    /\ services = [ip \in Ips |-> None]
    /\ status = [ip \in Ips |-> "critical"]
    /\ checking = [ip \in Ips |-> None]
    /\ missed = {} /\ failures = 0 /\ restarts = 0

\* Some GSLoC server of the cluster writes or deletes the key.
Write(c) ==
    /\ Len(log[Fqdn]) <= MaxWrites
    /\ c # Stored
    /\ Feed!Write(Fqdn, c)
    /\ UNCHANGED <<jobs, agent, member, restarts>>

-----------------------------------------------------------------------------
(* The KV listener.  A job is one event: SetKVEntry of the entry stored or   *)
(* RemoveKvEntry of the entry that was.  todo are the members it has not    *)
(* come to, at is the one whose registration it is about to request.        *)

\* Mutant: only the members that the entry gains are handled.
JobOfNew(n) ==
    IF Content(n) = None THEN [kind |-> "remove", entry |-> Told, todo |-> AllOf(Told), at |-> None]
    ELSE [kind |-> "set", entry |-> Content(n), todo |-> AllOf(Content(n)) \ AllOf(Told),
          at |-> None]

\* Mutant: only members of this datacenter are deregistered.
JobOfOwn(n) ==
    IF Content(n) = None THEN [kind |-> "remove", entry |-> Told, todo |-> OwnOf(Told), at |-> None]
    ELSE [kind |-> "set", entry |-> Content(n), todo |-> AllOf(Content(n)), at |-> None]

Job(n) ==
    IF Content(n) = None THEN [kind |-> "remove", entry |-> Told, todo |-> AllOf(Told), at |-> None]
    ELSE [kind |-> "set", entry |-> Content(n), todo |-> AllOf(Content(n)), at |-> None]

Tell(n) ==
    /\ Feed!Tell(Fqdn, n)
    /\ jobs' = Append(jobs, Job(n))
    /\ UNCHANGED <<agent, member, restarts>>

\* registerMembers: a member of another datacenter is skipped, ...
SkipMember(j, ip) ==
    /\ jobs[j].kind = "set" /\ jobs[j].at = None /\ ip \in jobs[j].todo
    /\ ip \notin OwnOf(jobs[j].entry)
    /\ jobs' = [jobs EXCEPT ![j].todo = @ \ {ip}]
    /\ UNCHANGED <<feed, agent, member, restarts>>

\* ... for another one EmitMember tells whether it is disabled ...
EmitMember(j, ip) ==
    /\ jobs[j].kind = "set" /\ jobs[j].at = None /\ ip \in jobs[j].todo
    /\ ip \in OwnOf(jobs[j].entry)
    /\ memberEvents' =
          Append(memberEvents, [ip |-> ip, disabled |-> MembersOf[jobs[j].entry][ip].disabled])
    /\ jobs' = [jobs EXCEPT ![j].todo = @ \ {ip}, ![j].at = ip]
    /\ UNCHANGED <<feed, agent, disabledEntIp, restarts>>

\* Mutant: a service that is not registered any more keeps its result.
RequestKeepsStatus(ip, m) ==
    /\ services' = [services EXCEPT ![ip] = m]
    /\ missed' = missed \ {ip}
    /\ UNCHANGED <<status, checking, failures>>

\* A request for ip either changes what the agent registers for it, or fails,
\* which is only logged.  A service that was registered keeps its status.
Request(ip, m) ==
    \/ /\ services' = [services EXCEPT ![ip] = m]
       /\ status' = IF services[ip] = None \/ m = None
                    THEN [status EXCEPT ![ip] = "critical"] ELSE status
       /\ missed' = missed \ {ip}
       /\ UNCHANGED <<checking, failures>>
    \/ /\ failures + restarts < MaxFaults
       /\ failures' = failures + 1
       /\ missed' = missed \union {ip}
       /\ UNCHANGED <<services, status, checking>>

\* ... and ServiceRegister is requested.
Register(j) ==
    /\ jobs[j].at # None
    /\ Request(jobs[j].at, MembersOf[jobs[j].entry][jobs[j].at])
    /\ jobs' = [jobs EXCEPT ![j].at = None]
    /\ UNCHANGED <<feed, member, restarts>>

\* deregisterMembers, for members of any datacenter.
Deregister(j, ip) ==
    /\ jobs[j].kind = "remove" /\ ip \in jobs[j].todo
    /\ Request(ip, None)
    /\ jobs' = [jobs EXCEPT ![j].todo = @ \ {ip}]
    /\ UNCHANGED <<feed, member, restarts>>

JobDone(j) ==
    /\ jobs[j].todo = {} /\ jobs[j].at = None
    /\ jobs' = RemoveIth(jobs, j)
    /\ UNCHANGED <<feed, agent, member, restarts>>

JobStep == \E j \in Next1(jobs) :
    \/ \E ip \in Ips : SkipMember(j, ip) \/ EmitMember(j, ip) \/ Deregister(j, ip)
    \/ Register(j) \/ JobDone(j)

-----------------------------------------------------------------------------
(* The member listener and the health check *)

DisableEntryIp(ip) == disabledEntIp' = disabledEntIp \union {ip}
\* Mutant: an address that was disabled once stays so.
EnableNothing(ip) == UNCHANGED disabledEntIp
EnableEntryIp(ip) == disabledEntIp' = disabledEntIp \ {ip}

DeliverMember(i) ==
    /\ i \in Next1(memberEvents)
    /\ LET e == memberEvents[i]
       IN  IF e.disabled THEN DisableEntryIp(e.ip) ELSE EnableEntryIp(e.ip)
    /\ memberEvents' = RemoveIth(memberEvents, i)
    /\ UNCHANGED <<feed, jobs, agent, restarts>>

\* Mutant: disabled addresses are checked like others.
CheckResultsOfAll(ip) == {"passing", "critical"}
\* ServeHTTP: 410 when the address is disabled, else what the backend says.
CheckResults(ip) == IF ip \in disabledEntIp THEN {"critical"} ELSE {"passing", "critical"}

\* Consul posts to HcHandler every interval and keeps the answer it gets.
CheckBegins(ip) ==
    /\ services[ip] # None
    /\ checking[ip] = None
    /\ \E r \in CheckResults(ip) : checking' = [checking EXCEPT ![ip] = r]
    /\ UNCHANGED <<feed, jobs, services, status, missed, failures, member, restarts>>

CheckEnds(ip) ==
    /\ checking[ip] # None
    /\ status' = IF services[ip] = None THEN status ELSE [status EXCEPT ![ip] = checking[ip]]
    /\ checking' = [checking EXCEPT ![ip] = None]
    /\ UNCHANGED <<feed, jobs, services, missed, failures, member, restarts>>

\* The process restarts; the agent keeps its services, and a check that was
\* running gets no answer.
Restart ==
    /\ failures + restarts < MaxFaults
    /\ restarts' = restarts + 1
    /\ Feed!Restart
    /\ jobs' = <<>> /\ memberEvents' = <<>> /\ disabledEntIp' = {}
    /\ checking' = [ip \in Ips |-> IF checking[ip] = None THEN None ELSE "critical"]
    /\ UNCHANGED <<services, status, missed, failures>>

-----------------------------------------------------------------------------
Next ==
    \/ \E c \in Contents \union {None} : Write(c)
    \/ \E n \in 1 .. Len(log[Fqdn]) : Tell(n)
    \/ JobStep
    \/ \E i \in 1 .. Len(memberEvents) : DeliverMember(i)
    \/ \E ip \in Ips : CheckBegins(ip) \/ CheckEnds(ip)
    \/ Restart

Spec == Init /\ [][Next]_vars

-----------------------------------------------------------------------------
(* Properties *)

Jobs == [kind : {"set", "remove"}, entry : Contents, todo : SUBSET Ips, at : Ips \union {None}]
MemberEvents == [ip : Ips, disabled : BOOLEAN]

\* Every variable has its type; only a service has a result other than critical.
TypeOK ==
    /\ log \in [{Fqdn} -> Seq(Contents \union {None})]
    /\ told \in [{Fqdn} -> Nat] /\ told[Fqdn] \in 1 .. Len(log[Fqdn])
    /\ jobs \in Seq(Jobs)
    /\ \A j \in 1 .. Len(jobs) : jobs[j].at # None =>
          jobs[j].kind = "set" /\ jobs[j].at \in OwnOf(jobs[j].entry)
    /\ services \in [Ips -> Members \union {None}]
    /\ status \in [Ips -> {"passing", "critical"}]
    /\ \A ip \in Ips : status[ip] = "passing" => services[ip] # None
    /\ checking \in [Ips -> {"passing", "critical", None}]
    /\ memberEvents \in Seq(MemberEvents)
    /\ disabledEntIp \subseteq Ips /\ missed \subseteq Ips
    /\ failures \in Nat /\ restarts \in Nat

\* Each member that the entry last told has in this datacenter is registered as
\* that entry says, or a job of that entry, behind whatever older jobs have still
\* to do, is to register it, unless the last request for it failed.  Events are
\* taken to be delivered in order.  Of addresses that are not in the entry told, or
\* when none is, nothing is said: see RemovalDeregisters and ServicesFollowStore.
ToRegister(j, ip) ==
    /\ jobs[j].kind = "set" /\ jobs[j].entry = Told
    /\ ip \in jobs[j].todo \union {jobs[j].at}
AgentFollows ==
    InOrder => \A ip \in OwnOf(Told) \ missed :
        services[ip] = MembersOf[Told][ip] \/ \E j \in 1 .. Len(jobs) : ToRegister(j, ip)

\* Once a removal is handled no member of the entry removed stays registered.
RemovalDeregisters ==
    [][\A ip \in Ips \ missed' :
          InOrder /\ restarts' = restarts /\ jobs # <<>> /\ jobs' = Tail(jobs)
              /\ jobs[1].kind = "remove" /\ ip \in AllOf(jobs[1].entry)
          => services'[ip] = None]_vars

\* Once member events are delivered too, HcHandler refuses exactly the members
\* the entry disables.
HandlerFollows ==
    InOrder /\ jobs = <<>> /\ memberEvents = <<>> =>
        \A ip \in OwnOf(Told) : ip \in disabledEntIp <=> MembersOf[Told][ip].disabled

\* The inductive invariant behind these three.  JobsInv: only the oldest job has
\* begun, and the youngest is for the entry last told.  Each member of that entry
\* is still to be handled by the youngest job, or the agent is as AgentFollows
\* says, and HcHandler is, or will be after the events that are pending.
Youngest == jobs[Len(jobs)]
JobsInv ==
    /\ \A j \in 2 .. Len(jobs) : jobs[j].at = None /\ jobs[j].todo = AllOf(jobs[j].entry)
    /\ jobs # <<>> => IF Told = None THEN Youngest.kind = "remove"
                      ELSE Youngest.kind = "set" /\ Youngest.entry = Told
AgentSettled(ip) == ip \in missed \/ services[ip] = MembersOf[Told][ip]
\* The last event pending for ip, or what HcHandler has when there is none.
HandlerSettled(ip) ==
    LET d == MembersOf[Told][ip].disabled
        n == Len(memberEvents)
    IN  \/ \E i \in 1 .. n : /\ memberEvents[i] = [ip |-> ip, disabled |-> d]
                             /\ \A k \in (i + 1) .. n : memberEvents[k].ip # ip
        \/ (\A k \in 1 .. n : memberEvents[k].ip # ip) /\ (ip \in disabledEntIp <=> d)
SettledInv ==
    \A ip \in OwnOf(Told) :
        \/ jobs # <<>> /\ ip \in Youngest.todo
        \/ /\ HandlerSettled(ip)
           /\ AgentSettled(ip) \/ (jobs # <<>> /\ ip = Youngest.at)
RemovalInv ==
    jobs # <<>> /\ jobs[1].kind = "remove" =>
        \A ip \in AllOf(jobs[1].entry) : ip \in jobs[1].todo \union missed \/ services[ip] = None
RegInv ==
    /\ Content(1) = None
    /\ InOrder => JobsInv /\ SettledInv /\ RemovalInv

\* A member that stays disabled is eventually no longer answered, whatever
\* checks were running and whenever the process restarted.
DisabledLeaves ==
    \A c \in Contents : \A ip \in OwnOf(c) : MembersOf[c][ip].disabled =>
        (<>[](Stored = c) => <>[](status[ip] = "critical"))

\* A member that stays in the entry is eventually registered as it says,
\* unless the last request for it failed: failures are not retried.
MembersArrive ==
    \A c \in Contents : \A ip \in OwnOf(c) :
        <>[](Stored = c /\ ip \notin missed) => <>[](services[ip] = MembersOf[c][ip])

\* GSLoC manages the Consul services of the data in the KV store: an address
\* that stays out of the entry is eventually not registered.
ServicesFollowStore ==
    \A ip \in Ips : <>[](ip \notin OwnOf(Stored)) => <>[](services[ip] = None)

=============================================================================
