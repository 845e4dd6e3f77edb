---------------------------- MODULE ServingProofs ----------------------------
(* The composition keeps what Registration guarantees, a name that is removed *)
(* leaves DNS unless a catalog worker holds it, and a disabled member stays out. *)
EXTENDS Serving, RegistrationProofs

\* Every step of the composition is one of Registration, or leaves it alone.
THEOREM Composition == ServingSpec => Spec
  <1>1. ServingInit => Init
    BY DEF ServingInit
  <1>2. [ServingNext]_allVars => [Next]_vars
    <2>. SUFFICES ASSUME [ServingNext]_allVars PROVE [Next]_vars
      OBVIOUS
    <2>1. CASE \E c \in Contents \union {None} : Write(c) /\ UNCHANGED dns
      BY <2>1 DEF Next
    <2>2. CASE \E n \in 1 .. Len(log[Fqdn]) : TellBoth(n)
      BY <2>2 DEF Next, TellBoth
    <2>3. CASE HandleKv
      BY <2>3 DEF Next, HandleKv
    <2>4. CASE HandleMember
      BY <2>4 DEF Next, HandleMember
    <2>5. CASE \E ip \in Ips : Check(ip)
      BY <2>5 DEF Next, Check
    <2>6. CASE RestartBoth
      BY <2>6 DEF Next, RestartBoth
    <2>7. CASE RunCatalog \/ DeliverCatalogs
      BY <2>7 DEF RunCatalog, PollCatalog, PublishCatalog, EmitCatalog, DeliverCatalogs, DeliverCatalog
    <2>8. CASE UNCHANGED allVars
      BY <2>8 DEF allVars
    <2>. QED  BY <2>1, <2>2, <2>3, <2>4, <2>5, <2>6, <2>7, <2>8 DEF ServingNext
  <1>. QED  BY <1>1, <1>2, PTL DEF ServingSpec, Spec

\* So what is proved of Registration holds while the catalog is polled.
THEOREM RegistrationServed ==
    ServingSpec => [](TypeOK /\ AgentFollows /\ HandlerFollows) /\ RemovalDeregisters
  BY Composition, TypeCorrect, AgentFollowsCorrect, HandlerFollowsCorrect,
     RemovalDeregistersCorrect, PTL

-----------------------------------------------------------------------------
(* Types of the catalog's side *)

Answer == Entries \union {None}

LEMMA EventsTyped ==
    ASSUME ServingTypeOK
    PROVE  /\ catalogEvents \in Seq(Answer) /\ Len(catalogEvents) \in Nat
           /\ catalogEvents = <<>> <=> Len(catalogEvents) = 0
  BY LenProperties, EmptySeq DEF ServingTypeOK, Answer

\* What is appended to the pending events comes last.
LEMMA EventAppended ==
    ASSUME ServingTypeOK, NEW v \in Answer, catalogEvents' = Append(catalogEvents, v)
    PROVE  /\ catalogEvents' \in Seq(Answer) /\ Len(catalogEvents') = Len(catalogEvents) + 1
           /\ \A i \in 1 .. Len(catalogEvents) : catalogEvents'[i] = catalogEvents[i]
           /\ catalogEvents'[Len(catalogEvents) + 1] = v
           /\ LastEmitted' = v
  <1>1. /\ catalogEvents' \in Seq(Answer) /\ Len(catalogEvents') = Len(catalogEvents) + 1
        /\ \A i \in 1 .. Len(catalogEvents) : catalogEvents'[i] = catalogEvents[i]
        /\ catalogEvents'[Len(catalogEvents) + 1] = v
    BY EventsTyped, AppendProperties
  <1>2. catalogEvents' # <<>>
    BY <1>1, EventsTyped, EmptySeq
  <1>. QED  BY <1>1, <1>2 DEF LastEmitted

LEMMA ServingTypes == ServingSpec => []ServingTypeOK
  <1>0. <<>> \in Seq(Answer)
    BY EmptySeq
  <1>1. ServingInit => ServingTypeOK
    BY <1>0 DEF ServingInit, ServingTypeOK, Answer
  <1>2. TypeOK /\ ServingTypeOK /\ [ServingNext]_allVars => ServingTypeOK'
    <2>. SUFFICES ASSUME TypeOK, ServingTypeOK, [ServingNext]_allVars PROVE ServingTypeOK'
      OBVIOUS
    <2>1. ASSUME UNCHANGED dns PROVE ServingTypeOK'
      BY <2>1 DEF dns, ServingTypeOK
    <2>2. ASSUME NEW n \in 1 .. Len(log[Fqdn]), TellBoth(n) PROVE ServingTypeOK'
      <3>1. CASE Content(n) = None
        <4>1. signCheckCached' = None /\ overtaken' \in BOOLEAN
          BY <2>2, <3>1 DEF TellBoth, RemoveChecked, ServingTypeOK
        <4>2. catalogEvents' \in Seq(Answer)
          <5>1. catalogEvents' = catalogEvents \/ catalogEvents' = Append(catalogEvents, None)
            BY <2>2, <3>1 DEF TellBoth, RemoveChecked
          <5>. QED  BY <5>1, EventsTyped, AppendProperties DEF Answer
        <4>. QED  BY <2>2, <4>1, <4>2 DEF TellBoth, ServingTypeOK, Answer
      <3>2. CASE Content(n) # None
        BY <2>1, <2>2, <3>2 DEF TellBoth, dns
      <3>. QED  BY <3>1, <3>2
    <2>3. CASE RestartBoth
      BY <1>0, <2>3 DEF RestartBoth, ServingTypeOK, Answer
    <2>4. CASE PollCatalog
      <3>1. Told \in Contents
        BY <2>4, ToldType DEF PollCatalog
      <3>2. [header |-> HeaderOf[Told], members |-> Passing] \in Entries
        BY <3>1 DEF Entries, Passing
      <3>3. worker' \in Workers
        BY <2>4, <3>2 DEF PollCatalog, Workers
      <3>. QED  BY <2>4, <3>3 DEF PollCatalog, ServingTypeOK
    <2>5. CASE PublishCatalog
      <3>1. worker \in Workers
        BY <2>5 DEF PublishCatalog, ServingTypeOK, Workers
      <3>2. worker.entry \in Entries /\ [worker EXCEPT !.stage = "emit"] \in Workers
        BY <3>1 DEF Workers
      <3>. QED  BY <2>5, <3>2 DEF PublishCatalog, ServingTypeOK, Workers
    <2>6. CASE EmitCatalog
      <3>1. worker.entry \in Answer
        BY <2>6 DEF EmitCatalog, ServingTypeOK, Workers, Answer
      <3>2. catalogEvents' \in Seq(Answer)
        BY <2>6, <3>1, EventAppended DEF EmitCatalog
      <3>. QED  BY <2>6, <3>2 DEF EmitCatalog, ServingTypeOK, Answer
    <2>7. ASSUME NEW i \in 1 .. Len(catalogEvents), DeliverCatalog(i) PROVE ServingTypeOK'
      <3>1. catalogEvents[i] \in Answer /\ catalogEvents' \in Seq(Answer)
        BY <2>7, EventsTyped, ElementOfSeq, RemoveIthProperties DEF DeliverCatalog
      <3>. QED  BY <2>7, <3>1 DEF DeliverCatalog, ServingTypeOK, Answer
    <2>8. CASE UNCHANGED allVars
      BY <2>1, <2>8 DEF allVars
    <2>. QED  BY <2>1, <2>2, <2>3, <2>4, <2>5, <2>6, <2>7, <2>8
              DEF ServingNext, RunCatalog, DeliverCatalogs, HandleKv, HandleMember, Check
  <1>. QED  BY <1>1, <1>2, Composition, TypeCorrect, PTL DEF ServingSpec

-----------------------------------------------------------------------------
(* A removed name leaves DNS *)

\* Delivering the oldest event leaves the last one emitted what it was.
LEMMA LastEmittedKept ==
    ASSUME ServingTypeOK, InOrder, NEW i \in 1 .. Len(catalogEvents), DeliverCatalog(i)
    PROVE  LastEmitted' = LastEmitted
  <1>1. i = 1 /\ catalogEvents' = RemoveIth(catalogEvents, 1) /\ entries' = catalogEvents[1]
    BY NextIsOne DEF DeliverCatalog
  <1>2. catalogEvents \in Seq(Answer) /\ Len(catalogEvents) \in Nat /\ catalogEvents # <<>>
    BY EventsTyped
  <1>3. /\ Len(catalogEvents') = Len(catalogEvents) - 1
        /\ \A j \in 1 .. (Len(catalogEvents) - 1) : catalogEvents'[j] = catalogEvents[j + 1]
        /\ catalogEvents' = <<>> <=> Len(catalogEvents') = 0
    <2>1. catalogEvents' \in Seq(Answer)
      BY <1>1, <1>2, RemoveIthProperties
    <2>. QED  BY <1>1, <1>2, <2>1, OldestRemoved, EmptySeq
  <1>4. CASE Len(catalogEvents) = 1
    BY <1>1, <1>2, <1>3, <1>4 DEF LastEmitted
  <1>5. CASE Len(catalogEvents) # 1
    <2>1. /\ Len(catalogEvents') = Len(catalogEvents) - 1 /\ catalogEvents' # <<>>
          /\ Len(catalogEvents') \in 1 .. (Len(catalogEvents) - 1)
          /\ Len(catalogEvents') + 1 = Len(catalogEvents)
      BY <1>2, <1>3, <1>5
    <2>2. catalogEvents'[Len(catalogEvents')] = catalogEvents[Len(catalogEvents)]
      BY <1>3, <2>1
    <2>. QED  BY <1>2, <2>1, <2>2 DEF LastEmitted
  <1>. QED  BY <1>4, <1>5

\* Steps of the others leave the entry told, or tell one: what is emitted and what
\* the signature cache has is theirs to keep.
LEMMA SignatureKept ==
    ASSUME SignatureInv, UNCHANGED dns, Told' = Told
    PROVE  SignatureInv'
  BY DEF SignatureInv, dns, LastEmitted

\* A removal: with a cached signature, which is the last event's, the Delete event
\* comes last; without one DNS has nothing.
LEMMA RemovalKeepsSignature ==
    ASSUME ServingTypeOK, SignatureInv, RemoveChecked, UNCHANGED <<worker, entries>>
    PROVE  SignatureInv'
  <1>. SUFFICES ASSUME InOrder, ~overtaken'
                PROVE  worker' = None /\ signCheckCached' = None /\ LastEmitted' = None
    BY DEF SignatureInv
  <1>1. ~overtaken /\ worker = None /\ worker' = None /\ signCheckCached' = None
    BY DEF RemoveChecked, ServingTypeOK
  <1>2. signCheckCached = LastEmitted
    BY <1>1 DEF SignatureInv
  <1>3. CASE signCheckCached # None
    BY <1>3, EventAppended DEF RemoveChecked, Answer
  <1>4. CASE signCheckCached = None
    BY <1>2, <1>4 DEF RemoveChecked, LastEmitted
  <1>. QED  BY <1>1, <1>3, <1>4

\* The worker's steps: it stores the signature of what it then emits.
LEMMA WorkerKeepsSignature ==
    ASSUME TypeOK, ServingTypeOK, SignatureInv, RunCatalog
    PROVE  SignatureInv'
  <1>1. Told' = Told /\ entries' = entries /\ overtaken' = overtaken
    BY DEF RunCatalog, PollCatalog, PublishCatalog, EmitCatalog, vars, feed, Told, Content
  <1>. SUFFICES ASSUME InOrder, ~overtaken
                PROVE  /\ IF worker' # None /\ worker'.stage = "emit" THEN signCheckCached' = worker'.entry
                                                              ELSE signCheckCached' = LastEmitted'
                       /\ Told = None => worker' = None /\ signCheckCached' = None
    BY <1>1 DEF SignatureInv
  <1>2. CASE PollCatalog
    <2>1. /\ worker'.stage = "publish" /\ Told # None /\ signCheckCached = LastEmitted
          /\ signCheckCached' = signCheckCached /\ catalogEvents' = catalogEvents
      BY <1>2 DEF PollCatalog, SignatureInv
    <2>. QED  BY <1>1, <2>1 DEF LastEmitted
  <1>3. CASE PublishCatalog
    <2>1. worker \in Workers /\ worker.stage # "emit" /\ Told # None
      BY <1>3 DEF PublishCatalog, ServingTypeOK, SignatureInv
    <2>2. signCheckCached = LastEmitted /\ catalogEvents' = catalogEvents
      BY <1>3, <2>1 DEF PublishCatalog, SignatureInv
    <2>3. CASE SameSignature
      BY <1>1, <1>3, <2>1, <2>2, <2>3 DEF PublishCatalog, LastEmitted
    <2>4. CASE ~SameSignature
      <3>1. worker' = [worker EXCEPT !.stage = "emit"] /\ signCheckCached' = worker.entry
        BY <1>3, <2>4 DEF PublishCatalog
      <3>2. worker' \in Workers /\ worker'.stage = "emit" /\ worker'.entry = worker.entry
        BY <2>1, <3>1 DEF Workers
      <3>. QED  BY <2>1, <3>1, <3>2, WorkersAssumption
    <2>. QED  BY <2>3, <2>4
  <1>4. CASE EmitCatalog
    <2>1. /\ worker' = None /\ Told # None /\ signCheckCached = worker.entry
          /\ signCheckCached' = signCheckCached
      BY <1>4 DEF EmitCatalog, SignatureInv
    <2>2. worker.entry \in Answer
      BY <1>4 DEF EmitCatalog, ServingTypeOK, Workers, Answer
    <2>3. LastEmitted' = worker.entry
      BY <1>4, <2>2, EventAppended DEF EmitCatalog
    <2>. QED  BY <2>1, <2>3
  <1>. QED  BY <1>2, <1>3, <1>4 DEF RunCatalog

LEMMA SignatureInductive ==
    TypeOK /\ ServingTypeOK /\ SignatureInv /\ [ServingNext]_allVars => SignatureInv'
  <1>. SUFFICES ASSUME TypeOK, ServingTypeOK, SignatureInv, [ServingNext]_allVars
                PROVE  SignatureInv'
    OBVIOUS
  <1>1. ASSUME NEW c \in Contents \union {None}, Write(c), UNCHANGED dns PROVE SignatureInv'
    BY <1>1, WriteFacts, SignatureKept
  <1>2. ASSUME NEW n \in 1 .. Len(log[Fqdn]), TellBoth(n) PROVE SignatureInv'
    <2>1. Told' = Content(n)
      BY <1>2, TellFacts DEF TellBoth
    <2>2. CASE Content(n) = None
      BY <1>2, <2>2, RemovalKeepsSignature DEF TellBoth
    <2>3. CASE Content(n) # None
      BY <1>2, <2>1, <2>3 DEF TellBoth, SignatureInv, LastEmitted
    <2>. QED  BY <2>2, <2>3
  <1>3. CASE HandleKv
    <2>1. UNCHANGED feed
      BY <1>3 DEF HandleKv, JobStep, SkipMember, EmitMember, Register, Deregister, JobDone
    <2>. QED  BY <1>3, <2>1, SignatureKept DEF HandleKv, feed, Told, Content
  <1>4. CASE HandleMember
    BY <1>4, SignatureKept DEF HandleMember, DeliverMember, feed, Told, Content
  <1>5. ASSUME NEW ip \in Ips, Check(ip) PROVE SignatureInv'
    BY <1>5, SignatureKept DEF Check, CheckBegins, CheckEnds, feed, Told, Content
  <1>6. CASE RestartBoth
    BY <1>6 DEF RestartBoth, SignatureInv, LastEmitted
  <1>7. CASE RunCatalog
    BY <1>7, WorkerKeepsSignature
  <1>8. CASE DeliverCatalogs
    <2>1. PICK i \in 1 .. Len(catalogEvents) : DeliverCatalog(i)
      BY <1>8 DEF DeliverCatalogs
    <2>2. UNCHANGED <<vars, worker, signCheckCached, overtaken>> /\ Told' = Told
      BY <2>1 DEF DeliverCatalog, vars, feed, Told, Content
    <2>3. InOrder => LastEmitted' = LastEmitted
      BY <2>1, LastEmittedKept
    <2>. QED  BY <2>2, <2>3 DEF SignatureInv
  <1>9. CASE UNCHANGED allVars
    BY <1>9, SignatureKept DEF allVars, vars, feed, Told, Content
  <1>. QED  BY <1>1, <1>2, <1>3, <1>4, <1>5, <1>6, <1>7, <1>8, <1>9 DEF ServingNext

\* With in-order delivery a name that pollKV removed is answered no more once its
\* events are delivered, however often it came and went before, unless a worker of
\* pollCatalog had loaded it when it was removed.
THEOREM DeletedLeavesCorrect == ServingSpec => []DeletedLeavesUnlessOvertaken
  <1>1. ServingInit => SignatureInv
    BY DEF ServingInit, SignatureInv, LastEmitted
  <1>2. SignatureInv => DeletedLeavesUnlessOvertaken
    BY DEF SignatureInv, DeletedLeavesUnlessOvertaken, LastEmitted
  <1>. QED  BY <1>1, <1>2, SignatureInductive, ServingTypes, Composition, TypeCorrect, PTL
            DEF ServingSpec

-----------------------------------------------------------------------------
(* A member that is out stays out, part by part of what Out says *)

JobsOut(ip) == \A j \in 1 .. Len(jobs) : jobs[j].kind = "set" => ~EnabledBy(jobs[j].entry, ip)
EventsOut(ip) ==
    \A i \in 1 .. Len(memberEvents) : memberEvents[i].ip = ip => memberEvents[i].disabled
CheckOut(ip) == checking[ip] \in {None, "critical"} /\ status[ip] = "critical"
DnsOut(ip) ==
    /\ worker # None => ip \notin worker.entry.members
    /\ ~AnsweredBy(entries, ip)
    /\ \A i \in 1 .. Len(catalogEvents) : ~AnsweredBy(catalogEvents[i], ip)

LEMMA OutParts ==
    ASSUME NEW ip
    PROVE  Out(ip) <=> /\ JobsOut(ip) /\ EventsOut(ip) /\ ip \in disabledEntIp
                       /\ CheckOut(ip) /\ DnsOut(ip)
  BY DEF Out, JobsOut, EventsOut, CheckOut, DnsOut

LEMMA OutPartsAfter ==
    ASSUME NEW ip, JobsOut(ip)', EventsOut(ip)', ip \in disabledEntIp', CheckOut(ip)', DnsOut(ip)'
    PROVE  Out(ip)'
  BY DEF Out, JobsOut, EventsOut, CheckOut, DnsOut

\* Each part only looks at variables of its own.
LEMMA OutUnchanged ==
    ASSUME NEW ip
    PROVE  /\ jobs' = jobs /\ JobsOut(ip) => JobsOut(ip)'
           /\ memberEvents' = memberEvents /\ EventsOut(ip) => EventsOut(ip)'
           /\ checking' = checking /\ status' = status /\ CheckOut(ip) => CheckOut(ip)'
           /\ UNCHANGED dns /\ DnsOut(ip) => DnsOut(ip)'
  BY DEF JobsOut, EventsOut, CheckOut, DnsOut, EnabledBy, OwnOf, AllOf, AnsweredBy, dns

\* A job that advances enables whom it enabled.
LEMMA AdvanceOut ==
    ASSUME TypeOK, NEW ip, JobsOut(ip), NEW j \in 1 .. Len(jobs), NEW e, Advance(j, e)
    PROVE  JobsOut(ip)'
  <1>1. jobs \in Seq(Jobs) /\ e \in Jobs /\ jobs' = [jobs EXCEPT ![j] = e]
    BY DEF TypeOK, Advance
  <1>2. /\ Len(jobs') = Len(jobs)
        /\ \A i \in 1 .. Len(jobs) : jobs'[i] = IF i = j THEN e ELSE jobs[i]
    BY <1>1, JobReplaced
  <1>3. e.kind = jobs[j].kind /\ e.entry = jobs[j].entry
    BY DEF Advance
  <1>. QED  BY <1>2, <1>3 DEF JobsOut, EnabledBy, OwnOf, AllOf

\* A request for some member makes none pass: it leaves the results the agent
\* keeps, or drops one.
LEMMA RequestOut ==
    ASSUME TypeOK, NEW ip \in Ips, CheckOut(ip), NEW q \in Ips, NEW m, Request(q, m)
    PROVE  CheckOut(ip)'
  BY DEF TypeOK, Request, CheckOut

LEMMA JobStepOut ==
    ASSUME TypeOK, NEW ip \in Ips, Out(ip), HandleKv
    PROVE  Out(ip)'
  <1>1. JobsOut(ip) /\ EventsOut(ip) /\ ip \in disabledEntIp /\ CheckOut(ip) /\ DnsOut(ip)
    BY OutParts
  <1>2. DnsOut(ip)'
    BY <1>1, OutUnchanged DEF HandleKv
  <1>3. PICK j : /\ j \in Next1(jobs)
                 /\ \/ \E q \in Ips : SkipMember(j, q) \/ EmitMember(j, q) \/ Deregister(j, q)
                    \/ Register(j) \/ JobDone(j)
    BY DEF HandleKv, JobStep
  <1>4. j \in 1 .. Len(jobs)
    BY <1>3, NextIsOne
  <1>5. jobs \in Seq(Jobs) /\ jobs[j] \in Jobs /\ Len(jobs) \in Nat
    BY <1>4, ElementOfSeq, LenProperties DEF TypeOK
  <1>6. ASSUME NEW q \in Ips, SkipMember(j, q) \/ EmitMember(j, q) \/ Deregister(j, q) \/ Register(j)
        PROVE  JobsOut(ip)'
    BY <1>1, <1>4, <1>6, JobAdvances, AdvanceOut
  <1>7. ASSUME NEW q \in Ips, SkipMember(j, q) PROVE Out(ip)'
    <2>1. UNCHANGED <<memberEvents, disabledEntIp, checking, status>>
      BY <1>7 DEF SkipMember, agent, member
    <2>. QED  BY <1>1, <1>2, <1>6, <1>7, <2>1, OutUnchanged, OutPartsAfter
  <1>8. ASSUME NEW q \in Ips, EmitMember(j, q) PROVE Out(ip)'
    <2>1. UNCHANGED <<disabledEntIp, checking, status>>
      BY <1>8 DEF EmitMember, agent
    <2>2. PICK e : e = [ip |-> q, disabled |-> MembersOf[jobs[j].entry][q].disabled]
      OBVIOUS
    <2>3. /\ jobs[j].kind = "set" /\ q \in OwnOf(jobs[j].entry)
          /\ memberEvents' = Append(memberEvents, e)
      BY <1>8, <2>2 DEF EmitMember
    <2>4. e.ip = ip => e.disabled
      BY <1>1, <1>4, <2>2, <2>3 DEF JobsOut, EnabledBy
    <2>5. /\ Len(memberEvents') = Len(memberEvents) + 1 /\ Len(memberEvents) \in Nat
          /\ \A i \in 1 .. Len(memberEvents) : memberEvents'[i] = memberEvents[i]
          /\ memberEvents'[Len(memberEvents) + 1] = e
      <3>1. jobs[j].entry \in Contents
        BY <1>5 DEF Jobs
      <3>2. MembersOf[jobs[j].entry][q] \in Members
        BY <2>3, <3>1, OwnType
      <3>3. e \in MemberEvents
        BY <2>2, <3>2 DEF Members, MemberEvents
      <3>4. memberEvents \in Seq(MemberEvents)
        BY DEF TypeOK
      <3>. QED  BY <2>3, <3>3, <3>4, AppendProperties, LenProperties
    <2>6. ASSUME NEW i \in 1 .. Len(memberEvents'), memberEvents'[i].ip = ip
          PROVE  memberEvents'[i].disabled
      <3>1. CASE i \in 1 .. Len(memberEvents)
        BY <1>1, <2>5, <2>6, <3>1 DEF EventsOut
      <3>2. CASE i \notin 1 .. Len(memberEvents)
        <4>1. i = Len(memberEvents) + 1
          BY <2>5, <3>2
        <4>. QED  BY <2>4, <2>5, <2>6, <4>1
      <3>. QED  BY <3>1, <3>2
    <2>7. EventsOut(ip)'
      BY <2>6 DEF EventsOut
    <2>. QED  BY <1>1, <1>2, <1>6, <1>8, <2>1, <2>7, OutUnchanged, OutPartsAfter
  <1>9. ASSUME NEW q \in Ips, Deregister(j, q) PROVE Out(ip)'
    <2>1. UNCHANGED <<memberEvents, disabledEntIp>> /\ Request(q, None)
      BY <1>9 DEF Deregister, member
    <2>. QED  BY <1>1, <1>2, <1>6, <1>9, <2>1, OutUnchanged, RequestOut, OutPartsAfter
  <1>10. CASE Register(j)
    <2>1. /\ UNCHANGED <<memberEvents, disabledEntIp>>
          /\ Request(jobs[j].at, MembersOf[jobs[j].entry][jobs[j].at])
      BY <1>10 DEF Register, member
    <2>2. jobs[j].at \in Ips
      BY <1>5, <1>10 DEF Register, Jobs
    <2>. QED  BY <1>1, <1>2, <1>6, <1>10, <2>1, <2>2, OutUnchanged, RequestOut, OutPartsAfter
  <1>11. CASE JobDone(j)
    <2>1. UNCHANGED <<memberEvents, disabledEntIp, checking, status>> /\ jobs' = RemoveIth(jobs, j)
      BY <1>11 DEF JobDone, agent, member
    <2>2. /\ Len(jobs') = Len(jobs) - 1
          /\ \A i \in 1 .. (Len(jobs) - 1) : jobs'[i] = jobs[i] \/ jobs'[i] = jobs[i + 1]
      BY <1>4, <1>5, <2>1, RemoveIthProperties
    <2>3. \A i \in 1 .. Len(jobs') : \E k \in 1 .. Len(jobs) : jobs'[i] = jobs[k]
      <3>. SUFFICES ASSUME NEW i \in 1 .. Len(jobs')
                    PROVE  \E k \in 1 .. Len(jobs) : jobs'[i] = jobs[k]
        OBVIOUS
      <3>1. i \in 1 .. (Len(jobs) - 1) /\ i \in 1 .. Len(jobs) /\ i + 1 \in 1 .. Len(jobs)
        BY <1>5, <2>2
      <3>. QED  BY <2>2, <3>1
    <2>4. JobsOut(ip)'
      BY <1>1, <2>3 DEF JobsOut, EnabledBy, OwnOf, AllOf
    <2>. QED  BY <1>1, <1>2, <2>1, <2>4, OutUnchanged, OutPartsAfter
  <1>. QED  BY <1>3, <1>7, <1>8, <1>9, <1>10, <1>11

\* An event that does not carry it keeps it out of what DNS is to answer.
LEMMA EmittedOut ==
    ASSUME ServingTypeOK, NEW ip \in Ips, DnsOut(ip), NEW v \in Answer, ~AnsweredBy(v, ip),
           catalogEvents' = Append(catalogEvents, v), entries' = entries,
           worker' = worker \/ worker' = None
    PROVE  DnsOut(ip)'
  <1>1. ASSUME NEW i \in 1 .. Len(catalogEvents') PROVE ~AnsweredBy(catalogEvents'[i], ip)
    <2>1. CASE i \in 1 .. Len(catalogEvents)
      BY EventAppended, <2>1 DEF DnsOut
    <2>2. CASE i \notin 1 .. Len(catalogEvents)
      <3>1. i = Len(catalogEvents) + 1
        BY EventsTyped, EventAppended, <2>2
      <3>. QED  BY EventAppended, <3>1
    <2>. QED  BY <2>1, <2>2
  <1>. QED  BY <1>1 DEF DnsOut, AnsweredBy

\* Telling an entry that does not enable it queues no job that does.
LEMMA TellOut ==
    ASSUME TypeOK, ServingTypeOK, NEW ip \in Ips, Out(ip), NEW n \in 1 .. Len(log[Fqdn]),
           TellBoth(n), told' = told \/ ~EnabledBy(Told', ip)
    PROVE  Out(ip)'
  <1>1. JobsOut(ip) /\ EventsOut(ip) /\ ip \in disabledEntIp /\ CheckOut(ip) /\ DnsOut(ip)
    BY OutParts
  <1>2. Tell(n) /\ UNCHANGED <<memberEvents, disabledEntIp, checking, status, worker, entries>>
    BY DEF TellBoth, Tell, agent, member
  <1>3. /\ Job(n) \in Jobs /\ Told' = Content(n)
        /\ Content(n) # None => Job(n).kind = "set" /\ Job(n).entry = Content(n)
        /\ Content(n) = None => Job(n).kind = "remove"
    BY <1>2, TellFacts
  <1>4. ~EnabledBy(Told', ip)
    <2>1. told' = [told EXCEPT ![Fqdn] = n] /\ n \in (told[Fqdn] + 1) .. Len(log[Fqdn])
      BY <1>2 DEF Tell, Feed!Tell
    <2>2. told[Fqdn] \in Nat /\ told'[Fqdn] = n /\ n # told[Fqdn]
      BY <2>1, ToldType DEF TypeOK
    <2>. QED  BY <2>2
  <1>5. Job(n).kind = "set" => ~EnabledBy(Job(n).entry, ip)
    BY <1>3, <1>4
  <1>6. jobs \in Seq(Jobs) /\ Len(jobs) \in Nat /\ jobs' = Append(jobs, Job(n))
    BY <1>2, LenProperties DEF Tell, TypeOK
  <1>7. /\ Len(jobs') = Len(jobs) + 1 /\ jobs'[Len(jobs) + 1] = Job(n)
        /\ \A i \in 1 .. Len(jobs) : jobs'[i] = jobs[i]
    BY <1>3, <1>6, AppendProperties
  <1>8. ASSUME NEW i \in 1 .. Len(jobs'), jobs'[i].kind = "set"
        PROVE  ~EnabledBy(jobs'[i].entry, ip)
    <2>1. CASE i \in 1 .. Len(jobs)
      BY <1>1, <1>7, <1>8, <2>1 DEF JobsOut
    <2>2. CASE i \notin 1 .. Len(jobs)
      <3>1. i = Len(jobs) + 1
        BY <1>6, <1>7, <2>2
      <3>. QED  BY <1>5, <1>7, <1>8, <3>1
    <2>. QED  BY <2>1, <2>2
  <1>9. JobsOut(ip)'
    BY <1>8 DEF JobsOut, EnabledBy, OwnOf, AllOf
  <1>10. DnsOut(ip)'
    <2>1. CASE catalogEvents' = Append(catalogEvents, None)
      BY <1>1, <1>2, <2>1, EmittedOut DEF Answer, AnsweredBy
    <2>2. CASE catalogEvents' = catalogEvents
      BY <1>1, <1>2, <2>2 DEF DnsOut, AnsweredBy
    <2>3. catalogEvents' = catalogEvents \/ catalogEvents' = Append(catalogEvents, None)
      BY DEF TellBoth, RemoveChecked
    <2>. QED  BY <2>1, <2>2, <2>3
  <1>. QED  BY <1>1, <1>2, <1>9, <1>10, OutUnchanged, OutPartsAfter

\* What HcHandler is told of it leaves it disabled.
LEMMA MemberOut ==
    ASSUME TypeOK, NEW ip \in Ips, Out(ip), HandleMember
    PROVE  Out(ip)'
  <1>1. JobsOut(ip) /\ EventsOut(ip) /\ ip \in disabledEntIp /\ CheckOut(ip) /\ DnsOut(ip)
    BY OutParts
  <1>2. PICK i : i \in 1 .. Len(memberEvents) /\ DeliverMember(i)
    BY DEF HandleMember
  <1>3. UNCHANGED <<jobs, checking, status, dns>>
    BY <1>2 DEF HandleMember, DeliverMember, agent
  <1>4. ip \in disabledEntIp'
    <2>1. CASE memberEvents[i].disabled
      BY <1>1, <1>2, <2>1 DEF DeliverMember, DisableEntryIp
    <2>2. CASE ~memberEvents[i].disabled
      BY <1>1, <1>2, <2>2 DEF DeliverMember, EnableEntryIp, EventsOut
    <2>. QED  BY <2>1, <2>2
  <1>5. memberEvents \in Seq(MemberEvents) /\ Len(memberEvents) \in Nat
        /\ memberEvents' = RemoveIth(memberEvents, i)
    BY <1>2, LenProperties DEF DeliverMember, TypeOK
  <1>6. /\ Len(memberEvents') = Len(memberEvents) - 1
        /\ \A k \in 1 .. (Len(memberEvents) - 1) :
              memberEvents'[k] = memberEvents[k] \/ memberEvents'[k] = memberEvents[k + 1]
    BY <1>2, <1>5, RemoveIthProperties
  <1>7. ASSUME NEW k \in 1 .. Len(memberEvents'), memberEvents'[k].ip = ip
        PROVE  memberEvents'[k].disabled
    <2>1. /\ k \in 1 .. (Len(memberEvents) - 1)
          /\ k \in 1 .. Len(memberEvents) /\ k + 1 \in 1 .. Len(memberEvents)
      BY <1>5, <1>6
    <2>. QED  BY <1>1, <1>6, <1>7, <2>1 DEF EventsOut
  <1>8. EventsOut(ip)'
    BY <1>7 DEF EventsOut
  <1>. QED  BY <1>1, <1>3, <1>4, <1>8, OutUnchanged, OutPartsAfter

\* A check of it that begins is refused, and one that ends did not pass.
LEMMA ChecksOut ==
    ASSUME TypeOK, NEW ip \in Ips, Out(ip), NEW q \in Ips, Check(q)
    PROVE  Out(ip)'
  <1>1. JobsOut(ip) /\ EventsOut(ip) /\ ip \in disabledEntIp /\ CheckOut(ip) /\ DnsOut(ip)
    BY OutParts
  <1>2. UNCHANGED <<jobs, memberEvents, disabledEntIp, dns>>
    BY DEF Check, CheckBegins, CheckEnds, member
  <1>3. CheckOut(ip)'
    <2>1. CASE CheckBegins(q)
      <3>1. PICK r : r \in CheckResults(q) /\ checking' = [checking EXCEPT ![q] = r]
        BY <2>1 DEF CheckBegins
      <3>2. status' = status /\ (q = ip => r = "critical")
        BY <1>1, <2>1, <3>1 DEF CheckBegins, CheckResults
      <3>. QED  BY <1>1, <3>1, <3>2 DEF CheckOut, TypeOK
    <2>2. CASE CheckEnds(q)
      <3>1. /\ checking[q] # None /\ checking' = [checking EXCEPT ![q] = None]
            /\ status' = status \/ status' = [status EXCEPT ![q] = checking[q]]
        BY <2>2 DEF CheckEnds
      <3>2. checking \in [Ips -> {"passing", "critical", None}] /\ status \in [Ips -> {"passing", "critical"}]
        BY DEF TypeOK
      <3>3. q = ip => checking[q] = "critical"
        BY <1>1, <3>1, <3>2 DEF CheckOut
      <3>4. status'[ip] = "critical"
        BY <1>1, <3>1, <3>2, <3>3 DEF CheckOut
      <3>5. q # ip => checking'[ip] = checking[ip]
        BY <3>1, <3>2
      <3>6. q = ip => checking'[ip] = None /\ status[ip] = "critical"
        BY <1>1, <3>1, <3>2 DEF CheckOut
      <3>7. checking'[ip] \in {None, "critical"}
        BY <1>1, <3>5, <3>6 DEF CheckOut
      <3>. QED  BY <3>4, <3>7 DEF CheckOut
    <2>. QED  BY <2>1, <2>2 DEF Check
  <1>. QED  BY <1>1, <1>2, <1>3, OutUnchanged, OutPartsAfter

\* The poll is not given a member whose check fails, and what it emits or DNS is
\* told does not hold it.
LEMMA CatalogOut ==
    ASSUME TypeOK, ServingTypeOK, NEW ip \in Ips, Out(ip), RunCatalog \/ DeliverCatalogs
    PROVE  Out(ip)'
  <1>1. JobsOut(ip) /\ EventsOut(ip) /\ ip \in disabledEntIp /\ CheckOut(ip) /\ DnsOut(ip)
    BY OutParts
  <1>2. UNCHANGED <<jobs, memberEvents, disabledEntIp, checking, status>>
    BY DEF RunCatalog, PollCatalog, PublishCatalog, EmitCatalog, DeliverCatalogs, DeliverCatalog,
           vars, agent, member
  <1>3. DnsOut(ip)'
    <2>1. CASE PollCatalog
      <3>1. ip \notin worker'.entry.members
        BY <1>1, <2>1 DEF PollCatalog, CheckOut, Passing
      <3>. QED  BY <1>1, <2>1, <3>1 DEF PollCatalog, DnsOut, AnsweredBy
    <2>2. CASE PublishCatalog
      <3>1. worker' = None \/ worker' = [worker EXCEPT !.stage = "emit"]
        BY <2>2 DEF PublishCatalog
      <3>2. worker \in Workers /\ ip \notin worker.entry.members
        BY <1>1, <2>2 DEF PublishCatalog, ServingTypeOK, DnsOut
      <3>3. worker' # None => ip \notin worker'.entry.members
        BY <3>1, <3>2 DEF Workers
      <3>. QED  BY <1>1, <2>2, <3>3 DEF PublishCatalog, DnsOut, AnsweredBy
    <2>4. CASE EmitCatalog
      <3>1. worker.entry \in Answer /\ ~AnsweredBy(worker.entry, ip)
        BY <1>1, <2>4 DEF EmitCatalog, ServingTypeOK, Workers, Answer, DnsOut, AnsweredBy
      <3>. QED  BY <1>1, <2>4, <3>1, EmittedOut DEF EmitCatalog
    <2>3. ASSUME NEW i \in 1 .. Len(catalogEvents), DeliverCatalog(i) PROVE DnsOut(ip)'
      <3>1. /\ catalogEvents \in Seq(Answer) /\ Len(catalogEvents) \in Nat
            /\ catalogEvents' = RemoveIth(catalogEvents, i)
            /\ entries' = catalogEvents[i] /\ worker' = worker
        BY <2>3, EventsTyped DEF DeliverCatalog
      <3>2. /\ Len(catalogEvents') = Len(catalogEvents) - 1
            /\ \A k \in 1 .. (Len(catalogEvents) - 1) :
                  catalogEvents'[k] = catalogEvents[k] \/ catalogEvents'[k] = catalogEvents[k + 1]
        BY <3>1, RemoveIthProperties
      <3>3. ASSUME NEW k \in 1 .. Len(catalogEvents') PROVE ~AnsweredBy(catalogEvents'[k], ip)
        <4>1. /\ k \in 1 .. (Len(catalogEvents) - 1)
              /\ k \in 1 .. Len(catalogEvents) /\ k + 1 \in 1 .. Len(catalogEvents)
          BY <3>1, <3>2
        <4>. QED  BY <1>1, <3>2, <4>1 DEF DnsOut
      <3>4. ~AnsweredBy(entries', ip) /\ (worker' # None => ip \notin worker'.entry.members)
        BY <1>1, <3>1 DEF DnsOut
      <3>. QED  BY <3>3, <3>4 DEF DnsOut, AnsweredBy
    <2>. QED  BY <2>1, <2>2, <2>3, <2>4 DEF RunCatalog, DeliverCatalogs
  <1>. QED  BY <1>1, <1>2, <1>3, OutUnchanged, OutPartsAfter

\* A member that is disabled from the entry told to the answers given comes back
\* by an entry that enables it or by a restart, and by nothing else that the KV
\* listener, HcHandler, Consul's checks or the catalog poll do.
THEOREM DisabledStaysOutCorrect == ServingSpec => DisabledStaysOut
  <1>1. ASSUME TypeOK, ServingTypeOK, [ServingNext]_allVars, NEW ip \in Ips, Out(ip),
               restarts' = restarts, told' = told \/ ~EnabledBy(Told', ip)
        PROVE  Out(ip)'
    <2>0. JobsOut(ip) /\ EventsOut(ip) /\ ip \in disabledEntIp /\ CheckOut(ip) /\ DnsOut(ip)
      BY <1>1, OutParts
    <2>1. ASSUME NEW c \in Contents \union {None}, Write(c), UNCHANGED dns PROVE Out(ip)'
      BY <2>0, <2>1, OutUnchanged, OutPartsAfter DEF Write, agent, member
    <2>2. ASSUME NEW n \in 1 .. Len(log[Fqdn]), TellBoth(n) PROVE Out(ip)'
      BY <1>1, <2>2, TellOut
    <2>3. CASE HandleKv
      BY <1>1, <2>3, JobStepOut
    <2>4. CASE HandleMember
      BY <1>1, <2>4, MemberOut
    <2>5. ASSUME NEW q \in Ips, Check(q) PROVE Out(ip)'
      BY <1>1, <2>5, ChecksOut
    <2>6. ~RestartBoth
      BY <1>1 DEF RestartBoth, Restart, TypeOK
    <2>7. CASE RunCatalog \/ DeliverCatalogs
      BY <1>1, <2>7, CatalogOut
    <2>8. CASE UNCHANGED allVars
      BY <2>0, <2>8, OutUnchanged, OutPartsAfter DEF allVars, vars, agent, member, dns
    <2>. QED  BY <1>1, <2>1, <2>2, <2>3, <2>4, <2>5, <2>6, <2>7, <2>8 DEF ServingNext
  <1>2. TypeOK /\ ServingTypeOK /\ [ServingNext]_allVars =>
           [\A ip \in Ips :
              Out(ip) /\ restarts' = restarts /\ (told' = told \/ ~EnabledBy(Told', ip))
              => Out(ip)']_allVars
    BY <1>1
  <1>. QED  BY Composition, TypeCorrect, ServingTypes, <1>2, PTL
            DEF ServingSpec, DisabledStaysOut
=============================================================================
