------------------------- MODULE RegistrationProofs -------------------------
(* What Registration guarantees for any addresses, contents and bounds.       *)
EXTENDS Registration, SequenceTheorems, TLAPS

-----------------------------------------------------------------------------
(* Queues *)

\* What is left of a queue once its i-th element is handled.
LEMMA RemoveIthProperties ==
    ASSUME NEW S, NEW s \in Seq(S), NEW i \in 1 .. Len(s)
    PROVE  /\ RemoveIth(s, i) \in Seq(S) /\ Len(RemoveIth(s, i)) = Len(s) - 1
           /\ \A j \in 1 .. (Len(s) - 1) :
                 RemoveIth(s, i)[j] = s[j] \/ RemoveIth(s, i)[j] = s[j + 1]
  <1> DEFINE a == SubSeq(s, 1, i - 1)
             b == SubSeq(s, i + 1, Len(s))
  <1>0. Len(s) \in Nat /\ \A k \in 1 .. Len(s) : s[k] \in S
    BY LenProperties, ElementOfSeq
  <1>1. /\ a \in Seq(S) /\ Len(a) = i - 1
        /\ \A j \in 1 .. (i - 1) : a[j] = s[j]
    BY <1>0, SubSeqProperties
  <1>2. /\ b \in Seq(S) /\ Len(b) = Len(s) - i
        /\ \A j \in 1 .. (Len(s) - i) : b[j] = s[i + j]
    <2>1. /\ b \in Seq(S)
          /\ Len(b) = IF i + 1 <= Len(s) THEN Len(s) - (i + 1) + 1 ELSE 0
          /\ \A j \in 1 .. Len(s) - (i + 1) + 1 : b[j] = s[(i + 1) + j - 1]
      BY <1>0, SubSeqProperties
    <2>. QED  BY <1>0, <2>1
  <1>3. RemoveIth(s, i) = a \o b
    BY DEF RemoveIth
  <1>. HIDE DEF a, b
  <1>4. /\ a \o b \in Seq(S) /\ Len(a \o b) = Len(s) - 1
        /\ \A j \in 1 .. (Len(s) - 1) : (a \o b)[j] = IF j <= Len(a) THEN a[j] ELSE b[j - Len(a)]
    <2>1. /\ a \o b \in Seq(S) /\ Len(a \o b) = Len(a) + Len(b)
          /\ \A j \in 1 .. Len(a) + Len(b) :
                (a \o b)[j] = IF j <= Len(a) THEN a[j] ELSE b[j - Len(a)]
      BY <1>1, <1>2, ConcatProperties
    <2>2. Len(a) + Len(b) = Len(s) - 1
      BY <1>0, <1>1, <1>2
    <2>. QED  BY <2>1, <2>2
  <1>5. ASSUME NEW j \in 1 .. (Len(s) - 1)
        PROVE  (a \o b)[j] = s[j] \/ (a \o b)[j] = s[j + 1]
    <2>1. CASE j <= Len(a)
      BY <2>1, <1>0, <1>1, <1>4
    <2>2. CASE ~(j <= Len(a))
      <3>1. j - Len(a) \in 1 .. (Len(s) - i) /\ i + (j - Len(a)) = j + 1
        BY <2>2, <1>0, <1>1
      <3>2. b[j - Len(a)] = s[j + 1]
        BY <3>1, <1>2
      <3>. QED  BY <2>2, <3>2, <1>4
    <2>. QED  BY <2>1, <2>2
  <1>. QED  BY <1>3, <1>4, <1>5

\* Handling the oldest element leaves the tail.
LEMMA OldestRemoved ==
    ASSUME NEW S, NEW s \in Seq(S), 1 \in 1 .. Len(s)
    PROVE  /\ RemoveIth(s, 1) = Tail(s)
           /\ RemoveIth(s, 1) \in Seq(S) /\ Len(RemoveIth(s, 1)) = Len(s) - 1
           /\ Len(s) \in Nat /\ Len(s) >= 1
           /\ \A j \in 1 .. (Len(s) - 1) : RemoveIth(s, 1)[j] = s[j + 1]
  <1>1. Len(s) \in Nat /\ s # <<>> /\ \A k \in 1 .. Len(s) : s[k] \in S
    BY LenProperties, EmptySeq, ElementOfSeq
  <1>2. SubSeq(s, 1, 1 - 1) = <<>> /\ SubSeq(s, 1 + 1, Len(s)) = Tail(s)
    BY <1>1, SubSeqEmpty, TailIsSubSeq
  <1>3. RemoveIth(s, 1) = <<>> \o Tail(s)
    BY <1>2 DEF RemoveIth
  <1>. QED  BY <1>1, <1>3, HeadTailProperties, ConcatEmptySeq

\* A job that makes progress keeps its place.
LEMMA JobReplaced ==
    ASSUME jobs \in Seq(Jobs), NEW j \in 1 .. Len(jobs), NEW e \in Jobs,
           jobs' = [jobs EXCEPT ![j] = e]
    PROVE  /\ jobs' \in Seq(Jobs) /\ Len(jobs') = Len(jobs) /\ Len(jobs) \in Nat
           /\ \A i \in 1 .. Len(jobs) : jobs'[i] = IF i = j THEN e ELSE jobs[i]
           /\ jobs' # <<>> /\ jobs # <<>>
  BY ExceptSeq, LenProperties, EmptySeq

-----------------------------------------------------------------------------
(* Types *)

\* What is stored and told is a content or nothing.
LEMMA ToldType ==
    TypeOK => /\ Told \in Contents \union {None} /\ Stored \in Contents \union {None}
              /\ Len(log[Fqdn]) \in Nat
              /\ \A n \in 1 .. Len(log[Fqdn]) : Content(n) \in Contents \union {None}
  <1>. SUFFICES ASSUME TypeOK
                PROVE  /\ Told \in Contents \union {None} /\ Stored \in Contents \union {None}
                       /\ Len(log[Fqdn]) \in Nat
                       /\ \A n \in 1 .. Len(log[Fqdn]) : Content(n) \in Contents \union {None}
    OBVIOUS
  <1>1. log[Fqdn] \in Seq(Contents \union {None}) /\ told[Fqdn] \in 1 .. Len(log[Fqdn])
    BY DEF TypeOK
  <1>2. \A n \in 1 .. Len(log[Fqdn]) : log[Fqdn][n] \in Contents \union {None}
    BY <1>1, ElementOfSeq
  <1>3. Len(log[Fqdn]) \in Nat /\ Len(log[Fqdn]) \in 1 .. Len(log[Fqdn])
    BY <1>1, LenProperties
  <1>. QED  BY <1>1, <1>2, <1>3 DEF Told, Stored, Content

\* Members of an entry, and of this datacenter.
LEMMA OwnType ==
    /\ \A c \in Contents \union {None} : OwnOf(c) \subseteq AllOf(c) /\ AllOf(c) \subseteq Ips
    /\ \A c \in Contents : \A ip \in AllOf(c) : MembersOf[c][ip] \in Members
    /\ AllOf(None) = {} /\ OwnOf(None) = {}
  <1>1. AllOf(None) = {} /\ OwnOf(None) = {}
    BY DEF OwnOf, AllOf
  <1>2. \A c \in Contents : AllOf(c) = DOMAIN MembersOf[c]
    BY NoneAssumption DEF AllOf
  <1>3. \A c \in Contents : \A ip \in AllOf(c) : MembersOf[c][ip] \in Members
    BY <1>2, MembersAssumption
  <1>4. \A c \in Contents : AllOf(c) \subseteq Ips
    BY <1>2, MembersAssumption
  <1>5. \A c \in Contents \union {None} : OwnOf(c) \subseteq AllOf(c)
    BY DEF OwnOf
  <1>. QED  BY <1>1, <1>3, <1>4, <1>5

\* The element being handled is one of the queue.
LEMMA NextIsOne == ASSUME NEW q, NEW i \in Next1(q) PROVE i \in 1 .. Len(q) /\ (InOrder => i = 1)
  BY DEF Next1

\* What a step of a job does to it: the job keeps its kind and entry.
Advance(j, e) ==
    /\ e \in Jobs /\ jobs' = [jobs EXCEPT ![j] = e]
    /\ e.kind = jobs[j].kind /\ e.entry = jobs[j].entry
    /\ e.at # None => e.kind = "set" /\ e.at \in OwnOf(e.entry)

LEMMA JobAdvances ==
    ASSUME TypeOK, NEW j \in 1 .. Len(jobs), NEW ip \in Ips,
           SkipMember(j, ip) \/ EmitMember(j, ip) \/ Deregister(j, ip) \/ Register(j)
    PROVE  \E e : Advance(j, e)
  <1>1. jobs[j] \in Jobs /\ jobs[j].entry \in Contents
    <2>1. jobs \in Seq(Jobs)
      BY DEF TypeOK
    <2>2. jobs[j] \in Jobs
      BY <2>1, ElementOfSeq
    <2>. QED  BY <2>2 DEF Jobs
  <1>2. jobs[j].at # None => jobs[j].kind = "set" /\ jobs[j].at \in OwnOf(jobs[j].entry)
    BY DEF TypeOK
  <1> DEFINE less == [jobs[j] EXCEPT !.todo = @ \ {ip}]
             begun == [jobs[j] EXCEPT !.todo = @ \ {ip}, !.at = ip]
             ended == [jobs[j] EXCEPT !.at = None]
  <1>3. less \in Jobs /\ begun \in Jobs /\ ended \in Jobs
    BY <1>1 DEF Jobs
  <1>4. CASE SkipMember(j, ip) \/ Deregister(j, ip)
    <2>1. jobs' = [jobs EXCEPT ![j] = less]
      BY <1>4 DEF SkipMember, Deregister
    <2>2. less.kind = jobs[j].kind /\ less.entry = jobs[j].entry /\ less.at = jobs[j].at
      BY <1>1 DEF Jobs
    <2>. HIDE DEF less
    <2>3. Advance(j, less)
      BY <2>1, <2>2, <1>2, <1>3 DEF Advance
    <2>. QED  BY <2>3
  <1>5. CASE EmitMember(j, ip)
    <2>1. jobs' = [jobs EXCEPT ![j] = begun] /\ jobs[j].kind = "set" /\ ip \in OwnOf(jobs[j].entry)
      BY <1>5 DEF EmitMember
    <2>2. begun.kind = jobs[j].kind /\ begun.entry = jobs[j].entry /\ begun.at = ip
      BY <1>1 DEF Jobs
    <2>. HIDE DEF begun
    <2>3. Advance(j, begun)
      BY <2>1, <2>2, <1>3 DEF Advance
    <2>. QED  BY <2>3
  <1>6. CASE Register(j)
    <2>1. jobs' = [jobs EXCEPT ![j] = ended]
      BY <1>6 DEF Register
    <2>2. ended.kind = jobs[j].kind /\ ended.entry = jobs[j].entry /\ ended.at = None
      BY <1>1 DEF Jobs
    <2>. HIDE DEF ended
    <2>3. Advance(j, ended)
      BY <2>1, <2>2, <1>3 DEF Advance
    <2>. QED  BY <2>3
  <1>. QED  BY <1>4, <1>5, <1>6

\* The variables a request leaves typed.
AgentTypes ==
    /\ services \in [Ips -> Members \union {None}]
    /\ status \in [Ips -> {"passing", "critical"}]
    /\ \A ip \in Ips : status[ip] = "passing" => services[ip] # None
    /\ checking \in [Ips -> {"passing", "critical", None}]
    /\ missed \subseteq Ips /\ failures \in Nat
JobsTypes ==
    /\ jobs \in Seq(Jobs)
    /\ \A j \in 1 .. Len(jobs) : jobs[j].at # None =>
          jobs[j].kind = "set" /\ jobs[j].at \in OwnOf(jobs[j].entry)
FeedTypes ==
    /\ log \in [{Fqdn} -> Seq(Contents \union {None})]
    /\ told \in [{Fqdn} -> Nat] /\ told[Fqdn] \in 1 .. Len(log[Fqdn])
MemberTypes == memberEvents \in Seq(MemberEvents) /\ disabledEntIp \subseteq Ips

LEMMA TypeParts ==
    TypeOK <=> AgentTypes /\ JobsTypes /\ FeedTypes /\ MemberTypes /\ restarts \in Nat
  BY DEF TypeOK, AgentTypes, JobsTypes, FeedTypes, MemberTypes

LEMMA RequestTyped ==
    ASSUME AgentTypes, NEW ip \in Ips, NEW m \in Members \union {None}, Request(ip, m)
    PROVE  AgentTypes'
  BY DEF Request, AgentTypes

LEMMA AdvanceTyped ==
    ASSUME JobsTypes, NEW j \in 1 .. Len(jobs), NEW e, Advance(j, e)
    PROVE  JobsTypes'
  <1>1. jobs \in Seq(Jobs) /\ e \in Jobs /\ jobs' = [jobs EXCEPT ![j] = e]
    BY DEF JobsTypes, Advance
  <1>2. /\ jobs' \in Seq(Jobs) /\ Len(jobs') = Len(jobs)
        /\ \A i \in 1 .. Len(jobs) : jobs'[i] = IF i = j THEN e ELSE jobs[i]
    BY <1>1, JobReplaced
  <1>. QED  BY <1>2 DEF JobsTypes, Advance, Jobs, OwnOf, AllOf

\* The job of a change, and the feed after it.
LEMMA TellFacts ==
    ASSUME TypeOK, NEW n \in 1 .. Len(log[Fqdn]), Tell(n)
    PROVE  /\ Job(n) \in Jobs /\ Job(n).at = None
           /\ Job(n).todo = AllOf(Job(n).entry)
           /\ Told' = Content(n) /\ FeedTypes' /\ log' = log
           /\ IF Content(n) = None THEN Job(n).kind = "remove"
              ELSE Job(n).kind = "set" /\ Job(n).entry = Content(n)
  <1>1. log' = log /\ told' = [told EXCEPT ![Fqdn] = n]
    BY DEF Tell, Feed!Tell
  <1>2. n \in Nat /\ told' \in [{Fqdn} -> Nat] /\ told'[Fqdn] = n
    BY <1>1, ToldType DEF TypeOK
  <1>3. Told' = Content(n) /\ FeedTypes'
    BY <1>1, <1>2 DEF FeedTypes, TypeOK, Told, Content
  <1>4. Content(n) # Told /\ Content(n) \in Contents \union {None} /\ Told \in Contents \union {None}
    BY ToldType DEF Tell, Feed!Tell, Content, Told
  <1>5. Job(n) \in Jobs
    BY <1>4, OwnType DEF Job, Jobs
  <1>. QED  BY <1>1, <1>3, <1>4, <1>5 DEF Job

\* A change of the key, which nobody is told of yet.
LEMMA WriteFacts ==
    ASSUME TypeOK, NEW c \in Contents \union {None}, Write(c)
    PROVE  FeedTypes' /\ Told' = Told /\ Content(1)' = Content(1)
  <1>1. log' = [log EXCEPT ![Fqdn] = Append(log[Fqdn], c)] /\ told' = told
    BY DEF Write, Feed!Write
  <1>2. /\ log[Fqdn] \in Seq(Contents \union {None}) /\ told[Fqdn] \in 1 .. Len(log[Fqdn])
        /\ log \in [{Fqdn} -> Seq(Contents \union {None})]
        /\ Len(log[Fqdn]) \in Nat
    BY ToldType DEF TypeOK
  <1>3. /\ Append(log[Fqdn], c) \in Seq(Contents \union {None})
        /\ Len(Append(log[Fqdn], c)) = Len(log[Fqdn]) + 1
        /\ \A i \in 1 .. Len(log[Fqdn]) : Append(log[Fqdn], c)[i] = log[Fqdn][i]
    BY <1>2, AppendProperties
  <1>4. log'[Fqdn] = Append(log[Fqdn], c) /\ log' \in [{Fqdn} -> Seq(Contents \union {None})]
    BY <1>1, <1>2, <1>3
  <1>5. FeedTypes'
    BY <1>1, <1>2, <1>3, <1>4 DEF FeedTypes, TypeOK
  <1>. QED  BY <1>1, <1>2, <1>3, <1>4, <1>5 DEF Told, Content

\* A restart forgets what was told.
LEMMA RestartFacts ==
    ASSUME TypeOK, Restart
    PROVE  FeedTypes' /\ Told' = Content(1) /\ log' = log
  <1>1. log' = log /\ told' = [f \in {Fqdn} |-> 1]
    BY DEF Restart, Feed!Restart
  <1>. QED  BY <1>1, ToldType DEF FeedTypes, TypeOK, Told, Content

LEMMA InitTyped == Init => TypeOK /\ RegInv
  <1>. SUFFICES ASSUME Init PROVE TypeOK /\ RegInv
    OBVIOUS
  <1>1. log[Fqdn] = <<None>> /\ told[Fqdn] = 1
    BY DEF Init, Feed!Init
  <1>2. /\ <<None>> \in Seq(Contents \union {None}) /\ Len(<<None>>) = 1
        /\ <<>> \in Seq(Jobs) /\ <<>> \in Seq(MemberEvents) /\ Len(<<>>) = 0
    BY EmptySeq
  <1>3. Content(1) = None /\ Told = None
    BY <1>1 DEF Content, Told
  <1>4. TypeOK
    BY <1>1, <1>2 DEF Init, Feed!Init, TypeOK
  <1>5. JobsInv /\ SettledInv /\ RemovalInv
    BY <1>2, <1>3, OwnType DEF Init, JobsInv, SettledInv, RemovalInv
  <1>. QED  BY <1>3, <1>4, <1>5 DEF RegInv

\* Every action keeps the types.
LEMMA TypeInductive == TypeOK /\ [Next]_vars => TypeOK'
  <1>. SUFFICES ASSUME TypeOK, [Next]_vars PROVE TypeOK'
    OBVIOUS
  <1>0. AgentTypes /\ JobsTypes /\ FeedTypes /\ MemberTypes /\ restarts \in Nat
    BY TypeParts
  <1>. SUFFICES AgentTypes' /\ JobsTypes' /\ FeedTypes' /\ MemberTypes' /\ restarts' \in Nat
    BY DEF TypeOK, AgentTypes, JobsTypes, FeedTypes, MemberTypes
  <1>1. ASSUME NEW c \in Contents \union {None}, Write(c)
        PROVE  AgentTypes' /\ JobsTypes' /\ FeedTypes' /\ MemberTypes' /\ restarts' \in Nat
    BY <1>0, <1>1, WriteFacts DEF Write, agent, member, AgentTypes, JobsTypes, MemberTypes
  <1>2. ASSUME NEW n \in 1 .. Len(log[Fqdn]), Tell(n)
        PROVE  AgentTypes' /\ JobsTypes' /\ FeedTypes' /\ MemberTypes' /\ restarts' \in Nat
    <2>1. FeedTypes' /\ Job(n) \in Jobs /\ Job(n).at = None
      BY <1>2, TellFacts
    <2>2. jobs' = Append(jobs, Job(n)) /\ jobs \in Seq(Jobs) /\ Len(jobs) \in Nat
      BY <1>0, <1>2, LenProperties DEF Tell, JobsTypes
    <2>3. /\ jobs' \in Seq(Jobs) /\ Len(jobs') = Len(jobs) + 1
          /\ \A i \in 1 .. Len(jobs) : jobs'[i] = jobs[i]
          /\ jobs'[Len(jobs) + 1] = Job(n)
      BY <2>1, <2>2, AppendProperties
    <2>4. JobsTypes'
      BY <1>0, <2>1, <2>2, <2>3 DEF JobsTypes, OwnOf, AllOf
    <2>. QED  BY <1>0, <1>2, <2>1, <2>4 DEF Tell, agent, member, AgentTypes, MemberTypes
  <1>3. CASE JobStep
    <2>. PICK j \in Next1(jobs) :
            \/ \E ip \in Ips : SkipMember(j, ip) \/ EmitMember(j, ip) \/ Deregister(j, ip)
            \/ Register(j) \/ JobDone(j)
      BY <1>3 DEF JobStep
    <2>1. j \in 1 .. Len(jobs)
      BY NextIsOne
    <2>2. jobs[j] \in Jobs /\ jobs[j].entry \in Contents /\ jobs[j].at \in Ips \union {None}
      <3>1. jobs[j] \in Jobs
        BY <1>0, <2>1, ElementOfSeq DEF JobsTypes
      <3>. QED  BY <3>1 DEF Jobs
    <2>3. ASSUME NEW ip \in Ips, SkipMember(j, ip) \/ EmitMember(j, ip) \/ Deregister(j, ip) \/ Register(j)
          PROVE  JobsTypes'
      <3>1. PICK e : Advance(j, e)
        BY <2>1, <2>3, JobAdvances
      <3>. QED  BY <1>0, <2>1, <3>1, AdvanceTyped
    <2>4. ASSUME NEW ip \in Ips, SkipMember(j, ip)
          PROVE  AgentTypes' /\ JobsTypes' /\ FeedTypes' /\ MemberTypes' /\ restarts' \in Nat
      BY <1>0, <2>3, <2>4
         DEF SkipMember, feed, agent, member, AgentTypes, FeedTypes, MemberTypes
    <2>5. ASSUME NEW ip \in Ips, EmitMember(j, ip)
          PROVE  AgentTypes' /\ JobsTypes' /\ FeedTypes' /\ MemberTypes' /\ restarts' \in Nat
      <3>1. MembersOf[jobs[j].entry][ip] \in Members
        BY <2>2, <2>5, OwnType DEF EmitMember
      <3>2. [ip |-> ip, disabled |-> MembersOf[jobs[j].entry][ip].disabled] \in MemberEvents
        BY <3>1 DEF MemberEvents, Members
      <3>3. memberEvents' \in Seq(MemberEvents)
        BY <1>0, <2>5, <3>2, AppendProperties DEF EmitMember, MemberTypes
      <3>. QED  BY <1>0, <2>3, <2>5, <3>3
                DEF EmitMember, feed, agent, AgentTypes, FeedTypes, MemberTypes
    <2>6. ASSUME NEW ip \in Ips, Deregister(j, ip)
          PROVE  AgentTypes' /\ JobsTypes' /\ FeedTypes' /\ MemberTypes' /\ restarts' \in Nat
      <3>1. AgentTypes'
        BY <1>0, <2>6, RequestTyped DEF Deregister
      <3>. QED  BY <1>0, <2>3, <2>6, <3>1 DEF Deregister, feed, member, FeedTypes, MemberTypes
    <2>7. CASE Register(j)
      <3>1. jobs[j].at \in Ips /\ jobs[j].at \in OwnOf(jobs[j].entry)
        BY <1>0, <2>1, <2>2, <2>7 DEF Register, JobsTypes
      <3>2. MembersOf[jobs[j].entry][jobs[j].at] \in Members
        BY <2>2, <3>1, OwnType
      <3>3. AgentTypes'
        BY <1>0, <2>7, <3>1, <3>2, RequestTyped DEF Register
      <3>. QED  BY <1>0, <2>3, <2>7, <3>1, <3>3 DEF Register, feed, member, FeedTypes, MemberTypes
    <2>8. CASE JobDone(j)
      <3>1. jobs \in Seq(Jobs) /\ jobs' = RemoveIth(jobs, j) /\ Len(jobs) \in Nat
        BY <1>0, <2>8, LenProperties DEF JobDone, JobsTypes
      <3>2. /\ jobs' \in Seq(Jobs) /\ Len(jobs') = Len(jobs) - 1
            /\ \A i \in 1 .. (Len(jobs) - 1) : jobs'[i] = jobs[i] \/ jobs'[i] = jobs[i + 1]
        BY <2>1, <3>1, RemoveIthProperties
      <3>3. \A i \in 1 .. Len(jobs') : \E k \in 1 .. Len(jobs) : jobs'[i] = jobs[k]
        BY <3>1, <3>2
      <3>4. JobsTypes'
        <4>1. ASSUME NEW i \in 1 .. Len(jobs'), jobs'[i].at # None
              PROVE  jobs'[i].kind = "set" /\ jobs'[i].at \in OwnOf(jobs'[i].entry)
          <5>1. PICK k \in 1 .. Len(jobs) : jobs'[i] = jobs[k]
            BY <3>3
          <5>. QED  BY <1>0, <4>1, <5>1 DEF JobsTypes
        <4>. QED  BY <3>2, <4>1 DEF JobsTypes, OwnOf, AllOf
      <3>. QED  BY <1>0, <2>8, <3>4
                DEF JobDone, feed, agent, member, AgentTypes, FeedTypes, MemberTypes
    <2>. QED  BY <2>4, <2>5, <2>6, <2>7, <2>8
  <1>4. ASSUME NEW i \in 1 .. Len(memberEvents), DeliverMember(i)
        PROVE  AgentTypes' /\ JobsTypes' /\ FeedTypes' /\ MemberTypes' /\ restarts' \in Nat
    <2>1. memberEvents' = RemoveIth(memberEvents, i) /\ memberEvents \in Seq(MemberEvents)
      BY <1>0, <1>4 DEF DeliverMember, MemberTypes
    <2>2. memberEvents' \in Seq(MemberEvents)
      BY <2>1, RemoveIthProperties
    <2>3. memberEvents[i].ip \in Ips
      <3>1. memberEvents[i] \in MemberEvents
        BY <2>1, ElementOfSeq
      <3>. QED  BY <3>1 DEF MemberEvents
    <2>4. disabledEntIp' \subseteq Ips
      BY <1>0, <1>4, <2>3 DEF DeliverMember, DisableEntryIp, EnableEntryIp, MemberTypes
    <2>. QED  BY <1>0, <1>4, <2>2, <2>4
              DEF DeliverMember, feed, agent, AgentTypes, JobsTypes, FeedTypes, MemberTypes
  <1>5. ASSUME NEW ip \in Ips, CheckBegins(ip)
        PROVE  AgentTypes' /\ JobsTypes' /\ FeedTypes' /\ MemberTypes' /\ restarts' \in Nat
    BY <1>0, <1>5
       DEF CheckBegins, CheckResults, feed, member, AgentTypes, JobsTypes, FeedTypes, MemberTypes
  <1>6. ASSUME NEW ip \in Ips, CheckEnds(ip)
        PROVE  AgentTypes' /\ JobsTypes' /\ FeedTypes' /\ MemberTypes' /\ restarts' \in Nat
    BY <1>0, <1>6 DEF CheckEnds, feed, member, AgentTypes, JobsTypes, FeedTypes, MemberTypes
  <1>7. CASE Restart
    <2>1. FeedTypes'
      BY <1>7, RestartFacts
    <2>2. <<>> \in Seq(Jobs) /\ <<>> \in Seq(MemberEvents) /\ Len(<<>>) = 0
      BY EmptySeq
    <2>. QED  BY <1>0, <1>7, <2>1, <2>2 DEF Restart, AgentTypes, JobsTypes, MemberTypes
  <1>8. CASE UNCHANGED vars
    BY <1>0, <1>8 DEF vars, feed, agent, member, AgentTypes, JobsTypes, FeedTypes, MemberTypes
  <1>. QED  BY <1>1, <1>2, <1>3, <1>4, <1>5, <1>6, <1>7, <1>8 DEF Next

\* Every variable has its type, whatever the order in which listeners run.
THEOREM TypeCorrect == Spec => []TypeOK
  BY InitTyped, TypeInductive, PTL DEF Spec

-----------------------------------------------------------------------------
(* Settled members *)

\* What steps rely on: the types, in order, and the two queues' lengths.
LEMMA Queues ==
    TypeOK => /\ jobs \in Seq(Jobs) /\ Len(jobs) \in Nat /\ (jobs = <<>> <=> Len(jobs) = 0)
              /\ memberEvents \in Seq(MemberEvents) /\ Len(memberEvents) \in Nat
              /\ (memberEvents = <<>> <=> Len(memberEvents) = 0)
              /\ \A j \in 1 .. Len(jobs) : jobs[j] \in Jobs
              /\ \A i \in 1 .. Len(memberEvents) : memberEvents[i] \in MemberEvents
  <1>. SUFFICES ASSUME TypeOK, NEW j \in 1 .. Len(jobs), NEW i \in 1 .. Len(memberEvents)
                PROVE  jobs[j] \in Jobs /\ memberEvents[i] \in MemberEvents
    BY LenProperties, EmptySeq DEF TypeOK
  <1>. QED  BY ElementOfSeq DEF TypeOK

\* When two jobs wait, the youngest has all of its entry before it.
LEMMA ManyWait ==
    ASSUME TypeOK, JobsInv, Len(jobs) >= 2
    PROVE  \A ip \in OwnOf(Told) : ip \in Youngest.todo
  <1>1. Len(jobs) \in Nat /\ jobs # <<>>
    BY Queues
  <1>2. Youngest.todo = AllOf(Youngest.entry)
    BY <1>1 DEF JobsInv, Youngest
  <1>3. Told # None => Youngest.entry = Told
    BY <1>1 DEF JobsInv
  <1>. QED  BY <1>2, <1>3, OwnType, ToldType

\* A lone job of an entry that has members of this datacenter sets it.
LEMMA LoneJob ==
    ASSUME TypeOK, JobsInv, Len(jobs) = 1, OwnOf(Told) # {}
    PROVE  jobs[1].kind = "set" /\ jobs[1].entry = Told /\ Youngest = jobs[1]
  BY Queues, OwnType DEF JobsInv, Youngest

\* The step of a job in its place keeps JobsInv.
LEMMA AdvanceKeepsJobs ==
    ASSUME TypeOK, JobsInv, Told' = Told, NEW e, 1 \in 1 .. Len(jobs), Advance(1, e)
    PROVE  /\ JobsInv' /\ Len(jobs') = Len(jobs) /\ jobs' # <<>> /\ jobs # <<>>
           /\ jobs'[1] = e
           /\ (Len(jobs) >= 2 => Youngest' = Youngest)
           /\ (Len(jobs) = 1 => Youngest' = e)
  <1>1. jobs \in Seq(Jobs) /\ Len(jobs) \in Nat /\ e \in Jobs /\ jobs' = [jobs EXCEPT ![1] = e]
    BY Queues DEF Advance
  <1>2. /\ jobs' \in Seq(Jobs) /\ Len(jobs') = Len(jobs) /\ jobs' # <<>> /\ jobs # <<>>
        /\ \A i \in 1 .. Len(jobs) : jobs'[i] = IF i = 1 THEN e ELSE jobs[i]
    BY <1>1, JobReplaced
  <1>3. \A j \in 2 .. Len(jobs) : jobs'[j] = jobs[j]
    BY <1>1, <1>2
  <1>4. CASE Len(jobs) = 1
    <2>1. Youngest' = e /\ Youngest = jobs[1]
      BY <1>2, <1>4 DEF Youngest
    <2>2. e.kind = Youngest.kind /\ e.entry = Youngest.entry
      BY <2>1 DEF Advance
    <2>. QED  BY <1>2, <1>3, <1>4, <2>1, <2>2 DEF JobsInv
  <1>5. CASE Len(jobs) >= 2
    <2>1. Youngest' = Youngest
      BY <1>1, <1>2, <1>3, <1>5 DEF Youngest
    <2>2. \A j \in 2 .. Len(jobs') : jobs'[j].at = None /\ jobs'[j].todo = AllOf(jobs'[j].entry)
      BY <1>2, <1>3 DEF JobsInv
    <2>3. IF Told' = None THEN Youngest'.kind = "remove"
          ELSE Youngest'.kind = "set" /\ Youngest'.entry = Told'
      BY <1>2, <2>1 DEF JobsInv
    <2>4. JobsInv'
      BY <2>2, <2>3 DEF JobsInv, AllOf
    <2>5. jobs'[1] = e /\ Len(jobs) # 1
      BY <1>1, <1>2, <1>5
    <2>. QED  BY <1>2, <2>1, <2>4, <2>5
  <1>6. Len(jobs) = 1 \/ Len(jobs) >= 2
    <2>1. Len(jobs) \in Nat /\ 1 \in 1 .. Len(jobs)
      BY Queues
    <2>2. \A n \in Nat : 1 \in 1 .. n => n = 1 \/ n >= 2
      OBVIOUS
    <2>. QED  BY <2>1, <2>2
  <1>. QED  BY <1>4, <1>5, <1>6

\* What a request for ip leaves alone and what it does.
LEMMA RequestFacts ==
    ASSUME TypeOK, NEW ip \in Ips, NEW m, Request(ip, m)
    PROVE  /\ ip \in missed' \/ services'[ip] = m
           /\ \A q \in Ips \ {ip} : services'[q] = services[q] /\ (q \in missed' <=> q \in missed)
           /\ missed \subseteq missed' \union {ip}
  BY DEF Request, TypeOK

\* An event for ip settles it and no other address.
LEMMA EmitSettles ==
    ASSUME TypeOK, NEW e \in MemberEvents, memberEvents' = Append(memberEvents, e),
           Told' = Told, disabledEntIp' = disabledEntIp
    PROVE  /\ \A ip \in OwnOf(Told) : ip # e.ip /\ HandlerSettled(ip) => HandlerSettled(ip)'
           /\ \A ip \in OwnOf(Told) :
                 e = [ip |-> ip, disabled |-> MembersOf[Told][ip].disabled] => HandlerSettled(ip)'
  <1>1. /\ Len(memberEvents) \in Nat /\ Len(memberEvents') = Len(memberEvents) + 1
        /\ \A i \in 1 .. Len(memberEvents) : memberEvents'[i] = memberEvents[i]
        /\ memberEvents'[Len(memberEvents) + 1] = e
    BY Queues, AppendProperties
  <1>2. ASSUME NEW ip \in OwnOf(Told), ip # e.ip, HandlerSettled(ip)
        PROVE  HandlerSettled(ip)'
    BY <1>1, <1>2 DEF HandlerSettled
  <1>3. ASSUME NEW ip \in OwnOf(Told), e = [ip |-> ip, disabled |-> MembersOf[Told][ip].disabled]
        PROVE  HandlerSettled(ip)'
    BY <1>1, <1>3 DEF HandlerSettled
  <1>. QED  BY <1>2, <1>3

\* Delivering the oldest event settles none less.
LEMMA DeliverSettles ==
    ASSUME TypeOK, 1 \in 1 .. Len(memberEvents), Told' = Told, DeliverMember(1),
           NEW ip \in OwnOf(Told), HandlerSettled(ip)
    PROVE  HandlerSettled(ip)'
  <1> DEFINE n == Len(memberEvents)
             d == MembersOf[Told][ip].disabled
  <1>1. /\ n \in Nat /\ n >= 1 /\ Len(memberEvents') = n - 1
        /\ \A i \in 1 .. (n - 1) : memberEvents'[i] = memberEvents[i + 1]
    BY Queues, OldestRemoved DEF DeliverMember
  <1>2. disabledEntIp' = IF memberEvents[1].disabled
                         THEN disabledEntIp \union {memberEvents[1].ip}
                         ELSE disabledEntIp \ {memberEvents[1].ip}
    BY DEF DeliverMember, DisableEntryIp, EnableEntryIp
  <1>3. CASE (\A k \in 1 .. n : memberEvents[k].ip # ip) /\ (ip \in disabledEntIp <=> d)
    <2>1. memberEvents[1].ip # ip /\ (ip \in disabledEntIp' <=> ip \in disabledEntIp)
      BY <1>1, <1>2, <1>3
    <2>2. \A k \in 1 .. (n - 1) : memberEvents'[k].ip # ip
      BY <1>1, <1>3
    <2>. QED  BY <1>1, <1>3, <2>1, <2>2 DEF HandlerSettled
  <1>4. ASSUME NEW i \in 1 .. n, memberEvents[i] = [ip |-> ip, disabled |-> d],
               \A k \in (i + 1) .. n : memberEvents[k].ip # ip
        PROVE  HandlerSettled(ip)'
    <2>1. CASE i = 1
      <3>1. ip \in disabledEntIp' <=> d
        BY <1>2, <1>4, <2>1
      <3>2. \A k \in 1 .. (n - 1) : memberEvents'[k].ip # ip
        BY <1>1, <1>4, <2>1
      <3>. QED  BY <1>1, <3>1, <3>2 DEF HandlerSettled
    <2>2. CASE i # 1
      <3>1. i - 1 \in 1 .. (n - 1) /\ memberEvents'[i - 1] = memberEvents[i]
        BY <1>1, <2>2
      <3>2. \A k \in i .. (n - 1) : memberEvents'[k].ip # ip
        BY <1>1, <1>4
      <3>. QED  BY <1>1, <1>4, <3>1, <3>2 DEF HandlerSettled
    <2>. QED  BY <2>1, <2>2
  <1>. QED  BY <1>3, <1>4 DEF HandlerSettled

-----------------------------------------------------------------------------
(* The invariant *)

\* Steps that leave the queues, the agent and the handler alone.
LEMMA NothingMoves ==
    ASSUME JobsInv, SettledInv, RemovalInv, Told' = Told, UNCHANGED <<jobs, member>>,
           services' = services, missed' = missed
    PROVE  JobsInv' /\ SettledInv' /\ RemovalInv'
  <1>1. jobs' = jobs /\ memberEvents' = memberEvents /\ disabledEntIp' = disabledEntIp
    BY DEF member
  <1>2. Youngest' = Youngest
    BY <1>1 DEF Youngest
  <1>3. JobsInv'
    BY <1>1, <1>2 DEF JobsInv, AllOf
  <1>4. \A ip \in OwnOf(Told) : /\ HandlerSettled(ip) => HandlerSettled(ip)'
                                /\ AgentSettled(ip) => AgentSettled(ip)'
    BY <1>1 DEF HandlerSettled, AgentSettled
  <1>5. SettledInv'
    BY <1>1, <1>2, <1>4 DEF SettledInv, OwnOf, AllOf
  <1>6. RemovalInv'
    BY <1>1 DEF RemovalInv, AllOf
  <1>. QED  BY <1>3, <1>5, <1>6

\* An event appended: its job has all of its entry before it.
LEMMA TellKeeps ==
    ASSUME TypeOK, JobsInv, RemovalInv, NEW n \in 1 .. Len(log[Fqdn]), Tell(n)
    PROVE  JobsInv' /\ SettledInv' /\ RemovalInv'
  <1> DEFINE e == Job(n)
  <1>1. /\ e \in Jobs /\ e.at = None /\ e.todo = AllOf(e.entry) /\ Told' = Content(n)
        /\ IF Content(n) = None THEN e.kind = "remove" ELSE e.kind = "set" /\ e.entry = Content(n)
    BY TellFacts
  <1>2. /\ jobs' = Append(jobs, e) /\ services' = services /\ missed' = missed
        /\ Len(jobs) \in Nat /\ jobs \in Seq(Jobs) /\ (jobs = <<>> <=> Len(jobs) = 0)
    BY Queues DEF Tell, agent
  <1>. HIDE DEF e
  <1>3. /\ jobs' # <<>> /\ Len(jobs') = Len(jobs) + 1
        /\ \A i \in 1 .. Len(jobs) : jobs'[i] = jobs[i]
        /\ jobs'[Len(jobs) + 1] = e
    BY <1>1, <1>2, AppendProperties
  <1>4. Youngest' = e
    BY <1>3 DEF Youngest
  <1>5. ASSUME NEW j \in 2 .. Len(jobs')
        PROVE  jobs'[j].at = None /\ jobs'[j].todo = AllOf(jobs'[j].entry)
    <2>1. CASE j = Len(jobs) + 1
      BY <1>1, <1>3, <2>1
    <2>2. CASE j # Len(jobs) + 1
      <3>1. j \in 2 .. Len(jobs) /\ jobs'[j] = jobs[j]
        BY <1>2, <1>3, <2>2
      <3>. QED  BY <3>1 DEF JobsInv
    <2>. QED  BY <2>1, <2>2
  <1>6. JobsInv'
    BY <1>1, <1>4, <1>5 DEF JobsInv, AllOf
  <1>7. SettledInv'
    <2>1. Content(n) \in Contents \union {None}
      BY ToldType
    <2>2. OwnOf(Content(n)) \subseteq Youngest'.todo
      BY <1>1, <1>4, <2>1, OwnType
    <2>. QED  BY <1>1, <1>3, <2>2 DEF SettledInv, OwnOf, AllOf
  <1>8. RemovalInv'
    <2>1. CASE jobs = <<>>
      <3>1. jobs'[1] = e
        BY <1>2, <1>3, <2>1
      <3>. QED  BY <1>1, <3>1 DEF RemovalInv, AllOf
    <2>2. CASE jobs # <<>>
      <3>1. jobs'[1] = jobs[1]
        BY <1>2, <1>3, <2>2
      <3>. QED  BY <1>2, <2>2, <3>1 DEF RemovalInv, AllOf
    <2>. QED  BY <2>1, <2>2
  <1>. QED  BY <1>6, <1>7, <1>8

\* The oldest job is done: those that wait move up.
LEMMA DoneKeeps ==
    ASSUME TypeOK, JobsInv, SettledInv, 1 \in 1 .. Len(jobs), JobDone(1), Told' = Told
    PROVE  JobsInv' /\ SettledInv' /\ RemovalInv'
  <1>1. /\ Len(jobs) \in Nat /\ Len(jobs) >= 1 /\ jobs # <<>>
        /\ jobs' \in Seq(Jobs) /\ Len(jobs') = Len(jobs) - 1
        /\ \A j \in 1 .. (Len(jobs) - 1) : jobs'[j] = jobs[j + 1]
        /\ jobs' = <<>> <=> Len(jobs') = 0
    BY Queues, OldestRemoved, EmptySeq DEF JobDone
  <1>2. /\ memberEvents' = memberEvents /\ disabledEntIp' = disabledEntIp
        /\ services' = services /\ missed' = missed
        /\ jobs[1].todo = {} /\ jobs[1].at = None
    BY DEF JobDone, agent, member
  <1>3. \A j \in 1 .. Len(jobs') : jobs'[j].at = None /\ jobs'[j].todo = AllOf(jobs'[j].entry)
    BY SMTT(30), <1>1 DEF JobsInv
  <1>4. Len(jobs) >= 2 => Youngest' = Youngest
    BY <1>1 DEF Youngest
  <1>5. JobsInv'
    <2>1. \A j \in 2 .. Len(jobs') : jobs'[j].at = None /\ jobs'[j].todo = AllOf(jobs'[j].entry)
      BY <1>1, <1>3
    <2>2. jobs' # <<>> => Youngest' = Youngest
      BY <1>1, <1>4
    <2>3. jobs' # <<>> => IF Told' = None THEN Youngest'.kind = "remove"
                          ELSE Youngest'.kind = "set" /\ Youngest'.entry = Told'
      BY <1>1, <2>2 DEF JobsInv
    <2>. QED  BY <2>1, <2>3 DEF JobsInv, AllOf
  <1>6. ASSUME NEW ip \in OwnOf(Told)
        PROVE  \/ jobs' # <<>> /\ ip \in Youngest'.todo
               \/ HandlerSettled(ip)' /\ AgentSettled(ip)'
    <2>1. CASE Len(jobs) >= 2
      <3>1. ip \in Youngest.todo /\ jobs' # <<>>
        BY <1>1, <2>1, ManyWait
      <3>. QED  BY <1>4, <2>1, <3>1
    <2>2. CASE Len(jobs) = 1
      <3>1. Youngest = jobs[1] /\ ip \in Ips
        BY <2>2, OwnType, ToldType DEF Youngest
      <3>2. HandlerSettled(ip) /\ AgentSettled(ip)
        BY <1>2, <3>1, NoneAssumption DEF SettledInv
      <3>. QED  BY <1>2, <3>2 DEF HandlerSettled, AgentSettled
    <2>3. Len(jobs) >= 2 \/ Len(jobs) = 1
      BY <1>1
    <2>. QED  BY <2>1, <2>2, <2>3
  <1>7. SettledInv'
    BY <1>6 DEF SettledInv, OwnOf, AllOf
  <1>8. RemovalInv'
    <2>1. jobs' # <<>> => 1 \in 1 .. Len(jobs')
      BY <1>1
    <2>. QED  BY <1>3, <2>1 DEF RemovalInv, AllOf
  <1>. QED  BY <1>5, <1>7, <1>8

\* SettledInv while a job that waits for others, or a lone one, advances.
LEMMA AdvanceKeepsSettled ==
    ASSUME TypeOK, JobsInv, SettledInv, Told' = Told, NEW e, 1 \in 1 .. Len(jobs), Advance(1, e),
           \A ip \in OwnOf(Told) :
               Len(jobs) = 1 /\ jobs[1].kind = "set" /\ jobs[1].entry = Told
               /\ (\/ ip \in jobs[1].todo
                   \/ HandlerSettled(ip) /\ (AgentSettled(ip) \/ ip = jobs[1].at))
               => \/ ip \in e.todo
                  \/ HandlerSettled(ip)' /\ (AgentSettled(ip)' \/ ip = e.at)
    PROVE  SettledInv'
  <1>1. /\ Len(jobs') = Len(jobs) /\ jobs' # <<>> /\ jobs # <<>>
        /\ (Len(jobs) >= 2 => Youngest' = Youngest)
        /\ (Len(jobs) = 1 => Youngest' = e)
    BY AdvanceKeepsJobs
  <1>2. ASSUME NEW ip \in OwnOf(Told)
        PROVE  \/ jobs' # <<>> /\ ip \in Youngest'.todo
               \/ HandlerSettled(ip)' /\ (AgentSettled(ip)' \/ (jobs' # <<>> /\ ip = Youngest'.at))
    <2>1. CASE Len(jobs) >= 2
      BY <1>1, <2>1, ManyWait
    <2>2. CASE Len(jobs) = 1
      <3>1. jobs[1].kind = "set" /\ jobs[1].entry = Told /\ Youngest = jobs[1]
        BY <2>2, LoneJob
      <3>. QED  BY <1>1, <2>2, <3>1 DEF SettledInv
    <2>3. Len(jobs) >= 2 \/ Len(jobs) = 1
      <3>1. Len(jobs) \in Nat /\ 1 \in 1 .. Len(jobs)
        BY Queues
      <3>2. \A n \in Nat : 1 \in 1 .. n => n = 1 \/ n >= 2
        OBVIOUS
      <3>. QED  BY <3>1, <3>2
    <2>. QED  BY <2>1, <2>2, <2>3
  <1>. QED  BY <1>2 DEF SettledInv, OwnOf, AllOf

\* The job is in its place, so is the entry it is for.
LEMMA OldestJob ==
    ASSUME TypeOK, 1 \in 1 .. Len(jobs)
    PROVE  /\ jobs[1] \in Jobs /\ jobs[1].entry \in Contents /\ jobs[1].todo \subseteq Ips
           /\ jobs[1].at # None => jobs[1].kind = "set" /\ jobs[1].at \in OwnOf(jobs[1].entry)
           /\ jobs # <<>> /\ OwnOf(Told) \subseteq Ips
  <1>1. jobs[1] \in Jobs
    BY Queues
  <1>2. jobs # <<>>
    <2>1. (jobs = <<>> <=> Len(jobs) = 0) /\ Len(jobs) \in Nat
      BY Queues
    <2>2. \A n \in Nat : 1 \in 1 .. n => n # 0
      OBVIOUS
    <2>. QED  BY <2>1, <2>2
  <1>3. OwnOf(Told) \subseteq Ips
    BY OwnType, ToldType
  <1>. QED  BY <1>1, <1>2, <1>3 DEF Jobs, TypeOK

LEMMA SkipKeeps ==
    ASSUME TypeOK, JobsInv, SettledInv, RemovalInv, Told' = Told, 1 \in 1 .. Len(jobs),
           NEW ip \in Ips, SkipMember(1, ip)
    PROVE  JobsInv' /\ SettledInv' /\ RemovalInv'
  <1> DEFINE e == [jobs[1] EXCEPT !.todo = @ \ {ip}]
  <1>1. jobs[1] \in Jobs /\ jobs[1].entry \in Contents /\ jobs[1].at = None
        /\ jobs[1].kind = "set" /\ ip \notin OwnOf(jobs[1].entry)
    BY OldestJob DEF SkipMember
  <1>2. /\ e \in Jobs /\ jobs' = [jobs EXCEPT ![1] = e] /\ e.kind = jobs[1].kind
        /\ e.entry = jobs[1].entry /\ e.todo = jobs[1].todo \ {ip} /\ e.at = None
    BY <1>1 DEF SkipMember, Jobs
  <1>. HIDE DEF e
  <1>3. Advance(1, e)
    BY <1>2 DEF Advance
  <1>4. JobsInv' /\ jobs'[1] = e
    BY <1>3, AdvanceKeepsJobs
  <1>5. /\ memberEvents' = memberEvents /\ disabledEntIp' = disabledEntIp
        /\ services' = services /\ missed' = missed
    BY DEF SkipMember, agent, member
  <1>6. \A q \in OwnOf(Told) : /\ HandlerSettled(q) => HandlerSettled(q)'
                               /\ AgentSettled(q) => AgentSettled(q)'
    BY <1>5 DEF HandlerSettled, AgentSettled
  <1>7. \A q \in OwnOf(Told) : q # None
    BY OldestJob, NoneAssumption
  <1>8. SettledInv'
    BY <1>1, <1>2, <1>3, <1>6, <1>7, AdvanceKeepsSettled
  <1>9. RemovalInv'
    BY <1>1, <1>2, <1>4 DEF RemovalInv
  <1>. QED  BY <1>4, <1>8, <1>9

LEMMA EmitKeeps ==
    ASSUME TypeOK, JobsInv, SettledInv, RemovalInv, Told' = Told, 1 \in 1 .. Len(jobs),
           NEW ip \in Ips, EmitMember(1, ip)
    PROVE  JobsInv' /\ SettledInv' /\ RemovalInv'
  <1> DEFINE e == [jobs[1] EXCEPT !.todo = @ \ {ip}, !.at = ip]
             m == [ip |-> ip, disabled |-> MembersOf[jobs[1].entry][ip].disabled]
  <1>1. jobs[1] \in Jobs /\ jobs[1].entry \in Contents /\ jobs[1].at = None
        /\ jobs[1].kind = "set" /\ ip \in OwnOf(jobs[1].entry)
    BY OldestJob DEF EmitMember
  <1>2. /\ e \in Jobs /\ jobs' = [jobs EXCEPT ![1] = e] /\ e.kind = jobs[1].kind
        /\ e.entry = jobs[1].entry /\ e.todo = jobs[1].todo \ {ip} /\ e.at = ip
    BY <1>1 DEF EmitMember, Jobs
  <1>3. /\ memberEvents' = Append(memberEvents, m) /\ disabledEntIp' = disabledEntIp
        /\ services' = services /\ missed' = missed
    BY DEF EmitMember, agent
  <1>4. m \in MemberEvents /\ m.ip = ip
    BY <1>1, OwnType DEF MemberEvents, Members
  <1>5. jobs[1].entry = Told => m = [ip |-> ip, disabled |-> MembersOf[Told][ip].disabled]
    OBVIOUS
  <1>. HIDE DEF e, m
  <1>6. Advance(1, e)
    BY <1>1, <1>2 DEF Advance
  <1>7. JobsInv' /\ jobs'[1] = e
    BY <1>6, AdvanceKeepsJobs
  <1>8. /\ \A q \in OwnOf(Told) : q # ip /\ HandlerSettled(q) => HandlerSettled(q)'
        /\ ip \in OwnOf(Told) /\ jobs[1].entry = Told => HandlerSettled(ip)'
    BY <1>3, <1>4, <1>5, EmitSettles
  <1>9. \A q \in OwnOf(Told) : q # None /\ (AgentSettled(q) => AgentSettled(q)')
    BY <1>3, OldestJob, NoneAssumption DEF AgentSettled
  <1>10. SettledInv'
    BY <1>1, <1>2, <1>6, <1>8, <1>9, AdvanceKeepsSettled
  <1>11. RemovalInv'
    BY <1>1, <1>2, <1>7 DEF RemovalInv
  <1>. QED  BY <1>7, <1>10, <1>11

LEMMA RegisterKeeps ==
    ASSUME TypeOK, JobsInv, SettledInv, RemovalInv, Told' = Told, 1 \in 1 .. Len(jobs),
           Register(1)
    PROVE  JobsInv' /\ SettledInv' /\ RemovalInv'
  <1>0. PICK ip : ip = jobs[1].at
    OBVIOUS
  <1> DEFINE e == [jobs[1] EXCEPT !.at = None]
             m == MembersOf[jobs[1].entry][ip]
  <1>1. jobs[1] \in Jobs /\ jobs[1].entry \in Contents /\ ip \in OwnOf(jobs[1].entry)
        /\ jobs[1].kind = "set" /\ ip \in Ips
    BY <1>0, OldestJob, OwnType DEF Register
  <1>2. /\ e \in Jobs /\ jobs' = [jobs EXCEPT ![1] = e] /\ e.kind = jobs[1].kind
        /\ e.entry = jobs[1].entry /\ e.todo = jobs[1].todo /\ e.at = None
    BY <1>1 DEF Register, Jobs
  <1>3. memberEvents' = memberEvents /\ disabledEntIp' = disabledEntIp /\ Request(ip, m)
    BY <1>0 DEF Register, member
  <1>4. /\ ip \in missed' \/ services'[ip] = m
        /\ \A q \in Ips \ {ip} : services'[q] = services[q] /\ (q \in missed' <=> q \in missed)
    BY <1>1, <1>3, RequestFacts
  <1>. HIDE DEF e
  <1>5. Advance(1, e)
    BY <1>2 DEF Advance
  <1>6. JobsInv' /\ jobs'[1] = e
    BY <1>5, AdvanceKeepsJobs
  <1>7. \A q \in OwnOf(Told) : HandlerSettled(q) => HandlerSettled(q)'
    BY <1>3 DEF HandlerSettled
  <1>8. \A q \in OwnOf(Told) : q # ip /\ AgentSettled(q) => AgentSettled(q)'
    BY <1>4, OldestJob DEF AgentSettled
  <1>9. jobs[1].entry = Told => AgentSettled(ip)'
    BY <1>4 DEF AgentSettled
  <1>10. SettledInv'
    BY <1>0, <1>2, <1>5, <1>7, <1>8, <1>9, AdvanceKeepsSettled
  <1>11. RemovalInv'
    BY <1>1, <1>2, <1>6 DEF RemovalInv
  <1>. QED  BY <1>6, <1>10, <1>11

LEMMA DeregisterKeeps ==
    ASSUME TypeOK, JobsInv, SettledInv, RemovalInv, Told' = Told, 1 \in 1 .. Len(jobs),
           NEW ip \in Ips, Deregister(1, ip)
    PROVE  JobsInv' /\ SettledInv' /\ RemovalInv'
  <1> DEFINE e == [jobs[1] EXCEPT !.todo = @ \ {ip}]
  <1>1. jobs[1] \in Jobs /\ jobs[1].entry \in Contents /\ jobs[1].kind = "remove"
        /\ Request(ip, None) /\ jobs[1].at = None /\ jobs # <<>>
    BY OldestJob DEF Deregister
  <1>2. /\ e \in Jobs /\ jobs' = [jobs EXCEPT ![1] = e] /\ e.kind = jobs[1].kind
        /\ e.entry = jobs[1].entry /\ e.todo = jobs[1].todo \ {ip} /\ e.at = None
    BY <1>1 DEF Deregister, Jobs
  <1>. HIDE DEF e
  <1>3. Advance(1, e)
    BY <1>2 DEF Advance
  <1>4. JobsInv' /\ jobs'[1] = e
    BY <1>3, AdvanceKeepsJobs
  <1>5. SettledInv'
    BY <1>1, <1>3, AdvanceKeepsSettled
  <1>6. /\ ip \in missed' \/ services'[ip] = None
        /\ \A q \in Ips \ {ip} : services'[q] = services[q] /\ (q \in missed' <=> q \in missed)
    BY <1>1, RequestFacts
  <1>7. AllOf(jobs[1].entry) \subseteq Ips
    BY <1>1, OwnType
  <1>8. \A q \in AllOf(jobs[1].entry) : q \in jobs[1].todo \union missed \/ services[q] = None
    BY <1>1 DEF RemovalInv
  <1>9. \A q \in AllOf(e.entry) : q \in e.todo \union missed' \/ services'[q] = None
    BY <1>2, <1>6, <1>7, <1>8
  <1>10. RemovalInv'
    BY <1>4, <1>9 DEF RemovalInv, AllOf
  <1>. QED  BY <1>4, <1>5, <1>10

\* RegInv is inductive.
LEMMA RegInductive == TypeOK /\ RegInv /\ [Next]_vars => RegInv'
  <1>. SUFFICES ASSUME TypeOK, RegInv, [Next]_vars PROVE RegInv'
    OBVIOUS
  <1>0. Content(1) = None /\ (InOrder => JobsInv /\ SettledInv /\ RemovalInv)
    BY DEF RegInv
  <1>1. ASSUME NEW c \in Contents \union {None}, Write(c)
        PROVE  RegInv'
    BY <1>0, <1>1, WriteFacts, NothingMoves DEF Write, agent, RegInv
  <1>2. ASSUME NEW n \in 1 .. Len(log[Fqdn]), Tell(n)
        PROVE  RegInv'
    BY <1>0, <1>2, TellFacts, TellKeeps DEF RegInv, Content
  <1>3. CASE JobStep
    <2>. PICK j \in Next1(jobs) :
            \/ \E ip \in Ips : SkipMember(j, ip) \/ EmitMember(j, ip) \/ Deregister(j, ip)
            \/ Register(j) \/ JobDone(j)
      BY <1>3 DEF JobStep
    <2>1. j \in 1 .. Len(jobs) /\ (InOrder => j = 1)
      BY NextIsOne
    <2>2. log' = log /\ told' = told
      BY DEF SkipMember, EmitMember, Deregister, Register, JobDone, feed
    <2>3. Told' = Told /\ Content(1)' = Content(1)
      BY <2>2 DEF Told, Content
    <2>4. CASE ~InOrder
      BY <1>0, <2>3, <2>4 DEF RegInv
    <2>5. CASE InOrder
      <3>1. /\ 1 \in 1 .. Len(jobs) /\ JobsInv /\ SettledInv /\ RemovalInv
            /\ \/ \E ip \in Ips : SkipMember(1, ip) \/ EmitMember(1, ip) \/ Deregister(1, ip)
               \/ Register(1) \/ JobDone(1)
        BY <1>0, <2>1, <2>5
      <3>2. JobsInv' /\ SettledInv' /\ RemovalInv'
        BY <2>3, <3>1, SkipKeeps, EmitKeeps, DeregisterKeeps, RegisterKeeps, DoneKeeps
      <3>. QED  BY <1>0, <2>3, <3>2 DEF RegInv
    <2>. QED  BY <2>4, <2>5
  <1>4. ASSUME NEW i \in 1 .. Len(memberEvents), DeliverMember(i)
        PROVE  RegInv'
    <2>1. i \in Next1(memberEvents) /\ jobs' = jobs /\ services' = services
          /\ missed' = missed /\ log' = log /\ told' = told
      BY <1>4 DEF DeliverMember, feed, agent
    <2>2. Told' = Told /\ Content(1)' = Content(1) /\ Youngest' = Youngest
      BY <2>1 DEF Told, Content, Youngest
    <2>3. CASE ~InOrder
      BY <1>0, <2>2, <2>3 DEF RegInv
    <2>4. CASE InOrder
      <3>1. i = 1
        BY <2>1, <2>4, NextIsOne
      <3>2. \A ip \in OwnOf(Told) : /\ HandlerSettled(ip) => HandlerSettled(ip)'
                                    /\ AgentSettled(ip) => AgentSettled(ip)'
        BY <1>4, <2>1, <2>2, <3>1, DeliverSettles DEF AgentSettled
      <3>3. JobsInv' /\ RemovalInv'
        BY <1>0, <2>1, <2>2, <2>4 DEF JobsInv, RemovalInv, AllOf
      <3>4. SettledInv'
        BY <1>0, <2>1, <2>2, <2>4, <3>2 DEF SettledInv, OwnOf, AllOf
      <3>. QED  BY <1>0, <2>2, <3>3, <3>4 DEF RegInv
    <2>. QED  BY <2>3, <2>4
  <1>5. ASSUME NEW ip \in Ips, CheckBegins(ip) \/ CheckEnds(ip)
        PROVE  RegInv'
    <2>1. UNCHANGED <<jobs, member>> /\ services' = services /\ missed' = missed
          /\ log' = log /\ told' = told
      BY <1>5 DEF CheckBegins, CheckEnds, feed
    <2>2. Told' = Told /\ Content(1)' = Content(1)
      BY <2>1 DEF Told, Content
    <2>. QED  BY <1>0, <2>1, <2>2, NothingMoves DEF RegInv
  <1>6. CASE Restart
    <2>1. Told' = None /\ Content(1)' = None /\ jobs' = <<>>
      BY <1>0, <1>6, RestartFacts DEF Restart, Content
    <2>2. Len(<<>>) = 0
      BY EmptySeq
    <2>3. JobsInv' /\ SettledInv' /\ RemovalInv'
      BY <2>1, <2>2, OwnType DEF JobsInv, SettledInv, RemovalInv, OwnOf, AllOf
    <2>. QED  BY <2>1, <2>3 DEF RegInv
  <1>7. CASE UNCHANGED vars
    <2>1. UNCHANGED <<jobs, member>> /\ services' = services /\ missed' = missed
          /\ log' = log /\ told' = told
      BY <1>7 DEF vars, feed, agent
    <2>2. Told' = Told /\ Content(1)' = Content(1)
      BY <2>1 DEF Told, Content
    <2>. QED  BY <1>0, <2>1, <2>2, NothingMoves DEF RegInv
  <1>. QED  BY <1>1, <1>2, <1>3, <1>4, <1>5, <1>6, <1>7 DEF Next

-----------------------------------------------------------------------------
(* What the servers of a cluster rely on *)

\* The types and what is settled, together: the inductive invariant.
THEOREM Invariant == Spec => [](TypeOK /\ RegInv)
  <1>1. TypeOK /\ RegInv /\ [Next]_vars => (TypeOK /\ RegInv)'
    BY TypeInductive, RegInductive
  <1>. QED  BY InitTyped, <1>1, PTL DEF Spec

\* With listeners run in order (regs.RegKV, registerMembers), the agent has each member
\* of this datacenter as the entry last told says, or a job of that entry is still to
\* register it, unless the last request for it failed.
THEOREM AgentFollowsCorrect == Spec => []AgentFollows
  <1>1. TypeOK /\ RegInv => AgentFollows
    <2>. SUFFICES ASSUME TypeOK, RegInv, InOrder, NEW ip \in OwnOf(Told) \ missed,
                         services[ip] # MembersOf[Told][ip]
                  PROVE  \E j \in 1 .. Len(jobs) : ToRegister(j, ip)
      BY DEF AgentFollows
    <2>1. ~AgentSettled(ip)
      BY DEF AgentSettled
    <2>2. jobs # <<>> /\ (ip \in Youngest.todo \/ ip = Youngest.at)
      BY <2>1 DEF RegInv, SettledInv
    <2>3. Told # None
      BY DEF OwnOf, AllOf
    <2>4. Youngest.kind = "set" /\ Youngest.entry = Told
      BY <2>2, <2>3 DEF RegInv, JobsInv
    <2>5. Len(jobs) \in 1 .. Len(jobs)
      <3>1. jobs \in Seq(Jobs) /\ Len(jobs) \in Nat /\ (jobs = <<>> <=> Len(jobs) = 0)
        BY LenProperties, EmptySeq DEF TypeOK
      <3>. QED  BY <2>2, <3>1
    <2>6. ToRegister(Len(jobs), ip)
      BY <2>2, <2>4 DEF ToRegister, Youngest
    <2>. QED  BY <2>5, <2>6
  <1>. QED  BY Invariant, <1>1, PTL

\* Once member events are delivered too (HcHandler.DisableEntryIp and
\* EnableEntryIp) the handler refuses exactly the members the entry disables.
THEOREM HandlerFollowsCorrect == Spec => []HandlerFollows
  <1>1. TypeOK /\ RegInv => HandlerFollows
    <2>. SUFFICES ASSUME TypeOK, RegInv, InOrder, jobs = <<>>, memberEvents = <<>>,
                         NEW ip \in OwnOf(Told)
                  PROVE  ip \in disabledEntIp <=> MembersOf[Told][ip].disabled
      BY DEF HandlerFollows
    <2>1. HandlerSettled(ip)
      BY DEF RegInv, SettledInv
    <2>2. Len(memberEvents) = 0
      BY EmptySeq
    <2>. QED  BY <2>1, <2>2 DEF HandlerSettled
  <1>. QED  BY Invariant, <1>1, PTL

\* The step that finishes the handling of a removal (deregisterMembers) leaves no
\* member of the entry removed registered, unless its request failed.
THEOREM RemovalDeregistersCorrect == Spec => RemovalDeregisters
  <1>1. ASSUME TypeOK, RegInv, [Next]_vars, NEW ip \in Ips \ missed', InOrder,
               restarts' = restarts, jobs # <<>>, jobs' = Tail(jobs),
               jobs[1].kind = "remove", ip \in AllOf(jobs[1].entry)
        PROVE  services'[ip] = None
    <2>1. jobs \in Seq(Jobs) /\ Len(jobs) \in Nat /\ Len(jobs') = Len(jobs) - 1
      BY <1>1, Queues, HeadTailProperties
    <2>2. Len(jobs') # Len(jobs) /\ jobs' # jobs /\ Len(jobs') # Len(jobs) + 1
      BY <2>1
    <2>3. \E j \in Next1(jobs) : JobDone(j)
      <3>1. JobStep
        <4>1. \A n \in 1 .. Len(log[Fqdn]) : ~Tell(n)
          <5>. SUFFICES ASSUME NEW n \in 1 .. Len(log[Fqdn]), Tell(n) PROVE FALSE
            OBVIOUS
          <5>1. Job(n) \in Jobs
            BY <1>1, TellFacts
          <5>2. jobs' = Append(jobs, Job(n))
            BY DEF Tell
          <5>3. Len(jobs') = Len(jobs) + 1
            BY <2>1, <5>1, <5>2, AppendProperties
          <5>. QED  BY <2>2, <5>3
        <4>2. ~Restart
          BY <1>1 DEF Restart, TypeOK
        <4>3. /\ \A c \in Contents \union {None} : ~Write(c)
              /\ \A i \in 1 .. Len(memberEvents) : ~DeliverMember(i)
              /\ \A q \in Ips : ~CheckBegins(q) /\ ~CheckEnds(q)
              /\ ~UNCHANGED vars
          BY <2>2 DEF Write, DeliverMember, CheckBegins, CheckEnds, vars
        <4>. QED  BY <1>1, <4>1, <4>2, <4>3 DEF Next
      <3>2. ASSUME NEW j \in Next1(jobs), NEW q \in Ips,
                   SkipMember(j, q) \/ EmitMember(j, q) \/ Deregister(j, q) \/ Register(j)
            PROVE  FALSE
        <4>1. j \in 1 .. Len(jobs)
          BY NextIsOne
        <4>2. PICK e : Advance(j, e)
          BY <1>1, <3>2, <4>1, JobAdvances
        <4>3. e \in Jobs /\ jobs' = [jobs EXCEPT ![j] = e]
          BY <4>2 DEF Advance
        <4>4. Len(jobs') = Len(jobs)
          BY <2>1, <4>1, <4>3, JobReplaced
        <4>. QED  BY <2>2, <4>4
      <3>. QED  BY <1>1, <3>1, <3>2 DEF JobStep
    <2>4. JobDone(1)
      BY <1>1, <2>3, NextIsOne
    <2>5. services' = services /\ missed' = missed /\ jobs[1].todo = {}
      BY <2>4 DEF JobDone, agent
    <2>. QED  BY <1>1, <2>5 DEF RegInv, RemovalInv
  <1>2. TypeOK /\ RegInv /\ [Next]_vars =>
           [\A ip \in Ips \ missed' :
              InOrder /\ restarts' = restarts /\ jobs # <<>> /\ jobs' = Tail(jobs)
                  /\ jobs[1].kind = "remove" /\ ip \in AllOf(jobs[1].entry)
              => services'[ip] = None]_vars
    BY <1>1
  <1>. QED  BY Invariant, <1>2, PTL DEF Spec, RemovalDeregisters
=============================================================================
