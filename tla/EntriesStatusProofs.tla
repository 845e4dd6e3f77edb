------------------------ MODULE EntriesStatusProofs ------------------------
(* The steps of EntriesStatus keep its types and the invariants behind       *)
(* AllReported and ScrapeExact, for any entries, members, number of workers, *)
(* capacity of the channel and number of disturbances.                       *)
EXTENDS EntriesStatus, SequenceTheorems, FiniteSetTheorems, TLAPS

-----------------------------------------------------------------------------
(* What was sent *)

\* Collecting moves the head of the channel to the end of what was collected.
LEMMA CollectConcat ==
    ASSUME NEW S, NEW s \in Seq(S), NEW t \in Seq(S), t # <<>>
    PROVE  /\ Append(s, Head(t)) \o Tail(t) = s \o t
           /\ Append(s, Head(t)) \in Seq(S) /\ Tail(t) \in Seq(S)
  <1> DEFINE a == Append(s, Head(t))
             r == Tail(t)
  <1>1. /\ Len(s) \in Nat /\ Len(t) \in Nat /\ Len(t) >= 1 /\ Head(t) = t[1]
    BY LenProperties, EmptySeq
  <1>2. /\ r \in Seq(S) /\ Len(r) = Len(t) - 1 /\ \A i \in 1 .. Len(r) : r[i] = t[i + 1]
    BY HeadTailProperties
  <1>3. /\ a \in Seq(S) /\ Len(a) = Len(s) + 1 /\ a[Len(s) + 1] = t[1]
        /\ \A i \in 1 .. Len(s) : a[i] = s[i]
    BY <1>1, HeadTailProperties, AppendProperties
  <1>. HIDE DEF a, r
  <1>4. /\ a \o r \in Seq(S) /\ Len(a \o r) = Len(a) + Len(r)
        /\ \A i \in 1 .. Len(a) + Len(r) : (a \o r)[i] = IF i <= Len(a) THEN a[i] ELSE r[i - Len(a)]
    BY <1>2, <1>3, ConcatProperties
  <1>5. /\ s \o t \in Seq(S) /\ Len(s \o t) = Len(s) + Len(t)
        /\ \A i \in 1 .. Len(s) + Len(t) : (s \o t)[i] = IF i <= Len(s) THEN s[i] ELSE t[i - Len(s)]
    BY ConcatProperties
  <1>6. Len(a \o r) = Len(s \o t)
    BY <1>1, <1>2, <1>3, <1>4, <1>5
  <1>7. ASSUME NEW i \in 1 .. Len(a \o r) PROVE (a \o r)[i] = (s \o t)[i]
    <2>1. CASE i <= Len(s)
      BY <2>1, <1>1, <1>2, <1>3, <1>4, <1>5
    <2>2. CASE i = Len(s) + 1
      BY <2>2, <1>1, <1>2, <1>3, <1>4, <1>5
    <2>3. CASE i > Len(s) + 1
      <3>1. i - Len(a) \in 1 .. Len(r) /\ (i - Len(a)) + 1 = i - Len(s)
        BY <2>3, <1>1, <1>2, <1>3, <1>4
      <3>2. (a \o r)[i] = r[i - Len(a)]
        BY <2>3, <1>1, <1>2, <1>3, <1>4
      <3>3. (s \o t)[i] = t[i - Len(s)]
        BY <2>3, <1>1, <1>4, <1>5, <1>6
      <3>4. r[i - Len(a)] = t[(i - Len(a)) + 1]
        BY <3>1, <1>2
      <3>. QED  BY <3>1, <3>2, <3>3, <3>4
    <2>. QED  BY <2>1, <2>2, <2>3, <1>1, <1>2, <1>3, <1>4
  <1>8. a \o r = s \o t
    BY <1>4, <1>5, <1>6, <1>7, SeqEqual
  <1>. QED  BY <1>2, <1>3, <1>8 DEF a, r

\* Sending adds one report at the end.
LEMMA SendConcat ==
    ASSUME NEW S, NEW s \in Seq(S), NEW t \in Seq(S), NEW x \in S
    PROVE  /\ Append(t, x) \in Seq(S)
           /\ s \o t \in Seq(S) /\ s \o Append(t, x) \in Seq(S)
           /\ Len(s \o t) \in Nat /\ Len(s \o Append(t, x)) = Len(s \o t) + 1
           /\ (s \o Append(t, x))[Len(s \o t) + 1] = x
           /\ \A i \in 1 .. Len(s \o t) : (s \o Append(t, x))[i] = (s \o t)[i]
  <1>1. /\ Len(s) \in Nat /\ Len(t) \in Nat
        /\ Append(t, x) \in Seq(S) /\ Len(Append(t, x)) = Len(t) + 1
        /\ Append(t, x)[Len(t) + 1] = x
        /\ \A i \in 1 .. Len(t) : Append(t, x)[i] = t[i]
    BY LenProperties, AppendProperties
  <1> DEFINE u == Append(t, x)
  <1>. HIDE DEF u
  <1>2. /\ s \o u \in Seq(S) /\ Len(s \o u) = Len(s) + Len(u)
        /\ \A i \in 1 .. Len(s) + Len(u) : (s \o u)[i] = IF i <= Len(s) THEN s[i] ELSE u[i - Len(s)]
    BY <1>1, ConcatProperties DEF u
  <1>3. /\ s \o t \in Seq(S) /\ Len(s \o t) = Len(s) + Len(t)
        /\ \A i \in 1 .. Len(s) + Len(t) : (s \o t)[i] = IF i <= Len(s) THEN s[i] ELSE t[i - Len(s)]
    BY ConcatProperties
  <1>4. /\ Len(u) = Len(t) + 1 /\ u[Len(t) + 1] = x
        /\ \A i \in 1 .. Len(t) : u[i] = t[i]
    BY <1>1 DEF u
  <1>5. (s \o u)[Len(s \o t) + 1] = x
    BY <1>1, <1>2, <1>3, <1>4
  <1>6. ASSUME NEW i \in 1 .. Len(s \o t) PROVE (s \o u)[i] = (s \o t)[i]
    <2>1. CASE i <= Len(s)
      BY <2>1, <1>1, <1>2, <1>3, <1>4
    <2>2. CASE ~(i <= Len(s))
      <3>1. i - Len(s) \in 1 .. Len(t)
        BY <2>2, <1>1, <1>3
      <3>. QED  BY <2>2, <3>1, <1>1, <1>2, <1>3, <1>4
    <2>. QED  BY <2>1, <2>2
  <1>. QED  BY <1>1, <1>2, <1>3, <1>4, <1>5, <1>6 DEF u

\* What was sent is a sequence of reports.
LEMMA SentType == StatusTypeOK => Sent \in Seq(StatusMsgs) /\ Len(Sent) \in Nat
  BY ConcatProperties, LenProperties DEF StatusTypeOK, Sent

\* Only Send and the end of a call change what was sent.
LEMMA SentKept ==
    ASSUME StatusTypeOK, UNCHANGED <<chanEntsStatus, entsStatus>> \/ Collect
    PROVE  Sent' = Sent
  <1>1. CASE UNCHANGED <<chanEntsStatus, entsStatus>>
    BY <1>1 DEF Sent
  <1>2. CASE Collect
    BY <1>2, CollectConcat DEF Collect, Collectable, Sent, StatusTypeOK
  <1>. QED  BY <1>1, <1>2

\* A report is added to the others.
LEMMA SentSend ==
    ASSUME StatusTypeOK, NEW f \in Fqdns, Send(f)
    PROVE  /\ Len(Sent) \in Nat /\ Len(Sent') = Len(Sent) + 1
           /\ Sent'[Len(Sent) + 1] = [fqdn |-> f, members |-> result[f]]
           /\ \A i \in 1 .. Len(Sent) : Sent'[i] = Sent[i]
           /\ chanEntsStatus' \in Seq(StatusMsgs)
  <1>1. Msg(f) \in StatusMsgs
    BY DEF Msg, StatusMsgs, StatusTypeOK
  <1>. QED  BY <1>1, SendConcat DEF Send, Sent, StatusTypeOK, Msg

-----------------------------------------------------------------------------
(* Types *)

\* The steps of Consul, and of requests to it that fail, keep the types.
LEMMA ConsulStepTypes == StatusTypeOK /\ ConsulStep => StatusTypeOK'
  <1>. SUFFICES ASSUME StatusTypeOK, ConsulStep PROVE StatusTypeOK'
    OBVIOUS
  <1>. USE DEF StatusTypeOK
  <1>1. ASSUME NEW f \in Fqdns, RequestFails(f) PROVE StatusTypeOK'
    BY <1>1 DEF RequestFails, Fails, Disturb, consul, Statuses
  <1>2. ASSUME NEW f \in Fqdns, NEW c \in Contents \union {None}, Put(f, c) PROVE StatusTypeOK'
    BY <1>2 DEF Put, Disturb, call, tasks
  <1>3. ASSUME NEW f \in Fqdns, NEW h \in Checks, ChangeHealth(f, h) PROVE StatusTypeOK'
    BY <1>3, ChecksAssumption DEF ChangeHealth, Disturb, call, tasks
  <1>4. CASE ListEntriesFails
    BY <1>4 DEF ListEntriesFails, Disturb, consul, tasks
  <1>. QED  BY <1>1, <1>2, <1>3, <1>4 DEF ConsulStep

\* The health that a task reads is a status.
LEMMA HealthIsStatus ==
    ASSUME StatusTypeOK, NEW f \in Fqdns, worker[f] = "health"
    PROVE  [ip \in MembersOf[found[f]] |-> StatusOf(health[f][ip])] \in Statuses \ {None}
  <1>1. MembersOf[found[f]] \in SUBSET Ips
    BY MembersAssumption DEF StatusTypeOK
  <1>2. \A ip \in Ips : health[f][ip] \in {"passing", "critical", "none"}
    BY DEF StatusTypeOK
  <1>3. \A ip \in Ips : StatusOf(health[f][ip]) \in {"ONLINE", "CHECK_FAILED", "OFFLINE"}
    BY <1>2 DEF StatusOf
  <1>4. [ip \in MembersOf[found[f]] |-> StatusOf(health[f][ip])]
            \in [MembersOf[found[f]] -> {"ONLINE", "CHECK_FAILED", "OFFLINE"}]
    BY <1>1, <1>3
  <1>. QED  BY <1>1, <1>4, NoneAssumption DEF Statuses

\* The steps of the call keep the types.
LEMMA StatusStepTypes == StatusTypeOK /\ (StatusBegin \/ StatusStep \/ StatusEnd) => StatusTypeOK'
  <1>. SUFFICES ASSUME StatusTypeOK, StatusBegin \/ StatusStep \/ StatusEnd PROVE StatusTypeOK'
    OBVIOUS
  <1>. USE DEF StatusTypeOK
  <1>1. CASE StatusBegin
    BY <1>1 DEF StatusBegin, consul, tasks
  <1>2. CASE ListEntries
    BY <1>2 DEF ListEntries, consul
  <1>3. ASSUME NEW f \in Fqdns, GetEntry(f) PROVE StatusTypeOK'
    BY <1>3 DEF GetEntry, consul
  <1>4. ASSUME NEW f \in Fqdns, GetHealth(f) PROVE StatusTypeOK'
    BY <1>4, HealthIsStatus DEF GetHealth, consul
  <1>5. ASSUME NEW f \in Fqdns, EntryNotFound(f) PROVE StatusTypeOK'
    BY <1>5 DEF EntryNotFound, Fails, consul, Statuses
  <1>6. ASSUME NEW f \in Fqdns, Send(f) PROVE StatusTypeOK'
    BY <1>6, SentSend DEF Send, consul, Statuses
  <1>7. CASE Collect
    BY <1>7, CollectConcat DEF Collect, Collectable, consul
  <1>8. CASE CloseChan
    BY <1>8 DEF CloseChan, consul, tasks
  <1>9. CASE StatusReturn
    BY <1>9 DEF StatusReturn, consul, tasks
  <1>10. CASE StatusEnd
    BY <1>10, EmptySeq DEF StatusEnd, consul, tasks
  <1>. QED
    BY <1>1, <1>2, <1>3, <1>4, <1>5, <1>6, <1>7, <1>8, <1>9, <1>10 DEF StatusStep, Task

\* Every step keeps the types.
LEMMA StatusTypes == StatusTypeOK /\ [StatusNext]_statusVars => StatusTypeOK'
  <1>. SUFFICES ASSUME StatusTypeOK, UNCHANGED statusVars PROVE StatusTypeOK'
    BY ConsulStepTypes, StatusStepTypes DEF StatusNext
  <1>. QED  BY DEF statusVars, consul, call, tasks, StatusTypeOK

-----------------------------------------------------------------------------
(* What is reported *)

\* A step that keeps the reports and the tasks that owe one.
LEMMA ReportsKept ==
    ASSUME StatusTypeOK, StatusInv, Sent' = Sent, listing' = listing, errResult => errResult',
           \A f \in Fqdns : /\ worker[f] = "none" <=> worker'[f] = "none"
                            /\ worker'[f] = "send" /\ ~errResult' => result'[f] # None
    PROVE  /\ \A f \in Fqdns : ReportOK(f)'
           /\ (\A i \in 1 .. Len(Sent) :
                  Sent[i].fqdn \in listing /\ (~errResult => Sent[i].members # None))'
  BY DEF StatusInv, ReportOK, Reports

\* A task that sends exchanges what it owes for one report.
LEMMA SendReports ==
    ASSUME StatusTypeOK, StatusInv, NEW f \in Fqdns, Send(f)
    PROVE  StatusInv'
  <1>1. /\ Len(Sent) \in Nat /\ Len(Sent') = Len(Sent) + 1
        /\ Sent'[Len(Sent) + 1] = [fqdn |-> f, members |-> result[f]]
        /\ \A i \in 1 .. Len(Sent) : Sent'[i] = Sent[i]
    BY SentSend
  <1>2. /\ statusPc = "pool" /\ f \in listing /\ Reports(Sent, f) = {}
        /\ ~errResult => result[f] # None
    BY DEF Send, StatusInv, TasksOver, ReportOK
  <1>3. /\ statusPc' = statusPc /\ listing' = listing /\ errResult' = errResult
        /\ worker' = [worker EXCEPT ![f] = "none"] /\ result' = [result EXCEPT ![f] = None]
    BY DEF Send
  <1>4. Reports(Sent', f) = {Len(Sent) + 1}
    BY <1>1, <1>2 DEF Reports
  <1>5. \A g \in Fqdns \ {f} : Reports(Sent', g) = Reports(Sent, g)
    BY <1>1 DEF Reports
  <1>6. ASSUME NEW g \in Fqdns PROVE ReportOK(g)'
    <2>1. CASE g = f
      BY <2>1, <1>1, <1>2, <1>3, <1>4 DEF ReportOK, StatusTypeOK
    <2>2. CASE g # f
      BY <2>2, <1>1, <1>3, <1>5 DEF ReportOK, StatusTypeOK, StatusInv
    <2>. QED  BY <2>1, <2>2
  <1>7. \A i \in 1 .. Len(Sent') :
           Sent'[i].fqdn \in listing' /\ (~errResult' => Sent'[i].members # None)
    BY <1>1, <1>2, <1>3 DEF StatusInv
  <1>. QED  BY <1>2, <1>3, <1>6, <1>7 DEF StatusInv

\* StatusInv is inductive.
LEMMA StatusInductive == StatusTypeOK /\ StatusInv /\ [StatusNext]_statusVars => StatusInv'
  <1>. SUFFICES ASSUME StatusTypeOK, StatusInv, [StatusNext]_statusVars PROVE StatusInv'
    OBVIOUS
  <1>1. CASE StatusBegin \/ UNCHANGED statusVars
    <2>1. UNCHANGED <<listing, worker, result, chanEntsStatus, entsStatus, errResult>>
          /\ (statusPc' = statusPc \/ (statusPc = "idle" /\ statusPc' = "list"))
      BY <1>1 DEF StatusBegin, statusVars, tasks, call
    <2>. QED  BY <2>1, SentKept, ReportsKept DEF StatusInv, TasksOver, ReportOK
  <1>2. CASE ListEntries
    <2>1. Sent = <<>> /\ Sent' = <<>> /\ Len(<<>>) = 0
      BY <1>2, SentKept, EmptySeq, ConcatEmptySeq DEF ListEntries, StatusInv, Sent
    <2>2. \A f \in Fqdns : Reports(Sent', f) = {}
      BY <2>1 DEF Reports
    <2>. QED
      BY <1>2, <2>1, <2>2 DEF ListEntries, StatusInv, TasksOver, ReportOK
  <1>3. ASSUME NEW f \in Fqdns, GetEntry(f) \/ GetHealth(f) \/ EntryNotFound(f) \/ RequestFails(f)
        PROVE  StatusInv'
    <2>1. statusPc = "pool"
      BY <1>3 DEF StatusInv, TasksOver, GetEntry, GetHealth, EntryNotFound, RequestFails
    <2>2. /\ UNCHANGED <<statusPc, listing, chanEntsStatus, entsStatus>>
          /\ errResult => errResult'
          /\ \A g \in Fqdns : worker[g] = "none" <=> worker'[g] = "none"
      BY <1>3 DEF GetEntry, GetHealth, EntryNotFound, RequestFails, Fails, StatusTypeOK
    <2>3. ASSUME NEW g \in Fqdns, worker'[g] = "send", ~errResult'
          PROVE  result'[g] # None
      <3>1. GetEntry(f) \/ GetHealth(f)
        BY <1>3, <2>3 DEF EntryNotFound, RequestFails, Fails
      <3>2. GetHealth(f) => [ip \in MembersOf[found[f]] |-> StatusOf(health[f][ip])] # None
        BY HealthIsStatus DEF GetHealth
      <3>. QED
        BY <2>3, <3>1, <3>2 DEF GetEntry, GetHealth, StatusTypeOK, StatusInv, ReportOK
    <2>. QED  BY <2>1, <2>2, <2>3, SentKept, ReportsKept DEF StatusInv
  <1>4. ASSUME NEW f \in Fqdns, Send(f) PROVE StatusInv'
    BY <1>4, SendReports
  <1>5. CASE Collect
    <2>1. /\ UNCHANGED <<statusPc, listing, worker, result, errResult>>
          /\ statusPc \in {"pool", "closed"}
      BY <1>5 DEF Collect, Collectable, StatusInv, StatusTypeOK
    <2>. QED  BY <1>5, <2>1, SentKept, ReportsKept DEF StatusInv, TasksOver, ReportOK
  <1>6. CASE CloseChan \/ StatusReturn
    <2>1. /\ UNCHANGED <<listing, worker, result, chanEntsStatus, entsStatus, errResult>>
          /\ TasksOver
          /\ \/ statusPc' = "closed"
             \/ statusPc' = "answered" /\ chanEntsStatus = <<>>
      BY <1>6 DEF CloseChan, StatusReturn, Collected, tasks, StatusInv
    <2>. QED  BY <2>1, SentKept, ReportsKept DEF StatusInv, TasksOver, ReportOK
  <1>7. CASE ListEntriesFails
    <2>1. /\ UNCHANGED <<listing, worker, result, chanEntsStatus, entsStatus>> /\ errResult'
          /\ statusPc = "list" /\ statusPc' = "answered"
      BY <1>7 DEF ListEntriesFails, tasks
    <2>. QED  BY <2>1, SentKept, ReportsKept DEF StatusInv, TasksOver, ReportOK
  <1>8. CASE StatusEnd
    <2>1. /\ chanEntsStatus' = <<>> /\ entsStatus' = <<>> /\ listing' = {} /\ ~errResult'
          /\ worker' = worker /\ statusPc' = "idle" /\ \A f \in Fqdns : worker[f] = "none"
      BY <1>8 DEF StatusEnd, StatusInv, tasks, TasksOver
    <2>2. Sent' = <<>> /\ Len(<<>>) = 0
      BY <2>1, EmptySeq, ConcatEmptySeq DEF Sent
    <2>. QED  BY <2>1, <2>2 DEF StatusInv, TasksOver, ReportOK, Reports
  <1>9. ASSUME NEW f \in Fqdns,
               \/ \E c \in Contents \union {None} : Put(f, c)
               \/ \E h \in Checks : ChangeHealth(f, h)
        PROVE  StatusInv'
    <2>1. UNCHANGED <<statusPc, listing, worker, result, chanEntsStatus, entsStatus, errResult>>
      BY <1>9 DEF Put, ChangeHealth, call, tasks
    <2>. QED  BY <2>1, SentKept, ReportsKept DEF StatusInv, TasksOver, ReportOK
  <1>. QED
    BY <1>1, <1>2, <1>3, <1>4, <1>5, <1>6, <1>7, <1>8, <1>9
       DEF StatusNext, StatusStep, Task, ConsulStep

\* What was sent is what was collected once the channel is empty.
LEMMA AllCollected == StatusTypeOK /\ StatusInv /\ statusPc = "answered" => Sent = entsStatus
  BY ConcatEmptySeq DEF StatusTypeOK, StatusInv, Sent

LEMMA StatusInvImplies == StatusTypeOK /\ StatusInv => AllReported
  BY AllCollected DEF StatusInv, TasksOver, ReportOK, AllReported, StatusTypeOK

-----------------------------------------------------------------------------
(* What a scrape exports *)

\* A call that nothing disturbed is not disturbed by its own steps either.
LEMMA ScrapeInductive ==
    StatusTypeOK /\ StatusInv /\ ScrapeInv /\ [StatusNext]_statusVars => ScrapeInv'
  <1>. SUFFICES ASSUME StatusTypeOK, StatusInv, ScrapeInv, [StatusNext]_statusVars,
                       statusPc' \in {"pool", "closed", "answered"}, ~disturbed'
                PROVE  /\ ~errResult' /\ listing' = {f \in Fqdns : stored'[f] # None}
                       /\ \A f \in Fqdns : /\ worker'[f] = "health" => found'[f] = stored'[f]
                                           /\ worker'[f] = "send" => Fresh(Msg(f))'
                       /\ \A i \in 1 .. Len(Sent') : Fresh(Sent[i])'
    BY DEF ScrapeInv
  <1>1. ASSUME stored' = stored, health' = health
        PROVE  \A m, n : m = n => (Fresh(n)' <=> Fresh(m))
    BY <1>1 DEF Fresh
  <1>2. CASE ListEntries
    <2>1. Sent' = <<>> /\ Len(<<>>) = 0
      BY <1>2, EmptySeq, ConcatEmptySeq DEF ListEntries, StatusInv, Sent
    <2>. QED  BY <1>2, <2>1 DEF ListEntries, StatusInv, consul
  <1>. SUFFICES ASSUME ~ListEntries
                PROVE  /\ ~errResult' /\ listing' = {f \in Fqdns : stored'[f] # None}
                       /\ \A f \in Fqdns : /\ worker'[f] = "health" => found'[f] = stored'[f]
                                           /\ worker'[f] = "send" => Fresh(Msg(f))'
                       /\ \A i \in 1 .. Len(Sent') : Fresh(Sent[i])'
    BY <1>2
  <1>3. /\ UNCHANGED <<stored, health>>
        /\ ~disturbed /\ statusPc \in {"pool", "closed", "answered"}
        /\ listing' = listing
    BY DEF StatusNext, StatusStep, Task, ConsulStep, Disturb, StatusBegin, GetEntry, GetHealth,
           EntryNotFound, RequestFails, Send, Collect, CloseChan, StatusReturn, StatusEnd, Put,
           ChangeHealth, ListEntriesFails, Fails, consul, call, tasks, statusVars, StatusInv
  <1>4. /\ ~errResult /\ listing = {f \in Fqdns : stored[f] # None}
        /\ \A f \in Fqdns : /\ worker[f] = "health" => found[f] = stored[f]
                            /\ worker[f] = "send" => Fresh(Msg(f))
        /\ \A i \in 1 .. Len(Sent) : Fresh(Sent[i])
    BY <1>3 DEF ScrapeInv
  <1>5. \A f \in Fqdns : worker[f] # "none" => stored[f] # None
    BY <1>4 DEF StatusInv, ReportOK
  <1>6. ASSUME NEW f \in Fqdns, GetEntry(f)
        PROVE  /\ errResult' = errResult /\ Sent' = Sent
               /\ \A g \in Fqdns : /\ worker'[g] = "health" => found'[g] = stored'[g]
                                   /\ worker'[g] = "send" => worker[g] = "send" /\ result'[g] = result[g]
    BY <1>3, <1>4, <1>6, SentKept DEF GetEntry, StatusTypeOK
  <1>7. ASSUME NEW f \in Fqdns, GetHealth(f)
        PROVE  /\ errResult' = errResult /\ Sent' = Sent
               /\ \A g \in Fqdns : /\ worker'[g] = "health" => found'[g] = stored'[g]
                                   /\ worker'[g] = "send" => Fresh(Msg(g))'
    <2>1. /\ errResult' = errResult /\ Sent' = Sent /\ found' = found
          /\ worker' = [worker EXCEPT ![f] = "send"] /\ worker[f] = "health"
      BY <1>7, SentKept DEF GetHealth
    <2>2. result' = [result EXCEPT ![f] = [ip \in MembersOf[stored[f]] |-> StatusOf(health[f][ip])]]
      BY <1>4, <1>7, <2>1 DEF GetHealth
    <2>3. Fresh(Msg(f))'
      BY <1>3, <2>2 DEF Fresh, Msg, StatusTypeOK
    <2>4. ASSUME NEW g \in Fqdns \ {f}, worker'[g] = "send"
          PROVE  Fresh(Msg(g))'
      <3>1. worker[g] = "send" /\ Msg(g)' = Msg(g)
        BY <2>1, <2>2, <2>4 DEF Msg, StatusTypeOK
      <3>. QED  BY <1>1, <1>3, <1>4, <3>1
    <2>. QED  BY <1>3, <1>4, <2>1, <2>3, <2>4 DEF StatusTypeOK
  <1>8. ASSUME NEW f \in Fqdns PROVE ~EntryNotFound(f) /\ ~RequestFails(f)
    BY <1>5 DEF EntryNotFound, RequestFails, Disturb
  <1>9. ASSUME NEW f \in Fqdns, Send(f)
        PROVE  /\ errResult' = errResult
               /\ \A g \in Fqdns : /\ worker'[g] = "health" => found'[g] = stored'[g]
                                   /\ worker'[g] = "send" => worker[g] = "send" /\ result'[g] = result[g]
               /\ \A i \in 1 .. Len(Sent') : Fresh(Sent[i])'
    <2>1. \A i \in 1 .. Len(Sent') : (Sent'[i] = Sent[i] /\ i \in 1 .. Len(Sent)) \/ Sent'[i] = Msg(f)
      BY <1>9, SentSend DEF Msg
    <2>2. Fresh(Msg(f))
      BY <1>4, <1>9 DEF Send
    <2>3. ASSUME NEW i \in 1 .. Len(Sent') PROVE Fresh(Sent[i])'
      <3>1. \E m : Fresh(m) /\ Sent'[i] = m
        BY <1>4, <2>1, <2>2
      <3>. QED  BY <1>1, <1>3, <3>1
    <2>. QED  BY <1>3, <1>4, <1>9, <2>3 DEF Send, StatusTypeOK
  <1>10. CASE Collect \/ CloseChan \/ StatusReturn \/ UNCHANGED statusVars
    BY <1>1, <1>3, <1>4, <1>10, SentKept
       DEF Collect, CloseChan, StatusReturn, statusVars, call, tasks, Msg
  <1>11. ~StatusBegin /\ ~StatusEnd /\ ~ListEntriesFails
         /\ \A f \in Fqdns : /\ \A c \in Contents \union {None} : ~Put(f, c)
                             /\ \A h \in Checks : ~ChangeHealth(f, h)
    BY DEF StatusBegin, StatusEnd, ListEntriesFails, Put, ChangeHealth, Disturb
  <1>12. CASE \E f \in Fqdns : GetEntry(f)
    BY <1>1, <1>3, <1>4, <1>6, <1>12 DEF Msg
  <1>13. CASE \E f \in Fqdns : GetHealth(f)
    BY <1>1, <1>3, <1>4, <1>7, <1>13
  <1>14. CASE \E f \in Fqdns : Send(f)
    BY <1>1, <1>3, <1>4, <1>9, <1>14 DEF Msg
  <1>. QED
    BY <1>8, <1>10, <1>11, <1>12, <1>13, <1>14 DEF StatusNext, StatusStep, Task, ConsulStep

\* What a call collected that nothing disturbed exports every member with the number of its check.
LEMMA ScrapeInvImplies == StatusTypeOK /\ StatusInv /\ ScrapeInv => ScrapeExact
  <1>. SUFFICES ASSUME StatusTypeOK, StatusInv, ScrapeInv, statusPc = "answered", ~disturbed
                PROVE  Metrics = UNION { {<<f, ip, NumberOf(health[f][ip])>> : ip \in MembersOf[stored[f]]}
                                           : f \in {g \in Fqdns : stored[g] # None} }
    BY DEF ScrapeExact
  <1> DEFINE Q == {entsStatus[i] : i \in 1 .. Len(entsStatus)}
             Of(m) == {<<m.fqdn, ip, StatusValue(m.members[ip])>> : ip \in DOMAIN m.members}
             Is(f) == {<<f, ip, NumberOf(health[f][ip])>> : ip \in MembersOf[stored[f]]}
             F == {g \in Fqdns : stored[g] # None}
  <1>1. ~errResult /\ listing = F /\ \A m \in Q : Fresh(m)
    BY AllCollected DEF ScrapeInv
  <1>2. \A m \in Q : m.fqdn \in F
    BY <1>1, AllCollected DEF StatusInv
  <1>3. \A f \in F : \E m \in Q : m.fqdn = f
    BY <1>1, StatusInvImplies DEF AllReported, Reports
  <1>4. ASSUME NEW m \in Q PROVE Of(m) = Is(m.fqdn)
    <2>1. m.members = [ip \in MembersOf[stored[m.fqdn]] |-> StatusOf(health[m.fqdn][ip])]
      BY <1>1 DEF Fresh
    <2>2. MembersOf[stored[m.fqdn]] \in SUBSET Ips
      BY <1>2, MembersAssumption DEF StatusTypeOK
    <2>3. \A ip \in Ips : StatusValue(StatusOf(health[m.fqdn][ip])) = NumberOf(health[m.fqdn][ip])
      <3>1. \A ip \in Ips : health[m.fqdn][ip] \in {"passing", "critical", "none"}
        BY <1>2 DEF StatusTypeOK
      <3>. QED  BY <3>1 DEF StatusValue, StatusOf, NumberOf
    <2>. QED  BY <2>1, <2>2, <2>3
  <1>5. Metrics = UNION {Of(m) : m \in Q}
    BY <1>1 DEF Metrics
  <1>. HIDE DEF Q, Of, Is, F
  <1>6. UNION {Of(m) : m \in Q} = UNION {Is(f) : f \in F}
    BY <1>2, <1>3, <1>4
  <1>. QED  BY <1>5, <1>6 DEF Is, F

-----------------------------------------------------------------------------
\* A call under way has a step open: when the pool is full one of its tasks asks
\* Consul or sends, and when the channel is full the collector receives.
LEMMA ListNeverStuck == StatusTypeOK /\ statusPc # "idle" => ListCanStep
  <1>. SUFFICES ASSUME StatusTypeOK, statusPc # "idle" PROVE ListCanStep
    OBVIOUS
  <1>1. CASE statusPc # "pool"
    BY <1>1 DEF StatusTypeOK, ListCanStep, Collected, Collectable
  <1>2. CASE statusPc = "pool"
    <2>1. CASE TasksOver \/ chanEntsStatus # <<>>
      BY <1>2, <2>1 DEF ListCanStep, Collectable
    <2>2. CASE ~ TasksOver /\ chanEntsStatus = <<>>
      <3>1. RoomLeft
        BY <2>2, PoolAssumption, EmptySeq DEF RoomLeft
      <3>2. CASE Busy # {}
        BY <3>1, <3>2 DEF Busy, ListCanStep, TaskCanStep
      <3>3. CASE Busy = {}
        <4>1. SlotFree
          BY <3>3, PoolAssumption, FS_EmptySet DEF SlotFree
        <4>2. PICK f \in Fqdns : worker[f] # "none"
          BY <2>2 DEF TasksOver
        <4>3. worker[f] = "todo"
          BY <3>3, <4>2 DEF Busy, StatusTypeOK
        <4>. QED  BY <4>1, <4>3 DEF ListCanStep, TaskCanStep
      <3>. QED  BY <3>2, <3>3
    <2>. QED  BY <2>1, <2>2
  <1>. QED  BY <1>1, <1>2

\* Only Begin and End take a call out of and back to idle.
LEMMA CallKept == StatusStep \/ ConsulStep => (statusPc' = "idle" <=> statusPc = "idle")
  <1>1. ASSUME NEW f \in Fqdns, Task(f) \/ RequestFails(f) PROVE statusPc' = statusPc
    BY <1>1 DEF Task, GetEntry, GetHealth, EntryNotFound, RequestFails, Fails, Send
  <1>2. ASSUME NEW f \in Fqdns,
               \/ \E c \in Contents \union {None} : Put(f, c)
               \/ \E h \in Checks : ChangeHealth(f, h)
        PROVE  statusPc' = statusPc
    BY <1>2 DEF Put, ChangeHealth, call
  <1>. QED
    BY <1>1, <1>2
       DEF StatusStep, ConsulStep, ListEntries, Collect, CloseChan, StatusReturn, ListEntriesFails
=============================================================================
