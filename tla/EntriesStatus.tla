--------------------------- MODULE EntriesStatus ---------------------------
(***************************************************************************)
(* GslocConsul.ListEntriesStatus: lists the entries of the KV store, has a  *)
(* pool of workers ask Consul for the entry and the health of each, and     *)
(* collects their answers over a channel; and what StatusCollector makes    *)
(* of the result.  Consul changes while the call runs, and requests fail.   *)
(*                                                                         *)
(* Calls share nothing but Consul: one call at a time is modelled.  Which   *)
(* entry the pool starts first is free.                                     *)
(***************************************************************************)
EXTENDS Naturals, Sequences, FiniteSets

CONSTANTS
    Fqdns,          \* names of entries
    Ips,            \* addresses of members
    Contents,       \* contents of a key
    MembersOf,      \* MembersOf[c]: the addresses of c's members, of both families
    Checks,         \* health of the addresses: functions from Ips to a check
    None,           \* no value
    Stores, Healths, \* the store and the health of all names at the start
    StatusWorkers,  \* goroutines of the pool (10 in the code)
    StatusCapacity  \* of the channel (100 in the code)

\* What GetEntryStatus can say of an entry; and nil.
Statuses == {None} \union UNION {[A -> {"ONLINE", "CHECK_FAILED", "OFFLINE"}] : A \in SUBSET Ips}

ASSUME NoneAssumption ==
    None \notin Contents /\ \A A \in SUBSET Ips : None \notin [A -> {"ONLINE", "CHECK_FAILED", "OFFLINE"}]
ASSUME MembersAssumption == MembersOf \in [Contents -> SUBSET Ips]
ASSUME ChecksAssumption == Checks \subseteq [Ips -> {"passing", "critical", "none"}]
ASSUME StoresAssumption ==
    Stores \subseteq [Fqdns -> Contents \union {None}] /\ Healths \subseteq [Fqdns -> Checks]
ASSUME PoolAssumption == StatusWorkers \in Nat \ {0} /\ StatusCapacity \in Nat \ {0}

VARIABLES
    stored,        \* Consul: the content of each key
    health,        \* Consul: the HTTP check of each address of each service
    disturbances,  \* bound: changes and failing requests still to come
    statusPc,      \* where the call is
    listing,       \* the names that ListEntries returned
    worker,        \* the stage of each name's task
    found,         \* the entry that each task has read
    result,        \* the status that each task is to send: None is the code's nil
    chanEntsStatus, \* what was sent and not collected
    entsStatus,    \* what was collected
    errResult,     \* did a task report an error
    disturbed      \* history: did Consul change, or fail, since the call began

consul == <<stored, health>>
tasks  == <<worker, found, result, chanEntsStatus>>
call   == <<statusPc, listing, tasks, entsStatus, errResult>>
statusVars == <<consul, disturbances, call, disturbed>>

Busy == {f \in Fqdns : worker[f] \in {"health", "send"}}

StatusInit ==
    /\ stored \in Stores
    /\ health \in Healths
    /\ statusPc = "idle" /\ listing = {} /\ errResult = FALSE
    /\ worker = [f \in Fqdns |-> "none"] /\ found = [f \in Fqdns |-> None]
    /\ result = [f \in Fqdns |-> None]
    /\ chanEntsStatus = <<>> /\ entsStatus = <<>> /\ disturbed = FALSE

-----------------------------------------------------------------------------
(* Consul *)

Disturb ==
    /\ disturbances > 0
    /\ disturbances' = disturbances - 1
    /\ disturbed' = TRUE

\* Changes between two calls are other values of Stores and Healths.
Put(f, c) ==
    /\ statusPc # "idle"
    /\ Disturb
    /\ c # stored[f]
    /\ stored' = [stored EXCEPT ![f] = c]
    /\ UNCHANGED <<health, call>>

ChangeHealth(f, h) ==
    /\ statusPc # "idle"
    /\ Disturb
    /\ h # health[f]
    /\ health' = [health EXCEPT ![f] = h]
    /\ UNCHANGED <<stored, call>>

-----------------------------------------------------------------------------
(* The call *)

StatusBegin ==
    /\ statusPc = "idle"
    /\ statusPc' = "list"
    /\ disturbed' = FALSE
    /\ UNCHANGED <<consul, disturbances, listing, tasks, entsStatus, errResult>>

ListEntries ==
    /\ statusPc = "list"
    /\ statusPc' = "pool"
    /\ listing' = {f \in Fqdns : stored[f] # None}
    /\ worker' = [f \in Fqdns |-> IF stored[f] # None THEN "todo" ELSE "none"]
    /\ UNCHANGED <<consul, disturbances, disturbed, found, result, chanEntsStatus, entsStatus, errResult>>

ListEntriesFails ==
    /\ statusPc = "list"
    /\ Disturb
    /\ statusPc' = "answered"
    /\ errResult' = TRUE
    /\ UNCHANGED <<consul, listing, tasks, entsStatus>>

\* The pool starts no more tasks than it has goroutines.
SlotFree == Cardinality(Busy) < StatusWorkers

\* GetEntryStatus asks for the entry, ...
GetEntry(f) ==
    /\ worker[f] = "todo"
    /\ SlotFree
    /\ stored[f] # None
    /\ found' = [found EXCEPT ![f] = stored[f]]
    /\ worker' = [worker EXCEPT ![f] = "health"]
    /\ UNCHANGED <<consul, disturbances, disturbed, statusPc, listing, result, chanEntsStatus,
                   entsStatus, errResult>>

\* Every member starts offline and stays so unless its service has an HTTP check.
StatusOf(check) ==
    CASE check = "passing" -> "ONLINE"
      [] check = "critical" -> "CHECK_FAILED"
      [] check = "none" -> "OFFLINE"

\* ... and then for the health of its service.
GetHealth(f) ==
    /\ worker[f] = "health"
    /\ result' = [result EXCEPT ![f] =
                     [ip \in MembersOf[found[f]] |-> StatusOf(health[f][ip])]]
    /\ worker' = [worker EXCEPT ![f] = "send"]
    /\ UNCHANGED <<consul, disturbances, disturbed, statusPc, listing, found, chanEntsStatus,
                   entsStatus, errResult>>

\* Mutant: the error is dropped, its nil status is sent all the same.
FailsSilently(f) ==
    /\ worker' = [worker EXCEPT ![f] = "send"]
    /\ result' = [result EXCEPT ![f] = None]
    /\ UNCHANGED <<consul, statusPc, listing, found, chanEntsStatus, entsStatus, errResult>>

\* An error is added to the others under lockErr; a nil status is to be sent.
Fails(f) ==
    /\ worker' = [worker EXCEPT ![f] = "send"]
    /\ result' = [result EXCEPT ![f] = None]
    /\ errResult' = TRUE
    /\ UNCHANGED <<consul, statusPc, listing, found, chanEntsStatus, entsStatus>>

\* The entry is there no more, or one of the requests fails.
EntryNotFound(f) ==
    /\ worker[f] = "todo"
    /\ SlotFree
    /\ stored[f] = None
    /\ Fails(f)
    /\ UNCHANGED <<disturbances, disturbed>>

RequestFails(f) ==
    /\ \/ worker[f] = "todo" /\ SlotFree
       \/ worker[f] = "health"
    /\ Disturb
    /\ Fails(f)

\* What is sent; fqdn only tells for which entry a nil was sent.
Msg(f) == [fqdn |-> f, members |-> result[f]]

RoomLeft == Len(chanEntsStatus) < StatusCapacity
Send(f) ==
    /\ worker[f] = "send"
    /\ RoomLeft
    /\ chanEntsStatus' = Append(chanEntsStatus, Msg(f))
    /\ worker' = [worker EXCEPT ![f] = "none"]
    /\ found' = [found EXCEPT ![f] = None]
    /\ result' = [result EXCEPT ![f] = None]
    /\ UNCHANGED <<consul, disturbances, disturbed, statusPc, listing, entsStatus, errResult>>

\* Mutant: the caller collects when the pool is done, not a goroutine of its own.
CollectableAtEnd == chanEntsStatus # <<>> /\ statusPc = "closed"
Collectable == chanEntsStatus # <<>>

\* The collector appends what it receives.
Collect ==
    /\ Collectable
    /\ entsStatus' = Append(entsStatus, Head(chanEntsStatus))
    /\ chanEntsStatus' = Tail(chanEntsStatus)
    /\ UNCHANGED <<consul, disturbances, disturbed, statusPc, listing, worker, found, result, errResult>>

TasksOver == \A f \in Fqdns : worker[f] = "none"

\* p.Wait returns when every task has; the channel is closed.
CloseChan ==
    /\ statusPc = "pool"
    /\ TasksOver
    /\ statusPc' = "closed"
    /\ UNCHANGED <<consul, disturbances, disturbed, listing, tasks, entsStatus, errResult>>

\* Mutant: the call returns without waiting for done.
NotWaited == TRUE
Collected == chanEntsStatus = <<>>

\* The collector's loop ends on a closed, empty channel, and the call returns.
StatusReturn ==
    /\ statusPc = "closed"
    /\ Collected
    /\ statusPc' = "answered"
    /\ UNCHANGED <<consul, disturbances, disturbed, listing, tasks, entsStatus, errResult>>

\* The caller is done with the answer.
StatusEnd ==
    /\ statusPc = "answered"
    /\ statusPc' = "idle"
    /\ listing' = {} /\ entsStatus' = <<>> /\ errResult' = FALSE
    /\ UNCHANGED <<consul, disturbances, disturbed, tasks>>

Task(f) == GetEntry(f) \/ GetHealth(f) \/ EntryNotFound(f) \/ Send(f)
StatusStep ==
    ListEntries \/ Collect \/ CloseChan \/ StatusReturn \/ \E f \in Fqdns : Task(f)
ConsulStep ==
    \/ \E f \in Fqdns : RequestFails(f)
    \/ \E f \in Fqdns, c \in Contents \union {None} : Put(f, c)
    \/ \E f \in Fqdns, h \in Checks : ChangeHealth(f, h)
    \/ ListEntriesFails
StatusNext == StatusBegin \/ StatusStep \/ ConsulStep \/ StatusEnd

-----------------------------------------------------------------------------
(* StatusCollector.Collect and memberStatusToProm *)

StatusValue(status) ==
    CASE status = "ONLINE" -> 0 [] status = "CHECK_FAILED" -> 1 [] status = "OFFLINE" -> 2

\* What is exported: nothing when the call failed.
Metrics ==
    IF errResult THEN {}
    ELSE UNION { {<<m.fqdn, ip, StatusValue(m.members[ip])>> : ip \in DOMAIN m.members}
                   : m \in {entsStatus[i] : i \in 1 .. Len(entsStatus)} }

-----------------------------------------------------------------------------
(* Properties *)

StatusMsgs == [fqdn : Fqdns, members : Statuses]

StatusTypeOK ==
    /\ stored \in [Fqdns -> Contents \union {None}]
    /\ health \in [Fqdns -> [Ips -> {"passing", "critical", "none"}]]
    /\ disturbances \in Nat /\ disturbed \in BOOLEAN /\ errResult \in BOOLEAN
    /\ statusPc \in {"idle", "list", "pool", "closed", "answered"}
    /\ listing \subseteq Fqdns
    /\ worker \in [Fqdns -> {"none", "todo", "health", "send"}]
    /\ found \in [Fqdns -> Contents \union {None}]
    /\ result \in [Fqdns -> Statuses]
    /\ chanEntsStatus \in Seq(StatusMsgs) /\ entsStatus \in Seq(StatusMsgs)
    /\ \A f \in Fqdns : worker[f] = "health" => found[f] \in Contents

Reports(q, f) == {i \in 1 .. Len(q) : q[i].fqdn = f}

\* A call that answers without an error gives the status of every entry it
\* listed, once, and no nil: whatever was deleted or failed meanwhile, however
\* many workers and however full the channel.
AllReported ==
    statusPc = "answered" /\ ~errResult =>
        /\ \A i \in 1 .. Len(entsStatus) :
              entsStatus[i].fqdn \in listing /\ entsStatus[i].members # None
        /\ \A f \in listing : \E i \in 1 .. Len(entsStatus) : Reports(entsStatus, f) = {i}

\* Some step of the call is open: its tasks, its collector or itself.
TaskCanStep(f) ==
    \/ worker[f] = "todo" /\ SlotFree
    \/ worker[f] = "health"
    \/ worker[f] = "send" /\ RoomLeft
ListCanStep ==
    \/ statusPc \in {"list", "answered"}
    \/ statusPc = "pool" /\ TasksOver
    \/ statusPc = "closed" /\ Collected
    \/ Collectable
    \/ \E f \in Fqdns : TaskCanStep(f)

\* The inductive invariant behind AllReported: of each listed entry there is
\* either a task or one report, on its way or collected.
Sent == entsStatus \o chanEntsStatus
ReportOK(f) ==
    /\ worker[f] # "none" => f \in listing /\ Reports(Sent, f) = {}
    /\ worker[f] = "none" /\ f \in listing => \E i \in 1 .. Len(Sent) : Reports(Sent, f) = {i}
    /\ worker[f] = "send" /\ ~errResult => result[f] # None
StatusInv ==
    /\ statusPc # "pool" => TasksOver
    /\ statusPc \in {"idle", "list"} => entsStatus = <<>> /\ listing = {} /\ ~errResult
    /\ statusPc \notin {"pool", "closed"} => chanEntsStatus = <<>>
    /\ \A f \in Fqdns : ReportOK(f)
    /\ \A i \in 1 .. Len(Sent) :
          Sent[i].fqdn \in listing /\ (~errResult => Sent[i].members # None)

\* A scrape during which nothing changed or failed exports every member of every
\* entry, and no other, with one number, that of its own check: 0 if it passes, 1 if
\* it fails, 2 if it has none.  (The help text calls 2 "disabled by user"; but the
\* check of a member that is registered and disabled fails, which makes it 1.)
NumberOf(check) == CASE check = "passing" -> 0 [] check = "critical" -> 1 [] check = "none" -> 2
ScrapeExact ==
    statusPc = "answered" /\ ~disturbed =>
        Metrics = UNION { {<<f, ip, NumberOf(health[f][ip])>> : ip \in MembersOf[stored[f]]}
                            : f \in {g \in Fqdns : stored[g] # None} }

\* The inductive invariant behind ScrapeExact: what was read is still so.
Fresh(m) == m.members = [ip \in MembersOf[stored[m.fqdn]] |-> StatusOf(health[m.fqdn][ip])]
ScrapeInv ==
    statusPc \in {"pool", "closed", "answered"} /\ ~disturbed =>
        /\ ~errResult /\ listing = {f \in Fqdns : stored[f] # None}
        /\ \A f \in Fqdns : /\ worker[f] = "health" => found[f] = stored[f]
                            /\ worker[f] = "send" => Fresh(Msg(f))
        /\ \A i \in 1 .. Len(Sent) : Fresh(Sent[i])
=============================================================================
