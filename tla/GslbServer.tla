----------------------------- MODULE GslbServer -----------------------------
(***************************************************************************)
(* gslb.Server: the API by which users change the entries in Consul's KV    *)
(* store.  Every handler that changes part of an entry reads the entry,     *)
(* modifies it and writes all of it back, in two requests to Consul and     *)
(* without comparing what it overwrites with what it read; SetMembersStatus *)
(* does so for many entries, by transactions of a bounded size.             *)
(*                                                                         *)
(* Clients whose call takes several requests have an element in calls; a    *)
(* call that is one write (SetEntry, DeleteEntry) is one step.  Addresses   *)
(* of both families are told apart by name only, and an entry has at most   *)
(* one member with a given address.                                         *)
(***************************************************************************)
EXTENDS Naturals, Sequences, FiniteSets

CONSTANTS
    Fqdns,            \* names of entries
    Ips,              \* addresses of members
    Dcs,              \* datacenters a request may name
    KnownDcs,         \* those that some Consul node has in its metadata
    Hcs,              \* health checks a request may carry
    KnownHcs,         \* those that use no plugin, or one of this server's
    Clients,
    None,             \* no value
    MaxTransactions,  \* operations in one transaction (64 in the code)
    MaxCalls          \* bound: calls accepted

ASSUME KnownAssumption == KnownDcs \subseteq Dcs /\ KnownHcs \subseteq Hcs
ASSUME NoneAssumption ==
    /\ None \notin Dcs /\ None \notin Ips /\ None \notin Clients
    /\ None \notin [dc : Dcs, disabled : BOOLEAN]
ASSUME FqdnsAssumption == IsFiniteSet(Fqdns)
ASSUME MaxAssumption == MaxTransactions \in Nat \ {0} /\ MaxCalls \in Nat

Members == [dc : Dcs, disabled : BOOLEAN]
Entries == [members : [Ips -> Members \union {None}], hc : Hcs]
ASSUME EntriesAssumption == None \notin Entries

VARIABLES
    kv,      \* the KV store: each key's entry, or None
    calls,   \* what each client's call is at, or None
    nbCalls

vars == <<kv, calls, nbCalls>>

Exists(f) == kv[f] # None

Init ==
    /\ kv = [f \in Fqdns |-> None]
    /\ calls = [c \in Clients |-> None]
    /\ nbCalls = 0

Accepted == nbCalls < MaxCalls /\ nbCalls' = nbCalls + 1

\* The calls, once the keys F are written by c: for all the others whatever
\* they read of F is stale.
Overtaken(F, c) ==
    [d \in Clients |-> IF d = c \/ calls[d] = None THEN calls[d]
                       ELSE [calls[d] EXCEPT !.stale = @ \union F]]

-----------------------------------------------------------------------------
(* Validation *)

InDCS(m) == m # None => m.dc \in KnownDcs                  \* listDcs, lo.Contains
CheckMembersInDCS(e) == \A ip \in Ips : InDCS(e.members[ip])
\* Mutant: health checks are not validated.
ValidateNothing(hc) == TRUE
ValidatePluginHealthCheck(hc) == hc \in KnownHcs

-----------------------------------------------------------------------------
(* Calls that write without reading *)

SetEntry(f, e) ==
    /\ Accepted
    /\ CheckMembersInDCS(e)
    /\ ValidatePluginHealthCheck(e.hc)
    /\ kv' = [kv EXCEPT ![f] = e]
    /\ calls' = Overtaken({f}, None)

DeleteEntry(f) ==
    /\ Accepted
    /\ kv' = [kv EXCEPT ![f] = None]
    /\ calls' = Overtaken({f}, None)

-----------------------------------------------------------------------------
(* Calls that read an entry, modify it and write it back *)

\* A call that has read is to write, for the names in order, what new says.
\* about says what was asked, stale, refused are histories for the properties.
Call(stage, order, new, about) ==
    [stage |-> stage, order |-> order, new |-> new, next |-> 0, failed |-> FALSE,
     about |-> about, stale |-> {}, refused |-> {}]

\* RetrieveSignedEntry finds f, and setSignedEntry is to be called with e.
WillPut(c, f, e, about) ==
    /\ Accepted
    /\ calls[c] = None
    /\ calls' = [calls EXCEPT ![c] =
          Call("put", <<f>>, [g \in Fqdns |-> IF g = f THEN e ELSE None], about)]
    /\ UNCHANGED kv

About(ips, hc) == [ips |-> ips, hc |-> hc]

SetMember(c, f, ip, m) ==
    /\ InDCS(m)
    /\ Exists(f)
    /\ kv[f].members[ip] = None
    /\ WillPut(c, f, [kv[f] EXCEPT !.members = [@ EXCEPT ![ip] = m]], About({ip}, FALSE))

\* Mutant: the filter keeps the member to delete.
DeleteOthers(c, f, ip) ==
    /\ Exists(f)
    /\ WillPut(c, f, [kv[f] EXCEPT !.members = [i \in Ips |-> IF i = ip THEN @[i] ELSE None]],
               About({ip}, FALSE))

DeleteMember(c, f, ip) ==
    /\ Exists(f)
    /\ WillPut(c, f, [kv[f] EXCEPT !.members = [@ EXCEPT ![ip] = None]], About({ip}, FALSE))

SetHealthCheck(c, f, hc) ==
    /\ Exists(f)
    /\ ValidatePluginHealthCheck(hc)
    /\ WillPut(c, f, [kv[f] EXCEPT !.hc = hc], About({}, TRUE))

\* Mutant: an entry that is not found is not an error.
GetHealthCheckOfAny(c, f) == WillPut(c, f, kv[f], About({}, FALSE))

\* It reads, and writes back what it read.
GetHealthCheck(c, f) ==
    /\ Exists(f)
    /\ WillPut(c, f, kv[f], About({}, FALSE))

Done(c) == [Overtaken({calls[c].order[1]}, c) EXCEPT ![c] = None]

Put(c) ==
    /\ calls[c] # None
    /\ calls[c].stage = "put"
    /\ LET f == calls[c].order[1] IN kv' = [kv EXCEPT ![f] = calls[c].new[f]]
    /\ calls' = Done(c)
    /\ UNCHANGED nbCalls

PutFails(c) ==
    /\ calls[c] # None
    /\ calls[c].stage = "put"
    /\ calls' = [calls EXCEPT ![c] = None]
    /\ UNCHANGED <<kv, nbCalls>>

-----------------------------------------------------------------------------
(* SetMembersStatus.  scope are the names that match the request's prefix    *)
(* and tags; dc and ip, None when the request leaves them empty, select      *)
(* members.                                                                 *)

Selects(r, ip, m) ==
    /\ m # None
    /\ r.dc = None \/ r.dc = m.dc
    /\ r.ip = None \/ r.ip = ip

\* Mutant: the request's filters are not looked at.
SwitchedAll(r, e) ==
    [e EXCEPT !.members = [ip \in Ips |->
        IF e.members[ip] = None THEN None ELSE [e.members[ip] EXCEPT !.disabled = r.disabled]]]

\* setStatusMember on all members of e
Switched(r, e) ==
    [e EXCEPT !.members = [ip \in Ips |->
        IF Selects(r, ip, e.members[ip]) THEN [e.members[ip] EXCEPT !.disabled = r.disabled]
                                         ELSE e.members[ip]]]

Updated(r) == {f \in r.scope : Exists(f) /\ \E ip \in Ips : Selects(r, ip, kv[f].members[ip])}

\* The orders in which the elements of a set can be listed.
Listings(S) ==
    {s \in [1 .. Cardinality(S) -> S] : \A f \in S : \E i \in 1 .. Cardinality(S) : s[i] = f}

\* ListEntries answers; without a selected member the call is over, and so is a
\* dry run.
SetMembersStatus(c, r) ==
    /\ Accepted
    /\ calls[c] = None
    /\ Updated(r) # {}
    /\ \E order \in Listings(Updated(r)) :
          calls' = [calls EXCEPT ![c] =
              Call("txn", order,
                   [f \in Fqdns |-> IF f \in Updated(r) THEN Switched(r, kv[f]) ELSE None], r)]
    /\ UNCHANGED kv

\* applyTx: the transactions are numbered from 0 to Todo.
\* Mutant: the transaction that is not full is left out.
TodoFull(c) == Len(calls[c].order) \div MaxTransactions - 1
Todo(c) == Len(calls[c].order) \div MaxTransactions
SubTx(c, i) ==
    {n \in 1 .. Len(calls[c].order) : i * MaxTransactions < n /\ n <= (i + 1) * MaxTransactions}
SubTxKeys(c) == {calls[c].order[n] : n \in SubTx(c, calls[c].next)}

\* The call after a transaction, which failed with an error or was refused.
AfterTx(c, fails, refused) ==
    [calls[c] EXCEPT !.next = @ + 1,
                     !.stage = IF calls[c].next = Todo(c) THEN "replied" ELSE "txn",
                     !.failed = @ \/ fails,
                     !.refused = @ \union refused]

\* Consul applies a transaction, whose answer may be lost, ...
Txn(c, fails) ==
    /\ calls[c] # None
    /\ calls[c].stage = "txn"
    /\ kv' = [f \in Fqdns |-> IF f \in SubTxKeys(c) THEN calls[c].new[f] ELSE kv[f]]
    /\ calls' = [Overtaken(SubTxKeys(c), c) EXCEPT ![c] = AfterTx(c, fails, {})]
    /\ UNCHANGED nbCalls

\* ... or does not: the request fails, which is remembered, or Consul answers
\* that it rolled the transaction back, which is ignored.
TxnNotApplied(c, fails) ==
    /\ calls[c] # None
    /\ calls[c].stage = "txn"
    /\ calls' = [calls EXCEPT ![c] = AfterTx(c, fails, IF fails THEN {} ELSE SubTxKeys(c))]
    /\ UNCHANGED <<kv, nbCalls>>

Reply(c) ==
    /\ calls[c] # None
    /\ calls[c].stage = "replied"
    /\ calls' = [calls EXCEPT ![c] = None]
    /\ UNCHANGED <<kv, nbCalls>>

-----------------------------------------------------------------------------
StatusRequests ==
    [scope : SUBSET Fqdns, dc : Dcs \union {None}, ip : Ips \union {None}, disabled : BOOLEAN]

Write(c) == Put(c) \/ PutFails(c) \/ (\E b \in BOOLEAN : Txn(c, b) \/ TxnNotApplied(c, b))

Next ==
    \/ \E f \in Fqdns, e \in Entries : SetEntry(f, e)
    \/ \E f \in Fqdns : DeleteEntry(f)
    \/ \E c \in Clients, f \in Fqdns :
          \/ \E ip \in Ips, m \in Members : SetMember(c, f, ip, m)
          \/ \E ip \in Ips : DeleteMember(c, f, ip)
          \/ \E hc \in Hcs : SetHealthCheck(c, f, hc)
          \/ GetHealthCheck(c, f)
    \/ \E c \in Clients, r \in StatusRequests : SetMembersStatus(c, r)
    \/ \E c \in Clients : Write(c) \/ Reply(c)

Spec == Init /\ [][Next]_vars

-----------------------------------------------------------------------------
(* Properties *)

Calls ==
    [stage : {"put", "txn", "replied"}, order : Seq(Fqdns),
     new : [Fqdns -> Entries \union {None}], next : Nat, failed : BOOLEAN,
     about : [ips : SUBSET Ips, hc : BOOLEAN] \union StatusRequests,
     stale : SUBSET Fqdns, refused : SUBSET Fqdns]
ASSUME CallsAssumption == None \notin Calls

\* Every variable has its type, and every name a call is to write an entry.
TypeOK ==
    /\ kv \in [Fqdns -> Entries \union {None}]
    /\ calls \in [Clients -> Calls \union {None}]
    /\ \A c \in Clients : calls[c] # None =>
          \A n \in 1 .. Len(calls[c].order) : calls[c].new[calls[c].order[n]] \in Entries
    /\ nbCalls \in 0 .. MaxCalls

\* Whatever is stored names known datacenters and health check plugins only:
\* no interleaving of calls, which validate at different moments and may write
\* long after, stores anything else.
StoredValid ==
    \A f \in Fqdns : Exists(f) =>
        /\ kv[f].hc \in KnownHcs
        /\ \A ip \in Ips : kv[f].members[ip] # None => kv[f].members[ip].dc \in KnownDcs

\* When SetMembersStatus replies without an error, every member it selects of
\* every entry in its scope has the status it asked for, but in entries that
\* another call wrote meanwhile and in those of a transaction Consul refused.
StatusApplied ==
    \A c \in Clients : calls[c] # None /\ calls[c].stage = "replied" /\ ~calls[c].failed =>
        \A f \in calls[c].about.scope \ (calls[c].stale \union calls[c].refused) :
            Exists(f) => \A ip \in Ips :
                Selects(calls[c].about, ip, kv[f].members[ip])
                    => kv[f].members[ip].disabled = calls[c].about.disabled

\* What a call may change of an entry e that it replaces with n.
AsAsked(a, e, n) ==
    IF "scope" \in DOMAIN a
    THEN /\ n.hc = e.hc
         /\ \A ip \in Ips : IF Selects(a, ip, e.members[ip])
                             THEN n.members[ip] = [e.members[ip] EXCEPT !.disabled = a.disabled]
                             ELSE n.members[ip] = e.members[ip]
    ELSE /\ n.hc # e.hc => a.hc
         /\ \A ip \in Ips \ a.ips : n.members[ip] = e.members[ip]

\* A call that writes an entry changes nothing of it but what was asked, and
\* brings no deleted entry back, unless another call wrote it since it was read.
Moves(c) == calls[c] # None /\ (calls'[c] = None \/ calls'[c].next # calls[c].next)
OnlyAsked ==
    [][\A c \in Clients : Moves(c) =>
          \A f \in Fqdns \ calls[c].stale : kv'[f] # kv[f] =>
              kv[f] # None /\ kv'[f] # None /\ AsAsked(calls[c].about, kv[f], kv'[f])]_vars

\* The inductive invariant: whatever a call is still to write is valid, and is
\* what was asked of the entry as it is, unless another call wrote it.
ValidEntry(e) ==
    /\ e.hc \in KnownHcs
    /\ \A ip \in Ips : e.members[ip] # None => e.members[ip].dc \in KnownDcs
Names(k) == {k.order[n] : n \in 1 .. Len(k.order)}
Asked(k, v) ==
    /\ \A f \in Names(k) : k.new[f] \in Entries /\ ValidEntry(k.new[f])
    /\ \A f \in Names(k) \ k.stale : v[f] # None /\ AsAsked(k.about, v[f], k.new[f])

\* SetMembersStatus so far: an entry it has no transaction for has no member it
\* selects, and one of the transactions done is as it is to be.
Untouched(k, v) ==
    \A f \in k.about.scope \ (k.stale \union Names(k)) :
        v[f] # None => \A ip \in Ips : ~Selects(k.about, ip, v[f].members[ip])
Applied(k, v) ==
    \A n \in 1 .. Len(k.order) :
        n <= k.next * MaxTransactions /\ k.order[n] \notin k.stale \union k.refused
            => v[k.order[n]] = k.new[k.order[n]]
SwitchedTo(k) ==
    \A f \in Names(k) : \A ip \in Ips :
        Selects(k.about, ip, k.new[f].members[ip])
            => k.new[f].members[ip].disabled = k.about.disabled
Progress(k, v) ==
    /\ k.about \in StatusRequests
    /\ Untouched(k, v)
    /\ SwitchedTo(k)
    /\ ~k.failed => Applied(k, v)
    /\ k.stage = "replied" => k.next = Len(k.order) \div MaxTransactions + 1

CallOK(k, v) ==
    /\ Asked(k, v)
    /\ IF k.stage = "put" THEN Len(k.order) = 1 ELSE Progress(k, v)
CallsInv == \A c \in Clients : calls[c] # None => CallOK(calls[c], kv)
Inv == TypeOK /\ StoredValid /\ CallsInv
=============================================================================
