-------------------------- MODULE GslbServerProofs --------------------------
(* What GslbServer guarantees for any names, addresses, clients and calls,  *)
(* and any size of transactions.                                            *)
EXTENDS GslbServer, SequenceTheorems, FiniteSetTheorems, TLAPS

-----------------------------------------------------------------------------
(* Calls *)

\* A listing of a finite set is a sequence of all its elements.
LEMMA ListingProperties ==
    ASSUME NEW S, IsFiniteSet(S), NEW s \in Listings(S)
    PROVE  /\ s \in Seq(S)
           /\ \A n \in 1 .. Len(s) : s[n] \in S
           /\ \A f \in S : \E n \in 1 .. Len(s) : s[n] = f
  <1>1. Cardinality(S) \in Nat
    BY FS_CardinalityType
  <1>2. s \in [1 .. Cardinality(S) -> S]
    BY DEF Listings
  <1>3. s \in Seq(S) /\ Len(s) = Cardinality(S)
    BY <1>1, <1>2, IsASeq, LenProperties
  <1>. QED  BY <1>2, <1>3 DEF Listings

\* A request for members is told from a request for one entry by its fields.
LEMMA Requests ==
    /\ \A r \in StatusRequests : "scope" \in DOMAIN r
    /\ \A ips, hc : "scope" \notin DOMAIN About(ips, hc)
  BY DEF StatusRequests, About

\* What was switched as asked may be switched again: nothing more changes.
LEMMA AskedAgain ==
    ASSUME NEW a, NEW e \in Entries, NEW n \in Entries, AsAsked(a, e, n),
           "scope" \in DOMAIN a => a \in StatusRequests
    PROVE  AsAsked(a, n, n)
  <1>1. CASE "scope" \notin DOMAIN a
    BY <1>1 DEF AsAsked
  <1>2. CASE "scope" \in DOMAIN a
    <2>1. ASSUME NEW ip \in Ips, Selects(a, ip, n.members[ip])
          PROVE  n.members[ip] = [n.members[ip] EXCEPT !.disabled = a.disabled]
      <3>1. e.members[ip] \in Members \union {None} /\ n.members[ip] \in Members \union {None}
        BY DEF Entries
      <3>2. n.members[ip] \in Members /\ (a.dc = None \/ a.dc = n.members[ip].dc)
              /\ (a.ip = None \/ a.ip = ip)
        BY <2>1, <3>1 DEF Selects
      <3>3. CASE Selects(a, ip, e.members[ip])
        <4>1. n.members[ip] = [e.members[ip] EXCEPT !.disabled = a.disabled]
          BY <1>2, <3>3 DEF AsAsked
        <4>2. e.members[ip] \in Members
          BY <3>1, <3>3 DEF Selects
        <4>. QED  BY <4>1, <4>2 DEF Members
      <3>4. CASE ~Selects(a, ip, e.members[ip])
        <4>1. n.members[ip] = e.members[ip]
          BY <1>2, <3>4 DEF AsAsked
        <4>. QED  BY <2>1, <3>4, <4>1
      <3>. QED  BY <3>3, <3>4
    <2>. QED  BY <1>2, <2>1 DEF AsAsked
  <1>. QED  BY <1>1, <1>2

\* A call is as good as before once another one wrote the names F, and knows
\* that what it read of them is stale.
LEMMA OvertakenCall ==
    ASSUME NEW k \in Calls, NEW v, NEW w, NEW F \in SUBSET Fqdns, CallOK(k, v),
           \A f \in Fqdns \ F : w[f] = v[f]
    PROVE  /\ [k EXCEPT !.stale = @ \union F] \in Calls
           /\ CallOK([k EXCEPT !.stale = @ \union F], w)
  <1>. DEFINE l == [k EXCEPT !.stale = @ \union F]
  <1>1. /\ l \in Calls /\ l.stale = k.stale \union F
        /\ l.order = k.order /\ l.new = k.new /\ l.about = k.about /\ l.stage = k.stage
        /\ l.next = k.next /\ l.failed = k.failed /\ l.refused = k.refused
    BY DEF Calls
  <1>2. Names(l) = Names(k) /\ Names(k) \subseteq Fqdns
    <2>1. k.order \in Seq(Fqdns)
      BY DEF Calls
    <2>. QED  BY <1>1, <2>1, ElementOfSeq DEF Names
  <1>3. Asked(l, w)
    BY <1>1, <1>2 DEF CallOK, Asked
  <1>4. ASSUME k.stage # "put"
        PROVE  Progress(l, w)
    <2>1. k.about \in StatusRequests /\ k.about.scope \subseteq Fqdns
      BY <1>4 DEF CallOK, Progress, StatusRequests
    <2>2. Untouched(l, w)
      BY <1>1, <1>2, <1>4, <2>1 DEF CallOK, Progress, Untouched
    <2>3. SwitchedTo(l)
      BY <1>1, <1>2, <1>4 DEF CallOK, Progress, SwitchedTo
    <2>4. ASSUME ~l.failed
          PROVE  Applied(l, w)
      <3>1. \A n \in 1 .. Len(k.order) : k.order[n] \in Fqdns
        BY <1>2 DEF Names
      <3>2. Applied(k, v)
        BY <1>1, <1>4, <2>4 DEF CallOK, Progress
      <3>. QED  BY <1>1, <3>1, <3>2 DEF Applied
    <2>. QED  BY <1>1, <1>4, <2>1, <2>2, <2>3, <2>4 DEF CallOK, Progress
  <1>. QED  BY <1>1, <1>3, <1>4 DEF CallOK

\* So is a call whose transaction was applied to the names S, or was not (S is
\* empty): then it failed, or its names are refused.
LEMMA TxnCall ==
    ASSUME NEW v \in [Fqdns -> Entries \union {None}], NEW w,
           NEW k \in Calls, NEW l \in Calls, NEW S \in SUBSET Names(k),
           CallOK(k, v), k.stage # "put", l.stage # "put",
           w = [f \in Fqdns |-> IF f \in S THEN k.new[f] ELSE v[f]],
           l.order = k.order, l.new = k.new, l.about = k.about, l.stale = k.stale,
           l.next = k.next + 1, k.failed => l.failed, k.refused \subseteq l.refused,
           l.stage = "replied" => l.next = Len(k.order) \div MaxTransactions + 1,
           ~l.failed => \A n \in 1 .. Len(k.order) :
               k.next * MaxTransactions < n /\ n <= (k.next + 1) * MaxTransactions
                   => k.order[n] \in S \union l.refused
    PROVE  CallOK(l, w)
  <1>1. Names(l) = Names(k) /\ Names(k) \subseteq Fqdns
    <2>1. k.order \in Seq(Fqdns)
      BY DEF Calls
    <2>. QED  BY <2>1, ElementOfSeq DEF Names
  <1>2. Progress(k, v) /\ Asked(k, v)
    BY DEF CallOK
  <1>3. k.about \in StatusRequests
    BY <1>2 DEF Progress
  <1>4. Asked(l, w)
    <2>1. ASSUME NEW f \in Names(k) \ k.stale
          PROVE  w[f] # None /\ AsAsked(k.about, w[f], k.new[f])
      <3>1. /\ k.new[f] \in Entries /\ v[f] # None /\ v[f] \in Entries
            /\ AsAsked(k.about, v[f], k.new[f])
        BY <1>1, <1>2 DEF Asked
      <3>2. AsAsked(k.about, k.new[f], k.new[f])
        BY <1>3, <3>1, AskedAgain
      <3>. QED  BY <1>1, <3>1, <3>2, EntriesAssumption
    <2>. QED  BY <1>1, <1>2, <2>1 DEF Asked
  <1>5. Untouched(l, w)
    BY <1>1, <1>2, <1>3 DEF Progress, Untouched, StatusRequests
  <1>6. SwitchedTo(l)
    BY <1>1, <1>2 DEF Progress, SwitchedTo
  <1>7. ASSUME ~l.failed, NEW n \in 1 .. Len(k.order), n <= (k.next + 1) * MaxTransactions,
               k.order[n] \notin k.stale \union l.refused
        PROVE  w[k.order[n]] = k.new[k.order[n]]
    <2>1. k.order[n] \in Names(k) /\ k.order[n] \in Fqdns
      BY <1>1 DEF Names
    <2>2. CASE k.order[n] \in S
      BY <2>1, <2>2
    <2>3. CASE k.order[n] \notin S
      <3>1. ~(k.next * MaxTransactions < n)
        BY <1>7, <2>3
      <3>2. n <= k.next * MaxTransactions
        BY <3>1, MaxAssumption DEF Calls
      <3>3. v[k.order[n]] = k.new[k.order[n]]
        BY <1>2, <1>7, <3>2 DEF Progress, Applied
      <3>. QED  BY <2>1, <2>3, <3>3
    <2>. QED  BY <2>2, <2>3
  <1>8. ~l.failed => Applied(l, w)
    BY <1>7 DEF Applied
  <1>. QED  BY <1>3, <1>4, <1>5, <1>6, <1>8 DEF CallOK, Progress

-----------------------------------------------------------------------------
(* The invariant *)

\* What the invariant asks of the next state, variable by variable.
LEMMA Preserved ==
    ASSUME kv' \in [Fqdns -> Entries \union {None}],
           \A f \in Fqdns : kv'[f] # None => ValidEntry(kv'[f]),
           calls' \in [Clients -> Calls \union {None}],
           \A c \in Clients : calls'[c] # None => CallOK(calls'[c], kv'),
           nbCalls' \in 0 .. MaxCalls
    PROVE  Inv'
  <1>1. StoredValid' /\ CallsInv'
    BY DEF StoredValid, Exists, ValidEntry, CallsInv
  <1>2. \A c \in Clients : calls'[c] # None =>
            \A n \in 1 .. Len(calls'[c].order) : calls'[c].new[calls'[c].order[n]] \in Entries
    BY DEF CallOK, Asked, Names
  <1>. QED  BY <1>1, <1>2 DEF Inv, TypeOK

\* All calls but c's, when the names F are written.
LEMMA Others ==
    ASSUME Inv, NEW F \in SUBSET Fqdns, NEW c, \A f \in Fqdns \ F : kv'[f] = kv[f]
    PROVE  \A d \in Clients \ {c} :
               /\ Overtaken(F, c)[d] \in Calls \union {None}
               /\ Overtaken(F, c)[d] # None => CallOK(Overtaken(F, c)[d], kv')
  <1>. SUFFICES ASSUME NEW d \in Clients \ {c}, calls[d] # None
                PROVE  /\ Overtaken(F, c)[d] \in Calls
                       /\ CallOK(Overtaken(F, c)[d], kv')
    BY DEF Overtaken
  <1>1. calls[d] \in Calls /\ CallOK(calls[d], kv)
    BY DEF Inv, TypeOK, CallsInv
  <1>2. Overtaken(F, c)[d] = [calls[d] EXCEPT !.stale = @ \union F]
    BY DEF Overtaken
  <1>3. /\ [calls[d] EXCEPT !.stale = @ \union F] \in Calls
        /\ CallOK([calls[d] EXCEPT !.stale = @ \union F], kv')
    BY <1>1, OvertakenCall
  <1>. QED  BY <1>2, <1>3

\* A call that has read the entry f, and is to write what was asked of it.
LEMMA NewPut ==
    ASSUME Inv, NEW c \in Clients, NEW f \in Fqdns, NEW e \in Entries, NEW a,
           a \in [ips : SUBSET Ips, hc : BOOLEAN], "scope" \notin DOMAIN a,
           Exists(f), ValidEntry(e), AsAsked(a, kv[f], e), WillPut(c, f, e, a)
    PROVE  Inv'
  <1>. DEFINE k == Call("put", <<f>>, [g \in Fqdns |-> IF g = f THEN e ELSE None], a)
  <1>1. <<f>> \in Seq(Fqdns) /\ Len(<<f>>) = 1 /\ <<f>>[1] = f
    OBVIOUS
  <1>2. k \in Calls
    BY <1>1 DEF Calls, Call
  <1>3. Names(k) = {f}
    BY <1>1 DEF Names, Call
  <1>4. CallOK(k, kv)
    BY <1>3 DEF CallOK, Asked, Call, Exists
  <1>5. calls' = [calls EXCEPT ![c] = k] /\ kv' = kv
    BY DEF WillPut
  <1>6. nbCalls' \in 0 .. MaxCalls
    BY MaxAssumption DEF WillPut, Accepted, Inv, TypeOK
  <1>7. \A d \in Clients : calls'[d] # None => CallOK(calls'[d], kv')
    BY <1>4, <1>5 DEF Inv, TypeOK, CallsInv
  <1>. QED
    <2>1. kv' \in [Fqdns -> Entries \union {None}] /\ calls' \in [Clients -> Calls \union {None}]
      BY <1>2, <1>5 DEF Inv, TypeOK
    <2>2. \A g \in Fqdns : kv'[g] # None => ValidEntry(kv'[g])
      BY <1>5 DEF Inv, StoredValid, Exists, ValidEntry
    <2>. QED  BY <1>6, <1>7, <2>1, <2>2, Preserved

\* setStatusMember: the members selected get the status, all else stays.
LEMMA SwitchedEntry ==
    ASSUME NEW r \in StatusRequests, NEW e \in Entries
    PROVE  /\ Switched(r, e) \in Entries
           /\ Switched(r, e).hc = e.hc
           /\ \A ip \in Ips : Selects(r, ip, e.members[ip]) =>
                 /\ e.members[ip] \in Members
                 /\ Switched(r, e).members[ip] = [e.members[ip] EXCEPT !.disabled = r.disabled]
           /\ \A ip \in Ips : ~Selects(r, ip, e.members[ip]) =>
                 Switched(r, e).members[ip] = e.members[ip]
  <1>. DEFINE sel(ip) == [e.members[ip] EXCEPT !.disabled = r.disabled]
              ms == [ip \in Ips |-> IF Selects(r, ip, e.members[ip]) THEN sel(ip)
                                                                     ELSE e.members[ip]]
  <1>1. ASSUME NEW ip \in Ips
        PROVE  /\ e.members[ip] \in Members \union {None}
               /\ Selects(r, ip, e.members[ip]) => e.members[ip] \in Members
    BY DEF Entries, Selects
  <1>2. ASSUME NEW ip \in Ips, e.members[ip] \in Members
        PROVE  sel(ip) \in Members
    BY <1>2 DEF Members, StatusRequests
  <1>3. Switched(r, e) = [e EXCEPT !.members = ms]
    BY DEF Switched
  <1>. HIDE DEF sel
  <1>4. ms \in [Ips -> Members \union {None}]
    BY <1>1, <1>2
  <1>5. \A ip \in Ips : ms[ip] = IF Selects(r, ip, e.members[ip]) THEN sel(ip) ELSE e.members[ip]
    OBVIOUS
  <1>. HIDE DEF ms
  <1>6. /\ Switched(r, e) \in Entries /\ Switched(r, e).hc = e.hc
        /\ Switched(r, e).members = ms
    BY <1>3, <1>4 DEF Entries
  <1>. QED  BY <1>1, <1>5, <1>6 DEF sel

\* SetMembersStatus has listed the entries and is to switch those it selects.
LEMMA NewTxns ==
    ASSUME Inv, NEW c \in Clients, NEW r \in StatusRequests, SetMembersStatus(c, r)
    PROVE  Inv'
  <1>. DEFINE U == Updated(r)
              new == [f \in Fqdns |-> IF f \in U THEN Switched(r, kv[f]) ELSE None]
  <1>1. PICK order \in Listings(U) : calls' = [calls EXCEPT ![c] = Call("txn", order, new, r)]
    BY DEF SetMembersStatus
  <1>. DEFINE k == Call("txn", order, new, r)
  <1>2. U \subseteq Fqdns /\ U \subseteq r.scope /\ IsFiniteSet(U)
    BY FqdnsAssumption, FS_Subset DEF Updated, StatusRequests
  <1>3. order \in Seq(Fqdns) /\ Names(k) = U
    <2>1. order \in Seq(U) /\ \A n \in 1 .. Len(order) : order[n] \in U
      BY <1>2, ListingProperties
    <2>2. \A f \in U : \E n \in 1 .. Len(order) : order[n] = f
      BY <1>2, ListingProperties
    <2>3. order \in Seq(Fqdns)
      BY <1>2, <2>1, SeqMonotonic
    <2>. QED  BY <2>1, <2>2, <2>3 DEF Names, Call
  <1>4. ASSUME NEW f \in U
        PROVE  /\ new[f] = Switched(r, kv[f]) /\ new[f] \in Entries
               /\ kv[f] \in Entries /\ kv[f] # None /\ ValidEntry(new[f])
    <2>1. kv[f] \in Entries /\ kv[f] # None /\ ValidEntry(kv[f])
      BY <1>2 DEF Inv, TypeOK, StoredValid, Exists, ValidEntry, Updated
    <2>2. new[f] = Switched(r, kv[f])
      BY <1>2
    <2>3. new[f].hc = kv[f].hc /\ new[f] \in Entries
      BY <2>1, <2>2, SwitchedEntry
    <2>4. ASSUME NEW ip \in Ips, new[f].members[ip] # None
          PROVE  kv[f].members[ip] # None /\ new[f].members[ip].dc = kv[f].members[ip].dc
      <3>1. CASE Selects(r, ip, kv[f].members[ip])
        <4>1. /\ kv[f].members[ip] \in Members
              /\ new[f].members[ip] = [kv[f].members[ip] EXCEPT !.disabled = r.disabled]
          BY <2>1, <2>2, <3>1, SwitchedEntry
        <4>. QED  BY <3>1, <4>1 DEF Selects, Members
      <3>2. CASE ~Selects(r, ip, kv[f].members[ip])
        <4>1. new[f].members[ip] = kv[f].members[ip]
          BY <2>1, <2>2, <3>2, SwitchedEntry
        <4>. QED  BY <2>4, <4>1
      <3>. QED  BY <3>1, <3>2
    <2>. QED  BY <2>1, <2>2, <2>3, <2>4 DEF ValidEntry
  <1>5. k \in Calls
    <2>1. new \in [Fqdns -> Entries \union {None}]
      BY <1>4
    <2>. QED  BY <1>3, <2>1 DEF Calls, Call
  <1>6. Asked(k, kv)
    <2>1. ASSUME NEW f \in U
          PROVE  AsAsked(r, kv[f], new[f])
      BY <1>4, Requests, SwitchedEntry DEF AsAsked
    <2>. QED  BY <1>3, <1>4, <2>1 DEF Asked, Call
  <1>7. Untouched(k, kv)
    BY <1>2, <1>3 DEF Untouched, Call, Updated, Exists, StatusRequests
  <1>8. SwitchedTo(k)
    <2>1. ASSUME NEW f \in U, NEW ip \in Ips, Selects(r, ip, new[f].members[ip])
          PROVE  new[f].members[ip].disabled = r.disabled
      <3>1. CASE Selects(r, ip, kv[f].members[ip])
        <4>1. /\ kv[f].members[ip] \in Members
              /\ new[f].members[ip] = [kv[f].members[ip] EXCEPT !.disabled = r.disabled]
          BY <1>4, <3>1, SwitchedEntry
        <4>. QED  BY <4>1 DEF Members
      <3>2. CASE ~Selects(r, ip, kv[f].members[ip])
        <4>1. new[f].members[ip] = kv[f].members[ip]
          BY <1>4, <3>2, SwitchedEntry
        <4>. QED  BY <2>1, <3>2, <4>1
      <3>. QED  BY <3>1, <3>2
    <2>. QED  BY <1>3, <2>1 DEF SwitchedTo, Call
  <1>9. Applied(k, kv)
    BY <1>3, MaxAssumption DEF Applied, Call
  <1>10. CallOK(k, kv)
    BY <1>6, <1>7, <1>8, <1>9 DEF CallOK, Progress, Call
  <1>. QED
    <2>1. kv' = kv
      BY DEF SetMembersStatus
    <2>2. nbCalls' \in 0 .. MaxCalls
      BY MaxAssumption DEF SetMembersStatus, Accepted, Inv, TypeOK
    <2>3. \A d \in Clients : calls'[d] # None => CallOK(calls'[d], kv')
      BY <1>1, <1>10, <2>1 DEF Inv, TypeOK, CallsInv
    <2>4. kv' \in [Fqdns -> Entries \union {None}] /\ calls' \in [Clients -> Calls \union {None}]
      BY <1>1, <1>5, <2>1 DEF Inv, TypeOK
    <2>5. \A f \in Fqdns : kv'[f] # None => ValidEntry(kv'[f])
      BY <2>1 DEF Inv, StoredValid, Exists, ValidEntry
    <2>. QED  BY <2>2, <2>3, <2>4, <2>5, Preserved

\* A step that writes the names F of kv as valid entries or deletes them, and
\* leaves c, if it is a client, with a call that is as it should be.
LEMMA Written ==
    ASSUME Inv, NEW F \in SUBSET Fqdns, NEW c,
           kv' \in [Fqdns -> Entries \union {None}],
           \A f \in Fqdns \ F : kv'[f] = kv[f],
           \A f \in F : kv'[f] # None => ValidEntry(kv'[f]),
           calls' \in [Clients -> Calls \union {None}],
           \A d \in Clients \ {c} : calls'[d] = Overtaken(F, c)[d],
           c \in Clients /\ calls'[c] # None => CallOK(calls'[c], kv'),
           nbCalls' \in 0 .. MaxCalls
    PROVE  Inv'
  <1>1. \A d \in Clients \ {c} : calls'[d] # None => CallOK(calls'[d], kv')
    BY Others
  <1>2. \A f \in Fqdns : kv'[f] # None => ValidEntry(kv'[f])
    BY DEF Inv, StoredValid, Exists, ValidEntry
  <1>. QED  BY <1>1, <1>2, Preserved

\* The call after a transaction.
LEMMA AfterTxFields ==
    ASSUME NEW c \in Clients, NEW k \in Calls, k = calls[c],
           NEW fails \in BOOLEAN, NEW R \in SUBSET Fqdns, NEW l, l = AfterTx(c, fails, R)
    PROVE  /\ l \in Calls
           /\ l.order = k.order /\ l.new = k.new /\ l.about = k.about /\ l.stale = k.stale
           /\ l.next = k.next + 1 /\ l.refused = k.refused \union R
           /\ (l.failed <=> k.failed \/ fails)
           /\ l.stage # "put"
           /\ l.stage = "replied" => l.next = Len(k.order) \div MaxTransactions + 1
  <1>. DEFINE st == IF k.next = Todo(c) THEN "replied" ELSE "txn"
              fd == k.failed \/ fails
  <1>1. st \in {"txn", "replied"} /\ (st = "replied" => k.next = Todo(c))
    OBVIOUS
  <1>2. l = [k EXCEPT !.next = @ + 1, !.stage = st, !.failed = fd, !.refused = @ \union R]
    BY DEF AfterTx
  <1>3. fd \in BOOLEAN
    OBVIOUS
  <1>. HIDE DEF st, fd
  <1>4. /\ l \in Calls
        /\ l.order = k.order /\ l.new = k.new /\ l.about = k.about /\ l.stale = k.stale
        /\ l.next = k.next + 1 /\ l.refused = k.refused \union R
        /\ l.failed = fd /\ l.stage = st
    <2>. DEFINE m == [stage |-> st, order |-> k.order, new |-> k.new, next |-> k.next + 1,
                      failed |-> fd, about |-> k.about, stale |-> k.stale,
                      refused |-> k.refused \union R]
    <2>1. k = [stage |-> k.stage, order |-> k.order, new |-> k.new, next |-> k.next,
               failed |-> k.failed, about |-> k.about, stale |-> k.stale, refused |-> k.refused]
      BY DEF Calls
    <2>2. l = m
      BY <1>2, <2>1
    <2>3. m \in Calls
      BY <1>1, <1>3 DEF Calls
    <2>. QED  BY <2>2, <2>3
  <1>5. l.stage = "replied" => l.next = Len(k.order) \div MaxTransactions + 1
    BY <1>1, <1>4 DEF Todo
  <1>6. l.failed <=> k.failed \/ fails
    BY <1>4 DEF fd
  <1>. QED  BY <1>1, <1>4, <1>5, <1>6

\* Whether Consul applies a transaction or not.
LEMMA Transaction ==
    ASSUME Inv, NEW c \in Clients, NEW fails \in BOOLEAN,
           Txn(c, fails) \/ TxnNotApplied(c, fails)
    PROVE  Inv'
  <1>. DEFINE k == calls[c]
  <1>1. k # None /\ k \in Calls /\ CallOK(k, kv) /\ k.stage = "txn"
    BY DEF Inv, TypeOK, CallsInv, Txn, TxnNotApplied
  <1>2. SubTxKeys(c) \subseteq Names(k) /\ Names(k) \subseteq Fqdns
    <2>1. k.order \in Seq(Fqdns)
      BY <1>1 DEF Calls
    <2>. QED  BY <2>1, ElementOfSeq DEF SubTxKeys, SubTx, Names
  <1>3. nbCalls' \in 0 .. MaxCalls /\ kv \in [Fqdns -> Entries \union {None}]
        /\ calls \in [Clients -> Calls \union {None}]
    BY DEF Txn, TxnNotApplied, Inv, TypeOK
  <1>4. CASE Txn(c, fails)
    <2>. DEFINE R == {}
                l == AfterTx(c, fails, R)
                S == SubTxKeys(c)
    <2>1. /\ kv' = [f \in Fqdns |-> IF f \in S THEN k.new[f] ELSE kv[f]]
          /\ calls' = [Overtaken(S, c) EXCEPT ![c] = l]
      BY <1>4 DEF Txn
    <2>2. \A f \in S : k.new[f] \in Entries /\ ValidEntry(k.new[f])
      BY <1>1, <1>2 DEF CallOK, Asked
    <2>3. /\ l \in Calls
          /\ l.order = k.order /\ l.new = k.new /\ l.about = k.about /\ l.stale = k.stale
          /\ l.next = k.next + 1 /\ l.refused = k.refused \union R
          /\ (l.failed <=> k.failed \/ fails) /\ l.stage # "put"
          /\ l.stage = "replied" => l.next = Len(k.order) \div MaxTransactions + 1
      <3>1. R \in SUBSET Fqdns
        OBVIOUS
      <3>. HIDE DEF R
      <3>. QED  BY <1>1, <3>1, AfterTxFields
    <2>4. \A n \in 1 .. Len(k.order) :
              k.next * MaxTransactions < n /\ n <= (k.next + 1) * MaxTransactions
                  => k.order[n] \in S \union l.refused
      BY DEF SubTxKeys, SubTx
    <2>5. S \in SUBSET Names(k) /\ S \in SUBSET Fqdns
      BY <1>2
    <2>. HIDE DEF k, l, S
    <2>6. CallOK(l, kv')
      <3>1. (k.failed => l.failed) /\ k.refused \subseteq l.refused
        BY <2>3
      <3>. QED  BY <1>1, <1>3, <2>1, <2>3, <2>4, <2>5, <3>1, TxnCall
    <2>7. \A f \in Fqdns \ S : kv'[f] = kv[f]
      BY <2>1
    <2>8. /\ kv' \in [Fqdns -> Entries \union {None}]
          /\ \A f \in S : kv'[f] # None => ValidEntry(kv'[f])
      BY <1>3, <2>1, <2>2, <2>5
    <2>9. /\ calls' \in [Clients -> Calls \union {None}] /\ calls'[c] = l
          /\ \A d \in Clients \ {c} : calls'[d] = Overtaken(S, c)[d]
      <3>1. \A d \in Clients \ {c} : Overtaken(S, c)[d] \in Calls \union {None}
        BY <2>5, <2>7, Others
      <3>2. Overtaken(S, c) = [d \in Clients |-> Overtaken(S, c)[d]]
        BY DEF Overtaken
      <3>. QED  BY <2>1, <2>3, <3>1, <3>2
    <2>. QED  BY <1>3, <2>5, <2>6, <2>7, <2>8, <2>9, Written
  <1>5. CASE TxnNotApplied(c, fails)
    <2>. DEFINE R == IF fails THEN {} ELSE SubTxKeys(c)
                l == AfterTx(c, fails, R)
                S == {}
    <2>1. kv' = kv /\ calls' = [calls EXCEPT ![c] = l]
      BY <1>5 DEF TxnNotApplied
    <2>2. R \in SUBSET Fqdns /\ S \in SUBSET Names(k)
      BY <1>2
    <2>3. /\ l \in Calls
          /\ l.order = k.order /\ l.new = k.new /\ l.about = k.about /\ l.stale = k.stale
          /\ l.next = k.next + 1 /\ l.refused = k.refused \union R
          /\ (l.failed <=> k.failed \/ fails) /\ l.stage # "put"
          /\ l.stage = "replied" => l.next = Len(k.order) \div MaxTransactions + 1
      <3>. HIDE DEF R
      <3>. QED  BY <1>1, <2>2, AfterTxFields
    <2>4. ASSUME ~fails, NEW n \in 1 .. Len(k.order),
                 k.next * MaxTransactions < n, n <= (k.next + 1) * MaxTransactions
          PROVE  k.order[n] \in R
      BY <2>4 DEF SubTxKeys, SubTx
    <2>5. kv' = [f \in Fqdns |-> IF f \in S THEN k.new[f] ELSE kv[f]]
      BY <1>3, <2>1
    <2>. HIDE DEF k, l, R, S
    <2>6. CallOK(l, kv')
      <3>1. (k.failed => l.failed) /\ k.refused \subseteq l.refused
        BY <2>3
      <3>2. ~l.failed => \A n \in 1 .. Len(k.order) :
                k.next * MaxTransactions < n /\ n <= (k.next + 1) * MaxTransactions
                    => k.order[n] \in S \union l.refused
        BY <2>3, <2>4
      <3>. QED  BY <1>1, <1>3, <2>2, <2>3, <2>5, <3>1, <3>2, TxnCall
    <2>7. \A d \in Clients : calls'[d] # None => CallOK(calls'[d], kv')
      BY <1>3, <2>1, <2>6 DEF Inv, CallsInv
    <2>8. calls' \in [Clients -> Calls \union {None}]
      BY <1>3, <2>1, <2>3
    <2>9. \A f \in Fqdns : kv'[f] # None => ValidEntry(kv'[f])
      BY <2>1 DEF Inv, StoredValid, Exists, ValidEntry
    <2>. QED  BY <1>3, <2>1, <2>7, <2>8, <2>9, Preserved
  <1>. QED  BY <1>4, <1>5

\* The write of a call that is over, or the end of one without a write.
LEMMA Ends ==
    ASSUME Inv, NEW c \in Clients, Put(c) \/ PutFails(c) \/ Reply(c)
    PROVE  Inv'
  <1>1. nbCalls' \in 0 .. MaxCalls /\ kv \in [Fqdns -> Entries \union {None}]
        /\ calls \in [Clients -> Calls \union {None}]
    BY DEF Put, PutFails, Reply, Inv, TypeOK
  <1>2. CASE Put(c)
    <2>. DEFINE k == calls[c]
                f == k.order[1]
                S == {f}
    <2>1. k # None /\ k \in Calls /\ CallOK(k, kv) /\ Len(k.order) = 1
      BY <1>2 DEF Put, Inv, TypeOK, CallsInv, CallOK
    <2>2. f \in Fqdns /\ f \in Names(k)
      <3>1. k.order \in Seq(Fqdns)
        BY <2>1 DEF Calls
      <3>. QED  BY <2>1, <3>1, ElementOfSeq DEF Names
    <2>3. k.new[f] \in Entries /\ ValidEntry(k.new[f])
      BY <2>1, <2>2 DEF CallOK, Asked
    <2>4. kv' = [kv EXCEPT ![f] = k.new[f]] /\ calls' = [Overtaken(S, c) EXCEPT ![c] = None]
      BY <1>2 DEF Put, Done
    <2>. HIDE DEF k, f
    <2>5. /\ S \in SUBSET Fqdns /\ \A g \in Fqdns \ S : kv'[g] = kv[g]
          /\ kv' \in [Fqdns -> Entries \union {None}]
          /\ \A g \in S : kv'[g] # None => ValidEntry(kv'[g])
      BY <1>1, <2>2, <2>3, <2>4
    <2>. HIDE DEF S
    <2>6. /\ calls' \in [Clients -> Calls \union {None}] /\ calls'[c] = None
          /\ \A d \in Clients \ {c} : calls'[d] = Overtaken(S, c)[d]
      <3>1. \A d \in Clients \ {c} : Overtaken(S, c)[d] \in Calls \union {None}
        BY <2>5, Others
      <3>2. Overtaken(S, c) = [d \in Clients |-> Overtaken(S, c)[d]]
        BY DEF Overtaken
      <3>. QED  BY <2>4, <3>1, <3>2
    <2>. QED  BY <1>1, <2>5, <2>6, Written
  <1>3. CASE PutFails(c) \/ Reply(c)
    <2>1. kv' = kv /\ calls' = [calls EXCEPT ![c] = None]
      BY <1>3 DEF PutFails, Reply
    <2>2. \A d \in Clients : calls'[d] # None => CallOK(calls'[d], kv')
      BY <1>1, <2>1 DEF Inv, CallsInv
    <2>3. \A g \in Fqdns : kv'[g] # None => ValidEntry(kv'[g])
      BY <2>1 DEF Inv, StoredValid, Exists, ValidEntry
    <2>. QED  BY <1>1, <2>1, <2>2, <2>3, Preserved
  <1>. QED  BY <1>2, <1>3

\* SetEntry and DeleteEntry, which are over when they have written.
LEMMA OneStep ==
    ASSUME Inv, NEW f \in Fqdns, (\E e \in Entries : SetEntry(f, e)) \/ DeleteEntry(f)
    PROVE  Inv'
  <1>. DEFINE S == {f}
  <1>1. /\ \/ \E e \in Entries : kv' = [kv EXCEPT ![f] = e] /\ ValidEntry(e)
           \/ kv' = [kv EXCEPT ![f] = None]
        /\ calls' = Overtaken(S, None)
    BY DEF SetEntry, DeleteEntry, CheckMembersInDCS, InDCS, ValidatePluginHealthCheck, ValidEntry
  <1>2. nbCalls' \in 0 .. MaxCalls /\ kv \in [Fqdns -> Entries \union {None}]
    BY MaxAssumption DEF SetEntry, DeleteEntry, Accepted, Inv, TypeOK
  <1>3. /\ S \in SUBSET Fqdns /\ \A g \in Fqdns \ S : kv'[g] = kv[g]
        /\ kv' \in [Fqdns -> Entries \union {None}]
        /\ \A g \in Fqdns : kv'[g] # None => ValidEntry(kv'[g])
    BY <1>1, <1>2 DEF Inv, StoredValid, Exists, ValidEntry
  <1>. HIDE DEF S
  <1>4. ASSUME NEW d \in Clients
        PROVE  /\ calls'[d] \in Calls \union {None}
               /\ calls'[d] # None => CallOK(calls'[d], kv')
    <2>1. CASE calls[d] = None
      BY <1>1, <2>1 DEF Overtaken
    <2>2. CASE calls[d] # None
      <3>1. calls[d] \in Calls /\ CallOK(calls[d], kv)
        BY <2>2 DEF Inv, TypeOK, CallsInv
      <3>2. calls'[d] = [calls[d] EXCEPT !.stale = @ \union S]
        BY <1>1, <2>2, NoneAssumption DEF Overtaken
      <3>. QED  BY <1>3, <3>1, <3>2, OvertakenCall
    <2>. QED  BY <2>1, <2>2
  <1>5. calls' \in [Clients -> Calls \union {None}]
    <2>1. calls' = [d \in Clients |-> calls'[d]]
      BY <1>1 DEF Overtaken
    <2>. QED  BY <1>4, <2>1
  <1>. QED  BY <1>2, <1>3, <1>4, <1>5, Preserved

\* The calls that read an entry and are to write it back.
LEMMA Reads ==
    ASSUME Inv, NEW c \in Clients, NEW f \in Fqdns,
           \/ \E ip \in Ips, m \in Members : SetMember(c, f, ip, m)
           \/ \E ip \in Ips : DeleteMember(c, f, ip)
           \/ \E hc \in Hcs : SetHealthCheck(c, f, hc)
           \/ GetHealthCheck(c, f)
    PROVE  Inv'
  <1>1. Exists(f) /\ kv[f] \in Entries /\ ValidEntry(kv[f])
    BY DEF SetMember, DeleteMember, SetHealthCheck, GetHealthCheck, Inv, TypeOK, StoredValid,
           Exists, ValidEntry
  <1>2. \A ips \in SUBSET Ips, hc \in BOOLEAN :
            About(ips, hc) \in [ips : SUBSET Ips, hc : BOOLEAN]
    BY DEF About
  <1>3. ASSUME NEW ips \in SUBSET Ips, NEW hc \in BOOLEAN, NEW e,
               e.hc # kv[f].hc => hc, \A ip \in Ips \ ips : e.members[ip] = kv[f].members[ip]
        PROVE  AsAsked(About(ips, hc), kv[f], e)
    <2>1. About(ips, hc).ips = ips /\ (About(ips, hc).hc <=> hc)
      BY DEF About
    <2>. QED  BY <1>3, <2>1, Requests DEF AsAsked
  <1>4. ASSUME NEW ips \in SUBSET Ips, NEW hc \in BOOLEAN, NEW e \in Entries, ValidEntry(e),
               AsAsked(About(ips, hc), kv[f], e), WillPut(c, f, e, About(ips, hc))
        PROVE  Inv'
    <2>. DEFINE a == About(ips, hc)
    <2>1. a \in [ips : SUBSET Ips, hc : BOOLEAN] /\ "scope" \notin DOMAIN a
      BY <1>2, Requests
    <2>2. AsAsked(a, kv[f], e) /\ WillPut(c, f, e, a)
      BY <1>4
    <2>. HIDE DEF a
    <2>. QED  BY <1>1, <1>4, <2>1, <2>2, NewPut
  <1>5. ASSUME NEW ip \in Ips, NEW m \in Members, SetMember(c, f, ip, m)
        PROVE  Inv'
    <2>. DEFINE e == [kv[f] EXCEPT !.members = [@ EXCEPT ![ip] = m]]
    <2>1. e \in Entries /\ e.hc = kv[f].hc /\ e.members = [kv[f].members EXCEPT ![ip] = m]
      BY <1>1 DEF Entries
    <2>2. ValidEntry(e) /\ \A i \in Ips \ {ip} : e.members[i] = kv[f].members[i]
      BY <1>1, <1>5, <2>1 DEF SetMember, InDCS, ValidEntry, Entries
    <2>3. WillPut(c, f, e, About({ip}, FALSE))
      BY <1>5 DEF SetMember
    <2>. HIDE DEF e
    <2>4. AsAsked(About({ip}, FALSE), kv[f], e)
      BY <1>3, <2>1, <2>2
    <2>. QED  BY <1>4, <2>1, <2>2, <2>3, <2>4
  <1>6. ASSUME NEW ip \in Ips, DeleteMember(c, f, ip)
        PROVE  Inv'
    <2>. DEFINE e == [kv[f] EXCEPT !.members = [@ EXCEPT ![ip] = None]]
    <2>1. e \in Entries /\ e.hc = kv[f].hc /\ e.members = [kv[f].members EXCEPT ![ip] = None]
      BY <1>1 DEF Entries
    <2>2. ValidEntry(e) /\ \A i \in Ips \ {ip} : e.members[i] = kv[f].members[i]
      BY <1>1, <2>1 DEF ValidEntry, Entries
    <2>3. WillPut(c, f, e, About({ip}, FALSE))
      BY <1>6 DEF DeleteMember
    <2>. HIDE DEF e
    <2>4. AsAsked(About({ip}, FALSE), kv[f], e)
      BY <1>3, <2>1, <2>2
    <2>. QED  BY <1>4, <2>1, <2>2, <2>3, <2>4
  <1>7. ASSUME NEW hc \in Hcs, SetHealthCheck(c, f, hc)
        PROVE  Inv'
    <2>. DEFINE e == [kv[f] EXCEPT !.hc = hc]
    <2>1. e \in Entries /\ e.hc = hc /\ e.members = kv[f].members
      BY <1>1 DEF Entries
    <2>2. ValidEntry(e)
      BY <1>1, <1>7, <2>1 DEF SetHealthCheck, ValidatePluginHealthCheck, ValidEntry
    <2>3. WillPut(c, f, e, About({}, TRUE))
      BY <1>7 DEF SetHealthCheck
    <2>. HIDE DEF e
    <2>4. AsAsked(About({}, TRUE), kv[f], e)
      BY <1>3, <2>1
    <2>. QED  BY <1>4, <2>1, <2>2, <2>3, <2>4
  <1>8. ASSUME GetHealthCheck(c, f)
        PROVE  Inv'
    <2>1. WillPut(c, f, kv[f], About({}, FALSE))
      BY <1>8 DEF GetHealthCheck
    <2>2. AsAsked(About({}, FALSE), kv[f], kv[f])
      BY <1>3
    <2>. QED  BY <1>1, <1>4, <2>1, <2>2
  <1>. QED  BY <1>5, <1>6, <1>7, <1>8

-----------------------------------------------------------------------------
(* Theorems *)

\* Every step keeps the invariant.
LEMMA Inductive == Inv /\ [Next]_vars => Inv'
  <1>. SUFFICES ASSUME Inv, [Next]_vars
                PROVE  Inv'
    OBVIOUS
  <1>1. ASSUME NEW f \in Fqdns, (\E e \in Entries : SetEntry(f, e)) \/ DeleteEntry(f)
        PROVE  Inv'
    BY <1>1, OneStep
  <1>2. ASSUME NEW c \in Clients, NEW r \in StatusRequests, SetMembersStatus(c, r)
        PROVE  Inv'
    BY <1>2, NewTxns
  <1>3. ASSUME NEW c \in Clients, Write(c) \/ Reply(c)
        PROVE  Inv'
    BY <1>3, Ends, Transaction DEF Write
  <1>4. CASE UNCHANGED vars
    BY <1>4 DEF vars, Inv, TypeOK, StoredValid, Exists, CallsInv, CallOK, Asked, Progress,
                Untouched, Applied
  <1>. QED  BY <1>1, <1>2, <1>3, <1>4, Reads DEF Next

\* Nothing is stored yet, and no call accepted.
LEMMA Initially == Init => Inv
  BY MaxAssumption DEF Init, Inv, TypeOK, StoredValid, Exists, CallsInv

\* The invariant holds of every reachable state.
THEOREM Invariant == Spec => []Inv
  BY Initially, Inductive, PTL DEF Spec

\* Every variable has its type, and a call is only ever to write whole entries:
\* no handler saves an entry it did not find.
THEOREM TypeCorrect == Spec => []TypeOK
  <1>1. Inv => TypeOK
    BY DEF Inv
  <1>. QED  BY <1>1, Invariant, PTL

\* Whatever is stored names known datacenters and plugins only, though calls
\* write long after they validated, and what other calls stored.
THEOREM StoredValidCorrect == Spec => []StoredValid
  <1>1. Inv => StoredValid
    BY DEF Inv
  <1>. QED  BY <1>1, Invariant, PTL

\* applyTx's transactions cover all the operations, whatever the remainder.
LEMMA TransactionsCover ==
    ASSUME NEW L \in Nat
    PROVE  /\ L \div MaxTransactions \in Nat
           /\ L <= (L \div MaxTransactions + 1) * MaxTransactions
  BY MaxAssumption

\* A reply without an error of SetMembersStatus tells the truth of all the
\* entries but those another call wrote, and those Consul refused.
LEMMA RepliedApplied == Inv => StatusApplied
  <1>. SUFFICES ASSUME Inv, NEW c \in Clients, calls[c] # None, calls[c].stage = "replied",
                       ~calls[c].failed,
                       NEW f \in calls[c].about.scope \ (calls[c].stale \union calls[c].refused),
                       Exists(f), NEW ip \in Ips, Selects(calls[c].about, ip, kv[f].members[ip])
                PROVE  kv[f].members[ip].disabled = calls[c].about.disabled
    BY DEF StatusApplied
  <1>. DEFINE k == calls[c]
  <1>1. k \in Calls /\ Progress(k, kv)
    BY DEF Inv, TypeOK, CallsInv, CallOK
  <1>2. f \in Names(k)
    BY <1>1 DEF Progress, Untouched, Exists
  <1>3. PICK n \in 1 .. Len(k.order) : k.order[n] = f
    BY <1>2 DEF Names
  <1>4. n <= k.next * MaxTransactions
    <2>1. k.next = Len(k.order) \div MaxTransactions + 1
      BY <1>1 DEF Progress
    <2>2. Len(k.order) \in Nat
      BY <1>1, LenProperties DEF Calls
    <2>3. Len(k.order) <= k.next * MaxTransactions /\ k.next \in Nat
      <3>. DEFINE L == Len(k.order)
      <3>1. L \in Nat /\ k.next = L \div MaxTransactions + 1
        BY <2>1, <2>2
      <3>. HIDE DEF L
      <3>2. L \div MaxTransactions \in Nat /\ L <= (L \div MaxTransactions + 1) * MaxTransactions
        BY <3>1, TransactionsCover
      <3>3. L <= k.next * MaxTransactions /\ k.next \in Nat
        BY <3>1, <3>2
      <3>. QED  BY <3>3 DEF L
    <2>. QED  BY <2>2, <2>3, MaxAssumption
  <1>5. kv[f] = k.new[f]
    BY <1>1, <1>3, <1>4 DEF Progress, Applied
  <1>. QED  BY <1>1, <1>2, <1>5 DEF Progress, SwitchedTo

\* When SetMembersStatus replies without an error, the members it selects have
\* the status asked for: no number of entries leaves some of them out.
THEOREM StatusAppliedCorrect == Spec => []StatusApplied
  BY RepliedApplied, Invariant, PTL

-----------------------------------------------------------------------------
(* Steps *)

\* A step of another client leaves a call where it is.
LEMMA OthersStay ==
    ASSUME Inv, NEW c \in Clients, calls[c] # None, NEW F \in SUBSET Fqdns,
           calls'[c] \in {calls[c], [calls[c] EXCEPT !.stale = @ \union F]}
    PROVE  ~Moves(c)
  <1>1. calls[c] \in Calls
    BY DEF Inv, TypeOK
  <1>2. [calls[c] EXCEPT !.stale = @ \union F] \in Calls
        /\ [calls[c] EXCEPT !.stale = @ \union F].next = calls[c].next
    BY <1>1 DEF Calls
  <1>. QED  BY <1>2, CallsAssumption DEF Moves

\* A call that writes what it is to write, of some of its names.
LEMMA WritesAsked ==
    ASSUME Inv, NEW c \in Clients, calls[c] # None, NEW S \in SUBSET Names(calls[c]),
           kv' = [f \in Fqdns |-> IF f \in S THEN calls[c].new[f] ELSE kv[f]],
           NEW f \in Fqdns \ calls[c].stale, kv'[f] # kv[f]
    PROVE  kv[f] # None /\ kv'[f] # None /\ AsAsked(calls[c].about, kv[f], kv'[f])
  <1>1. Asked(calls[c], kv)
    BY DEF Inv, CallsInv, CallOK
  <1>2. f \in S /\ kv'[f] = calls[c].new[f]
    OBVIOUS
  <1>. QED  BY <1>1, <1>2, EntriesAssumption DEF Asked

\* No call moves by another one's step, and a call's own writes are as asked.
LEMMA StepsAsAsked ==
    ASSUME Inv, [Next]_vars, NEW c \in Clients, Moves(c),
           NEW f \in Fqdns \ calls[c].stale, kv'[f] # kv[f]
    PROVE  kv[f] # None /\ kv'[f] # None /\ AsAsked(calls[c].about, kv[f], kv'[f])
  <1>. DEFINE Goal == kv[f] # None /\ kv'[f] # None /\ AsAsked(calls[c].about, kv[f], kv'[f])
  <1>1. calls[c] # None /\ calls[c] \in Calls /\ kv \in [Fqdns -> Entries \union {None}]
        /\ calls \in [Clients -> Calls \union {None}]
    BY DEF Moves, Inv, TypeOK
  <1>2. ASSUME NEW g \in Fqdns, (\E e \in Entries : SetEntry(g, e)) \/ DeleteEntry(g)
        PROVE  Goal
    <2>. DEFINE F == {g}
    <2>1. calls' = Overtaken(F, None) /\ F \in SUBSET Fqdns
      BY <1>2 DEF SetEntry, DeleteEntry
    <2>. HIDE DEF F
    <2>2. calls'[c] = [calls[c] EXCEPT !.stale = @ \union F]
      BY <1>1, <2>1, NoneAssumption DEF Overtaken
    <2>. QED  BY <1>1, <2>1, <2>2, OthersStay
  <1>3. ASSUME NEW d \in Clients, NEW g \in Fqdns,
               \/ \E ip \in Ips, m \in Members : SetMember(d, g, ip, m)
               \/ \E ip \in Ips : DeleteMember(d, g, ip)
               \/ \E hc \in Hcs : SetHealthCheck(d, g, hc)
               \/ GetHealthCheck(d, g)
        PROVE  Goal
    <2>1. kv' = kv
      BY <1>3 DEF SetMember, DeleteMember, SetHealthCheck, GetHealthCheck, WillPut
    <2>. QED  BY <2>1
  <1>4. ASSUME NEW d \in Clients, NEW r \in StatusRequests, SetMembersStatus(d, r)
        PROVE  Goal
    BY <1>4 DEF SetMembersStatus
  <1>5. ASSUME NEW d \in Clients, Put(d)
        PROVE  Goal
    <2>. DEFINE F == {calls[d].order[1]}
    <2>1. calls[d] # None /\ calls[d] \in Calls /\ Len(calls[d].order) = 1
          /\ calls' = [Overtaken(F, d) EXCEPT ![d] = None]
          /\ kv' = [kv EXCEPT ![calls[d].order[1]] = calls[d].new[calls[d].order[1]]]
      BY <1>5 DEF Put, Done, Inv, TypeOK, CallsInv, CallOK
    <2>2. F \in SUBSET Names(calls[d]) /\ F \in SUBSET Fqdns
      <3>1. calls[d].order \in Seq(Fqdns)
        BY <2>1 DEF Calls
      <3>. QED  BY <2>1, <3>1, ElementOfSeq DEF Names
    <2>3. kv' = [h \in Fqdns |-> IF h \in F THEN calls[d].new[h] ELSE kv[h]]
      BY <1>1, <2>1
    <2>. HIDE DEF F
    <2>4. CASE d = c
      <3>1. /\ calls[c] # None /\ F \in SUBSET Names(calls[c])
            /\ kv' = [h \in Fqdns |-> IF h \in F THEN calls[c].new[h] ELSE kv[h]]
        BY <1>1, <2>2, <2>3, <2>4
      <3>. QED  BY <3>1, WritesAsked
    <2>5. CASE d # c
      <3>1. calls'[c] = [calls[c] EXCEPT !.stale = @ \union F]
        BY <1>1, <2>1, <2>5 DEF Overtaken
      <3>. QED  BY <1>1, <2>2, <3>1, OthersStay
    <2>. QED  BY <2>4, <2>5
  <1>6. ASSUME NEW d \in Clients, NEW b \in BOOLEAN, Txn(d, b)
        PROVE  Goal
    <2>. DEFINE F == SubTxKeys(d)
                l == AfterTx(d, b, {})
    <2>1. calls[d] # None /\ calls[d] \in Calls
          /\ calls' = [Overtaken(F, d) EXCEPT ![d] = l]
          /\ kv' = [h \in Fqdns |-> IF h \in F THEN calls[d].new[h] ELSE kv[h]]
      BY <1>6 DEF Txn, Inv, TypeOK
    <2>2. F \in SUBSET Names(calls[d]) /\ F \in SUBSET Fqdns
      <3>1. calls[d].order \in Seq(Fqdns)
        BY <2>1 DEF Calls
      <3>. QED  BY <3>1, ElementOfSeq DEF SubTxKeys, SubTx, Names
    <2>. HIDE DEF F, l
    <2>3. CASE d = c
      BY <2>1, <2>2, <2>3, WritesAsked
    <2>4. CASE d # c
      <3>1. calls'[c] = [calls[c] EXCEPT !.stale = @ \union F]
        BY <1>1, <2>1, <2>4 DEF Overtaken
      <3>. QED  BY <1>1, <2>2, <3>1, OthersStay
    <2>. QED  BY <2>3, <2>4
  <1>7. ASSUME NEW d \in Clients,
               PutFails(d) \/ Reply(d) \/ \E b \in BOOLEAN : TxnNotApplied(d, b)
        PROVE  Goal
    BY <1>7 DEF PutFails, Reply, TxnNotApplied
  <1>8. CASE UNCHANGED vars
    BY <1>8 DEF vars
  <1>. QED  BY <1>2, <1>3, <1>4, <1>5, <1>6, <1>7, <1>8 DEF Next, Write

\* A call changes nothing of an entry but what was asked, and brings no deleted
\* entry back, unless another call wrote the entry since it was read.
THEOREM OnlyAskedCorrect == Spec => OnlyAsked
  <1>1. Inv /\ [Next]_vars =>
            [\A c \in Clients : Moves(c) =>
                \A f \in Fqdns \ calls[c].stale : kv'[f] # kv[f] =>
                    kv[f] # None /\ kv'[f] # None /\ AsAsked(calls[c].about, kv[f], kv'[f])]_vars
    BY StepsAsAsked
  <1>. QED  BY <1>1, Invariant, PTL DEF Spec, OnlyAsked
=============================================================================
