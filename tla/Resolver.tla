------------------------------ MODULE Resolver ------------------------------
(***************************************************************************)
(* resolvers.GSLBHandler: how DNS queries for one name are answered from    *)
(* the entry that the catalog's events set and remove.  A query takes the   *)
(* entry once; it asks the preferred load balancer, the alternate one when  *)
(* that fails and the fallback at last, as often as the entry wants         *)
(* answers.                                                                 *)
(***************************************************************************)
EXTENDS LoadBalancers

CONSTANTS
    Members,         \* the members of entries
    CatalogEntries,  \* the entries that catalog events may carry
    QueryTypes,      \* of Types: what clients ask for
    MaxSets,         \* bound: SetCatalogEntry events
    MaxQueries       \* bound: queries

\* Ratios are what a member may weigh as an int32.
Algos == {"RANDOM", "ROUND_ROBIN", "TOPOLOGY", "RATIO"}
ASSUME EntriesAssumption ==
    /\ \A m \in Members : m.ratio \in 0 .. Half - 1
    /\ \A e \in CatalogEntries :
          /\ e.ipv4 \in Seq(Members) /\ e.ipv6 \in Seq(Members)
          /\ e.algos \in [Slots -> Algos] /\ e.maxAnswers \in Nat
    /\ QueryTypes \subseteq Types

VARIABLES
    current,         \* the element of refs that entries holds for the name, or 0
    nbQueries

vars == <<cachedLoc, refs, queries, current, nbQueries>>

Idle == [pc |-> "idle", type |-> "Ipv4", addr |-> None, ref |-> 0, slot |-> 1,
         left |-> 0, answers |-> {}, result |-> Nil, new |-> 0, weight |-> 0, turns |-> 0]

Init ==
    /\ cachedLoc = [a \in Addrs |-> None]
    /\ refs = <<>>
    /\ current = 0
    /\ queries = [g \in Goroutines |-> Idle]
    /\ nbQueries = 0

SetCatalogEntry(e) ==
    /\ Len(refs) < MaxSets
    /\ refs' = Append(refs, NewRef(e))
    /\ current' = Len(refs')
    /\ UNCHANGED <<cachedLoc, queries, nbQueries>>

RemoveCatalogEntry ==
    /\ current # 0
    /\ current' = 0
    /\ UNCHANGED <<cachedLoc, refs, queries, nbQueries>>

\* Resolve finds the entry; findMembers is to get as many members as wanted.
Resolve(g, t, a) ==
    /\ nbQueries < MaxQueries
    /\ nbQueries' = nbQueries + 1
    /\ At(g, "idle")
    /\ current # 0
    /\ LET max == refs[current].entry.maxAnswers
       IN  queries' = [queries EXCEPT ![g] =
              [Idle EXCEPT !.pc = "next", !.type = t, !.addr = a, !.ref = current,
                           !.left = IF max <= 1 THEN 1 ELSE max]]
    /\ UNCHANGED <<cachedLoc, refs, current>>

\* findMember has its member, or nil, which has no error and counts as one;
\* the members are collected by address.
GotMember(g) ==
    /\ At(g, "returned")
    /\ Q(g).result # Error
    /\ queries' = [queries EXCEPT ![g].answers = @ \union {Q(g).result},
                                  ![g].left = @ - 1,
                                  ![g].slot = 1,
                                  ![g].pc = IF Q(g).left = 1 THEN "answer" ELSE "next"]
    /\ UNCHANGED <<cachedLoc, refs, current, nbQueries>>

\* Mutant: the alternate load balancer is the last resort.
GotErrorNoFallback(g) ==
    /\ At(g, "returned")
    /\ Q(g).result = Error
    /\ queries' = IF Q(g).slot = 2 THEN [queries EXCEPT ![g].pc = "failed"]
                  ELSE [queries EXCEPT ![g].pc = "next", ![g].slot = @ + 1]
    /\ UNCHANGED <<cachedLoc, refs, current, nbQueries>>

\* Mutant: the previous error is not passed on, the preferred one is asked again.
GotErrorRetries(g) ==
    /\ At(g, "returned")
    /\ Q(g).result = Error
    /\ Goes(g, "next")
    /\ UNCHANGED <<cachedLoc, refs, current, nbQueries>>

\* The next load balancer is asked, or there is none and the query fails.
GotError(g) ==
    /\ At(g, "returned")
    /\ Q(g).result = Error
    /\ queries' = IF Q(g).slot = 3 THEN [queries EXCEPT ![g].pc = "failed"]
                  ELSE [queries EXCEPT ![g].pc = "next", ![g].slot = @ + 1]
    /\ UNCHANGED <<cachedLoc, refs, current, nbQueries>>

\* The records of the answer: none of a query that failed, for a nil member or of
\* the type ANY, which has no presentation format that dns.NewRR could read.
Answered(g) ==
    {r.member.ip : r \in {x \in Q(g).answers \ {Nil} : At(g, "answer") /\ Q(g).type # "All"}}
Answer(g) ==
    /\ Q(g).pc \in {"answer", "failed"}
    /\ queries' = [queries EXCEPT ![g] = Idle]
    /\ UNCHANGED <<cachedLoc, refs, current, nbQueries>>

Step(g) ==
    \/ NextStep(g) /\ UNCHANGED <<current, nbQueries>>
    \/ GotMember(g) \/ GotError(g) \/ Answer(g)

\* A panic of any goroutine ends the process.
Panicked == \E g \in Goroutines : At(g, "panic")
Next ==
    /\ ~Panicked
    /\ \/ \E e \in CatalogEntries : SetCatalogEntry(e)
       \/ RemoveCatalogEntry
       \/ \E g \in Goroutines : Step(g) \/ \E t \in QueryTypes, a \in Addrs : Resolve(g, t, a)

Spec == Init /\ [][Next]_vars

\* The goroutine of a query keeps running.
FairSpec == Spec /\ \A g \in Goroutines : WF_vars(~Panicked /\ Step(g))

-----------------------------------------------------------------------------
(* Properties *)

Raced(g) == Q(g).ref # 0 /\ \E s \in Slots : refs[Q(g).ref].lbs[s][Q(g).type].raced
LbAt(r, s, t) == refs[r].lbs[s][t]
MembersAt(r, t) == OfType(refs[r].entry, t)
Lbs(algo) == {l \in (1 .. Len(refs)) \X Slots \X Types : refs[l[1]].entry.algos[l[2]] = algo}

Results == {Nil, Error} \union {Member(m) : m \in Members}
Pcs == NextMemberPcs \union {"idle", "next", "locate", "returned", "answer", "failed", "panic"}
LbStates == [number : Int32s, index : Int, currentWeight : Int32s, served : Seq(Nat), raced : BOOLEAN]
Refs == [entry : CatalogEntries, lbs : [Slots -> [Types -> LbStates]]]
Queries == [pc : Pcs, type : Types, addr : Addrs \union {None}, ref : Nat, slot : Slots,
            left : Nat, answers : SUBSET (Results \ {Error}), result : Results, new : Nat,
            weight : Int32s, turns : Nat]

IndexOK(r, s, t) ==
    /\ LbAt(r, s, t).index \in -1 .. Len(MembersAt(r, t)) - 1
    /\ DOMAIN LbAt(r, s, t).served = 1 .. Len(MembersAt(r, t))
QueryTypeOK(g) ==
    Q(g).pc # "idle" =>
        /\ Q(g).ref \in 1 .. Len(refs) /\ Q(g).addr \in Addrs 
        /\ ~At(g, "answer") => Q(g).left # 0
        /\ Q(g).new = 0 \/ Q(g).new < Len(Ms(g))
        /\ InNextMember(g) => Len(Ms(g)) > 1

\* Every variable has its type.  However many goroutines use a load balancer
\* without a lock, its position is that of one of its members, and so is the
\* one each goroutine computed and has not used yet.
TypeOK ==
    /\ cachedLoc \in [Addrs -> Dcs \union {None}]
    /\ refs \in Seq(Refs) /\ current \in 0 .. Len(refs) /\ nbQueries \in Nat
    /\ queries \in [Goroutines -> Queries]
    /\ \A r \in 1 .. Len(refs), s \in Slots, t \in Types : IndexOK(r, s, t)
    /\ \A g \in Goroutines : QueryTypeOK(g)

\* However many goroutines ask it, a round robin answers all members equally
\* often, up to one answer, as long as its counter has not overflowed.
RoundRobinFair ==
    \A l \in Lbs("ROUND_ROBIN") :
        LET b == LbAt(l[1], l[2], l[3])
        IN  b.number >= -1 => \A i, j \in DOMAIN b.served : b.served[i] <= b.served[j] + 1

\* A weighted round robin that was never asked by two goroutines at once and
\* has come to the end of a cycle answered its members in the proportion of
\* their ratios.
InProgress(l) ==
    \E g \in Goroutines : InNextMember(g) /\ Key(g) = l
EndOfCycle(l) ==
    LET b == LbAt(l[1], l[2], l[3]) ms == MembersAt(l[1], l[3])
    IN  /\ ~InProgress(l) /\ ~b.raced
        /\ Len(ms) > 1 /\ b.index = Len(ms) - 1 /\ b.currentWeight = GcdOf(ms)
Proportional(l) ==
    LET b == LbAt(l[1], l[2], l[3]) ms == MembersAt(l[1], l[3])
    IN  \A i, j \in 1 .. Len(ms) : b.served[i] * ms[j].ratio = b.served[j] * ms[i].ratio
RatiosAnswered == \A l \in Lbs("RATIO") : EndOfCycle(l) => Proportional(l)

\* The same where the first member has the largest ratio and none is 0.
FirstIsHeaviest(l) ==
    LET ms == MembersAt(l[1], l[3])
    IN  \A i \in 1 .. Len(ms) : ms[i].ratio \in 1 .. ms[1].ratio
HeaviestFirstAnswered ==
    \A l \in Lbs("RATIO") : EndOfCycle(l) /\ FirstIsHeaviest(l) => Proportional(l)

\* A weighted round robin that was never asked by two goroutines at once and
\* has a member with a ratio finds the one to answer in one turn of its members.
BoundedTurns ==
    \A g \in Goroutines :
        InNextMember(g) /\ ~Lb(g).raced /\ (\E i \in 1 .. Len(Ms(g)) : Ms(g)[i].ratio # 0)
            => Q(g).turns <= Len(Ms(g))

\* An A or AAAA query for which the entry has members is answered with one of them
\* at least, whatever fails before the last resort: topology is the only load
\* balancer that fails, and a weighted one that was used by two goroutines at
\* once the only one that returns no member.
AnsweredWhenPossible ==
    \A g \in Goroutines :
        /\ Q(g).pc \in {"answer", "failed"}
        /\ Q(g).type # "All" /\ Ms(g) # <<>>
        /\ \E s \in Slots : EntryOf(g).algos[s] # "TOPOLOGY"
        /\ ~Raced(g)
        => Answered(g) # {}

\* The inductive invariant behind RoundRobinFair: member i was answered for
\* each of 0 .. number that is i - 1 modulo n; after the counter has overflowed
\* it makes a negative index at once, or is about to, if there are two members.
Share(number, n, i) == (number - i + 1) \div n + 1
Counted(b, n) == b.number >= -1 /\ \A i \in 1 .. n : b.served[i] = Share(b.number, n, i)
Overflowed(b, n) ==
    b.number < -1 /\ (Panicked \/ (b.number = -Half /\ Half % n = 0))
FairInv ==
    \A r \in 1 .. Len(refs), s \in Slots, t \in Types :
        LET b == LbAt(r, s, t) n == Len(MembersAt(r, t))
        IN  refs[r].entry.algos[s] = "ROUND_ROBIN" /\ n > 1 => Counted(b, n) \/ Overflowed(b, n)

\* The inductive invariant behind AnsweredWhenPossible: which load balancers a
\* query has passed, and why; and two goroutines in one of them are noticed.
QueryOK(g) ==
    Q(g).pc # "idle" =>
        /\ \A s \in 1 .. Q(g).slot - 1 : EntryOf(g).algos[s] = "TOPOLOGY"
        /\ At(g, "locate") => EntryOf(g).algos[Q(g).slot] = "TOPOLOGY"
        /\ InNextMember(g) => EntryOf(g).algos[Q(g).slot] = "RATIO"
        /\ At(g, "returned") /\ Q(g).result = Error => EntryOf(g).algos[Q(g).slot] = "TOPOLOGY"
        /\ At(g, "failed") => \A s \in Slots : EntryOf(g).algos[s] = "TOPOLOGY"
        /\ (At(g, "returned") /\ Q(g).result = Nil) \/ Nil \in Q(g).answers =>
              Ms(g) = <<>> \/ Raced(g)
        /\ At(g, "answer") => Q(g).answers # {}
        /\ At(g, "recheck") => Lb(g).raced \/ Lb(g).currentWeight = MaxWeight(Ms(g))
Noticed(g, h) == InNextMember(g) /\ InNextMember(h) /\ Key(g) = Key(h) => Lb(g).raced
AnswerInv ==
    /\ \A g \in Goroutines : QueryOK(g)
    /\ \A g, h \in Goroutines : g # h => Noticed(g, h)

\* The inductive invariant behind HeaviestFirstAnswered and BoundedTurns.  The
\* weight is a multiple of gcd, at most the maximum.  Where the first member is
\* the heaviest, each of the first k members has been met at every weight down
\* to w since the last of c cycles, the others down to the one before w, and
\* has been answered whenever its ratio was not below the weight.
Level(ms, w) == w \in GcdOf(ms) .. MaxWeight(ms) /\ w % GcdOf(ms) = 0
HeaviestFirst(ms) == \A i \in 1 .. Len(ms) : ms[i].ratio \in 1 .. ms[1].ratio
Beyond(r, w, d) == IF r >= w THEN r - w + d ELSE 0
MetBy(ms, i, w, k) == Beyond(ms[i].ratio, IF i <= k THEN w ELSE w + GcdOf(ms), GcdOf(ms))
Met(b, ms, w, k) ==
    HeaviestFirst(ms) =>
        \E c \in 0 .. b.served[1] : \A i \in 1 .. Len(ms) :
            GcdOf(ms) * b.served[i] = c * ms[i].ratio + MetBy(ms, i, w, k)
Reached(b, ms, w, k) ==
    IF w <= 0 THEN Met(b, ms, MaxWeight(ms), 0) ELSE Level(ms, w) /\ Met(b, ms, w, k)
Resting(b, ms) ==
    /\ b.currentWeight >= 0
    /\ b.index = -1 <=> b.currentWeight = 0
    /\ Reached(b, ms, b.currentWeight, b.index + 1)

\* A member as heavy as the maximum is answered when the position reaches it:
\* turns counts the members met since the call began, and since the position was
\* at j at most those between.
Since(p, j, ms) == IF p >= j THEN p - j ELSE p - j + Len(ms)
Turns(b, ms, pc, new, turns) ==
    \A j \in 1 .. Len(ms) : ms[j].ratio >= MaxWeight(ms) =>
        turns <= IF pc = "loop" THEN Since(b.index + 1, j, ms)
                 ELSE Since(IF pc = "storeIndex" THEN b.index + 1 ELSE new, j, ms) + 1

\* What holds of b while a goroutine is at pc in nextMember.
Weighed(b, ms, pc, new, weight) ==
    LET w == b.currentWeight
    IN  /\ pc \in {"loop", "storeIndex"} => Resting(b, ms)
        /\ pc = "storeIndex" => new = (b.index + 1) % Len(ms)
        /\ pc \notin {"loop", "storeIndex"} => new = b.index
        /\ pc \in {"loadWeight", "storeWeight", "check", "reset", "recheck"} => new = 0
        /\ pc = "loadWeight" => w >= 0 /\ Reached(b, ms, w, Len(ms))
        /\ pc = "storeWeight" => Reached(b, ms, weight, 0)
        /\ pc \in {"check", "reset"} => Reached(b, ms, w, 0)
        /\ pc = "reset" => w <= 0
        /\ pc = "recheck" => w = MaxWeight(ms)
        /\ pc \in {"recheck", "compare"} => w > 0 /\ Reached(b, ms, w, new)
WeighedOK(l) ==
    LET b == LbAt(l[1], l[2], l[3]) ms == MembersAt(l[1], l[3])
    IN  Len(ms) > 1 /\ ~b.raced =>
        /\ ~InProgress(l) => Resting(b, ms)
        /\ \A g \in Goroutines : InNextMember(g) /\ Key(g) = l =>
              /\ Weighed(b, ms, Q(g).pc, Q(g).new, Q(g).weight)
              /\ Turns(b, ms, Q(g).pc, Q(g).new, Q(g).turns)
WeightInv == \A l \in Lbs("RATIO") : WeighedOK(l)

\* What is proved about all of it.
Inv == TypeOK /\ FairInv /\ AnswerInv

\* Topology answers a member of the datacenter located for the client among
\* those of the members, and fails only when there is none.
TopologyNearest ==
    \A g \in Goroutines :
        At(g, "returned") /\ EntryOf(g).algos[Q(g).slot] = "TOPOLOGY" =>
            LET dc == Locate(Q(g).addr, DcsOf(Ms(g)))
            IN  IF Q(g).result = Error THEN dc = None ELSE Q(g).result.member.dc = dc

\* Every query ends: no load balancer keeps a goroutine for ever, if it is not
\* a weighted one that two of them used at once.
QueriesEnd == \A g \in Goroutines : At(g, "next") ~> (At(g, "idle") \/ Raced(g))
=============================================================================
