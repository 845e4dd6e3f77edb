--------------------------- MODULE LoadBalancers ---------------------------
(***************************************************************************)
(* lb: the load balancers of an entry, and how the goroutines that answer   *)
(* queries step through their method Next.  An entry has one for each of    *)
(* the three slots (preferred, alternate, fallback), made when the entry is *)
(* received from the catalog; several goroutines use them without a lock.   *)
(* RoundRobin counts with one atomic operation; WeightedRoundRobin loads    *)
(* and stores its position and its weight one by one.                       *)
(***************************************************************************)
EXTENDS GeoLoc, Integers, FiniteSets

CONSTANTS Goroutines,
          Half           \* an Int32 is in -Half .. Half - 1 (2^31 in the code)

ASSUME HalfAssumption == Half \in Nat /\ Half > 2
Int32s == -Half .. Half - 1

VARIABLES
    refs,     \* the entries received, each with its load balancers (never collected)
    queries   \* the query each goroutine answers

Slots == 1 .. 3
Types == {"All", "Ipv4", "Ipv6"}

OfType(e, t) == CASE t = "All" -> e.ipv4 \o e.ipv6 [] t = "Ipv4" -> e.ipv4 [] t = "Ipv6" -> e.ipv6

\* MakeLb: the state of a load balancer, by type of members.  served and raced
\* are histories: the times each member was answered, whether two calls of
\* nextMember overlapped.
NewLb(e) == [t \in Types |->
    [number |-> -1, index |-> -1, currentWeight |-> 0,
     served |-> [i \in 1 .. Len(OfType(e, t)) |-> 0], raced |-> FALSE]]
NewRef(e) == [entry |-> e, lbs |-> [s \in Slots |-> NewLb(e)]]

\* What goroutine g is working with.
Q(g) == queries[g]
At(g, pc) == Q(g).pc = pc
EntryOf(g) == refs[Q(g).ref].entry
Lb(g) == refs[Q(g).ref].lbs[Q(g).slot][Q(g).type]
Key(g) == <<Q(g).ref, Q(g).slot, Q(g).type>>
Ms(g) == OfType(EntryOf(g), Q(g).type)
Calls(g, algo) == At(g, "next") /\ EntryOf(g).algos[Q(g).slot] = algo

SetLb(g, b) == refs' = [refs EXCEPT ![Q(g).ref].lbs[Q(g).slot][Q(g).type] = b]
Serve(b, i) == [b EXCEPT !.served[i] = @ + 1]

\* Next returns a member, nil (no member, no error) or an error.
Returns(g, result) == queries' = [queries EXCEPT ![g].pc = "returned", ![g].result = result]
Goes(g, pc) == queries' = [queries EXCEPT ![g].pc = pc]
Nil == [kind |-> "nil"]
Error == [kind |-> "error"]
Member(m) == [kind |-> "member", member |-> m]

-----------------------------------------------------------------------------
RandomNext(g) ==
    /\ Calls(g, "RANDOM")
    /\ \/ Ms(g) = <<>> /\ Returns(g, Nil)
       \/ \E i \in 1 .. Len(Ms(g)) : Returns(g, Member(Ms(g)[i]))
    /\ UNCHANGED <<refs, cachedLoc>>

-----------------------------------------------------------------------------
\* Int32 wraps around; Go's remainder has the sign of n.
Int32(n) == IF n >= Half THEN n - 2 * Half ELSE IF n < -Half THEN n + 2 * Half ELSE n
\* Mutant: the last member is forgotten.
RemainderShort(n, d) == IF d = 1 THEN 0 ELSE n % (d - 1)
Remainder(n, d) == IF n >= 0 THEN n % d ELSE -((-n) % d)

\* An index below 0 is a panic, which ends the process.
RoundRobinNext(g) ==
    /\ Calls(g, "ROUND_ROBIN")
    /\ IF Ms(g) = <<>>
       THEN Returns(g, Nil) /\ UNCHANGED refs
       ELSE LET number == Int32(Lb(g).number + 1)
                i == Remainder(number, Len(Ms(g))) + 1
            IN  IF i \in 1 .. Len(Ms(g))
                THEN /\ SetLb(g, Serve([Lb(g) EXCEPT !.number = number], i))
                     /\ Returns(g, Member(Ms(g)[i]))
                ELSE SetLb(g, [Lb(g) EXCEPT !.number = number]) /\ Goes(g, "panic")
    /\ UNCHANGED cachedLoc

-----------------------------------------------------------------------------
DcsOf(ms) == {ms[i].dc : i \in 1 .. Len(ms)}                   \* extractDc
InDc(ms, dc) == {i \in 1 .. Len(ms) : ms[i].dc = dc}           \* membersToMapDc

\* Next of Topology once FindDc has returned dc, or an error.
PickInDc(g, dc) ==
    \/ InDc(Ms(g), dc) = {} /\ Returns(g, Error)
    \/ \E i \in InDc(Ms(g), dc) : Returns(g, Member(Ms(g)[i]))

\* FindDc looks into its cache ...
TopologyNext(g) ==
    /\ Calls(g, "TOPOLOGY")
    /\ IF cachedLoc[Q(g).addr] # None THEN PickInDc(g, cachedLoc[Q(g).addr]) ELSE Goes(g, "locate")
    /\ UNCHANGED <<refs, cachedLoc>>

\* ... and, when the address is not there, locates it among the entry's
\* datacenters.
TopologyLocate(g) ==
    /\ At(g, "locate")
    /\ LET dc == Locate(Q(g).addr, DcsOf(Ms(g)))
       IN  StoreLoc(Q(g).addr, dc) /\ PickInDc(g, dc)
    /\ UNCHANGED refs

-----------------------------------------------------------------------------
(* WeightedRoundRobin.  A member without a ratio weighs 1 in the greatest    *)
(* common divisor and in the maximum, which is the first member's weight.   *)

Weight(m) == IF m.ratio = 0 THEN 1 ELSE m.ratio
\* Mutant: every member replaces the maximum.
MaxWeightLast(ms) == Weight(ms[Len(ms)])
MaxWeight(ms) == Weight(ms[1])
Divides(d, ms) == \A i \in 1 .. Len(ms) : Weight(ms[i]) % d = 0
GcdOf(ms) == CHOOSE d \in 1 .. MaxWeight(ms) :
    Divides(d, ms) /\ \A e \in 1 .. MaxWeight(ms) : Divides(e, ms) => e <= d

NextMemberPcs ==
    {"storeIndex", "loadWeight", "storeWeight", "check", "reset", "recheck", "compare", "loop"}
InNextMember(g) == Q(g).pc \in NextMemberPcs
Together(g) == \E h \in Goroutines \ {g} :
    InNextMember(h) /\ Key(h) = Key(g)

WeightedNext(g) ==
    /\ Calls(g, "RATIO")
    /\ IF Len(Ms(g)) <= 1
       THEN /\ Returns(g, IF Ms(g) = <<>> THEN Nil ELSE Member(Ms(g)[1]))
            /\ UNCHANGED refs
       ELSE /\ queries' = [queries EXCEPT ![g].pc = "loop", ![g].turns = 0]
            /\ SetLb(g, [Lb(g) EXCEPT !.raced = @ \/ Together(g)])
    /\ UNCHANGED cachedLoc

\* Mutant: the index does not wrap around.
NextIndexUnbounded(g) == Lb(g).index + 1
NextIndex(g) == (Lb(g).index + 1) % Len(Ms(g))

LoadIndex(g) ==
    /\ At(g, "loop")
    /\ queries' = [queries EXCEPT ![g].pc = "storeIndex", ![g].new = NextIndex(g),
                                  ![g].turns = IF @ <= Len(Ms(g)) THEN @ + 1 ELSE @]
    /\ UNCHANGED <<refs, cachedLoc>>

StoreIndex(g) ==
    /\ At(g, "storeIndex")
    /\ SetLb(g, [Lb(g) EXCEPT !.index = Q(g).new])
    /\ Goes(g, IF Q(g).new = 0 THEN "loadWeight" ELSE "compare")
    /\ UNCHANGED cachedLoc

\* The goroutine is at the first member again: the weight goes down by gcd ...
LoadWeight(g) ==
    /\ At(g, "loadWeight")
    /\ queries' = [queries EXCEPT ![g].pc = "storeWeight",
                                  ![g].weight = Int32(Lb(g).currentWeight - GcdOf(Ms(g)))]
    /\ UNCHANGED <<refs, cachedLoc>>

StoreWeight(g) ==
    /\ At(g, "storeWeight")
    /\ SetLb(g, [Lb(g) EXCEPT !.currentWeight = Q(g).weight])
    /\ Goes(g, "check")
    /\ UNCHANGED cachedLoc

\* ... and starts from the maximum again when it is used up.
CheckWeight(g) ==
    /\ At(g, "check")
    /\ Goes(g, IF Lb(g).currentWeight <= 0 THEN "reset" ELSE "compare")
    /\ UNCHANGED <<refs, cachedLoc>>

ResetWeight(g) ==
    /\ At(g, "reset")
    /\ SetLb(g, [Lb(g) EXCEPT !.currentWeight = MaxWeight(Ms(g))])
    /\ Goes(g, "recheck")
    /\ UNCHANGED cachedLoc

RecheckWeight(g) ==
    /\ At(g, "recheck")
    /\ IF Lb(g).currentWeight = 0 THEN Returns(g, Nil) ELSE Goes(g, "compare")
    /\ UNCHANGED <<refs, cachedLoc>>

\* Mutant: a ratio equal to the weight is too small.
HeavyStrict(g) == Lb(g).currentWeight >= 0 /\ Ms(g)[Q(g).new + 1].ratio > Lb(g).currentWeight

\* The ratio is compared with the weight as an unsigned integer: one below 0 is
\* more than any ratio.
Heavy(g) == Lb(g).currentWeight >= 0 /\ Ms(g)[Q(g).new + 1].ratio >= Lb(g).currentWeight

CompareWeight(g) ==
    /\ At(g, "compare")
    /\ IF Heavy(g)
       THEN /\ SetLb(g, Serve(Lb(g), Q(g).new + 1))
            /\ Returns(g, Member(Ms(g)[Q(g).new + 1]))
       ELSE /\ Goes(g, "loop")
            /\ UNCHANGED refs
    /\ UNCHANGED cachedLoc

NextStep(g) ==
    \/ RandomNext(g) \/ RoundRobinNext(g) \/ TopologyNext(g) \/ TopologyLocate(g)
    \/ WeightedNext(g) \/ LoadIndex(g) \/ StoreIndex(g) \/ LoadWeight(g) \/ StoreWeight(g)
    \/ CheckWeight(g) \/ ResetWeight(g) \/ RecheckWeight(g) \/ CompareWeight(g)
=============================================================================
