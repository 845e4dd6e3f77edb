---------------------------- MODULE ResolverProofs ----------------------------
(* What Resolver guarantees for any entries, members, clients, datacenters    *)
(* and number of goroutines.                                                  *)
EXTENDS Resolver, SequenceTheorems, WellFoundedInduction, TLAPS

-----------------------------------------------------------------------------
(* Numbers *)

\* A set of natural numbers has a least one.
LEMMA Least ==
    ASSUME NEW T, T \subseteq Nat, T # {}
    PROVE  \E x \in T : \A y \in T : x <= y
  <1> DEFINE R == {ss \in Nat \X Nat : ss[1] < ss[2]}
  <1>1. IsWellFoundedOn(R, Nat)
    BY NatLessThanWellFounded DEF OpToRel
  <1>. HIDE DEF R
  <1>2. PICK x \in T : \A y \in T : ~ (<<y, x>> \in R)
    BY <1>1, WFMin
  <1>3. \A y \in T : ~(y < x)
    BY <1>2 DEF R
  <1>. QED  BY <1>3

\* A multiple of n between -n and n is 0.
LEMMA SmallMultiple ==
    ASSUME NEW n \in Nat \ {0}, NEW k \in Int, -n < n * k, n * k < n
    PROVE  k = 0
  <1>1. k >= 1 => n * k >= n
    BY SMT
  <1>2. k <= -1 => n * k <= -n
    BY SMT
  <1>. QED  BY <1>1, <1>2

LEMMA DivMod ==
    ASSUME NEW a \in Int, NEW n \in Nat \ {0}
    PROVE  /\ a \div n \in Int /\ a % n \in 0 .. n - 1
           /\ a = n * (a \div n) + (a % n)
  BY SMT

LEMMA DivUnique ==
    ASSUME NEW a \in Int, NEW n \in Nat \ {0}, NEW q \in Int, NEW r \in 0 .. n - 1, a = n * q + r
    PROVE  a \div n = q /\ a % n = r
  <1> DEFINE d == a \div n
             m == a % n
  <1>1. d \in Int /\ m \in 0 .. n - 1 /\ a = n * d + m
    BY DivMod
  <1>. HIDE DEF d, m
  <1>2. n * (q - d) = m - r
    BY <1>1, SMT
  <1>3. q - d = 0
    BY <1>1, <1>2, SmallMultiple
  <1>. QED  BY <1>1, <1>3 DEF d, m

\* One more count adds one to the share of the member it falls on.
LEMMA ShareStep ==
    ASSUME NEW a \in Int, NEW n \in Nat \ {0}, NEW i \in 1 .. n
    PROVE  /\ Share(a, n, i) \in Int
           /\ Share(a + 1, n, i) = IF i = ((a + 1) % n) + 1 THEN Share(a, n, i) + 1 ELSE Share(a, n, i)
  <1> DEFINE x == a - i + 1
             d == x \div n
             m == x % n
  <1>0. x \in Int
    OBVIOUS
  <1>. HIDE DEF x
  <1>1. x \in Int /\ d \in Int /\ m \in 0 .. n - 1 /\ x = n * d + m
    BY <1>0, DivMod
  <1>. HIDE DEF d, m
  <1>2. CASE m = n - 1
    <2>1. x + 1 = n * (d + 1) + 0
      BY <1>1, <1>2, SMT
    <2>2. (x + 1) \div n = d + 1
      BY <2>1, <1>1, DivUnique
    <2>3. a + 1 = n * (d + 1) + (i - 1)
      BY <2>1, <1>1, SMT DEF x
    <2>4. (a + 1) % n = i - 1
      <3>1. a + 1 \in Int /\ d + 1 \in Int /\ i - 1 \in 0 .. n - 1
        BY <1>1
      <3>. QED  BY <2>3, <3>1, DivUnique
    <2>. QED  BY <2>2, <2>4, <1>1 DEF Share, x, d
  <1>3. CASE m # n - 1
    <2>1. x + 1 = n * d + (m + 1) /\ m + 1 \in 0 .. n - 1
      BY <1>1, <1>3, SMT
    <2>2. (x + 1) \div n = d
      BY <2>1, <1>1, DivUnique
    <2>3. i # ((a + 1) % n) + 1
      <3>1. SUFFICES ASSUME i = ((a + 1) % n) + 1  PROVE FALSE
        OBVIOUS
      <3>2. (a + 1) \div n \in Int /\ a + 1 = n * ((a + 1) \div n) + (i - 1)
        BY <3>1, DivMod
      <3>3. x + 1 = n * ((a + 1) \div n) + 0
        BY <3>2 DEF x
      <3>4. (x + 1) % n = 0
        <4>1. 0 \in 0 .. n - 1 /\ x + 1 \in Int
          BY <1>1
        <4>. QED  BY <3>2, <3>3, <4>1, DivUnique
      <3>5. (x + 1) % n = m + 1
        <4>1. x + 1 \in Int
          BY <1>1
        <4>. QED  BY <2>1, <1>1, <4>1, DivUnique
      <3>. QED  BY <3>4, <3>5, <1>1
    <2>. QED  BY <2>2, <2>3, <1>1 DEF Share, x, d
  <1>. QED  BY <1>2, <1>3

LEMMA ShareStart ==
    ASSUME NEW n \in Nat \ {0}, NEW i \in 1 .. n
    PROVE  Share(-1, n, i) = 0
  <1>1. -1 - i + 1 = n * (-1) + (n - i) /\ n - i \in 0 .. n - 1
    BY SMT
  <1>2. (-1 - i + 1) \div n = -1
    BY <1>1, DivUnique
  <1>. QED  BY <1>2 DEF Share

\* Shares differ by one at most.
LEMMA ShareFair ==
    ASSUME NEW a \in Int, NEW n \in Nat \ {0}, NEW i \in 1 .. n, NEW j \in 1 .. n
    PROVE  Share(a, n, i) <= Share(a, n, j) + 1
  <1> DEFINE x == a - i + 1
             y == a - j + 1
  <1>0. x \in Int /\ y \in Int /\ x - y < n
    OBVIOUS
  <1>. HIDE DEF x, y
  <1>1. /\ x \in Int /\ y \in Int /\ x - y < n
        /\ x \div n \in Int /\ x % n \in 0 .. n - 1 /\ x = n * (x \div n) + (x % n)
        /\ y \div n \in Int /\ y % n \in 0 .. n - 1 /\ y = n * (y \div n) + (y % n)
    BY <1>0, DivMod
  <1>2. n * (x \div n) - n * (y \div n) < 2 * n
    BY <1>1
  <1>3. ASSUME x \div n >= y \div n + 2  PROVE FALSE
    <2>1. n * (x \div n) >= n * (y \div n) + 2 * n
      BY <1>1, <1>3, SMT
    <2>. QED  BY <2>1, <1>1, <1>2
  <1>. QED  BY <1>1, <1>3 DEF Share, x, y

-----------------------------------------------------------------------------
(* Weights *)

LEMMA WeightType ==
    ASSUME NEW ms \in Seq(Members), NEW i \in 1 .. Len(ms)
    PROVE  ms[i].ratio \in 0 .. Half - 1 /\ Weight(ms[i]) \in 1 .. Half - 1
  <1>1. ms[i] \in Members
    BY ElementOfSeq
  <1>. QED  BY <1>1, EntriesAssumption, HalfAssumption DEF Weight

\* The weights have a greatest common divisor, and it is no more than the first.
LEMMA GcdType ==
    ASSUME NEW ms \in Seq(Members), Len(ms) > 1
    PROVE  /\ MaxWeight(ms) \in 1 .. Half - 1 /\ GcdOf(ms) \in 1 .. MaxWeight(ms)
           /\ Divides(GcdOf(ms), ms)
  <1>1. Len(ms) \in Nat
    BY LenProperties
  <1>2. MaxWeight(ms) \in 1 .. Half - 1
    BY <1>1, WeightType DEF MaxWeight
  <1> DEFINE M == MaxWeight(ms)
             T == {k \in 0 .. M - 1 : Divides(M - k, ms)}
  <1>3. Divides(1, ms)
    <2>1. \A i \in 1 .. Len(ms) : Weight(ms[i]) \in Int
      BY WeightType, HalfAssumption
    <2>2. \A x \in Int : x % 1 = 0
      BY SMT
    <2>. QED  BY <2>1, <2>2 DEF Divides
  <1>4. M \in Nat /\ M >= 1
    BY <1>2, HalfAssumption
  <1>. HIDE DEF M
  <1>5. M - 1 \in T /\ T \subseteq Nat
    <2>1. M - (M - 1) = 1
      BY <1>4
    <2>. QED  BY <1>3, <1>4, <2>1
  <1>6. PICK k \in T : \A y \in T : k <= y
    BY <1>5, Least
  <1>7. M - k \in 1 .. M /\ Divides(M - k, ms)
    BY <1>4, <1>6
  <1>8. ASSUME NEW e \in 1 .. M, Divides(e, ms)  PROVE e <= M - k
    <2>1. M - e \in 0 .. M - 1 /\ M - (M - e) = e
      BY <1>4
    <2>2. M - e \in T
      BY <2>1, <1>8
    <2>3. k <= M - e /\ k \in 0 .. M - 1
      BY <2>2, <1>6
    <2>. QED  BY <2>3, <1>4
  <1>9. \E d \in 1 .. M : Divides(d, ms) /\ \A e \in 1 .. M : Divides(e, ms) => e <= d
    BY <1>7, <1>8
  <1>. QED  BY <1>2, <1>9 DEF GcdOf, M

\* The arithmetic of int32 stays in range.
LEMMA Int32Type == \A n \in -(2 * Half) .. 2 * Half - 1 : Int32(n) \in Int32s
  BY HalfAssumption DEF Int32, Int32s

-----------------------------------------------------------------------------
(* Geolocation *)

LEMMA FirstType ==
    ASSUME NEW s \in Seq(Dcs), NEW forDc
    PROVE  First(s, forDc) \in Dcs \union {None}
  <1>1. CASE ~ \E i \in 1 .. Len(s) : Fits(s[i], forDc)
    BY <1>1 DEF First
  <1>2. CASE \E i \in 1 .. Len(s) : Fits(s[i], forDc)
    <2>0. Len(s) \in Nat
      BY LenProperties
    <2> DEFINE T == {i \in 1 .. Len(s) : Fits(s[i], forDc)}
    <2>1. PICK i \in T : \A j \in T : i <= j
      <3>1. T \subseteq Nat /\ T # {}
        BY <1>2, <2>0
      <3>. QED  BY <3>1, Least
    <2>2. i \in 1 .. Len(s) /\ Fits(s[i], forDc) /\ \A j \in 1 .. i - 1 : ~Fits(s[j], forDc)
      BY <2>0, <2>1
    <2>3. \A k \in 1 .. Len(s) : s[k] \in Dcs
      BY ElementOfSeq
    <2>. QED  BY <1>2, <2>2, <2>3 DEF First
  <1>. QED  BY <1>1, <1>2

LEMMA LocateType ==
    ASSUME NEW a \in Addrs, NEW forDc
    PROVE  Locate(a, forDc) \in Dcs \union {None}
  <1>1. InCidrs[a] \in Seq(Dcs) /\ ByDistance[a] \in Seq(Dcs)
    BY GeoAssumption
  <1>. QED  BY <1>1, FirstType DEF Locate

-----------------------------------------------------------------------------
(* A goroutine's query and what it is working with *)

LEMMA ResultTypes ==
    /\ Nil \in Results /\ Error \in Results /\ Nil # Error
    /\ \A m \in Members : Member(m) \in Results \ {Nil, Error}
  <1>1. Nil.kind = "nil" /\ Error.kind = "error" /\ \A m : Member(m).kind = "member"
    BY DEF Nil, Error, Member
  <1>2. Nil # Error /\ \A m : Member(m) # Nil /\ Member(m) # Error
    BY <1>1
  <1>. QED  BY <1>2 DEF Results

LEMMA MembersType ==
    ASSUME NEW e \in CatalogEntries, NEW t \in Types
    PROVE  OfType(e, t) \in Seq(Members) /\ Len(OfType(e, t)) \in Nat
  <1>1. e.ipv4 \in Seq(Members) /\ e.ipv6 \in Seq(Members)
    BY EntriesAssumption
  <1>2. e.ipv4 \o e.ipv6 \in Seq(Members)
    BY <1>1, ConcatProperties
  <1>3. OfType(e, t) \in Seq(Members)
    BY <1>1, <1>2 DEF OfType, Types
  <1>. QED  BY <1>3, LenProperties

LEMMA RefType ==
    ASSUME TypeOK, NEW r \in 1 .. Len(refs)
    PROVE  /\ refs[r] \in Refs /\ refs[r].entry \in CatalogEntries
           /\ refs[r].entry.algos \in [Slots -> Algos]
           /\ \A t \in Types : /\ MembersAt(r, t) \in Seq(Members)
                               /\ Len(MembersAt(r, t)) \in Nat
           /\ \A s \in Slots, t \in Types : LbAt(r, s, t) \in LbStates /\ IndexOK(r, s, t)
  <1>1. refs[r] \in Refs
    <2>1. refs \in Seq(Refs)
      BY DEF TypeOK
    <2>. QED  BY <2>1, ElementOfSeq
  <1>2. refs[r].entry \in CatalogEntries /\ refs[r].lbs \in [Slots -> [Types -> LbStates]]
    BY <1>1 DEF Refs
  <1>3. \A t \in Types : MembersAt(r, t) \in Seq(Members) /\ Len(MembersAt(r, t)) \in Nat
    BY <1>2, MembersType DEF MembersAt
  <1>4. refs[r].entry.algos \in [Slots -> Algos]
    BY <1>2, EntriesAssumption
  <1>5. \A s \in Slots, t \in Types : LbAt(r, s, t) \in LbStates
    BY <1>2 DEF LbAt
  <1>6. \A s \in Slots, t \in Types : IndexOK(r, s, t)
    BY DEF TypeOK
  <1>. QED  BY <1>1, <1>2, <1>3, <1>4, <1>5, <1>6

LEMMA QueryFacts ==
    ASSUME TypeOK, NEW g \in Goroutines, Q(g).pc # "idle"
    PROVE  /\ Q(g) \in Queries /\ Q(g).ref \in 1 .. Len(refs) /\ Q(g).addr \in Addrs
           /\ Q(g).type \in Types /\ Q(g).slot \in Slots /\ Q(g).new \in Nat
           /\ EntryOf(g) \in CatalogEntries /\ EntryOf(g).algos \in [Slots -> Algos]
           /\ Ms(g) \in Seq(Members) /\ Len(Ms(g)) \in Nat
           /\ Ms(g) = MembersAt(Q(g).ref, Q(g).type)
           /\ Lb(g) = LbAt(Q(g).ref, Q(g).slot, Q(g).type)
           /\ Lb(g) \in LbStates /\ Lb(g).index \in -1 .. Len(Ms(g)) - 1
           /\ DOMAIN Lb(g).served = 1 .. Len(Ms(g))
  <1>1. /\ Q(g) \in Queries /\ Q(g).ref \in 1 .. Len(refs) /\ Q(g).addr \in Addrs
    BY DEF TypeOK, QueryTypeOK, Q
  <1>2. Q(g).type \in Types /\ Q(g).slot \in Slots /\ Q(g).new \in Nat
    BY <1>1 DEF Queries
  <1>3. EntryOf(g) = refs[Q(g).ref].entry /\ Ms(g) = MembersAt(Q(g).ref, Q(g).type)
        /\ Lb(g) = LbAt(Q(g).ref, Q(g).slot, Q(g).type)
    BY DEF EntryOf, Ms, MembersAt, Lb, LbAt
  <1>4. /\ EntryOf(g) \in CatalogEntries /\ EntryOf(g).algos \in [Slots -> Algos]
        /\ Ms(g) \in Seq(Members) /\ Len(Ms(g)) \in Nat
    BY <1>1, <1>2, <1>3, RefType
  <1>5. Lb(g) \in LbStates /\ IndexOK(Q(g).ref, Q(g).slot, Q(g).type)
    BY <1>1, <1>2, <1>3, RefType
  <1>6. Lb(g).index \in -1 .. Len(Ms(g)) - 1 /\ DOMAIN Lb(g).served = 1 .. Len(Ms(g))
    BY <1>3, <1>5 DEF IndexOK
  <1>. QED  BY <1>1, <1>2, <1>3, <1>4, <1>5, <1>6

\* A load balancer that answers its i-th member.
LEMMA ServeType ==
    ASSUME NEW b \in LbStates, NEW i \in DOMAIN b.served
    PROVE  /\ Serve(b, i) \in LbStates
           /\ DOMAIN Serve(b, i).served = DOMAIN b.served
           /\ \A j \in DOMAIN b.served :
                 Serve(b, i).served[j] = IF j = i THEN b.served[j] + 1 ELSE b.served[j]
           /\ Serve(b, i).number = b.number /\ Serve(b, i).index = b.index
           /\ Serve(b, i).currentWeight = b.currentWeight /\ Serve(b, i).raced = b.raced
  <1>1. b.served \in Seq(Nat) /\ DOMAIN b.served = 1 .. Len(b.served)
    BY LenProperties DEF LbStates
  <1>2. b.served[i] + 1 \in Nat
    <2>1. b.served[i] \in Nat
      BY <1>1, ElementOfSeq
    <2>. QED  BY <2>1
  <1> DEFINE q == [b.served EXCEPT ![i] = b.served[i] + 1]
  <1>3. /\ q \in Seq(Nat) /\ Len(q) = Len(b.served)
        /\ \A j \in 1 .. Len(b.served) : q[j] = IF j = i THEN b.served[i] + 1 ELSE b.served[j]
    BY <1>1, <1>2, ExceptSeq
  <1>4. DOMAIN q = DOMAIN b.served
    OBVIOUS
  <1>5. Serve(b, i) = [b EXCEPT !.served = q]
    BY DEF Serve, LbStates
  <1>. HIDE DEF q
  <1>6. /\ Serve(b, i) \in LbStates /\ Serve(b, i).served = q
        /\ Serve(b, i).number = b.number /\ Serve(b, i).index = b.index
        /\ Serve(b, i).currentWeight = b.currentWeight /\ Serve(b, i).raced = b.raced
    BY <1>3, <1>5 DEF LbStates
  <1>. QED  BY <1>1, <1>3, <1>4, <1>6

-----------------------------------------------------------------------------
(* Steps of a goroutine *)

\* What a step of g leaves: its query q and the state b of the load balancer
\* it is at; all else is as before.
Leaves(g, q, b) ==
    /\ queries' \in [Goroutines -> Queries]
    /\ Q(g)' = q /\ \A h \in Goroutines \ {g} : Q(h)' = Q(h)
    /\ refs' \in Seq(Refs) /\ Len(refs') = Len(refs)
    /\ \A r \in 1 .. Len(refs) : refs'[r].entry = refs[r].entry
    /\ \A r \in 1 .. Len(refs), s \in Slots, t \in Types :
          LbAt(r, s, t)' = IF r = Q(g).ref /\ s = Q(g).slot /\ t = Q(g).type THEN b ELSE LbAt(r, s, t)

Stores(g, b) == (refs' = refs /\ b = Lb(g)) \/ SetLb(g, b)

LEMMA StepLeaves ==
    ASSUME TypeOK, NEW g \in Goroutines, Q(g).pc # "idle", NEW q \in Queries, NEW b \in LbStates,
           queries' = [queries EXCEPT ![g] = q], Stores(g, b)
    PROVE  Leaves(g, q, b)
  <1> DEFINE r0 == Q(g).ref
             s0 == Q(g).slot
             t0 == Q(g).type
  <1>1. /\ r0 \in 1 .. Len(refs) /\ s0 \in Slots /\ t0 \in Types
        /\ Lb(g) = LbAt(r0, s0, t0) /\ refs \in Seq(Refs)
    BY QueryFacts DEF TypeOK
  <1>2. /\ queries' \in [Goroutines -> Queries]
        /\ Q(g)' = q /\ \A h \in Goroutines \ {g} : Q(h)' = Q(h)
    BY DEF TypeOK, Q
  <1>3. CASE refs' = refs /\ b = Lb(g)
    BY <1>1, <1>2, <1>3 DEF Leaves, LbAt
  <1>4. CASE SetLb(g, b)
    <2> DEFINE R == refs[r0]
               N == [R EXCEPT !.lbs[s0][t0] = b]
    <2>1. R \in Refs
      BY <1>1, RefType
    <2>2. N \in Refs /\ N.entry = R.entry
      BY <1>1, <2>1 DEF Refs
    <2>3. \A s \in Slots, t \in Types :
             N.lbs[s][t] = IF s = s0 /\ t = t0 THEN b ELSE R.lbs[s][t]
      BY <1>1, <2>1 DEF Refs
    <2>4. refs' = [refs EXCEPT ![r0] = N]
      BY <1>4, <1>1 DEF SetLb
    <2>. HIDE DEF N
    <2>5. /\ refs' \in Seq(Refs) /\ Len(refs') = Len(refs)
          /\ \A r \in 1 .. Len(refs) : refs'[r] = IF r = r0 THEN N ELSE refs[r]
      BY <1>1, <2>2, <2>4, ExceptSeq
    <2>6. \A r \in 1 .. Len(refs) : refs'[r].entry = refs[r].entry
      BY <2>2, <2>5
    <2>7. ASSUME NEW r \in 1 .. Len(refs), NEW s \in Slots, NEW t \in Types
          PROVE  LbAt(r, s, t)' = IF r = r0 /\ s = s0 /\ t = t0 THEN b ELSE LbAt(r, s, t)
      BY <2>3, <2>5 DEF LbAt
    <2>. QED  BY <1>2, <2>5, <2>6, <2>7 DEF Leaves
  <1>. QED  BY <1>3, <1>4 DEF Stores

\* Whom it does not concern keeps its entry and its members; a load balancer
\* that was used by two goroutines at once stays marked.
LEMMA EntriesKept ==
    ASSUME TypeOK, NEW g \in Goroutines, Q(g).pc # "idle", NEW q \in Queries, NEW b \in LbStates,
           Leaves(g, q, b), Lb(g).raced => b.raced
    PROVE  /\ \A r \in 1 .. Len(refs), t \in Types : MembersAt(r, t)' = MembersAt(r, t)
           /\ \A r \in 1 .. Len(refs), s \in Slots, t \in Types :
                 LbAt(r, s, t).raced => LbAt(r, s, t)'.raced
           /\ \A h \in Goroutines :
                 /\ Q(h).pc # "idle" /\ Q(h)'.ref = Q(h).ref /\ Q(h)'.type = Q(h).type =>
                       EntryOf(h)' = EntryOf(h) /\ Ms(h)' = Ms(h) /\ (Raced(h) => Raced(h)')
                 /\ Q(h).pc # "idle" /\ Key(h)' = Key(h) =>
                       Lb(h)' = IF Key(h) = Key(g) THEN b ELSE Lb(h)
  <1>1. Lb(g) = LbAt(Q(g).ref, Q(g).slot, Q(g).type)
    BY QueryFacts
  <1>2. \A r \in 1 .. Len(refs), t \in Types : MembersAt(r, t)' = MembersAt(r, t)
    BY DEF Leaves, MembersAt
  <1>3. \A r \in 1 .. Len(refs), s \in Slots, t \in Types :
           LbAt(r, s, t).raced => LbAt(r, s, t)'.raced
    BY <1>1 DEF Leaves
  <1>4. ASSUME NEW h \in Goroutines, Q(h).pc # "idle", Q(h)'.ref = Q(h).ref, Q(h)'.type = Q(h).type
        PROVE  EntryOf(h)' = EntryOf(h) /\ Ms(h)' = Ms(h) /\ (Raced(h) => Raced(h)')
    <2>1. Q(h).ref \in 1 .. Len(refs) /\ Q(h).type \in Types /\ Ms(h) = MembersAt(Q(h).ref, Q(h).type)
      BY <1>4, QueryFacts
    <2>2. EntryOf(h)' = EntryOf(h)
      BY <1>4, <2>1 DEF EntryOf, Leaves
    <2>3. Ms(h)' = Ms(h)
      BY <1>4, <2>2 DEF Ms
    <2>4. ASSUME Raced(h)  PROVE Raced(h)'
      <3>1. PICK s \in Slots : LbAt(Q(h).ref, s, Q(h).type).raced
        BY <2>4 DEF Raced, LbAt
      <3>2. LbAt(Q(h).ref, s, Q(h).type)'.raced
        <4>1. LbAt(Q(h).ref, s, Q(h).type).raced => refs'[Q(h).ref].lbs[s][Q(h).type].raced
          BY <2>1, <1>3 DEF LbAt
        <4>. QED  BY <3>1, <4>1, <1>4 DEF LbAt
      <3>. QED  BY <3>2, <2>4, <1>4 DEF Raced, LbAt
    <2>. QED  BY <2>2, <2>3, <2>4
  <1>5. ASSUME NEW h \in Goroutines, Q(h).pc # "idle", Key(h)' = Key(h)
        PROVE  Lb(h)' = IF Key(h) = Key(g) THEN b ELSE Lb(h)
    <2>1. /\ Q(h).ref \in 1 .. Len(refs) /\ Q(h).slot \in Slots /\ Q(h).type \in Types
          /\ Lb(h) = LbAt(Q(h).ref, Q(h).slot, Q(h).type)
      BY <1>5, QueryFacts
    <2>2. Q(h)'.ref = Q(h).ref /\ Q(h)'.slot = Q(h).slot /\ Q(h)'.type = Q(h).type
      BY <1>5 DEF Key
    <2>3. Lb(h)' = refs'[Q(h).ref].lbs[Q(h).slot][Q(h).type]
      BY <2>2 DEF Lb
    <2>4. refs'[Q(h).ref].lbs[Q(h).slot][Q(h).type] =
             IF Key(h) = Key(g) THEN b ELSE LbAt(Q(h).ref, Q(h).slot, Q(h).type)
      BY <2>1 DEF Leaves, LbAt, Key
    <2>. QED  BY <2>1, <2>3, <2>4
  <1>. QED  BY <1>2, <1>3, <1>4, <1>5

LEMMA OthersKept ==
    ASSUME Inv, NEW g \in Goroutines, Q(g).pc # "idle", NEW q \in Queries, NEW b \in LbStates,
           Leaves(g, q, b), Lb(g).raced => b.raced,
           InNextMember(g) \/ b.currentWeight = Lb(g).currentWeight,
           NEW h \in Goroutines \ {g}
    PROVE  QueryTypeOK(h)' /\ QueryOK(h)'
  <1>. USE DEF Inv
  <1>1. Q(h)' = Q(h) /\ Len(refs') = Len(refs)
    BY DEF Leaves
  <1>2. CASE Q(h).pc = "idle"
    BY <1>1, <1>2 DEF QueryTypeOK, QueryOK
  <1>3. CASE Q(h).pc # "idle"
    <2>1. /\ EntryOf(h)' = EntryOf(h) /\ Ms(h)' = Ms(h) /\ (Raced(h) => Raced(h)')
          /\ Lb(h)' = IF Key(h) = Key(g) THEN b ELSE Lb(h)
      BY <1>1, <1>3, EntriesKept DEF Key
    <2>2. QueryTypeOK(h) /\ QueryOK(h)
      BY DEF TypeOK, AnswerInv
    <2>3. QueryTypeOK(h)'
      BY <1>1, <2>1, <2>2 DEF QueryTypeOK, InNextMember, At
    <2>4. At(h, "recheck") => Lb(h)'.raced \/ Lb(h)'.currentWeight = MaxWeight(Ms(h))
      <3>1. CASE Key(h) # Key(g)
        BY <3>1, <1>3, <2>1, <2>2 DEF QueryOK
      <3>2. CASE Key(h) = Key(g)
        <4>1. SUFFICES ASSUME At(h, "recheck")
                       PROVE  b.raced \/ b.currentWeight = MaxWeight(Ms(h))
          BY <3>2, <2>1
        <4>2. Lb(h) = Lb(g)
          BY <3>2 DEF Lb, Key
        <4>3. CASE InNextMember(g)
          <5>1. InNextMember(h)
            BY <4>1 DEF InNextMember, At, NextMemberPcs
          <5>2. Noticed(g, h)
            BY DEF AnswerInv
          <5>. QED  BY <3>2, <4>3, <5>1, <5>2 DEF Noticed
        <4>4. CASE b.currentWeight = Lb(g).currentWeight
          BY <4>1, <4>2, <4>4, <2>2, <1>3 DEF QueryOK
        <4>. QED  BY <4>3, <4>4
      <3>. QED  BY <3>1, <3>2
    <2>5. QueryOK(h)'
      BY <1>1, <1>3, <2>1, <2>2, <2>4 DEF QueryOK, InNextMember, At
    <2>. QED  BY <2>3, <2>5
  <1>. QED  BY <1>2, <1>3

-----------------------------------------------------------------------------
(* Steps of a load balancer *)

Algo(g) == EntryOf(g).algos[Q(g).slot]
NbMs(g) == Len(Ms(g))

\* What is to be shown of each: q is the goroutine's query after it, b the
\* state it leaves the load balancer in.
Same(g, q) ==
    /\ q.ref = Q(g).ref /\ q.type = Q(g).type /\ q.slot = Q(g).slot /\ q.addr = Q(g).addr
    /\ q.left = Q(g).left /\ q.answers = Q(g).answers
QueryFine(g, q, b) ==
    /\ Same(g, q)
    /\ q.new = 0 \/ q.new < NbMs(g)
    /\ Q(g).pc # "answer" /\ q.pc \notin {"idle", "answer", "failed"}
    /\ q.pc \in NextMemberPcs =>
          /\ NbMs(g) > 1 /\ Algo(g) = "RATIO"
          /\ b.raced \/ InNextMember(g) \/ ~Together(g)
    /\ q.pc = "locate" => Algo(g) = "TOPOLOGY"
    /\ q.pc = "returned" /\ q.result = Error => Algo(g) = "TOPOLOGY"
    /\ q.pc = "returned" /\ q.result = Nil => Ms(g) = <<>> \/ Raced(g)
    /\ q.pc = "recheck" => b.raced \/ b.currentWeight = MaxWeight(Ms(g))
ShareFine(g, q, b) ==
    \/ Counted(b, NbMs(g))
    \/ b.number < -1 /\ (q.pc = "panic" \/ (b.number = -Half /\ Half % NbMs(g) = 0))
LbFine(g, q, b) ==
    /\ b.index \in -1 .. NbMs(g) - 1 /\ DOMAIN b.served = 1 .. NbMs(g)
    /\ Lb(g).raced => b.raced
    /\ InNextMember(g) \/ b.currentWeight = Lb(g).currentWeight
    /\ b # Lb(g) /\ Algo(g) = "ROUND_ROBIN" /\ NbMs(g) > 1 => ShareFine(g, q, b)
Fine(g, q, b) ==
    /\ q \in Queries /\ b \in LbStates
    /\ queries' = [queries EXCEPT ![g] = q] /\ Stores(g, b)
    /\ QueryFine(g, q, b) /\ LbFine(g, q, b)

\* Then all is as Inv says.
LEMMA FineKeeps ==
    ASSUME Inv, ~Panicked, NEW g \in Goroutines, Q(g).pc # "idle", NEW q, NEW b, Fine(g, q, b),
           UNCHANGED <<current, nbQueries>>, cachedLoc' \in [Addrs -> Dcs \union {None}]
    PROVE  Inv'
  <1>. USE DEF Inv
  <1>1. q \in Queries /\ b \in LbStates /\ QueryFine(g, q, b) /\ LbFine(g, q, b)
    BY DEF Fine
  <1>2. Leaves(g, q, b)
    BY <1>1, StepLeaves DEF Fine
  <1>3. /\ Lb(g).raced => b.raced
        /\ InNextMember(g) \/ b.currentWeight = Lb(g).currentWeight
    BY <1>1 DEF LbFine
  <1>4. Q(g)' = q /\ Same(g, q)
    BY <1>1, <1>2 DEF Leaves, QueryFine
  <1>5. Key(g)' = Key(g)
    BY <1>4 DEF Key, Same
  <1>6. /\ EntryOf(g)' = EntryOf(g) /\ Ms(g)' = Ms(g) /\ (Raced(g) => Raced(g)')
        /\ Lb(g)' = b
    BY <1>1, <1>2, <1>3, <1>4, <1>5, EntriesKept DEF Same
  <1>7. /\ \A r \in 1 .. Len(refs), t \in Types : MembersAt(r, t)' = MembersAt(r, t)
        /\ Len(refs') = Len(refs)
    BY <1>1, <1>2, <1>3, EntriesKept DEF Leaves
  <1>8. /\ Q(g) \in Queries /\ Q(g).ref \in 1 .. Len(refs) /\ Q(g).addr \in Addrs
        /\ Q(g).slot \in Slots /\ Q(g).type \in Types
        /\ Ms(g) = MembersAt(Q(g).ref, Q(g).type) /\ Lb(g) = LbAt(Q(g).ref, Q(g).slot, Q(g).type)
        /\ QueryTypeOK(g) /\ QueryOK(g)
    BY QueryFacts DEF TypeOK, AnswerInv
  <1>9. TypeOK'
    <2>1. /\ refs' \in Seq(Refs) /\ current' \in 0 .. Len(refs') /\ nbQueries' \in Nat
          /\ queries' \in [Goroutines -> Queries]
      BY <1>2 DEF Leaves, TypeOK
    <2>2. ASSUME NEW r \in 1 .. Len(refs), NEW s \in Slots, NEW t \in Types
          PROVE  IndexOK(r, s, t)'
      <3>1. IndexOK(r, s, t)
        BY DEF TypeOK
      <3>2. LbAt(r, s, t)' = IF r = Q(g).ref /\ s = Q(g).slot /\ t = Q(g).type THEN b ELSE LbAt(r, s, t)
        BY <1>2 DEF Leaves
      <3>. QED  BY <3>1, <3>2, <1>1, <1>7, <1>8 DEF IndexOK, LbFine, NbMs
    <2>3. QueryTypeOK(g)'
      <3>1. ~At(g, "answer") => Q(g).left # 0
        BY <1>8 DEF QueryTypeOK
      <3>2. q.left # 0 \/ Q(g).pc = "answer"
        BY <3>1, <1>4 DEF Same, At
      <3>3. Q(g).pc # "answer"
        BY <1>1 DEF QueryFine
      <3>. QED  BY <3>2, <3>3, <1>1, <1>4, <1>6, <1>7, <1>8
             DEF QueryTypeOK, QueryFine, Same, InNextMember, At, NbMs
    <2>4. \A h \in Goroutines : QueryTypeOK(h)'
      BY <2>3, <1>1, <1>2, <1>3, OthersKept
    <2>. QED  BY <2>1, <2>2, <2>4, <1>7 DEF TypeOK
  <1>10. FairInv'
    <2>1. SUFFICES ASSUME NEW r \in 1 .. Len(refs), NEW s \in Slots, NEW t \in Types,
                          refs[r].entry.algos[s] = "ROUND_ROBIN", Len(MembersAt(r, t)) > 1
                   PROVE  \/ Counted(LbAt(r, s, t)', Len(MembersAt(r, t)))
                          \/ Overflowed(LbAt(r, s, t), Len(MembersAt(r, t)))'
      BY <1>2, <1>7 DEF FairInv, Leaves, Counted, Share
    <2>2. \/ Counted(LbAt(r, s, t), Len(MembersAt(r, t)))
          \/ Overflowed(LbAt(r, s, t), Len(MembersAt(r, t)))
      BY <2>1 DEF FairInv
    <2>3. CASE LbAt(r, s, t)' = LbAt(r, s, t)
      BY <2>2, <2>3, <1>7 DEF Overflowed
    <2>4. CASE LbAt(r, s, t)' # LbAt(r, s, t)
      <3>1. r = Q(g).ref /\ s = Q(g).slot /\ t = Q(g).type /\ LbAt(r, s, t)' = b
        BY <2>4, <1>2 DEF Leaves
      <3>2. Algo(g) = "ROUND_ROBIN" /\ NbMs(g) = Len(MembersAt(r, t)) /\ b # Lb(g)
        BY <2>1, <2>4, <3>1, <1>8 DEF Algo, EntryOf, NbMs
      <3>3. ShareFine(g, q, b)
        BY <2>1, <3>2, <1>1 DEF LbFine
      <3>4. q.pc = "panic" => Panicked'
        BY <1>4 DEF Panicked, At
      <3>. QED  BY <3>1, <3>2, <3>3, <3>4, <1>7 DEF ShareFine, Overflowed
    <2>. QED  BY <2>3, <2>4
  <1>11. AnswerInv'
    <2>1. QueryOK(g)'
      <3>1. Nil \in Q(g).answers => Ms(g) = <<>> \/ Raced(g)
        BY <1>8 DEF QueryOK
      <3>2. \A s \in 1 .. Q(g).slot - 1 : EntryOf(g).algos[s] = "TOPOLOGY"
        BY <1>8 DEF QueryOK
      <3>. QED  BY <3>1, <3>2, <1>1, <1>4, <1>6
             DEF QueryOK, QueryFine, Same, At, InNextMember, Algo, NextMemberPcs
    <2>2. \A h \in Goroutines : QueryOK(h)'
      BY <2>1, <1>1, <1>2, <1>3, OthersKept
    <2>3. ASSUME NEW h \in Goroutines \ {g}, InNextMember(g)', InNextMember(h)', Key(g)' = Key(h)'
          PROVE  b.raced
      <3>1. Q(h)' = Q(h)
        BY <1>2 DEF Leaves
      <3>2. InNextMember(h) /\ Key(h) = Key(g) /\ q.pc \in NextMemberPcs
        BY <2>3, <3>1, <1>4, <1>5 DEF InNextMember, Key
      <3>3. CASE InNextMember(g)
        BY <3>2, <3>3, <1>3 DEF AnswerInv, Noticed
      <3>4. CASE ~InNextMember(g)
        BY <3>2, <3>4, <1>1 DEF QueryFine, Together
      <3>. QED  BY <3>3, <3>4
    <2>4. ASSUME NEW h \in Goroutines, NEW k \in Goroutines, h # k  PROVE Noticed(h, k)'
      <3>1. CASE h = g
        BY <2>3, <2>4, <3>1, <1>6 DEF Noticed
      <3>2. CASE k = g
        <4>1. SUFFICES ASSUME InNextMember(h)', InNextMember(g)', Key(h)' = Key(g)'
                       PROVE  Lb(h)'.raced
          BY <3>2 DEF Noticed
        <4>2. b.raced
          BY <2>3, <2>4, <3>2, <4>1
        <4>3. Lb(h)' = Lb(g)'
          BY <4>1 DEF Lb, Key
        <4>. QED  BY <4>2, <4>3, <1>6
      <3>3. CASE h # g /\ k # g
        <4>1. Q(h)' = Q(h) /\ Q(k)' = Q(k) /\ Noticed(h, k)
          BY <2>4, <3>3, <1>2 DEF Leaves, AnswerInv
        <4>2. Q(h).pc = "idle" => ~InNextMember(h)
          BY DEF InNextMember, NextMemberPcs
        <4>3. Q(h).pc # "idle" => Lb(h)' = IF Key(h) = Key(g) THEN b ELSE Lb(h)
          BY <4>1, <1>1, <1>2, <1>3, EntriesKept DEF Key
        <4>4. Key(h) = Key(g) => Lb(h) = Lb(g)
          BY DEF Key, Lb
        <4>. QED  BY <4>1, <4>2, <4>3, <4>4, <1>3 DEF Noticed, InNextMember, Key
      <3>. QED  BY <3>1, <3>2, <3>3
    <2>. QED  BY <2>2, <2>4 DEF AnswerInv
  <1>. QED  BY <1>9, <1>10, <1>11

\* The two ways a step leaves a query.
Gone(g, pc) == [Q(g) EXCEPT !.pc = pc]
Returned(g, result) == [Q(g) EXCEPT !.pc = "returned", !.result = result]

LEMMA GoesFine ==
    ASSUME Inv, NEW g \in Goroutines, Q(g).pc \notin {"idle", "answer"},
           NEW pc \in Pcs \ {"idle", "answer", "failed", "returned"}, Goes(g, pc),
           NEW b \in LbStates, Stores(g, b), LbFine(g, Gone(g, pc), b),
           pc = "locate" => Algo(g) = "TOPOLOGY",
           pc = "recheck" => b.raced \/ b.currentWeight = MaxWeight(Ms(g)),
           pc \in NextMemberPcs => /\ NbMs(g) > 1 /\ Algo(g) = "RATIO"
                                   /\ b.raced \/ InNextMember(g) \/ ~Together(g)
    PROVE  Fine(g, Gone(g, pc), b)
  <1>1. Q(g) \in Queries /\ queries \in [Goroutines -> Queries]
    BY QueryFacts DEF Inv, TypeOK
  <1>2. /\ Gone(g, pc) \in Queries /\ Gone(g, pc).pc = pc /\ Same(g, Gone(g, pc))
        /\ Gone(g, pc).new = Q(g).new
    BY <1>1 DEF Gone, Same, Queries
  <1>3. queries' = [queries EXCEPT ![g] = Gone(g, pc)]
    BY <1>1 DEF Goes, Gone, Q
  <1>4. Q(g).new = 0 \/ Q(g).new < NbMs(g)
    BY DEF Inv, TypeOK, QueryTypeOK, NbMs
  <1>5. QueryFine(g, Gone(g, pc), b)
    BY <1>2, <1>4 DEF QueryFine
  <1>. QED  BY <1>2, <1>3, <1>5 DEF Fine

LEMMA ReturnsFine ==
    ASSUME Inv, NEW g \in Goroutines, Q(g).pc \notin {"idle", "answer"},
           NEW result \in Results, Returns(g, result),
           NEW b \in LbStates, Stores(g, b), LbFine(g, Returned(g, result), b),
           result = Error => Algo(g) = "TOPOLOGY",
           result = Nil => Ms(g) = <<>> \/ Raced(g)
    PROVE  Fine(g, Returned(g, result), b)
  <1> DEFINE q == Returned(g, result)
  <1>1. Q(g) \in Queries /\ queries \in [Goroutines -> Queries]
    BY QueryFacts DEF Inv, TypeOK
  <1>2. /\ q \in Queries /\ q.pc = "returned" /\ q.result = result /\ Same(g, q) /\ q.new = Q(g).new
    BY <1>1 DEF Returned, Same, Queries, Pcs
  <1>3. queries' = [queries EXCEPT ![g] = q]
    BY <1>1 DEF Returns, Returned, Q
  <1>4. Q(g).new = 0 \/ Q(g).new < NbMs(g)
    BY DEF Inv, TypeOK, QueryTypeOK, NbMs
  <1>. HIDE DEF q
  <1>5. QueryFine(g, q, b)
    BY <1>2, <1>4 DEF QueryFine, NextMemberPcs
  <1>6. Fine(g, q, b)
    BY <1>2, <1>3, <1>5 DEF Fine, q
  <1>. QED  BY <1>6 DEF q

\* A load balancer that is left as it is.
LEMMA LbSame ==
    ASSUME Inv, NEW g \in Goroutines, Q(g).pc # "idle"
    PROVE  /\ Lb(g) \in LbStates /\ (refs' = refs => Stores(g, Lb(g)))
           /\ \A q : LbFine(g, q, Lb(g))
  BY QueryFacts DEF Inv, Stores, LbFine, NbMs

LEMMA MemberResults ==
    ASSUME TypeOK, NEW g \in Goroutines, Q(g).pc # "idle", NEW i \in 1 .. Len(Ms(g))
    PROVE  Member(Ms(g)[i]) \in Results \ {Nil, Error}
  <1>1. Ms(g)[i] \in Members
    BY QueryFacts, ElementOfSeq
  <1>. QED  BY <1>1, ResultTypes

LEMMA RandomFine ==
    ASSUME Inv, NEW g \in Goroutines, RandomNext(g)
    PROVE  \E q, b : Fine(g, q, b)
  <1>1. Q(g).pc = "next" /\ refs' = refs
    BY DEF RandomNext, Calls, At
  <1>2. \/ Ms(g) = <<>> /\ Returns(g, Nil)
        \/ \E i \in 1 .. Len(Ms(g)) : Returns(g, Member(Ms(g)[i]))
    BY DEF RandomNext
  <1>3. CASE Ms(g) = <<>> /\ Returns(g, Nil)
    BY <1>1, <1>3, LbSame, ReturnsFine, ResultTypes
  <1>4. ASSUME NEW i \in 1 .. Len(Ms(g)), Returns(g, Member(Ms(g)[i]))
        PROVE  \E q, b : Fine(g, q, b)
    <2>1. Member(Ms(g)[i]) \in Results \ {Nil, Error}
      BY <1>1, MemberResults DEF Inv
    <2>. QED  BY <1>1, <1>4, <2>1, LbSame, ReturnsFine
  <1>. QED  BY <1>2, <1>3, <1>4

\* Topology's answer, a member or an error.
LEMMA PickFine ==
    ASSUME Inv, NEW g \in Goroutines, Q(g).pc \notin {"idle", "answer"}, refs' = refs,
           Algo(g) = "TOPOLOGY", NEW dc, PickInDc(g, dc)
    PROVE  \E q, b : Fine(g, q, b)
  <1>1. CASE Returns(g, Error)
    BY <1>1, LbSame, ReturnsFine, ResultTypes
  <1>2. ASSUME NEW i \in InDc(Ms(g), dc), Returns(g, Member(Ms(g)[i]))
        PROVE  \E q, b : Fine(g, q, b)
    <2>1. i \in 1 .. Len(Ms(g))
      BY DEF InDc
    <2>2. Member(Ms(g)[i]) \in Results \ {Nil, Error}
      BY <2>1, MemberResults DEF Inv
    <2>. QED  BY <1>2, <2>2, LbSame, ReturnsFine
  <1>. QED  BY <1>1, <1>2 DEF PickInDc

LEMMA TopologyFine ==
    ASSUME Inv, NEW g \in Goroutines, TopologyNext(g) \/ TopologyLocate(g)
    PROVE  /\ \E q, b : Fine(g, q, b)
           /\ cachedLoc' \in [Addrs -> Dcs \union {None}]
  <1>1. cachedLoc \in [Addrs -> Dcs \union {None}]
    BY DEF Inv, TypeOK
  <1>2. CASE TopologyNext(g)
    <2>1. Q(g).pc = "next" /\ Algo(g) = "TOPOLOGY" /\ refs' = refs /\ cachedLoc' = cachedLoc
      BY <1>2 DEF TopologyNext, Calls, At, Algo
    <2>2. CASE PickInDc(g, cachedLoc[Q(g).addr])
      BY <1>1, <2>1, <2>2, PickFine
    <2>3. CASE Goes(g, "locate")
      <3>1. "locate" \in Pcs \ {"idle", "answer", "failed", "returned"} /\ "locate" \notin NextMemberPcs
        BY DEF Pcs, NextMemberPcs
      <3>. QED  BY <1>1, <2>1, <2>3, <3>1, LbSame, GoesFine
    <2>. QED  BY <1>2, <2>2, <2>3 DEF TopologyNext
  <1>3. CASE TopologyLocate(g)
    <2> DEFINE dc == Locate(Q(g).addr, DcsOf(Ms(g)))
    <2>1. Q(g).pc = "locate" /\ refs' = refs /\ StoreLoc(Q(g).addr, dc) /\ PickInDc(g, dc)
      BY <1>3 DEF TopologyLocate, At
    <2>2. Algo(g) = "TOPOLOGY" /\ Q(g).addr \in Addrs
      BY <2>1, QueryFacts DEF Inv, AnswerInv, QueryOK, At, Algo
    <2>3. dc \in Dcs \union {None}
      BY <2>2, LocateType
    <2>. HIDE DEF dc
    <2>4. \E q, b : Fine(g, q, b)
      BY <2>1, <2>2, PickFine
    <2>. QED  BY <1>1, <2>1, <2>2, <2>3, <2>4 DEF StoreLoc
  <1>. QED  BY <1>2, <1>3

-----------------------------------------------------------------------------
(* RoundRobin *)

\* The counter after the one at number, and where it points to.
LEMMA Counter ==
    ASSUME NEW number \in Int32s, NEW n \in Nat, n > 1,
           NEW next, next = Int32(number + 1), NEW i, i = Remainder(next, n) + 1
    PROVE  /\ next \in Int32s /\ i \in Int
           /\ number < Half - 1 => next = number + 1
           /\ number = Half - 1 => next = -Half
           /\ next >= 0 => i \in 1 .. n /\ i = (next % n) + 1
           /\ next = -Half /\ i \in 1 .. n => Half % n = 0
           /\ next = -Half + 1 /\ i \in 1 .. n => (Half - 1) % n = 0
  <1>1. /\ number \in Int /\ -Half <= number /\ number <= Half - 1 /\ Half \in Nat /\ Half > 2
    BY HalfAssumption DEF Int32s
  <1>2. /\ next \in Int32s /\ next \in Int
        /\ number < Half - 1 => next = number + 1
        /\ number = Half - 1 => next = -Half
    BY <1>1 DEF Int32, Int32s
  <1>3. /\ next % n \in 0 .. n - 1 /\ (-next) % n \in 0 .. n - 1
    <2>1. -next \in Int /\ n \in Nat \ {0}
      BY <1>2
    <2>. QED  BY <1>2, <2>1, DivMod
  <1>4. CASE next >= 0
    <2>1. i = (next % n) + 1
      BY <1>4 DEF Remainder
    <2>2. next # -Half /\ next # -Half + 1
      BY <1>1, <1>4
    <2>. QED  BY <1>2, <1>3, <2>1, <2>2
  <1>5. CASE ~(next >= 0)
    <2>1. i = -((-next) % n) + 1
      BY <1>5 DEF Remainder
    <2>2. i \in 1 .. n => (-next) % n = 0
      BY <1>3, <2>1
    <2>3. (next = -Half => -next = Half) /\ (next = -Half + 1 => -next = Half - 1)
      BY <1>1
    <2>. QED  BY <1>2, <1>3, <1>5, <2>1, <2>2, <2>3
  <1>. QED  BY <1>4, <1>5

\* Two neighbours have no divisor in common.
LEMMA Neighbours ==
    ASSUME NEW n \in Nat, n > 1, Half % n = 0
    PROVE  (Half - 1) % n # 0
  <1>1. Half \in Int /\ Half \div n \in Int /\ Half = n * (Half \div n) + (Half % n)
    BY HalfAssumption, DivMod
  <1> DEFINE k == Half \div n
  <1>. HIDE DEF k
  <1>2. k \in Int /\ Half = n * k
    BY <1>1 DEF k
  <1>3. Half - 1 = n * (k - 1) + (n - 1) /\ n - 1 \in 0 .. n - 1 /\ Half - 1 \in Int /\ k - 1 \in Int
    BY <1>1, <1>2, SMT
  <1>4. (Half - 1) % n = n - 1
    BY <1>3, DivUnique
  <1>. QED  BY <1>4

\* The number is counted for the member it falls on, before it overflows.
LEMMA ServesNext ==
    ASSUME NEW c \in LbStates, NEW b \in LbStates, NEW n \in Nat, n > 1,
           Counted(c, n), b.number = c.number + 1,
           \A j \in 1 .. n : b.served[j] =
               IF j = ((c.number + 1) % n) + 1 THEN c.served[j] + 1 ELSE c.served[j]
    PROVE  Counted(b, n)
  <1>1. c.number \in Int /\ c.number >= -1
    BY HalfAssumption DEF Counted, LbStates, Int32s
  <1>2. ASSUME NEW j \in 1 .. n  PROVE b.served[j] = Share(b.number, n, j)
    <2>1. c.served[j] = Share(c.number, n, j)
      BY DEF Counted
    <2>2. Share(c.number + 1, n, j) =
            IF j = ((c.number + 1) % n) + 1 THEN Share(c.number, n, j) + 1 ELSE Share(c.number, n, j)
      <3>1. n \in Nat \ {0}
        OBVIOUS
      <3>. QED  BY <1>1, <3>1, ShareStep
    <2>. QED  BY <2>1, <2>2
  <1>. QED  BY <1>1, <1>2 DEF Counted

LEMMA RoundRobinFine ==
    ASSUME Inv, ~Panicked, NEW g \in Goroutines, RoundRobinNext(g)
    PROVE  \E q, b : Fine(g, q, b)
  <1> DEFINE n == NbMs(g)
             number == Int32(Lb(g).number + 1)
             i == Remainder(number, n) + 1
             c == [Lb(g) EXCEPT !.number = number]
  <1>1. Q(g).pc = "next" /\ Algo(g) = "ROUND_ROBIN"
    BY DEF RoundRobinNext, Calls, At, Algo
  <1>2. /\ Lb(g) \in LbStates /\ Ms(g) \in Seq(Members) /\ n \in Nat
        /\ Lb(g).index \in -1 .. n - 1 /\ DOMAIN Lb(g).served = 1 .. n
        /\ Q(g).ref \in 1 .. Len(refs) /\ Q(g).slot \in Slots /\ Q(g).type \in Types
        /\ Ms(g) = MembersAt(Q(g).ref, Q(g).type) /\ Lb(g) = LbAt(Q(g).ref, Q(g).slot, Q(g).type)
    BY <1>1, QueryFacts DEF Inv, NbMs
  <1>3. CASE Ms(g) = <<>>
    <2>1. Returns(g, Nil) /\ refs' = refs
      BY <1>3 DEF RoundRobinNext
    <2>. QED  BY <1>1, <1>3, <2>1, LbSame, ReturnsFine, ResultTypes
  <1>4. CASE Ms(g) # <<>>
    <2>1. n \in Nat \ {0}
      BY <1>2, <1>4, EmptySeq DEF NbMs
    <2>2. IF i \in 1 .. n
          THEN SetLb(g, Serve(c, i)) /\ Returns(g, Member(Ms(g)[i]))
          ELSE SetLb(g, c) /\ Goes(g, "panic")
      BY <1>4 DEF RoundRobinNext, NbMs
    <2>3. Lb(g).number \in Int32s /\ Lb(g).number \in Int /\ number \in Int32s
      <3>1. Lb(g).number \in Int32s /\ Lb(g).number \in Int
        BY <1>2, HalfAssumption DEF LbStates, Int32s
      <3>. QED  BY <3>1, HalfAssumption DEF Int32, Int32s
    <2>. HIDE DEF number, n, i
    <2>4. /\ c \in LbStates /\ c.number = number /\ c.served = Lb(g).served /\ c.index = Lb(g).index
          /\ c.currentWeight = Lb(g).currentWeight /\ c.raced = Lb(g).raced
      BY <1>2, <2>3 DEF LbStates
    <2>. HIDE DEF c
    <2>5. n > 1 => \/ Counted(Lb(g), n)
                   \/ Lb(g).number = -Half /\ Half % n = 0
      <3>1. refs[Q(g).ref].entry.algos[Q(g).slot] = "ROUND_ROBIN"
        BY <1>1 DEF Algo, EntryOf
      <3>2. n > 1 => Counted(Lb(g), n) \/ Overflowed(Lb(g), n)
        BY <1>2, <3>1 DEF Inv, FairInv, n, NbMs
      <3>. QED  BY <3>2 DEF Overflowed
    <2>6. n > 1 =>
          /\ Lb(g).number < Half - 1 => number = Lb(g).number + 1
          /\ Lb(g).number = Half - 1 => number = -Half
          /\ number >= 0 => i \in 1 .. n /\ i = (number % n) + 1
          /\ number = -Half /\ i \in 1 .. n => Half % n = 0
          /\ number = -Half + 1 /\ i \in 1 .. n => (Half - 1) % n = 0
      BY <1>2, <2>3, Counter DEF number, i
    <2>7. Half \in Nat /\ Half > 2 /\ Lb(g).number <= Half - 1
      BY <2>3, HalfAssumption DEF Int32s
    <2>8. CASE i \in 1 .. n
      <3> DEFINE b == Serve(c, i)
      <3>1. /\ b \in LbStates /\ DOMAIN b.served = 1 .. n
            /\ \A j \in 1 .. n : b.served[j] = IF j = i THEN Lb(g).served[j] + 1 ELSE Lb(g).served[j]
            /\ b.number = number /\ b.index = Lb(g).index
            /\ b.currentWeight = Lb(g).currentWeight /\ b.raced = Lb(g).raced
        BY <1>2, <2>4, <2>8, ServeType
      <3>. HIDE DEF b
      <3>2. ASSUME n > 1  PROVE Counted(b, n) \/ (b.number = -Half /\ Half % n = 0)
        <4>1. CASE Counted(Lb(g), n) /\ Lb(g).number < Half - 1
          <5>1. number = Lb(g).number + 1 /\ number >= 0
            BY <2>3, <2>6, <3>2, <4>1 DEF Counted
          <5>2. i = ((Lb(g).number + 1) % n) + 1
            BY <2>6, <3>2, <5>1
          <5>3. Counted(b, n)
            BY <1>2, <3>1, <3>2, <4>1, <5>1, <5>2, ServesNext
          <5>. QED  BY <5>3
        <4>2. CASE Lb(g).number = Half - 1
          BY <2>6, <2>8, <3>1, <3>2, <4>2
        <4>3. CASE Lb(g).number = -Half /\ Half % n = 0
          <5>1. number = -Half + 1
            BY <2>6, <2>7, <3>2, <4>3
          <5>2. (Half - 1) % n = 0
            BY <2>6, <2>8, <3>2, <5>1
          <5>. QED  BY <1>2, <3>2, <4>3, <5>2, Neighbours
        <4>. QED  BY <2>5, <2>3, <2>7, <3>2, <4>1, <4>2, <4>3
      <3>3. \A q : LbFine(g, q, b)
        <4>1. -Half < -1
          BY <2>7
        <4>2. n = NbMs(g)
          BY DEF n
        <4>. QED  BY <1>2, <3>1, <3>2, <4>1, <4>2 DEF LbFine, ShareFine
      <3>4. Member(Ms(g)[i]) \in Results \ {Nil, Error}
        BY <1>1, <2>8, MemberResults DEF Inv, n, NbMs
      <3>5. Stores(g, b) /\ Returns(g, Member(Ms(g)[i]))
        BY <2>2, <2>8 DEF Stores, b
      <3>. QED  BY <1>1, <3>1, <3>3, <3>4, <3>5, ReturnsFine
    <2>9. CASE i \notin 1 .. n
      <3>1. ASSUME n > 1  PROVE c.number < -1
        <4>1. ~(number >= 0)
          BY <2>6, <2>9, <3>1
        <4>2. CASE Counted(Lb(g), n)
          <5>1. Lb(g).number = Half - 1
            BY <2>3, <2>6, <2>7, <3>1, <4>1, <4>2 DEF Counted
          <5>. QED  BY <2>4, <2>6, <2>7, <3>1, <5>1
        <4>3. CASE Lb(g).number = -Half
          <5>1. number = -Half + 1
            BY <2>6, <2>7, <3>1, <4>3
          <5>. QED  BY <2>4, <2>7, <5>1
        <4>. QED  BY <2>5, <3>1, <4>2, <4>3
      <3>2. Gone(g, "panic").pc = "panic"
        <4>1. Q(g) \in Queries
          BY <1>1, QueryFacts DEF Inv
        <4>. QED  BY <4>1 DEF Gone, Queries
      <3>3. LbFine(g, Gone(g, "panic"), c)
        <4>1. n = NbMs(g)
          BY DEF n
        <4>. QED  BY <1>2, <2>4, <3>1, <3>2, <4>1 DEF LbFine, ShareFine
      <3>4. Stores(g, c) /\ Goes(g, "panic")
        BY <2>2, <2>9 DEF Stores
      <3>5. "panic" \in Pcs \ {"idle", "answer", "failed", "returned"} /\ "panic" \notin NextMemberPcs
        BY DEF Pcs, NextMemberPcs
      <3>. QED  BY <1>1, <2>4, <3>3, <3>4, <3>5, GoesFine
    <2>. QED  BY <2>8, <2>9
  <1>. QED  BY <1>3, <1>4

-----------------------------------------------------------------------------
(* WeightedRoundRobin *)

LEMMA WeightedFacts ==
    ASSUME Inv, NEW g \in Goroutines, InNextMember(g)
    PROVE  /\ Q(g).pc \in Pcs /\ Q(g).pc \notin {"idle", "answer"} /\ Q(g) \in Queries
           /\ Algo(g) = "RATIO" /\ NbMs(g) \in Nat /\ NbMs(g) > 1 /\ Ms(g) \in Seq(Members)
           /\ Q(g).new \in 0 .. NbMs(g) - 1
           /\ Lb(g) \in LbStates /\ Lb(g).index \in -1 .. NbMs(g) - 1
           /\ DOMAIN Lb(g).served = 1 .. NbMs(g)
  <1>1. Q(g).pc \notin {"idle", "answer"} /\ Q(g).pc \in NextMemberPcs
    BY DEF InNextMember, NextMemberPcs
  <1>2. Q(g) \in Queries /\ Q(g).new \in Nat /\ NbMs(g) \in Nat /\ Ms(g) \in Seq(Members)
        /\ Lb(g) \in LbStates /\ Lb(g).index \in -1 .. NbMs(g) - 1
        /\ DOMAIN Lb(g).served = 1 .. NbMs(g)
    BY <1>1, QueryFacts DEF Inv, NbMs
  <1>3. NbMs(g) > 1 /\ (Q(g).new = 0 \/ Q(g).new < NbMs(g))
    BY <1>1 DEF Inv, TypeOK, QueryTypeOK, NbMs
  <1>4. Algo(g) = "RATIO"
    BY <1>1 DEF Inv, AnswerInv, QueryOK, Algo
  <1>. QED  BY <1>1, <1>2, <1>3, <1>4 DEF Pcs

LEMMA WeightedLbFine ==
    ASSUME Inv, NEW g \in Goroutines, InNextMember(g), NEW b, b.index \in -1 .. NbMs(g) - 1,
           DOMAIN b.served = 1 .. NbMs(g), b.raced = Lb(g).raced
    PROVE  \A q : LbFine(g, q, b)
  BY WeightedFacts DEF LbFine

\* A step inside nextMember.
LEMMA StaysFine ==
    ASSUME Inv, NEW g \in Goroutines, InNextMember(g), NEW pc \in NextMemberPcs, Goes(g, pc),
           NEW b \in LbStates, Stores(g, b), b.index \in -1 .. NbMs(g) - 1,
           DOMAIN b.served = 1 .. NbMs(g), b.raced = Lb(g).raced,
           pc = "recheck" => b.currentWeight = MaxWeight(Ms(g))
    PROVE  \E q : Fine(g, q, b)
  <1>1. /\ Q(g).pc \notin {"idle", "answer"} /\ Algo(g) = "RATIO" /\ NbMs(g) > 1
    BY WeightedFacts
  <1>2. pc \in Pcs \ {"idle", "answer", "failed", "returned"} /\ pc # "locate"
    BY DEF Pcs, NextMemberPcs
  <1>3. LbFine(g, Gone(g, pc), b)
    BY WeightedLbFine
  <1>. QED  BY <1>1, <1>2, <1>3, GoesFine

\* A step that loads something into the goroutine's own variables.
LEMMA LoadsFine ==
    ASSUME Inv, NEW g \in Goroutines, InNextMember(g), NEW q \in Queries, refs' = refs,
           queries' = [queries EXCEPT ![g] = q], Same(g, q), q.new < NbMs(g),
           q.pc \in NextMemberPcs \ {"recheck"}
    PROVE  Fine(g, q, Lb(g))
  <1>1. /\ Q(g).pc \notin {"idle", "answer"} /\ Algo(g) = "RATIO" /\ NbMs(g) > 1
    BY WeightedFacts
  <1>2. Lb(g) \in LbStates /\ Stores(g, Lb(g)) /\ LbFine(g, q, Lb(g))
    BY <1>1, LbSame
  <1>3. q.pc \notin {"idle", "answer", "failed", "returned", "locate", "recheck"}
    BY DEF NextMemberPcs
  <1>4. QueryFine(g, q, Lb(g))
    BY <1>1, <1>3 DEF QueryFine
  <1>. QED  BY <1>2, <1>4 DEF Fine

LEMMA EnterFine ==
    ASSUME Inv, NEW g \in Goroutines, WeightedNext(g)
    PROVE  \E q, b : Fine(g, q, b)
  <1>1. Q(g).pc = "next" /\ Algo(g) = "RATIO"
    BY DEF WeightedNext, Calls, At, Algo
  <1>2. /\ Lb(g) \in LbStates /\ NbMs(g) \in Nat /\ Ms(g) \in Seq(Members)
        /\ Lb(g).index \in -1 .. NbMs(g) - 1 /\ DOMAIN Lb(g).served = 1 .. NbMs(g)
    BY <1>1, QueryFacts DEF Inv, NbMs
  <1>3. CASE NbMs(g) <= 1
    <2>1. refs' = refs /\ Returns(g, IF Ms(g) = <<>> THEN Nil ELSE Member(Ms(g)[1]))
      BY <1>3 DEF WeightedNext, NbMs
    <2>2. CASE Ms(g) = <<>>
      BY <1>1, <2>1, <2>2, LbSame, ReturnsFine, ResultTypes
    <2>3. CASE Ms(g) # <<>>
      <3>1. 1 \in 1 .. Len(Ms(g))
        BY <1>2, <2>3, EmptySeq DEF NbMs
      <3>2. Member(Ms(g)[1]) \in Results \ {Nil, Error}
        BY <1>1, <3>1, MemberResults DEF Inv
      <3>. QED  BY <1>1, <2>1, <2>3, <3>2, LbSame, ReturnsFine
    <2>. QED  BY <2>2, <2>3
  <1>4. CASE ~(NbMs(g) <= 1)
    <2> DEFINE b == [Lb(g) EXCEPT !.raced = @ \/ Together(g)]
               q == [Q(g) EXCEPT !.pc = "loop", !.turns = 0]
    <2>1. queries' = [queries EXCEPT ![g] = q] /\ Stores(g, b)
      BY <1>4 DEF WeightedNext, NbMs, Stores, Inv, TypeOK, Q
    <2>2. Lb(g).raced \in BOOLEAN /\ Together(g) \in BOOLEAN
      BY <1>2 DEF LbStates, Together
    <2>3. /\ b \in LbStates /\ b.index = Lb(g).index /\ b.served = Lb(g).served
          /\ b.currentWeight = Lb(g).currentWeight /\ (Lb(g).raced => b.raced)
          /\ (Together(g) => b.raced)
      BY <1>2, <2>2 DEF LbStates
    <2>. HIDE DEF b
    <2>4. "loop" \in Pcs \ {"idle", "answer", "failed", "returned", "locate", "recheck"}
      BY DEF Pcs, NextMemberPcs
    <2>5. /\ q \in Queries /\ q.pc = "loop" /\ q.new = Q(g).new /\ Same(g, q)
      <3>1. Q(g) \in Queries
        BY <1>1, QueryFacts DEF Inv
      <3>. QED  BY <2>4, <3>1 DEF Queries, Same
    <2>. HIDE DEF q
    <2>6. LbFine(g, q, b)
      BY <1>1, <1>2, <2>3 DEF LbFine
    <2>7. Q(g).new = 0 \/ Q(g).new < NbMs(g)
      BY <1>1 DEF Inv, TypeOK, QueryTypeOK, NbMs
    <2>8. QueryFine(g, q, b)
      BY <1>1, <1>2, <1>4, <2>3, <2>4, <2>5, <2>7 DEF QueryFine
    <2>. QED  BY <2>1, <2>3, <2>5, <2>6, <2>8 DEF Fine
  <1>. QED  BY <1>3, <1>4

LEMMA PositionFine ==
    ASSUME Inv, NEW g \in Goroutines, LoadIndex(g) \/ StoreIndex(g) \/ CompareWeight(g)
    PROVE  \E q, b : Fine(g, q, b)
  <1>1. Q(g).pc \in {"loop", "storeIndex", "compare"} /\ InNextMember(g)
    BY DEF LoadIndex, StoreIndex, CompareWeight, At, InNextMember, NextMemberPcs
  <1>2. /\ Q(g).pc \notin {"idle", "answer"} /\ Q(g) \in Queries /\ Algo(g) = "RATIO"
        /\ NbMs(g) \in Nat /\ NbMs(g) > 1 /\ Q(g).new \in 0 .. NbMs(g) - 1
        /\ Lb(g) \in LbStates /\ Lb(g).index \in -1 .. NbMs(g) - 1
        /\ DOMAIN Lb(g).served = 1 .. NbMs(g)
    BY <1>1, WeightedFacts
  <1>3. CASE LoadIndex(g)
    <2> DEFINE turns == IF Q(g).turns <= NbMs(g) THEN Q(g).turns + 1 ELSE Q(g).turns
               q == [Q(g) EXCEPT !.pc = "storeIndex", !.new = NextIndex(g), !.turns = turns]
    <2>1. NextIndex(g) \in 0 .. NbMs(g) - 1
      <3>1. Lb(g).index + 1 \in Int /\ NbMs(g) \in Nat \ {0}
        BY <1>2
      <3>2. (Lb(g).index + 1) % NbMs(g) \in 0 .. NbMs(g) - 1
        BY <3>1, DivMod
      <3>. QED  BY <3>2 DEF NextIndex, NbMs
    <2>2. "storeIndex" \in Pcs /\ "storeIndex" \in NextMemberPcs \ {"recheck"}
      BY DEF Pcs, NextMemberPcs
    <2>3. NextIndex(g) \in Nat /\ NextIndex(g) < NbMs(g)
      BY <1>2, <2>1
    <2>4. turns \in Nat
      BY <1>2 DEF Queries
    <2>5. refs' = refs /\ queries' = [queries EXCEPT ![g] = q]
      BY <1>3 DEF LoadIndex, Inv, TypeOK, Q, NbMs
    <2>. HIDE DEF turns
    <2>6. q \in Queries /\ q.pc = "storeIndex" /\ q.new = NextIndex(g) /\ Same(g, q)
      BY <1>2, <2>2, <2>3, <2>4 DEF Queries, Same
    <2>. HIDE DEF q
    <2>. QED  BY <1>1, <2>2, <2>3, <2>5, <2>6, LoadsFine
  <1>4. CASE StoreIndex(g)
    <2> DEFINE b == [Lb(g) EXCEPT !.index = Q(g).new]
               pc == IF Q(g).new = 0 THEN "loadWeight" ELSE "compare"
    <2>1. Stores(g, b) /\ Goes(g, pc) /\ pc \in NextMemberPcs \ {"recheck"}
      BY <1>4 DEF StoreIndex, Stores, NextMemberPcs
    <2>2. b \in LbStates /\ b.index = Q(g).new /\ b.served = Lb(g).served /\ b.raced = Lb(g).raced
      <3>1. Q(g).new \in Int
        BY <1>2
      <3>. QED  BY <1>2, <3>1 DEF LbStates
    <2>. HIDE DEF b, pc
    <2>3. b.index \in -1 .. NbMs(g) - 1
      BY <1>2, <2>2
    <2>. QED  BY <1>1, <1>2, <2>1, <2>2, <2>3, StaysFine
  <1>5. CASE CompareWeight(g)
    <2>1. CASE Heavy(g)
      <3> DEFINE i == Q(g).new + 1
                 b == Serve(Lb(g), i)
      <3>1. Stores(g, b) /\ Returns(g, Member(Ms(g)[i]))
        BY <1>5, <2>1 DEF CompareWeight, Stores
      <3>2. i \in 1 .. NbMs(g)
        BY <1>2
      <3>. HIDE DEF i
      <3>3. /\ b \in LbStates /\ DOMAIN b.served = 1 .. NbMs(g)
            /\ b.index = Lb(g).index /\ b.raced = Lb(g).raced
        BY <1>2, <3>2, ServeType
      <3>. HIDE DEF b
      <3>4. Member(Ms(g)[i]) \in Results \ {Nil, Error}
        BY <1>2, <3>2, MemberResults DEF Inv, NbMs
      <3>5. LbFine(g, Returned(g, Member(Ms(g)[i])), b)
        BY <1>1, <1>2, <3>3, WeightedLbFine
      <3>. QED  BY <1>2, <3>1, <3>3, <3>4, <3>5, ReturnsFine
    <2>2. CASE ~Heavy(g)
      <3>1. refs' = refs /\ Goes(g, "loop") /\ "loop" \in NextMemberPcs
        BY <1>5, <2>2 DEF CompareWeight, NextMemberPcs
      <3>. QED  BY <1>1, <1>2, <3>1, LbSame, StaysFine
    <2>. QED  BY <2>1, <2>2
  <1>. QED  BY <1>3, <1>4, <1>5

LEMMA WeightFine ==
    ASSUME Inv, NEW g \in Goroutines,
           \/ LoadWeight(g) \/ StoreWeight(g) \/ CheckWeight(g) \/ ResetWeight(g) \/ RecheckWeight(g)
    PROVE  \E q, b : Fine(g, q, b)
  <1>1. /\ Q(g).pc \in {"loadWeight", "storeWeight", "check", "reset", "recheck"}
        /\ InNextMember(g)
    BY DEF LoadWeight, StoreWeight, CheckWeight, ResetWeight, RecheckWeight, At,
           InNextMember, NextMemberPcs
  <1>2. /\ Q(g).pc \notin {"idle", "answer"} /\ Q(g) \in Queries /\ Algo(g) = "RATIO"
        /\ NbMs(g) \in Nat /\ NbMs(g) > 1 /\ Ms(g) \in Seq(Members) /\ Q(g).new \in 0 .. NbMs(g) - 1
        /\ Lb(g) \in LbStates /\ Lb(g).index \in -1 .. NbMs(g) - 1
        /\ DOMAIN Lb(g).served = 1 .. NbMs(g)
    BY <1>1, WeightedFacts
  <1>3. /\ MaxWeight(Ms(g)) \in 1 .. Half - 1 /\ GcdOf(Ms(g)) \in 1 .. MaxWeight(Ms(g))
        /\ Half \in Nat
    BY <1>2, GcdType, HalfAssumption DEF NbMs
  <1>4. CASE LoadWeight(g)
    <2> DEFINE q == [Q(g) EXCEPT !.pc = "storeWeight",
                                 !.weight = Int32(Lb(g).currentWeight - GcdOf(Ms(g)))]
    <2>1. Int32(Lb(g).currentWeight - GcdOf(Ms(g))) \in Int32s
      <3>1. Lb(g).currentWeight \in -Half .. Half - 1
        BY <1>2 DEF LbStates, Int32s
      <3>2. Lb(g).currentWeight - GcdOf(Ms(g)) \in -(2 * Half) .. 2 * Half - 1
        BY <1>3, <3>1
      <3>. QED  BY <3>2, Int32Type
    <2>2. "storeWeight" \in Pcs /\ "storeWeight" \in NextMemberPcs \ {"recheck"}
      BY DEF Pcs, NextMemberPcs
    <2>3. q \in Queries /\ q.pc = "storeWeight" /\ q.new = Q(g).new /\ Same(g, q)
      BY <1>2, <2>1, <2>2 DEF Queries, Same
    <2>4. refs' = refs /\ queries' = [queries EXCEPT ![g] = q]
      BY <1>4 DEF LoadWeight, Inv, TypeOK, Q
    <2>. HIDE DEF q
    <2>5. q.new < NbMs(g)
      BY <1>2, <2>3
    <2>. QED  BY <1>1, <2>2, <2>3, <2>4, <2>5, LoadsFine
  <1>5. CASE StoreWeight(g)
    <2> DEFINE b == [Lb(g) EXCEPT !.currentWeight = Q(g).weight]
    <2>1. Stores(g, b) /\ Goes(g, "check") /\ "check" \in NextMemberPcs
      BY <1>5 DEF StoreWeight, Stores, NextMemberPcs
    <2>2. Q(g).weight \in Int32s
      BY <1>2 DEF Queries
    <2>3. b \in LbStates /\ b.index = Lb(g).index /\ b.served = Lb(g).served /\ b.raced = Lb(g).raced
      BY <1>2, <2>2 DEF LbStates
    <2>. HIDE DEF b
    <2>. QED  BY <1>1, <1>2, <2>1, <2>3, StaysFine
  <1>6. CASE CheckWeight(g)
    <2> DEFINE pc == IF Lb(g).currentWeight <= 0 THEN "reset" ELSE "compare"
    <2>1. refs' = refs /\ Goes(g, pc) /\ pc \in NextMemberPcs \ {"recheck"}
      BY <1>6 DEF CheckWeight, NextMemberPcs
    <2>. HIDE DEF pc
    <2>. QED  BY <1>1, <1>2, <2>1, LbSame, StaysFine
  <1>7. CASE ResetWeight(g)
    <2> DEFINE b == [Lb(g) EXCEPT !.currentWeight = MaxWeight(Ms(g))]
    <2>1. Stores(g, b) /\ Goes(g, "recheck") /\ "recheck" \in NextMemberPcs
      BY <1>7 DEF ResetWeight, Stores, NextMemberPcs
    <2>2. MaxWeight(Ms(g)) \in Int32s
      BY <1>3 DEF Int32s
    <2>3. /\ b \in LbStates /\ b.index = Lb(g).index /\ b.served = Lb(g).served
          /\ b.raced = Lb(g).raced /\ b.currentWeight = MaxWeight(Ms(g))
      BY <1>2, <2>2 DEF LbStates
    <2>. HIDE DEF b
    <2>. QED  BY <1>1, <1>2, <2>1, <2>3, StaysFine
  <1>8. CASE RecheckWeight(g)
    <2>1. Q(g).pc = "recheck" /\ refs' = refs
      BY <1>8 DEF RecheckWeight, At
    <2>2. CASE Lb(g).currentWeight = 0
      <3>1. Lb(g).raced
        <4>1. Lb(g).raced \/ Lb(g).currentWeight = MaxWeight(Ms(g))
          BY <2>1 DEF Inv, AnswerInv, QueryOK, At
        <4>. QED  BY <4>1, <2>2, <1>3
      <3>2. Raced(g)
        <4>1. Q(g).ref \in 1 .. Len(refs) /\ Q(g).slot \in Slots
          BY <1>2, QueryFacts DEF Inv
        <4>2. Q(g).ref # 0
          BY <4>1
        <4>. QED  BY <3>1, <4>1, <4>2 DEF Raced, Lb
      <3>3. Returns(g, Nil)
        BY <1>8, <2>2 DEF RecheckWeight
      <3>. QED  BY <1>2, <2>1, <3>2, <3>3, LbSame, ReturnsFine, ResultTypes
    <2>3. CASE Lb(g).currentWeight # 0
      <3>1. Goes(g, "compare") /\ "compare" \in NextMemberPcs
        BY <1>8, <2>3 DEF RecheckWeight, NextMemberPcs
      <3>. QED  BY <1>1, <1>2, <2>1, <3>1, LbSame, StaysFine
    <2>. QED  BY <2>2, <2>3
  <1>. QED  BY <1>4, <1>5, <1>6, <1>7, <1>8

-----------------------------------------------------------------------------
(* All steps *)

\* The steps of the load balancers.
LEMMA NextStepFine ==
    ASSUME Inv, ~Panicked, NEW g \in Goroutines, NextStep(g)
    PROVE  /\ Q(g).pc # "idle" /\ cachedLoc' \in [Addrs -> Dcs \union {None}]
           /\ \E q, b : Fine(g, q, b)
  <1>1. Q(g).pc # "idle"
    BY DEF NextStep, RandomNext, RoundRobinNext, TopologyNext, TopologyLocate, WeightedNext,
           LoadIndex, StoreIndex, LoadWeight, StoreWeight, CheckWeight, ResetWeight,
           RecheckWeight, CompareWeight, Calls, At
  <1>2. cachedLoc \in [Addrs -> Dcs \union {None}]
    BY DEF Inv, TypeOK
  <1>3. CASE RandomNext(g) \/ RoundRobinNext(g)
    <2>1. cachedLoc' = cachedLoc
      BY <1>3 DEF RandomNext, RoundRobinNext
    <2>2. \E q, b : Fine(g, q, b)
      BY <1>3, RandomFine, RoundRobinFine
    <2>. QED  BY <1>1, <1>2, <2>1, <2>2
  <1>4. CASE TopologyNext(g) \/ TopologyLocate(g)
    BY <1>1, <1>4, TopologyFine
  <1>5. CASE WeightedNext(g) \/ LoadIndex(g) \/ StoreIndex(g) \/ CompareWeight(g)
    <2>1. cachedLoc' = cachedLoc
      BY <1>5 DEF WeightedNext, LoadIndex, StoreIndex, CompareWeight
    <2>2. \E q, b : Fine(g, q, b)
      BY <1>5, EnterFine, PositionFine
    <2>. QED  BY <1>1, <1>2, <2>1, <2>2
  <1>6. CASE LoadWeight(g) \/ StoreWeight(g) \/ CheckWeight(g) \/ ResetWeight(g) \/ RecheckWeight(g)
    <2>1. cachedLoc' = cachedLoc
      BY <1>6 DEF LoadWeight, StoreWeight, CheckWeight, ResetWeight, RecheckWeight
    <2>2. \E q, b : Fine(g, q, b)
      BY <1>6, WeightFine
    <2>. QED  BY <1>1, <1>2, <2>1, <2>2
  <1>. QED  BY <1>3, <1>4, <1>5, <1>6 DEF NextStep

LEMMA NextStepKeeps ==
    ASSUME Inv, ~Panicked, NEW g \in Goroutines, NextStep(g), UNCHANGED <<current, nbQueries>>
    PROVE  Inv'
  BY NextStepFine, FineKeeps

\* A step of a query, or its start, that leaves the load balancers alone.
LEMMA QueryKeeps ==
    ASSUME Inv, ~Panicked, NEW g \in Goroutines, NEW q \in Queries,
           queries' = [queries EXCEPT ![g] = q], q.pc \notin NextMemberPcs,
           UNCHANGED <<refs, cachedLoc, current>>, nbQueries' \in Nat,
           QueryTypeOK(g)', QueryOK(g)'
    PROVE  Inv'
  <1>. USE DEF Inv
  <1>1. /\ queries' \in [Goroutines -> Queries]
        /\ Q(g)' = q /\ \A h \in Goroutines \ {g} : Q(h)' = Q(h)
    BY DEF TypeOK, Q
  <1>2. /\ \A r \in 1 .. Len(refs), s \in Slots, t \in Types :
              LbAt(r, s, t)' = LbAt(r, s, t) /\ MembersAt(r, t)' = MembersAt(r, t)
        /\ refs' = refs
    BY DEF LbAt, MembersAt
  <1>3. \A h \in Goroutines \ {g} :
           /\ EntryOf(h)' = EntryOf(h) /\ Ms(h)' = Ms(h) /\ Lb(h)' = Lb(h)
           /\ Raced(h)' = Raced(h) /\ Key(h)' = Key(h) /\ InNextMember(h)' = InNextMember(h)
    BY <1>1 DEF EntryOf, Ms, Lb, Raced, Key, InNextMember
  <1>4. ~InNextMember(g)'
    BY <1>1 DEF InNextMember
  <1>5. TypeOK'
    <2>1. \A h \in Goroutines : QueryTypeOK(h)'
      BY <1>1, <1>2, <1>3 DEF TypeOK, QueryTypeOK, At
    <2>2. \A r \in 1 .. Len(refs), s \in Slots, t \in Types : IndexOK(r, s, t)'
      BY <1>2 DEF TypeOK, IndexOK
    <2>. QED  BY <1>1, <1>2, <2>1, <2>2 DEF TypeOK
  <1>6. FairInv'
    <2>1. ASSUME NEW b, NEW n, Overflowed(b, n)  PROVE b.number < -1 /\ b.number = -Half /\ Half % n = 0
      BY <2>1 DEF Overflowed
    <2>. QED  BY <1>2, <2>1 DEF FairInv, Overflowed, Counted, Share
  <1>7. AnswerInv'
    <2>1. \A h \in Goroutines : QueryOK(h)'
      BY <1>1, <1>2, <1>3 DEF AnswerInv, QueryOK, At
    <2>2. \A h, k \in Goroutines : h # k => Noticed(h, k)'
      BY <1>3, <1>4 DEF AnswerInv, Noticed
    <2>. QED  BY <2>1, <2>2 DEF AnswerInv
  <1>. QED  BY <1>5, <1>6, <1>7

LEMMA IdleType == Idle \in Queries /\ Idle.pc = "idle"
  <1>1. 0 \in Int32s
    BY HalfAssumption DEF Int32s
  <1>. QED  BY <1>1, ResultTypes DEF Idle, Queries, Pcs, Types, Slots

LEMMA GotMemberKeeps ==
    ASSUME Inv, ~Panicked, NEW g \in Goroutines, GotMember(g)
    PROVE  Inv'
  <1> DEFINE pc == IF Q(g).left = 1 THEN "answer" ELSE "next"
             q == [Q(g) EXCEPT !.answers = @ \union {Q(g).result}, !.left = @ - 1,
                               !.slot = 1, !.pc = pc]
  <1>1. /\ Q(g).pc = "returned" /\ Q(g).result # Error
        /\ UNCHANGED <<refs, cachedLoc, current>> /\ nbQueries' \in Nat
    BY DEF GotMember, At, Inv, TypeOK
  <1>2. /\ Q(g) \in Queries /\ Q(g).ref \in 1 .. Len(refs) /\ Q(g).addr \in Addrs
        /\ QueryTypeOK(g) /\ QueryOK(g) /\ Q(g).left \in Nat \ {0} /\ Q(g).result \in Results \ {Error}
    <2>1. Q(g) \in Queries /\ Q(g).ref \in 1 .. Len(refs) /\ Q(g).addr \in Addrs
      BY <1>1, QueryFacts DEF Inv
    <2>2. QueryTypeOK(g) /\ QueryOK(g)
      BY DEF Inv, TypeOK, AnswerInv
    <2>. QED  BY <1>1, <2>1, <2>2 DEF QueryTypeOK, Queries, At
  <1>3. queries' = [queries EXCEPT ![g] = q]
    BY DEF GotMember, Inv, TypeOK, Q
  <1>4. /\ pc \in {"answer", "next"} /\ pc \in Pcs /\ pc \notin NextMemberPcs
        /\ pc = "answer" \/ Q(g).left - 1 # 0
    BY <1>2 DEF Pcs, NextMemberPcs
  <1>5. 1 \in Slots /\ Q(g).left - 1 \in Nat
    BY <1>2 DEF Slots
  <1>. HIDE DEF pc
  <1>6. /\ q \in Queries /\ q.pc = pc /\ q.left = Q(g).left - 1 /\ q.slot = 1
        /\ q.answers = Q(g).answers \union {Q(g).result} /\ q.new = Q(g).new
        /\ q.ref = Q(g).ref /\ q.type = Q(g).type /\ q.addr = Q(g).addr
    BY <1>2, <1>4, <1>5 DEF Queries
  <1>. HIDE DEF q
  <1>7. Q(g)' = q /\ Ms(g)' = Ms(g) /\ Raced(g)' = Raced(g)
    <2>1. Q(g)' = q
      BY <1>3 DEF Inv, TypeOK, Q
    <2>. QED  BY <1>1, <1>6, <2>1 DEF Ms, EntryOf, Raced
  <1>8. QueryTypeOK(g)'
    BY <1>1, <1>2, <1>4, <1>6, <1>7 DEF QueryTypeOK, At, InNextMember
  <1>9. QueryOK(g)'
    <2>1. Nil \in q.answers => Ms(g) = <<>> \/ Raced(g)
      BY <1>1, <1>2, <1>6 DEF QueryOK, At
    <2>2. q.answers # {}
      BY <1>6
    <2>3. 1 .. q.slot - 1 = {}
      BY <1>6
    <2>. QED  BY <2>1, <2>2, <2>3, <1>4, <1>6, <1>7 DEF QueryOK, At, InNextMember
  <1>. QED  BY <1>1, <1>3, <1>4, <1>6, <1>8, <1>9, QueryKeeps

LEMMA GotErrorKeeps ==
    ASSUME Inv, ~Panicked, NEW g \in Goroutines, GotError(g)
    PROVE  Inv'
  <1>1. /\ Q(g).pc = "returned" /\ Q(g).result = Error
        /\ UNCHANGED <<refs, cachedLoc, current>> /\ nbQueries' \in Nat
    BY DEF GotError, At, Inv, TypeOK
  <1>2. /\ Q(g) \in Queries /\ Q(g).ref \in 1 .. Len(refs) /\ Q(g).addr \in Addrs
        /\ Q(g).slot \in Slots /\ QueryTypeOK(g) /\ QueryOK(g)
    <2>1. /\ Q(g) \in Queries /\ Q(g).ref \in 1 .. Len(refs) /\ Q(g).addr \in Addrs
          /\ Q(g).slot \in Slots
      BY <1>1, QueryFacts DEF Inv
    <2>2. QueryTypeOK(g) /\ QueryOK(g)
      BY DEF Inv, TypeOK, AnswerInv
    <2>. QED  BY <2>1, <2>2
  <1>3. \A s \in 1 .. Q(g).slot : EntryOf(g).algos[s] = "TOPOLOGY"
    <2>1. EntryOf(g).algos[Q(g).slot] = "TOPOLOGY"
      BY <1>1, <1>2 DEF QueryOK, At
    <2>2. \A s \in 1 .. Q(g).slot - 1 : EntryOf(g).algos[s] = "TOPOLOGY"
      BY <1>1, <1>2 DEF QueryOK
    <2>. QED  BY <2>1, <2>2, <1>2 DEF Slots
  <1>4. Nil \in Q(g).answers => Ms(g) = <<>> \/ Raced(g)
    BY <1>1, <1>2 DEF QueryOK
  <1>5. CASE Q(g).slot = 3
    <2> DEFINE q == [Q(g) EXCEPT !.pc = "failed"]
    <2>1. queries' = [queries EXCEPT ![g] = q]
      BY <1>5 DEF GotError, Inv, TypeOK, Q
    <2>2. "failed" \in Pcs /\ "failed" \notin NextMemberPcs
      BY DEF Pcs, NextMemberPcs
    <2>3. q \in Queries /\ q.pc = "failed" /\ Same(g, q) /\ q.new = Q(g).new
      BY <1>2, <2>2 DEF Queries, Same
    <2>. HIDE DEF q
    <2>4. Q(g)' = q /\ Ms(g)' = Ms(g) /\ EntryOf(g)' = EntryOf(g) /\ Raced(g)' = Raced(g)
      <3>1. Q(g)' = q
        BY <2>1 DEF Inv, TypeOK, Q
      <3>. QED  BY <1>1, <2>3, <3>1 DEF Ms, EntryOf, Raced, Same
    <2>5. QueryTypeOK(g)'
      BY <1>1, <1>2, <2>2, <2>3, <2>4 DEF QueryTypeOK, At, InNextMember, Same
    <2>6. QueryOK(g)'
      <3>1. \A s \in Slots : EntryOf(g).algos[s] = "TOPOLOGY"
        BY <1>3, <1>5 DEF Slots
      <3>2. \A s \in 1 .. Q(g).slot - 1 : EntryOf(g).algos[s] = "TOPOLOGY"
        BY <1>3, <1>5
      <3>. QED  BY <1>4, <2>2, <2>3, <2>4, <3>1, <3>2 DEF QueryOK, At, InNextMember, Same
    <2>. QED  BY <1>1, <2>1, <2>2, <2>3, <2>5, <2>6, QueryKeeps
  <1>6. CASE Q(g).slot # 3
    <2> DEFINE q == [Q(g) EXCEPT !.pc = "next", !.slot = @ + 1]
    <2>1. queries' = [queries EXCEPT ![g] = q]
      BY <1>6 DEF GotError, Inv, TypeOK, Q
    <2>2. "next" \in Pcs /\ "next" \notin NextMemberPcs /\ Q(g).slot + 1 \in Slots
      BY <1>2, <1>6 DEF Pcs, NextMemberPcs, Slots
    <2>3. /\ q \in Queries /\ q.pc = "next" /\ q.new = Q(g).new /\ q.slot = Q(g).slot + 1
          /\ q.ref = Q(g).ref /\ q.type = Q(g).type /\ q.addr = Q(g).addr
          /\ q.left = Q(g).left /\ q.answers = Q(g).answers
      BY <1>2, <2>2 DEF Queries
    <2>. HIDE DEF q
    <2>4. Q(g)' = q /\ Ms(g)' = Ms(g) /\ EntryOf(g)' = EntryOf(g) /\ Raced(g)' = Raced(g)
      <3>1. Q(g)' = q
        BY <2>1 DEF Inv, TypeOK, Q
      <3>. QED  BY <1>1, <2>3, <3>1 DEF Ms, EntryOf, Raced
    <2>5. QueryTypeOK(g)'
      BY <1>1, <1>2, <2>2, <2>3, <2>4 DEF QueryTypeOK, At, InNextMember
    <2>6. QueryOK(g)'
      <3>1. 1 .. q.slot - 1 = 1 .. Q(g).slot
        BY <1>2, <2>3 DEF Slots
      <3>. QED  BY <1>3, <1>4, <2>2, <2>3, <2>4, <3>1 DEF QueryOK, At, InNextMember
    <2>. QED  BY <1>1, <2>1, <2>2, <2>3, <2>5, <2>6, QueryKeeps
  <1>. QED  BY <1>5, <1>6

LEMMA AnswerKeeps ==
    ASSUME Inv, ~Panicked, NEW g \in Goroutines, Answer(g)
    PROVE  Inv'
  <1>1. /\ queries' = [queries EXCEPT ![g] = Idle]
        /\ UNCHANGED <<refs, cachedLoc, current>> /\ nbQueries' \in Nat
    BY DEF Answer, Inv, TypeOK
  <1>2. Q(g)'.pc = "idle"
    BY <1>1, IdleType DEF Inv, TypeOK, Q
  <1>3. Idle.pc \notin NextMemberPcs
    BY IdleType DEF NextMemberPcs
  <1>4. QueryTypeOK(g)' /\ QueryOK(g)'
    BY <1>2 DEF QueryTypeOK, QueryOK
  <1>. QED  BY <1>1, <1>3, <1>4, IdleType, QueryKeeps

LEMMA ResolveKeeps ==
    ASSUME Inv, ~Panicked, NEW g \in Goroutines, NEW t \in QueryTypes, NEW a \in Addrs,
           Resolve(g, t, a)
    PROVE  Inv'
  <1> DEFINE max == refs[current].entry.maxAnswers
             left == IF max <= 1 THEN 1 ELSE max
             q == [Idle EXCEPT !.pc = "next", !.type = t, !.addr = a, !.ref = current, !.left = left]
  <1>1. current \in 1 .. Len(refs) /\ t \in Types
    BY EntriesAssumption DEF Resolve, Inv, TypeOK
  <1>2. left \in Nat \ {0}
    <2>1. max \in Nat
      BY <1>1, RefType, EntriesAssumption DEF Inv
    <2>. QED  BY <2>1
  <1>3. /\ queries' = [queries EXCEPT ![g] = q]
        /\ UNCHANGED <<refs, cachedLoc, current>> /\ nbQueries' \in Nat
    BY DEF Resolve, Inv, TypeOK
  <1>. HIDE DEF left
  <1>4. "next" \in Pcs /\ "next" \notin NextMemberPcs /\ current \in Nat
    BY <1>1 DEF Pcs, NextMemberPcs
  <1>5. /\ q.pc = "next" /\ q.type = t /\ q.addr = a /\ q.ref = current /\ q.left = left
        /\ q.slot = 1 /\ q.answers = {} /\ q.new = 0
    BY DEF Idle
  <1>6. q \in Queries
    BY <1>1, <1>2, <1>4, IdleType DEF Queries
  <1>. HIDE DEF q
  <1>7. Q(g)' = q /\ Q(g)'.ref \in 1 .. Len(refs')
    BY <1>1, <1>3, <1>5 DEF Inv, TypeOK, Q
  <1>8. QueryTypeOK(g)'
    BY <1>2, <1>4, <1>5, <1>7 DEF QueryTypeOK, At, InNextMember
  <1>9. QueryOK(g)'
    <2>1. 1 .. q.slot - 1 = {}
      BY <1>5
    <2>. QED  BY <1>4, <1>5, <1>7, <2>1 DEF QueryOK, At, InNextMember
  <1>. QED  BY <1>3, <1>4, <1>5, <1>6, <1>8, <1>9, QueryKeeps

\* What an entry is received with.
LEMMA NewRefType ==
    ASSUME NEW e \in CatalogEntries
    PROVE  /\ NewRef(e) \in Refs /\ NewRef(e).entry = e
           /\ \A s \in Slots, t \in Types :
                 LET b == NewRef(e).lbs[s][t] n == Len(OfType(e, t))
                 IN  /\ n \in Nat /\ b.index = -1 /\ b.number = -1
                     /\ DOMAIN b.served = 1 .. n /\ (n > 1 => Counted(b, n))
  <1>1. ASSUME NEW t \in Types
        PROVE  /\ Len(OfType(e, t)) \in Nat /\ NewLb(e)[t] \in LbStates
               /\ NewLb(e)[t].index = -1 /\ NewLb(e)[t].number = -1
               /\ DOMAIN NewLb(e)[t].served = 1 .. Len(OfType(e, t))
               /\ Len(OfType(e, t)) > 1 => Counted(NewLb(e)[t], Len(OfType(e, t)))
    <2> DEFINE n == Len(OfType(e, t))
               sv == [i \in 1 .. n |-> 0]
               b == NewLb(e)[t]
    <2>1. n \in Nat
      BY MembersType
    <2>2. b = [number |-> -1, index |-> -1, currentWeight |-> 0, served |-> sv, raced |-> FALSE]
      BY DEF NewLb
    <2>. HIDE DEF n, b
    <2>3. sv \in Seq(Nat) /\ DOMAIN sv = 1 .. n /\ \A i \in 1 .. n : sv[i] = 0
      BY <2>1
    <2>. HIDE DEF sv
    <2>4. -1 \in Int32s /\ 0 \in Int32s
      BY HalfAssumption DEF Int32s
    <2>5. b \in LbStates /\ b.index = -1 /\ b.number = -1 /\ b.served = sv
      BY <2>2, <2>3, <2>4 DEF LbStates
    <2>6. n > 1 => Counted(b, n)
      <3>1. ASSUME n > 1, NEW i \in 1 .. n  PROVE sv[i] = Share(-1, n, i)
        <4>1. n \in Nat \ {0}
          BY <2>1, <3>1
        <4>. QED  BY <2>3, <4>1, ShareStart
      <3>. QED  BY <2>5, <3>1 DEF Counted
    <2>. QED  BY <2>1, <2>3, <2>5, <2>6 DEF n, b
  <1>2. NewRef(e) = [entry |-> e, lbs |-> [s \in Slots |-> NewLb(e)]]
    BY DEF NewRef
  <1>3. NewLb(e) \in [Types -> LbStates]
    <2>1. NewLb(e) = [t \in Types |-> NewLb(e)[t]]
      BY DEF NewLb
    <2>. QED  BY <1>1, <2>1
  <1>4. NewRef(e) \in Refs /\ NewRef(e).entry = e /\ \A s \in Slots : NewRef(e).lbs[s] = NewLb(e)
    BY <1>2, <1>3 DEF Refs
  <1>. QED  BY <1>1, <1>4

LEMMA SetKeeps ==
    ASSUME Inv, ~Panicked, NEW e \in CatalogEntries, SetCatalogEntry(e)
    PROVE  Inv'
  <1>. USE DEF Inv
  <1>0. PICK n : n = Len(refs)
    OBVIOUS
  <1>1. /\ refs' = Append(refs, NewRef(e)) /\ current' = Len(refs')
        /\ UNCHANGED <<cachedLoc, queries, nbQueries>>
    BY DEF SetCatalogEntry
  <1>2. /\ refs' \in Seq(Refs) /\ Len(refs') = n + 1 /\ n \in Nat
        /\ \A r \in 1 .. n : refs'[r] = refs[r]
        /\ refs'[n + 1] = NewRef(e)
    <2>1. refs \in Seq(Refs) /\ NewRef(e) \in Refs
      BY NewRefType DEF TypeOK
    <2>. QED  BY <1>0, <1>1, <2>1, AppendProperties, LenProperties
  <1>3. \A r \in 1 .. n, s \in Slots, t \in Types :
           LbAt(r, s, t)' = LbAt(r, s, t) /\ MembersAt(r, t)' = MembersAt(r, t)
    BY <1>2 DEF LbAt, MembersAt
  <1>4. \A s \in Slots, t \in Types :
           LET b == LbAt(n + 1, s, t)' m == Len(MembersAt(n + 1, t)')
           IN  /\ m \in Nat /\ b.index = -1 /\ DOMAIN b.served = 1 .. m
               /\ m > 1 => Counted(b, m)
    <2>1. \A s \in Slots, t \in Types :
             LbAt(n + 1, s, t)' = NewRef(e).lbs[s][t] /\ MembersAt(n + 1, t)' = OfType(e, t)
      BY <1>2, NewRefType DEF LbAt, MembersAt
    <2>. QED  BY <2>1, NewRefType
  <1>5. 1 .. Len(refs') = (1 .. n) \union {n + 1} /\ 1 .. Len(refs) = 1 .. n
    BY <1>0, <1>2
  <1>6. \A g \in Goroutines : Q(g)' = Q(g) /\ Key(g)' = Key(g) /\ InNextMember(g)' = InNextMember(g)
    BY <1>1 DEF Q, Key, InNextMember
  <1>7. ASSUME NEW g \in Goroutines, Q(g).pc # "idle"
        PROVE  /\ Q(g).ref \in 1 .. n /\ EntryOf(g)' = EntryOf(g) /\ Ms(g)' = Ms(g)
               /\ Lb(g)' = Lb(g) /\ Raced(g)' = Raced(g)
    <2>1. Q(g).ref \in 1 .. n
      BY <1>0, <1>7, QueryFacts
    <2>. QED  BY <1>2, <1>6, <2>1 DEF EntryOf, Ms, Lb, Raced
  <1>8. TypeOK'
    <2>1. \A g \in Goroutines : QueryTypeOK(g)'
      <3>1. ASSUME NEW g \in Goroutines, Q(g).pc # "idle"  PROVE QueryTypeOK(g)'
        <4>1. QueryTypeOK(g)
          BY DEF TypeOK
        <4>. QED  BY <3>1, <4>1, <1>5, <1>6, <1>7 DEF QueryTypeOK, At
      <3>. QED  BY <3>1, <1>6 DEF QueryTypeOK
    <2>2. ASSUME NEW r \in 1 .. Len(refs'), NEW s \in Slots, NEW t \in Types
          PROVE  IndexOK(r, s, t)'
      <3>1. CASE r \in 1 .. n
        <4>1. IndexOK(r, s, t)
          BY <3>1, <1>5 DEF TypeOK
        <4>. QED  BY <3>1, <4>1, <1>3 DEF IndexOK
      <3>2. CASE r = n + 1
        BY <3>2, <1>4 DEF IndexOK
      <3>. QED  BY <3>1, <3>2, <1>5
    <2>3. current' \in 0 .. Len(refs')
      BY <1>1, <1>2
    <2>. QED  BY <1>1, <1>2, <2>1, <2>2, <2>3 DEF TypeOK
  <1>9. FairInv'
    <2>1. ASSUME NEW r \in 1 .. Len(refs'), NEW s \in Slots, NEW t \in Types,
                 refs'[r].entry.algos[s] = "ROUND_ROBIN", Len(MembersAt(r, t)') > 1
          PROVE  \/ Counted(LbAt(r, s, t)', Len(MembersAt(r, t)'))
                 \/ Overflowed(LbAt(r, s, t), Len(MembersAt(r, t)))'
      <3>1. CASE r \in 1 .. n
        <4>1. \/ Counted(LbAt(r, s, t), Len(MembersAt(r, t)))
              \/ Overflowed(LbAt(r, s, t), Len(MembersAt(r, t)))
          BY <2>1, <3>1, <1>2, <1>3, <1>5 DEF FairInv
        <4>. QED  BY <3>1, <4>1, <1>3 DEF Overflowed
      <3>2. CASE r = n + 1
        BY <2>1, <3>2, <1>4
      <3>. QED  BY <3>1, <3>2, <1>5
    <2>. QED  BY <2>1 DEF FairInv, Counted, Share
  <1>10. AnswerInv'
    <2>1. \A g \in Goroutines : QueryOK(g)'
      <3>1. ASSUME NEW g \in Goroutines, Q(g).pc # "idle"  PROVE QueryOK(g)'
        <4>1. QueryOK(g)
          BY DEF AnswerInv
        <4>. QED  BY <3>1, <4>1, <1>6, <1>7 DEF QueryOK, At
      <3>. QED  BY <3>1, <1>6 DEF QueryOK
    <2>2. ASSUME NEW g \in Goroutines, NEW h \in Goroutines, g # h  PROVE Noticed(g, h)'
      <3>1. InNextMember(g) => Q(g).pc # "idle"
        BY DEF InNextMember, NextMemberPcs
      <3>. QED  BY <2>2, <3>1, <1>6, <1>7 DEF AnswerInv, Noticed
    <2>. QED  BY <2>1, <2>2 DEF AnswerInv
  <1>. QED  BY <1>8, <1>9, <1>10

\* A step that leaves the load balancers and the queries alone.
LEMMA OthersKeep ==
    ASSUME Inv, UNCHANGED <<cachedLoc, refs, queries, nbQueries>>, current' \in 0 .. Len(refs)
    PROVE  Inv'
  <1>1. TypeOK'
    BY DEF Inv, TypeOK, IndexOK, QueryTypeOK, Q, At, Ms, EntryOf, InNextMember, LbAt, MembersAt
  <1>2. FairInv'
    BY DEF Inv, FairInv, LbAt, MembersAt, Counted, Share, Overflowed, Panicked, At, Q
  <1>3. AnswerInv'
    BY DEF Inv, AnswerInv, QueryOK, Noticed, Q, At, Ms, EntryOf, InNextMember, Lb, Raced, Key
  <1>. QED  BY <1>1, <1>2, <1>3 DEF Inv

-----------------------------------------------------------------------------
(* What a weighted round robin has answered *)

LEMMA NotNegative ==
    ASSUME NEW n \in Nat \ {0}, NEW k \in Int, n * k >= 0
    PROVE  k >= 0
  <1>1. k <= -1 => n * k <= -n
    BY SMT
  <1>. QED  BY <1>1

\* Two multiples of d that differ, differ by d at least.
LEMMA MultipleBelow ==
    ASSUME NEW d \in Nat \ {0}, NEW a \in Int, NEW b \in Int, a % d = 0, b % d = 0, a < b
    PROVE  a + d <= b
  <1>1. /\ a \div d \in Int /\ a = d * (a \div d) + 0
        /\ b \div d \in Int /\ b = d * (b \div d) + 0
    BY DivMod
  <1>2. PICK p, q : p = a \div d /\ q = b \div d
    OBVIOUS
  <1>3. b - a = d * (q - p) /\ q - p \in Int
    BY <1>1, <1>2, SMT
  <1>4. ASSUME b < a + d  PROVE FALSE
    <2>1. -d < d * (q - p) /\ d * (q - p) < d
      BY <1>3, <1>4
    <2>2. q - p = 0
      BY <1>3, <2>1, SmallMultiple
    <2>. QED  BY <1>3, <2>2
  <1>. QED  BY <1>4

LEMMA MinusMultiple ==
    ASSUME NEW d \in Nat \ {0}, NEW a \in Int, a % d = 0
    PROVE  (a - d) % d = 0
  <1>1. a \div d \in Int /\ a = d * (a \div d) + 0
    BY DivMod
  <1> DEFINE q == a \div d
  <1>. HIDE DEF q
  <1>2. a - d = d * (q - 1) + 0 /\ q - 1 \in Int /\ a - d \in Int /\ 0 \in 0 .. d - 1
    BY <1>1, SMT DEF q
  <1>. QED  BY <1>2, DivUnique

\* The levels of members of which the first is the heaviest: the maximum and
\* every ratio are multiples of gcd, and no ratio is below it.
LEMMA Ratios ==
    ASSUME NEW ms \in Seq(Members), Len(ms) > 1
    PROVE  /\ Len(ms) \in Nat /\ GcdOf(ms) \in Nat \ {0} /\ MaxWeight(ms) \in Nat
           /\ GcdOf(ms) <= MaxWeight(ms) /\ MaxWeight(ms) < Half
           /\ Level(ms, MaxWeight(ms))
           /\ \A i \in 1 .. Len(ms) : ms[i].ratio \in Nat
           /\ HeaviestFirst(ms) => /\ MaxWeight(ms) = ms[1].ratio
                                   /\ \A i \in 1 .. Len(ms) : /\ ms[i].ratio % GcdOf(ms) = 0
                                                              /\ ms[i].ratio >= GcdOf(ms)
                                                              /\ ms[i].ratio <= MaxWeight(ms)
  <1> DEFINE d == GcdOf(ms)
             M == MaxWeight(ms)
  <1>1. /\ M \in 1 .. Half - 1 /\ d \in 1 .. M /\ Divides(d, ms) /\ Half \in Nat
    BY GcdType, HalfAssumption
  <1>2. Len(ms) \in Nat /\ 1 \in 1 .. Len(ms)
    BY LenProperties
  <1>3. M % d = 0
    BY <1>1, <1>2 DEF Divides, MaxWeight
  <1>4. \A i \in 1 .. Len(ms) : ms[i].ratio \in Nat
    BY WeightType, HalfAssumption
  <1>. HIDE DEF d, M
  <1>5. d \in Nat \ {0} /\ M \in Nat /\ d <= M /\ M < Half
    BY <1>1
  <1>6. ASSUME HeaviestFirst(ms)
        PROVE  M = ms[1].ratio /\ \A i \in 1 .. Len(ms) : ms[i].ratio % d = 0 /\ ms[i].ratio >= d
                                                          /\ ms[i].ratio <= M
    <2>1. \A i \in 1 .. Len(ms) : ms[i].ratio \in 1 .. ms[1].ratio /\ Weight(ms[i]) = ms[i].ratio
      BY <1>4, <1>6 DEF HeaviestFirst, Weight
    <2>2. M = ms[1].ratio
      BY <2>1, <1>2 DEF M, MaxWeight
    <2>3. ASSUME NEW i \in 1 .. Len(ms)
          PROVE  ms[i].ratio % d = 0 /\ ms[i].ratio >= d /\ ms[i].ratio <= M
      <3>0. PICK r : r = ms[i].ratio
        OBVIOUS
      <3>1. r \in Int /\ r > 0 /\ r <= M /\ r % d = 0
        BY <1>1, <1>2, <1>4, <2>1, <2>2, <3>0 DEF Divides
      <3>2. 0 % d = 0
        <4>1. 0 = d * 0 + 0 /\ 0 \in 0 .. d - 1
          BY <1>5
        <4>. QED  BY <1>5, <4>1, DivUnique
      <3>3. 0 + d <= r
        BY <1>5, <3>1, <3>2, MultipleBelow
      <3>. QED  BY <1>5, <3>0, <3>1, <3>3
    <2>. QED  BY <2>2, <2>3
  <1>. QED  BY <1>2, <1>3, <1>4, <1>5, <1>6 DEF d, M, Level

\* A load balancer of members: what is assumed of it here.
Balances(b, ms) ==
    /\ ms \in Seq(Members) /\ Len(ms) > 1 /\ b \in LbStates
    /\ b.index \in -1 .. Len(ms) - 1 /\ DOMAIN b.served = 1 .. Len(ms)

LEMMA BalancesFacts ==
    ASSUME NEW b, NEW ms, Balances(b, ms)
    PROVE  /\ b.currentWeight \in Int /\ b.index \in Int
           /\ \A i \in 1 .. Len(ms) : b.served[i] \in Nat
  <1>1. b \in LbStates /\ DOMAIN b.served = 1 .. Len(ms) /\ Half \in Nat
    BY HalfAssumption DEF Balances
  <1>2. b.served \in Seq(Nat) /\ b.index \in Int /\ b.currentWeight \in -Half .. Half - 1
    BY <1>1 DEF LbStates, Int32s
  <1>3. DOMAIN b.served = 1 .. Len(b.served)
    BY <1>2, LenProperties
  <1>. QED  BY <1>1, <1>2, <1>3, ElementOfSeq

\* Once all members are met at a weight, it is the next one's turn, or the end
\* of a cycle.
LEMMA TurnReached ==
    ASSUME NEW b, NEW ms, Balances(b, ms), NEW w \in Nat, Reached(b, ms, w, Len(ms))
    PROVE  Reached(b, ms, w - GcdOf(ms), 0)
  <1>0. PICK d, M, n : d = GcdOf(ms) /\ M = MaxWeight(ms) /\ n = Len(ms)
    OBVIOUS
  <1>1. /\ n \in Nat /\ n > 1 /\ d \in Nat \ {0} /\ M \in Nat /\ d <= M
        /\ \A i \in 1 .. n : ms[i].ratio \in Nat /\ b.served[i] \in Nat
        /\ HeaviestFirst(ms) => /\ M = ms[1].ratio
                                /\ \A i \in 1 .. n : ms[i].ratio >= d /\ ms[i].ratio <= M
    BY <1>0, Ratios, BalancesFacts DEF Balances
  <1>2. CASE w = 0
    BY <1>0, <1>1, <1>2 DEF Reached
  <1>3. CASE w > 0
    <2>1. w \in d .. M /\ w % d = 0 /\ Met(b, ms, w, n)
      BY <1>0, <1>3 DEF Reached, Level
    <2>2. CASE w = d
      <3>1. SUFFICES ASSUME HeaviestFirst(ms)
                     PROVE  \E c \in 0 .. b.served[1] : \A i \in 1 .. n :
                               d * b.served[i] = c * ms[i].ratio + MetBy(ms, i, M, 0)
        BY <1>0, <1>1, <2>2 DEF Reached, Met
      <3>2. PICK c \in 0 .. b.served[1] : \A i \in 1 .. n :
                    d * b.served[i] = c * ms[i].ratio + MetBy(ms, i, d, n)
        BY <1>0, <2>1, <2>2, <3>1 DEF Met
      <3>3. c \in Nat
        BY <1>1, <3>2
      <3>4. ASSUME NEW i \in 1 .. n
            PROVE  d * b.served[i] = (c + 1) * ms[i].ratio /\ MetBy(ms, i, M, 0) = 0
        <4>0. PICK r, s : r = ms[i].ratio /\ s = b.served[i]
          OBVIOUS
        <4>1. MetBy(ms, i, d, n) = r
          BY <1>0, <1>1, <3>1, <4>0 DEF MetBy, Beyond
        <4>2. MetBy(ms, i, M, 0) = 0
          <5>1. ~(i <= 0) /\ ~(r >= M + d)
            BY <1>1, <3>1, <4>0
          <5>2. MetBy(ms, i, M, 0) = Beyond(r, M + d, d)
            BY <1>0, <4>0, <5>1 DEF MetBy
          <5>. QED  BY <5>1, <5>2 DEF Beyond
        <4>3. d * s = c * r + r /\ r \in Nat
          BY <1>1, <3>2, <4>0, <4>1
        <4>4. d * s = (c + 1) * r
          BY <3>3, <4>3, SMT
        <4>. QED  BY <4>0, <4>2, <4>4
      <3>5. c + 1 \in 0 .. b.served[1]
        <4>0. PICK s : s = b.served[1]
          OBVIOUS
        <4>1. d * s = (c + 1) * M /\ s \in Nat
          <5>1. 1 \in 1 .. n
            BY <1>1
          <5>. QED  BY <1>1, <3>1, <3>4, <4>0, <5>1
        <4>2. (c + 1) * M >= (c + 1) * d
          BY <1>1, <3>3, SMT
        <4>3. d * (s - (c + 1)) >= 0
          BY <1>1, <3>3, <4>1, <4>2, SMT
        <4>4. s - (c + 1) >= 0
          BY <1>1, <3>3, <4>1, <4>3, NotNegative
        <4>. QED  BY <3>3, <4>0, <4>1, <4>4
      <3>6. \A i \in 1 .. n : (c + 1) * ms[i].ratio + 0 = (c + 1) * ms[i].ratio
        BY <1>1, <3>3
      <3>. QED  BY <3>4, <3>5, <3>6
    <2>3. CASE w # d
      <3>1. d + d <= w
        <4>1. d % d = 0
          <5>1. d = d * 1 + 0 /\ 0 \in 0 .. d - 1 /\ d \in Int
            BY <1>1
          <5>. QED  BY <1>1, <5>1, DivUnique
        <4>2. d < w /\ d \in Int /\ w \in Int
          BY <1>1, <2>1, <2>3
        <4>. QED  BY <1>1, <2>1, <4>1, <4>2, MultipleBelow
      <3>2. w - d \in d .. M /\ (w - d) % d = 0 /\ ~(w - d <= 0)
        <4>1. w - d \in d .. M /\ ~(w - d <= 0) /\ w \in Int
          BY <1>1, <2>1, <3>1
        <4>. QED  BY <1>1, <2>1, <4>1, MinusMultiple
      <3>3. \A i \in 1 .. n : MetBy(ms, i, w - d, 0) = MetBy(ms, i, w, n)
        <4>1. w - d + d = w
          BY <1>1
        <4>. QED  BY <1>0, <1>1, <4>1 DEF MetBy
      <3>4. Met(b, ms, w - d, 0)
        BY <1>0, <2>1, <3>3 DEF Met
      <3>. QED  BY <1>0, <3>2, <3>4 DEF Reached, Level
    <2>. QED  BY <2>2, <2>3
  <1>. QED  BY <1>2, <1>3

\* The member at the position is answered exactly when that is its due.
LEMMA CompareReached ==
    ASSUME NEW b, NEW ms, Balances(b, ms), NEW k \in 0 .. Len(ms) - 1,
           b.currentWeight > 0, Reached(b, ms, b.currentWeight, k), NEW a,
           \A i \in 1 .. Len(ms) : a.served[i] =
               IF i = k + 1 /\ ms[i].ratio >= b.currentWeight THEN b.served[i] + 1 ELSE b.served[i]
    PROVE  Reached(a, ms, b.currentWeight, k + 1)
  <1>0. PICK d, M, n, w : d = GcdOf(ms) /\ M = MaxWeight(ms) /\ n = Len(ms) /\ w = b.currentWeight
    OBVIOUS
  <1>1. /\ n \in Nat /\ n > 1 /\ d \in Nat \ {0} /\ M \in Nat /\ d <= M /\ w \in Int
        /\ \A i \in 1 .. n : ms[i].ratio \in Nat /\ b.served[i] \in Nat
        /\ HeaviestFirst(ms) => \A i \in 1 .. n : ms[i].ratio % d = 0
    BY <1>0, Ratios, BalancesFacts DEF Balances
  <1>2. ~(w <= 0) /\ Level(ms, w) /\ w % d = 0 /\ Met(b, ms, w, k)
    BY <1>0, <1>1 DEF Reached, Level
  <1>3. ASSUME HeaviestFirst(ms)
        PROVE  \E c \in 0 .. a.served[1] : \A i \in 1 .. n :
                  d * a.served[i] = c * ms[i].ratio + MetBy(ms, i, w, k + 1)
    <2>1. PICK c \in 0 .. b.served[1] : \A i \in 1 .. n :
                  d * b.served[i] = c * ms[i].ratio + MetBy(ms, i, w, k)
      BY <1>0, <1>2, <1>3 DEF Met
    <2>2. c \in Nat /\ c \in 0 .. a.served[1]
      <3>0. 1 \in 1 .. n
        BY <1>1
      <3>1. a.served[1] \in Nat /\ a.served[1] >= b.served[1]
        <4>1. a.served[1] = b.served[1] \/ a.served[1] = b.served[1] + 1
          BY <1>0, <3>0
        <4>. QED  BY <1>1, <3>0, <4>1
      <3>. QED  BY <1>1, <2>1, <3>1
    <2>3. ASSUME NEW i \in 1 .. n
          PROVE  d * a.served[i] = c * ms[i].ratio + MetBy(ms, i, w, k + 1)
      <3>0. PICK r, s : r = ms[i].ratio /\ s = b.served[i]
        OBVIOUS
      <3>1. r \in Nat /\ s \in Nat /\ d * s = c * r + MetBy(ms, i, w, k)
        BY <1>1, <2>1, <3>0
      <3>2. CASE i # k + 1
        <4>1. i <= k <=> i <= k + 1
          BY <1>0, <1>1, <3>2
        <4>2. MetBy(ms, i, w, k + 1) = MetBy(ms, i, w, k) /\ a.served[i] = s
          BY <1>0, <3>0, <3>2, <4>1 DEF MetBy
        <4>. QED  BY <3>0, <3>1, <4>2
      <3>3. CASE i = k + 1
        <4>1. /\ MetBy(ms, i, w, k) = Beyond(r, w + d, d)
              /\ MetBy(ms, i, w, k + 1) = Beyond(r, w, d)
              /\ a.served[i] = IF r >= w THEN s + 1 ELSE s
          BY <1>0, <1>1, <3>0, <3>3 DEF MetBy
        <4>2. CASE r >= w
          <5>1. Beyond(r, w, d) = Beyond(r, w + d, d) + d
            <6>1. CASE r >= w + d
              BY <1>1, <3>1, <4>2, <6>1 DEF Beyond
            <6>2. CASE r < w + d
              <7>1. r \in Int /\ r % d = 0
                BY <1>1, <1>3, <3>0, <3>1
              <7>2. r = w
                <8>1. SUFFICES ASSUME w < r PROVE FALSE
                  BY <1>1, <3>1, <4>2
                <8>2. w + d <= r
                  BY <1>1, <1>2, <7>1, <8>1, MultipleBelow
                <8>. QED  BY <1>1, <3>1, <6>2, <8>2
              <7>. QED  BY <1>1, <3>1, <6>2, <7>2 DEF Beyond
            <6>. QED  BY <1>1, <3>1, <6>1, <6>2
          <5>2. d * (s + 1) = d * s + d
            BY <1>1, <3>1, SMT
          <5>3. PICK u, x : u = Beyond(r, w + d, d) /\ x = c * r
            OBVIOUS
          <5>4. u \in Int /\ x \in Int
            BY <1>1, <2>2, <3>1, <5>3 DEF Beyond
          <5>5. d * (s + 1) = x + (u + d)
            <6>1. d * s = x + u
              BY <3>1, <4>1, <5>3
            <6>. QED  BY <1>1, <5>2, <5>4, <6>1
          <5>6. a.served[i] = s + 1 /\ MetBy(ms, i, w, k + 1) = u + d /\ c * ms[i].ratio = x
            BY <3>0, <4>1, <4>2, <5>1, <5>3
          <5>. QED  BY <5>5, <5>6
        <4>3. CASE ~(r >= w)
          <5>1. Beyond(r, w, d) = Beyond(r, w + d, d)
            BY <1>1, <3>1, <4>3 DEF Beyond
          <5>. QED  BY <3>0, <3>1, <4>1, <4>3, <5>1
        <4>. QED  BY <4>2, <4>3
      <3>. QED  BY <3>2, <3>3
    <2>. QED  BY <2>2, <2>3
  <1>4. Met(a, ms, w, k + 1)
    BY <1>0, <1>3 DEF Met
  <1>. QED  BY <1>0, <1>2, <1>4 DEF Reached

-----------------------------------------------------------------------------
(* What a goroutine knows in nextMember *)

\* The position after the last member is the first one's.
LEMMA NextPosition ==
    ASSUME NEW n \in Nat, n > 1, NEW p \in 0 .. n
    PROVE  p % n = IF p = n THEN 0 ELSE p
  <1>1. CASE p = n
    <2>1. p = n * 1 + 0 /\ 0 \in 0 .. n - 1 /\ p \in Int /\ n \in Nat \ {0}
      BY <1>1
    <2>2. p % n = 0
      BY <2>1, DivUnique
    <2>. QED  BY <1>1, <2>2
  <1>2. CASE p # n
    <2>1. p = n * 0 + p /\ p \in 0 .. n - 1 /\ p \in Int /\ n \in Nat \ {0}
      BY <1>2
    <2>2. p % n = p
      BY <2>1, DivUnique
    <2>. QED  BY <1>2, <2>2
  <1>. QED  BY <1>1, <1>2

\* The members passed since j: fewer than there are, one more at each position.
LEMMA SinceFacts ==
    ASSUME NEW ms \in Seq(Members), Len(ms) > 1, NEW j \in 1 .. Len(ms), NEW p \in 0 .. Len(ms)
    PROVE  /\ Since(p, j, ms) \in 0 .. Len(ms) - 1
           /\ Since(p % Len(ms), j, ms) = Since(p, j, ms)
           /\ p < Len(ms) /\ j # p + 1 => Since(p + 1, j, ms) = Since(p, j, ms) + 1
  <1>1. Len(ms) \in Nat
    BY LenProperties
  <1>2. p % Len(ms) = IF p = Len(ms) THEN 0 ELSE p
    BY <1>1, NextPosition
  <1>. QED  BY <1>1, <1>2 DEF Since

LEMMA ReachedSame ==
    ASSUME NEW b, NEW a, NEW ms, NEW w, NEW k, a.served = b.served, Reached(b, ms, w, k)
    PROVE  Reached(a, ms, w, k)
  BY DEF Reached, Met

\* A position that is taken from a load balancer at rest.
LEMMA PositionTaken ==
    ASSUME NEW b, NEW ms, Balances(b, ms), Resting(b, ms), NEW new, new = (b.index + 1) % Len(ms)
    PROVE  /\ new \in 0 .. Len(ms) - 1 /\ b.index + 1 \in 0 .. Len(ms)
           /\ new = 0 => b.currentWeight >= 0 /\ Reached(b, ms, b.currentWeight, Len(ms))
           /\ new # 0 => b.currentWeight > 0 /\ Reached(b, ms, b.currentWeight, new)
  <1>1. /\ Len(ms) \in Nat /\ Len(ms) > 1 /\ b.index \in -1 .. Len(ms) - 1 /\ b.currentWeight \in Int
    BY BalancesFacts, LenProperties DEF Balances
  <1>2. b.index + 1 \in 0 .. Len(ms)
    BY <1>1
  <1>3. new = IF b.index + 1 = Len(ms) THEN 0 ELSE b.index + 1
    BY <1>1, <1>2, NextPosition
  <1>4. CASE b.index = -1
    <2>1. b.currentWeight = 0 /\ Reached(b, ms, 0, 0) /\ new = 0
      BY <1>1, <1>3, <1>4 DEF Resting
    <2>2. Reached(b, ms, 0, Len(ms))
      BY <2>1 DEF Reached
    <2>. QED  BY <1>1, <1>2, <2>1, <2>2
  <1>5. CASE b.index # -1
    <2>1. b.currentWeight > 0 /\ Reached(b, ms, b.currentWeight, b.index + 1)
      BY <1>1, <1>5 DEF Resting
    <2>2. new = 0 => b.index + 1 = Len(ms)
      BY <1>1, <1>3, <1>5
    <2>. QED  BY <1>1, <1>2, <1>3, <2>1, <2>2
  <1>. QED  BY <1>4, <1>5

Progress(g) ==
    IF InNextMember(g)
    THEN /\ Weighed(Lb(g), Ms(g), Q(g).pc, Q(g).new, Q(g).weight)
         /\ Turns(Lb(g), Ms(g), Q(g).pc, Q(g).new, Q(g).turns)
    ELSE Resting(Lb(g), Ms(g))

\* The state a step of g leaves the load balancer in, which keeps its members.
LEMMA LbAfter ==
    ASSUME Inv, NEW g \in Goroutines, InNextMember(g) \/ At(g, "next"),
           NEW q, queries' = [queries EXCEPT ![g] = q], Same(g, q), NEW b, Stores(g, b)
    PROVE  Q(g)' = q /\ Lb(g)' = b /\ Ms(g)' = Ms(g)
  <1>1. /\ Q(g).ref \in 1 .. Len(refs) /\ Q(g).slot \in Slots /\ Q(g).type \in Types
        /\ refs \in Seq(Refs) /\ refs[Q(g).ref] \in Refs
    <2>1. Q(g).pc # "idle"
      BY DEF InNextMember, NextMemberPcs, At
    <2>2. Q(g).ref \in 1 .. Len(refs) /\ Q(g).slot \in Slots /\ Q(g).type \in Types
      BY <2>1, QueryFacts DEF Inv
    <2>. QED  BY <2>2, RefType DEF Inv, TypeOK
  <1>2. Q(g)' = q
    BY DEF Inv, TypeOK, Q
  <1>3. CASE refs' = refs /\ b = Lb(g)
    BY <1>2, <1>3 DEF Lb, Ms, EntryOf, Same
  <1>4. CASE SetLb(g, b)
    <2> DEFINE R == refs[Q(g).ref]
               N == [R EXCEPT !.lbs[Q(g).slot][Q(g).type] = b]
    <2>1. N.entry = R.entry /\ N.lbs[Q(g).slot][Q(g).type] = b
      BY <1>1 DEF Refs
    <2>2. refs' = [refs EXCEPT ![Q(g).ref] = N]
      BY <1>1, <1>4 DEF SetLb
    <2>. HIDE DEF N
    <2>3. refs'[Q(g).ref] = N
      BY <1>1, <2>2, LenProperties
    <2>. QED  BY <1>2, <2>1, <2>3 DEF Lb, Ms, EntryOf, Same
  <1>. QED  BY <1>3, <1>4 DEF Stores

\* What the lemmas on the steps of nextMember start from.
LEMMA ProgressFacts ==
    ASSUME Inv, NEW g \in Goroutines, InNextMember(g), Progress(g)
    PROVE  /\ Balances(Lb(g), Ms(g)) /\ Q(g) \in Queries /\ Q(g).turns \in Nat
           /\ Q(g).new \in 0 .. Len(Ms(g)) - 1 /\ Len(Ms(g)) \in Nat /\ Len(Ms(g)) > 1
           /\ Lb(g).currentWeight \in Int
           /\ Weighed(Lb(g), Ms(g), Q(g).pc, Q(g).new, Q(g).weight)
           /\ Turns(Lb(g), Ms(g), Q(g).pc, Q(g).new, Q(g).turns)
  <1>1. Balances(Lb(g), Ms(g)) /\ Q(g) \in Queries /\ Q(g).new \in 0 .. Len(Ms(g)) - 1
        /\ Len(Ms(g)) \in Nat /\ Len(Ms(g)) > 1
    BY WeightedFacts DEF Balances, NbMs
  <1>2. Q(g).turns \in Nat
    BY <1>1 DEF Queries
  <1>. QED  BY <1>1, <1>2, BalancesFacts DEF Progress

LEMMA ProgressLoadIndex ==
    ASSUME Inv, NEW g \in Goroutines, InNextMember(g), Progress(g), LoadIndex(g)
    PROVE  Progress(g)'
  <1> DEFINE turns == IF Q(g).turns <= Len(Ms(g)) THEN Q(g).turns + 1 ELSE Q(g).turns
             q == [Q(g) EXCEPT !.pc = "storeIndex", !.new = NextIndex(g), !.turns = turns]
             new == NextIndex(g)
  <1>1. /\ Balances(Lb(g), Ms(g)) /\ Q(g) \in Queries /\ Q(g).turns \in Nat /\ Len(Ms(g)) \in Nat
        /\ Weighed(Lb(g), Ms(g), "loop", Q(g).new, Q(g).weight)
        /\ Turns(Lb(g), Ms(g), "loop", Q(g).new, Q(g).turns)
    BY ProgressFacts DEF LoadIndex, At
  <1>2. Resting(Lb(g), Ms(g))
    BY <1>1 DEF Weighed
  <1>3. queries' = [queries EXCEPT ![g] = q] /\ Stores(g, Lb(g))
    BY DEF LoadIndex, Inv, TypeOK, Q, Stores
  <1>4. turns \in Nat /\ turns <= Q(g).turns + 1
    BY <1>1
  <1>. HIDE DEF turns
  <1>5. q.pc = "storeIndex" /\ q.new = new /\ q.turns = turns /\ Same(g, q)
    BY <1>1 DEF Queries, Same
  <1>. HIDE DEF q
  <1>6. Q(g)' = q /\ Lb(g)' = Lb(g) /\ Ms(g)' = Ms(g)
    BY <1>3, <1>5, LbAfter
  <1>7. new = (Lb(g).index + 1) % Len(Ms(g))
    BY DEF NextIndex
  <1>8. Weighed(Lb(g), Ms(g), "storeIndex", new, q.weight)
    BY <1>2, <1>7 DEF Weighed
  <1>9. Turns(Lb(g), Ms(g), "storeIndex", new, turns)
    <2>1. SUFFICES ASSUME NEW j \in 1 .. Len(Ms(g)), Ms(g)[j].ratio >= MaxWeight(Ms(g))
                   PROVE  turns <= Since(Lb(g).index + 1, j, Ms(g)) + 1
      BY DEF Turns
    <2>2. Q(g).turns <= Since(Lb(g).index + 1, j, Ms(g))
      BY <1>1, <2>1 DEF Turns
    <2>3. Since(Lb(g).index + 1, j, Ms(g)) \in Int
      <3>1. Lb(g).index + 1 \in 0 .. Len(Ms(g))
        BY <1>1, <1>2, <1>7, PositionTaken
      <3>. QED  BY <1>1, <3>1, SinceFacts DEF Balances
    <2>. QED  BY <1>1, <1>4, <2>2, <2>3
  <1>10. InNextMember(g)'
    BY <1>5, <1>6 DEF InNextMember, NextMemberPcs
  <1>. QED  BY <1>5, <1>6, <1>8, <1>9, <1>10 DEF Progress

LEMMA ProgressStoreIndex ==
    ASSUME Inv, NEW g \in Goroutines, InNextMember(g), Progress(g), StoreIndex(g)
    PROVE  Progress(g)'
  <1> DEFINE b == [Lb(g) EXCEPT !.index = Q(g).new]
             pc == IF Q(g).new = 0 THEN "loadWeight" ELSE "compare"
             q == [Q(g) EXCEPT !.pc = pc]
  <1>1. /\ Balances(Lb(g), Ms(g)) /\ Q(g) \in Queries /\ Q(g).turns \in Nat /\ Len(Ms(g)) \in Nat
        /\ Weighed(Lb(g), Ms(g), "storeIndex", Q(g).new, Q(g).weight)
        /\ Turns(Lb(g), Ms(g), "storeIndex", Q(g).new, Q(g).turns)
    BY ProgressFacts DEF StoreIndex, At
  <1>2. Resting(Lb(g), Ms(g)) /\ Q(g).new = (Lb(g).index + 1) % Len(Ms(g))
    BY <1>1 DEF Weighed
  <1>3. queries' = [queries EXCEPT ![g] = q] /\ Stores(g, b)
    BY DEF StoreIndex, Goes, Inv, TypeOK, Q, Stores
  <1>4. b.index = Q(g).new /\ b.served = Lb(g).served /\ b.currentWeight = Lb(g).currentWeight
    BY <1>1 DEF Balances, LbStates
  <1>5. q.pc = pc /\ q.new = Q(g).new /\ q.turns = Q(g).turns /\ Same(g, q)
    BY <1>1 DEF Queries, Same
  <1>. HIDE DEF q, b
  <1>6. Q(g)' = q /\ Lb(g)' = b /\ Ms(g)' = Ms(g)
    BY <1>3, <1>5, LbAfter
  <1>7. /\ Q(g).new = 0 => Lb(g).currentWeight >= 0 /\ Reached(Lb(g), Ms(g), Lb(g).currentWeight, Len(Ms(g)))
        /\ Q(g).new # 0 => Lb(g).currentWeight > 0 /\ Reached(Lb(g), Ms(g), Lb(g).currentWeight, Q(g).new)
        /\ Lb(g).index + 1 \in 0 .. Len(Ms(g))
    BY <1>1, <1>2, PositionTaken
  <1>8. Weighed(b, Ms(g), pc, Q(g).new, q.weight)
    <2>1. CASE Q(g).new = 0
      <3>1. Reached(b, Ms(g), b.currentWeight, Len(Ms(g)))
        BY <1>4, <1>7, <2>1, ReachedSame
      <3>. QED  BY <1>4, <1>7, <2>1, <3>1 DEF Weighed
    <2>2. CASE Q(g).new # 0
      <3>1. Reached(b, Ms(g), b.currentWeight, Q(g).new)
        BY <1>4, <1>7, <2>2, ReachedSame
      <3>. QED  BY <1>4, <1>7, <2>2, <3>1 DEF Weighed
    <2>. QED  BY <2>1, <2>2
  <1>9. Turns(b, Ms(g), pc, Q(g).new, Q(g).turns)
    <2>1. SUFFICES ASSUME NEW j \in 1 .. Len(Ms(g)), Ms(g)[j].ratio >= MaxWeight(Ms(g))
                   PROVE  Q(g).turns <= Since(Q(g).new, j, Ms(g)) + 1
      BY DEF Turns
    <2>2. Q(g).turns <= Since(Lb(g).index + 1, j, Ms(g)) + 1
      BY <1>1, <2>1 DEF Turns
    <2>3. Since(Q(g).new, j, Ms(g)) = Since(Lb(g).index + 1, j, Ms(g))
      BY <1>1, <1>2, <1>7, SinceFacts DEF Balances
    <2>. QED  BY <2>2, <2>3
  <1>10. InNextMember(g)'
    BY <1>5, <1>6 DEF InNextMember, NextMemberPcs
  <1>. QED  BY <1>5, <1>6, <1>8, <1>9, <1>10 DEF Progress

\* The steps between the position and the comparison leave the turns alone.
LEMMA TurnsSame ==
    ASSUME NEW b, NEW a, NEW ms, NEW new, NEW turns, NEW pc, pc \notin {"loop", "storeIndex"},
           Turns(b, ms, pc, new, turns), NEW to, to \notin {"loop", "storeIndex"}
    PROVE  Turns(a, ms, to, new, turns)
  BY DEF Turns

LEMMA ProgressLoadWeight ==
    ASSUME Inv, NEW g \in Goroutines, InNextMember(g), Progress(g), LoadWeight(g)
    PROVE  Progress(g)'
  <1> DEFINE weight == Int32(Lb(g).currentWeight - GcdOf(Ms(g)))
             q == [Q(g) EXCEPT !.pc = "storeWeight", !.weight = weight]
  <1>1. /\ Balances(Lb(g), Ms(g)) /\ Q(g) \in Queries /\ Lb(g).currentWeight \in Int
        /\ Weighed(Lb(g), Ms(g), "loadWeight", Q(g).new, Q(g).weight)
        /\ Turns(Lb(g), Ms(g), "loadWeight", Q(g).new, Q(g).turns)
    BY ProgressFacts DEF LoadWeight, At
  <1>2. /\ Q(g).new = 0 /\ Lb(g).index = 0 /\ Lb(g).currentWeight >= 0
        /\ Reached(Lb(g), Ms(g), Lb(g).currentWeight, Len(Ms(g)))
    BY <1>1 DEF Weighed
  <1>3. queries' = [queries EXCEPT ![g] = q] /\ Stores(g, Lb(g))
    BY DEF LoadWeight, Inv, TypeOK, Q, Stores
  <1>4. weight = Lb(g).currentWeight - GcdOf(Ms(g))
    <2>1. /\ GcdOf(Ms(g)) \in Nat \ {0} /\ MaxWeight(Ms(g)) \in Nat
          /\ GcdOf(Ms(g)) <= MaxWeight(Ms(g)) /\ MaxWeight(Ms(g)) < Half /\ Half \in Nat
      BY <1>1, Ratios, HalfAssumption DEF Balances
    <2>2. Lb(g).currentWeight < Half
      <3>1. Lb(g) \in LbStates
        BY <1>1 DEF Balances
      <3>2. Lb(g).currentWeight \in Int32s
        BY <3>1 DEF LbStates
      <3>. QED  BY <2>1, <3>2 DEF Int32s
    <2>3. /\ Lb(g).currentWeight - GcdOf(Ms(g)) < Half
          /\ ~(Lb(g).currentWeight - GcdOf(Ms(g)) < -Half)
      BY <1>1, <1>2, <2>1, <2>2
    <2>. QED  BY <1>1, <2>1, <2>3 DEF Int32
  <1>5. Reached(Lb(g), Ms(g), weight, 0)
    <2>1. Lb(g).currentWeight \in Nat
      BY <1>1, <1>2
    <2>. QED  BY <1>1, <1>2, <1>4, <2>1, TurnReached
  <1>. HIDE DEF weight
  <1>6. /\ q.pc = "storeWeight" /\ q.new = Q(g).new /\ q.turns = Q(g).turns /\ q.weight = weight
        /\ Same(g, q)
    BY <1>1 DEF Queries, Same
  <1>. HIDE DEF q
  <1>7. Q(g)' = q /\ Lb(g)' = Lb(g) /\ Ms(g)' = Ms(g)
    BY <1>3, <1>6, LbAfter
  <1>8. Weighed(Lb(g), Ms(g), "storeWeight", Q(g).new, weight)
    BY <1>2, <1>5 DEF Weighed
  <1>9. Turns(Lb(g), Ms(g), "storeWeight", Q(g).new, Q(g).turns)
    BY <1>1, TurnsSame
  <1>10. InNextMember(g)'
    BY <1>6, <1>7 DEF InNextMember, NextMemberPcs
  <1>. QED  BY <1>6, <1>7, <1>8, <1>9, <1>10 DEF Progress

\* The steps that store the weight and look at it.
LEMMA ProgressWeight ==
    ASSUME Inv, NEW g \in Goroutines, InNextMember(g), Progress(g),
           StoreWeight(g) \/ CheckWeight(g) \/ ResetWeight(g) \/ RecheckWeight(g)
    PROVE  Progress(g)'
  <1>0. Q(g).pc \in {"storeWeight", "check", "reset", "recheck"}
    BY DEF StoreWeight, CheckWeight, ResetWeight, RecheckWeight, At
  <1>1. /\ Balances(Lb(g), Ms(g)) /\ Q(g) \in Queries /\ Lb(g).currentWeight \in Int
        /\ Weighed(Lb(g), Ms(g), Q(g).pc, Q(g).new, Q(g).weight)
        /\ Turns(Lb(g), Ms(g), Q(g).pc, Q(g).new, Q(g).turns)
        /\ MaxWeight(Ms(g)) \in Nat /\ MaxWeight(Ms(g)) > 0 /\ Level(Ms(g), MaxWeight(Ms(g)))
    BY ProgressFacts, Ratios DEF Balances
  <1>2. ASSUME NEW pc \in NextMemberPcs \ {"loop", "storeIndex"}, Goes(g, pc), NEW b, Stores(g, b),
               Weighed(b, Ms(g), pc, Q(g).new, Q(g).weight)
        PROVE  Progress(g)'
    <2> DEFINE q == [Q(g) EXCEPT !.pc = pc]
    <2>1. queries' = [queries EXCEPT ![g] = q]
      BY <1>2 DEF Goes, Inv, TypeOK, Q
    <2>2. /\ q.pc = pc /\ q.new = Q(g).new /\ q.turns = Q(g).turns /\ q.weight = Q(g).weight
          /\ Same(g, q)
      BY <1>1 DEF Queries, Same
    <2>. HIDE DEF q
    <2>3. Q(g)' = q /\ Lb(g)' = b /\ Ms(g)' = Ms(g)
      BY <1>2, <2>1, <2>2, LbAfter
    <2>4. Turns(b, Ms(g), pc, Q(g).new, Q(g).turns)
      <3>1. Q(g).pc \notin {"loop", "storeIndex"} /\ pc \notin {"loop", "storeIndex"}
        BY <1>0, <1>2
      <3>. QED  BY <1>1, <3>1, TurnsSame
    <2>5. InNextMember(g)'
      BY <1>2, <2>2, <2>3 DEF InNextMember
    <2>. QED  BY <1>2, <2>2, <2>3, <2>4, <2>5 DEF Progress
  <1>3. CASE StoreWeight(g)
    <2> DEFINE b == [Lb(g) EXCEPT !.currentWeight = Q(g).weight]
    <2>1. Goes(g, "check") /\ Stores(g, b) /\ Q(g).pc = "storeWeight"
      BY <1>3 DEF StoreWeight, Stores, At
    <2>2. b.currentWeight = Q(g).weight /\ b.served = Lb(g).served /\ b.index = Lb(g).index
      BY <1>1 DEF Balances, LbStates
    <2>. HIDE DEF b
    <2>3. Q(g).new = Lb(g).index /\ Q(g).new = 0 /\ Reached(Lb(g), Ms(g), Q(g).weight, 0)
      BY <1>1, <2>1 DEF Weighed
    <2>4. Reached(b, Ms(g), b.currentWeight, 0)
      BY <2>2, <2>3, ReachedSame
    <2>5. Weighed(b, Ms(g), "check", Q(g).new, Q(g).weight)
      BY <2>2, <2>3, <2>4 DEF Weighed
    <2>6. "check" \in NextMemberPcs \ {"loop", "storeIndex"}
      BY DEF NextMemberPcs
    <2>. QED  BY <1>2, <2>1, <2>5, <2>6
  <1>4. CASE CheckWeight(g)
    <2> DEFINE pc == IF Lb(g).currentWeight <= 0 THEN "reset" ELSE "compare"
    <2>1. Goes(g, pc) /\ Stores(g, Lb(g)) /\ Q(g).pc = "check"
      BY <1>4 DEF CheckWeight, Stores, At
    <2>2. /\ Q(g).new = Lb(g).index /\ Q(g).new = 0
          /\ Reached(Lb(g), Ms(g), Lb(g).currentWeight, 0)
      BY <1>1, <2>1 DEF Weighed
    <2>3. Weighed(Lb(g), Ms(g), pc, Q(g).new, Q(g).weight)
      BY <1>1, <2>2 DEF Weighed
    <2>4. pc \in NextMemberPcs \ {"loop", "storeIndex"}
      BY DEF NextMemberPcs
    <2>. HIDE DEF pc
    <2>. QED  BY <1>2, <2>1, <2>3, <2>4
  <1>5. CASE ResetWeight(g)
    <2> DEFINE b == [Lb(g) EXCEPT !.currentWeight = MaxWeight(Ms(g))]
    <2>1. Goes(g, "recheck") /\ Stores(g, b) /\ Q(g).pc = "reset"
      BY <1>5 DEF ResetWeight, Stores, At
    <2>2. b.currentWeight = MaxWeight(Ms(g)) /\ b.served = Lb(g).served /\ b.index = Lb(g).index
      BY <1>1 DEF Balances, LbStates
    <2>. HIDE DEF b
    <2>3. /\ Q(g).new = Lb(g).index /\ Q(g).new = 0 /\ Lb(g).currentWeight <= 0
          /\ Reached(Lb(g), Ms(g), Lb(g).currentWeight, 0)
      BY <1>1, <2>1 DEF Weighed
    <2>4. Met(Lb(g), Ms(g), MaxWeight(Ms(g)), 0)
      BY <2>3 DEF Reached
    <2>5. Reached(b, Ms(g), b.currentWeight, 0)
      <3>1. Reached(Lb(g), Ms(g), MaxWeight(Ms(g)), 0)
        BY <1>1, <2>4 DEF Reached
      <3>. QED  BY <2>2, <3>1, ReachedSame
    <2>6. Weighed(b, Ms(g), "recheck", Q(g).new, Q(g).weight)
      BY <1>1, <2>2, <2>3, <2>5 DEF Weighed
    <2>7. "recheck" \in NextMemberPcs \ {"loop", "storeIndex"}
      BY DEF NextMemberPcs
    <2>. QED  BY <1>2, <2>1, <2>6, <2>7
  <1>6. CASE RecheckWeight(g)
    <2>1. Q(g).pc = "recheck" /\ Stores(g, Lb(g))
      BY <1>6 DEF RecheckWeight, Stores, At
    <2>2. /\ Q(g).new = Lb(g).index /\ Q(g).new = 0 /\ Lb(g).currentWeight > 0
          /\ Reached(Lb(g), Ms(g), Lb(g).currentWeight, Q(g).new)
      BY <1>1, <2>1 DEF Weighed
    <2>3. Goes(g, "compare")
      BY <1>1, <1>6, <2>2 DEF RecheckWeight
    <2>4. Weighed(Lb(g), Ms(g), "compare", Q(g).new, Q(g).weight)
      BY <2>2 DEF Weighed
    <2>5. "compare" \in NextMemberPcs \ {"loop", "storeIndex"}
      BY DEF NextMemberPcs
    <2>. QED  BY <1>2, <2>1, <2>3, <2>4, <2>5
  <1>. QED  BY <1>3, <1>4, <1>5, <1>6

\* The member at the position is answered, or passed.
LEMMA ProgressCompare ==
    ASSUME Inv, NEW g \in Goroutines, InNextMember(g), Progress(g), CompareWeight(g)
    PROVE  Progress(g)'
  <1>0. PICK i, w : i = Q(g).new + 1 /\ w = Lb(g).currentWeight
    OBVIOUS
  <1>1. /\ Balances(Lb(g), Ms(g)) /\ Q(g) \in Queries /\ Q(g).turns \in Nat /\ w \in Int
        /\ Q(g).new \in 0 .. Len(Ms(g)) - 1 /\ Len(Ms(g)) \in Nat /\ Len(Ms(g)) > 1
        /\ i \in 1 .. Len(Ms(g)) /\ Lb(g) \in LbStates /\ DOMAIN Lb(g).served = 1 .. Len(Ms(g))
        /\ Weighed(Lb(g), Ms(g), "compare", Q(g).new, Q(g).weight)
        /\ Turns(Lb(g), Ms(g), "compare", Q(g).new, Q(g).turns)
    BY <1>0, ProgressFacts DEF CompareWeight, At, Balances
  <1>2. Q(g).new = Lb(g).index /\ w > 0 /\ Reached(Lb(g), Ms(g), w, Q(g).new)
    BY <1>0, <1>1 DEF Weighed
  <1>3. Level(Ms(g), w) /\ Ms(g)[i].ratio \in Nat
    BY <1>1, <1>2, Ratios DEF Reached, Balances
  <1>4. Heavy(g) <=> Ms(g)[i].ratio >= w
    BY <1>0, <1>1, <1>2, <1>3 DEF Heavy
  <1>5. ASSUME NEW b, b.index = Lb(g).index, b.currentWeight = w,
               \A j \in 1 .. Len(Ms(g)) : b.served[j] =
                  IF j = i /\ Ms(g)[j].ratio >= w THEN Lb(g).served[j] + 1 ELSE Lb(g).served[j]
        PROVE  Resting(b, Ms(g))
    <2>1. Reached(b, Ms(g), w, Q(g).new + 1)
      BY <1>0, <1>1, <1>2, <1>5, CompareReached
    <2>2. b.index # -1 /\ w # 0
      BY <1>1, <1>2, <1>5
    <2>. QED  BY <1>1, <1>2, <1>5, <2>1, <2>2 DEF Resting
  <1>6. CASE Heavy(g)
    <2> DEFINE b == Serve(Lb(g), i)
               m == Member(Ms(g)[i])
               q == [Q(g) EXCEPT !.pc = "returned", !.result = m]
    <2>1. queries' = [queries EXCEPT ![g] = q] /\ Stores(g, b)
      BY <1>0, <1>6 DEF CompareWeight, Returns, Stores, Inv, TypeOK, Q
    <2>. HIDE DEF m
    <2>2. q.pc = "returned" /\ Same(g, q)
      BY <1>1 DEF Queries, Same
    <2>. HIDE DEF q
    <2>3. /\ b.index = Lb(g).index /\ b.currentWeight = w
          /\ \A j \in 1 .. Len(Ms(g)) :
                b.served[j] = IF j = i THEN Lb(g).served[j] + 1 ELSE Lb(g).served[j]
      BY <1>0, <1>1, ServeType
    <2>. HIDE DEF b
    <2>4. Q(g)' = q /\ Lb(g)' = b /\ Ms(g)' = Ms(g)
      BY <2>1, <2>2, LbAfter
    <2>5. Resting(b, Ms(g))
      BY <1>4, <1>5, <1>6, <2>3
    <2>6. ~InNextMember(g)'
      BY <2>2, <2>4 DEF InNextMember, NextMemberPcs
    <2>. QED  BY <2>4, <2>5, <2>6 DEF Progress
  <1>7. CASE ~Heavy(g)
    <2> DEFINE q == [Q(g) EXCEPT !.pc = "loop"]
    <2>1. queries' = [queries EXCEPT ![g] = q] /\ Stores(g, Lb(g))
      BY <1>7 DEF CompareWeight, Goes, Stores, Inv, TypeOK, Q
    <2>2. q.pc = "loop" /\ q.new = Q(g).new /\ q.turns = Q(g).turns /\ q.weight = Q(g).weight
          /\ Same(g, q)
      BY <1>1 DEF Queries, Same
    <2>. HIDE DEF q
    <2>3. Q(g)' = q /\ Lb(g)' = Lb(g) /\ Ms(g)' = Ms(g)
      BY <2>1, <2>2, LbAfter
    <2>4. Resting(Lb(g), Ms(g))
      BY <1>0, <1>4, <1>5, <1>7
    <2>5. Weighed(Lb(g), Ms(g), "loop", Q(g).new, Q(g).weight)
      <3>1. Q(g).new = Lb(g).index
        BY <1>2
      <3>. QED  BY <2>4, <3>1 DEF Weighed
    <2>6. Turns(Lb(g), Ms(g), "loop", Q(g).new, Q(g).turns)
      <3>1. SUFFICES ASSUME NEW j \in 1 .. Len(Ms(g)), Ms(g)[j].ratio >= MaxWeight(Ms(g))
                     PROVE  Q(g).turns <= Since(Lb(g).index + 1, j, Ms(g))
        BY DEF Turns
      <3>2. Q(g).turns <= Since(Q(g).new, j, Ms(g)) + 1
        BY <1>1, <3>1 DEF Turns
      <3>3. j # i
        <4>1. w <= MaxWeight(Ms(g)) /\ MaxWeight(Ms(g)) \in Nat /\ GcdOf(Ms(g)) \in Nat
          BY <1>1, <1>3, Ratios DEF Level, Balances
        <4>2. ~(Ms(g)[i].ratio >= w)
          BY <1>4, <1>7
        <4>. QED  BY <1>1, <1>3, <3>1, <4>1, <4>2
      <3>4. Since(Q(g).new + 1, j, Ms(g)) = Since(Q(g).new, j, Ms(g)) + 1
        <4>1. Q(g).new \in 0 .. Len(Ms(g)) /\ Q(g).new < Len(Ms(g)) /\ j # Q(g).new + 1
          BY <1>0, <1>1, <3>3
        <4>. QED  BY <1>1, <4>1, SinceFacts DEF Balances
      <3>. QED  BY <1>2, <3>2, <3>4
    <2>7. InNextMember(g)'
      BY <2>2, <2>3 DEF InNextMember, NextMemberPcs
    <2>. QED  BY <2>2, <2>3, <2>5, <2>6, <2>7 DEF Progress
  <1>. QED  BY <1>6, <1>7

-----------------------------------------------------------------------------
(* Steps and what all goroutines know *)

\* The load balancer g is at, and who else is at it.
LEMMA FineAfter ==
    ASSUME Inv, NEW g \in Goroutines, Q(g).pc # "idle", NEW q, NEW b, Fine(g, q, b)
    PROVE  /\ Key(g)' = Key(g) /\ Lb(g)' = b /\ Ms(g)' = Ms(g) /\ (Lb(g).raced => b.raced)
           /\ Len(refs') = Len(refs) /\ \A h \in Goroutines \ {g} : Q(h)' = Q(h)
           /\ \A r \in 1 .. Len(refs), s \in Slots, t \in Types :
                 /\ refs'[r].entry = refs[r].entry /\ MembersAt(r, t)' = MembersAt(r, t)
                 /\ LbAt(r, s, t)' = IF <<r, s, t>> = Key(g) THEN b ELSE LbAt(r, s, t)
  <1>1. q \in Queries /\ b \in LbStates /\ Same(g, q) /\ (Lb(g).raced => b.raced) /\ TypeOK
    BY DEF Fine, QueryFine, LbFine, Inv
  <1>2. Leaves(g, q, b)
    BY <1>1, StepLeaves DEF Fine
  <1>3. Key(g)' = Key(g)
    BY <1>1, <1>2 DEF Leaves, Key, Same
  <1>4. Lb(g)' = b /\ Ms(g)' = Ms(g)
    BY <1>1, <1>2, <1>3, EntriesKept DEF Leaves, Same
  <1>5. \A r \in 1 .. Len(refs), t \in Types : MembersAt(r, t)' = MembersAt(r, t)
    BY <1>2 DEF Leaves, MembersAt
  <1>6. ASSUME NEW r \in 1 .. Len(refs), NEW s \in Slots, NEW t \in Types
        PROVE  LbAt(r, s, t)' = IF <<r, s, t>> = Key(g) THEN b ELSE LbAt(r, s, t)
    <2>1. <<r, s, t>> = Key(g) <=> r = Q(g).ref /\ s = Q(g).slot /\ t = Q(g).type
      BY DEF Key
    <2>. QED  BY <1>2, <2>1 DEF Leaves
  <1>. QED  BY <1>1, <1>2, <1>3, <1>4, <1>5, <1>6 DEF Leaves

\* A goroutine in a weighted round robin that nobody else was in knows it.
LEMMA ProgressBefore ==
    ASSUME Inv, WeightInv, NEW g \in Goroutines, InNextMember(g), ~Lb(g).raced
    PROVE  Progress(g)
  <1>1. Q(g).pc # "idle"
    BY DEF InNextMember, NextMemberPcs
  <1>2. /\ Q(g).ref \in 1 .. Len(refs) /\ Q(g).slot \in Slots /\ Q(g).type \in Types
        /\ Ms(g) = MembersAt(Q(g).ref, Q(g).type) /\ Lb(g) = LbAt(Q(g).ref, Q(g).slot, Q(g).type)
    BY <1>1, QueryFacts DEF Inv
  <1>3. Algo(g) = "RATIO" /\ Len(Ms(g)) > 1
    BY WeightedFacts DEF NbMs
  <1>4. Key(g) \in Lbs("RATIO")
    BY <1>2, <1>3 DEF Key, Lbs, Algo, EntryOf
  <1>5. WeighedOK(Key(g))
    BY <1>4 DEF WeightInv
  <1>. QED  BY <1>2, <1>3, <1>5 DEF WeighedOK, Key, Progress

\* A step of g keeps what is known of all weighted round robins if it keeps it
\* of the one g is at.
LEMMA WeightFrame ==
    ASSUME Inv, Inv', WeightInv, NEW g \in Goroutines, Q(g).pc # "idle", NEW q, NEW b,
           Fine(g, q, b),
           Algo(g) = "RATIO" /\ Len(Ms(g)) > 1 /\ ~Lb(g)'.raced =>
              IF InNextMember(g) \/ InNextMember(g)' THEN Progress(g)' ELSE Lb(g)' = Lb(g)
    PROVE  WeightInv'
  <1>1. /\ Key(g)' = Key(g) /\ Lb(g)' = b /\ Ms(g)' = Ms(g) /\ (Lb(g).raced => b.raced)
        /\ Len(refs') = Len(refs) /\ \A h \in Goroutines \ {g} : Q(h)' = Q(h)
    BY FineAfter
  <1>2. \A r \in 1 .. Len(refs), s \in Slots, t \in Types :
           /\ refs'[r].entry = refs[r].entry /\ MembersAt(r, t)' = MembersAt(r, t)
           /\ LbAt(r, s, t)' = IF <<r, s, t>> = Key(g) THEN b ELSE LbAt(r, s, t)
    BY FineAfter
  <1>3. /\ Ms(g) = MembersAt(Q(g).ref, Q(g).type) /\ Lb(g) = LbAt(Q(g).ref, Q(g).slot, Q(g).type)
    BY QueryFacts DEF Inv
  <1>4. SUFFICES ASSUME NEW r \in 1 .. Len(refs), NEW s \in Slots, NEW t \in Types,
                        refs[r].entry.algos[s] = "RATIO", Len(MembersAt(r, t)) > 1,
                        ~LbAt(r, s, t)'.raced
                 PROVE  /\ ~InProgress(<<r, s, t>>)' => Resting(LbAt(r, s, t)', MembersAt(r, t))
                        /\ \A h \in Goroutines : InNextMember(h)' /\ Key(h)' = <<r, s, t>> =>
                              /\ Weighed(LbAt(r, s, t)', MembersAt(r, t), Q(h)'.pc, Q(h)'.new, Q(h)'.weight)
                              /\ Turns(LbAt(r, s, t)', MembersAt(r, t), Q(h)'.pc, Q(h)'.new, Q(h)'.turns)
    <2>1. SUFFICES ASSUME NEW l \in Lbs("RATIO")'  PROVE WeighedOK(l)'
      BY DEF WeightInv
    <2>2. PICK r \in 1 .. Len(refs), s \in Slots, t \in Types : l = <<r, s, t>>
      BY <1>1, <2>1 DEF Lbs
    <2>3. refs[r].entry.algos[s] = "RATIO" /\ MembersAt(r, t)' = MembersAt(r, t)
      BY <1>2, <2>1, <2>2 DEF Lbs
    <2>. QED  BY <1>4, <2>2, <2>3 DEF WeighedOK
  <1>5. LbAt(r, s, t).raced => LbAt(r, s, t)'.raced
    BY <1>1, <1>2, <1>3 DEF Key
  <1>6. WeighedOK(<<r, s, t>>)
    BY <1>4 DEF WeightInv, Lbs
  <1>7. /\ ~InProgress(<<r, s, t>>) => Resting(LbAt(r, s, t), MembersAt(r, t))
        /\ \A h \in Goroutines : InNextMember(h) /\ Key(h) = <<r, s, t>> =>
              /\ Weighed(LbAt(r, s, t), MembersAt(r, t), Q(h).pc, Q(h).new, Q(h).weight)
              /\ Turns(LbAt(r, s, t), MembersAt(r, t), Q(h).pc, Q(h).new, Q(h).turns)
    BY <1>4, <1>5, <1>6 DEF WeighedOK
  <1>8. \A h \in Goroutines \ {g} : InNextMember(h)' = InNextMember(h) /\ Key(h)' = Key(h)
    BY <1>1 DEF InNextMember, Key
  <1>9. CASE Key(g) # <<r, s, t>>
    <2>1. InProgress(<<r, s, t>>)' = InProgress(<<r, s, t>>)
      BY <1>1, <1>8, <1>9 DEF InProgress
    <2>2. LbAt(r, s, t)' = LbAt(r, s, t)
      BY <1>2, <1>9
    <2>. QED  BY <1>1, <1>7, <1>8, <1>9, <2>1, <2>2
  <1>10. CASE Key(g) = <<r, s, t>>
    <2>1. /\ Algo(g) = "RATIO" /\ Ms(g) = MembersAt(r, t) /\ LbAt(r, s, t)' = b
          /\ LbAt(r, s, t) = Lb(g)
      BY <1>2, <1>3, <1>4, <1>10 DEF Key, Algo, EntryOf
    <2>2. ~Lb(g)'.raced /\ ~Lb(g).raced /\ Len(Ms(g)) > 1
      BY <1>1, <1>4, <2>1
    <2>3. CASE InNextMember(g) \/ InNextMember(g)'
      <3>1. Progress(g)'
        BY <2>1, <2>2, <2>3
      <3>2. \A h \in Goroutines \ {g} : ~(InNextMember(h)' /\ Key(h)' = <<r, s, t>>)
        <4>1. SUFFICES ASSUME NEW h \in Goroutines \ {g}, InNextMember(h)', Key(h)' = <<r, s, t>>
                       PROVE  FALSE
          OBVIOUS
        <4>2. CASE InNextMember(g)
          <5>1. Noticed(g, h)
            BY <4>1 DEF Inv, AnswerInv
          <5>. QED  BY <1>8, <1>10, <2>2, <4>1, <4>2, <5>1 DEF Noticed
        <4>3. CASE InNextMember(g)'
          <5>1. Noticed(g, h)'
            BY <4>1 DEF Inv, AnswerInv
          <5>. QED  BY <1>1, <1>10, <2>2, <4>1, <4>3, <5>1 DEF Noticed
        <4>. QED  BY <2>3, <4>2, <4>3
      <3>3. CASE InNextMember(g)'
        <4>1. InProgress(<<r, s, t>>)'
          BY <1>1, <1>10, <3>3 DEF InProgress
        <4>2. /\ Weighed(b, Ms(g), Q(g)'.pc, Q(g)'.new, Q(g)'.weight)
              /\ Turns(b, Ms(g), Q(g)'.pc, Q(g)'.new, Q(g)'.turns)
          BY <1>1, <3>1, <3>3 DEF Progress
        <4>. QED  BY <2>1, <3>2, <4>1, <4>2
      <3>4. CASE ~InNextMember(g)'
        <4>1. Resting(b, Ms(g))
          BY <1>1, <3>1, <3>4 DEF Progress
        <4>. QED  BY <2>1, <3>2, <3>4, <4>1
      <3>. QED  BY <3>3, <3>4
    <2>4. CASE ~InNextMember(g) /\ ~InNextMember(g)'
      <3>1. b = Lb(g)
        BY <1>1, <2>1, <2>2, <2>4
      <3>2. InProgress(<<r, s, t>>)' = InProgress(<<r, s, t>>)
        BY <1>8, <2>4 DEF InProgress
      <3>. QED  BY <1>1, <1>7, <1>8, <2>1, <2>4, <3>1, <3>2
    <2>. QED  BY <2>3, <2>4
  <1>. QED  BY <1>9, <1>10

\* A goroutine enters nextMember: nobody else is in it, or it is noticed.
LEMMA ProgressEnter ==
    ASSUME Inv, WeightInv, NEW g \in Goroutines, WeightedNext(g), Len(Ms(g)) > 1, ~Lb(g)'.raced
    PROVE  InNextMember(g)' /\ Progress(g)'
  <1> DEFINE b == [Lb(g) EXCEPT !.raced = @ \/ Together(g)]
             q == [Q(g) EXCEPT !.pc = "loop", !.turns = 0]
  <1>1. /\ Q(g).pc = "next" /\ Algo(g) = "RATIO" /\ Q(g) \in Queries
        /\ Q(g).ref \in 1 .. Len(refs) /\ Q(g).slot \in Slots /\ Q(g).type \in Types
        /\ Ms(g) \in Seq(Members) /\ Len(Ms(g)) \in Nat
        /\ Ms(g) = MembersAt(Q(g).ref, Q(g).type) /\ Lb(g) = LbAt(Q(g).ref, Q(g).slot, Q(g).type)
        /\ Lb(g) \in LbStates /\ Lb(g).index \in -1 .. Len(Ms(g)) - 1
        /\ DOMAIN Lb(g).served = 1 .. Len(Ms(g))
    <2>1. Q(g).pc = "next" /\ Algo(g) = "RATIO"
      BY DEF WeightedNext, Calls, At, Algo
    <2>. QED  BY <2>1, QueryFacts DEF Inv
  <1>2. queries' = [queries EXCEPT ![g] = q] /\ Stores(g, b)
    <2>1. ~(Len(Ms(g)) <= 1)
      BY <1>1
    <2>. QED  BY <2>1 DEF WeightedNext, Stores, Inv, TypeOK, Q
  <1>3. q.pc = "loop" /\ q.turns = 0 /\ Same(g, q)
    BY <1>1 DEF Queries, Same
  <1>. HIDE DEF q
  <1>4. /\ b.index = Lb(g).index /\ b.served = Lb(g).served
        /\ b.currentWeight = Lb(g).currentWeight /\ b.raced = (Lb(g).raced \/ Together(g))
    BY <1>1 DEF LbStates
  <1>. HIDE DEF b
  <1>5. Q(g)' = q /\ Lb(g)' = b /\ Ms(g)' = Ms(g)
    BY <1>1, <1>2, <1>3, LbAfter DEF At
  <1>6. ~Lb(g).raced /\ ~Together(g)
    BY <1>4, <1>5
  <1>7. Resting(Lb(g), Ms(g))
    <2>1. Key(g) \in Lbs("RATIO")
      BY <1>1 DEF Key, Lbs, Algo, EntryOf
    <2>2. WeighedOK(Key(g))
      BY <2>1 DEF WeightInv
    <2>3. ~InProgress(Key(g))
      BY <1>1, <1>6 DEF InProgress, Together, InNextMember, NextMemberPcs
    <2>. QED  BY <1>1, <1>6, <2>2, <2>3 DEF WeighedOK, Key
  <1>8. Resting(b, Ms(g))
    BY <1>4, <1>7, ReachedSame DEF Resting
  <1>9. Turns(b, Ms(g), "loop", q.new, 0)
    <2>1. SUFFICES ASSUME NEW j \in 1 .. Len(Ms(g))  PROVE 0 <= Since(b.index + 1, j, Ms(g))
      BY DEF Turns
    <2>2. b.index + 1 \in 0 .. Len(Ms(g))
      BY <1>1, <1>4
    <2>3. Since(b.index + 1, j, Ms(g)) \in 0 .. Len(Ms(g)) - 1
      BY <1>1, <2>2, SinceFacts
    <2>. QED  BY <1>1, <2>3
  <1>10. Weighed(b, Ms(g), "loop", q.new, q.weight)
    BY <1>8 DEF Weighed
  <1>11. InNextMember(g)'
    BY <1>3, <1>5 DEF InNextMember, NextMemberPcs
  <1>. QED  BY <1>3, <1>5, <1>9, <1>10, <1>11 DEF Progress

LEMMA NextStepWeighs ==
    ASSUME Inv, Inv', WeightInv, ~Panicked, NEW g \in Goroutines, NextStep(g)
    PROVE  WeightInv'
  <1>1. PICK q, b : Fine(g, q, b)
    BY NextStepFine
  <1>2. Q(g).pc # "idle"
    BY NextStepFine
  <1>3. SUFFICES ASSUME Algo(g) = "RATIO", Len(Ms(g)) > 1, ~Lb(g)'.raced
                 PROVE  IF InNextMember(g) \/ InNextMember(g)' THEN Progress(g)' ELSE Lb(g)' = Lb(g)
    BY <1>1, <1>2, WeightFrame
  <1>4. ~Lb(g).raced
    BY <1>1, <1>2, <1>3, FineAfter
  <1>5. CASE WeightedNext(g)
    BY <1>3, <1>5, ProgressEnter
  <1>6. CASE InNextMember(g)
    <2>1. Progress(g)
      BY <1>4, <1>6, ProgressBefore
    <2>2. \/ LoadIndex(g) \/ StoreIndex(g) \/ LoadWeight(g) \/ StoreWeight(g)
          \/ CheckWeight(g) \/ ResetWeight(g) \/ RecheckWeight(g) \/ CompareWeight(g)
      BY <1>6 DEF NextStep, RandomNext, RoundRobinNext, TopologyNext, TopologyLocate, WeightedNext,
                  Calls, At, InNextMember, NextMemberPcs
    <2>. QED  BY <1>6, <2>1, <2>2, ProgressLoadIndex, ProgressStoreIndex, ProgressLoadWeight,
                 ProgressWeight, ProgressCompare
  <1>7. CASE ~InNextMember(g) /\ ~WeightedNext(g)
    <2>1. Q(g).pc = "locate" => Algo(g) = "TOPOLOGY"
      BY <1>2 DEF Inv, AnswerInv, QueryOK, At, Algo
    <2>. QED  BY <1>3, <1>7, <2>1
                 DEF NextStep, RandomNext, RoundRobinNext, TopologyNext, TopologyLocate, LoadIndex,
                     StoreIndex, LoadWeight, StoreWeight, CheckWeight, ResetWeight, RecheckWeight,
                     CompareWeight, Calls, At, Algo, InNextMember, NextMemberPcs
  <1>. QED  BY <1>5, <1>6, <1>7

\* A step outside the load balancers.
LEMMA OutsideWeighs ==
    ASSUME Inv, WeightInv, refs' = refs,
           \A h \in Goroutines : /\ InNextMember(h)' = InNextMember(h)
                                 /\ InNextMember(h) => Q(h)' = Q(h)
    PROVE  WeightInv'
  <1>1. Lbs("RATIO")' = Lbs("RATIO")
    BY DEF Lbs
  <1>2. ASSUME NEW l \in Lbs("RATIO")  PROVE WeighedOK(l)'
    <2>1. WeighedOK(l)
      BY DEF WeightInv
    <2>2. LbAt(l[1], l[2], l[3])' = LbAt(l[1], l[2], l[3]) /\ MembersAt(l[1], l[3])' = MembersAt(l[1], l[3])
      BY DEF LbAt, MembersAt
    <2>3. \A h \in Goroutines : (InNextMember(h) /\ Key(h) = l)' = (InNextMember(h) /\ Key(h) = l)
      BY DEF Key
    <2>4. InProgress(l)' = InProgress(l)
      BY <2>3 DEF InProgress
    <2>. QED  BY <2>1, <2>2, <2>3, <2>4 DEF WeighedOK
  <1>. QED  BY <1>1, <1>2 DEF WeightInv

\* A load balancer that has answered nobody.
LEMMA NewLbRests ==
    ASSUME NEW e \in CatalogEntries, NEW t \in Types, Len(OfType(e, t)) > 1
    PROVE  Resting(NewLb(e)[t], OfType(e, t))
  <1>0. PICK b, ms, d, M, n : b = NewLb(e)[t] /\ ms = OfType(e, t) /\ d = GcdOf(ms) /\ M = MaxWeight(ms)
                              /\ n = Len(ms)
    OBVIOUS
  <1>1. /\ b.index = -1 /\ b.currentWeight = 0 /\ \A i \in 1 .. n : b.served[i] = 0
    BY <1>0 DEF NewLb
  <1>2. ms \in Seq(Members) /\ n \in Nat /\ n > 1
    BY <1>0, MembersType
  <1>3. /\ d \in Nat \ {0} /\ M \in Nat
        /\ \A i \in 1 .. n : ms[i].ratio \in Nat
        /\ HeaviestFirst(ms) => \A i \in 1 .. n : ms[i].ratio <= M
    BY <1>0, <1>2, Ratios
  <1>4. ASSUME HeaviestFirst(ms), NEW i \in 1 .. n
        PROVE  d * b.served[i] = 0 * ms[i].ratio + MetBy(ms, i, M, 0)
    <2>1. ~(ms[i].ratio >= M + d) /\ ~(i <= 0)
      BY <1>2, <1>3, <1>4
    <2>2. MetBy(ms, i, M, 0) = 0
      BY <1>0, <2>1 DEF MetBy, Beyond
    <2>. QED  BY <1>1, <1>3, <1>4, <2>2
  <1>5. 0 \in 0 .. b.served[1]
    BY <1>1, <1>2
  <1>6. Met(b, ms, M, 0)
    BY <1>0, <1>4, <1>5 DEF Met
  <1>7. Reached(b, ms, 0, 0)
    BY <1>0, <1>6 DEF Reached
  <1>8. Resting(b, ms)
    BY <1>1, <1>7 DEF Resting
  <1>. QED  BY <1>0, <1>8

LEMMA SetWeighs ==
    ASSUME Inv, WeightInv, NEW e \in CatalogEntries, SetCatalogEntry(e)
    PROVE  WeightInv'
  <1>0. PICK n : n = Len(refs)
    OBVIOUS
  <1>1. refs' = Append(refs, NewRef(e)) /\ queries' = queries
    BY DEF SetCatalogEntry
  <1>2. /\ Len(refs') = n + 1 /\ n \in Nat
        /\ \A r \in 1 .. n : refs'[r] = refs[r]
        /\ refs'[n + 1] = NewRef(e)
    <2>1. refs \in Seq(Refs) /\ NewRef(e) \in Refs
      BY NewRefType DEF Inv, TypeOK
    <2>. QED  BY <1>0, <1>1, <2>1, AppendProperties, LenProperties
  <1>3. \A g \in Goroutines : Q(g)' = Q(g) /\ Key(g)' = Key(g) /\ InNextMember(g)' = InNextMember(g)
    BY <1>1 DEF Q, Key, InNextMember
  <1>4. SUFFICES ASSUME NEW r \in 1 .. n + 1, NEW s \in Slots, NEW t \in Types,
                        refs'[r].entry.algos[s] = "RATIO"
                 PROVE  WeighedOK(<<r, s, t>>)'
    <2>1. SUFFICES ASSUME NEW l \in Lbs("RATIO")'  PROVE WeighedOK(l)'
      BY DEF WeightInv
    <2>2. PICK r \in 1 .. n + 1, s \in Slots, t \in Types : l = <<r, s, t>>
      BY <1>2, <2>1 DEF Lbs
    <2>3. refs'[r].entry.algos[s] = "RATIO"
      BY <2>1, <2>2 DEF Lbs
    <2>. QED  BY <1>4, <2>2, <2>3
  <1>5. InProgress(<<r, s, t>>)' = InProgress(<<r, s, t>>)
    BY <1>3 DEF InProgress
  <1>6. CASE r \in 1 .. n
    <2>1. refs'[r] = refs[r] /\ <<r, s, t>> \in Lbs("RATIO")
      BY <1>0, <1>2, <1>4, <1>6 DEF Lbs
    <2>2. WeighedOK(<<r, s, t>>)
      BY <2>1 DEF WeightInv
    <2>3. LbAt(r, s, t)' = LbAt(r, s, t) /\ MembersAt(r, t)' = MembersAt(r, t)
      BY <2>1 DEF LbAt, MembersAt
    <2>. QED  BY <1>3, <1>5, <2>2, <2>3 DEF WeighedOK
  <1>7. CASE r = n + 1
    <2>1. ASSUME NEW g \in Goroutines, InNextMember(g), Key(g) = <<r, s, t>>  PROVE FALSE
      <3>1. Q(g).pc # "idle"
        BY <2>1 DEF InNextMember, NextMemberPcs
      <3>2. Q(g).ref \in 1 .. n
        BY <1>0, <3>1, QueryFacts DEF Inv
      <3>3. Q(g).ref = n + 1
        BY <1>7, <2>1 DEF Key
      <3>. QED  BY <1>2, <3>2, <3>3
    <2>2. LbAt(r, s, t)' = NewLb(e)[t] /\ MembersAt(r, t)' = OfType(e, t)
      BY <1>2, <1>7 DEF LbAt, MembersAt, NewRef
    <2>3. Len(OfType(e, t)) > 1 => Resting(NewLb(e)[t], OfType(e, t))
      BY NewLbRests
    <2>. QED  BY <1>3, <2>1, <2>2, <2>3 DEF WeighedOK
  <1>. QED  BY <1>2, <1>6, <1>7

\* Every step keeps what is known of the weighted round robins.
LEMMA WeightInductive == Inv /\ Inv' /\ WeightInv /\ [Next]_vars => WeightInv'
  <1>1. SUFFICES ASSUME Inv, Inv', WeightInv, [Next]_vars  PROVE WeightInv'
    OBVIOUS
  <1>2. ASSUME UNCHANGED <<refs, queries>>  PROVE WeightInv'
    <2>1. \A h \in Goroutines : InNextMember(h)' = InNextMember(h) /\ Q(h)' = Q(h)
      BY <1>2 DEF InNextMember, Q
    <2>. QED  BY <1>1, <1>2, <2>1, OutsideWeighs
  <1>3. CASE UNCHANGED vars
    BY <1>2, <1>3 DEF vars
  <1>4. CASE Next
    <2>1. ~Panicked
      BY <1>4 DEF Next
    <2>2. ASSUME NEW e \in CatalogEntries, SetCatalogEntry(e)  PROVE WeightInv'
      BY <1>1, <2>2, SetWeighs
    <2>3. CASE RemoveCatalogEntry
      BY <1>2, <2>3 DEF RemoveCatalogEntry
    <2>4. ASSUME NEW g \in Goroutines, refs' = refs, NEW q, queries' = [queries EXCEPT ![g] = q],
                 Q(g).pc \notin NextMemberPcs, q.pc \notin NextMemberPcs
          PROVE  WeightInv'
      <3>1. Q(g)' = q /\ \A h \in Goroutines \ {g} : Q(h)' = Q(h)
        BY <1>1, <2>4 DEF Inv, TypeOK, Q
      <3>2. \A h \in Goroutines : /\ InNextMember(h)' = InNextMember(h)
                                  /\ InNextMember(h) => Q(h)' = Q(h)
        BY <2>4, <3>1 DEF InNextMember
      <3>. QED  BY <1>1, <2>4, <3>2, OutsideWeighs
    <2>5. ASSUME NEW g \in Goroutines, Step(g)  PROVE WeightInv'
      <3>1. CASE NextStep(g)
        BY <1>1, <2>1, <3>1, NextStepWeighs
      <3>2. CASE GotMember(g)
        <4> DEFINE q == [Q(g) EXCEPT !.answers = @ \union {Q(g).result}, !.left = @ - 1,
                                     !.slot = 1, !.pc = IF Q(g).left = 1 THEN "answer" ELSE "next"]
        <4>1. queries' = [queries EXCEPT ![g] = q] /\ refs' = refs /\ Q(g).pc = "returned"
          BY <1>1, <3>2 DEF GotMember, At, Inv, TypeOK, Q
        <4>2. q.pc \in {"answer", "next"}
          BY <1>1, <4>1, QueryFacts DEF Inv, Queries
        <4>. HIDE DEF q
        <4>. QED  BY <2>4, <4>1, <4>2 DEF NextMemberPcs
      <3>3. CASE GotError(g)
        <4> DEFINE q == IF Q(g).slot = 3 THEN [Q(g) EXCEPT !.pc = "failed"]
                        ELSE [Q(g) EXCEPT !.pc = "next", !.slot = @ + 1]
        <4>1. queries' = [queries EXCEPT ![g] = q] /\ refs' = refs /\ Q(g).pc = "returned"
          BY <1>1, <3>3 DEF GotError, At, Inv, TypeOK, Q
        <4>2. q.pc \in {"failed", "next"}
          BY <1>1, <4>1, QueryFacts DEF Inv, Queries
        <4>. HIDE DEF q
        <4>. QED  BY <2>4, <4>1, <4>2 DEF NextMemberPcs
      <3>4. CASE Answer(g)
        <4>1. Q(g).pc \notin NextMemberPcs /\ Idle.pc \notin NextMemberPcs
          BY <3>4, IdleType DEF Answer, NextMemberPcs
        <4>. QED  BY <2>4, <3>4, <4>1 DEF Answer
      <3>. QED  BY <2>5, <3>1, <3>2, <3>3, <3>4 DEF Step
    <2>6. ASSUME NEW g \in Goroutines, NEW t \in QueryTypes, NEW a \in Addrs, Resolve(g, t, a)
          PROVE  WeightInv'
      <3>1. PICK left : left = IF refs[current].entry.maxAnswers <= 1 THEN 1
                               ELSE refs[current].entry.maxAnswers
        OBVIOUS
      <3> DEFINE q == [Idle EXCEPT !.pc = "next", !.type = t, !.addr = a, !.ref = current, !.left = left]
      <3>2. queries' = [queries EXCEPT ![g] = q] /\ refs' = refs /\ Q(g).pc = "idle"
        BY <2>6, <3>1 DEF Resolve, At
      <3>3. q.pc = "next"
        BY DEF Idle
      <3>. HIDE DEF q
      <3>. QED  BY <2>4, <3>2, <3>3 DEF NextMemberPcs
    <2>. QED  BY <1>4, <2>2, <2>3, <2>5, <2>6 DEF Next
  <1>. QED  BY <1>1, <1>3, <1>4

-----------------------------------------------------------------------------
(* Theorems *)

\* What the load balancers and the queries rest on holds all along: the types,
\* the counts of the round robins, which load balancers each query has passed.
THEOREM Invariant == Spec => []Inv
  <1>1. Init => Inv
    <2>1. SUFFICES ASSUME Init  PROVE Inv
      OBVIOUS
    <2>2. refs = <<>> /\ Len(refs) = 0 /\ refs \in Seq(Refs) /\ 1 .. Len(refs) = {}
      BY <2>1 DEF Init
    <2>3. queries \in [Goroutines -> Queries] /\ \A g \in Goroutines : Q(g).pc = "idle"
      BY <2>1, IdleType DEF Init, Q
    <2>4. \A g \in Goroutines : QueryTypeOK(g) /\ QueryOK(g) /\ ~InNextMember(g)
      BY <2>3 DEF QueryTypeOK, QueryOK, InNextMember, NextMemberPcs
    <2>5. current \in 0 .. Len(refs) /\ nbQueries \in Nat /\ cachedLoc \in [Addrs -> Dcs \union {None}]
      BY <2>1, <2>2 DEF Init
    <2>. QED  BY <2>2, <2>3, <2>4, <2>5 DEF Inv, TypeOK, FairInv, AnswerInv, Noticed
  <1>2. Inv /\ [Next]_vars => Inv'
    <2>1. SUFFICES ASSUME Inv, [Next]_vars  PROVE Inv'
      OBVIOUS
    <2>2. CASE UNCHANGED vars
      BY <2>1, <2>2, OthersKeep DEF vars, Inv, TypeOK
    <2>3. CASE Next
      <3>1. ~Panicked
        BY <2>3 DEF Next
      <3>2. ASSUME NEW e \in CatalogEntries, SetCatalogEntry(e)  PROVE Inv'
        BY <2>1, <3>1, <3>2, SetKeeps
      <3>3. CASE RemoveCatalogEntry
        <4>1. UNCHANGED <<cachedLoc, refs, queries, nbQueries>> /\ current' = 0 /\ Len(refs) \in Nat
          BY <2>1, <3>3, LenProperties DEF RemoveCatalogEntry, Inv, TypeOK
        <4>. QED  BY <2>1, <4>1, OthersKeep
      <3>4. ASSUME NEW g \in Goroutines, Step(g)  PROVE Inv'
        <4>1. CASE NextStep(g) /\ UNCHANGED <<current, nbQueries>>
          BY <2>1, <3>1, <4>1, NextStepKeeps
        <4>. QED  BY <2>1, <3>1, <3>4, <4>1, GotMemberKeeps, GotErrorKeeps, AnswerKeeps DEF Step
      <3>5. ASSUME NEW g \in Goroutines, NEW t \in QueryTypes, NEW a \in Addrs, Resolve(g, t, a)
            PROVE  Inv'
        BY <2>1, <3>1, <3>5, ResolveKeeps
      <3>. QED  BY <2>3, <3>2, <3>3, <3>4, <3>5 DEF Next
    <2>. QED  BY <2>1, <2>2, <2>3
  <1>. QED  BY <1>1, <1>2, PTL DEF Spec

\* A load balancer never points outside its members, however many goroutines
\* use it without a lock.
THEOREM TypeCorrect == Spec => []TypeOK
  <1>1. Inv => TypeOK
    BY DEF Inv
  <1>. QED  BY <1>1, Invariant, PTL

\* A round robin answers all members equally often, up to one answer, until
\* its counter overflows.
THEOREM RoundRobinFairCorrect == Spec => []RoundRobinFair
  <1>1. Inv => RoundRobinFair
    <2>1. SUFFICES ASSUME Inv, NEW l \in Lbs("ROUND_ROBIN"),
                          LbAt(l[1], l[2], l[3]).number >= -1
                   PROVE  \A i, j \in DOMAIN LbAt(l[1], l[2], l[3]).served :
                             LbAt(l[1], l[2], l[3]).served[i] <= LbAt(l[1], l[2], l[3]).served[j] + 1
      BY DEF RoundRobinFair
    <2> DEFINE b == LbAt(l[1], l[2], l[3])
               n == Len(MembersAt(l[1], l[3]))
    <2>2. /\ l[1] \in 1 .. Len(refs) /\ l[2] \in Slots /\ l[3] \in Types
          /\ refs[l[1]].entry.algos[l[2]] = "ROUND_ROBIN"
      BY <2>1 DEF Lbs
    <2>3. b \in LbStates /\ n \in Nat /\ DOMAIN b.served = 1 .. n
      BY <2>1, <2>2, RefType DEF Inv, IndexOK
    <2>4. n > 1 => Counted(b, n) \/ Overflowed(b, n)
      BY <2>1, <2>2 DEF Inv, FairInv
    <2>5. b.number >= -1
      BY <2>1
    <2>. HIDE DEF b, n
    <2>6. b.number \in Int
      BY <2>3, HalfAssumption DEF LbStates, Int32s
    <2>7. ASSUME NEW i \in 1 .. n, NEW j \in 1 .. n  PROVE b.served[i] <= b.served[j] + 1
      <3>1. CASE n > 1
        <4>1. Counted(b, n) /\ n \in Nat \ {0}
          BY <2>3, <2>4, <2>5, <2>6, <3>1 DEF Overflowed
        <4>2. b.served[i] = Share(b.number, n, i) /\ b.served[j] = Share(b.number, n, j)
          BY <4>1 DEF Counted
        <4>. QED  BY <2>6, <4>1, <4>2, ShareFair
      <3>2. CASE ~(n > 1)
        <4>1. i = j
          BY <2>3, <3>2
        <4>2. b.served[i] \in Nat
          <5>1. b.served \in Seq(Nat)
            BY <2>3 DEF LbStates
          <5>2. DOMAIN b.served = 1 .. Len(b.served)
            BY <5>1, LenProperties
          <5>. QED  BY <2>3, <5>1, <5>2, ElementOfSeq
        <4>. QED  BY <4>1, <4>2
      <3>. QED  BY <3>1, <3>2
    <2>. QED  BY <2>3, <2>7 DEF b
  <1>. QED  BY <1>1, Invariant, PTL

\* An A or AAAA query whose entry has members and a load balancer other than
\* topology is answered, unless two goroutines were in its weighted round robin at once.
THEOREM AnsweredWhenPossibleCorrect == Spec => []AnsweredWhenPossible
  <1>1. Inv => AnsweredWhenPossible
    <2>1. SUFFICES ASSUME Inv, NEW g \in Goroutines, Q(g).pc \in {"answer", "failed"},
                          Q(g).type # "All", Ms(g) # <<>>,
                          \E s \in Slots : EntryOf(g).algos[s] # "TOPOLOGY", ~Raced(g)
                   PROVE  Answered(g) # {}
      BY DEF AnsweredWhenPossible
    <2>2. QueryOK(g)
      BY <2>1 DEF Inv, AnswerInv
    <2>3. Q(g).pc = "answer"
      BY <2>1, <2>2 DEF QueryOK, At
    <2>4. Q(g).answers # {} /\ Nil \notin Q(g).answers
      BY <2>1, <2>2, <2>3 DEF QueryOK, At
    <2>. QED  BY <2>1, <2>3, <2>4 DEF Answered, At
  <1>. QED  BY <1>1, Invariant, PTL

\* What a weighted round robin has answered, and what its goroutine is doing,
\* is as WeightInv says all along.
THEOREM WeightCorrect == Spec => []WeightInv
  <1>1. Init => WeightInv
    BY DEF Init, WeightInv, Lbs
  <1>. QED  BY <1>1, WeightInductive, Invariant, PTL DEF Spec

\* A weighted round robin whose first member is the heaviest answers its members
\* in the proportion of their ratios over each cycle, for any ratios.
THEOREM HeaviestFirstAnsweredCorrect == Spec => []HeaviestFirstAnswered
  <1>1. Inv /\ WeightInv => HeaviestFirstAnswered
    <2>1. SUFFICES ASSUME Inv, WeightInv, NEW l \in Lbs("RATIO"), EndOfCycle(l), FirstIsHeaviest(l)
                   PROVE  Proportional(l)
      BY DEF HeaviestFirstAnswered
    <2>2. PICK b, ms, d, n : /\ b = LbAt(l[1], l[2], l[3]) /\ ms = MembersAt(l[1], l[3])
                             /\ d = GcdOf(ms) /\ n = Len(ms)
      OBVIOUS
    <2>3. l[1] \in 1 .. Len(refs) /\ l[2] \in Slots /\ l[3] \in Types
      BY <2>1 DEF Lbs
    <2>4. /\ ~InProgress(l) /\ ~b.raced /\ n > 1 /\ b.index = n - 1 /\ b.currentWeight = d
          /\ HeaviestFirst(ms)
      BY <2>1, <2>2 DEF EndOfCycle, FirstIsHeaviest, HeaviestFirst
    <2>5. Balances(b, ms)
      BY <2>1, <2>2, <2>3, <2>4, RefType DEF Balances, Inv, IndexOK
    <2>6. /\ n \in Nat /\ d \in Nat \ {0}
          /\ \A i \in 1 .. n : ms[i].ratio \in Nat /\ ms[i].ratio >= d /\ b.served[i] \in Nat
      BY <2>2, <2>4, <2>5, Ratios, BalancesFacts DEF Balances
    <2>7. WeighedOK(l)
      BY <2>1 DEF WeightInv
    <2>8. Resting(b, ms)
      BY <2>2, <2>4, <2>7 DEF WeighedOK
    <2>9. Met(b, ms, d, n)
      <3>1. b.index + 1 = n /\ ~(d <= 0)
        BY <2>4, <2>6
      <3>. QED  BY <2>4, <2>8, <3>1 DEF Resting, Reached
    <2>10. PICK c \in 0 .. b.served[1] : \A i \in 1 .. n :
                   d * b.served[i] = c * ms[i].ratio + MetBy(ms, i, d, n)
      BY <2>2, <2>4, <2>9 DEF Met
    <2>11. c \in Nat
      BY <2>4, <2>6
    <2>12. ASSUME NEW i \in 1 .. n  PROVE d * b.served[i] = (c + 1) * ms[i].ratio
      <3>0. PICK r, s : r = ms[i].ratio /\ s = b.served[i]
        OBVIOUS
      <3>1. MetBy(ms, i, d, n) = r
        BY <2>2, <2>6, <3>0 DEF MetBy, Beyond
      <3>2. d * s = c * r + r /\ r \in Nat
        BY <2>6, <2>10, <3>0, <3>1
      <3>3. d * s = (c + 1) * r
        BY <2>11, <3>2, SMT
      <3>. QED  BY <3>0, <3>3
    <2>13. ASSUME NEW i \in 1 .. n, NEW j \in 1 .. n
           PROVE  b.served[i] * ms[j].ratio = b.served[j] * ms[i].ratio
      <3>0. PICK r, s, u, v : r = ms[i].ratio /\ s = b.served[i] /\ u = ms[j].ratio /\ v = b.served[j]
        OBVIOUS
      <3>1. r \in Nat /\ s \in Nat /\ u \in Nat /\ v \in Nat
        BY <2>6, <3>0
      <3>2. d * s = (c + 1) * r /\ d * v = (c + 1) * u
        BY <2>12, <3>0
      <3>3. d * (s * u) = ((c + 1) * r) * u /\ d * (v * r) = ((c + 1) * u) * r
        <4>1. d * (s * u) = (d * s) * u /\ d * (v * r) = (d * v) * r
          BY <2>6, <3>1, SMT
        <4>. QED  BY <3>2, <4>1
      <3>4. ((c + 1) * r) * u = ((c + 1) * u) * r
        BY <2>11, <3>1, SMT
      <3>5. PICK x, y : x = s * u /\ y = v * r
        OBVIOUS
      <3>6. x \in Int /\ y \in Int
        BY <3>1, <3>5, SMT
      <3>7. d * x = d * y
        BY <3>3, <3>4, <3>5
      <3>8. d * (x - y) = 0
        BY <2>6, <3>6, <3>7, SMT
      <3>9. x - y = 0
        <4>1. -d < d * (x - y) /\ d * (x - y) < d /\ x - y \in Int
          BY <2>6, <3>6, <3>8
        <4>. QED  BY <2>6, <4>1, SmallMultiple
      <3>. QED  BY <3>0, <3>5, <3>6, <3>9
    <2>. QED  BY <2>2, <2>13 DEF Proportional
  <1>. QED  BY <1>1, Invariant, WeightCorrect, PTL

\* A weighted round robin asked by one goroutine at a time looks at each of its
\* members once at most before it answers one, if any of them has a ratio.
THEOREM BoundedTurnsCorrect == Spec => []BoundedTurns
  <1>1. Inv /\ WeightInv => BoundedTurns
    <2>1. SUFFICES ASSUME Inv, WeightInv, NEW g \in Goroutines, InNextMember(g), ~Lb(g).raced,
                          NEW i \in 1 .. Len(Ms(g)), Ms(g)[i].ratio # 0
                   PROVE  Q(g).turns <= Len(Ms(g))
      BY DEF BoundedTurns
    <2>2. PICK n : n = Len(Ms(g))
      OBVIOUS
    <2>3. Progress(g)
      BY <2>1, ProgressBefore
    <2>4. /\ Balances(Lb(g), Ms(g)) /\ Q(g).turns \in Nat /\ n \in Nat /\ n > 1
          /\ Q(g).new \in 0 .. n - 1 /\ Lb(g).index \in -1 .. n - 1 /\ Ms(g) \in Seq(Members)
          /\ Turns(Lb(g), Ms(g), Q(g).pc, Q(g).new, Q(g).turns)
      BY <2>1, <2>2, <2>3, ProgressFacts DEF Balances
    <2>5. PICK j \in 1 .. n : Ms(g)[j].ratio >= MaxWeight(Ms(g))
      <3>1. Ms(g)[1].ratio \in Nat /\ Ms(g)[i].ratio \in Nat
        BY <2>1, <2>2, <2>4, Ratios
      <3>2. CASE Ms(g)[1].ratio = 0
        <4>1. Ms(g)[i].ratio >= MaxWeight(Ms(g))
          BY <2>1, <3>1, <3>2 DEF MaxWeight, Weight
        <4>. QED  BY <2>1, <2>2, <4>1
      <3>3. CASE Ms(g)[1].ratio # 0
        <4>1. Ms(g)[1].ratio >= MaxWeight(Ms(g)) /\ 1 \in 1 .. n
          BY <2>4, <3>1, <3>3 DEF MaxWeight, Weight
        <4>. QED  BY <4>1
      <3>. QED  BY <3>2, <3>3
    <2>6. Since(Lb(g).index + 1, j, Ms(g)) \in 0 .. n - 1 /\ Since(Q(g).new, j, Ms(g)) \in 0 .. n - 1
      <3>1. Lb(g).index + 1 \in 0 .. n /\ Q(g).new \in 0 .. n
        BY <2>4
      <3>. QED  BY <2>2, <2>4, <2>5, <3>1, SinceFacts
    <2>7. \/ Q(g).turns <= Since(Lb(g).index + 1, j, Ms(g))
          \/ Q(g).turns <= Since(Lb(g).index + 1, j, Ms(g)) + 1
          \/ Q(g).turns <= Since(Q(g).new, j, Ms(g)) + 1
      BY <2>2, <2>4, <2>5 DEF Turns
    <2>. QED  BY <2>2, <2>4, <2>6, <2>7
  <1>. QED  BY <1>1, Invariant, WeightCorrect, PTL
=============================================================================
