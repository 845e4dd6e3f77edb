-------------------------- MODULE RetrieverProofs --------------------------
(* What Retriever guarantees for any set of names, any contents, any number *)
(* of workers and any bounds.                                               *)
EXTENDS Retriever, SequenceTheorems, FiniteSetTheorems, TLAPS

-----------------------------------------------------------------------------
(* Sequences of events *)

\* The last element of a queue to which an event is appended is that event.
LEMMA LastOfAppend ==
    ASSUME NEW S, NEW s \in Seq(S), NEW x \in S
    PROVE  /\ Append(s, x) \in Seq(S)
           /\ Len(Append(s, x)) = Len(s) + 1
           /\ Append(s, x) # <<>>
           /\ Last1(Append(s, x)) = x
           /\ \A i \in 1 .. Len(s) : Append(s, x)[i] = s[i]
  BY AppendProperties DEF Last1

\* The last element of a queue that is not empty is an element of its type.
LEMMA LastInSeq ==
    ASSUME NEW S, NEW s \in Seq(S), s # <<>>
    PROVE  Last1(s) \in S
  <1>1. Len(s) \in Nat /\ Len(s) >= 1
    BY LenProperties, EmptySeq
  <1>. QED  BY <1>1, ElementOfSeq DEF Last1

\* What is left of a queue once its i-th element is delivered.
LEMMA RemoveIthProperties ==
    ASSUME NEW S, NEW s \in Seq(S), NEW i \in 1 .. Len(s)
    PROVE  /\ RemoveIth(s, i) \in Seq(S)
           /\ Len(RemoveIth(s, i)) = Len(s) - 1
           /\ \A j \in 1 .. (Len(s) - 1) :
                 RemoveIth(s, i)[j] = IF j < i THEN s[j] ELSE s[j + 1]
  <1>0. Len(s) \in Nat
    BY LenProperties
  <1> DEFINE a == SubSeq(s, 1, i - 1)
             b == SubSeq(s, i + 1, Len(s))
  <1>1. /\ a \in Seq(S) /\ Len(a) = i - 1
        /\ \A j \in 1 .. (i - 1) : a[j] = s[j]
    <2>1. \A k \in 1 .. (i - 1) : s[k] \in S
      BY <1>0, ElementOfSeq
    <2>. QED  BY <1>0, <2>1, SubSeqProperties
  <1>2. /\ b \in Seq(S) /\ Len(b) = Len(s) - i
        /\ \A j \in 1 .. (Len(s) - i) : b[j] = s[i + j]
    <2>1. \A k \in (i + 1) .. Len(s) : s[k] \in S
      BY <1>0, ElementOfSeq
    <2>2. /\ b \in Seq(S)
          /\ Len(b) = IF i + 1 <= Len(s) THEN Len(s) - (i + 1) + 1 ELSE 0
          /\ \A j \in 1 .. Len(s) - (i + 1) + 1 : b[j] = s[(i + 1) + j - 1]
      BY <1>0, <2>1, SubSeqProperties
    <2>. QED  BY <1>0, <2>2
  <1>3. RemoveIth(s, i) = a \o b
    BY DEF RemoveIth
  <1>. HIDE DEF a, b
  <1>4. /\ a \o b \in Seq(S) /\ Len(a \o b) = Len(a) + Len(b)
        /\ \A j \in 1 .. Len(a) + Len(b) : (a \o b)[j] = IF j <= Len(a) THEN a[j] ELSE b[j - Len(a)]
    BY <1>1, <1>2, ConcatProperties
  <1>5. Len(a) + Len(b) = Len(s) - 1
    BY <1>0, <1>1, <1>2
  <1>6. ASSUME NEW j \in 1 .. (Len(s) - 1)
        PROVE  (a \o b)[j] = IF j < i THEN s[j] ELSE s[j + 1]
    <2>1. CASE j < i
      BY <2>1, <1>0, <1>1, <1>4, <1>5
    <2>2. CASE ~(j < i)
      <3>1. j - Len(a) \in 1 .. (Len(s) - i) /\ i + (j - Len(a)) = j + 1
        BY <2>2, <1>0, <1>1
      <3>. QED  BY <2>2, <3>1, <1>0, <1>1, <1>2, <1>4, <1>5
    <2>. QED  BY <2>1, <2>2
  <1>. QED  BY <1>3, <1>4, <1>5, <1>6

\* Queues of positions: what is appended or left in one stays within the bound.
LEMMA AppendWithin ==
    ASSUME NEW s \in Seq(Nat), NEW n \in Nat, NEW x \in 1 .. n,
           \A i \in 1 .. Len(s) : s[i] \in 1 .. n
    PROVE  \A i \in 1 .. Len(Append(s, x)) : Append(s, x)[i] \in 1 .. n
  <1>1. Len(s) \in Nat /\ x \in Nat
    BY LenProperties
  <1>. QED  BY <1>1, AppendProperties

\* So does what is left in it when an element is delivered.
LEMMA RemoveWithin ==
    ASSUME NEW s \in Seq(Nat), NEW n \in Nat, NEW k \in 1 .. Len(s),
           \A i \in 1 .. Len(s) : s[i] \in 1 .. n
    PROVE  \A i \in 1 .. Len(RemoveIth(s, k)) : RemoveIth(s, k)[i] \in 1 .. n
  <1>1. Len(s) \in Nat
    BY LenProperties
  <1>2. /\ Len(RemoveIth(s, k)) = Len(s) - 1
        /\ \A j \in 1 .. (Len(s) - 1) :
              RemoveIth(s, k)[j] = IF j < k THEN s[j] ELSE s[j + 1]
    BY RemoveIthProperties
  <1>. QED  BY SMTT(30), <1>1, <1>2

-----------------------------------------------------------------------------
(* Types *)

\* Consul's state and the phase of Run keep their types.
LEMMA ConsulTypes == TypeOK /\ [Next]_vars => ConsulTypeOK'
  <1>. SUFFICES ASSUME TypeOK, [Next]_vars PROVE ConsulTypeOK'
    OBVIOUS
  <1>. USE DEF ConsulTypeOK
  <1>1. ASSUME NEW f \in Fqdns, NEW c \in Contents \union {None}, Put(f, c)
        PROVE  ConsulTypeOK'
    BY <1>1 DEF TypeOK, Put
  <1>2. ASSUME NEW f \in Fqdns, NEW v \in Views \union {None}, ChangeHealth(f, v)
        PROVE  ConsulTypeOK'
    BY <1>2 DEF TypeOK, ChangeHealth
  <1>3. CASE KvListFails
    BY <1>3 DEF TypeOK, KvListFails, AfterKvPoll, consul
  <1>4. CASE KvDone
    BY <1>4 DEF TypeOK, KvDone, AfterKvPoll, consul
  <1>5. CASE CatListFails
    BY <1>5 DEF TypeOK, CatListFails, consul
  <1>6. CASE CatDone
    BY <1>6 DEF TypeOK, CatDone, consul
  <1>7. CASE Restart
    BY <1>7 DEF TypeOK, Restart, Each, consul
  <1>8. CASE UNCHANGED <<log, health, changes, restarts, phase>>
    BY <1>8 DEF TypeOK
  <1>. QED
    BY <1>1, <1>2, <1>3, <1>4, <1>5, <1>6, <1>7, <1>8
       DEF consul, caches, pollKV, pollCat, feeds, Next, KvWorker, KvRemoval,
           CatWorker, Deliver, vars, KvList, KvUnmarshal, KvApply, KvEmit, KvWait,
           RemoveEntry, CheckRemoved, DropCheck, CatList, CatLoad, CatHealth,
           CatHealthFails, CatLoadOrStore, CatStore, CatEmit, DeliverKv,
           DeliverCatalog

\* The variables of pollKV and of its listeners keep their types.
LEMMA KvTypes == TypeOK /\ [Next]_vars => KvTypeOK'
  <1>. SUFFICES ASSUME TypeOK, [Next]_vars PROVE KvTypeOK'
    OBVIOUS
  <1>. USE DEF KvTypeOK
  <1>1. CASE KvList
    <2>1. \A f \in Fqdns : Len(log[f]) \in Nat
      BY LenProperties DEF TypeOK, ConsulTypeOK
    <2>. QED  BY <1>1, <2>1 DEF TypeOK, KvList, Orphans, KvStages, caches, feeds
  <1>2. ASSUME NEW f \in Fqdns, KvUnmarshal(f)
        PROVE  KvTypeOK'
    BY <1>2 DEF TypeOK, KvUnmarshal, KvStages, caches, feeds
  <1>3. ASSUME NEW f \in Fqdns, KvApply(f)
        PROVE  KvTypeOK'
    BY <1>3 DEF TypeOK, KvApply, KvStages, caches, feeds
  <1>4. ASSUME NEW f \in Fqdns, KvEmit(f)
        PROVE  KvTypeOK'
    BY <1>4, AppendProperties DEF TypeOK, KvEmit, KvStages, caches, feeds
  <1>5. CASE KvWait
    BY <1>5 DEF TypeOK, KvWait, caches, pollKV, feeds
  <1>6. ASSUME NEW f \in Fqdns, RemoveEntry(f)
        PROVE  KvTypeOK'
    BY <1>6, AppendProperties DEF TypeOK, RemoveEntry, caches, feeds
  <1>7. CASE CheckRemoved
    BY <1>7 DEF TypeOK, CheckRemoved, caches, pollKV, feeds
  <1>8. CASE DropCheck
    BY <1>8 DEF TypeOK, DropCheck, caches, pollKV, feeds
  <1>9. CASE KvDone
    BY <1>9 DEF TypeOK, KvDone, caches, pollKV, feeds
  <1>10. ASSUME NEW f \in Fqdns, NEW i \in 1 .. Len(kvEvents[f]), DeliverKv(f, i)
        PROVE  KvTypeOK'
    <2>1. kvEvents[f][i] \in Nat
      BY ElementOfSeq DEF TypeOK
    <2>2. RemoveIth(kvEvents[f], i) \in Seq(Nat)
      BY RemoveIthProperties DEF TypeOK
    <2>. QED  BY <1>10, <2>1, <2>2 DEF TypeOK, DeliverKv, caches, pollKV
  <1>11. CASE Restart
    BY <1>11, EmptySeq DEF TypeOK, Restart, Each, KvStages
  <1>12. CASE UNCHANGED <<signEntsCached, pollKV, kvEvents, known>>
    BY <1>12 DEF TypeOK, pollKV
  <1>. QED
    BY <1>1, <1>2, <1>3, <1>4, <1>5, <1>6, <1>7, <1>8, <1>9, <1>10, <1>11, <1>12
       DEF consul, caches, pollKV, pollCat, feeds, Next, KvWorker, KvRemoval,
           CatWorker, Deliver, vars, Put, ChangeHealth, KvListFails, CatList,
           CatListFails, CatLoad, CatHealth, CatHealthFails, CatLoadOrStore,
           CatStore, CatEmit, CatDone, DeliverCatalog

\* Positions that are cached, listed, pending or known stay within a history
\* that only grows.
LEMMA Positions == TypeOK /\ [Next]_vars => PositionsOK'
  <1>. SUFFICES ASSUME TypeOK, [Next]_vars PROVE PositionsOK'
    OBVIOUS
  <1>. USE DEF PositionsOK
  <1>1. ASSUME NEW f \in Fqdns, NEW c \in Contents \union {None}, Put(f, c)
        PROVE  PositionsOK'
    <2>1. /\ log[f] \in Seq(Contents \union {None}) /\ Len(log[f]) \in Nat
      BY LenProperties DEF TypeOK, ConsulTypeOK
    <2>2. Len(log'[f]) = Len(log[f]) + 1
      BY <1>1, <2>1, AppendProperties DEF TypeOK, ConsulTypeOK, Put
    <2>. QED  BY <1>1, <2>1, <2>2 DEF TypeOK, Put, caches, pollKV, feeds
  <1>2. CASE KvList
    <2>1. \A f \in Fqdns : Len(log[f]) \in 1 .. Len(log[f])
      BY LenProperties DEF TypeOK, ConsulTypeOK
    <2>. QED  BY <1>2, <2>1 DEF TypeOK, KvList, consul, caches, feeds
  <1>3. ASSUME NEW f \in Fqdns, KvApply(f)
        PROVE  PositionsOK'
    BY <1>3 DEF TypeOK, KvTypeOK, KvApply, consul, feeds
  <1>4. ASSUME NEW f \in Fqdns, KvEmit(f)
        PROVE  PositionsOK'
    <2> DEFINE queue == Append(kvEvents[f], kvPairs[f])
    <2>1. /\ kvEvents[f] \in Seq(Nat) /\ Len(log[f]) \in Nat
          /\ kvPairs[f] \in 1 .. Len(log[f])
      BY LenProperties DEF TypeOK, ConsulTypeOK, KvTypeOK
    <2>2. \A j \in 1 .. Len(queue) : queue[j] \in 1 .. Len(log[f])
      BY <2>1, AppendWithin DEF TypeOK
    <2>3. kvEvents' = [kvEvents EXCEPT ![f] = queue] /\ log' = log
      BY <1>4 DEF KvEmit, consul
    <2>. HIDE DEF queue
    <2>. QED  BY <1>4, <2>2, <2>3 DEF TypeOK, KvTypeOK, KvEmit, caches
  <1>5. ASSUME NEW f \in Fqdns, RemoveEntry(f)
        PROVE  PositionsOK'
    <2> DEFINE queue == Append(kvEvents[f], kvPairs[f])
    <2>1. /\ kvEvents[f] \in Seq(Nat) /\ Len(log[f]) \in Nat
          /\ kvPairs[f] \in 1 .. Len(log[f])
      BY LenProperties DEF TypeOK, ConsulTypeOK, KvTypeOK
    <2>2. \A j \in 1 .. Len(queue) : queue[j] \in 1 .. Len(log[f])
      BY <2>1, AppendWithin DEF TypeOK
    <2>3. kvEvents' = [kvEvents EXCEPT ![f] = queue] /\ log' = log
      BY <1>5 DEF RemoveEntry, consul
    <2>. HIDE DEF queue
    <2>. QED  BY <1>5, <2>2, <2>3 DEF TypeOK, KvTypeOK, RemoveEntry, caches
  <1>6. ASSUME NEW f \in Fqdns, NEW i \in 1 .. Len(kvEvents[f]), DeliverKv(f, i)
        PROVE  PositionsOK'
    <2> DEFINE queue == RemoveIth(kvEvents[f], i)
    <2>1. kvEvents[f] \in Seq(Nat) /\ Len(log[f]) \in Nat
      BY LenProperties DEF TypeOK, ConsulTypeOK, KvTypeOK
    <2>2. \A j \in 1 .. Len(queue) : queue[j] \in 1 .. Len(log[f])
      BY <2>1, RemoveWithin DEF TypeOK
    <2>3. kvEvents' = [kvEvents EXCEPT ![f] = queue] /\ log' = log
      BY <1>6 DEF DeliverKv, consul
    <2>. HIDE DEF queue
    <2>. QED  BY <1>6, <2>2, <2>3 DEF TypeOK, KvTypeOK, DeliverKv, caches, pollKV
  <1>7. CASE Restart
    <2>1. \A f \in Fqdns : Len(log[f]) \in Nat /\ 1 \in 1 .. Len(log[f])
      BY LenProperties DEF TypeOK, ConsulTypeOK
    <2>. QED  BY <1>7, <2>1, EmptySeq DEF TypeOK, Restart, Each, consul
  <1>8. CASE UNCHANGED <<log, signEntsCached, kvPairs, known, kvEvents>>
    BY <1>8 DEF TypeOK
  <1>. QED
    BY <1>1, <1>2, <1>3, <1>4, <1>5, <1>6, <1>7, <1>8
       DEF consul, caches, pollKV, pollCat, feeds, Next, KvWorker, KvRemoval,
           CatWorker, Deliver, vars, ChangeHealth, KvListFails, KvUnmarshal, KvWait,
           CheckRemoved, DropCheck, KvDone, CatList, CatListFails, CatLoad,
           CatHealth, CatHealthFails, CatLoadOrStore, CatStore, CatEmit, CatDone,
           DeliverCatalog

\* The variables of pollCatalog and of the DNS handler keep their types.
LEMMA CatTypes == TypeOK /\ [Next]_vars => CatTypeOK'
  <1>. SUFFICES ASSUME TypeOK, [Next]_vars PROVE CatTypeOK'
    OBVIOUS
  <1>. USE DEF CatTypeOK
  <1>1. CASE CheckRemoved
    <2>1. removing \in Fqdns
      BY <1>1 DEF TypeOK, KvTypeOK, CheckRemoved
    <2>2. Append(catEvents[removing], None) \in Seq(CatalogEntries \union {None})
      BY <2>1, AppendProperties DEF TypeOK
    <2>3. catEvents' \in [Fqdns -> Seq(CatalogEntries \union {None})]
      BY <1>1, <2>2 DEF TypeOK, CheckRemoved
    <2>. QED  BY <1>1, <2>3 DEF TypeOK, CheckRemoved, CatRunning, caches, pollCat
  <1>2. CASE DropCheck
    BY <1>2 DEF TypeOK, KvTypeOK, DropCheck, CatRunning, pollCat, feeds
  <1>3. CASE CatList
    BY <1>3 DEF TypeOK, CatList, CatStages, CatRunning, caches, feeds, pollCat
  <1>4. ASSUME NEW f \in Fqdns, CatLoad(f)
        PROVE  CatTypeOK'
    <2>1. signEntsCached[f] \in 1 .. Len(log[f])
      BY DEF TypeOK, PositionsOK
    <2>2. Known(f) \in Contents \union {None}
      BY <2>1, ElementOfSeq DEF TypeOK, ConsulTypeOK, Known
    <2>3. Cached(f) => HeaderOf[Known(f)] \in Headers
      BY <2>2 DEF Cached, Headers
    <2>. QED  BY <1>4, <2>3 DEF TypeOK, CatLoad, CatStages, CatRunning, caches, feeds
  <1>5. ASSUME NEW f \in Fqdns, CatHealth(f)
        PROVE  CatTypeOK'
    BY <1>5, ViewsAssumption DEF TypeOK, ConsulTypeOK, CatHealth, Passing, CatStages, CatRunning, caches, feeds
  <1>6. ASSUME NEW f \in Fqdns, CatHealthFails(f)
        PROVE  CatTypeOK'
    BY <1>6 DEF TypeOK, CatHealthFails, CatReturn, CatStages, CatRunning, caches, feeds
  <1>7. ASSUME NEW f \in Fqdns, CatLoadOrStore(f)
        PROVE  CatTypeOK'
    <2>1. f \in CatRunning
      BY <1>7 DEF CatLoadOrStore, CatRunning
    <2>2. NewEntry(f) \in CatalogEntries
      BY <1>7, <2>1 DEF TypeOK, CatLoadOrStore, NewEntry, CatalogEntries
    <2>3. CASE catStage' = [catStage EXCEPT ![f] = "emit"]
               /\ signCheckCached' = [signCheckCached EXCEPT ![f] = NewEntry(f)]
               /\ UNCHANGED <<catEnt, catView, catPc, feeds>>
      BY <2>1, <2>2, <2>3, <1>7 DEF TypeOK, CatLoadOrStore, CatStages, CatRunning, feeds
    <2>4. CASE CatReturn(f) /\ UNCHANGED <<signCheckCached, catPc, feeds>>
      BY <2>1, <2>4 DEF TypeOK, CatReturn, CatStages, CatRunning, feeds
    <2>5. CASE catStage' = [catStage EXCEPT ![f] = "store"]
               /\ UNCHANGED <<catEnt, catView, signCheckCached, catPc, feeds>>
      BY <2>1, <2>5, <1>7 DEF TypeOK, CatLoadOrStore, CatStages, CatRunning, feeds
    <2>. QED  BY <1>7, <2>3, <2>4, <2>5 DEF CatLoadOrStore
  <1>8. ASSUME NEW f \in Fqdns, CatStore(f)
        PROVE  CatTypeOK'
    <2>1. f \in CatRunning
      BY <1>8 DEF CatStore, CatRunning
    <2>2. NewEntry(f) \in CatalogEntries
      BY <1>8, <2>1 DEF TypeOK, CatStore, NewEntry, CatalogEntries
    <2>. QED  BY <1>8, <2>1, <2>2 DEF TypeOK, CatStore, CatStages, CatRunning, feeds
  <1>9. ASSUME NEW f \in Fqdns, CatEmit(f)
        PROVE  CatTypeOK'
    <2>1. f \in CatRunning
      BY <1>9 DEF CatEmit, CatRunning
    <2>2. NewEntry(f) \in CatalogEntries
      BY <1>9, <2>1 DEF TypeOK, CatEmit, NewEntry, CatalogEntries
    <2>3. catEvents' \in [Fqdns -> Seq(CatalogEntries \union {None})]
      BY <1>9, <2>2, AppendProperties DEF TypeOK, CatEmit
    <2>. QED  BY <1>9, <2>3 DEF TypeOK, CatEmit, CatReturn, CatStages, CatRunning, caches
  <1>10. CASE CatDone
    BY <1>10 DEF TypeOK, CatDone, CatStages, CatRunning, caches, feeds, pollCat
  <1>11. ASSUME NEW f \in Fqdns, NEW i \in 1 .. Len(catEvents[f]), DeliverCatalog(f, i)
        PROVE  CatTypeOK'
    <2>1. catEvents[f] \in Seq(CatalogEntries \union {None})
      BY DEF TypeOK
    <2>2. catEvents[f][i] \in CatalogEntries \union {None}
      BY <2>1, ElementOfSeq
    <2>3. RemoveIth(catEvents[f], i) \in Seq(CatalogEntries \union {None})
      BY <2>1, RemoveIthProperties
    <2>. QED  BY <1>11, <2>2, <2>3 DEF TypeOK, DeliverCatalog, CatRunning, caches, pollCat
  <1>12. CASE Restart
    BY <1>12, EmptySeq DEF TypeOK, Restart, Each, CatStages, CatRunning
  <1>13. CASE UNCHANGED <<signCheckCached, pollCat, catEvents, entries>>
    BY <1>13 DEF TypeOK, CatRunning, pollCat
  <1>. QED
    BY <1>1, <1>2, <1>3, <1>4, <1>5, <1>6, <1>7, <1>8, <1>9, <1>10, <1>11, <1>12,
       <1>13
       DEF consul, caches, pollKV, pollCat, feeds, Next, KvWorker, KvRemoval,
           CatWorker, Deliver, vars, Put, ChangeHealth, KvList, KvListFails,
           KvUnmarshal, KvApply, KvEmit, KvWait, RemoveEntry, KvDone, CatListFails,
           DeliverKv

\* Every variable keeps its type and positions stay within the keys' histories.
THEOREM TypeCorrect == Spec => []TypeOK
  <1>1. Init => TypeOK
    <2>. SUFFICES ASSUME Init PROVE TypeOK
      OBVIOUS
    <2>1. ConsulTypeOK /\ \A f \in Fqdns : Len(log[f]) = 1
      <3>1. <<None>> \in Seq(Contents \union {None}) /\ Len(<<None>>) = 1
        OBVIOUS
      <3>. QED  BY <3>1 DEF Init, Each, ConsulTypeOK
    <2>2. KvTypeOK
      BY EmptySeq DEF Init, Each, KvTypeOK, KvStages
    <2>3. PositionsOK
      BY <2>1, EmptySeq DEF Init, Each, PositionsOK
    <2>4. CatTypeOK
      BY EmptySeq DEF Init, Each, CatTypeOK, CatStages, CatRunning
    <2>. QED  BY <2>1, <2>2, <2>3, <2>4 DEF TypeOK
  <1>2. TypeOK /\ [Next]_vars => TypeOK'
    BY ConsulTypes, KvTypes, Positions, CatTypes DEF TypeOK
  <1>. QED  BY <1>1, <1>2, PTL DEF Spec

-----------------------------------------------------------------------------
(* Removals *)

\* Histories only grow.
LEMMA HistoryKept ==
    ASSUME TypeOK, [Next]_vars, NEW f \in Fqdns
    PROVE  /\ Len(log[f]) \in Nat /\ Len(log'[f]) \in Nat /\ Len(log[f]) <= Len(log'[f])
           /\ \A n \in 1 .. Len(log[f]) : log'[f][n] = log[f][n]
  <1>1. log[f] \in Seq(Contents \union {None}) /\ Len(log[f]) \in Nat
    BY LenProperties DEF TypeOK, ConsulTypeOK
  <1>2. ASSUME NEW g \in Fqdns, NEW c \in Contents \union {None}, Put(g, c)
        PROVE  log'[f] = log[f] \/ log'[f] = Append(log[f], c)
    BY <1>2 DEF Put, TypeOK, ConsulTypeOK
  <1>3. CASE log' = log
    BY <1>1, <1>3
  <1>4. CASE \E c \in Contents \union {None} : log'[f] = log[f] \/ log'[f] = Append(log[f], c)
    BY <1>1, <1>4, AppendProperties
  <1>. QED
    BY <1>2, <1>3, <1>4
       DEF Next, KvWorker, KvRemoval, CatWorker, Deliver, vars, consul, ChangeHealth,
           KvList, KvListFails, KvUnmarshal, KvApply, KvEmit, KvWait, RemoveEntry,
           CheckRemoved, DropCheck, KvDone, CatList, CatListFails, CatLoad, CatHealth,
           CatHealthFails, CatLoadOrStore, CatStore, CatEmit, CatDone, DeliverKv,
           DeliverCatalog, Restart

\* RemovalInv is inductive: workers are done before the removal loop starts,
\* and none of them has a name that is to be removed.
LEMMA RemovalInductive == TypeOK /\ RemovalInv /\ [Next]_vars => RemovalInv'
  <1>. SUFFICES ASSUME TypeOK, RemovalInv, [Next]_vars PROVE RemovalInv'
    OBVIOUS
  <1>0. \A f \in toRemove : /\ signEntsCached[f] \in 1 .. Len(log[f])
                            /\ kvPairs[f] \in 1 .. Len(log[f])
                            /\ log'[f][signEntsCached[f]] = log[f][signEntsCached[f]]
                            /\ log'[f][kvPairs[f]] = log[f][kvPairs[f]]
    BY HistoryKept DEF TypeOK, KvTypeOK, PositionsOK
  <1>. USE DEF RemovalInv, PollPhases, RemovalJustified, Cached, Known, Listed
  <1>1. ASSUME NEW f \in Fqdns, NEW c \in Contents \union {None}, Put(f, c)
        PROVE  RemovalInv'
    BY <1>0, <1>1 DEF TypeOK, KvTypeOK, Put, caches, pollKV
  <1>2. CASE KvList
    BY <1>2 DEF TypeOK, KvTypeOK, KvList, Orphans, Current, Last1, consul, caches
  <1>3. ASSUME NEW f \in Fqdns, KvUnmarshal(f)
        PROVE  RemovalInv'
    BY <1>0, <1>3 DEF TypeOK, KvTypeOK, KvUnmarshal, consul, caches
  <1>4. ASSUME NEW f \in Fqdns, KvApply(f)
        PROVE  RemovalInv'
    BY <1>0, <1>4 DEF TypeOK, KvTypeOK, KvApply, consul
  <1>5. ASSUME NEW f \in Fqdns, KvEmit(f)
        PROVE  RemovalInv'
    BY <1>0, <1>5 DEF TypeOK, KvTypeOK, KvEmit, consul, caches
  <1>6. CASE KvWait
    BY <1>0, <1>6 DEF TypeOK, KvTypeOK, KvWait, consul, caches
  <1>7. ASSUME NEW f \in Fqdns, RemoveEntry(f)
        PROVE  RemovalInv'
    BY <1>0, <1>7 DEF TypeOK, KvTypeOK, RemoveEntry, consul
  <1>8. CASE CheckRemoved
    BY <1>0, <1>8 DEF TypeOK, KvTypeOK, CheckRemoved, consul, caches
  <1>9. CASE DropCheck
    BY <1>0, <1>9 DEF TypeOK, KvTypeOK, DropCheck, consul
  <1>10. CASE KvDone
    BY <1>0, <1>10 DEF TypeOK, KvTypeOK, KvDone, consul, caches
  <1>11. CASE Restart
    BY <1>11 DEF Restart, Each
  <1>12. CASE UNCHANGED <<log, kvPc, kvStage, toRemove, signEntsCached, kvPairs>>
    BY <1>12
  <1>. QED
    BY <1>1, <1>2, <1>3, <1>4, <1>5, <1>6, <1>7, <1>8, <1>9, <1>10, <1>11, <1>12
       DEF consul, caches, pollKV, pollCat, feeds, Next, KvWorker, KvRemoval,
           CatWorker, Deliver, vars, ChangeHealth, KvListFails, CatList,
           CatListFails, CatLoad, CatHealth, CatHealthFails, CatLoadOrStore,
           CatStore, CatEmit, CatDone, DeliverKv, DeliverCatalog

\* The removal loop only meets entries that are cached and were not listed:
\* its type assertion cannot fail, and a listed entry is never removed.
THEOREM RemovalCorrect == Spec => []RemovalJustified
  <1>1. Init => RemovalInv
    BY DEF Init, Each, RemovalInv, PollPhases, RemovalJustified
  <1>2. RemovalInv => RemovalJustified
    BY DEF RemovalInv
  <1>. QED  BY <1>1, <1>2, TypeCorrect, RemovalInductive, PTL DEF Spec

-----------------------------------------------------------------------------
(* What a poll applies *)

\* A step that writes no key and keeps the listing, of a type-correct state,
\* keeps what is listed; so does the write of a key, which adds to a history.
LEMMA ListedKept ==
    ASSUME TypeOK, [Next]_vars, NEW f \in Fqdns,
           kvPairs'[f] = kvPairs[f]
    PROVE  Listed(f)' = Listed(f)
  BY HistoryKept DEF TypeOK, PositionsOK, Listed

\* The same for what is cached.
LEMMA KnownKept ==
    ASSUME TypeOK, [Next]_vars, NEW f \in Fqdns,
           signEntsCached'[f] = signEntsCached[f]
    PROVE  Known(f)' = Known(f)
  BY HistoryKept DEF TypeOK, PositionsOK, Known

\* A worker that starts beside another one is one of at least two.
LEMMA TwoWorkers ==
    ASSUME Cardinality(KvRunning) < NbWorkers, NEW f \in KvRunning
    PROVE  NbWorkers > 1
  <1>1. IsFiniteSet(KvRunning)
    BY FqdnsAssumption, FS_Subset DEF KvRunning
  <1>2. Cardinality(KvRunning) \in Nat /\ Cardinality(KvRunning) # 0
    BY <1>1, FS_CardinalityType, FS_EmptySet
  <1>. QED  BY <1>2, WorkersAssumption

\* PollInv is inductive: an error that a worker finds is its own, or that of a
\* worker that ran beside it and decoded after it.
LEMMA PollInductive == TypeOK /\ RemovalInv /\ PollInv /\ [Next]_vars => PollInv'
  <1>. SUFFICES ASSUME TypeOK, RemovalInv, PollInv, [Next]_vars PROVE PollInv'
    OBVIOUS
  <1>. USE DEF PollInv, AppliedOK
  <1>1. ASSUME kvPairs' = kvPairs
        PROVE  \A f \in Fqdns : Listed(f)' = Listed(f) /\ MaySkip(f)' = MaySkip(f)
    BY <1>1, ListedKept DEF MaySkip, MisledBy
  <1>2. ASSUME signEntsCached' = signEntsCached
        PROVE  \A f \in Fqdns : Known(f)' = Known(f)
    BY <1>2, KnownKept
  <1>3. CASE KvList
    <2>1. \A f \in Fqdns : Known(f)' = Known(f) /\ Listed(f)' = Current(f)
      BY <1>3 DEF KvList, consul, caches, Known, Listed, Current, Last1
    <2>. QED
      BY <1>3, <2>1 DEF KvList, Orphans, Cached, TypeOK, KvTypeOK
  <1>4. ASSUME NEW g \in Fqdns, KvUnmarshal(g)
        PROVE  PollInv'
    <2>1. \A f \in Fqdns : /\ Known(f)' = Known(f) /\ Listed(f)' = Listed(f)
                           /\ MaySkip(f)' = MaySkip(f)
      BY <1>1, <1>2, <1>4 DEF KvUnmarshal, caches
    <2>2. ASSUME NEW f \in Fqdns, f # g, kvStage[f] = "decoded", err'
          PROVE  MaySkip(f)
      <3>1. f \in KvRunning
        BY <2>2 DEF KvRunning
      <3>2. NbWorkers > 1
        BY <1>4, <3>1, TwoWorkers DEF KvUnmarshal
      <3>3. Listed(g) \in Unreadable
        BY <1>4, <2>2 DEF KvUnmarshal
      <3>. QED  BY <2>2, <3>2, <3>3 DEF MaySkip, MisledBy
    <2>3. err' => MaySkip(g)
      BY <1>4 DEF KvUnmarshal, MaySkip
    <2>. QED
      BY <1>4, <2>1, <2>2, <2>3 DEF KvUnmarshal, TypeOK, KvTypeOK
  <1>5. ASSUME NEW g \in Fqdns, KvApply(g)
        PROVE  PollInv'
    <2>1. \A f \in Fqdns : Listed(f)' = Listed(f) /\ MaySkip(f)' = MaySkip(f)
      BY <1>1, <1>5 DEF KvApply
    <2>2. CASE err \/ SameSignature(g)
      <3>1. \A f \in Fqdns : Known(f)' = Known(f)
        BY <1>2, <1>5, <2>2 DEF KvApply
      <3>2. kvPc # "idle" => AppliedOK(g)
        BY <1>5, <2>2 DEF KvApply, SameSignature
      <3>. QED
        BY <1>5, <2>1, <2>2, <3>1, <3>2 DEF KvApply, TypeOK, KvTypeOK
    <2>3. CASE ~(err \/ SameSignature(g))
      <3>1. \A f \in Fqdns \ {g} : Known(f)' = Known(f)
        BY <1>5, <2>3, KnownKept DEF KvApply, TypeOK, KvTypeOK
      <3>2. Known(g)' = Listed(g)'
        BY <1>5, <2>3 DEF KvApply, Known, Listed, TypeOK, KvTypeOK
      <3>. QED
        BY <1>5, <2>1, <2>3, <3>1, <3>2 DEF KvApply, TypeOK, KvTypeOK
    <2>. QED  BY <2>2, <2>3
  <1>6. ASSUME NEW g \in Fqdns, KvEmit(g)
        PROVE  PollInv'
    <2>1. \A f \in Fqdns : /\ Known(f)' = Known(f) /\ Listed(f)' = Listed(f)
                           /\ MaySkip(f)' = MaySkip(f)
      BY <1>1, <1>2, <1>6 DEF KvEmit, caches
    <2>. QED  BY <1>6, <2>1 DEF KvEmit, TypeOK, KvTypeOK
  <1>7. ASSUME NEW g \in Fqdns, RemoveEntry(g)
        PROVE  PollInv'
    <2>1. \A f \in Fqdns : Listed(f)' = Listed(f) /\ MaySkip(f)' = MaySkip(f)
      BY <1>1, <1>7 DEF RemoveEntry
    <2>2. \A f \in Fqdns \ {g} : Known(f)' = Known(f)
      BY <1>7, KnownKept DEF RemoveEntry, TypeOK, KvTypeOK
    <2>3. Known(g)' = Listed(g)'
      BY <1>7 DEF RemoveEntry, Known, Listed, TypeOK, KvTypeOK
    <2>. QED  BY <1>7, <2>1, <2>2, <2>3 DEF RemoveEntry
  <1>8. CASE UNCHANGED <<signEntsCached, kvPairs, kvStage, err, toRemove>> /\ (kvPc' # "idle" => kvPc # "idle")
    <2>1. \A f \in Fqdns : /\ Known(f)' = Known(f) /\ Listed(f)' = Listed(f)
                           /\ MaySkip(f)' = MaySkip(f)
      BY <1>1, <1>2, <1>8
    <2>. QED  BY <1>8, <2>1
  <1>9. CASE Restart
    BY <1>9 DEF Restart
  <1>. QED
    BY <1>3, <1>4, <1>5, <1>6, <1>7, <1>8, <1>9
       DEF consul, caches, pollKV, pollCat, feeds, Next, KvWorker, KvRemoval,
           CatWorker, Deliver, vars, Put, ChangeHealth, KvListFails, KvWait,
           CheckRemoved, DropCheck, KvDone, CatList, CatListFails, CatLoad, CatHealth,
           CatHealthFails, CatLoadOrStore, CatStore, CatEmit, CatDone, DeliverKv,
           DeliverCatalog

\* A poll applies all it listed but what could not be decoded, and what another
\* worker's failure to decode may have hidden.
THEOREM PollAppliesCorrect == Spec => []PollApplies
  <1>1. Init => RemovalInv /\ PollInv
    BY DEF Init, Each, RemovalInv, PollPhases, RemovalJustified, PollInv
  <1>2. RemovalInv /\ PollInv => PollApplies
    BY DEF RemovalInv, PollPhases, PollInv, AppliedOK, PollApplies
  <1>. QED  BY <1>1, <1>2, TypeCorrect, RemovalInductive, PollInductive, PTL DEF Spec

-----------------------------------------------------------------------------
(* The feed of KV entries *)

\* What is told last becomes the event that is appended.
LEMMA LastOrAppend ==
    ASSUME NEW S, NEW q \in Seq(S), NEW y \in S, NEW x
    PROVE  LastOr(Append(q, y), x) = y
  BY LastOfAppend DEF LastOr

\* Delivering the head of a queue leaves what was told last unchanged.
LEMMA LastOrDeliver ==
    ASSUME NEW S, NEW q \in Seq(S), 1 \in 1 .. Len(q), NEW x
    PROVE  LastOr(RemoveIth(q, 1), q[1]) = LastOr(q, x)
  <1> DEFINE r == RemoveIth(q, 1)
  <1>1. /\ Len(q) \in Nat /\ r \in Seq(S) /\ Len(r) = Len(q) - 1
        /\ \A j \in 1 .. (Len(q) - 1) : r[j] = IF j < 1 THEN q[j] ELSE q[j + 1]
    BY LenProperties, RemoveIthProperties
  <1>2. q # <<>>
    BY <1>1
  <1>. HIDE DEF r
  <1>3. CASE Len(q) = 1
    <2>1. r = <<>>
      BY <1>1, <1>3, EmptySeq
    <2>. QED  BY <1>2, <1>3, <2>1 DEF LastOr, Last1, r
  <1>4. CASE Len(q) > 1
    <2>1. r # <<>> /\ r[Len(r)] = q[Len(q)]
      BY <1>1, <1>4
    <2>. QED  BY <1>2, <2>1 DEF LastOr, Last1, r
  <1>. QED  BY <1>1, <1>2, <1>3, <1>4

\* What the chain of one name needs to know of its variables.
LEMMA Chain ==
    ASSUME TypeOK, NEW f \in Fqdns
    PROVE  /\ Len(log[f]) \in Nat /\ Len(kvEvents[f]) \in Nat /\ kvEvents[f] \in Seq(Nat)
           /\ signEntsCached[f] \in 1 .. Len(log[f])
           /\ kvPairs[f] \in 1 .. Len(log[f])
           /\ KvLastTold(f) \in 1 .. Len(log[f])
           /\ \A i \in 1 .. Len(kvEvents[f]) : /\ kvEvents[f][i] \in 1 .. Len(log[f])
                                              /\ Before(f, i) \in 1 .. Len(log[f])
           /\ KvLastTold(f) = Before(f, Len(kvEvents[f]) + 1)
  <1>1. /\ Len(log[f]) \in Nat /\ Len(kvEvents[f]) \in Nat /\ kvEvents[f] \in Seq(Nat)
        /\ signEntsCached[f] \in 1 .. Len(log[f]) /\ kvPairs[f] \in 1 .. Len(log[f])
        /\ known[f] \in 1 .. Len(log[f])
        /\ \A i \in 1 .. Len(kvEvents[f]) : kvEvents[f][i] \in 1 .. Len(log[f])
    BY LenProperties DEF TypeOK, ConsulTypeOK, KvTypeOK, PositionsOK
  <1>2. kvEvents[f] = <<>> <=> Len(kvEvents[f]) = 0
    BY <1>1, EmptySeq
  <1>3. KvLastTold(f) = Before(f, Len(kvEvents[f]) + 1)
    BY <1>1, <1>2 DEF KvLastTold, LastOr, Last1, Before
  <1>4. \A i \in 1 .. Len(kvEvents[f]) + 1 : Before(f, i) \in 1 .. Len(log[f])
    BY <1>1 DEF Before
  <1>. QED  BY <1>1, <1>3, <1>4

ChainOK(f) == KvQueueOK(f) /\ KvCacheOK(f)

\* A name whose positions a step leaves alone keeps its chain.
LEMMA ChainFrame ==
    ASSUME TypeOK, [Next]_vars, NEW f \in Fqdns, ChainOK(f),
           kvEvents'[f] = kvEvents[f], known'[f] = known[f],
           signEntsCached'[f] = signEntsCached[f], kvPairs[f] <= kvPairs'[f],
           kvPairs'[f] \in Nat,
           \/ kvStage'[f] # "emit" /\ kvStage[f] # "emit"
           \/ kvPairs'[f] = kvPairs[f] /\ kvStage'[f] = kvStage[f]
    PROVE  ChainOK(f)'
  <1>1. /\ KvLastTold(f)' = KvLastTold(f)
        /\ \A i : Before(f, i)' = Before(f, i)
    BY DEF KvLastTold, Before
  <1>2. \A m, n \in 1 .. Len(log[f]) : News(f, m, n) => News(f, m, n)'
    BY HistoryKept DEF News
  <1>3. KvQueueOK(f)'
    BY <1>1, <1>2, Chain DEF KvQueueOK, ChainOK
  <1>4. KvCacheOK(f)'
    BY <1>1, <1>2, Chain DEF KvCacheOK, ChainOK
  <1>. QED  BY <1>3, <1>4 DEF ChainOK

\* A name for which an event that brings news is emitted keeps it too.
LEMMA ChainEmit ==
    ASSUME TypeOK, [Next]_vars, NEW f \in Fqdns, ChainOK(f), UNCHANGED <<log, known, kvPairs>>,
           News(f, KvLastTold(f), kvPairs[f]),
           kvEvents'[f] = Append(kvEvents[f], kvPairs[f]),
           signEntsCached'[f] = kvPairs[f], kvStage'[f] # "emit"
    PROVE  ChainOK(f)'
  <1> DEFINE q == kvEvents[f]
             r == Append(q, kvPairs[f])
  <1>1. /\ Len(q) \in Nat /\ kvPairs[f] \in Nat /\ Len(r) = Len(q) + 1
        /\ r[Len(q) + 1] = kvPairs[f]
        /\ \A i \in 1 .. Len(q) : r[i] = q[i]
    BY Chain, AppendProperties
  <1>2. KvLastTold(f)' = kvPairs[f]
    BY Chain, LastOrAppend DEF KvLastTold
  <1>3. \A i \in 1 .. Len(q) + 1 : Before(f, i)' = Before(f, i)
    BY <1>1 DEF Before
  <1>4. \A i \in 1 .. Len(q) : News(f, Before(f, i), q[i])
    BY DEF ChainOK, KvQueueOK
  <1>5. News(f, Before(f, Len(q) + 1), kvPairs[f])
    BY Chain
  <1>. HIDE DEF r, q
  <1>6. KvQueueOK(f)'
    <2>. SUFFICES ASSUME NEW i \in 1 .. Len(r)
                  PROVE  News(f, Before(f, i), r[i])
      BY <1>1, <1>3 DEF KvQueueOK, News, r, q
    <2>1. CASE i = Len(q) + 1
      BY <1>1, <1>5, <2>1
    <2>2. CASE i \in 1 .. Len(q)
      BY <1>1, <1>4, <2>2
    <2>. QED  BY <1>1, <2>1, <2>2
  <1>7. KvCacheOK(f)'
    BY <1>1, <1>2 DEF KvCacheOK
  <1>. QED  BY <1>6, <1>7 DEF ChainOK

\* A name whose first pending event is delivered keeps it as well.
LEMMA ChainDeliver ==
    ASSUME TypeOK, NEW f \in Fqdns, ChainOK(f),
           UNCHANGED <<log, kvPairs, kvStage, signEntsCached>>,
           1 \in 1 .. Len(kvEvents[f]),
           kvEvents'[f] = RemoveIth(kvEvents[f], 1), known'[f] = kvEvents[f][1]
    PROVE  ChainOK(f)'
  <1> DEFINE q == kvEvents[f]
             r == RemoveIth(q, 1)
  <1>1. /\ Len(q) \in Nat /\ Len(r) = Len(q) - 1
        /\ \A j \in 1 .. (Len(q) - 1) : r[j] = IF j < 1 THEN q[j] ELSE q[j + 1]
    BY Chain, RemoveIthProperties
  <1>2. KvLastTold(f)' = KvLastTold(f)
    BY Chain, LastOrDeliver DEF KvLastTold
  <1>3. ASSUME NEW i \in 1 .. Len(r)
        PROVE  Before(f, i)' = Before(f, i + 1) /\ r[i] = q[i + 1] /\ i + 1 \in 1 .. Len(q)
    BY <1>1 DEF Before
  <1>4. KvQueueOK(f)'
    BY <1>3 DEF KvQueueOK, News, ChainOK
  <1>5. KvCacheOK(f)'
    BY <1>2 DEF KvCacheOK, News, ChainOK
  <1>. QED  BY <1>4, <1>5 DEF ChainOK

\* KvInv is inductive: each step keeps, extends or consumes the chain of a name.
LEMMA KvInductive == InOrder /\ TypeOK /\ TypeOK' /\ KvInv /\ [Next]_vars => KvInv'
  <1>. SUFFICES ASSUME InOrder, TypeOK, TypeOK', KvInv, [Next]_vars,
                       NEW g \in Fqdns
                PROVE  ChainOK(g)'
    BY RemovalInductive DEF KvInv, ChainOK
  <1>0. /\ ChainOK(g) /\ RemovalInv
        /\ kvPairs[g] \in Nat /\ kvPairs'[g] \in Nat
    BY DEF KvInv, ChainOK, TypeOK, KvTypeOK
  <1>1. CASE KvList
    <2>1. kvPairs[g] <= kvPairs'[g]
      BY <1>1, Chain DEF KvList
    <2>2. kvStage[g] = "none" /\ kvStage'[g] # "emit"
      BY <1>0, <1>1 DEF KvList, KvMayPoll, RemovalInv, PollPhases
    <2>. QED  BY <1>0, <1>1, <2>1, <2>2, ChainFrame DEF KvList, caches, feeds
  <1>2. ASSUME NEW f \in Fqdns, KvUnmarshal(f)
        PROVE  ChainOK(g)'
    <2>1. \/ kvStage'[g] # "emit" /\ kvStage[g] # "emit"
          \/ kvStage'[g] = kvStage[g]
      BY <1>2 DEF TypeOK, KvTypeOK, KvUnmarshal
    <2>2. UNCHANGED <<signEntsCached, kvPairs, kvEvents, known>>
      BY <1>2 DEF KvUnmarshal, caches, feeds
    <2>. QED  BY <1>0, <2>1, <2>2, ChainFrame
  <1>3. ASSUME NEW f \in Fqdns, KvApply(f)
        PROVE  ChainOK(g)'
    <2>1. CASE f = g /\ ~(err \/ SameSignature(f))
      <3>1. /\ KvLastTold(g) = signEntsCached[g] /\ signEntsCached[g] <= kvPairs[g]
            /\ KvLastTold(g)' = KvLastTold(g)
        BY <1>0, <1>3, <2>1 DEF KvApply, ChainOK, KvCacheOK, KvLastTold, feeds
      <3>2. News(g, KvLastTold(g), kvPairs[g])
        BY <2>1, <3>1, Chain DEF News, SameSignature, Known, Listed
      <3>3. /\ signEntsCached'[g] = kvPairs[g] /\ kvStage'[g] = "emit"
            /\ UNCHANGED <<log, kvPairs, kvEvents, known>>
        BY <1>3, <2>1 DEF KvApply, TypeOK, KvTypeOK, consul, feeds
      <3>4. KvQueueOK(g)'
        BY <1>0, <3>3 DEF ChainOK, KvQueueOK, News, Before
      <3>5. KvCacheOK(g)'
        BY <1>0, <3>1, <3>2, <3>3 DEF KvCacheOK, News
      <3>. QED  BY <3>4, <3>5 DEF ChainOK
    <2>2. CASE f # g \/ err \/ SameSignature(f)
      BY <1>0, <1>3, <2>2, ChainFrame DEF TypeOK, KvTypeOK, KvApply, feeds
    <2>. QED  BY <2>1, <2>2
  <1>4. ASSUME NEW f \in Fqdns, KvEmit(f)
        PROVE  ChainOK(g)'
    <2>1. CASE f = g
      <3>1. signEntsCached[g] = kvPairs[g] /\ News(g, KvLastTold(g), kvPairs[g])
        BY <1>0, <1>4, <2>1 DEF KvEmit, ChainOK, KvCacheOK
      <3>. QED  BY <1>0, <1>4, <2>1, <3>1, ChainEmit
                DEF TypeOK, KvTypeOK, KvEmit, consul, caches
    <2>2. CASE f # g
      BY <1>0, <1>4, <2>2, ChainFrame DEF TypeOK, KvTypeOK, KvEmit, caches
    <2>. QED  BY <2>1, <2>2
  <1>5. ASSUME NEW f \in Fqdns, RemoveEntry(f)
        PROVE  ChainOK(g)'
    <2>1. CASE f = g
      <3>1. /\ kvStage[g] = "none" /\ Cached(g) /\ Listed(g) = None
            /\ KvLastTold(g) = signEntsCached[g] /\ signEntsCached[g] <= kvPairs[g]
        BY <1>0, <1>5, <2>1
           DEF RemoveEntry, RemovalInv, PollPhases, RemovalJustified, ChainOK, KvCacheOK
      <3>2. News(g, KvLastTold(g), kvPairs[g])
        BY <3>1, Chain DEF News, Cached, Known, Listed
      <3>. QED  BY <1>0, <1>5, <2>1, <3>1, <3>2, ChainEmit
                DEF TypeOK, KvTypeOK, RemoveEntry, consul
    <2>2. CASE f # g
      BY <1>0, <1>5, <2>2, ChainFrame DEF TypeOK, KvTypeOK, RemoveEntry
    <2>. QED  BY <2>1, <2>2
  <1>6. ASSUME NEW f \in Fqdns, NEW i \in 1 .. Len(kvEvents[f]), DeliverKv(f, i)
        PROVE  ChainOK(g)'
    <2>1. i = 1
      BY <1>6 DEF DeliverKv, Deliverable
    <2>2. CASE f = g
      BY <1>0, <1>6, <2>1, <2>2, ChainDeliver
         DEF TypeOK, KvTypeOK, DeliverKv, consul, caches, pollKV
    <2>3. CASE f # g
      BY SMTT(30), <1>0, <1>6, <2>3, ChainFrame DEF TypeOK, KvTypeOK, DeliverKv, caches, pollKV
    <2>. QED  BY <2>2, <2>3
  <1>7. CASE Restart
    <2>1. kvEvents'[g] = <<>> /\ known'[g] = 1 /\ signEntsCached'[g] = 1 /\ kvPairs'[g] = 1
          /\ kvStage'[g] = "none"
      BY <1>7 DEF Restart, Each
    <2>2. KvQueueOK(g)' /\ KvCacheOK(g)'
      BY <2>1, EmptySeq DEF KvQueueOK, KvCacheOK, KvLastTold, LastOr
    <2>. QED  BY <2>2 DEF ChainOK
  <1>8. CASE UNCHANGED <<signEntsCached, kvPairs, kvStage, kvEvents, known>>
    BY <1>0, <1>8, ChainFrame
  <1>. QED
    BY <1>1, <1>2, <1>3, <1>4, <1>5, <1>6, <1>7, <1>8
       DEF consul, caches, pollKV, pollCat, feeds, Next, KvWorker, KvRemoval,
           CatWorker, Deliver, vars, Put, ChangeHealth, KvListFails, KvWait,
           CheckRemoved, DropCheck, KvDone, CatList, CatListFails, CatLoad,
           CatHealth, CatHealthFails, CatLoadOrStore, CatStore, CatEmit, CatDone,
           DeliverCatalog

\* It holds when the process starts: every position is 1 and no event pending.
LEMMA KvInitially == Init => KvInv
  <1>. SUFFICES ASSUME Init PROVE KvInv
    OBVIOUS
  <1>1. RemovalInv
    BY DEF Init, Each, RemovalInv, PollPhases, RemovalJustified
  <1>2. ASSUME NEW f \in Fqdns PROVE KvQueueOK(f) /\ KvCacheOK(f)
    BY EmptySeq DEF Init, Each, KvQueueOK, KvCacheOK, KvLastTold, LastOr
  <1>. QED  BY <1>1, <1>2 DEF KvInv

\* The cache of entries never runs ahead of the events: with an emitter that
\* keeps the order, skipping an entry whose signature did not change skips
\* nothing that listeners were not told.
THEOREM KvFeedCorrect == Spec => []KvFeedSound
  <1>1. CASE InOrder
    <2>1. KvInv => KvFeedSound
      BY DEF KvInv, KvCacheOK, KvFeedSound
    <2>. QED  BY <1>1, <2>1, TypeCorrect, KvInitially, KvInductive, PTL DEF Spec
  <1>2. CASE ~InOrder
    <2>1. KvFeedSound
      BY <1>2 DEF KvFeedSound
    <2>. QED  BY <2>1, PTL
  <1>. QED  BY <1>1, <1>2

\* With such an emitter what KV listeners know implements EntryFeed: contents
\* the key had, in their order, none repeated, and nothing after a restart.
THEOREM FeedImplemented == InOrder => (Spec => FeedSpec)
  <1>1. Init => Feed!Init
    BY DEF Init, Each, Feed!Init
  <1>2. ASSUME InOrder, TypeOK, KvInv, [Next]_vars
        PROVE  [Feed!Next]_Feed!vars
    <2>1. ASSUME NEW f \in Fqdns, NEW c \in Contents \union {None}, Put(f, c)
          PROVE  Feed!Next
      BY <2>1 DEF Put, feeds, Feed!Next, Feed!Write
    <2>2. ASSUME NEW f \in Fqdns, NEW i \in 1 .. Len(kvEvents[f]), DeliverKv(f, i)
          PROVE  Feed!Next
      <3>1. i = 1 /\ 1 \in 1 .. Len(kvEvents[f])
        BY <1>2, <2>2 DEF DeliverKv, Deliverable
      <3>2. News(f, known[f], kvEvents[f][1])
        BY <1>2, <3>1 DEF KvInv, KvQueueOK, Before
      <3>3. /\ kvEvents[f][1] \in 1 .. Len(log[f]) /\ known[f] \in 1 .. Len(log[f])
            /\ Len(log[f]) \in Nat
        BY <1>2, <3>1, Chain DEF TypeOK, PositionsOK
      <3>4. Feed!Tell(f, kvEvents[f][1])
        BY <2>2, <3>1, <3>2, <3>3 DEF DeliverKv, consul, News, Feed!Tell
      <3>. QED  BY <3>3, <3>4 DEF Feed!Next
    <2>3. CASE Restart
      BY <2>3 DEF Restart, Each, consul, Feed!Next, Feed!Restart
    <2>4. CASE UNCHANGED <<log, known>>
      BY <2>4 DEF Feed!vars
    <2>. QED
      BY <1>2, <2>1, <2>2, <2>3, <2>4
         DEF Next, KvWorker, KvRemoval, CatWorker, Deliver, vars, consul, caches, pollKV,
             pollCat, feeds, ChangeHealth, KvList, KvListFails, KvUnmarshal, KvApply, KvEmit,
             KvWait, RemoveEntry, CheckRemoved, DropCheck, KvDone, CatList, CatListFails,
             CatLoad, CatHealth, CatHealthFails, CatLoadOrStore, CatStore, CatEmit, CatDone,
             DeliverCatalog
  <1>3. CASE InOrder
    BY <1>1, <1>2, <1>3, TypeCorrect, KvInitially, KvInductive, PTL DEF Spec, FeedSpec, Feed!Spec
  <1>. QED  BY <1>3

-----------------------------------------------------------------------------
(* The feed of catalog entries *)

CatOK(f) == CatSound(f) /\ CatAgrees(f) /\ CatIdle(f)

\* CatInv is inductive, though pollKV and a worker share the cache it is about.
LEMMA CatInductive == InOrder /\ TypeOK /\ CatInv /\ [Next]_vars => CatInv'
  <1>. SUFFICES ASSUME InOrder, TypeOK, CatInv, [Next]_vars, NEW g \in Fqdns
                PROVE  CatOK(g)'
    BY DEF CatInv, CatOK
  <1>0. CatOK(g)
    BY DEF CatInv, CatOK
  <1>. USE DEF CatOK, CatSound, CatAgrees, CatIdle, CatLastTold, NewEntry
  <1>1. CASE KvList
    BY <1>0, <1>1 DEF KvList, KvMayPoll, caches, feeds, pollCat
  <1>2. CASE KvWait
    BY <1>0, <1>2 DEF TypeOK, CatTypeOK, KvWait, caches, feeds, pollCat
  <1>3. ASSUME NEW f \in Fqdns, RemoveEntry(f)
        PROVE  CatOK(g)'
    BY <1>0, <1>3 DEF RemoveEntry, pollCat
  <1>4. CASE CheckRemoved
    <2>1. signCheckCached[g] # None /\ removing = g => kvPc' = "drop" /\ removing' = g
      BY <1>4 DEF CheckRemoved
    <2>2. removing # g => catEvents'[g] = catEvents[g]
      BY <1>4 DEF CheckRemoved, TypeOK, CatTypeOK
    <2>3. UNCHANGED <<signCheckCached, catPc, catStage, catEnt, catView, entries>> /\ kvPc # "drop"
      BY <1>4 DEF CheckRemoved, caches, pollCat
    <2>. QED  BY <1>0, <2>1, <2>2, <2>3
  <1>5. CASE DropCheck
    <2>1. removing = g => signCheckCached'[g] = None
      BY <1>5 DEF DropCheck, TypeOK, CatTypeOK
    <2>2. removing # g => signCheckCached'[g] = signCheckCached[g]
      BY <1>5 DEF DropCheck, TypeOK, CatTypeOK
    <2>3. UNCHANGED <<catPc, catStage, catEnt, catView, catEvents, entries>>
      BY <1>5 DEF DropCheck, feeds, pollCat
    <2>. QED  BY <1>0, <2>1, <2>2, <2>3
  <1>6. CASE KvDone
    BY <1>0, <1>6 DEF TypeOK, CatTypeOK, KvDone, caches, feeds, pollCat
  <1>7. CASE CatList
    <2>1. catStage'[g] # "emit" /\ catStage[g] # "emit" /\ catPc' = "pool"
      BY <1>0, <1>7 DEF CatList, CatMayPoll
    <2>. QED  BY <1>0, <1>7, <2>1 DEF CatList, caches, feeds, pollKV
  <1>8. ASSUME NEW f \in Fqdns, CatLoad(f)
        PROVE  CatOK(g)'
    BY <1>0, <1>8 DEF TypeOK, CatTypeOK, CatLoad, caches, feeds, pollKV
  <1>9. ASSUME NEW f \in Fqdns, CatHealth(f)
        PROVE  CatOK(g)'
    BY <1>0, <1>9 DEF TypeOK, CatTypeOK, CatHealth, caches, feeds, pollKV
  <1>10. ASSUME NEW f \in Fqdns, CatHealthFails(f)
        PROVE  CatOK(g)'
    BY <1>0, <1>10 DEF TypeOK, CatTypeOK, CatHealthFails, CatReturn, caches, feeds, pollKV
  <1>11. ASSUME NEW f \in Fqdns, CatLoadOrStore(f)
        PROVE  CatOK(g)'
    BY <1>0, <1>11 DEF TypeOK, CatTypeOK, CatLoadOrStore, CatReturn, SameCatalogSignature, feeds, pollKV
  <1>12. ASSUME NEW f \in Fqdns, CatStore(f)
        PROVE  CatOK(g)'
    BY <1>0, <1>12 DEF TypeOK, CatTypeOK, CatStore, feeds, pollKV
  <1>13. ASSUME NEW f \in Fqdns, CatEmit(f)
        PROVE  CatOK(g)'
    <2>1. CASE f = g
      <3>1. f \in CatRunning /\ catStage[f] # "health"
        BY <1>13 DEF CatEmit, CatRunning
      <3>2. NewEntry(f) \in CatalogEntries \union {None}
        BY <3>1 DEF TypeOK, CatTypeOK, CatalogEntries
      <3>3. CatLastTold(g)' = NewEntry(f)
        <4>. HIDE DEF NewEntry
        <4>1. catEvents'[g] = Append(catEvents[g], NewEntry(f))
          BY <1>13, <2>1 DEF CatEmit, TypeOK, CatTypeOK
        <4>2. catEvents[g] \in Seq(CatalogEntries \union {None})
          BY DEF TypeOK, CatTypeOK
        <4>3. LastOr(Append(catEvents[g], NewEntry(f)), entries'[g]) = NewEntry(f)
          BY <3>2, <4>2, LastOrAppend
        <4>. QED  BY <4>1, <4>3
      <3>4. catStage'[g] = "none" /\ signCheckCached'[g] = signCheckCached[g]
        BY <1>13, <2>1 DEF CatEmit, CatReturn, TypeOK, CatTypeOK, caches
      <3>. HIDE DEF CatLastTold
      <3>. QED  BY <1>0, <1>13, <2>1, <3>3, <3>4 DEF CatEmit
    <2>2. CASE f # g
      BY <1>0, <1>13, <2>2 DEF CatEmit, CatReturn, TypeOK, CatTypeOK, caches, pollKV
    <2>. QED  BY <2>1, <2>2
  <1>14. CASE CatDone
    BY <1>0, <1>14 DEF CatDone, caches, feeds, pollKV
  <1>15. ASSUME NEW f \in Fqdns, NEW i \in 1 .. Len(catEvents[f]), DeliverCatalog(f, i)
        PROVE  CatOK(g)'
    <2>1. i = 1 /\ catEvents[f] \in Seq(CatalogEntries \union {None})
      BY <1>15 DEF DeliverCatalog, Deliverable, TypeOK, CatTypeOK
    <2>2. CASE f = g
      <3>1. catEvents'[g] = RemoveIth(catEvents[g], 1) /\ entries'[g] = catEvents[g][1]
        BY <1>15, <2>1, <2>2 DEF DeliverCatalog, TypeOK, CatTypeOK
      <3>2. CatLastTold(g)' = CatLastTold(g)
        BY <2>1, <2>2, <3>1, LastOrDeliver
      <3>. HIDE DEF CatLastTold
      <3>. QED  BY <1>0, <1>15, <3>2 DEF DeliverCatalog, caches, pollKV, pollCat
    <2>3. CASE f # g
      BY <1>0, <1>15, <2>3 DEF DeliverCatalog, TypeOK, CatTypeOK, caches, pollKV, pollCat
    <2>. QED  BY <2>2, <2>3
  <1>16. CASE Restart
    BY <1>16 DEF Restart, Each
  <1>17. CASE UNCHANGED <<signCheckCached, pollCat, kvPc, removing, catEvents, entries>>
    BY <1>0, <1>17 DEF pollCat
  <1>. QED
    BY <1>1, <1>2, <1>3, <1>4, <1>5, <1>6, <1>7, <1>8, <1>9, <1>10, <1>11, <1>12,
       <1>13, <1>14, <1>15, <1>16, <1>17
       DEF consul, caches, pollKV, pollCat, feeds, Next, KvWorker, KvRemoval,
           CatWorker, Deliver, vars, Put, ChangeHealth, KvListFails, KvUnmarshal,
           KvApply, KvEmit, CatListFails, DeliverKv

\* signCheckCached never runs ahead of the catalog events, although pollKV and
\* a worker of pollCatalog may write it and emit events in any interleaving.
THEOREM CatalogFeedCorrect == Spec => []CatalogFeedSound
  <1>1. CASE InOrder
    <2>1. Init => CatInv
      BY DEF Init, Each, CatInv, CatSound, CatAgrees, CatIdle
    <2>2. CatInv => CatalogFeedSound
      BY DEF CatInv, CatalogFeedSound
    <2>. QED  BY <1>1, <2>1, <2>2, TypeCorrect, CatInductive, PTL DEF Spec
  <1>2. CASE ~InOrder
    <2>1. CatalogFeedSound
      BY <1>2 DEF CatalogFeedSound
    <2>. QED  BY <2>1, PTL
  <1>. QED  BY <1>1, <1>2

-----------------------------------------------------------------------------
(* What DNS keeps *)

\* A history that has a deletion keeps it.
LEMMA DeletedKept == TypeOK /\ [Next]_vars => \A f \in Fqdns : Deleted(f) => Deleted(f)'
  <1>. SUFFICES ASSUME TypeOK, [Next]_vars, NEW f \in Fqdns, Deleted(f)
                PROVE  Deleted(f)'
    OBVIOUS
  <1>1. PICK n \in 2 .. Len(log[f]) : log[f][n] = None
    BY DEF Deleted
  <1>2. n \in 2 .. Len(log'[f]) /\ log'[f][n] = None
    BY <1>1, HistoryKept
  <1>. QED  BY <1>2 DEF Deleted

\* A name that is cached and not listed has been written and deleted since.
LEMMA OrphanDeleted == TypeOK => \A f \in Orphans : Deleted(f)
  <1>. SUFFICES ASSUME TypeOK, NEW f \in Orphans PROVE Deleted(f)
    OBVIOUS
  <1>1. /\ signEntsCached[f] \in 1 .. Len(log[f]) /\ Len(log[f]) \in Nat
        /\ log[f][signEntsCached[f]] # None /\ log[f][Len(log[f])] = None
    BY LenProperties DEF Orphans, Cached, Known, Current, Last1, TypeOK, PositionsOK, ConsulTypeOK
  <1>2. Len(log[f]) \in 2 .. Len(log[f])
    BY <1>1
  <1>. QED  BY <1>1, <1>2 DEF Deleted

\* DeletedInv is inductive: only pollKV removes names, only its removal loop
\* emits Delete events, and what pollCatalog emits is an entry.
LEMMA DeletedInductive == TypeOK /\ DeletedInv /\ [Next]_vars => DeletedInv'
  <1>. SUFFICES ASSUME TypeOK, DeletedInv, [Next]_vars, NEW g \in Fqdns, Leaving(g)'
                PROVE  Deleted(g)'
    BY DEF DeletedInv
  <1>0. Deleted(g) => Deleted(g)'
    BY DeletedKept
  <1>1. CASE Leaving(g)
    BY <1>0, <1>1 DEF DeletedInv
  <1>2. CASE KvList
    BY <1>0, <1>1, <1>2, OrphanDeleted DEF KvList, KvMayPoll, Leaving, feeds
  <1>3. ASSUME NEW f \in Fqdns, RemoveEntry(f)
        PROVE  Deleted(g)'
    BY <1>1, <1>3 DEF RemoveEntry, Leaving
  <1>4. CASE CheckRemoved
    <2>1. CASE g = removing
      BY <1>1, <1>4, <2>1 DEF CheckRemoved, Leaving
    <2>2. CASE g # removing
      BY <1>1, <1>4, <2>2 DEF CheckRemoved, Leaving, TypeOK, CatTypeOK
    <2>. QED  BY <2>1, <2>2
  <1>5. CASE DropCheck
    BY <1>1, <1>5 DEF DropCheck, Leaving, feeds
  <1>6. ASSUME NEW f \in Fqdns, CatEmit(f)
        PROVE  Deleted(g)'
    <2>1. CASE f = g
      <3> DEFINE q == catEvents[g]
      <3>1. q \in Seq(CatalogEntries \union {None}) /\ Len(q) \in Nat
        BY LenProperties DEF TypeOK, CatTypeOK
      <3>2. NewEntry(g) \in CatalogEntries /\ NewEntry(g) # None
        <4>1. g \in CatRunning /\ catStage[g] # "health"
          BY <1>6, <2>1 DEF CatEmit, CatRunning
        <4>. QED  BY <4>1, EntriesAssumption DEF TypeOK, CatTypeOK, NewEntry, CatalogEntries
      <3>3. catEvents'[g] = Append(q, NewEntry(g))
        BY <1>6, <2>1 DEF CatEmit, TypeOK, CatTypeOK
      <3>. HIDE DEF q
      <3>4. ASSUME NEW i \in 1 .. Len(Append(q, NewEntry(g))), Append(q, NewEntry(g))[i] = None
            PROVE  i \in 1 .. Len(q) /\ q[i] = None
        BY <3>1, <3>2, <3>4, AppendProperties
      <3>. QED  BY <1>1, <1>6, <3>3, <3>4 DEF CatEmit, Leaving, pollKV, q
    <2>2. CASE f # g
      BY <1>1, <1>6, <2>2 DEF CatEmit, Leaving, TypeOK, CatTypeOK, pollKV
    <2>. QED  BY <2>1, <2>2
  <1>7. ASSUME NEW f \in Fqdns, NEW i \in 1 .. Len(catEvents[f]), DeliverCatalog(f, i)
        PROVE  Deleted(g)'
    <2>1. CASE f = g
      <3> DEFINE q == catEvents[g]
                 r == RemoveIth(q, i)
      <3>1. /\ Len(q) \in Nat /\ Len(r) = Len(q) - 1
            /\ \A j \in 1 .. (Len(q) - 1) : r[j] = IF j < i THEN q[j] ELSE q[j + 1]
        BY <2>1, LenProperties, RemoveIthProperties DEF TypeOK, CatTypeOK
      <3>2. catEvents'[g] = r
        BY <1>7, <2>1 DEF DeliverCatalog, TypeOK, CatTypeOK
      <3>. HIDE DEF r
      <3>3. ASSUME NEW j \in 1 .. Len(r), r[j] = None
            PROVE  \E k \in 1 .. Len(q) : q[k] = None
        BY <3>1, <3>3
      <3>. QED  BY <1>1, <1>7, <3>2, <3>3 DEF DeliverCatalog, Leaving, pollKV
    <2>2. CASE f # g
      BY <1>1, <1>7, <2>2 DEF DeliverCatalog, Leaving, TypeOK, CatTypeOK, pollKV
    <2>. QED  BY <2>1, <2>2
  <1>8. CASE Restart
    BY <1>8, EmptySeq DEF Restart, Each, Leaving
  <1>9. CASE UNCHANGED <<toRemove, removing, catEvents>> /\ (kvPc' = "check" => kvPc = "check")
    BY <1>1, <1>9 DEF Leaving
  <1>. QED
    BY <1>2, <1>3, <1>4, <1>5, <1>6, <1>7, <1>8, <1>9
       DEF consul, caches, pollKV, pollCat, feeds, Next, KvWorker, KvRemoval,
           CatWorker, Deliver, vars, Put, ChangeHealth, KvListFails, KvUnmarshal,
           KvApply, KvEmit, KvWait, KvDone, CatList, CatListFails, CatLoad, CatHealth,
           CatHealthFails, CatLoadOrStore, CatStore, CatDone, DeliverKv

\* DNS drops a name only when its key was deleted or the process restarts:
\* however polls, failures and deliveries interleave, with or without order.
THEOREM DnsKeepsEntriesCorrect == Spec => DnsKeepsEntries
  <1>1. Init => DeletedInv
    BY EmptySeq DEF Init, Each, DeletedInv, Leaving
  <1>2. ASSUME TypeOK, DeletedInv, [Next]_vars,
               NEW f \in Fqdns, entries[f] # None, entries'[f] = None
        PROVE  restarts' # restarts \/ Deleted(f)
    <2>1. ASSUME NEW g \in Fqdns, NEW i \in 1 .. Len(catEvents[g]), DeliverCatalog(g, i)
          PROVE  Deleted(f)
      <3>1. g = f /\ catEvents[f][i] = None
        BY <1>2, <2>1 DEF DeliverCatalog, TypeOK, CatTypeOK
      <3>. QED  BY <1>2, <2>1, <3>1 DEF DeletedInv, Leaving
    <2>2. CASE Restart
      BY <1>2, <2>2 DEF Restart, TypeOK, ConsulTypeOK
    <2>3. CASE UNCHANGED entries
      BY <1>2, <2>3
    <2>. QED
      BY <1>2, <2>1, <2>2, <2>3
         DEF Next, KvWorker, KvRemoval, CatWorker, Deliver, vars, consul, caches, pollKV,
             pollCat, feeds, Put, ChangeHealth, KvList, KvListFails, KvUnmarshal, KvApply,
             KvEmit, KvWait, RemoveEntry, CheckRemoved, DropCheck, KvDone, CatList,
             CatListFails, CatLoad, CatHealth, CatHealthFails, CatLoadOrStore, CatStore,
             CatEmit, CatDone, DeliverKv
  <1>3. TypeOK /\ DeletedInv /\ [Next]_vars =>
          [\A f \in Fqdns : entries[f] # None /\ entries'[f] = None =>
              restarts' # restarts \/ Deleted(f)]_vars
    BY <1>2
  <1>. QED
    BY <1>1, <1>3, TypeCorrect, DeletedInductive, PTL DEF Spec, DnsKeepsEntries
=============================================================================
