--------------------------- MODULE PipelineProofs ---------------------------
(***************************************************************************)
(* Proofs about Pipeline, for every number of sources, keys and capacity,  *)
(* and about WsSession on top of it, for every number of edges.            *)
(***************************************************************************)
EXTENDS WsSession, WellFoundedInduction, TLAPS

\* NoRecord is a record as soon as there is a key.
LEMMA NoRecordType == NoRecord \in Record
  BY PipelineAssumption DEF NoRecord, Record

\* The fields of a record and of a frame.
LEMMA RecordFields == \A r \in Record : r.key \in Key /\ r.seq \in Nat
  BY DEF Record

LEMMA FrameFields == \A f \in Frame : f.batch \in Nat /\ f.events \in Seq(Record) /\ f.last \in Nat
  BY DEF Frame

\* Taking the oldest element off a queue and appending to it keep its type.
LEMMA SeqOps ==
  ASSUME NEW S, NEW q \in Seq(S), NEW x \in S
  PROVE  Append(q, x) \in Seq(S) /\ <<x>> \in Seq(S)
  OBVIOUS

LEMMA SeqTake ==
  ASSUME NEW S, NEW q \in Seq(S), q # <<>>
  PROVE  /\ Head(q) \in S /\ Tail(q) \in Seq(S)
         /\ Len(q) \in Nat \ {0} /\ q[1] \in S /\ q[Len(q)] \in S
  OBVIOUS

-----------------------------------------------------------------------------
(* Type correctness *)

\* The initial states, read back from the journal, are well typed.
LEMMA TypeInit == Init => TypeOK
<1> SUFFICES ASSUME Init PROVE TypeOK
  OBVIOUS
<1>0. \A r \in Loaded : r.seq \in Nat
  BY RecoveredAssumption, RecordFields
<1>1. \A i \in 1..Len(Recovered) : Recovered[i].seq \in Nat /\ Recovered[i].key \in Key
  BY RecoveredAssumption, RecordFields
<1>2. sequence \in Nat /\ replayFloor \in Nat /\ keys \subseteq Key
  BY <1>0, <1>1 DEF Init
<1>3. record \in [Source -> Record]
  BY NoRecordType DEF Init
<1>4. step \in [Source -> {"idle", "resolved", "numbered", "inserted", "sending"}]
  BY DEF Init
<1>5. events \in Seq(Record) /\ accepted \in Seq(Record)
  BY RecoveredAssumption DEF Init
<1> QED BY <1>2, <1>3, <1>4, <1>5 DEF Init, TypeOK

\* Every section of process keeps the types.
LEMMA TypeProcess ==
  ASSUME TypeOK, NEW s \in Source, Process(s)
  PROVE  TypeOK'
<1> USE NoRecordType DEF TypeOK, GoTo, Return, hubVars, batchVars, frameVars
<1>1. ASSUME NEW k \in Key, Receive(s, k) PROVE TypeOK'
  <2>1. \A hit \in BOOLEAN : [key |-> k, seq |-> 0, hit |-> hit] \in Record
    BY DEF Record
  <2>2. record' \in [Source -> Record]
    BY <1>1, <2>1 DEF Receive
  <2> QED BY <1>1, <2>2 DEF Receive
<1>2. ASSUME NEW k \in Key, Duplicate(s, k) PROVE TypeOK'
  BY <1>2 DEF Duplicate, vars
<1>3. CASE TakeSequence(s)
  <2>1. \A r \in Record, n \in Nat : [key |-> r.key, seq |-> n, hit |-> r.hit] \in Record
    BY DEF Record
  <2> DEFINE r == [key |-> record[s].key, seq |-> sequence + 1, hit |-> record[s].hit]
  <2>a. record[s] \in Record /\ sequence + 1 \in Nat
    OBVIOUS
  <2>2. r \in Record
    BY <2>1, <2>a, Zenon
  <2>3. record' = [record EXCEPT ![s] = r]
    BY <1>3 DEF TakeSequence
  <2> HIDE DEF r
  <2>4. record' \in [Source -> Record]
    BY <2>2, <2>3
  <2> QED BY <1>3, <2>4 DEF TakeSequence
<1>4. CASE Insert(s)
  <2>1. record[s] \in Record /\ record[s].key \in Key
    BY RecordFields
  <2>2. Len(events) >= Capacity => events # <<>> /\ Tail(events) \in Seq(Record)
    BY PipelineAssumption
  <2>3. events' \in Seq(Record)
    BY <1>4, <2>1, <2>2, SeqOps DEF Insert
  <2>4. keys' \subseteq Key
    BY <1>4, <2>1 DEF Insert
  <2> QED BY <1>4, <2>1, <2>3, <2>4, SeqOps DEF Insert
<1>5. CASE InsertRefused(s)
  BY <1>5 DEF InsertRefused
<1>6. CASE Route(s)
  <2>1. storageQ' \in Seq(Record)
    BY <1>6, SeqOps DEF Route
  <2>2. /\ record' \in [Source -> Record]
        /\ step' \in [Source -> {"idle", "resolved", "numbered", "inserted", "sending"}]
    BY <1>6 DEF Route
  <2> QED BY <1>6, <2>1, <2>2 DEF Route
<1>7. CASE Send(s)
  BY <1>7, SeqOps DEF Send
<1> QED BY <1>1, <1>2, <1>3, <1>4, <1>5, <1>6, <1>7 DEF Process

\* So do the batcher and the storage writer.
LEMMA TypeBatcher ==
  ASSUME TypeOK, Batcher \/ StorageTake
  PROVE  TypeOK'
<1> USE DEF TypeOK, hubVars, batchVars, frameVars
<1>0. \A r \in Record : Size[r.key] \in Nat
  BY PipelineAssumption, RecordFields
<1>1. CASE BatchFirst
  <2>1. CASE pending # <<>>
    <3>1. pending[1] \in Record
      BY <2>1, SeqTake
    <3> QED BY <1>0, <1>1, <2>1, <3>1 DEF BatchFirst
  <2>2. CASE pending = <<>>
    <3>1. Head(batchQ) \in Record /\ Tail(batchQ) \in Seq(Record)
      BY <1>1, <2>2, SeqTake DEF BatchFirst
    <3> QED BY <1>0, <1>1, <2>2, <3>1, SeqOps DEF BatchFirst
  <2> QED BY <2>1, <2>2
<1>2. CASE BatchMore
  <2>1. Head(batchQ) \in Record /\ Tail(batchQ) \in Seq(Record)
    BY <1>2, SeqTake DEF BatchMore, MoreForBatch
  <2>2. Append(batch, Head(batchQ)) \in Seq(Record) /\ batchBytes + Size[Head(batchQ).key] \in Nat
    BY <2>1, <1>0, SeqOps
  <2> QED BY <1>2, <2>1, <2>2 DEF BatchMore
<1>3. CASE BatchOverflow
  <2>1. Head(batchQ) \in Record /\ Tail(batchQ) \in Seq(Record)
    BY <1>3, SeqTake DEF BatchOverflow, MoreForBatch
  <2> QED BY <1>3, <2>1, SeqOps DEF BatchOverflow
<1>4. CASE BatchPublish
  <2> DEFINE f == EncodeFrame(batch, batchSeq + 1)
  <2>1. f \in Frame
    <3>1. batch[Len(batch)] \in Record
      BY <1>4, SeqTake DEF BatchPublish
    <3>2. batch[Len(batch)].seq \in Nat
      BY <3>1, RecordFields
    <3> QED BY <3>2 DEF EncodeFrame, Frame
  <2>2. CASE FramePublish(f) /\ UNCHANGED dropped
    <3> HIDE DEF f
    <3>0. f.last \in Nat
      BY <2>1, FrameFields
    <3>1. ASSUME Len(frames) >= FrameCapacity
          PROVE  Tail(frames) \in Seq(Frame) /\ Head(frames).last \in Nat
      <4>1. frames # <<>>
        BY <3>1, PipelineAssumption
      <4> QED BY <4>1, SeqTake, FrameFields
    <3>2. frames' \in Seq(Frame) /\ published' \in Seq(Frame)
      BY <2>1, <2>2, <3>1, SeqOps DEF FramePublish
    <3>3. replayFloor' \in Nat /\ latest' \in Nat
      BY <3>0, <2>2, <3>1 DEF FramePublish, MaxOf
    <3> QED BY <1>4, <2>2, <3>2, <3>3 DEF BatchPublish
  <2>3. CASE /\ dropped' = dropped \cup {batch}
             /\ UNCHANGED <<frames, replayFloor, latest, published>>
    BY <1>4, <2>3 DEF BatchPublish
  <2> QED BY <1>4, <2>2, <2>3 DEF BatchPublish
<1>5. CASE StorageTake
  BY <1>5 DEF StorageTake
<1> QED BY <1>1, <1>2, <1>3, <1>4, <1>5 DEF Batcher

\* Every state of the pipeline is well typed.
THEOREM TypeCorrect == Spec => []TypeOK
<1>1. TypeOK /\ [Next]_vars => TypeOK'
  <2> SUFFICES ASSUME TypeOK, [Next]_vars PROVE TypeOK'
    OBVIOUS
  <2>1. CASE \E s \in Source : Process(s)
    BY <2>1, TypeProcess
  <2>2. CASE StorageTake \/ Batcher
    BY <2>2, TypeBatcher
  <2>3. CASE UNCHANGED vars
    BY <2>3 DEF vars, TypeOK, hubVars, batchVars, frameVars
  <2> QED BY <2>1, <2>2, <2>3 DEF Next
<1> QED BY <1>1, TypeInit, PTL DEF Spec

-----------------------------------------------------------------------------
(* The dedup window. DedupWindow is not inductive: it needs to know that   *)
(* the ring is exactly the end of the acceptance history, that it is full  *)
(* as soon as anything was evicted, and that the index holds its keys.     *)

HubInv ==
  /\ Len(events) <= Capacity /\ Len(events) <= Len(accepted)
  /\ Len(events) < Len(accepted) => Len(events) = Capacity
  /\ \A i \in 1..Len(events) : events[i] = accepted[Len(accepted) - Len(events) + i]
  /\ keys = {events[i].key : i \in 1..Len(events)}
  /\ DedupWindow

\* The recovered records have distinct keys and fit the ring.
LEMMA HubInit == Init => HubInv
  BY RecoveredAssumption, PipelineAssumption DEF Init, HubInv, DedupWindow

\* EventHub::insert keeps the ring, its index and the window.
LEMMA HubInsert ==
  ASSUME TypeOK, HubInv, NEW s \in Source, Insert(s)
  PROVE  HubInv'
<1> DEFINE r == record[s]
           n == Len(accepted)
           m == Len(events)
<1>1. n \in Nat /\ m \in Nat /\ Capacity \in Nat \ {0}
  BY PipelineAssumption DEF TypeOK
<1>2. accepted' = Append(accepted, r) /\ Len(accepted') = n + 1
  BY DEF Insert, TypeOK
<1>3. /\ accepted'[n + 1] = r
      /\ \A i \in 1..n : accepted'[i] = accepted[i]
  BY <1>2 DEF TypeOK
<1>4. r.key \notin keys
  BY DEF Insert
<1>5. \A i \in (n - m + 1)..n : accepted[i].key # r.key
  <2> SUFFICES ASSUME NEW i \in (n - m + 1)..n PROVE accepted[i].key # r.key
    OBVIOUS
  <2>1. i - (n - m) \in 1..m /\ (n - m) + (i - (n - m)) = i
    BY <1>1 DEF HubInv
  <2>2. accepted[i] = events[i - (n - m)]
    BY <2>1 DEF HubInv
  <2> QED BY <2>1, <2>2, <1>4 DEF HubInv
<1>6. DedupWindow'
  <2> SUFFICES ASSUME NEW i \in 1..(n + 1), NEW j \in 1..(n + 1), i < j,
                      accepted'[i].key = accepted'[j].key
               PROVE  j - i > Capacity
    BY <1>1, <1>2 DEF DedupWindow
  <2>1. CASE j <= n
    <3>1. i \in 1..n /\ j \in 1..n /\ accepted[i].key = accepted[j].key
      BY <2>1, <1>1, <1>3
    <3>2. DedupWindow
      BY DEF HubInv
    <3> QED BY <3>1, <3>2 DEF DedupWindow
  <2>2. CASE j = n + 1
    <3>1. i \in 1..n /\ accepted[i].key = r.key
      BY <2>2, <1>1, <1>3
    <3>2. i <= n - m
      BY <3>1, <1>1, <1>5
    <3>3. m = Capacity
      BY <3>1, <3>2, <1>1 DEF HubInv
    <3> QED BY <2>2, <3>1, <3>2, <3>3, <1>1
  <2> QED BY <2>1, <2>2, <1>1
<1>7. CASE m >= Capacity
  <2>1. m = Capacity /\ events # <<>>
    BY <1>1, <1>7 DEF HubInv
  <2>2. events' = Append(Tail(events), r) /\ keys' = (keys \cup {r.key}) \ {Head(events).key}
    BY <1>7 DEF Insert
  <2>3. /\ Len(events') = m
        /\ events'[m] = r
        /\ \A i \in 1..(m - 1) : events'[i] = events[i + 1]
    BY <2>1, <2>2, <1>1 DEF TypeOK
  <2>4. \A i \in 1..m : events'[i] = accepted'[(n + 1) - m + i]
    <3> SUFFICES ASSUME NEW i \in 1..m PROVE events'[i] = accepted'[(n + 1) - m + i]
      OBVIOUS
    <3>1. CASE i = m
      BY <3>1, <2>3, <1>3, <1>1
    <3>2. CASE i < m
      <4>1. i \in 1..(m - 1) /\ i + 1 \in 1..m /\ (n - m) + (i + 1) \in 1..n
            /\ (n + 1) - m + i = (n - m) + (i + 1)
        BY <3>2, <1>1 DEF HubInv
      <4> QED BY <4>1, <2>3, <1>3 DEF HubInv
    <3> QED BY <3>1, <3>2, <1>1
  <2>5. \A i \in 2..m : events[i].key # Head(events).key
    <3> SUFFICES ASSUME NEW i \in 2..m PROVE events[i].key # events[1].key
      BY <2>1 DEF TypeOK
    <3>1. /\ events[1] = accepted[(n - m) + 1] /\ events[i] = accepted[(n - m) + i]
          /\ (n - m) + 1 \in 1..n /\ (n - m) + i \in 1..n
      BY <1>1 DEF HubInv
    <3>2. ~(((n - m) + i) - ((n - m) + 1) > Capacity)
      BY <1>1, <2>1
    <3> QED BY <3>1, <3>2, <1>1 DEF HubInv, DedupWindow
  <2>6. keys' = {events'[i].key : i \in 1..m}
    <3>1. keys = {events[i].key : i \in 1..m} /\ Head(events) = events[1]
      BY <2>1 DEF HubInv, TypeOK
    <3>2. \A i \in 1..m : events'[i].key \in keys'
      <4> SUFFICES ASSUME NEW i \in 1..m PROVE events'[i].key \in keys'
        OBVIOUS
      <4>1. CASE i = m
        BY <4>1, <2>1, <2>2, <2>3, <3>1, <1>4, <1>1
      <4>2. CASE i < m
        BY <4>2, <2>2, <2>3, <2>5, <3>1, <1>1
      <4> QED BY <4>1, <4>2, <1>1
    <3>3. ASSUME NEW k \in keys' PROVE \E i \in 1..m : k = events'[i].key
      <4>1. CASE k = r.key
        BY <4>1, <2>1, <2>3, <1>1
      <4>2. CASE k # r.key
        <5>1. PICK i \in 1..m : k = events[i].key
          BY <4>2, <2>2, <3>1
        <5>2. i # 1
          BY <5>1, <4>2, <2>2, <3>1
        <5>3. i - 1 \in 1..(m - 1) /\ (i - 1) + 1 = i
          BY <5>2, <1>1
        <5>4. events'[i - 1].key = k /\ i - 1 \in 1..m
          BY <5>1, <5>3, <2>3, <1>1
        <5> QED BY <5>4
      <4> QED BY <4>1, <4>2
    <3> QED BY <3>2, <3>3
  <2>7. Len(events') <= Capacity /\ Len(events') <= Len(accepted') /\ Len(events') = Capacity
    BY <2>1, <2>3, <1>1, <1>2 DEF HubInv
  <2> QED BY <2>3, <2>4, <2>6, <2>7, <1>2, <1>6 DEF HubInv
<1>8. CASE m < Capacity
  <2>1. events' = Append(events, r) /\ keys' = keys \cup {r.key}
    BY <1>8, <1>1 DEF Insert
  <2>2. /\ Len(events') = m + 1 /\ events'[m + 1] = r
        /\ \A i \in 1..m : events'[i] = events[i]
    BY <2>1 DEF TypeOK
  <2>3. m = n
    BY <1>8, <1>1 DEF HubInv
  <2>4. \A i \in 1..(m + 1) : events'[i] = accepted'[i]
    <3> SUFFICES ASSUME NEW i \in 1..(m + 1) PROVE events'[i] = accepted'[i]
      OBVIOUS
    <3>1. CASE i = m + 1
      BY <3>1, <2>2, <2>3, <1>3
    <3>2. CASE i \in 1..m
      BY <3>2, <2>2, <2>3, <1>3, <1>1 DEF HubInv
    <3> QED BY <3>1, <3>2, <1>1
  <2>5. keys' = {events'[i].key : i \in 1..(m + 1)}
    BY <2>1, <2>2, <1>1 DEF HubInv
  <2> QED BY <2>2, <2>3, <2>4, <2>5, <1>1, <1>2, <1>6, <1>8 DEF HubInv
<1> QED BY <1>1, <1>7, <1>8

\* However sources race, a key is accepted again only after its eviction.
THEOREM DedupWindowHolds == Spec => []DedupWindow
<1>1. TypeOK /\ HubInv /\ [Next]_vars => HubInv'
  <2> SUFFICES ASSUME TypeOK, HubInv, [Next]_vars PROVE HubInv'
    OBVIOUS
  <2>1. ASSUME NEW s \in Source, Insert(s) PROVE HubInv'
    BY <2>1, HubInsert
  <2>2. CASE UNCHANGED hubVars
    BY <2>2 DEF hubVars, HubInv, DedupWindow
  <2>3. ASSUME NEW s \in Source, Process(s), ~Insert(s) PROVE UNCHANGED hubVars
    BY <2>3 DEF Process, Receive, Duplicate, TakeSequence, InsertRefused, Route, Send,
                vars, hubVars
  <2>4. CASE StorageTake \/ Batcher
    BY <2>2, <2>4 DEF StorageTake, Batcher, BatchFirst, BatchMore, BatchOverflow, BatchPublish
  <2>5. CASE UNCHANGED vars
    BY <2>2, <2>5 DEF vars
  <2> QED BY <2>1, <2>2, <2>3, <2>4, <2>5 DEF Next
<1>2. HubInv => DedupWindow
  BY DEF HubInv
<1> QED BY <1>1, <1>2, HubInit, TypeCorrect, PTL DEF Spec

-----------------------------------------------------------------------------
(* Distinct sequences. A sequence taken but not yet inserted must differ   *)
(* from every accepted one and from those the other sources hold, and the  *)
(* counter must be at or above all of them.                                *)

SeqInv ==
  /\ \A i \in 1..Len(accepted) : accepted[i].seq <= sequence
  /\ \A s \in Source : step[s] = "numbered" =>
       /\ record[s].seq <= sequence
       /\ \A i \in 1..Len(accepted) : accepted[i].seq # record[s].seq
  /\ \A s, t \in Source :
       (s # t /\ step[s] = "numbered" /\ step[t] = "numbered") => record[s].seq # record[t].seq
  /\ DistinctSequences

\* No source holds a sequence at start, and the recovered ones are distinct.
LEMMA SeqInit == Init => SeqInv
  BY RecoveredAssumption DEF Init, SeqInv, DistinctSequences

\* fetch_add hands out a sequence above every one in use.
LEMMA SeqTakeSequence ==
  ASSUME TypeOK, SeqInv, NEW s \in Source, TakeSequence(s)
  PROVE  SeqInv'
<1>1. accepted' = accepted /\ sequence' = sequence + 1 /\ sequence \in Nat
  BY DEF TakeSequence, hubVars, TypeOK
<1>2. /\ record'[s].seq = sequence + 1 /\ step'[s] = "numbered"
      /\ \A t \in Source \ {s} : record'[t] = record[t] /\ step'[t] = step[t]
  BY DEF TakeSequence, GoTo, TypeOK
<1>3. \A i \in 1..Len(accepted) : accepted[i].seq \in Nat
  BY RecordFields DEF TypeOK
<1>4. \A t \in Source : record[t].seq \in Nat
  BY RecordFields DEF TypeOK
<1>5. \A i \in 1..Len(accepted') : accepted'[i].seq <= sequence' /\ accepted'[i].seq # sequence + 1
  BY <1>1, <1>3 DEF SeqInv
<1>6. \A t \in Source : step'[t] = "numbered" =>
        /\ record'[t].seq <= sequence'
        /\ \A i \in 1..Len(accepted') : accepted'[i].seq # record'[t].seq
  BY <1>1, <1>2, <1>4, <1>5 DEF SeqInv
<1>7. \A t \in Source \ {s} : step'[t] = "numbered" => record'[t].seq # sequence + 1
  BY <1>1, <1>2, <1>4 DEF SeqInv
<1>8. \A t, u \in Source :
        (t # u /\ step'[t] = "numbered" /\ step'[u] = "numbered") => record'[t].seq # record'[u].seq
  BY <1>2, <1>7 DEF SeqInv
<1>9. DistinctSequences'
  BY <1>1 DEF SeqInv, DistinctSequences
<1> QED BY <1>5, <1>6, <1>8, <1>9 DEF SeqInv

\* insert adds a sequence nobody else has.
LEMMA SeqInsert ==
  ASSUME TypeOK, SeqInv, NEW s \in Source, Insert(s)
  PROVE  SeqInv'
<1> DEFINE n == Len(accepted)
<1>1. n \in Nat /\ Len(accepted') = n + 1 /\ accepted'[n + 1] = record[s]
      /\ \A i \in 1..n : accepted'[i] = accepted[i]
  BY DEF Insert, TypeOK
<1>2. step[s] = "numbered" /\ step'[s] = "inserted" /\ UNCHANGED <<record, sequence>>
      /\ \A t \in Source \ {s} : step'[t] = step[t]
  BY DEF Insert, GoTo, TypeOK
<1>3. \A i \in 1..(n + 1) : accepted'[i].seq <= sequence'
  BY <1>1, <1>2 DEF SeqInv
<1>4. \A t \in Source : step'[t] = "numbered" =>
        /\ record'[t].seq <= sequence'
        /\ \A i \in 1..(n + 1) : accepted'[i].seq # record'[t].seq
  BY <1>1, <1>2 DEF SeqInv
<1>5. \A t, u \in Source :
        (t # u /\ step'[t] = "numbered" /\ step'[u] = "numbered") => record'[t].seq # record'[u].seq
  BY <1>2 DEF SeqInv
<1>6. DistinctSequences'
  <2> SUFFICES ASSUME NEW i \in 1..(n + 1), NEW j \in 1..(n + 1), i # j
               PROVE  accepted'[i].seq # accepted'[j].seq
    BY <1>1 DEF DistinctSequences
  <2>1. CASE i \in 1..n /\ j \in 1..n
    BY <2>1, <1>1 DEF SeqInv, DistinctSequences
  <2>2. CASE i = n + 1 /\ j \in 1..n
    BY <2>2, <1>1, <1>2 DEF SeqInv
  <2>3. CASE i \in 1..n /\ j = n + 1
    BY <2>3, <1>1, <1>2 DEF SeqInv
  <2> QED BY <2>1, <2>2, <2>3, <1>1
<1> QED BY <1>1, <1>3, <1>4, <1>5, <1>6 DEF SeqInv

LEMMA SeqNext == TypeOK /\ SeqInv /\ [Next]_vars => SeqInv'
<1> SUFFICES ASSUME TypeOK, SeqInv, [Next]_vars PROVE SeqInv'
  OBVIOUS
<1>1. ASSUME NEW s \in Source, TakeSequence(s) \/ Insert(s) PROVE SeqInv'
  BY <1>1, SeqTakeSequence, SeqInsert
<1>2. ASSUME UNCHANGED <<accepted, sequence>>,
             \A t \in Source : step'[t] = "numbered" =>
               step[t] = "numbered" /\ record'[t] = record[t]
      PROVE  SeqInv'
  BY <1>2 DEF SeqInv, DistinctSequences
<1>3. ASSUME NEW s \in Source, Process(s), ~TakeSequence(s), ~Insert(s) PROVE SeqInv'
  BY <1>2, <1>3 DEF Process, Receive, Duplicate, InsertRefused, Route, Send, Return, GoTo,
                    vars, hubVars, TypeOK
<1>4. CASE StorageTake \/ Batcher
  BY <1>2, <1>4 DEF StorageTake, Batcher, BatchFirst, BatchMore, BatchOverflow, BatchPublish,
                    hubVars
<1>5. CASE UNCHANGED vars
  BY <1>2, <1>5 DEF vars, hubVars
<1> QED BY <1>1, <1>3, <1>4, <1>5 DEF Next

\* Sources may race for sequences and lose inserts: accepted events never
\* share one.
THEOREM DistinctSequencesHold == Spec => []DistinctSequences
<1>1. SeqInv => DistinctSequences
  BY DEF SeqInv
<1> QED BY <1>1, SeqNext, SeqInit, TypeCorrect, PTL DEF Spec

-----------------------------------------------------------------------------
(* The replay floor. The frames of the ring are the newest published ones, *)
(* so the evicted ones are all before them.                                *)

\* The floor, said of the frames' ends.
FloorEnds ==
  /\ \A f \in Evicted : f.last <= replayFloor
  /\ replayFloor > 0 => replayFloor \in {f.last : f \in Evicted} \cup {r.seq : r \in Loaded}

FloorInv ==
  /\ Len(frames) <= FrameCapacity /\ Len(frames) <= Len(published)
  /\ \A i \in 1..Len(frames) : frames[i] = published[Len(published) - Len(frames) + i]
  /\ FloorEnds

LEMMA FloorInit == Init => FloorInv
<1> SUFFICES ASSUME Init PROVE FloorInv
  OBVIOUS
<1>1. Len(frames) = 0 /\ Len(published) = 0 /\ Evicted = {}
  BY DEF Init, Evicted
<1>2. replayFloor > 0 => replayFloor \in {r.seq : r \in Loaded}
  BY DEF Init, Range
<1> QED BY <1>1, <1>2, PipelineAssumption DEF FloorInv, FloorEnds

\* FrameHub::publish, when the ring is full and when it is not.
LEMMA FloorPublish ==
  ASSUME TypeOK, FloorInv, NEW f \in Frame, FramePublish(f)
  PROVE  FloorInv'
<1> DEFINE n == Len(published)
           m == Len(frames)
<1>1. n \in Nat /\ m \in Nat /\ m <= n /\ FrameCapacity \in Nat \ {0} /\ m <= FrameCapacity
  BY PipelineAssumption DEF TypeOK, FloorInv
<1>2. /\ Len(published') = n + 1 /\ published'[n + 1] = f
      /\ \A i \in 1..n : published'[i] = published[i]
  BY DEF FramePublish, TypeOK
<1>3. \A i \in 1..n : published[i] \in Frame /\ published[i].last \in Nat
  BY FrameFields DEF TypeOK
<1>4. replayFloor \in Nat
  BY DEF TypeOK
<1>5. CASE m >= FrameCapacity
  <2>1. m = FrameCapacity /\ frames # <<>> /\ m >= 1
    BY <1>1, <1>5
  <2>2. frames' = Append(Tail(frames), f) /\ replayFloor' = MaxOf(replayFloor, Head(frames).last)
    BY <1>5 DEF FramePublish
  <2>3. /\ Len(frames') = m /\ frames'[m] = f
        /\ \A i \in 1..(m - 1) : frames'[i] = frames[i + 1]
    BY <2>1, <2>2, <1>1 DEF TypeOK
  <2>4. \A i \in 1..m : frames'[i] = published'[(n + 1) - m + i]
    <3> SUFFICES ASSUME NEW i \in 1..m PROVE frames'[i] = published'[(n + 1) - m + i]
      OBVIOUS
    <3>1. CASE i = m
      BY <3>1, <2>3, <1>2, <1>1
    <3>2. CASE i < m
      <4>1. i \in 1..(m - 1) /\ i + 1 \in 1..m /\ (n - m) + (i + 1) \in 1..n
            /\ (n + 1) - m + i = (n - m) + (i + 1)
        BY <3>2, <1>1
      <4> QED BY <4>1, <2>3, <1>2 DEF FloorInv
    <3> QED BY <3>1, <3>2, <1>1
  <2>5. Head(frames) = published[(n - m) + 1] /\ (n - m) + 1 \in 1..n
    BY <2>1, <1>1 DEF FloorInv, TypeOK
  <2>6. Evicted' = Evicted \cup {Head(frames)}
    <3>1. Evicted' = {published'[i] : i \in 1..((n - m) + 1)}
      BY <1>1, <1>2, <2>3 DEF Evicted
    <3>2. Evicted = {published[i] : i \in 1..(n - m)}
      BY DEF Evicted
    <3>3. \A i \in 1..((n - m) + 1) : published'[i] = published[i]
      BY <1>1, <1>2, <2>1
    <3>4. 1..((n - m) + 1) = (1..(n - m)) \cup {(n - m) + 1}
      BY <1>1
    <3>5. Evicted' = {published[i] : i \in (1..(n - m)) \cup {(n - m) + 1}}
      BY <3>1, <3>3, <3>4
    <3> QED BY <3>2, <3>5, <2>5
  <2>7. Head(frames).last \in Nat
    BY <2>5, <1>3
  <2>8. /\ replayFloor' >= replayFloor /\ replayFloor' >= Head(frames).last
        /\ replayFloor' = replayFloor \/ replayFloor' = Head(frames).last
        /\ replayFloor' \in Nat
    BY <2>2, <2>7, <1>4 DEF MaxOf
  <2>9. \A g \in Evicted : g.last \in Nat /\ g.last <= replayFloor
    <3>1. \A g \in Evicted : g.last <= replayFloor
      BY DEF FloorInv, FloorEnds
    <3>2. \A i \in 1..(n - m) : published[i].last \in Nat
      BY <1>1, <1>3
    <3> QED BY <3>1, <3>2 DEF Evicted
  <2>10. \A g \in Evicted' : g.last <= replayFloor'
    BY <2>6, <2>7, <2>8, <2>9, <1>4
  <2>11. replayFloor' > 0 => replayFloor' \in {g.last : g \in Evicted'} \cup {r.seq : r \in Loaded}
    BY <2>6, <2>8 DEF FloorInv, FloorEnds
  <2>12. FloorEnds'
    BY <2>10, <2>11 DEF FloorEnds, Range
  <2> QED BY <2>1, <2>3, <2>4, <2>12, <1>1, <1>2 DEF FloorInv
<1>6. CASE m < FrameCapacity
  <2>1. frames' = Append(frames, f) /\ replayFloor' = replayFloor
    BY <1>1, <1>6 DEF FramePublish
  <2>2. /\ Len(frames') = m + 1 /\ frames'[m + 1] = f
        /\ \A i \in 1..m : frames'[i] = frames[i]
    BY <2>1 DEF TypeOK
  <2>3. \A i \in 1..(m + 1) : frames'[i] = published'[(n + 1) - (m + 1) + i]
    <3> SUFFICES ASSUME NEW i \in 1..(m + 1) PROVE frames'[i] = published'[(n - m) + i]
      BY <1>1
    <3>1. CASE i = m + 1
      BY <3>1, <2>2, <1>2, <1>1
    <3>2. CASE i \in 1..m
      <4>1. (n - m) + i \in 1..n
        BY <3>2, <1>1
      <4> QED BY <3>2, <4>1, <2>2, <1>2 DEF FloorInv
    <3> QED BY <3>1, <3>2, <1>1
  <2>4. Evicted' = Evicted
    <3>1. Evicted' = {published'[i] : i \in 1..(n - m)}
      BY <1>1, <1>2, <2>2 DEF Evicted
    <3>2. \A i \in 1..(n - m) : published'[i] = published[i]
      BY <1>1, <1>2
    <3> QED BY <3>1, <3>2 DEF Evicted
  <2>5. FloorEnds'
    BY <2>1, <2>4 DEF FloorInv, FloorEnds, Range
  <2> QED BY <2>2, <2>3, <2>5, <1>1, <1>2, <1>6 DEF FloorInv
<1> QED BY <1>1, <1>5, <1>6

\* The frame of a batch is a frame.
LEMMA EncodeType ==
  ASSUME TypeOK, batch # <<>>
  PROVE  EncodeFrame(batch, batchSeq + 1) \in Frame
<1>1. batch[Len(batch)] \in Record
  BY SeqTake DEF TypeOK
<1>2. batch[Len(batch)].seq \in Nat
  BY <1>1, RecordFields
<1> QED BY <1>2 DEF EncodeFrame, Frame, TypeOK

\* Only a batch that encodes within the limit changes the replay ring.
LEMMA RingChanges ==
  ASSUME [Next]_vars
  PROVE  \/ UNCHANGED <<frames, replayFloor, latest, published>>
         \/ BatchPublish /\ FramePublish(EncodeFrame(batch, batchSeq + 1))
<1>1. CASE \E s \in Source : Process(s)
  BY <1>1 DEF Process, Receive, Duplicate, TakeSequence, Insert, InsertRefused, Route, Send,
              vars, frameVars
<1>2. CASE StorageTake \/ BatchFirst \/ BatchMore \/ BatchOverflow
  BY <1>2 DEF StorageTake, BatchFirst, BatchMore, BatchOverflow, frameVars
<1>3. CASE BatchPublish
  BY <1>3 DEF BatchPublish
<1>4. CASE UNCHANGED vars
  BY <1>4 DEF vars, frameVars
<1> QED BY <1>1, <1>2, <1>3, <1>4 DEF Next, Batcher

LEMMA FloorNext == TypeOK /\ FloorInv /\ [Next]_vars => FloorInv'
<1> SUFFICES ASSUME TypeOK, FloorInv, [Next]_vars PROVE FloorInv'
  OBVIOUS
<1>1. CASE UNCHANGED <<frames, replayFloor, latest, published>>
  BY <1>1 DEF FloorInv, FloorEnds, Evicted
<1>2. CASE BatchPublish /\ FramePublish(EncodeFrame(batch, batchSeq + 1))
  BY <1>2, EncodeType, FloorPublish DEF BatchPublish
<1> QED BY <1>1, <1>2, RingChanges

-----------------------------------------------------------------------------
(* Broadcast once. An accepted event is in one place only on its way to a  *)
(* frame: with the source that inserted it, in the channel, put aside by   *)
(* the batcher, in its batch, or in a frame.                               *)

OneEach(q) == \A i, j \in 1..Len(q) : q[i] = q[j] => i = j

InFlight(s) == step[s] \in {"inserted", "sending"}
Held == {record[s] : s \in {t \in Source : InFlight(t)}}
Carried == UNION {InFrame(f) : f \in Range(published)}

\* Where events are.
PlaceInv ==
  /\ \A s, t \in Source : InFlight(s) /\ InFlight(t) /\ record[s] = record[t] => s = t
  /\ OneEach(batchQ) /\ OneEach(pending) /\ OneEach(batch)
  /\ Held \cap Range(batchQ) = {}
  /\ (Held \cup Range(batchQ)) \cap Range(pending) = {}
  /\ (Held \cup Range(batchQ) \cup Range(pending)) \cap Range(batch) = {}
  /\ (Held \cup Range(batchQ) \cup Range(pending) \cup Range(batch)) \cap Carried = {}

\* What they are: accepted, and resolved from the channel on.
OriginInv ==
  /\ Held \subseteq Range(accepted)
  /\ \A s \in Source : step[s] = "sending" => record[s].hit
  /\ \A r \in Range(batchQ) \cup Range(pending) \cup Range(batch) \cup Carried :
       r.hit /\ r \in Range(accepted)

\* No two places in frames hold the same event.
FramesOnce ==
  \A m, n \in 1..Len(published) :
    \A i \in 1..Len(published[m].events), j \in 1..Len(published[n].events) :
      published[m].events[i] = published[n].events[j] => m = n /\ i = j

BroadcastInv == PlaceInv /\ OriginInv /\ FramesOnce

LEMMA BroadcastEnough == BroadcastInv => BroadcastOnce
  BY DEF BroadcastInv, OriginInv, FramesOnce, BroadcastOnce, Carried

\* The elements of a sequence that grows, or loses its first.
LEMMA AppendRange ==
  ASSUME NEW S, NEW q \in Seq(S), NEW x \in S
  PROVE  /\ Range(Append(q, x)) = Range(q) \cup {x}
         /\ OneEach(q) /\ x \notin Range(q) => OneEach(Append(q, x))
<1>1. /\ Len(Append(q, x)) = Len(q) + 1 /\ Len(q) \in Nat
      /\ Append(q, x)[Len(q) + 1] = x
      /\ \A i \in 1..Len(q) : Append(q, x)[i] = q[i]
  OBVIOUS
<1>2. 1..(Len(q) + 1) = (1..Len(q)) \cup {Len(q) + 1}
  BY <1>1
<1>3. Range(Append(q, x)) = Range(q) \cup {x}
  BY <1>1, <1>2 DEF Range
<1>4. ASSUME OneEach(q), x \notin Range(q) PROVE OneEach(Append(q, x))
  <2> SUFFICES ASSUME NEW i \in 1..(Len(q) + 1), NEW j \in 1..(Len(q) + 1),
                      Append(q, x)[i] = Append(q, x)[j]
               PROVE  i = j
    BY <1>1 DEF OneEach
  <2> QED BY <1>1, <1>2, <1>4 DEF OneEach, Range
<1> QED BY <1>3, <1>4

LEMMA QueueRange ==
  ASSUME NEW S, NEW q \in Seq(S), q # <<>>
  PROVE  Range(q) = Range(Tail(q)) \cup {Head(q)}
<1>1. /\ Len(Tail(q)) = Len(q) - 1 /\ Len(q) \in Nat \ {0} /\ Head(q) = q[1]
      /\ \A i \in 1..(Len(q) - 1) : Tail(q)[i] = q[i + 1]
  OBVIOUS
<1>2. \A i \in 1..(Len(q) - 1) : i + 1 \in 1..Len(q)
  BY <1>1
<1>3. \A i \in 1..Len(q) : i = 1 \/ (i - 1 \in 1..(Len(q) - 1) /\ (i - 1) + 1 = i)
  BY <1>1
<1>4. Range(q) \subseteq Range(Tail(q)) \cup {Head(q)}
  <2> SUFFICES ASSUME NEW i \in 1..Len(q) PROVE q[i] \in Range(Tail(q)) \cup {Head(q)}
    BY DEF Range
  <2>1. CASE i = 1
    BY <2>1, <1>1
  <2>2. CASE i - 1 \in 1..(Len(q) - 1) /\ (i - 1) + 1 = i
    BY <2>2, <1>1 DEF Range
  <2> QED BY <2>1, <2>2, <1>3
<1>5. Range(Tail(q)) \cup {Head(q)} \subseteq Range(q)
  BY <1>1, <1>2 DEF Range
<1> QED BY <1>4, <1>5

LEMMA TailRange ==
  ASSUME NEW S, NEW q \in Seq(S), q # <<>>, OneEach(q)
  PROVE  /\ Range(q) = Range(Tail(q)) \cup {Head(q)}
         /\ Head(q) \notin Range(Tail(q))
         /\ OneEach(Tail(q))
<1>1. /\ Len(Tail(q)) = Len(q) - 1 /\ Len(q) \in Nat \ {0} /\ Head(q) = q[1]
      /\ \A i \in 1..(Len(q) - 1) : Tail(q)[i] = q[i + 1]
  OBVIOUS
<1>2. \A i \in 1..(Len(q) - 1) : i + 1 \in 1..Len(q) /\ i + 1 # 1
  BY <1>1
<1>3. OneEach(Tail(q))
  BY <1>1, <1>2 DEF OneEach
<1>4. Head(q) \notin Range(Tail(q))
  BY <1>1, <1>2 DEF OneEach, Range
<1> QED BY <1>3, <1>4, QueueRange

\* A sequence of none, and of one.
LEMMA SmallRange ==
  /\ Range(<<>>) = {} /\ OneEach(<<>>)
  /\ \A x : Range(<<x>>) = {x} /\ OneEach(<<x>>)
  BY DEF Range, OneEach

LEMMA BroadcastInit == Init => BroadcastInv
<1> SUFFICES ASSUME Init PROVE BroadcastInv
  OBVIOUS
<1>1. /\ Held = {} /\ Range(batchQ) = {} /\ Range(pending) = {} /\ Range(batch) = {}
      /\ Carried = {} /\ published = <<>>
      /\ OneEach(batchQ) /\ OneEach(pending) /\ OneEach(batch)
  BY SmallRange DEF Init, Held, InFlight, Carried
<1>2. \A s \in Source : step[s] = "idle"
  BY DEF Init
<1>3. FramesOnce
  BY <1>1 DEF FramesOnce
<1> QED BY <1>1, <1>2, <1>3 DEF BroadcastInv, PlaceInv, OriginInv, InFlight

\* Steps of a source s that leave the channel alone, and what s holds is what
\* it held before, or nothing.
LEMMA BroadcastSource ==
  ASSUME BroadcastInv, UNCHANGED <<accepted, published, batchQ, pending, batch>>,
         \A t \in Source : /\ InFlight(t)' => InFlight(t) /\ record'[t] = record[t]
                           /\ step'[t] = "sending" => record'[t].hit
  PROVE  BroadcastInv'
<1>1. Held' \subseteq Held
  BY DEF Held, InFlight
<1>2. /\ Carried' = Carried /\ FramesOnce' = FramesOnce
      /\ Range(batchQ)' = Range(batchQ) /\ Range(pending)' = Range(pending)
      /\ Range(batch)' = Range(batch) /\ Range(accepted)' = Range(accepted)
      /\ OneEach(batchQ)' = OneEach(batchQ) /\ OneEach(pending)' = OneEach(pending)
      /\ OneEach(batch)' = OneEach(batch)
  BY DEF Carried, FramesOnce, Range, OneEach, InFrame
<1>3. PlaceInv'
  BY <1>1, <1>2 DEF BroadcastInv, PlaceInv, InFlight
<1>4. OriginInv'
  BY <1>1, <1>2 DEF BroadcastInv, OriginInv
<1> QED BY <1>2, <1>3, <1>4 DEF BroadcastInv

\* insert: the sequence is nobody's, so the event is nowhere yet.
LEMMA BroadcastInsert ==
  ASSUME TypeOK, SeqInv, BroadcastInv, NEW s \in Source, Insert(s)
  PROVE  BroadcastInv'
<1> DEFINE r == record[s]
<1>1. /\ r \in Record /\ accepted' = Append(accepted, r) /\ step[s] = "numbered"
      /\ UNCHANGED <<record, published, batchQ, pending, batch>>
      /\ step'[s] = "inserted" /\ \A t \in Source \ {s} : step'[t] = step[t]
  BY DEF Insert, GoTo, TypeOK, batchVars, frameVars
<1>2. r \notin Range(accepted)
  BY <1>1 DEF SeqInv, Range
<1>3. Range(accepted)' = Range(accepted) \cup {r}
  BY <1>1, AppendRange DEF TypeOK
<1> HIDE DEF r
<1>4. Held' = Held \cup {r}
  BY <1>1 DEF Held, InFlight, r
<1>5. \A t \in Source : InFlight(t) => record[t] # r /\ t # s
  BY <1>1, <1>2 DEF BroadcastInv, OriginInv, Held, InFlight
<1>6. /\ Carried' = Carried /\ FramesOnce' = FramesOnce
      /\ Range(batchQ)' = Range(batchQ) /\ Range(pending)' = Range(pending)
      /\ Range(batch)' = Range(batch)
      /\ OneEach(batchQ)' = OneEach(batchQ) /\ OneEach(pending)' = OneEach(pending)
      /\ OneEach(batch)' = OneEach(batch)
  BY <1>1 DEF Carried, FramesOnce, Range, OneEach, InFrame
<1>7. r \notin Range(batchQ) \cup Range(pending) \cup Range(batch) \cup Carried
  BY <1>2 DEF BroadcastInv, OriginInv
<1>8. \A t, u \in Source : InFlight(t)' /\ InFlight(u)' /\ record'[t] = record'[u] => t = u
  BY <1>1, <1>5 DEF BroadcastInv, PlaceInv, InFlight, r
<1>9. PlaceInv'
  BY <1>4, <1>6, <1>7, <1>8 DEF BroadcastInv, PlaceInv
<1>10. OriginInv'
  BY <1>1, <1>3, <1>4, <1>6 DEF BroadcastInv, OriginInv
<1> QED BY <1>6, <1>9, <1>10 DEF BroadcastInv

\* send: the event leaves its source for the channel.
LEMMA BroadcastSend ==
  ASSUME TypeOK, BroadcastInv, NEW s \in Source, Send(s)
  PROVE  BroadcastInv'
<1> DEFINE r == record[s]
<1>1. /\ r \in Record /\ batchQ' = Append(batchQ, r) /\ step[s] = "sending"
      /\ UNCHANGED <<accepted, published, pending, batch>>
      /\ step'[s] = "idle"
      /\ \A t \in Source \ {s} : step'[t] = step[t] /\ record'[t] = record[t]
  BY DEF Send, Return, GoTo, TypeOK, batchVars, frameVars, hubVars
<1>2. r \in Held /\ r.hit
  BY <1>1 DEF BroadcastInv, OriginInv, Held, InFlight
<1> HIDE DEF r
<1>3. Held' = Held \ {r}
  BY <1>1 DEF BroadcastInv, PlaceInv, Held, InFlight, r
<1>4. r \notin Range(batchQ)
  BY <1>2 DEF BroadcastInv, PlaceInv
<1>5. Range(batchQ)' = Range(batchQ) \cup {r} /\ OneEach(batchQ)'
  BY <1>1, <1>4, AppendRange DEF TypeOK, BroadcastInv, PlaceInv
<1>6. /\ Carried' = Carried /\ FramesOnce' = FramesOnce
      /\ Range(pending)' = Range(pending) /\ Range(batch)' = Range(batch)
      /\ Range(accepted)' = Range(accepted)
      /\ OneEach(pending)' = OneEach(pending) /\ OneEach(batch)' = OneEach(batch)
  BY <1>1 DEF Carried, FramesOnce, Range, OneEach, InFrame
<1>7. \A t, u \in Source : InFlight(t)' /\ InFlight(u)' /\ record'[t] = record'[u] => t = u
  BY <1>1 DEF BroadcastInv, PlaceInv, InFlight
<1>8. PlaceInv'
  BY <1>2, <1>3, <1>5, <1>6, <1>7 DEF BroadcastInv, PlaceInv
<1>9. OriginInv'
  BY <1>1, <1>2, <1>3, <1>5, <1>6 DEF BroadcastInv, OriginInv
<1> QED BY <1>6, <1>8, <1>9 DEF BroadcastInv

\* What the batcher takes: events move from the channel into the batch or are
\* put aside, and what was put aside comes first.
LEMMA BroadcastBatch ==
  ASSUME TypeOK, BroadcastInv, BatchFirst \/ BatchMore \/ BatchOverflow
  PROVE  BroadcastInv'
<1>1. UNCHANGED <<step, record, accepted, published>>
  BY DEF BatchFirst, BatchMore, BatchOverflow, hubVars, frameVars
<1>2. /\ Carried' = Carried /\ FramesOnce' = FramesOnce /\ Held' = Held
      /\ Range(accepted)' = Range(accepted)
  BY <1>1 DEF Carried, FramesOnce, Range, InFrame, Held, InFlight
<1>3. /\ OneEach(batchQ)' /\ OneEach(pending)' /\ OneEach(batch)'
      /\ Range(batchQ)' \cap Range(pending)' = {}
      /\ (Range(batchQ)' \cup Range(pending)') \cap Range(batch)' = {}
      /\ Range(batchQ)' \subseteq Range(batchQ)
      /\ Range(pending)' \subseteq Range(batchQ) \cup Range(pending)
      /\ Range(batch)' \subseteq Range(batchQ) \cup Range(pending) \cup Range(batch)
  <2> USE SmallRange DEF BroadcastInv, PlaceInv
  <2>1. CASE pending # <<>>
    <3>1. CASE BatchFirst
      BY <2>1, <3>1 DEF BatchFirst
    <3> QED BY <2>1, <3>1 DEF BatchMore, BatchOverflow, MoreForBatch
  <2>2. CASE pending = <<>>
    <3> DEFINE r == Head(batchQ)
    <3>1. batchQ # <<>> /\ batchQ' = Tail(batchQ) /\ r \in Record
      BY <2>2, SeqTake DEF BatchFirst, BatchMore, BatchOverflow, MoreForBatch, TypeOK
    <3>2. /\ Range(batchQ) = Range(Tail(batchQ)) \cup {r} /\ r \notin Range(Tail(batchQ))
          /\ OneEach(Tail(batchQ))
      BY <3>1, TailRange DEF TypeOK
    <3>3. CASE BatchFirst
      <4>1. batch = <<>> /\ batch' = <<r>> /\ pending' = pending
        BY <2>2, <3>3 DEF BatchFirst
      <4> HIDE DEF r
      <4> QED BY <2>2, <3>1, <3>2, <4>1
    <3>4. CASE BatchMore
      <4>1. batch' = Append(batch, r) /\ pending' = pending
        BY <3>4 DEF BatchMore
      <4>2. r \notin Range(batch)
        BY <3>2
      <4> HIDE DEF r
      <4>3. Range(batch)' = Range(batch) \cup {r} /\ OneEach(batch)'
        BY <3>1, <4>1, <4>2, AppendRange DEF TypeOK
      <4> QED BY <2>2, <3>1, <3>2, <4>1, <4>3
    <3>5. CASE BatchOverflow
      <4>1. pending' = <<r>> /\ batch' = batch
        BY <3>5 DEF BatchOverflow
      <4> HIDE DEF r
      <4> QED BY <2>2, <3>1, <3>2, <4>1
    <3> QED BY <3>3, <3>4, <3>5
  <2> QED BY <2>1, <2>2
<1>4. \A t, u \in Source : InFlight(t)' /\ InFlight(u)' /\ record'[t] = record'[u] => t = u
  BY <1>1 DEF BroadcastInv, PlaceInv, InFlight
<1>5. PlaceInv'
  BY <1>2, <1>3, <1>4 DEF BroadcastInv, PlaceInv
<1>6. OriginInv'
  BY <1>1, <1>2, <1>3 DEF BroadcastInv, OriginInv
<1> QED BY <1>2, <1>5, <1>6 DEF BroadcastInv

\* publish: the events of the batch become those of a frame, or are refused.
LEMMA BroadcastPublish ==
  ASSUME TypeOK, BroadcastInv, BatchPublish
  PROVE  BroadcastInv'
<1>1. UNCHANGED <<step, record, accepted, batchQ, pending>> /\ batch' = <<>>
  BY DEF BatchPublish, hubVars
<1>2. /\ Range(batch)' = {} /\ OneEach(batch)' /\ Held' = Held
      /\ Range(accepted)' = Range(accepted)
      /\ Range(batchQ)' = Range(batchQ) /\ OneEach(batchQ)' = OneEach(batchQ)
      /\ Range(pending)' = Range(pending) /\ OneEach(pending)' = OneEach(pending)
  BY <1>1, SmallRange DEF Range, OneEach, Held, InFlight
<1>3. Carried' \subseteq Carried \cup Range(batch) /\ FramesOnce'
  <2>1. CASE UNCHANGED published
    <3>1. Carried' = Carried /\ FramesOnce' = FramesOnce
      BY <2>1 DEF Carried, FramesOnce, Range, InFrame
    <3> QED BY <3>1 DEF BroadcastInv
  <2>2. CASE FramePublish(EncodeFrame(batch, batchSeq + 1))
    <3> DEFINE f == EncodeFrame(batch, batchSeq + 1)
               n == Len(published)
    <3>1. f.events = batch /\ published' = Append(published, f)
      BY <2>2 DEF EncodeFrame, FramePublish
    <3> HIDE DEF f
    <3>2. /\ Len(published') = n + 1 /\ n \in Nat /\ published'[n + 1] = f
          /\ \A i \in 1..n : published'[i] = published[i]
      BY <3>1 DEF TypeOK
    <3>3. 1..(n + 1) = (1..n) \cup {n + 1}
      BY <3>2
    <3>4. Range(published)' = Range(published) \cup {f}
      BY <3>2, <3>3 DEF Range
    <3>5. Carried' = Carried \cup Range(batch)
      <4>1. Carried' = UNION {InFrame(g) : g \in Range(published)'}
        BY DEF Carried, InFrame, Range
      <4> QED BY <3>1, <3>4, <4>1 DEF Carried, InFrame
    <3>6. \A m \in 1..n : \A i \in 1..Len(published[m].events) : published[m].events[i] \in Carried
      BY DEF Carried, InFrame, Range
    <3>7. \A i \in 1..Len(batch) : batch[i] \in Range(batch) /\ batch[i] \notin Carried
      BY DEF BroadcastInv, PlaceInv, Range
    <3>8. FramesOnce'
      <4> SUFFICES ASSUME NEW m \in 1..(n + 1), NEW k \in 1..(n + 1),
                          NEW i \in 1..Len(published'[m].events),
                          NEW j \in 1..Len(published'[k].events),
                          published'[m].events[i] = published'[k].events[j]
                   PROVE  m = k /\ i = j
        BY <3>2 DEF FramesOnce
      <4>1. CASE m \in 1..n /\ k \in 1..n
        <5>1. published'[m] = published[m] /\ published'[k] = published[k]
          BY <4>1, <3>2
        <5>2. FramesOnce
          BY DEF BroadcastInv
        <5> QED BY <4>1, <5>1, <5>2 DEF FramesOnce
      <4>2. CASE m \in 1..n /\ k = n + 1
        BY <4>2, <3>1, <3>2, <3>6, <3>7
      <4>3. CASE m = n + 1 /\ k \in 1..n
        BY <4>3, <3>1, <3>2, <3>6, <3>7
      <4>4. CASE m = n + 1 /\ k = n + 1
        BY <4>4, <3>1, <3>2 DEF BroadcastInv, PlaceInv, OneEach
      <4> QED BY <4>1, <4>2, <4>3, <4>4, <3>3
    <3> QED BY <3>5, <3>8
  <2> QED BY <2>1, <2>2 DEF BatchPublish
<1>4. \A t, u \in Source : InFlight(t)' /\ InFlight(u)' /\ record'[t] = record'[u] => t = u
  BY <1>1 DEF BroadcastInv, PlaceInv, InFlight
<1>5. PlaceInv'
  BY <1>2, <1>3, <1>4 DEF BroadcastInv, PlaceInv
<1>6. OriginInv'
  BY <1>1, <1>2, <1>3 DEF BroadcastInv, OriginInv
<1> QED BY <1>3, <1>5, <1>6 DEF BroadcastInv

\* However sources race and however the batcher cuts its batches, a frame
\* carries accepted, resolved events only, and no event is carried twice.
THEOREM BroadcastOnceHolds == Spec => []BroadcastOnce
<1>1. TypeOK /\ SeqInv /\ BroadcastInv /\ [Next]_vars => BroadcastInv'
  <2> SUFFICES ASSUME TypeOK, SeqInv, BroadcastInv, [Next]_vars PROVE BroadcastInv'
    OBVIOUS
  <2>1. ASSUME NEW s \in Source, Process(s) PROVE BroadcastInv'
    <3>1. CASE Insert(s)
      BY <3>1, BroadcastInsert
    <3>2. CASE Send(s)
      BY <3>2, BroadcastSend
    <3>3. CASE ~Insert(s) /\ ~Send(s)
      <4>1. UNCHANGED <<accepted, published, batchQ, pending, batch>>
        BY <2>1, <3>3 DEF Process, Receive, Duplicate, TakeSequence, InsertRefused, Route,
                          vars, hubVars, batchVars, frameVars
      <4>2. \A t \in Source : InFlight(t)' => InFlight(t) /\ record'[t] = record[t]
        BY <2>1, <3>3 DEF Process, Receive, Duplicate, TakeSequence, InsertRefused, Route,
                          vars, Return, GoTo, InFlight, TypeOK
      <4>3. \A t \in Source : step'[t] = "sending" => record'[t].hit
        BY <2>1, <3>3 DEF Process, Receive, Duplicate, TakeSequence, InsertRefused, Route,
                          vars, Return, GoTo, TypeOK, BroadcastInv, OriginInv
      <4> QED BY <4>1, <4>2, <4>3, BroadcastSource
    <3> QED BY <3>1, <3>2, <3>3
  <2>2. CASE BatchFirst \/ BatchMore \/ BatchOverflow
    BY <2>2, BroadcastBatch
  <2>3. CASE BatchPublish
    BY <2>3, BroadcastPublish
  <2>4. CASE StorageTake \/ UNCHANGED vars
    <3>1. UNCHANGED <<step, record, accepted, published, batchQ, pending, batch>>
      BY <2>4 DEF StorageTake, vars, hubVars, batchVars, frameVars
    <3> QED BY <3>1, BroadcastSource DEF InFlight, BroadcastInv, OriginInv
  <2> QED BY <2>1, <2>2, <2>3, <2>4 DEF Next, Batcher
<1> QED BY <1>1, SeqNext, SeqInit, BroadcastInit, BroadcastEnough, TypeCorrect, PTL DEF Spec

-----------------------------------------------------------------------------
(* Frames: each has an event and is numbered by its last one, and the      *)
(* batches they come from are numbered in the order they are published.    *)

Numbered(s) == step[s] \in {"numbered", "inserted", "sending"}
Queued == Range(batchQ) \cup Range(pending) \cup Range(batch)

\* A frame has an event, is numbered by its last one, and the session of a
\* newcomer starts at the last frame.
ShapeInv ==
  /\ \A s \in Source : Numbered(s) => record[s].seq > 0
  /\ \A r \in Queued : r.seq > 0
  /\ \A f \in Range(published) :
       f.events # <<>> /\ f.last = f.events[Len(f.events)].seq /\ f.last > 0
  /\ latest = IF published = <<>> THEN 0 ELSE published[Len(published)].last

LEMMA ShapeInit == Init => ShapeInv
  BY SmallRange DEF Init, ShapeInv, Numbered, Queued

\* What a step does to the events waiting for the batcher, and to those in it.
LEMMA QueuedSend ==
  ASSUME TypeOK, NEW s \in Source, Send(s)
  PROVE  Range(batchQ') = Range(batchQ) \cup {record[s]} /\ UNCHANGED <<pending, batch>>
  BY AppendRange DEF Send, TypeOK, batchVars

LEMMA QueuedBatch ==
  ASSUME TypeOK, BatchFirst \/ BatchMore \/ BatchOverflow
  PROVE  Queued' = Queued
<1>1. CASE BatchFirst /\ pending # <<>>
  BY <1>1, SmallRange DEF BatchFirst, Queued
<1>2. CASE pending = <<>> /\ (BatchFirst \/ BatchMore \/ BatchOverflow)
  <2>1. Range(batchQ) = Range(batchQ') \cup {Head(batchQ)} /\ Head(batchQ) \in Record
    BY <1>2, QueueRange, SeqTake DEF BatchFirst, BatchMore, BatchOverflow, MoreForBatch, TypeOK
  <2>2. CASE BatchFirst
    <3>1. batch = <<>> /\ batch' = <<Head(batchQ)>> /\ pending' = pending
      BY <1>2, <2>2 DEF BatchFirst
    <3> QED BY <2>1, <3>1, SmallRange DEF Queued
  <2>3. CASE BatchMore
    <3>1. batch' = Append(batch, Head(batchQ)) /\ pending' = pending /\ batch \in Seq(Record)
      BY <2>3 DEF BatchMore, TypeOK
    <3> QED BY <2>1, <3>1, AppendRange DEF Queued
  <2>4. CASE BatchOverflow
    <3>1. batch' = batch /\ pending' = <<Head(batchQ)>>
      BY <2>4 DEF BatchOverflow
    <3> QED BY <1>2, <2>1, <3>1, SmallRange DEF Queued
  <2> QED BY <1>2, <2>2, <2>3, <2>4
<1> QED BY <1>1, <1>2 DEF BatchMore, BatchOverflow, MoreForBatch

LEMMA ShapeNext == TypeOK /\ ShapeInv /\ [Next]_vars => ShapeInv'
<1> SUFFICES ASSUME TypeOK, ShapeInv, [Next]_vars PROVE ShapeInv'
  OBVIOUS
<1>1. ASSUME NEW s \in Source, Process(s) PROVE ShapeInv'
  <2>1. UNCHANGED <<published, latest, pending, batch>>
    BY <1>1 DEF Process, Receive, Duplicate, TakeSequence, Insert, InsertRefused, Route, Send,
                vars, batchVars, frameVars
  <2>2. \A t \in Source : Numbered(t)' =>
          (Numbered(t) /\ record'[t] = record[t]) \/ record'[t].seq = sequence + 1
    BY <1>1 DEF Process, Receive, Duplicate, TakeSequence, Insert, InsertRefused, Route, Send,
                vars, GoTo, Return, Numbered, TypeOK
  <2>3. \A t \in Source : Numbered(t)' => record'[t].seq > 0
    <3>1. sequence + 1 > 0
      BY DEF TypeOK
    <3> QED BY <2>2, <3>1 DEF ShapeInv
  <2>4. CASE Send(s)
    <3>1. Numbered(s)
      BY <2>4 DEF Send, Numbered
    <3> QED BY <2>1, <2>3, <2>4, <3>1, QueuedSend DEF ShapeInv, Queued
  <2>5. CASE ~Send(s)
    <3>1. batchQ' = batchQ
      BY <1>1, <2>5 DEF Process, Receive, Duplicate, TakeSequence, Insert, InsertRefused, Route,
                vars
    <3> QED BY <2>1, <2>3, <3>1 DEF ShapeInv, Queued
  <2> QED BY <2>4, <2>5
<1>2. CASE BatchFirst \/ BatchMore \/ BatchOverflow
  <2>1. UNCHANGED <<published, latest, step, record>>
    BY <1>2 DEF BatchFirst, BatchMore, BatchOverflow, frameVars
  <2> QED BY <1>2, <2>1, QueuedBatch DEF ShapeInv, Numbered
<1>3. CASE BatchPublish
  <2>1. UNCHANGED <<step, record, batchQ, pending>> /\ batch' = <<>>
    BY <1>3 DEF BatchPublish
  <2>2. Queued' \subseteq Queued
    BY <2>1, SmallRange DEF Queued
  <2>3. CASE UNCHANGED <<latest, published>>
    BY <2>1, <2>2, <2>3 DEF ShapeInv, Numbered
  <2>4. CASE FramePublish(EncodeFrame(batch, batchSeq + 1))
    <3> DEFINE f == EncodeFrame(batch, batchSeq + 1)
    <3>1. batch # <<>> /\ f \in Frame
      BY <1>3, EncodeType DEF BatchPublish
    <3>2. f.events # <<>> /\ f.last = f.events[Len(f.events)].seq
      BY <3>1 DEF EncodeFrame
    <3>3. f.last > 0
      BY <3>1, SeqTake DEF EncodeFrame, ShapeInv, Queued, Range, TypeOK
    <3>4. published' = Append(published, f) /\ latest' = f.last
      BY <2>4 DEF FramePublish
    <3> HIDE DEF f
    <3>5. Range(published') = Range(published) \cup {f}
      BY <3>1, <3>4, AppendRange DEF TypeOK
    <3>6. published' # <<>> /\ published'[Len(published')] = f
      <4>1. Len(published') = Len(published) + 1 /\ published'[Len(published) + 1] = f
        BY <3>1, <3>4 DEF TypeOK
      <4>2. Len(published) \in Nat
        BY DEF TypeOK
      <4> QED BY <4>1, <4>2
    <3> QED BY <2>1, <2>2, <3>2, <3>3, <3>4, <3>5, <3>6 DEF ShapeInv, Numbered
  <2> QED BY <1>3, <2>3, <2>4 DEF BatchPublish
<1>4. CASE StorageTake \/ UNCHANGED vars
  BY <1>4 DEF StorageTake, vars, hubVars, batchVars, frameVars, ShapeInv, Numbered, Queued
<1> QED BY <1>1, <1>2, <1>3, <1>4 DEF Next, Batcher

LEMMA LastEvent ==
  ASSUME TypeOK, ShapeInv, NEW f \in Range(published)
  PROVE  /\ f \in Frame /\ f.batch \in Nat /\ f.last \in Nat /\ f.last > 0
         /\ InFrame(f) \subseteq Record
         /\ f.events[Len(f.events)] \in InFrame(f) /\ f.events[Len(f.events)].seq = f.last
<1>1. f \in Frame /\ f.batch \in Nat /\ f.events \in Seq(Record) /\ f.last \in Nat
  BY FrameFields DEF TypeOK, Range
<1>2. f.events # <<>> /\ f.last = f.events[Len(f.events)].seq /\ f.last > 0
  BY DEF ShapeInv
<1>3. f.events[Len(f.events)] \in InFrame(f) /\ InFrame(f) \subseteq Record
  BY <1>1, <1>2, SeqTake DEF InFrame, Range
<1> QED BY <1>1, <1>2, <1>3

\* What the floor says of frames' ends it says of their events.
LEMMA FloorEnough == TypeOK /\ ShapeInv /\ FloorInv => ReplayFloorCovers
<1> SUFFICES ASSUME TypeOK, ShapeInv, FloorInv PROVE ReplayFloorCovers
  OBVIOUS
<1>1. Evicted \subseteq Range(published)
  <2>1. Len(published) \in Nat /\ Len(frames) \in Nat
    BY DEF TypeOK
  <2>2. \A i \in 1..(Len(published) - Len(frames)) : i \in 1..Len(published)
    BY <2>1
  <2> QED BY <2>2 DEF Evicted, Range
<1>2. ASSUME NEW f \in Evicted, NEW r \in InFrame(f)
      PROVE  r.seq <= replayFloor \/ Overtook(f, r)
  <2>1. /\ f.last \in Nat /\ r.seq \in Nat /\ replayFloor \in Nat
        /\ f.events[Len(f.events)].seq = f.last
    BY <1>1, <1>2, LastEvent, RecordFields DEF TypeOK
  <2>2. f.last <= replayFloor
    BY DEF FloorInv, FloorEnds
  <2> QED BY <2>1, <2>2 DEF Overtook
<1>3. {f.last : f \in Evicted} \subseteq {r.seq : r \in UNION {InFrame(f) : f \in Evicted}}
  <2> SUFFICES ASSUME NEW f \in Evicted
               PROVE  f.last \in {r.seq : r \in UNION {InFrame(g) : g \in Evicted}}
    OBVIOUS
  <2>1. f.events[Len(f.events)] \in InFrame(f) /\ f.events[Len(f.events)].seq = f.last
    BY <1>1, LastEvent
  <2> QED BY <2>1
<1> QED BY <1>2, <1>3 DEF FloorInv, FloorEnds, ReplayFloorCovers

\* replay_floor separates the cursors that missed an evicted event from those
\* that did not, whatever order the sources send in, but for the events that
\* overtook the end of their frame.
THEOREM ReplayFloorCoversHolds == Spec => []ReplayFloorCovers
  BY FloorEnough, FloorNext, FloorInit, ShapeInit, ShapeNext, TypeCorrect, PTL DEF Spec

-----------------------------------------------------------------------------
(* Induction. Every set of naturals that is not empty has a least element. *)

LEMMA LeastNat ==
  ASSUME NEW T, T \subseteq Nat, T # {}
  PROVE  \E x \in T : \A y \in T : x <= y
<1> DEFINE R == OpToRel(<, Nat)
<1>1. IsWellFoundedOn(R, Nat)
  BY NatLessThanWellFounded
<1>2. \A x, y \in Nat : x < y => <<x, y>> \in R
  BY DEF OpToRel
<1> HIDE DEF R
<1>3. PICK x \in T : \A y \in T : ~(<<y, x>> \in R)
  BY <1>1, WFMin
<1>4. \A y \in T : ~(y < x)
  BY <1>2, <1>3, Zenon
<1>5. \A y \in T : x <= y
  BY <1>4
<1> QED BY <1>5

\* What holds at 0 and passes from n to n + 1 holds of every n up to m.
LEMMA UptoInduction ==
  ASSUME NEW m \in Nat, NEW S, 0 \in S, \A n \in Nat : n < m /\ n \in S => n + 1 \in S
  PROVE  0..m \subseteq S
<1> DEFINE T == (0..m) \ S
<1> SUFFICES ASSUME T # {} PROVE FALSE
  OBVIOUS
<1>0. T \subseteq Nat
  OBVIOUS
<1>1. PICK x \in T : \A y \in T : x <= y
  <2> HIDE DEF T
  <2> QED BY <1>0, LeastNat
<1>2. x - 1 \in Nat /\ x - 1 < m /\ x - 1 \in S /\ (x - 1) + 1 = x
  BY <1>1
<1> QED BY <1>1, <1>2

-----------------------------------------------------------------------------
(* FrameHub::after *)

AfterStep(c, f, i) ==
  IF i = 0 THEN <<>> ELSE IF frames[i].last > c THEN Append(f[i - 1], frames[i]) ELSE f[i - 1]

\* There is a function that satisfies the recursion of After.
LEMMA AfterExists ==
  ASSUME TypeOK, NEW c
  PROVE  \E F : F = [i \in 0..Len(frames) |-> AfterStep(c, F, i)]
<1> DEFINE S == {n \in Nat : \E F : F = [i \in 0..n |-> AfterStep(c, F, i)]}
<1>1. 0 \in S
  <2> DEFINE F == [i \in 0..0 |-> <<>>]
  <2>1. \A i \in 0..0 : AfterStep(c, F, i) = <<>>
    BY DEF AfterStep
  <2>2. F = [i \in 0..0 |-> AfterStep(c, F, i)]
    BY <2>1
  <2> QED BY <2>2
<1>2. ASSUME NEW n \in Nat, n \in S PROVE n + 1 \in S
  <2>1. PICK F : F = [i \in 0..n |-> AfterStep(c, F, i)]
    BY <1>2
  <2> DEFINE G == [i \in 0..(n + 1) |-> IF i <= n THEN F[i] ELSE AfterStep(c, F, n + 1)]
  <2>2. \A i \in 0..(n + 1) : G[i] = AfterStep(c, G, i)
    <3> SUFFICES ASSUME NEW i \in 0..(n + 1) PROVE G[i] = AfterStep(c, G, i)
      OBVIOUS
    <3>1. G[i] = AfterStep(c, F, i)
      <4>1. CASE i <= n
        BY <4>1, <2>1
      <4>2. CASE i = n + 1
        BY <4>2
      <4> QED BY <4>1, <4>2
    <3>2. i # 0 => G[i - 1] = F[i - 1]
      OBVIOUS
    <3> HIDE DEF G
    <3> QED BY <3>1, <3>2 DEF AfterStep
  <2> HIDE DEF G
  <2>3. G = [i \in 0..(n + 1) |-> G[i]]
    BY DEF G
  <2>4. G = [i \in 0..(n + 1) |-> AfterStep(c, G, i)]
    BY <2>2, <2>3
  <2> QED BY <2>4
<1> HIDE DEF S
<1>3. Len(frames) \in Nat
  BY DEF TypeOK
<1>4. Len(frames) \in S
  <2>1. 0..Len(frames) \subseteq S
    BY <1>1, <1>2, <1>3, UptoInduction
  <2> QED BY <1>3, <2>1
<1> QED BY <1>4 DEF S

\* In the order of their batches.
Rising(q) == \A i, j \in 1..Len(q) : i < j => q[i].batch < q[j].batch

LEMMA RisingFrames ==
  ASSUME NEW q \in Seq(Frame), NEW x \in Frame, Rising(q), \A f \in Range(q) : f.batch < x.batch
  PROVE  Rising(Append(q, x))
<1>1. /\ Len(Append(q, x)) = Len(q) + 1 /\ Len(q) \in Nat
      /\ Append(q, x)[Len(q) + 1] = x
      /\ \A i \in 1..Len(q) : Append(q, x)[i] = q[i]
  OBVIOUS
<1>2. \A i \in 1..Len(q) : q[i].batch < x.batch
  BY DEF Range
<1> QED BY <1>1, <1>2 DEF Rising

\* batch_sequence numbers the frames.
NumberInv == Rising(published) /\ \A f \in Range(published) : f.batch <= batchSeq

LEMMA NumberInit == Init => NumberInv
  BY SmallRange DEF Init, NumberInv, Rising

LEMMA NumberNext == TypeOK /\ NumberInv /\ [Next]_vars => NumberInv'
<1> SUFFICES ASSUME TypeOK, NumberInv, [Next]_vars PROVE NumberInv'
  OBVIOUS
<1>1. CASE UNCHANGED <<published, batchSeq>>
  BY <1>1 DEF NumberInv, Rising, Range
<1>2. batchSeq \in Nat /\ \A f \in Range(published) : f.batch \in Nat /\ f.batch < batchSeq + 1
  <2>1. batchSeq \in Nat /\ \A f \in Range(published) : f.batch \in Nat
    BY FrameFields DEF TypeOK, Range
  <2>2. \A f \in Range(published) : f.batch <= batchSeq
    BY DEF NumberInv
  <2> QED BY <2>1, <2>2
<1>3. CASE published' = published /\ batchSeq' = batchSeq + 1
  BY <1>2, <1>3 DEF NumberInv, Rising, Range
<1>4. CASE BatchPublish /\ FramePublish(EncodeFrame(batch, batchSeq + 1))
  <2> DEFINE f == EncodeFrame(batch, batchSeq + 1)
  <2>1. f \in Frame /\ f.batch = batchSeq + 1
    BY <1>4, EncodeType DEF BatchPublish, EncodeFrame
  <2>2. published' = Append(published, f) /\ published \in Seq(Frame) /\ batchSeq' = batchSeq + 1
    BY <1>4 DEF FramePublish, BatchPublish, TypeOK
  <2> HIDE DEF f
  <2>3. Rising(published') /\ Range(published') = Range(published) \cup {f}
    BY <1>2, <2>1, <2>2, RisingFrames, AppendRange DEF NumberInv
  <2>4. \A g \in Range(published') : g.batch <= batchSeq'
    BY <1>2, <2>1, <2>2, <2>3
  <2> QED BY <2>3, <2>4 DEF NumberInv
<1>5. BatchPublish \/ UNCHANGED <<published, batchSeq>>
  <2>1. CASE \E s \in Source : Process(s)
    BY <2>1 DEF Process, Receive, Duplicate, TakeSequence, Insert, InsertRefused, Route, Send,
                vars, batchVars, frameVars
  <2>2. CASE StorageTake \/ BatchFirst \/ BatchMore \/ BatchOverflow \/ UNCHANGED vars
    BY <2>2 DEF StorageTake, BatchFirst, BatchMore, BatchOverflow, vars, batchVars, frameVars
  <2> QED BY <2>1, <2>2 DEF Next, Batcher
<1> QED BY <1>1, <1>3, <1>4, <1>5 DEF BatchPublish

\* after returns exactly the frames of the ring that end after c, in order.
LEMMA AfterFrames ==
  ASSUME TypeOK, NEW c \in Nat
  PROVE  /\ After(c) \in Seq(Frame)
         /\ Range(After(c)) = {f \in Range(frames) : f.last > c}
         /\ Rising(frames) => Rising(After(c))
<1> DEFINE F == CHOOSE F : F = [i \in 0..Len(frames) |-> AfterStep(c, F, i)]
           m == Len(frames)
           Of(n) == {frames[i] : i \in {j \in 1..n : frames[j].last > c}}
           S == {n \in 0..m : /\ F[n] \in Seq(Frame)
                              /\ Range(F[n]) = Of(n)
                              /\ Rising(frames) => Rising(F[n])}
<1>1. F = [i \in 0..Len(frames) |-> AfterStep(c, F, i)]
  BY AfterExists
<1>2. After(c) = F[Len(frames)]
  BY DEF After, AfterStep
<1> HIDE DEF F
<1>3. m \in Nat /\ \A i \in 1..m : frames[i] \in Frame /\ frames[i].last \in Nat /\ frames[i].batch \in Nat
  BY FrameFields DEF TypeOK
<1>4. F[0] = <<>> /\ \A i \in 1..m :
        F[i] = IF frames[i].last > c THEN Append(F[i - 1], frames[i]) ELSE F[i - 1]
  <2>1. \A i \in 0..m : F[i] = AfterStep(c, F, i)
    BY <1>1
  <2>2. 0 \in 0..m /\ \A i \in 1..m : i \in 0..m /\ i # 0
    BY <1>3
  <2> QED BY <2>1, <2>2 DEF AfterStep
<1>5. 0 \in S
  <2>1. Of(0) = {}
    OBVIOUS
  <2>2. Rising(<<>>) /\ <<>> \in Seq(Frame) /\ 0 \in 0..m
    BY <1>3 DEF Rising
  <2> QED BY <1>4, <2>1, <2>2, SmallRange
<1>6. ASSUME NEW n \in Nat, n < m, n \in S PROVE n + 1 \in S
  <2>1. n + 1 \in 1..m /\ (n + 1) - 1 = n /\ 1..(n + 1) = (1..n) \cup {n + 1}
    BY <1>3, <1>6
  <2>2. F[n] \in Seq(Frame) /\ Range(F[n]) = Of(n) /\ (Rising(frames) => Rising(F[n]))
    BY <1>6
  <2>3. CASE frames[n + 1].last > c
    <3>1. F[n + 1] = Append(F[n], frames[n + 1]) /\ frames[n + 1] \in Frame
      BY <1>3, <1>4, <2>1, <2>3
    <3>2. Of(n + 1) = Of(n) \cup {frames[n + 1]}
      BY <2>1, <2>3
    <3>3. Range(F[n + 1]) = Of(n + 1) /\ F[n + 1] \in Seq(Frame)
      <4> HIDE DEF Of
      <4>1. Range(Append(F[n], frames[n + 1])) = Range(F[n]) \cup {frames[n + 1]}
        BY <2>2, <3>1, AppendRange
      <4>2. Append(F[n], frames[n + 1]) \in Seq(Frame)
        BY <2>2, <3>1, SeqOps
      <4> QED BY <2>2, <3>1, <3>2, <4>1, <4>2
    <3>4. Rising(frames) => Rising(F[n + 1])
      <4> SUFFICES ASSUME Rising(frames) PROVE Rising(F[n + 1])
        OBVIOUS
      <4>1. \A i \in 1..n : frames[i].batch < frames[n + 1].batch
        BY <2>1, <1>3 DEF Rising
      <4>2. \A f \in Range(F[n]) : f.batch < frames[n + 1].batch
        BY <4>1, <2>2
      <4> QED BY <4>2, <2>2, <3>1, RisingFrames
    <3> QED BY <2>1, <3>3, <3>4
  <2>4. CASE ~(frames[n + 1].last > c)
    <3>1. F[n + 1] = F[n]
      BY <1>4, <2>1, <2>4
    <3>2. Of(n + 1) = Of(n)
      BY <2>1, <2>4
    <3> QED BY <2>1, <2>2, <3>1, <3>2
  <2> QED BY <2>3, <2>4
<1>7. m \in S
  <2> HIDE DEF S, m
  <2>1. 0..m \subseteq S
    BY <1>3, <1>5, <1>6, UptoInduction
  <2> QED BY <2>1, <1>3
<1>8. Of(m) = {f \in Range(frames) : f.last > c}
  BY DEF Range
<1> QED BY <1>2, <1>7, <1>8

-----------------------------------------------------------------------------
(* The session. Frames reach an edge in the order of their batches, except *)
(* after its cursor went back. What an edge received and what is on its    *)
(* way end at or before the session's cursor, unless a later frame ends    *)
(* before them; what it is owed up to the cursor it has or is on its way,  *)
(* unless it came late; and with every frame it received it has those      *)
(* owed before it. The last part is what a dropped socket leaves to resume *)
(* from: the edge's own cursor.                                            *)

\* Overtaken and Late, of a list of published frames.
OvertakenIn(pub, f) == \E g \in Range(pub) : f.batch < g.batch /\ g.last <= f.last
LateIn(pub, f) == \E g \in Range(pub) : g.batch < f.batch /\ \E r \in InFrame(g) : r.seq >= f.last

\* Frames that end one after the other.
Onward(pub, q) == \A i, j \in 1..Len(q) : i < j => OvertakenIn(pub, q[i]) \/ q[i].last < q[j].last

\* A cursor is the sequence of a published event.
Reached(pub, c) == c = 0 \/ \E g \in Range(pub) : \E r \in InFrame(g) : c = r.seq

\* The frames an edge received and those in flight, against its cursors.
FlowInv(pub, open, aft, w, cur, g) ==
  /\ open \in BOOLEAN /\ aft \in Nat /\ w \in Seq(Frame) /\ g \in Seq(Frame)
  /\ Range(g) \cup Range(w) \subseteq Range(pub)
  /\ Onward(pub, g) /\ Onward(pub, w)
  /\ \A f \in Range(g), h \in Range(w) : OvertakenIn(pub, f) \/ f.last < h.last
  /\ cur = IF g = <<>> THEN 0 ELSE EventSequence(g[Len(g)])
  /\ open => /\ Reached(pub, aft)
             /\ \A f \in Range(g) \cup Range(w) : OvertakenIn(pub, f) \/ f.last <= aft
  /\ ~open => w = <<>>

\* What is to be had of frame f, which it is owed.
Delivered(f, open, aft, w, g) ==
  /\ open /\ aft > 0 /\ f.last <= aft => f \in Range(g) \cup Range(w)
  /\ \A h \in Range(g) : f.batch < h.batch => f \in Range(g)
  /\ \A p \in 1..Len(w) : f.batch < w[p].batch => f \in Range(g) \cup {w[q] : q \in 1..(p - 1)}

OwedInv(pub, open, aft, w, g, rej, b, st) ==
  /\ rej \in BOOLEAN /\ st \in BOOLEAN /\ b \in Nat
  /\ ~st => g # <<>>
  /\ open /\ ~rej /\ aft = 0 => g = <<>> /\ w = <<>>
  /\ ~rej => \A i \in (b + 1)..Len(pub) :
               LateIn(pub, pub[i]) \/ Delivered(pub[i], open, aft, w, g)

LinkInv(e) ==
  /\ FlowInv(published, conn[e], after[e], wire[e], cursor[e], got[e])
  /\ OwedInv(published, conn[e], after[e], wire[e], got[e], rejected[e], base[e], starting[e])

\* There is a value for every edge.
LinkShape ==
  /\ DOMAIN conn = Edge /\ DOMAIN after = Edge /\ DOMAIN wire = Edge /\ DOMAIN cursor = Edge
  /\ DOMAIN rejected = Edge /\ DOMAIN got = Edge /\ DOMAIN base = Edge /\ DOMAIN starting = Edge

SessionInv == LinkShape /\ \A e \in Edge : LinkInv(e)

LEMMA SessionInit == WsInit => SessionInv
<1> SUFFICES ASSUME WsInit, NEW e \in Edge PROVE LinkShape /\ LinkInv(e)
  BY DEF SessionInv, WsInit, LinkShape
<1>1. LinkShape
  BY DEF WsInit, LinkShape
<1>2. published = <<>> /\ Len(published) = 0
  BY DEF WsInit, Init
<1>3. FlowInv(published, FALSE, 0, <<>>, 0, <<>>)
  BY SmallRange DEF FlowInv, Onward
<1>4. OwedInv(published, FALSE, 0, <<>>, <<>>, FALSE, 0, TRUE)
  BY <1>2 DEF OwedInv
<1> QED BY <1>1, <1>3, <1>4 DEF WsInit, LinkInv

\* The frames of the ring and the evicted ones.
LEMMA RingFacts ==
  ASSUME TypeOK, FloorInv, NumberInv
  PROVE  /\ Rising(frames) /\ Range(frames) \subseteq Range(published)
         /\ \A i \in 1..Len(published) :
              published[i] \in Range(frames) \/ published[i].last <= replayFloor
         /\ \A i \in (Len(published) - Len(frames) + 1)..Len(published) :
              published[i] \in Range(frames)
         /\ Len(published) \in Nat /\ Len(published) - Len(frames) \in Nat
<1> DEFINE n == Len(published)
           m == Len(frames)
<1>1. n \in Nat /\ m \in Nat /\ m <= n
  BY DEF TypeOK, FloorInv
<1>2. \A i \in 1..m : (n - m) + i \in 1..n /\ frames[i] = published[(n - m) + i]
  BY <1>1 DEF FloorInv
<1>3. Rising(frames)
  <2> SUFFICES ASSUME NEW i \in 1..m, NEW j \in 1..m, i < j PROVE frames[i].batch < frames[j].batch
    BY DEF Rising
  <2>1. (n - m) + i < (n - m) + j
    BY <1>1
  <2> QED BY <1>2, <2>1 DEF NumberInv, Rising
<1>4. Range(frames) \subseteq Range(published)
  BY <1>2 DEF Range
<1>5. \A i \in ((n - m) + 1)..n : i - (n - m) \in 1..m /\ (n - m) + (i - (n - m)) = i
  BY <1>1
<1>6. \A i \in ((n - m) + 1)..n : published[i] \in Range(frames)
  <2> SUFFICES ASSUME NEW i \in ((n - m) + 1)..n PROVE published[i] \in Range(frames)
    OBVIOUS
  <2>1. frames[i - (n - m)] = published[i] /\ i - (n - m) \in 1..m
    BY <1>2, <1>5
  <2> QED BY <2>1 DEF Range
<1>7. \A i \in 1..n : published[i] \in Range(frames) \/ published[i].last <= replayFloor
  <2>1. \A i \in 1..(n - m) : published[i].last <= replayFloor
    BY DEF FloorInv, FloorEnds, Evicted
  <2>2. \A i \in 1..n : i \in 1..(n - m) \/ i \in ((n - m) + 1)..n
    BY <1>1
  <2> QED BY <2>1, <2>2, <1>6
<1> QED BY <1>1, <1>3, <1>4, <1>6, <1>7

\* A batch number names a frame.
LEMMA OneNumber ==
  ASSUME TypeOK, NumberInv
  PROVE  \A f, g \in Range(published) : f.batch = g.batch => f = g
<1> SUFFICES ASSUME NEW i \in 1..Len(published), NEW j \in 1..Len(published),
                    published[i].batch = published[j].batch
             PROVE  published[i] = published[j]
  BY DEF Range
<1>1. i \in Nat /\ j \in Nat /\ published[i].batch \in Nat /\ published[j].batch \in Nat
  BY FrameFields DEF TypeOK
<1>2. ~(i < j) /\ ~(j < i)
  BY <1>1 DEF NumberInv, Rising
<1> QED BY <1>1, <1>2

\* A list of records that is not empty has a latest one.
LEMMA LatestRecord ==
  ASSUME NEW q \in Seq(Record), q # <<>>
  PROVE  \E i \in 1..Len(q) : \A j \in 1..Len(q) : q[j].seq <= q[i].seq
<1> DEFINE m == Len(q)
           S == {n \in 0..m : n = 0 \/ \E i \in 1..n : \A j \in 1..n : q[j].seq <= q[i].seq}
<1>1. m \in Nat /\ m # 0 /\ \A i \in 1..m : q[i].seq \in Nat
  BY RecordFields
<1>2. 0 \in S
  BY <1>1
<1>3. ASSUME NEW n \in Nat, n < m, n \in S PROVE n + 1 \in S
  <2>1. n + 1 \in 1..m /\ n + 1 \in 0..m /\ n + 1 \in 1..(n + 1)
        /\ \A j \in 1..(n + 1) : j \in 1..n \/ j = n + 1
    BY <1>1, <1>3
  <2>2. \A i \in 1..n : i \in 1..(n + 1) /\ i \in 1..m
    BY <1>1, <1>3
  <2>3. q[n + 1].seq \in Nat
    BY <1>1, <2>1
  <2>4. CASE n = 0
    <3>1. \A j \in 1..(n + 1) : j = n + 1
      BY <2>4
    <3>2. \A j \in 1..(n + 1) : q[j].seq <= q[n + 1].seq
      BY <3>1, <2>3
    <3> QED BY <2>1, <3>2
  <2>5. CASE n # 0
    <3>1. PICK i \in 1..n : \A j \in 1..n : q[j].seq <= q[i].seq
      BY <1>3, <2>5
    <3>2. i \in 1..(n + 1) /\ q[i].seq \in Nat
      BY <1>1, <2>2
    <3>3. CASE q[n + 1].seq <= q[i].seq
      <4>1. \A j \in 1..(n + 1) : q[j].seq <= q[i].seq
        BY <2>1, <3>1, <3>3
      <4> QED BY <2>1, <3>2, <4>1
    <3>4. CASE ~(q[n + 1].seq <= q[i].seq)
      <4>1. \A j \in 1..n : q[j].seq \in Nat
        BY <1>1, <2>2
      <4>2. \A j \in 1..(n + 1) : q[j].seq <= q[n + 1].seq
        BY <2>1, <2>3, <3>1, <3>2, <3>4, <4>1
      <4> QED BY <2>1, <4>2
    <3> QED BY <3>3, <3>4
  <2> QED BY <2>4, <2>5
<1>4. m \in S
  <2> HIDE DEF S, m
  <2>1. 0..m \subseteq S
    BY <1>1, <1>2, <1>3, UptoInduction
  <2> QED BY <2>1, <1>1
<1> QED BY <1>1, <1>4

\* parse_frame: the largest sequence is that of an event, and not before the
\* one the frame is numbered by.
LEMMA LargestEvent ==
  ASSUME TypeOK, ShapeInv, NEW f \in Range(published)
  PROVE  /\ EventSequence(f) \in {r.seq : r \in InFrame(f)}
         /\ EventSequence(f) \in Nat /\ f.last <= EventSequence(f) /\ EventSequence(f) > 0
<1>1. /\ f.last \in Nat /\ f.last > 0 /\ InFrame(f) \subseteq Record
      /\ f.events[Len(f.events)] \in InFrame(f) /\ f.events[Len(f.events)].seq = f.last
  BY LastEvent
<1>2. f.events \in Seq(Record) /\ f.events # <<>>
  BY LastEvent, FrameFields DEF ShapeInv
<1>3. PICK i \in 1..Len(f.events) : \A j \in 1..Len(f.events) : f.events[j].seq <= f.events[i].seq
  BY <1>2, LatestRecord
<1>4. f.events[i].seq \in {r.seq : r \in InFrame(f)} /\ \A r \in InFrame(f) : r.seq <= f.events[i].seq
  BY <1>3 DEF InFrame, Range
<1>5. /\ EventSequence(f) \in {r.seq : r \in InFrame(f)}
      /\ \A r \in InFrame(f) : r.seq <= EventSequence(f)
  BY <1>4 DEF EventSequence
<1>6. EventSequence(f) \in Nat
  BY <1>1, <1>5, RecordFields
<1>7. f.last <= EventSequence(f)
  BY <1>1, <1>5
<1> QED BY <1>1, <1>5, <1>6, <1>7

\* The last frame an edge received: no frame it received ends after it.
LEMMA LastGot ==
  ASSUME NEW pub, NEW g \in Seq(Frame), Onward(pub, g), g # <<>>
  PROVE  /\ g[Len(g)] \in Range(g)
         /\ \A f \in Range(g) : OvertakenIn(pub, f) \/ f.last <= g[Len(g)].last
<1>1. Len(g) \in Nat \ {0} /\ \A i \in 1..Len(g) : g[i].last \in Nat
  BY FrameFields
<1>2. Len(g) \in 1..Len(g) /\ \A i \in 1..Len(g) : i = Len(g) \/ i < Len(g)
  BY <1>1
<1>3. \A i \in 1..Len(g) : OvertakenIn(pub, g[i]) \/ g[i].last <= g[Len(g)].last
  BY <1>1, <1>2 DEF Onward
<1> QED BY <1>2, <1>3 DEF Range

\* The edge's cursor: a published event, no frame received ends after it, and
\* what it is owed up to it was received.
LEMMA CursorFacts ==
  ASSUME TypeOK, ShapeInv, NumberInv, NEW e \in Edge, LinkInv(e), got[e] # <<>>
  PROVE  /\ cursor[e] \in Nat /\ cursor[e] > 0 /\ Reached(published, cursor[e])
         /\ \A f \in Range(got[e]) : OvertakenIn(published, f) \/ f.last <= cursor[e]
         /\ ~rejected[e] =>
              \A i \in (base[e] + 1)..Len(published) :
                LateIn(published, published[i]) \/
                  (published[i].last <= cursor[e] => published[i] \in Range(got[e]))
<1> DEFINE k == got[e][Len(got[e])]
<1>1. /\ cursor[e] = EventSequence(k) /\ got[e] \in Seq(Frame)
      /\ Range(got[e]) \subseteq Range(published) /\ Onward(published, got[e])
  BY DEF LinkInv, FlowInv
<1>2. /\ k \in Range(got[e]) /\ k \in Range(published)
      /\ \A f \in Range(got[e]) : OvertakenIn(published, f) \/ f.last <= k.last
  BY <1>1, LastGot
<1> HIDE DEF k
<1>3. /\ cursor[e] \in {r.seq : r \in InFrame(k)} /\ cursor[e] \in Nat /\ cursor[e] > 0
      /\ k.last <= cursor[e]
  BY <1>1, <1>2, LargestEvent
<1>4. \A f \in Range(published) : f.last \in Nat /\ f.batch \in Nat
  BY LastEvent
<1>5. \A f \in Range(got[e]) : OvertakenIn(published, f) \/ f.last <= cursor[e]
  BY <1>1, <1>2, <1>3, <1>4
<1>6. Reached(published, cursor[e])
  BY <1>2, <1>3 DEF Reached
<1>7. ASSUME ~rejected[e], NEW i \in (base[e] + 1)..Len(published),
             ~LateIn(published, published[i]), published[i].last <= cursor[e]
      PROVE  published[i] \in Range(got[e])
  <2>1. base[e] \in Nat /\ Len(published) \in Nat
    BY DEF LinkInv, OwedInv, TypeOK
  <2>2. i \in 1..Len(published)
    BY <2>1
  <2>3. published[i] \in Range(published)
    BY <2>2 DEF Range
  <2>4. CASE published[i].batch < k.batch
    <3>1. Delivered(published[i], conn[e], after[e], wire[e], got[e])
      BY <1>7 DEF LinkInv, OwedInv
    <3> QED BY <3>1, <2>4, <1>2 DEF Delivered
  <2>5. CASE published[i].batch = k.batch
    BY <2>3, <2>5, <1>2, OneNumber
  <2>6. CASE k.batch < published[i].batch
    <3>1. PICK r \in InFrame(k) : cursor[e] = r.seq
      BY <1>3
    <3>2. r.seq >= published[i].last
      BY <3>1, <1>3, <1>4, <1>7, <2>3
    <3>3. LateIn(published, published[i])
      BY <3>2, <2>6, <1>2 DEF LateIn
    <3> QED BY <3>3, <1>7
  <2> QED BY <2>3, <2>4, <2>5, <2>6, <1>2, <1>4
<1> QED BY <1>3, <1>5, <1>6, <1>7

\* More published frames change nothing that was said of the ones before.
LEMMA MoreFrames ==
  ASSUME NEW pub, NEW more, Range(pub) \subseteq Range(more)
  PROVE  /\ \A f : OvertakenIn(pub, f) => OvertakenIn(more, f)
         /\ \A f : LateIn(pub, f) => LateIn(more, f)
         /\ \A c : Reached(pub, c) => Reached(more, c)
  BY DEF OvertakenIn, LateIn, Reached

\* A step of tinyuma: a new frame is late or ends after every cursor.
LEMMA LinkPublish ==
  ASSUME TypeOK, ShapeInv, NumberInv, NEW e \in Edge, LinkInv(e), [Next]_vars, UNCHANGED linkVars
  PROVE  LinkInv(e)'
<1> USE DEF linkVars
<1>1. CASE UNCHANGED published
  <2>1. \A f : InFrame(f)' = InFrame(f)
    BY DEF InFrame, Range
  <2>2. \A f : EventSequence(f)' = EventSequence(f)
    BY <2>1 DEF EventSequence
  <2> QED BY <1>1 DEF LinkInv
<1>2. CASE FramePublish(EncodeFrame(batch, batchSeq + 1)) /\ BatchPublish
  <2> DEFINE f == EncodeFrame(batch, batchSeq + 1)
             n == Len(published)
             P == published'
  <2>1. f \in Frame /\ f.batch = batchSeq + 1 /\ f.last \in Nat /\ batchSeq \in Nat
    BY <1>2, EncodeType, FrameFields DEF BatchPublish, EncodeFrame, TypeOK
  <2>2. P = Append(published, f) /\ published \in Seq(Frame)
    BY <1>2 DEF FramePublish, TypeOK
  <2> HIDE DEF f
  <2>3. /\ Range(P) = Range(published) \cup {f} /\ n \in Nat /\ Len(P) = n + 1
        /\ P[n + 1] = f /\ \A i \in 1..n : P[i] = published[i]
    <3>1. Range(Append(published, f)) = Range(published) \cup {f}
      BY <2>1, <2>2, AppendRange
    <3>2. /\ n \in Nat /\ Len(Append(published, f)) = n + 1 /\ Append(published, f)[n + 1] = f
          /\ \A i \in 1..n : Append(published, f)[i] = published[i]
      BY <2>1, <2>2
    <3> QED BY <2>2, <3>1, <3>2
  <2> HIDE DEF P
  <2>4. /\ \A g : OvertakenIn(published, g) => OvertakenIn(P, g)
        /\ \A g : LateIn(published, g) => LateIn(P, g)
        /\ \A c : Reached(published, c) => Reached(P, c)
    BY <2>3, MoreFrames
  <2>5. \A g \in Range(published) : g.batch < f.batch
    <3>1. \A g \in Range(published) : g.batch \in Nat /\ g.batch <= batchSeq
      BY LastEvent DEF NumberInv
    <3> QED BY <3>1, <2>1
  <2>6. FlowInv(P, conn[e], after[e], wire[e], cursor[e], got[e])
    <3>1. FlowInv(published, conn[e], after[e], wire[e], cursor[e], got[e])
      BY DEF LinkInv
    <3>2. Onward(P, got[e]) /\ Onward(P, wire[e])
      BY <3>1, <2>4 DEF FlowInv, Onward
    <3>3. Range(got[e]) \cup Range(wire[e]) \subseteq Range(P)
      BY <3>1, <2>3 DEF FlowInv
    <3> QED BY <3>1, <3>2, <3>3, <2>4 DEF FlowInv
  <2>7. OwedInv(P, conn[e], after[e], wire[e], got[e], rejected[e], base[e], starting[e])
    <3>1. OwedInv(published, conn[e], after[e], wire[e], got[e], rejected[e], base[e], starting[e])
      BY DEF LinkInv
    <3>2. ASSUME ~rejected[e], NEW i \in (base[e] + 1)..(n + 1), ~LateIn(P, P[i])
          PROVE  Delivered(P[i], conn[e], after[e], wire[e], got[e])
      <4>1. base[e] \in Nat
        BY <3>1 DEF OwedInv
      <4>2. CASE i = n + 1
        <5>1. P[i] = f
          BY <4>2, <2>3
        <5>2. ASSUME conn[e], after[e] > 0, f.last <= after[e] PROVE FALSE
          <6>1. after[e] \in Nat /\ Reached(published, after[e])
            BY <5>2 DEF LinkInv, FlowInv
          <6>2. PICK g \in Range(published) : \E r \in InFrame(g) : after[e] = r.seq
            BY <5>2, <6>1 DEF Reached
          <6>3. PICK r \in InFrame(g) : after[e] = r.seq
            BY <6>2
          <6>4. r.seq >= f.last
            BY <5>2, <6>1, <6>3, <2>1
          <6>5. LateIn(P, f)
            BY <6>4, <2>3, <2>5 DEF LateIn
          <6> QED BY <6>5, <5>1, <3>2
        <5>3. \A h \in Range(got[e]) \cup Range(wire[e]) : h.batch < f.batch /\ h.batch \in Nat
          BY <2>5, LastEvent DEF LinkInv, FlowInv
        <5>4. \A h \in Range(got[e]) \cup Range(wire[e]) : ~(f.batch < h.batch)
          BY <5>3, <2>1
        <5>5. \A p \in 1..Len(wire[e]) : wire[e][p] \in Range(wire[e])
          BY DEF Range
        <5> QED BY <5>1, <5>2, <5>4, <5>5 DEF Delivered
      <4>3. CASE i # n + 1
        <5>1. i \in (base[e] + 1)..n /\ i \in 1..n
          BY <4>1, <4>3, <2>3
        <5>2. P[i] = published[i]
          BY <5>1, <2>3
        <5>3. ~LateIn(published, published[i])
          BY <5>2, <3>2, <2>4
        <5> QED BY <3>1, <3>2, <5>1, <5>2, <5>3 DEF OwedInv
      <4> QED BY <4>2, <4>3
    <3> QED BY <3>1, <3>2, <2>3 DEF OwedInv
  <2> QED BY <2>6, <2>7 DEF LinkInv, P
<1> QED BY <1>1, <1>2, RingChanges

\* Dialling: the session starts at what the edge received last, or has
\* nothing to resume.
LEMMA LinkDial ==
  ASSUME TypeOK, ShapeInv, NumberInv, LinkShape, NEW e \in Edge, LinkInv(e), Dial(e)
  PROVE  LinkInv(e)'
<1>1. /\ conn'[e] = TRUE /\ after'[e] = DialFrom(e) /\ ~conn[e] /\ wire[e] = <<>> /\ wire' = wire
      /\ cursor' = cursor /\ rejected' = rejected /\ got' = got /\ starting' = starting
      /\ base'[e] = IF starting[e] THEN Len(published) ELSE base[e]
      /\ UNCHANGED <<published, latest>>
  BY DEF Dial, LinkShape, LinkInv, FlowInv, vars, frameVars
<1>2. Range(wire[e]) = {} /\ Len(wire[e]) = 0
  BY <1>1, SmallRange
<1>3. Len(published) \in Nat /\ published \in Seq(Frame)
  BY DEF TypeOK
<1>4. got[e] = <<>> => cursor[e] = 0 /\ Range(got[e]) = {}
  BY SmallRange DEF LinkInv, FlowInv
\* The newest frame.
<1>5. /\ latest \in Nat /\ Reached(published, latest)
      /\ latest = 0 => Range(published) = {}
      /\ \A f \in Range(published) : OvertakenIn(published, f) \/ f.last <= latest
  <2>1. CASE published = <<>>
    BY <2>1, SmallRange DEF ShapeInv, Reached
  <2>2. CASE published # <<>>
    <3> DEFINE k == published[Len(published)]
    <3>1. latest = k.last /\ k \in Range(published) /\ Len(published) \in 1..Len(published)
      BY <1>3, <2>2 DEF ShapeInv, Range
    <3>2. /\ k.last \in Nat /\ k.last > 0 /\ k.events[Len(k.events)] \in InFrame(k)
          /\ k.events[Len(k.events)].seq = k.last
      BY <3>1, LastEvent
    <3>3. Reached(published, k.last)
      BY <3>1, <3>2 DEF Reached
    <3>4. ASSUME NEW i \in 1..Len(published)
          PROVE  OvertakenIn(published, published[i]) \/ published[i].last <= k.last
      <4>1. published[i].last \in Nat
        BY <1>3, FrameFields
      <4>2. CASE i = Len(published)
        BY <4>1, <4>2
      <4>3. CASE i # Len(published)
        <5>1. i < Len(published)
          BY <4>3, <1>3
        <5>2. published[i].batch < k.batch
          BY <5>1, <3>1 DEF NumberInv, Rising
        <5> QED BY <5>2, <4>1, <3>1, <3>2 DEF OvertakenIn
      <4> QED BY <4>2, <4>3
    <3> HIDE DEF k
    <3> QED BY <3>1, <3>2, <3>3, <3>4 DEF Range
  <2> QED BY <2>1, <2>2
<1>6. /\ DialFrom(e) \in Nat /\ Reached(published, DialFrom(e))
      /\ \A f \in Range(got[e]) : OvertakenIn(published, f) \/ f.last <= DialFrom(e)
      /\ ~rejected[e] /\ DialFrom(e) = 0 => got[e] = <<>>
  <2>0. Range(got[e]) \subseteq Range(published) /\ got[e] \in Seq(Frame)
    BY DEF LinkInv, FlowInv
  <2>1. CASE got[e] = <<>>
    BY <2>1, <1>4, <1>5 DEF DialFrom, Reached
  <2>2. CASE got[e] # <<>> /\ ~rejected[e]
    <3>1. cursor[e] \in Nat /\ cursor[e] > 0 /\ Reached(published, cursor[e])
          /\ \A f \in Range(got[e]) : OvertakenIn(published, f) \/ f.last <= cursor[e]
      BY <2>2, CursorFacts
    <3>2. DialFrom(e) = cursor[e]
      BY <2>2, <3>1 DEF DialFrom
    <3> QED BY <3>1, <3>2
  <2>3. CASE rejected[e]
    BY <2>0, <2>3, <1>5 DEF DialFrom
  <2> QED BY <2>1, <2>2, <2>3
<1>7. FlowInv(published, TRUE, DialFrom(e), wire[e], cursor[e], got[e])
  BY <1>1, <1>2, <1>6 DEF LinkInv, FlowInv
<1>8. OwedInv(published, TRUE, DialFrom(e), wire[e], got[e], rejected[e], base'[e], starting[e])
  <2>0. /\ rejected[e] \in BOOLEAN /\ starting[e] \in BOOLEAN /\ base[e] \in Nat
        /\ ~starting[e] => got[e] # <<>>
    BY DEF LinkInv, OwedInv
  <2>1. CASE starting[e]
    <3>1. base'[e] = Len(published) /\ (base'[e] + 1)..Len(published) = {}
      BY <1>1, <1>3, <2>1
    <3> QED BY <3>1, <2>0, <2>1, <1>1, <1>3, <1>6 DEF OwedInv
  <2>2. CASE ~starting[e]
    <3>1. got[e] # <<>> /\ base'[e] = base[e]
      BY <2>0, <2>2, <1>1
    <3>2. ~rejected[e] => DialFrom(e) = cursor[e]
      BY <3>1, CursorFacts DEF DialFrom
    <3>3. ASSUME ~rejected[e], NEW i \in (base[e] + 1)..Len(published), ~LateIn(published, published[i])
          PROVE  Delivered(published[i], TRUE, DialFrom(e), wire[e], got[e])
      <4>1. published[i].last <= cursor[e] => published[i] \in Range(got[e])
        BY <3>1, <3>3, CursorFacts
      <4>2. Delivered(published[i], conn[e], after[e], wire[e], got[e])
        BY <3>3 DEF LinkInv, OwedInv
      <4> QED BY <4>1, <4>2, <3>2, <3>3 DEF Delivered
    <3> QED BY <3>1, <3>3, <2>0, <1>1, <1>6 DEF OwedInv
  <2> QED BY <2>1, <2>2
<1> QED BY <1>1, <1>7, <1>8 DEF LinkInv

\* One list of frames behind another.
LEMMA ConcatFrames ==
  ASSUME NEW p \in Seq(Frame), NEW q \in Seq(Frame)
  PROVE  /\ p \o q \in Seq(Frame) /\ Len(p) \in Nat /\ Len(q) \in Nat
         /\ Len(p \o q) = Len(p) + Len(q)
         /\ \A i \in 1..Len(p) : i \in 1..(Len(p) + Len(q)) /\ (p \o q)[i] = p[i]
         /\ \A i \in 1..Len(q) : Len(p) + i \in 1..(Len(p) + Len(q)) /\ (p \o q)[Len(p) + i] = q[i]
         /\ \A i \in 1..(Len(p) + Len(q)) : i \in 1..Len(p) \/ (i - Len(p) \in 1..Len(q)
                                                  /\ i = Len(p) + (i - Len(p)) /\ Len(p) < i)
         /\ Range(p \o q) = Range(p) \cup Range(q)
<1> DEFINE m == Len(p)
           n == Len(q)
<1>1. /\ m \in Nat /\ n \in Nat /\ Len(p \o q) = m + n /\ p \o q \in Seq(Frame)
      /\ \A i \in 1..(m + n) : (p \o q)[i] = IF i <= m THEN p[i] ELSE q[i - m]
  OBVIOUS
<1>2. \A i \in 1..m : i \in 1..(m + n) /\ (p \o q)[i] = p[i]
  BY <1>1
<1>3. \A i \in 1..n : m + i \in 1..(m + n) /\ (p \o q)[m + i] = q[i]
  BY <1>1
<1>4. \A i \in 1..(m + n) : i \in 1..m \/ (i - m \in 1..n /\ i = m + (i - m) /\ m < i)
  BY <1>1
<1>5. Range(p \o q) = Range(p) \cup Range(q)
  <2>1. Range(p) \cup Range(q) \subseteq Range(p \o q)
    <3>1. \A i \in 1..m : p[i] \in Range(p \o q)
      BY <1>1, <1>2 DEF Range
    <3>2. \A i \in 1..n : q[i] \in Range(p \o q)
      BY <1>1, <1>3 DEF Range
    <3> QED BY <3>1, <3>2 DEF Range
  <2>2. \A i \in 1..(m + n) : (p \o q)[i] \in Range(p) \cup Range(q)
    BY <1>1, <1>4 DEF Range
  <2> QED BY <1>1, <2>1, <2>2 DEF Range
<1> QED BY <1>1, <1>2, <1>3, <1>4, <1>5

LEMMA OnwardConcat ==
  ASSUME NEW pub, NEW p \in Seq(Frame), NEW q \in Seq(Frame), Onward(pub, p), Onward(pub, q),
         \A f \in Range(p), h \in Range(q) : OvertakenIn(pub, f) \/ f.last < h.last
  PROVE  Onward(pub, p \o q)
<1> DEFINE m == Len(p)
           n == Len(q)
           z == p \o q
<1>1. /\ m \in Nat /\ n \in Nat /\ Len(z) = m + n
      /\ \A i \in 1..m : z[i] = p[i]
      /\ \A i \in 1..(m + n) : i \in 1..m \/ (i - m \in 1..n /\ z[i] = q[i - m])
  <2>1. \A i \in 1..(m + n) : i - m \in 1..n /\ i = m + (i - m) => z[i] = q[i - m]
    BY ConcatFrames
  <2> QED BY <2>1, ConcatFrames
<1> HIDE DEF z
<1> SUFFICES ASSUME NEW i \in 1..(m + n), NEW j \in 1..(m + n), i < j
             PROVE  OvertakenIn(pub, z[i]) \/ z[i].last < z[j].last
  BY <1>1 DEF Onward, z
<1>2. CASE i \in 1..m /\ j \in 1..m
  BY <1>1, <1>2 DEF Onward
<1>3. CASE i \in 1..m /\ ~(j \in 1..m)
  <2>1. z[i] = p[i] /\ z[j] = q[j - m] /\ j - m \in 1..n
    BY <1>1, <1>3
  <2>2. p[i] \in Range(p) /\ q[j - m] \in Range(q)
    BY <1>3, <2>1 DEF Range
  <2> QED BY <2>1, <2>2
<1>4. CASE ~(i \in 1..m)
  <2>1. z[i] = q[i - m] /\ i - m \in 1..n /\ ~(j \in 1..m)
    BY <1>1, <1>4
  <2>2. z[j] = q[j - m] /\ j - m \in 1..n /\ i - m < j - m
    BY <1>1, <2>1
  <2> QED BY <2>1, <2>2 DEF Onward
<1> QED BY <1>2, <1>3, <1>4

\* Published frames in the order of their batches end one after the other,
\* but for the overtaken ones.
LEMMA RisingOnward ==
  ASSUME TypeOK, ShapeInv, NEW q \in Seq(Frame), Rising(q), Range(q) \subseteq Range(published)
  PROVE  Onward(published, q)
<1> SUFFICES ASSUME NEW i \in 1..Len(q), NEW j \in 1..Len(q), i < j, ~(q[i].last < q[j].last)
             PROVE  OvertakenIn(published, q[i])
  BY DEF Onward
<1>1. q[i] \in Range(published) /\ q[j] \in Range(published)
  BY DEF Range
<1>2. q[i].last \in Nat /\ q[j].last \in Nat /\ q[i].batch < q[j].batch
  BY <1>1, LastEvent DEF Rising
<1> QED BY <1>1, <1>2 DEF OvertakenIn

\* The greatest end of the frames sent.
LEMMA GreatestEnd ==
  ASSUME NEW q \in Seq(Frame), q # <<>>
  PROVE  \E f \in Range(q) : \A g \in Range(q) : g.last <= f.last
<1> DEFINE r == [i \in 1..Len(q) |-> [key |-> CHOOSE k \in Key : TRUE, seq |-> q[i].last, hit |-> TRUE]]
<1>1. Len(q) \in Nat /\ \A i \in 1..Len(q) : q[i].last \in Nat
  BY FrameFields
<1>2. \A i \in 1..Len(q) : r[i] \in Record /\ r[i].seq = q[i].last
  BY <1>1, PipelineAssumption DEF Record
<1>3. r \in Seq(Record) /\ Len(r) = Len(q) /\ r # <<>>
  <2>1. r \in [1..Len(q) -> Record]
    BY <1>2
  <2> HIDE DEF r
  <2>2. r \in Seq(Record) /\ Len(r) = Len(q)
    BY <1>1, <2>1
  <2>3. Len(q) # 0
    OBVIOUS
  <2> QED BY <2>2, <2>3
<1> HIDE DEF r
<1>4. PICK i \in 1..Len(q) : \A j \in 1..Len(q) : r[j].seq <= r[i].seq
  BY <1>3, LatestRecord
<1>5. \A j \in 1..Len(q) : q[j].last <= q[i].last
  BY <1>2, <1>4
<1> QED BY <1>5 DEF Range

\* send_available: everything after the cursor that is in the ring.
LEMMA LinkSend ==
  ASSUME TypeOK, FloorInv, ShapeInv, NumberInv, LinkShape, NEW e \in Edge, LinkInv(e),
         SendAvailable(e)
  PROVE  LinkInv(e)'
<1> DEFINE a == after[e]
           w == wire[e]
           fs == After(a)
           n == after'[e]
<1>1. /\ conn[e] /\ conn' = conn /\ ~Lagged(a) /\ fs # <<>>
      /\ wire'[e] = w \o fs
      /\ n = CHOOSE x \in {a} \cup {f.last : f \in Range(fs)} :
                \A f \in Range(fs) : f.last <= x /\ a <= x
      /\ base'[e] = IF a = 0 THEN Len(published) - Len(frames) ELSE base[e]
      /\ UNCHANGED <<published, cursor, rejected, got, starting>>
  BY DEF SendAvailable, LinkShape, vars, frameVars
<1>2. a \in Nat /\ w \in Seq(Frame) /\ got[e] \in Seq(Frame) /\ conn[e] = TRUE
      /\ Range(got[e]) \cup Range(w) \subseteq Range(published)
  BY <1>1 DEF LinkInv, FlowInv
<1>3. /\ fs \in Seq(Frame) /\ Rising(fs)
      /\ Range(fs) = {f \in Range(frames) : f.last > a}
      /\ Range(fs) \subseteq Range(published)
  BY <1>2, AfterFrames, RingFacts
<1> HIDE DEF fs, n
<1>4. \A f \in Range(published) : f.last \in Nat /\ f.last > 0 /\ f.batch \in Nat
  BY LastEvent
<1>5. \A f \in Range(fs) : a < f.last /\ f.last \in Nat
  BY <1>2, <1>3, <1>4
<1>6. /\ n \in Nat /\ a < n /\ n > 0 /\ Reached(published, n) /\ \A f \in Range(fs) : f.last <= n
  <2>1. PICK g \in Range(fs) : \A f \in Range(fs) : f.last <= g.last
    BY <1>1, <1>2, <1>3, <1>5, GreatestEnd
  <2>2. g.last \in {a} \cup {f.last : f \in Range(fs)}
    BY <2>1
  <2>3. \A f \in Range(fs) : f.last <= g.last /\ a <= g.last
    BY <2>1, <1>2, <1>5
  <2>4. /\ n \in {a} \cup {f.last : f \in Range(fs)}
        /\ \A f \in Range(fs) : f.last <= n /\ a <= n
    BY <1>1, <2>2, <2>3
  <2>5. PICK h \in Range(fs) : n = h.last
    BY <2>1, <2>4, <1>2, <1>5
  <2>6. h.events[Len(h.events)] \in InFrame(h) /\ h.events[Len(h.events)].seq = h.last
    BY <1>3, LastEvent
  <2>7. Reached(published, n)
    BY <2>5, <2>6, <1>3 DEF Reached
  <2> QED BY <2>4, <2>5, <2>7, <1>2, <1>5
<1>7. w \o fs \in Seq(Frame) /\ Range(w \o fs) = Range(w) \cup Range(fs)
  BY <1>2, <1>3, ConcatFrames
<1>8. \A f \in Range(got[e]) \cup Range(w) :
        OvertakenIn(published, f) \/ (f.last <= a /\ f.last \in Nat)
  BY <1>1, <1>2, <1>4 DEF LinkInv, FlowInv
<1>9. \A f \in Range(got[e]) \cup Range(w), h \in Range(fs) : OvertakenIn(published, f) \/ f.last < h.last
  BY <1>2, <1>5, <1>8
<1>10. FlowInv(published, TRUE, n, w \o fs, cursor[e], got[e])
  <2>1. Onward(published, w \o fs)
    <3>1. Onward(published, w)
      BY DEF LinkInv, FlowInv
    <3>2. Onward(published, fs)
      BY <1>3, RisingOnward
    <3> QED BY <3>1, <3>2, <1>2, <1>3, <1>9, OnwardConcat
  <2>2. Range(got[e]) \cup Range(w \o fs) \subseteq Range(published)
    BY <1>2, <1>3, <1>7
  <2>3. \A f \in Range(got[e]), h \in Range(w \o fs) : OvertakenIn(published, f) \/ f.last < h.last
    <3>1. \A f \in Range(got[e]), h \in Range(w) : OvertakenIn(published, f) \/ f.last < h.last
      BY DEF LinkInv, FlowInv
    <3> QED BY <3>1, <1>7, <1>9
  <2>4. \A f \in Range(got[e]) \cup Range(w \o fs) : OvertakenIn(published, f) \/ f.last <= n
    <3>1. \A f \in Range(got[e]) \cup Range(w) : OvertakenIn(published, f) \/ f.last <= n
      BY <1>2, <1>6, <1>8
    <3> QED BY <3>1, <1>6, <1>7
  <2>5. /\ Onward(published, got[e])
        /\ cursor[e] = IF got[e] = <<>> THEN 0 ELSE EventSequence(got[e][Len(got[e])])
    BY DEF LinkInv, FlowInv
  <2> QED BY <1>2, <1>6, <1>7, <2>1, <2>2, <2>3, <2>4, <2>5 DEF FlowInv
<1>11. OwedInv(published, TRUE, n, w \o fs, got[e], rejected[e], base'[e], starting[e])
  <2>0. /\ rejected[e] \in BOOLEAN /\ starting[e] \in BOOLEAN /\ base[e] \in Nat
        /\ ~starting[e] => got[e] # <<>>
        /\ ~rejected[e] /\ a = 0 => got[e] = <<>> /\ w = <<>>
    BY <1>2 DEF LinkInv, OwedInv
  <2>1. base'[e] \in Nat
    BY <1>1, <2>0, RingFacts
  <2>2. ASSUME ~rejected[e], NEW i \in (base'[e] + 1)..Len(published), ~LateIn(published, published[i])
        PROVE  Delivered(published[i], TRUE, n, w \o fs, got[e])
    <3> DEFINE f == published[i]
    <3>1. i \in 1..Len(published) /\ f \in Range(published)
      BY <2>1, RingFacts DEF Range
    <3>2. f.last \in Nat /\ f.last > 0
      BY <3>1, <1>4
    \* It is held already, or is sent now.
    <3>3. f \in Range(got[e]) \cup Range(w) \/ f \in Range(fs)
      <4>1. CASE a = 0
        <5>1. f \in Range(frames)
          BY <4>1, <1>1, <2>2, RingFacts
        <5> QED BY <4>1, <5>1, <3>2, <1>3
      <4>2. CASE a # 0 /\ f.last <= a
        <5>1. base'[e] = base[e] /\ a > 0
          BY <4>2, <1>1, <1>2
        <5>2. Delivered(f, conn[e], a, w, got[e])
          BY <5>1, <2>2 DEF LinkInv, OwedInv
        <5> QED BY <5>1, <5>2, <4>2, <1>1 DEF Delivered
      <4>3. CASE a # 0 /\ ~(f.last <= a)
        <5>1. replayFloor <= a /\ replayFloor \in Nat
          BY <1>1, <1>2, <4>3 DEF Lagged, TypeOK
        <5>2. ~(f.last <= replayFloor)
          BY <5>1, <1>2, <3>2, <4>3
        <5>3. f \in Range(frames)
          BY <5>2, <3>1, RingFacts
        <5> QED BY <5>3, <4>3, <1>2, <1>3, <3>2
      <4> QED BY <4>1, <4>2, <4>3
    \* What was said of it before is said of what it had before.
    <3>4. a = 0 \/ Delivered(f, conn[e], a, w, got[e])
      BY <1>1, <2>2 DEF LinkInv, OwedInv
    <3>5. \A h \in Range(got[e]) : f.batch < h.batch => f \in Range(got[e])
      <4>1. CASE a = 0
        BY <4>1, <2>0, <2>2, SmallRange
      <4>2. CASE a # 0
        BY <4>2, <3>4 DEF Delivered
      <4> QED BY <4>1, <4>2
    <3> HIDE DEF f
    <3>6. ASSUME NEW p \in 1..Len(w \o fs), f.batch < (w \o fs)[p].batch
          PROVE  f \in Range(got[e]) \cup {(w \o fs)[q] : q \in 1..(p - 1)}
      <4> DEFINE z == w \o fs
      <4>1. /\ Len(w) \in Nat /\ Len(fs) \in Nat /\ Len(z) = Len(w) + Len(fs)
            /\ \A q \in 1..Len(w) : z[q] = w[q]
            /\ \A q \in 1..Len(fs) : z[Len(w) + q] = fs[q]
            /\ p \in 1..Len(w) \/ (p - Len(w) \in 1..Len(fs) /\ p = Len(w) + (p - Len(w)) /\ Len(w) < p)
        BY <1>2, <1>3, ConcatFrames
      <4> HIDE DEF z
      <4>2. CASE p \in 1..Len(w)
        <5>1. a # 0
          <6>1. Len(w) # 0
            BY <4>1, <4>2
          <6> QED BY <6>1, <2>0, <2>2
        <5>2. f.batch < w[p].batch
          BY <3>6, <4>1, <4>2 DEF z
        <5>3. f \in Range(got[e]) \cup {w[q] : q \in 1..(p - 1)}
          BY <5>1, <5>2, <4>2, <3>4 DEF Delivered
        <5>4. \A q \in 1..(p - 1) : q \in 1..Len(w)
          BY <4>1, <4>2
        <5>5. \A q \in 1..(p - 1) : z[q] = w[q]
          BY <5>4, <4>1
        <5> QED BY <5>3, <5>5 DEF z
      <4>3. CASE p - Len(w) \in 1..Len(fs) /\ p = Len(w) + (p - Len(w)) /\ Len(w) < p
        <5> DEFINE k == p - Len(w)
        <5>1. k \in 1..Len(fs) /\ z[p] = fs[k] /\ f.batch < fs[k].batch
          BY <4>1, <4>3, <3>6 DEF z
        <5>2. CASE f \in Range(got[e])
          BY <5>2
        <5>3. CASE f \in Range(w)
          <6>1. PICK q \in 1..Len(w) : f = w[q]
            BY <5>3 DEF Range
          <6>2. q \in 1..(p - 1) /\ z[q] = f
            BY <6>1, <4>1, <4>3
          <6> QED BY <6>2 DEF z
        <5>4. CASE f \in Range(fs)
          <6>1. PICK q \in 1..Len(fs) : f = fs[q]
            BY <5>4 DEF Range
          <6>2. fs[q].batch \in Nat /\ fs[k].batch \in Nat
            BY <1>3, <5>1, FrameFields
          <6>3. q < k
            <7>0. fs[q].batch < fs[k].batch
              BY <5>1, <6>1
            <7>1. ~(k < q) /\ k # q
              <8>1. k < q => fs[k].batch < fs[q].batch
                BY <5>1, <6>1, <1>3 DEF Rising
              <8> HIDE DEF k
              <8> QED BY <7>0, <8>1, <6>2
            <7>2. q \in Nat /\ k \in Nat
              BY <5>1
            <7> QED BY <7>1, <7>2
          <6>4. Len(w) + q \in 1..(p - 1) /\ z[Len(w) + q] = f
            BY <6>1, <6>3, <4>1, <4>3
          <6> QED BY <6>4 DEF z
        <5> QED BY <5>2, <5>3, <5>4, <3>3 DEF f
      <4> QED BY <4>1, <4>2, <4>3
    <3>7. f \in Range(got[e]) \cup Range(w \o fs)
      BY <3>3, <1>7 DEF f
    <3> QED BY <3>5, <3>6, <3>7 DEF Delivered, f
  <2>3. n # 0
    BY <1>6
  <2> QED BY <2>0, <2>1, <2>2, <2>3 DEF OwedInv
<1> QED BY <1>1, <1>2, <1>10, <1>11 DEF LinkInv, n, fs

\* on_frame: the first frame in flight becomes the last one received.
LEMMA LinkFrame ==
  ASSUME TypeOK, ShapeInv, LinkShape, NEW e \in Edge, LinkInv(e), OnFrame(e)
  PROVE  LinkInv(e)'
<1> DEFINE w == wire[e]
           h == Head(wire[e])
           g == got[e]
           t == Tail(wire[e])
           x == Append(got[e], Head(wire[e]))
<1>1. /\ conn[e] /\ conn' = conn /\ w # <<>> /\ after' = after
      /\ wire'[e] = t /\ cursor'[e] = EventSequence(h) /\ got'[e] = x
      /\ starting'[e] = FALSE
      /\ UNCHANGED <<published, rejected, base>>
  BY DEF OnFrame, LinkShape, vars, frameVars
<1>2. /\ w \in Seq(Frame) /\ g \in Seq(Frame) /\ Onward(published, w) /\ Onward(published, g)
      /\ conn[e] = TRUE /\ Range(g) \cup Range(w) \subseteq Range(published)
      /\ \A f \in Range(g), k \in Range(w) : OvertakenIn(published, f) \/ f.last < k.last
  BY <1>1 DEF LinkInv, FlowInv
<1>3. h \in Frame /\ t \in Seq(Frame) /\ Range(w) = Range(t) \cup {h}
  BY <1>1, <1>2, SeqTake, QueueRange
<1>4. /\ Len(t) = Len(w) - 1 /\ Len(w) \in Nat \ {0} /\ h = w[1]
      /\ \A i \in 1..(Len(w) - 1) : t[i] = w[i + 1] /\ i + 1 \in 1..Len(w) /\ 1 < i + 1
      /\ 1 \in 1..Len(w)
  BY <1>1, <1>2
<1>5. /\ Len(x) = Len(g) + 1 /\ Len(g) \in Nat /\ x \in Seq(Frame) /\ x # <<>>
      /\ x[Len(x)] = h /\ \A i \in 1..Len(g) : x[i] = g[i]
  BY <1>2, <1>3
<1>6. Range(x) = Range(g) \cup {h}
  BY <1>2, <1>3, AppendRange
<1> HIDE DEF h, t, x
<1>7. Onward(published, t) /\ \A k \in Range(t) : OvertakenIn(published, h) \/ h.last < k.last
  <2>1. Onward(published, t)
    BY <1>2, <1>4 DEF Onward
  <2>2. \A i \in 1..Len(t) : OvertakenIn(published, h) \/ h.last < t[i].last
    BY <1>2, <1>4 DEF Onward
  <2> QED BY <2>1, <2>2 DEF Range
<1>8. Onward(published, x)
  <2> SUFFICES ASSUME NEW i \in 1..Len(x), NEW j \in 1..Len(x), i < j
               PROVE  OvertakenIn(published, x[i]) \/ x[i].last < x[j].last
    BY DEF Onward
  <2>1. i \in 1..Len(g) /\ x[i] = g[i] /\ g[i] \in Range(g)
    BY <1>5 DEF Range
  <2>2. CASE j \in 1..Len(g)
    BY <2>1, <2>2, <1>2, <1>5 DEF Onward
  <2>3. CASE j = Len(x)
    <3>1. x[j] = h /\ h \in Range(w)
      BY <2>3, <1>3, <1>5
    <3> QED BY <2>1, <3>1, <1>2
  <2> QED BY <2>2, <2>3, <1>5
<1>9. Range(x) \cup Range(t) = Range(g) \cup Range(w)
  BY <1>3, <1>6
<1>10. FlowInv(published, TRUE, after[e], t, cursor'[e], x)
  <2>1. /\ after[e] \in Nat /\ Reached(published, after[e])
        /\ \A f \in Range(g) \cup Range(w) : OvertakenIn(published, f) \/ f.last <= after[e]
    BY <1>1 DEF LinkInv, FlowInv
  <2>2. \A f \in Range(x), k \in Range(t) : OvertakenIn(published, f) \/ f.last < k.last
    BY <1>2, <1>3, <1>6, <1>7
  <2> QED BY <1>1, <1>2, <1>3, <1>5, <1>7, <1>8, <1>9, <2>1, <2>2 DEF FlowInv
<1>11. OwedInv(published, TRUE, after[e], t, x, rejected[e], base[e], FALSE)
  <2>1. OwedInv(published, TRUE, after[e], w, g, rejected[e], base[e], starting[e])
    BY <1>2 DEF LinkInv
  <2>2. ASSUME ~rejected[e], NEW i \in (base[e] + 1)..Len(published), ~LateIn(published, published[i])
        PROVE  Delivered(published[i], TRUE, after[e], t, x)
    <3> DEFINE f == published[i]
    <3>1. Delivered(f, TRUE, after[e], w, g)
      BY <2>1, <2>2 DEF OwedInv
    <3> HIDE DEF f
    <3>2. after[e] > 0 /\ f.last <= after[e] => f \in Range(x) \cup Range(t)
      BY <3>1, <1>9 DEF Delivered
    <3>3. \A k \in Range(x) : f.batch < k.batch => f \in Range(x)
      <4>1. f.batch < h.batch => f \in Range(g)
        <5>1. {w[q] : q \in 1..(1 - 1)} = {}
          OBVIOUS
        <5>2. f.batch < w[1].batch => f \in Range(g) \cup {w[q] : q \in 1..(1 - 1)}
          BY <3>1, <1>4 DEF Delivered
        <5> QED BY <5>1, <5>2, <1>4
      <4>2. \A k \in Range(g) : f.batch < k.batch => f \in Range(g)
        BY <3>1 DEF Delivered
      <4> QED BY <4>1, <4>2, <1>6
    <3>4. ASSUME NEW p \in 1..Len(t), f.batch < t[p].batch
          PROVE  f \in Range(x) \cup {t[q] : q \in 1..(p - 1)}
      <4>1. p + 1 \in 1..Len(w) /\ t[p] = w[p + 1] /\ p \in Nat /\ (p + 1) - 1 = p
        BY <1>4
      <4>2. f \in Range(g) \cup {w[q] : q \in 1..p}
        <5>1. f.batch < w[p + 1].batch
          BY <3>4, <4>1
        <5>2. f \in Range(g) \cup {w[q] : q \in 1..((p + 1) - 1)}
          BY <3>1, <4>1, <5>1 DEF Delivered
        <5> QED BY <4>1, <5>2
      <4>3. ASSUME NEW q \in 1..p PROVE w[q] = h \/ w[q] \in {t[r] : r \in 1..(p - 1)}
        <5>1. CASE q = 1
          BY <5>1, <1>4
        <5>2. CASE q # 1
          <6>1. q - 1 \in 1..(p - 1) /\ q - 1 \in 1..(Len(w) - 1) /\ (q - 1) + 1 = q
            <7>1. p \in Nat /\ p + 1 <= Len(w) /\ Len(w) \in Nat /\ q \in 1..p /\ q # 1
              BY <5>2, <4>1, <1>4
            <7> QED BY <7>1
          <6>2. t[q - 1] = w[q]
            BY <6>1, <1>4
          <6> QED BY <6>1, <6>2
        <5> QED BY <5>1, <5>2
      <4> QED BY <4>2, <4>3, <1>6
    <3> QED BY <3>2, <3>3, <3>4 DEF Delivered, f
  <2>3. after[e] = 0 => rejected[e]
    BY <2>1, <1>1, <1>2 DEF OwedInv
  <2>4. rejected[e] \in BOOLEAN /\ base[e] \in Nat
    BY <2>1 DEF OwedInv
  <2> QED BY <2>2, <2>3, <2>4, <1>5 DEF OwedInv
<1> QED BY <1>1, <1>2, <1>10, <1>11 DEF LinkInv

\* A refused cursor: the edge starts anew.
LEMMA LinkRefuse ==
  ASSUME LinkShape, NEW e \in Edge, LinkInv(e), RefuseCursor(e)
  PROVE  LinkInv(e)'
<1>1. /\ conn'[e] = FALSE /\ wire[e] = <<>> /\ wire' = wire /\ after'[e] = 0
      /\ rejected'[e] = TRUE /\ starting'[e] = TRUE
      /\ UNCHANGED <<published, cursor, got, base>>
  BY DEF RefuseCursor, LinkShape, vars, frameVars
<1>2. FlowInv(published, FALSE, 0, wire[e], cursor[e], got[e])
  BY <1>1 DEF LinkInv, FlowInv
<1>3. OwedInv(published, FALSE, 0, wire[e], got[e], TRUE, base[e], TRUE)
  BY DEF LinkInv, OwedInv
<1> QED BY <1>1, <1>2, <1>3 DEF LinkInv

\* A dropped socket: with what it received, the edge has what is before it.
LEMMA LinkDrop ==
  ASSUME LinkShape, NEW e \in Edge, LinkInv(e), DropSocket(e)
  PROVE  LinkInv(e)'
<1>1. /\ conn[e] /\ conn'[e] = FALSE /\ wire'[e] = <<>>
      /\ UNCHANGED <<published, after, cursor, rejected, got, base, starting>>
  BY DEF DropSocket, LinkShape, vars, frameVars
<1>2. Range(<<>>) = {} /\ <<>> \in Seq(Frame) /\ Onward(published, <<>>) /\ Len(<<>>) = 0
  BY SmallRange DEF Onward
<1>3. FlowInv(published, FALSE, after[e], <<>>, cursor[e], got[e])
  BY <1>2 DEF LinkInv, FlowInv
<1>4. OwedInv(published, FALSE, after[e], <<>>, got[e], rejected[e], base[e], starting[e])
  <2>1. \A f : Delivered(f, conn[e], after[e], wire[e], got[e])
                 => Delivered(f, FALSE, after[e], <<>>, got[e])
    BY <1>2 DEF Delivered
  <2> QED BY <2>1 DEF LinkInv, OwedInv
<1> QED BY <1>1, <1>3, <1>4 DEF LinkInv

\* Every step of the link keeps what is said of every edge.
LEMMA SessionNext ==
  ASSUME TypeOK, FloorInv, ShapeInv, NumberInv, SessionInv, [WsNext]_wsVars
  PROVE  SessionInv'
<1>1. LinkShape'
  BY DEF SessionInv, LinkShape, WsNext, wsVars, linkVars, Dial, Link, SendAvailable, OnFrame, RefuseCursor,
         DropSocket
<1>2. CASE [Next]_vars /\ UNCHANGED linkVars
  BY <1>1, <1>2, LinkPublish DEF SessionInv
<1>3. ASSUME NEW e \in Edge, Dial(e) \/ Link(e) \/ DropSocket(e) PROVE SessionInv'
  <2> SUFFICES ASSUME NEW d \in Edge PROVE LinkInv(d)'
    BY <1>1 DEF SessionInv
  <2>2. LinkShape /\ LinkInv(d)
    BY DEF SessionInv
  <2>3. CASE d = e
    BY <1>3, <2>2, <2>3, LinkDial, LinkSend, LinkFrame, LinkRefuse, LinkDrop DEF Link
  <2>4. CASE d # e
    <3>1. /\ conn'[d] = conn[d] /\ after'[d] = after[d] /\ wire'[d] = wire[d]
          /\ cursor'[d] = cursor[d] /\ rejected'[d] = rejected[d] /\ got'[d] = got[d]
          /\ base'[d] = base[d] /\ starting'[d] = starting[d]
          /\ UNCHANGED published
      BY <1>3, <2>2, <2>4 DEF LinkShape, Dial, Link, SendAvailable, OnFrame, RefuseCursor, DropSocket,
                              vars, frameVars
    <3> QED BY <2>2, <3>1 DEF LinkInv
  <2> QED BY <2>3, <2>4
<1> QED BY <1>2, <1>3 DEF WsNext, wsVars

\* What the invariant says of an edge.
LEMMA NoFrameTwiceEnough ==
  ASSUME SessionInv
  PROVE  NoFrameTwice
<1> SUFFICES ASSUME NEW e \in Edge, NEW i \in 1..Len(got[e]), NEW j \in 1..Len(got[e]), i # j,
                    got[e][i] = got[e][j]
             PROVE  Overtaken(got[e][i])
  BY DEF NoFrameTwice
<1>1. Onward(published, got[e]) /\ got[e] \in Seq(Frame)
  BY DEF SessionInv, LinkInv, FlowInv
<1>2. got[e][i].last \in Nat /\ got[e][j].last \in Nat /\ i \in Nat /\ j \in Nat
  BY <1>1, FrameFields
<1>3. i < j \/ j < i
  BY <1>2
<1>4. OvertakenIn(published, got[e][i])
  BY <1>1, <1>2, <1>3 DEF Onward
<1> QED BY <1>4 DEF Overtaken, OvertakenIn

LEMMA NoSilentLossEnough ==
  ASSUME TypeOK, FloorInv, ShapeInv, NumberInv, SessionInv
  PROVE  NoSilentLoss
<1> SUFFICES ASSUME NEW e \in Edge, ~rejected[e], conn[e] \/ ~starting[e], ResumePoint(e) > 0,
                    ~Lagged(ResumePoint(e)), NEW i \in (base[e] + 1)..Len(published),
                    ~Late(published[i])
             PROVE  published[i] \in Range(got[e]) \cup Range(wire[e])
                                     \cup Range(After(ResumePoint(e)))
  BY DEF NoSilentLoss, NothingMissed
<1> DEFINE at == ResumePoint(e)
           f == published[i]
<1>1. LinkInv(e) /\ ~LateIn(published, f)
  BY DEF SessionInv, Late, LateIn
<1>2. base[e] \in Nat /\ Len(published) \in Nat
  BY <1>1, RingFacts DEF LinkInv, OwedInv
<1>3. i \in 1..Len(published)
  BY <1>2
<1>4. f \in Range(published) /\ f.last \in Nat
  <2>1. f \in Range(published)
    BY <1>3 DEF Range
  <2> QED BY <2>1, LastEvent
<1>5. at \in Nat /\ (f.last <= at => f \in Range(got[e]) \cup Range(wire[e]))
  <2>1. CASE conn[e]
    <3>1. at = after[e] /\ after[e] \in Nat
      BY <2>1, <1>1 DEF ResumePoint, LinkInv, FlowInv
    <3>2. Delivered(f, conn[e], after[e], wire[e], got[e])
      BY <1>1 DEF LinkInv, OwedInv
    <3> QED BY <2>1, <3>1, <3>2 DEF Delivered
  <2>2. CASE ~conn[e]
    <3>1. got[e] # <<>>
      BY <2>2, <1>1 DEF LinkInv, OwedInv
    <3>2. cursor[e] \in Nat /\ cursor[e] > 0 /\ (f.last <= cursor[e] => f \in Range(got[e]))
      BY <3>1, <1>1, CursorFacts
    <3>3. at = cursor[e]
      BY <2>2, <3>2 DEF ResumePoint, DialFrom
    <3> QED BY <3>2, <3>3
  <2> QED BY <2>1, <2>2
<1> HIDE DEF at
<1>6. CASE ~(f.last <= at)
  <2>1. replayFloor \in Nat /\ replayFloor <= at
    BY <1>5 DEF Lagged, TypeOK, at
  <2>2. f \in Range(frames)
    BY <2>1, <1>3, <1>4, <1>5, <1>6, RingFacts
  <2>3. f.last > at
    BY <1>4, <1>5, <1>6
  <2>4. Range(After(at)) = {g \in Range(frames) : g.last > at}
    BY <1>5, AfterFrames
  <2> QED BY <2>2, <2>3, <2>4 DEF at
<1> QED BY <1>5, <1>6

\* A session contains the pipeline.
LEMMA PipelineInSession == WsSpec => Spec
<1>1. WsInit => Init
  BY DEF WsInit
<1>2. [WsNext]_wsVars => [Next]_vars
  BY DEF WsNext, wsVars, Dial, Link, SendAvailable, OnFrame, RefuseCursor, DropSocket
<1> QED BY <1>1, <1>2, PTL DEF WsSpec, Spec

\* What holds of the pipeline and of the session in every state.
LEMMA SessionInvariant == WsSpec => [](TypeOK /\ FloorInv /\ ShapeInv /\ NumberInv /\ SessionInv)
<1>1. TypeOK /\ FloorInv /\ ShapeInv /\ NumberInv /\ SessionInv /\ [WsNext]_wsVars => SessionInv'
  BY SessionNext
<1>2. Spec => []FloorInv
  BY TypeCorrect, FloorInit, FloorNext, PTL DEF Spec
<1>3. Spec => []ShapeInv
  BY TypeCorrect, ShapeInit, ShapeNext, PTL DEF Spec
<1>4. Spec => []NumberInv
  BY TypeCorrect, NumberInit, NumberNext, PTL DEF Spec
<1> QED BY <1>1, <1>2, <1>3, <1>4, TypeCorrect, PipelineInSession, SessionInit, PTL DEF WsSpec

\* No edge receives a frame twice, however many sources there are and however
\* often sockets drop with frames in flight and cursors are refused, but for
\* a frame that a later one ends before.
THEOREM NoFrameTwiceHolds == WsSpec => []NoFrameTwice
<1>1. TypeOK /\ FloorInv /\ ShapeInv /\ NumberInv /\ SessionInv => NoFrameTwice
  BY NoFrameTwiceEnough
<1> QED BY <1>1, SessionInvariant, PTL

\* An edge that was never refused loses no frame that did not come late: what
\* it is owed it has, is on its way to it, or is in the ring after its cursor;
\* otherwise the cursor is refused.
THEOREM NoSilentLossHolds == WsSpec => []NoSilentLoss
<1>1. TypeOK /\ FloorInv /\ ShapeInv /\ NumberInv /\ SessionInv => NoSilentLoss
  BY NoSilentLossEnough
<1> QED BY <1>1, SessionInvariant, PTL
=============================================================================
