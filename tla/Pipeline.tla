------------------------------ MODULE Pipeline ------------------------------
(***************************************************************************)
(* The event path of tinyuma, from a decoded log to a broadcast frame:     *)
(*                                                                         *)
(*   Processor::process  (src/src/pipeline.rs)  one task per log source    *)
(*   EventHub            (src/src/hub.rs)       dedup ring                 *)
(*   run_batcher         (src/src/pipeline.rs)  groups events into frames  *)
(*   encode_frame        (src/src/wire.rs)      numbers a frame            *)
(*   FrameHub::publish   (src/src/hub.rs)       replay ring                *)
(*                                                                         *)
(* The tasks run on a multi-threaded runtime, so `process' is split where  *)
(* another thread can get in between: after the `contains' test, after the *)
(* sequence is taken, after `insert', and at the awaited channel send.     *)
(* Counters and logging are left out; an event is its key, the sequence it *)
(* was given and whether the catalog resolved it.                          *)
(***************************************************************************)
EXTENDS Naturals, Sequences, FiniteSets

CONSTANTS
  Source,          \* tasks that call process: live racers, back-fill, gap-fill
  Key,             \* event keys (transaction hash, log index, removed)
  Size,            \* Size[k]: encoded length of the event with key k
  Capacity,        \* event_ring_capacity
  FrameCapacity,   \* frame_ring_capacity
  QueueCapacity,   \* live_buffer: capacity of both channels
  BatchMaxEvents,  \* batch_max_events
  BatchMaxBytes,   \* batch_max_bytes
  MaxFrameBytes,   \* max_decompressed_bytes
  Loaded,          \* the records main.rs read back from the journal
  Recovered,       \* those that EventHub::insert took, in order
  MaxSequence      \* bound: no sequence above it is taken

Record == [key : Key, seq : Nat, hit : BOOLEAN]

ASSUME PipelineAssumption ==
  /\ Key # {}
  /\ Size \in [Key -> Nat]
  /\ Capacity \in Nat \ {0}
  /\ FrameCapacity \in Nat \ {0}
  /\ QueueCapacity \in Nat \ {0}
  /\ BatchMaxEvents \in Nat \ {0}
  /\ BatchMaxBytes \in Nat
  /\ MaxFrameBytes \in Nat
  /\ MaxSequence \in Nat

\* What EventHub::insert leaves behind: no key twice, no sequence twice.
ASSUME RecoveredAssumption ==
  /\ Loaded \subseteq Record
  /\ Recovered \in Seq(Record)
  /\ \A i \in 1..Len(Recovered) : Recovered[i] \in Loaded
  /\ Len(Recovered) <= Capacity
  /\ \A i, j \in 1..Len(Recovered) :
       i # j => /\ Recovered[i].key # Recovered[j].key
                /\ Recovered[i].seq # Recovered[j].seq

VARIABLES
  sequence,     \* Processor.sequence: the last sequence handed out
  step,         \* step[s]: where source s is inside process
  record,       \* record[s]: the record source s is working on
  events,       \* EventHub: the dedup ring, oldest first
  keys,         \* EventHub: the key index of that ring
  storageQ,     \* storage channel
  batchQ,       \* batch channel
  batch,        \* run_batcher: the batch being filled
  batchBytes,   \* run_batcher: estimated_bytes
  pending,      \* run_batcher: the event that did not fit, as a sequence of at most one
  batchSeq,     \* run_batcher: batch_sequence
  frames,       \* FrameHub: the replay ring, oldest first
  replayFloor,  \* FrameHub: replay_floor
  latest,       \* FrameHub: latest_tx
  accepted,     \* history: every record EventHub::insert took, in order
  published,    \* history: every frame given to FrameHub::publish, in order
  dropped       \* history: the batches encode_frame refused

hubVars   == <<events, keys, accepted>>
batchVars == <<batch, batchBytes, pending, batchSeq>>
frameVars == <<frames, replayFloor, latest, published, dropped>>
vars == <<sequence, step, record, hubVars, storageQ, batchQ, batchVars, frameVars>>

NoRecord == [key |-> CHOOSE k \in Key : TRUE, seq |-> 0, hit |-> FALSE]
Frame    == [batch : Nat, events : Seq(Record), last : Nat]

\* The counter and the floor are taken from all records read back, those that
\* insert refused included; the floor passes over what the forfeit list held.
Init ==
  /\ sequence \in {0} \cup {r.seq : r \in Loaded}
  /\ \A r \in Loaded : r.seq <= sequence
  /\ step = [s \in Source |-> "idle"]
  /\ record = [s \in Source |-> NoRecord]
  /\ events = Recovered
  /\ keys = {Recovered[i].key : i \in 1..Len(Recovered)}
  /\ storageQ = <<>>
  /\ batchQ = <<>>
  /\ batch = <<>> /\ batchBytes = 0 /\ pending = <<>> /\ batchSeq = 0
  /\ frames = <<>>
  /\ replayFloor \in {0} \cup {r.seq : r \in {l \in Loaded : l.hit}}
  /\ latest = 0
  /\ accepted = Recovered /\ published = <<>> /\ dropped = {}

-----------------------------------------------------------------------------
(* Processor::process, one action per section no other task can split.     *)

GoTo(s, label) == step' = [step EXCEPT ![s] = label]

Return(s)      == GoTo(s, "idle") /\ record' = [record EXCEPT ![s] = NoRecord]

\* Sources between the dedup test and taking a sequence.
Numbering == {s \in Source : step[s] = "resolved"}

\* The log decodes, its key is not in the ring; the catalog is asked.
Receive(s, k) ==
  /\ step[s] = "idle"
  /\ k \notin keys
  /\ sequence + Cardinality(Numbering) < MaxSequence
  /\ \E hit \in BOOLEAN :
       record' = [record EXCEPT ![s] = [key |-> k, seq |-> 0, hit |-> hit]]
  /\ GoTo(s, "resolved")
  /\ UNCHANGED <<sequence, hubVars, storageQ, batchQ, batchVars, frameVars>>

\* A log whose key is already in the ring is only counted.
Duplicate(s, k) ==
  /\ step[s] = "idle"
  /\ k \in keys
  /\ UNCHANGED vars

\* Mutant: the sequence is loaded and not advanced.
TakeSequence_LoadOnly(s) ==
  /\ step[s] = "resolved"
  /\ record' = [record EXCEPT ![s] = [key |-> @.key, seq |-> sequence + 1, hit |-> @.hit]]
  /\ GoTo(s, "numbered")
  /\ UNCHANGED <<sequence, hubVars, storageQ, batchQ, batchVars, frameVars>>

\* sequence.fetch_add(1) + 1
TakeSequence(s) ==
  /\ step[s] = "resolved"
  /\ sequence' = sequence + 1
  /\ record' = [record EXCEPT ![s] = [key |-> @.key, seq |-> sequence + 1, hit |-> @.hit]]
  /\ GoTo(s, "numbered")
  /\ UNCHANGED <<hubVars, storageQ, batchQ, batchVars, frameVars>>

\* Mutant: insert trusts the earlier contains and does not test the key again.
Insert_Unchecked(s) ==
  LET r == record[s]
      full == Len(events) >= Capacity
  IN
  /\ step[s] = "numbered"
  /\ events' = Append(IF full THEN Tail(events) ELSE events, r)
  /\ keys' = (IF full THEN (keys \cup {r.key}) \ {Head(events).key}
                      ELSE keys \cup {r.key})
  /\ accepted' = Append(accepted, r)
  /\ GoTo(s, "inserted")
  /\ UNCHANGED <<sequence, record, storageQ, batchQ, batchVars, frameVars>>

\* EventHub::insert under its write lock: the ring keeps its newest records
\* and the index forgets the evicted key.
Insert(s) ==
  LET r == record[s]
      full == Len(events) >= Capacity
  IN
  /\ step[s] = "numbered"
  /\ r.key \notin keys
  /\ events' = Append(IF full THEN Tail(events) ELSE events, r)
  /\ keys' = (IF full THEN (keys \cup {r.key}) \ {Head(events).key}
                      ELSE keys \cup {r.key})
  /\ accepted' = Append(accepted, r)
  /\ GoTo(s, "inserted")
  /\ UNCHANGED <<sequence, record, storageQ, batchQ, batchVars, frameVars>>

\* Another source inserted the same key first: the sequence is wasted.
InsertRefused(s) ==
  /\ step[s] = "numbered"
  /\ record[s].key \in keys
  /\ Return(s)
  /\ UNCHANGED <<sequence, hubVars, storageQ, batchQ, batchVars, frameVars>>

\* storage_tx.try_send drops the command when the channel is full. Then only
\* a resolved event that no forfeited match claims goes on to the batcher.
Route(s) ==
  /\ step[s] = "inserted"
  /\ storageQ' = IF Len(storageQ) < QueueCapacity
                 THEN Append(storageQ, record[s]) ELSE storageQ
  /\ \/ record[s].hit /\ GoTo(s, "sending") /\ UNCHANGED record
     \/ Return(s)   \* a catalog miss, or a resolved event on the forfeit list
  /\ UNCHANGED <<sequence, hubVars, batchQ, batchVars, frameVars>>

\* batch_tx.send(record).await: waits while the channel is full.
Send(s) ==
  /\ step[s] = "sending"
  /\ Len(batchQ) < QueueCapacity
  /\ batchQ' = Append(batchQ, record[s])
  /\ Return(s)
  /\ UNCHANGED <<sequence, hubVars, storageQ, batchVars, frameVars>>

\* The storage writer takes a command (what it does with it: module Journal).
StorageTake ==
  /\ storageQ # <<>>
  /\ storageQ' = Tail(storageQ)
  /\ UNCHANGED <<sequence, step, record, hubVars, batchQ, batchVars, frameVars>>

-----------------------------------------------------------------------------
(* run_batcher: the first event of a batch, those try_recv finds, the      *)
(* event that overflows the batch, and the frame.                          *)

\* Mutant: the pending event is copied, not taken.
BatchFirst_PendingKept ==
  /\ batch = <<>>
  /\ \/ /\ pending # <<>>
        /\ batch' = pending /\ batchBytes' = Size[pending[1].key]
        /\ UNCHANGED <<pending, batchQ>>
     \/ /\ pending = <<>> /\ batchQ # <<>>
        /\ batch' = <<Head(batchQ)>> /\ batchBytes' = Size[Head(batchQ).key]
        /\ batchQ' = Tail(batchQ)
        /\ UNCHANGED pending
  /\ UNCHANGED <<sequence, step, record, hubVars, storageQ, batchSeq, frameVars>>

BatchFirst ==
  /\ batch = <<>>
  /\ \/ /\ pending # <<>>
        /\ batch' = pending /\ batchBytes' = Size[pending[1].key]
        /\ pending' = <<>>
        /\ UNCHANGED batchQ
     \/ /\ pending = <<>> /\ batchQ # <<>>
        /\ batch' = <<Head(batchQ)>> /\ batchBytes' = Size[Head(batchQ).key]
        /\ batchQ' = Tail(batchQ)
        /\ UNCHANGED pending
  /\ UNCHANGED <<sequence, step, record, hubVars, storageQ, batchSeq, frameVars>>

\* The loop condition, with an event for try_recv to return.
MoreForBatch ==
  /\ batch # <<>> /\ pending = <<>>
  /\ Len(batch) < BatchMaxEvents
  /\ batchQ # <<>>

Fits(r) == batchBytes + Size[r.key] <= BatchMaxBytes

BatchMore ==
  /\ MoreForBatch
  /\ Fits(Head(batchQ))
  /\ batch' = Append(batch, Head(batchQ))
  /\ batchBytes' = batchBytes + Size[Head(batchQ).key]
  /\ batchQ' = Tail(batchQ)
  /\ UNCHANGED <<sequence, step, record, hubVars, storageQ, pending, batchSeq, frameVars>>

\* Mutant: the event that does not fit is not kept for the next batch.
BatchOverflow_Lost ==
  /\ MoreForBatch
  /\ ~Fits(Head(batchQ))
  /\ batchQ' = Tail(batchQ)
  /\ UNCHANGED <<sequence, step, record, hubVars, storageQ, batchVars, frameVars>>

BatchOverflow ==
  /\ MoreForBatch
  /\ ~Fits(Head(batchQ))
  /\ pending' = <<Head(batchQ)>>
  /\ batchQ' = Tail(batchQ)
  /\ UNCHANGED <<sequence, step, record, hubVars, storageQ, batch, batchBytes, batchSeq,
                 frameVars>>

\* encode_frame: the frame is numbered by its last event.
EncodeFrame(b, n) == [batch |-> n, events |-> b, last |-> b[Len(b)].seq]

MaxOf(a, b) == IF a >= b THEN a ELSE b

\* Mutant: the floor follows the evicted frame, down as well as up.
FramePublish_FloorFollows(f) ==
  LET full == Len(frames) >= FrameCapacity IN
  /\ frames' = Append(IF full THEN Tail(frames) ELSE frames, f)
  /\ replayFloor' = IF full THEN Head(frames).last ELSE replayFloor
  /\ latest' = f.last
  /\ published' = Append(published, f)

\* FrameHub::publish: push, evict the oldest and raise the floor, notify.
FramePublish(f) ==
  LET full == Len(frames) >= FrameCapacity IN
  /\ frames' = Append(IF full THEN Tail(frames) ELSE frames, f)
  /\ replayFloor' = IF full THEN MaxOf(replayFloor, Head(frames).last) ELSE replayFloor
  /\ latest' = f.last
  /\ published' = Append(published, f)

\* The batch is closed; one that encodes beyond the limit is logged and lost.
BatchPublish ==
  /\ batch # <<>>
  /\ ~MoreForBatch
  /\ batchSeq' = batchSeq + 1
  /\ batch' = <<>> /\ batchBytes' = 0
  /\ \/ /\ batchBytes <= MaxFrameBytes
        /\ FramePublish(EncodeFrame(batch, batchSeq + 1))
        /\ UNCHANGED dropped
     \/ /\ batchBytes > MaxFrameBytes
        /\ dropped' = dropped \cup {batch}
        /\ UNCHANGED <<frames, replayFloor, latest, published>>
  /\ UNCHANGED <<sequence, step, record, hubVars, storageQ, batchQ, pending>>

-----------------------------------------------------------------------------
Process(s) == \/ \E k \in Key : Receive(s, k) \/ Duplicate(s, k)
              \/ TakeSequence(s) \/ Insert(s) \/ InsertRefused(s) \/ Route(s) \/ Send(s)
Batcher    == BatchFirst \/ BatchMore \/ BatchOverflow \/ BatchPublish
Next       == (\E s \in Source : Process(s)) \/ StorageTake \/ Batcher

\* A spawned task that can run eventually does; the storage writer is left
\* out: nothing here may depend on the disk making progress.
Fairness ==
  /\ \A s \in Source : WF_vars(TakeSequence(s) \/ Insert(s) \/ InsertRefused(s) \/ Route(s))
  /\ \A s \in Source : SF_vars(Send(s))
  /\ WF_vars(Batcher)

Spec     == Init /\ [][Next]_vars
FairSpec == Spec /\ Fairness
-----------------------------------------------------------------------------
(* Properties                                                              *)

Range(q)   == {q[i] : i \in 1..Len(q)}
InFrame(f) == Range(f.events)

\* Every variable keeps the shape process, the hubs and the batcher give it.
TypeOK ==
  /\ sequence \in Nat
  /\ step \in [Source -> {"idle", "resolved", "numbered", "inserted", "sending"}]
  /\ record \in [Source -> Record]
  /\ events \in Seq(Record) /\ keys \subseteq Key
  /\ storageQ \in Seq(Record) /\ batchQ \in Seq(Record)
  /\ batch \in Seq(Record) /\ pending \in Seq(Record)
  /\ batchBytes \in Nat /\ batchSeq \in Nat
  /\ frames \in Seq(Frame) /\ replayFloor \in Nat /\ latest \in Nat
  /\ accepted \in Seq(Record) /\ published \in Seq(Frame)
  /\ dropped \subseteq Seq(Record)

\* Dedup window (EventHub): whichever sources race on a log, the same key is
\* accepted again only after more than Capacity later acceptances, that is
\* once insert has really evicted it.
DedupWindow ==
  \A i, j \in 1..Len(accepted) :
    (i < j /\ accepted[i].key = accepted[j].key) => j - i > Capacity

\* Two sources that took a sequence concurrently, or wasted one on a lost
\* insert, never leave two accepted events with one sequence.
DistinctSequences ==
  \A i, j \in 1..Len(accepted) : i # j => accepted[i].seq # accepted[j].seq

\* A frame carries accepted, resolved events only, and no event is carried
\* twice, neither in one frame nor in two.
BroadcastOnce ==
  /\ \A f \in Range(published) :
       \A r \in InFrame(f) : r.hit /\ r \in Range(accepted)
  /\ \A m, n \in 1..Len(published) :
       \A i \in 1..Len(published[m].events), j \in 1..Len(published[n].events) :
         published[m].events[i] = published[n].events[j] => m = n /\ i = j

\* An event that the last one of its frame had its sequence before: the two
\* sources sent in the other order than they were numbered.
Overtook(f, r) == r.seq > f.events[Len(f.events)].seq

\* replay_floor is the highest sequence that can no longer be replayed, as its
\* comment says: no evicted event is above it, so a cursor at or past it
\* missed none, except an event that overtook the end of its frame; and a
\* floor that rose since start is the sequence of an evicted event, so a
\* cursor below it did miss one.
Evicted == {published[i] : i \in 1..(Len(published) - Len(frames))}
ReplayFloorCovers ==
  /\ \A f \in Evicted : \A r \in InFrame(f) : r.seq <= replayFloor \/ Overtook(f, r)
  /\ replayFloor > 0 => replayFloor \in {r.seq : r \in UNION {InFrame(f) : f \in Evicted}}
                                         \cup {r.seq : r \in Loaded}

\* What is on its way to the batcher is not lost on a full or stalled storage
\* channel, nor behind another source: it reaches a frame, or is the
\* oversized event encode_frame refuses, which costs no other event its
\* broadcast, because the batcher closes a batch in time.
Broadcast(n) == \/ \E f \in Range(published) : \E r \in InFrame(f) : r.seq = n
                \/ \E b \in dropped : Len(b) = 1 /\ b[1].seq = n
SentIsBroadcast ==
  \A n \in 1..MaxSequence :
    (\E s \in Source : step[s] = "sending" /\ record[s].seq = n) ~> Broadcast(n)

\* Mutant: off by one at the floor.
Lagged_OffByOne(c) == c > 0 /\ c + 1 < replayFloor

\* FrameHub::after(c): refused below the floor, otherwise the frames whose
\* last event is after c.
Lagged(c)  == c > 0 /\ c < replayFloor
After(c)   ==
  LET Upto[i \in 0..Len(frames)] ==
        IF i = 0 THEN <<>>
        ELSE IF frames[i].last > c THEN Append(Upto[i - 1], frames[i]) ELSE Upto[i - 1]
  IN  Upto[Len(frames)]
=============================================================================
