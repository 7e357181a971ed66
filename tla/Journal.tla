------------------------------- MODULE Journal -------------------------------
(***************************************************************************)
(* The event journal of tinyuma across crashes and restarts: the writer    *)
(* task run_storage_writer with Journal::append, flush and rewrite, the    *)
(* reader Storage::load_events (src/src/storage.rs), and the recovery of   *)
(* the dedup ring and the sequence counter in run (src/src/main.rs).       *)
(*                                                                         *)
(* Sources number and insert events as in module Pipeline; here numbering  *)
(* is one step, and insert with the offer to the storage channel another.  *)
(* The file is a sequence of entries; an entry that a crash cut short is   *)
(* Torn, and the reader stops at it.                                       *)
(***************************************************************************)
EXTENDS Naturals, Sequences, FiniteSets

CONSTANTS
  Source,         \* tasks that number and insert events
  Key,            \* event keys
  Capacity,       \* event_ring_capacity
  QueueCapacity,  \* live_buffer: capacity of the storage channel
  Torn,           \* the entry a crash cut short
  MaxBoots,       \* bound: how often the process is restarted
  MaxSequence     \* bound: no sequence above MaxSequence[b] is taken after b restarts

ASSUME JournalAssumption ==
  /\ Capacity \in Nat \ {0}
  /\ QueueCapacity \in Nat \ {0}
  /\ MaxBoots \in Nat
  /\ MaxSequence \in [0..MaxBoots -> Nat]

Record == [key : Key, seq : Nat]
ASSUME TornAssumption == Torn \notin Record

VARIABLES
  up,        \* the process is running
  sequence,  \* Processor.sequence
  taken,     \* taken[s]: the record s numbered and has not inserted, at most one
  ring,      \* EventHub: the dedup ring
  queue,     \* storage channel
  file,      \* events.wal after its magic
  buffer,    \* BufWriter of the journal
  records,   \* Journal.records
  boots,
  durable,   \* history: the newest sequence a flush or a rewrite put on disk
  tore       \* history: a crash cut an entry short

diskVars    == <<file, durable, tore>>
runVars     == <<sequence, taken, ring, queue, buffer, records>>
journalVars == <<up, runVars, boots, diskVars>>

Entries(q)  == {q[i] : i \in 1..Len(q)}
Keys(q)     == {r.key : r \in Entries(q)}
Newer(a, b) == IF a >= b THEN a ELSE b
MaxSeq(S)   == CHOOSE n \in {0} \cup {r.seq : r \in S} : \A r \in S : r.seq <= n
Last(q, n)  == IF Len(q) <= n THEN q ELSE SubSeq(q, Len(q) - n + 1, Len(q))

JournalInit ==
  /\ up = TRUE /\ sequence = 0 /\ boots = 0
  /\ taken = [s \in Source |-> <<>>]
  /\ ring = <<>> /\ queue = <<>> /\ buffer = <<>> /\ records = 0
  /\ file = <<>> /\ durable = 0 /\ tore = FALSE

-----------------------------------------------------------------------------
(* Processor::process, as far as the journal sees it *)

Number(s, k) ==
  /\ up /\ taken[s] = <<>> /\ sequence < MaxSequence[boots]
  /\ k \notin Keys(ring)
  /\ sequence' = sequence + 1
  /\ taken' = [taken EXCEPT ![s] = <<[key |-> k, seq |-> sequence + 1]>>]
  /\ UNCHANGED <<up, ring, queue, buffer, records, boots, diskVars>>

\* insert, then the offer to the storage channel; a key another source inserted meanwhile ends it.
InsertEvent(s) ==
  /\ up /\ taken[s] # <<>>
  /\ taken' = [taken EXCEPT ![s] = <<>>]
  /\ LET r == taken[s][1] IN
     \/ /\ r.key \in Keys(ring)
        /\ UNCHANGED <<ring, queue>>
     \/ /\ r.key \notin Keys(ring)
        /\ ring' = Last(Append(ring, r), Capacity)
        /\ queue' = IF Len(queue) < QueueCapacity THEN Append(queue, r) ELSE queue
  /\ UNCHANGED <<up, sequence, buffer, records, boots, diskVars>>

-----------------------------------------------------------------------------
(* run_storage_writer *)

CompactAt == IF Capacity * 2 > 2 THEN Capacity * 2 ELSE 2

AppendEvent ==
  /\ up /\ queue # <<>> /\ records + 1 <= CompactAt
  /\ queue' = Tail(queue)
  /\ buffer' = Append(buffer, Head(queue))
  /\ records' = records + 1
  /\ UNCHANGED <<up, sequence, taken, ring, boots, diskVars>>

\* Mutant: the compacted journal starts empty.
AppendAndRewrite_Empty ==
  /\ up /\ queue # <<>> /\ records + 1 > CompactAt
  /\ queue' = Tail(queue)
  /\ buffer' = <<>>
  /\ file' = <<>> /\ records' = 0
  /\ durable' = Newer(durable, MaxSeq(Entries(buffer) \cup {Head(queue)}))
  /\ UNCHANGED <<up, sequence, taken, ring, boots, tore>>

\* append and, the journal having grown past twice the ring, rewrite from the
\* ring: flush, new file, rename. When the new file fails the old one stays.
AppendAndRewrite ==
  /\ up /\ queue # <<>> /\ records + 1 > CompactAt
  /\ queue' = Tail(queue)
  /\ buffer' = <<>>
  /\ LET flushed == Append(buffer, Head(queue)) IN
     \/ /\ file' = ring /\ records' = Len(ring)
        /\ durable' = Newer(durable, MaxSeq(Entries(flushed \o ring)))
     \/ /\ file' = file \o flushed /\ records' = records + 1
        /\ durable' = Newer(durable, MaxSeq(Entries(flushed)))
  /\ UNCHANGED <<up, sequence, taken, ring, boots, tore>>

FlushTick ==
  /\ up /\ buffer # <<>>
  /\ file' = file \o buffer
  /\ buffer' = <<>>
  /\ durable' = Newer(durable, MaxSeq(Entries(buffer)))
  /\ UNCHANGED <<up, sequence, taken, ring, queue, records, boots, tore>>

-----------------------------------------------------------------------------
(* The end of the process, and the next one *)

Down ==
  /\ up' = FALSE
  /\ sequence' = 0 /\ taken' = [s \in Source |-> <<>>]
  /\ ring' = <<>> /\ queue' = <<>> /\ buffer' = <<>> /\ records' = 0
  /\ UNCHANGED boots

\* Shutdown leaves the loop and flushes; what is queued is lost.
Shutdown ==
  /\ up
  /\ file' = file \o buffer
  /\ durable' = Newer(durable, MaxSeq(Entries(buffer)))
  /\ UNCHANGED tore
  /\ Down

\* A killed process loses its buffer, except the part BufWriter had spilled,
\* which may end inside an entry.
Crash ==
  /\ up
  /\ \E n \in 0..Len(buffer) :
       \/ file' = file \o SubSeq(buffer, 1, n) /\ UNCHANGED tore
       \/ /\ n < Len(buffer) /\ file' = file \o Append(SubSeq(buffer, 1, n), Torn)
          /\ tore' = TRUE
  /\ UNCHANGED durable
  /\ Down

\* load_events: the newest Capacity records before the first unreadable one.
LoadEvents ==
  LET torn == {i \in 1..Len(file) : file[i] = Torn}
      end  == IF torn = {} THEN Len(file)
              ELSE (CHOOSE i \in torn : \A j \in torn : i <= j) - 1
  IN Last(SubSeq(file, 1, end), Capacity)

\* EventHub::insert of one record after the other.
Inserted(q) ==
  LET f[n \in 0..Len(q)] ==
        IF n = 0 THEN <<>>
        ELSE IF q[n].key \in Keys(f[n - 1]) THEN f[n - 1] ELSE Append(f[n - 1], q[n])
  IN f[Len(q)]

\* Mutant: numbering goes on after the last record read.
Restart_LastRecord ==
  /\ ~up /\ boots < MaxBoots
  /\ LET recovered == LoadEvents IN
     /\ up' = TRUE /\ boots' = boots + 1
     /\ sequence' = IF recovered = <<>> THEN 0 ELSE recovered[Len(recovered)].seq
     /\ ring' = Inserted(recovered)
  /\ UNCHANGED <<taken, queue, buffer, records, diskVars>>

Restart ==
  /\ ~up /\ boots < MaxBoots
  /\ LET recovered == LoadEvents IN
     /\ up' = TRUE /\ boots' = boots + 1
     /\ sequence' = MaxSeq(Entries(recovered))
     /\ ring' = Inserted(recovered)
  /\ UNCHANGED <<taken, queue, buffer, records, diskVars>>

JournalNext ==
  \/ \E s \in Source : (\E k \in Key : Number(s, k)) \/ InsertEvent(s)
  \/ AppendEvent \/ AppendAndRewrite \/ FlushTick
  \/ Shutdown \/ Crash \/ Restart

JournalSpec == JournalInit /\ [][JournalNext]_journalVars
-----------------------------------------------------------------------------
(* Properties *)

\* What EventHub and Processor rely on after every recovery, however the
\* journal was cut, compacted with commands still queued, or written out of
\* order: the ring holds no key and no sequence twice, fits its capacity, and
\* the next sequence is above all of them. (RecoveredAssumption of Pipeline.)
RingDistinct ==
  /\ Len(ring) <= Capacity
  /\ \A i, j \in 1..Len(ring) :
       i # j => ring[i].key # ring[j].key /\ ring[i].seq # ring[j].seq
  /\ up => \A r \in Entries(ring) : r.seq <= sequence

\* CHANGELOG, "after a restart the event history and after_sequence go on": a
\* process never numbers again from below a record that was flushed.
NoSequenceReuse == up => durable <= sequence

\* The same while no crash has cut an entry short.
NoReuseUntorn == ~tore => NoSequenceReuse
=============================================================================
