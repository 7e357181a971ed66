------------------------------- MODULE EdgeHub -------------------------------
(***************************************************************************)
(* The fan-out of an edge (src/src/edge/hub.rs and ring.rs) and the client *)
(* sessions that drain it (session and write_loop, src/src/edge/server.rs).*)
(* publish, subscribe, unsubscribe, release and kick_tokens each run under *)
(* the hub's mutex and are one action each. A session is a reader and a    *)
(* writer task; the writer drains its own channel without the mutex, so    *)
(* its steps interleave with all of them. A frame is its ring offset.      *)
(***************************************************************************)
EXTENDS Naturals, Sequences, FiniteSets

CONSTANTS
  Sub,           \* subscriptions (the hub's ids)
  Token,         \* token ids
  RingCapacity,  \* capacity of the frame ring
  Queue,         \* capacity of a subscriber's channel
  MaxReplay,     \* MAX_REPLAY: the largest _replay a client may ask for
  MaxOffset      \* bound: no frame above it is published

ASSUME EdgeHubAssumption ==
  /\ RingCapacity \in Nat \ {0}
  /\ Queue \in Nat \ {0}
  /\ MaxReplay \in Nat
  /\ MaxOffset \in Nat

CLOSE_NORMAL  == 1000
CLOSE_POLICY  == 1008
CLOSE_RESTART == 1012
Code == {CLOSE_NORMAL, CLOSE_POLICY, CLOSE_RESTART}

VARIABLES
  ring,        \* Ring.frames, oldest first
  nextOffset,  \* Ring.next_offset
  subs,        \* Inner.subs: the registered subscriptions (each holds the sender)
  token,       \* token[i]: the token i connected with
  closeCode,   \* closeCode[i]: the shared close code
  replay,      \* replay[i]: replay frames the writer has yet to write
  rx,          \* rx[i]: frames queued in i's channel
  writer,      \* writer[i]: the writer task: "none", "live", "closed" or "gone"
  reading,     \* reading[i]: the reader task is still running
  got,         \* history: the frames written to i's socket
  start        \* history: the first frame i was to receive, 0 before subscribe

hubVars     == <<ring, nextOffset, subs>>
sessionVars == <<token, closeCode, replay, rx, writer, reading, got, start>>
vars        == <<hubVars, sessionVars>>

Init ==
  /\ ring = <<>> /\ nextOffset = 1 /\ subs = {}
  /\ token \in [Sub -> Token]
  /\ closeCode = [i \in Sub |-> CLOSE_NORMAL]
  /\ replay = [i \in Sub |-> <<>>]
  /\ rx = [i \in Sub |-> <<>>]
  /\ writer = [i \in Sub |-> "none"]
  /\ reading = [i \in Sub |-> FALSE]
  /\ got = [i \in Sub |-> <<>>]
  /\ start = [i \in Sub |-> 0]

-----------------------------------------------------------------------------
(* Hub and Ring *)

\* Ring::push numbers the frame and evicts the oldest one when full.
Pushed == Append(IF Len(ring) = RingCapacity THEN Tail(ring) ELSE ring, nextOffset)

\* try_send: a live writer with room takes the frame.
Accepts(i) == writer[i] = "live" /\ Len(rx[i]) < Queue
Full(i)    == writer[i] = "live" /\ Len(rx[i]) >= Queue

\* Mutant: a full subscriber is skipped and stays registered.
Publish_SkipsFull ==
  /\ nextOffset <= MaxOffset
  /\ ring' = Pushed
  /\ nextOffset' = nextOffset + 1
  /\ rx' = [i \in Sub |-> IF i \in subs /\ Accepts(i)
                          THEN Append(rx[i], nextOffset) ELSE rx[i]]
  /\ UNCHANGED <<subs, token, closeCode, replay, writer, reading, got, start>>

\* Hub::publish never waits: a full subscriber is marked 1008 and removed, one
\* whose writer is gone is removed.
Publish ==
  /\ nextOffset <= MaxOffset
  /\ ring' = Pushed
  /\ nextOffset' = nextOffset + 1
  /\ rx' = [i \in Sub |-> IF i \in subs /\ Accepts(i)
                          THEN Append(rx[i], nextOffset) ELSE rx[i]]
  /\ closeCode' = [i \in Sub |-> IF i \in subs /\ Full(i)
                                 THEN CLOSE_POLICY ELSE closeCode[i]]
  /\ subs' = {i \in subs : Accepts(i)}
  /\ UNCHANGED <<token, replay, writer, reading, got, start>>

\* Ring::tail
TailOf(n) == IF n >= Len(ring) THEN ring ELSE SubSeq(ring, Len(ring) - n + 1, Len(ring))

\* Hub::subscribe at the start of a session: the replay snapshot and the
\* registration happen under one lock.
Subscribe(i, n) ==
  /\ writer[i] = "none"
  /\ replay' = [replay EXCEPT ![i] = TailOf(n)]
  /\ start' = [start EXCEPT ![i] = nextOffset - Len(TailOf(n))]
  /\ subs' = subs \cup {i}
  /\ writer' = [writer EXCEPT ![i] = "live"]
  /\ reading' = [reading EXCEPT ![i] = TRUE]
  /\ UNCHANGED <<ring, nextOffset, token, closeCode, rx, got>>

Remove(S, code) ==
  /\ subs' = subs \ S
  /\ closeCode' = [i \in Sub |-> IF i \in S THEN code ELSE closeCode[i]]
  /\ UNCHANGED <<ring, nextOffset, token, replay, rx, writer, reading, got, start>>

\* Hub::release: up to n subscribers, whichever the map yields first.
Release(n) ==
  \E S \in SUBSET subs :
    /\ S # {}
    /\ Cardinality(S) = IF n <= Cardinality(subs) THEN n ELSE Cardinality(subs)
    /\ Remove(S, CLOSE_RESTART)

\* Hub::kick_tokens: every subscriber whose token is no longer kept.
KickTokens(keep) ==
  LET S == {i \in subs : token[i] \notin keep} IN S # {} /\ Remove(S, CLOSE_POLICY)

-----------------------------------------------------------------------------
(* session and write_loop *)

\* The writer sends the replay first.
WriteReplay(i) ==
  /\ writer[i] = "live" /\ replay[i] # <<>>
  /\ got' = [got EXCEPT ![i] = Append(@, Head(replay[i]))]
  /\ replay' = [replay EXCEPT ![i] = Tail(@)]
  /\ UNCHANGED <<hubVars, token, closeCode, rx, writer, reading, start>>

\* Mutant: live frames do not wait for the rest of the replay.
WriteLive_Early(i) ==
  /\ writer[i] = "live" /\ rx[i] # <<>>
  /\ got' = [got EXCEPT ![i] = Append(@, Head(rx[i]))]
  /\ rx' = [rx EXCEPT ![i] = Tail(@)]
  /\ UNCHANGED <<hubVars, token, closeCode, replay, writer, reading, start>>

\* Then what its channel yields.
WriteLive(i) ==
  /\ writer[i] = "live" /\ replay[i] = <<>> /\ rx[i] # <<>>
  /\ got' = [got EXCEPT ![i] = Append(@, Head(rx[i]))]
  /\ rx' = [rx EXCEPT ![i] = Tail(@)]
  /\ UNCHANGED <<hubVars, token, closeCode, replay, writer, reading, start>>

\* Mutant: the writer waits for a close code nobody set.
WriteClose_IfCoded(i) ==
  /\ writer[i] = "live" /\ replay[i] = <<>> /\ rx[i] = <<>>
  /\ i \notin subs /\ closeCode[i] # CLOSE_NORMAL
  /\ writer' = [writer EXCEPT ![i] = "closed"]
  /\ UNCHANGED <<hubVars, token, closeCode, replay, rx, reading, got, start>>

\* recv yields None once the sender is dropped and the queue is drained: the
\* close frame carries the code the hub left.
WriteClose(i) ==
  /\ writer[i] = "live" /\ replay[i] = <<>> /\ rx[i] = <<>>
  /\ i \notin subs
  /\ writer' = [writer EXCEPT ![i] = "closed"]
  /\ UNCHANGED <<hubVars, token, closeCode, replay, rx, reading, got, start>>

\* A failed or timed-out write, or the abort 2 s after the reader ended, ends
\* the writer, which drops the receiver.
WriterFails(i) ==
  /\ writer[i] = "live"
  /\ writer' = [writer EXCEPT ![i] = "gone"]
  /\ UNCHANGED <<hubVars, token, closeCode, replay, rx, reading, got, start>>

\* The session ends because the reader does (client close, idle 90 s, error)
\* or because the writer did: unsubscribe either way.
SessionEnds(i) ==
  /\ reading[i]
  /\ reading' = [reading EXCEPT ![i] = FALSE]
  /\ subs' = subs \ {i}
  /\ UNCHANGED <<ring, nextOffset, token, closeCode, replay, rx, writer, got, start>>

Writer(i) == WriteReplay(i) \/ WriteLive(i) \/ WriteClose(i)
Next ==
  \/ Publish
  \/ \E n \in 1..Cardinality(Sub) : Release(n)
  \/ \E keep \in SUBSET Token : KickTokens(keep)
  \/ \E i \in Sub :
       \/ \E n \in 0..MaxReplay : Subscribe(i, n)
       \/ Writer(i) \/ WriterFails(i) \/ SessionEnds(i)

Spec == Init /\ [][Next]_vars

\* The writer is a spawned task. Its channel is bounded, every write is timed.
FairSpec == Spec /\ \A i \in Sub : WF_vars(Writer(i))

-----------------------------------------------------------------------------
(* Properties *)

\* Every variable keeps the shape the hub and the sessions give it.
TypeOK ==
  /\ ring \in Seq(Nat) /\ nextOffset \in Nat \ {0}
  /\ subs \subseteq Sub
  /\ token \in [Sub -> Token]
  /\ closeCode \in [Sub -> Code]
  /\ replay \in [Sub -> Seq(Nat)] /\ rx \in [Sub -> Seq(Nat)] /\ got \in [Sub -> Seq(Nat)]
  /\ writer \in [Sub -> {"none", "live", "closed", "gone"}]
  /\ reading \in [Sub -> BOOLEAN]
  /\ start \in [Sub -> Nat]

\* q is a run of consecutive frames that starts with frame b.
Consecutive(q, b) == \A k \in 1..Len(q) : q[k] = b + k - 1

\* The offset after the last frame handed to i.
Reach(i) == start[i] + Len(got[i]) + Len(replay[i]) + Len(rx[i])

\* The comment on subscribe, "never both, never neither", for the whole life
\* of a subscription: received frames, the rest of the replay and the queue
\* continue each other without a gap or a repetition, and while a subscriber
\* is registered they reach up to the newest frame, whoever else is evicted.
Gapless ==
  \A i \in Sub : start[i] > 0 =>
    /\ Consecutive(got[i], start[i])
    /\ Consecutive(replay[i], start[i] + Len(got[i]))
    /\ Consecutive(rx[i], start[i] + Len(got[i]) + Len(replay[i]))
    /\ Reach(i) <= nextOffset
    /\ (i \in subs /\ writer[i] = "live") => Reach(i) = nextOffset

\* Whoever was removed from the hub (slow, released, kicked or gone) does not
\* linger: its writer drains what is queued and closes, or fails.
RemovedIsClosed ==
  \A i \in Sub : (writer[i] = "live" /\ i \notin subs) ~> (writer[i] # "live")

\* The edge implements the feed it promises.
Feed == INSTANCE ContiguousFeed WITH
          head <- nextOffset - 1, first <- start, log <- got
ImplementsFeed == Feed!FeedSpec
=============================================================================
