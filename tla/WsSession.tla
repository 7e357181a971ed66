------------------------------ MODULE WsSession ------------------------------
(***************************************************************************)
(* The link between tinyuma and an edge, on top of the pipeline: the       *)
(* WebSocket session of tinyuma (websocket_session and send_available in   *)
(* src/src/api.rs), which keeps the cursor `after' and sends what          *)
(* FrameHub::after returns, and the edge's upstream loop (run_upstream,    *)
(* session and on_frame in src/src/edge/upstream.rs), which remembers the  *)
(* last event sequence it received and dials with it.                      *)
(*                                                                         *)
(* Frames written to a socket are in `wire' until the edge reads them; a   *)
(* dropped socket loses them. A write that times out half way through      *)
(* send_available is a drop with the rest still in `wire'. A frame is what *)
(* encode_frame wrote, which parse_frame can read: the branch of on_frame  *)
(* that counts a bad frame and keeps the cursor needs a tinyuma configured *)
(* beyond the edge's MAX_DECOMPRESSED, and is left out.                    *)
(*                                                                         *)
(* Several sources can send in the other order than they were numbered, so *)
(* a frame may end below an event published before it. Cursors pass over   *)
(* such a frame, or go back with it: the properties name these frames.     *)
(***************************************************************************)
EXTENDS Pipeline

CONSTANTS
  Edge,      \* edges dialling tinyuma
  WarmUp,    \* the configured upstream URL carries after_sequence=0
  MaxReads   \* bound: the socket of an edge that read as many frames drops no more

ASSUME WarmUpAssumption == WarmUp \in BOOLEAN /\ MaxReads \in Nat

VARIABLES
  conn,      \* conn[e]: e's socket is open
  after,     \* after[e]: the session's cursor in tinyuma
  wire,      \* wire[e]: frames sent and not yet read by e
  cursor,    \* cursor[e]: run_upstream's last_event_sequence
  rejected,  \* rejected[e]: run_upstream's cursor_rejected
  got,       \* history: the frames e received, in order
  base,      \* history: the frames published after base[e] are owed to e
  starting   \* history: e received nothing since it started or was last refused

linkVars == <<conn, after, wire, cursor, rejected, got, base, starting>>
wsVars   == <<vars, linkVars>>

WsInit ==
  /\ Init
  /\ conn = [e \in Edge |-> FALSE]
  /\ after = [e \in Edge |-> 0]
  /\ wire = [e \in Edge |-> <<>>]
  /\ cursor = [e \in Edge |-> 0]
  /\ rejected = [e \in Edge |-> FALSE]
  /\ got = [e \in Edge |-> <<>>]
  /\ base = [e \in Edge |-> 0]
  /\ starting = [e \in Edge |-> TRUE]

-----------------------------------------------------------------------------
\* parse_frame: the largest event sequence in a frame.
EventSequence(f) == CHOOSE n \in {r.seq : r \in InFrame(f)} :
                      \A r \in InFrame(f) : r.seq <= n

\* Mutant: a configured after_sequence always wins.
DialFrom_Configured(e) ==
  IF ~rejected[e] /\ WarmUp THEN 0
  ELSE IF ~rejected[e] /\ cursor[e] > 0 THEN cursor[e] ELSE latest

\* dial_url: the cursor unless it was refused; before there is one, the
\* configured after_sequence; otherwise none, and the session starts at the
\* newest frame.
DialFrom(e) ==
  IF ~rejected[e] /\ cursor[e] > 0 THEN cursor[e]
  ELSE IF ~rejected[e] /\ WarmUp THEN 0 ELSE latest

\* Mutant: the loop is left when a session ends that received frames.
Dial_Returns(e) ==
  /\ ~conn[e] /\ cursor[e] = 0
  /\ conn' = [conn EXCEPT ![e] = TRUE]
  /\ after' = [after EXCEPT ![e] = DialFrom(e)]
  /\ base' = IF starting[e] THEN [base EXCEPT ![e] = Len(published)] ELSE base
  /\ UNCHANGED <<vars, wire, cursor, rejected, got, starting>>

\* What the edge may miss: an edge that starts, or that was refused, is owed
\* what comes after the point its session begins at.
Dial(e) ==
  /\ ~conn[e]
  /\ conn' = [conn EXCEPT ![e] = TRUE]
  /\ after' = [after EXCEPT ![e] = DialFrom(e)]
  /\ base' = IF starting[e] THEN [base EXCEPT ![e] = Len(published)] ELSE base
  /\ UNCHANGED <<vars, wire, cursor, rejected, got, starting>>

\* send_available: everything the ring has after the session's cursor. A
\* session at 0 was promised no more than the ring has now.
SendAvailable(e) ==
  LET fs == After(after[e]) IN
  /\ conn[e]
  /\ ~Lagged(after[e])
  /\ fs # <<>>
  /\ wire' = [wire EXCEPT ![e] = @ \o fs]
  /\ after' = [after EXCEPT ![e] = CHOOSE n \in {@} \cup {f.last : f \in Range(fs)} :
                                     \A f \in Range(fs) : f.last <= n /\ @ <= n]
  /\ base' = IF after[e] = 0 THEN [base EXCEPT ![e] = Len(published) - Len(frames)] ELSE base
  /\ UNCHANGED <<vars, conn, cursor, rejected, got, starting>>

\* on_frame
OnFrame(e) ==
  /\ conn[e] /\ wire[e] # <<>>
  /\ wire' = [wire EXCEPT ![e] = Tail(@)]
  /\ cursor' = [cursor EXCEPT ![e] = EventSequence(Head(wire[e]))]
  /\ got' = [got EXCEPT ![e] = Append(@, Head(wire[e]))]
  /\ starting' = [starting EXCEPT ![e] = FALSE]
  /\ UNCHANGED <<vars, conn, after, rejected, base>>

\* CursorTooOld: tinyuma closes with 1013, which the edge reads after the
\* frames sent before it; it will dial without its cursor. The session and
\* its cursor are gone.
RefuseCursor(e) ==
  /\ conn[e] /\ wire[e] = <<>>
  /\ Lagged(after[e])
  /\ conn' = [conn EXCEPT ![e] = FALSE]
  /\ rejected' = [rejected EXCEPT ![e] = TRUE]
  /\ after' = [after EXCEPT ![e] = 0]
  /\ starting' = [starting EXCEPT ![e] = TRUE]
  /\ UNCHANGED <<vars, wire, cursor, got, base>>

\* A write timeout, 60 s without a message, or a closed socket.
DropSocket(e) ==
  /\ conn[e] /\ Len(got[e]) < MaxReads
  /\ conn' = [conn EXCEPT ![e] = FALSE]
  /\ wire' = [wire EXCEPT ![e] = <<>>]
  /\ UNCHANGED <<vars, after, cursor, rejected, got, base, starting>>

Link(e) == SendAvailable(e) \/ OnFrame(e) \/ RefuseCursor(e)
WsNext == \/ Next /\ UNCHANGED linkVars
          \/ \E e \in Edge : Dial(e) \/ Link(e) \/ DropSocket(e)

WsSpec == WsInit /\ [][WsNext]_wsVars

\* publish wakes every session and a session looks again after every message,
\* the edge reads its socket, and run_upstream dials until it is connected.
FairWsSpec == WsSpec /\ \A e \in Edge : WF_wsVars(Link(e)) /\ WF_wsVars(Dial(e))

-----------------------------------------------------------------------------
(* Properties *)

\* f came late: an event at or after its end was published before it.
Late(f) ==
  \E g \in Range(published) :
    g.batch < f.batch /\ \E r \in InFrame(g) : r.seq >= f.last

\* A frame published after f does not end after it.
Overtaken(f) ==
  \E g \in Range(published) : f.batch < g.batch /\ g.last <= f.last

\* An edge receives no frame twice, however often its socket drops with
\* frames in flight and it dials again, with its cursor or without, but for
\* a frame that a later one ends before, which takes a cursor back.
NoFrameTwice ==
  \A e \in Edge : \A i, j \in 1..Len(got[e]) :
    i # j /\ got[e][i] = got[e][j] => Overtaken(got[e][i])

\* Where e's session goes on: at its cursor while open, else where e dials.
ResumePoint(e) == IF conn[e] THEN after[e] ELSE DialFrom(e)

\* Every frame owed to e that did not come late was received, is in flight,
\* or will be sent to it; unless its cursor is below the floor, which it will
\* be told with a 1013.
NothingMissed(e) ==
  (conn[e] \/ ~starting[e]) /\ ResumePoint(e) > 0 /\ ~Lagged(ResumePoint(e)) =>
    \A i \in (base[e] + 1)..Len(published) :
      \/ published[i] \in Range(got[e]) \cup Range(wire[e]) \cup Range(After(ResumePoint(e)))
      \/ Late(published[i])

\* No silent loss: an edge that was never refused misses nothing, through
\* evictions, catalog misses that leave holes in the sequence, sources that
\* overtake each other, dropped sockets and resumed cursors.
NoSilentLoss == \A e \in Edge : ~rejected[e] => NothingMissed(e)

\* An edge whose socket stops dropping catches up with the ring again and
\* again: no cursor is refused for ever, no frame stays unsent. Not so while
\* the newest frame ends below the floor, when even an edge without a cursor
\* is refused.
CatchesUp ==
  \A e \in Edge :
    (<>[][~DropSocket(e)]_wsVars) =>
      []<>(\/ conn[e] /\ wire[e] = <<>> /\ ~Lagged(after[e]) /\ After(after[e]) = <<>>
           \/ Lagged(latest))
=============================================================================
