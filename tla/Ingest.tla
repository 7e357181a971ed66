------------------------------- MODULE Ingest -------------------------------
(***************************************************************************)
(* How tinyuma follows the chain (src/src/uma/rpc.rs): one racer task per  *)
(* WebSocket endpoint, the start-up back-fill, the gap-fill a reconnected  *)
(* racer spawns, and the block cursor they advance, which the storage      *)
(* writer (src/src/storage.rs) saves every second and the next process     *)
(* resumes from.                                                           *)
(*                                                                         *)
(* A log is <<block, index>>. What Processor::process does with it is in   *)
(* module Pipeline; here it is seen, and raises latest_block when the      *)
(* dedup ring did not know it. The processing of one eth_getLogs answer is *)
(* one step. There is one chain: the HTTP endpoint is assumed not to lag   *)
(* behind the WebSocket endpoints when a walk reads its head and its logs, *)
(* as the code does, which takes the head it reads for the end of the gap. *)
(***************************************************************************)
EXTENDS Naturals, Sequences, FiniteSets, Functions

CONSTANTS
  Racer,         \* configured WebSocket endpoints
  LogsIn,        \* LogsIn[b]: number of signal logs in block b
  StartHead,     \* chain head when the process first starts
  StartCursor,   \* uma.cursor at that time, 0 when there is none
  StartBlock,    \* first block without a cursor: start_block or the 7-day estimate;
                 \* not a block of the future
  BatchBlocks,   \* backfill_batch_blocks
  MaxBlock,      \* bound: no block above it is mined
  MaxWalks,      \* bound: range walks at the same time
  MaxRestarts    \* bound: how often the process is restarted

ASSUME IngestAssumption ==
  /\ MaxBlock \in Nat /\ StartHead \in 0..MaxBlock /\ StartCursor \in 0..StartHead
  /\ StartBlock \in 1..(StartHead + 1) /\ BatchBlocks \in Nat \ {0}
  /\ LogsIn \in [1..MaxBlock -> Nat]
  /\ MaxWalks \in Nat \ {0} /\ MaxRestarts \in Nat /\ Racer # {}

VARIABLES
  head,      \* the chain
  link,      \* link[r]: "down", "up", or "ended": socket gone, channel not yet drained
  fresh,     \* fresh[r]: r's first session (sessions = 0)
  live,      \* live[r]: logs sent to r's subscription and not yet processed
  filling,   \* filling[r]: r has reconnected and not yet spawned its gap-fill
  connected, \* any_connected: some racer of this process has subscribed
  walks,     \* the range walks under way: the back-fill and the gap-fills
  known,     \* logs the dedup ring knows
  latest,    \* stats.latest_block
  cursor,    \* the storage writer's uma_cursor
  disk,      \* uma.cursor as saved
  restarts,
  seen,      \* history: every log processed, by this process or an earlier one
  since,     \* history: the head when this process was first following, or MaxBlock
  given      \* history: the blocks gap-fills of this process gave up

racerVars  == <<link, fresh, live, filling, connected>>
cursorVars == <<cursor, disk>>
vars == <<head, racerVars, walks, known, latest, cursorVars, restarts, seen, since, given>>

MaxOf(a, b) == IF a >= b THEN a ELSE b
MinOf(a, b) == IF a <= b THEN a ELSE b

Walk == [kind : {"backfill", "gapfill"}, phase : {"wait", "head", "cursor", "walk"},
         next : Nat, to : Nat]
Backfill == [kind |-> "backfill", phase |-> "wait", next |-> 0, to |-> 0]

LogsOf(b)    == {<<b, i>> : i \in 1..LogsIn[b]}
LogsFrom(m, n) == UNION {LogsOf(b) : b \in {b \in 1..MaxBlock : m <= b /\ b <= n}}
LogList(b)   == [i \in 1..LogsIn[b] |-> <<b, i>>]

\* A process boots: no subscription, the back-fill waiting for one.
Init ==
  /\ head = StartHead
  /\ link = [r \in Racer |-> "down"]
  /\ fresh = [r \in Racer |-> TRUE]
  /\ live = [r \in Racer |-> <<>>]
  /\ filling = [r \in Racer |-> FALSE] /\ connected = FALSE
  /\ walks = {Backfill}
  /\ latest = StartCursor /\ cursor = StartCursor /\ disk = StartCursor
  /\ known = {} /\ restarts = 0
  /\ seen = LogsFrom(1, StartCursor)
  /\ since = MaxBlock /\ given = {}

-----------------------------------------------------------------------------
(* What both racers and walks do with logs, and the cursor *)

\* process on a set of logs: a log the ring did not know raises latest_block.
ProcessLogs(S) ==
  /\ seen' = seen \cup S
  /\ known' = known \cup S
  /\ LET new == {latest} \cup {l[1] : l \in S \ known}
     IN latest' \in {b \in new : \A c \in new : c <= b}

\* Mutant: the storage writer keeps the last checkpoint, not the largest.
Checkpoint_Last(b) == cursor' = b \/ UNCHANGED cursor

\* checkpoint: lost when the storage channel is full.
Checkpoint(b) == cursor' = MaxOf(cursor, b) \/ UNCHANGED cursor

\* History: every racer has made its first attempt, and a block was observed.
Settle ==
  LET following == latest' > 0 /\ \A r \in Racer : ~(link'[r] = "down" /\ fresh'[r])
  IN since' = IF since = MaxBlock /\ following THEN head ELSE since

SaveCursor ==
  /\ cursor > 0 /\ disk # cursor
  /\ disk' = cursor
  /\ UNCHANGED <<head, racerVars, walks, known, latest, cursor, restarts, seen, since, given>>

\* A block is mined; the providers notify every open subscription.
Mine ==
  /\ head < MaxBlock
  /\ head' = head + 1
  /\ live' = [r \in Racer |-> IF link[r] = "up" THEN live[r] \o LogList(head + 1) ELSE live[r]]
  /\ UNCHANGED <<link, fresh, filling, connected, walks, known, latest, cursorVars,
                 restarts, seen, since, given>>

-----------------------------------------------------------------------------
(* live_worker and run_live_session *)

\* GapFill::spawn: from the block after the newest one observed.
GapFill == IF latest = 0 THEN {}
           ELSE {[kind |-> "gapfill", phase |-> "head", next |-> latest + 1, to |-> 0]}

\* Mutant: a reconnected session goes on without a gap-fill.
Subscribe_NoGapFill(r) ==
  /\ link[r] = "down"
  /\ link' = [link EXCEPT ![r] = "up"]
  /\ connected' = TRUE
  /\ UNCHANGED <<head, fresh, live, filling, walks, known, latest, cursorVars,
                 restarts, seen, given>>
  /\ Settle

\* The session is open; unless it is the racer's first, a gap-fill follows.
Subscribe(r) ==
  /\ link[r] = "down"
  /\ link' = [link EXCEPT ![r] = "up"]
  /\ filling' = [filling EXCEPT ![r] = ~fresh[r]]
  /\ connected' = TRUE
  /\ UNCHANGED <<head, fresh, live, walks, known, latest, cursorVars, restarts, seen, given>>
  /\ Settle

\* Other racers and walks may have raised latest_block since r subscribed.
SpawnGapFill(r) ==
  /\ filling[r]
  /\ Cardinality(walks) < MaxWalks
  /\ filling' = [filling EXCEPT ![r] = FALSE]
  /\ walks' = walks \cup GapFill
  /\ UNCHANGED <<head, link, fresh, live, connected, known, latest, cursorVars,
                 restarts, seen, since, given>>

SubscribeFails(r) ==
  /\ link[r] = "down" /\ fresh[r]
  /\ fresh' = [fresh EXCEPT ![r] = FALSE]
  /\ UNCHANGED <<head, link, live, filling, connected, walks, known, latest, cursorVars,
                 restarts, seen, given>>
  /\ Settle

LiveLog(r) ==
  /\ ~filling[r] /\ live[r] # <<>>
  /\ ProcessLogs({Head(live[r])})
  /\ Checkpoint(Head(live[r])[1])
  /\ live' = [live EXCEPT ![r] = Tail(@)]
  /\ UNCHANGED <<head, link, fresh, filling, connected, walks, disk, restarts, given>>
  /\ Settle

\* The socket is lost with the notifications that were still under way; those
\* in the channel are processed before the session ends.
SocketLost(r) ==
  /\ link[r] = "up"
  /\ link' = [link EXCEPT ![r] = "ended"]
  /\ \E n \in 0..Len(live[r]) : live' = [live EXCEPT ![r] = SubSeq(@, 1, n)]
  /\ UNCHANGED <<head, fresh, filling, connected, walks, known, latest, cursorVars,
                 restarts, seen, since, given>>

SessionOver(r) ==
  /\ link[r] = "ended" /\ live[r] = <<>> /\ ~filling[r]
  /\ link' = [link EXCEPT ![r] = "down"]
  /\ fresh' = [fresh EXCEPT ![r] = FALSE]
  /\ UNCHANGED <<head, live, filling, connected, walks, known, latest, cursorVars,
                 restarts, seen, since, given>>

-----------------------------------------------------------------------------
(* run_backfill, GapFill and backfill_range *)

Becomes(w, W) == walks' = (walks \ {w}) \cup W
Others == <<head, racerVars, disk, restarts, given>>

\* any_connected: the back-fill waits for the first subscription.
BackfillStarts(w) ==
  /\ w.phase = "wait" /\ connected
  /\ Becomes(w, {[w EXCEPT !.phase = "head"]})
  /\ UNCHANGED <<Others, known, latest, cursor, seen, since>>

\* latest_block(): the end of the range. A gap-fill above it has nothing to do.
ReadHead(w) ==
  /\ w.phase = "head"
  /\ \/ /\ w.kind = "backfill"
        /\ Becomes(w, {[w EXCEPT !.phase = "cursor", !.to = head]})
     \/ /\ w.kind = "gapfill"
        /\ Becomes(w, IF w.next > head THEN {}
                      ELSE {[w EXCEPT !.phase = "walk", !.to = head]})
  /\ UNCHANGED <<Others, known, latest, cursor, seen, since>>

\* load_uma_cursor: the start of the back-fill is read now, not at boot.
ReadCursor(w) ==
  LET from == IF disk > 0 THEN disk + 1 ELSE StartBlock IN
  /\ w.phase = "cursor"
  /\ Becomes(w, IF from > w.to THEN {} ELSE {[w EXCEPT !.phase = "walk", !.next = from]})
  /\ UNCHANGED <<Others, known, latest, cursor, seen, since>>

\* Mutant: the chunk ends one block too far, where eth_getLogs was not asked.
WalkBatch_OffByOne(w) ==
  LET end == MinOf(w.next + BatchBlocks - 1, w.to) IN
  /\ w.phase = "walk"
  /\ ProcessLogs(LogsFrom(w.next, end))
  /\ Checkpoint(end)
  /\ Becomes(w, IF end >= w.to THEN {} ELSE {[w EXCEPT !.next = end + 2]})
  /\ UNCHANGED Others
  /\ Settle

\* One chunk: its logs, then its checkpoint.
WalkBatch(w) ==
  LET end == MinOf(w.next + BatchBlocks - 1, w.to) IN
  /\ w.phase = "walk"
  /\ ProcessLogs(LogsFrom(w.next, end))
  /\ Checkpoint(end)
  /\ Becomes(w, IF end = w.to THEN {} ELSE {[w EXCEPT !.next = end + 1]})
  /\ UNCHANGED Others
  /\ Settle

\* A failed request: the back-fill starts over, a gap-fill gives up.
RequestFails(w) ==
  /\ \/ /\ w.kind = "backfill" /\ w.phase \in {"cursor", "walk"}
        /\ Becomes(w, {[Backfill EXCEPT !.phase = "head"]})
        /\ UNCHANGED given
     \/ /\ w.kind = "gapfill"
        /\ Becomes(w, {})
        /\ given' = given \cup w.next..(IF w.phase = "head" THEN head ELSE w.to)
  /\ UNCHANGED <<head, racerVars, known, latest, cursorVars, restarts, seen, since>>

-----------------------------------------------------------------------------
\* The process ends and the next one boots: a shutdown saves the cursor
\* first, a crash may also lose the journal the ring is recovered from.
Reboot ==
  /\ restarts < MaxRestarts
  /\ restarts' = restarts + 1
  /\ \/ disk' = disk /\ known' \in {known, {}}
     \/ disk' = cursor /\ known' = known
  /\ link' = [r \in Racer |-> "down"]
  /\ fresh' = [r \in Racer |-> TRUE]
  /\ live' = [r \in Racer |-> <<>>]
  /\ filling' = [r \in Racer |-> FALSE] /\ connected' = FALSE
  /\ walks' = {Backfill}
  /\ latest' = disk' /\ cursor' = disk'
  /\ since' = MaxBlock /\ given' = {}
  /\ UNCHANGED <<head, seen>>

RangeWalk(w) == BackfillStarts(w) \/ ReadHead(w) \/ ReadCursor(w) \/ WalkBatch(w)
LiveTask(r)  == Subscribe(r) \/ SpawnGapFill(r) \/ LiveLog(r) \/ SessionOver(r)
Next ==
  \/ Mine \/ SaveCursor \/ Reboot
  \/ \E r \in Racer : LiveTask(r) \/ SubscribeFails(r) \/ SocketLost(r)
  \/ \E w \in walks : RangeWalk(w) \/ RequestFails(w)

Spec == Init /\ [][Next]_vars

\* Every task that can go on does: racers redial for ever, and the HTTP
\* endpoint answers a gap-fill, wherever it has got to.
Refill(phase, n) ==
  \E w \in walks : w.kind = "gapfill" /\ w.phase = phase /\ w.next = n /\ RangeWalk(w)
FairSpec ==
  /\ Spec
  /\ \A r \in Racer : /\ WF_vars(LiveLog(r)) /\ WF_vars(SessionOver(r))
                       /\ WF_vars(Subscribe(r)) /\ WF_vars(SpawnGapFill(r))
  /\ \A n \in 2..MaxBlock : WF_vars(Refill("head", n)) /\ WF_vars(Refill("walk", n))
-----------------------------------------------------------------------------
(* Properties *)

\* The saved cursor never moves back, whatever order racers, back-fill and
\* gap-fills checkpoint in, and across crashes.
CursorForward == [][disk' >= disk]_vars

\* The gap-fill w will still ask for block b.
WillWalk(w, b) == w.kind = "gapfill" /\ w.next <= b /\ (w.phase = "walk" => b <= w.to)

\* A racer that lost its socket, or has just reconnected, will walk from
\* latest + 1.
WillRefill(b) ==
  /\ 0 < latest /\ latest < b
  /\ \E r \in Racer : filling[r] \/ link[r] = "ended" \/ (link[r] = "down" /\ ~fresh[r])

\* Block b has signal logs and none of them was processed.
Untouched(b) == LogsOf(b) # {} /\ LogsOf(b) \cap seen = {}
InChannel(r, b) == \E i \in 1..Len(live[r]) : live[r][i][1] = b

\* The comment in run_live_session, "nothing between last seen and now can
\* slip past", for any number of racers: a block with signal logs mined since
\* this process was first following the chain has one of them processed, or in a
\* subscription's channel, or a gap-fill will still ask for it, or a reconnected
\* racer will spawn one that does, or one whose request failed gave it up. It is about blocks:
\* latest_block, where a gap-fill starts, is a block with some log processed.
NothingSlipsPast ==
  \A b \in (since + 1)..head : Untouched(b) =>
    \/ \E r \in Racer : InChannel(r, b)
    \/ \E w \in walks : WillWalk(w, b)
    \/ WillRefill(b)
    \/ b \in given

\* A block mined since then is processed in the end, through any number of
\* lost sockets, unless a failed gap-fill gave it up.
EventuallySeen ==
  \A b \in (StartHead + 1)..MaxBlock :
    (since < b /\ b <= head) ~> (~Untouched(b) \/ b <= since \/ b \in given)
=============================================================================
