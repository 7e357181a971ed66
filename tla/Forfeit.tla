------------------------------- MODULE Forfeit -------------------------------
(***************************************************************************)
(* The forfeit blocklist (src/src/forfeit.rs): the feed session that       *)
(* merges events into the list, the hot path that asks it                  *)
(* (Processor::process in src/src/pipeline.rs), the saver that writes it   *)
(* to disk and drops expired matches, load and shutdown.                   *)
(*                                                                         *)
(* The list is two structures behind two locks: state, the matches with    *)
(* their markets, and index, which the hot path reads. apply and prune     *)
(* change the first and then the second. forfeit-feed is a log of events;  *)
(* it may publish an event again with more markets.                        *)
(***************************************************************************)
EXTENDS Integers, Sequences, FiniteSets, FiniteSetsExt

CONSTANTS
  Match, Cond,   \* PandaScore matches, condition ids
  MatchOf,       \* the log: MatchOf[q] is the match of event q
  MarketsOf,     \* MarketsOf[q]: the markets event q may name in the end
  Backfill,      \* FORFEIT_FEED_BACKFILL: past events asked for on connect
  Ttl,           \* FORFEIT_BLOCK_TTL_DAYS, 0 for never
  MaxNow, MaxHits, MaxFaults   \* bounds: clock, UMA events, faults

ASSUME ForfeitAssumption ==
  /\ Match \subseteq Nat \ {0}
  /\ MatchOf \in Seq(Match) /\ MarketsOf \in [DOMAIN MatchOf -> SUBSET Cond]
  /\ Backfill \in Nat /\ Ttl \in Nat
  /\ MaxNow \in Nat /\ MaxHits \in Nat /\ MaxFaults \in Nat

VARIABLES
  now,
  log,        \* forfeit-feed: the markets of each event published so far
  pipe,       \* frames on the connection, oldest first
  linked,     \* FeedStatus.connected
  state,      \* State: matches, last_feed_sequence, blocked_events_total
  index,      \* index: condition id -> Entry
  adding,     \* apply, between its halves: what it puts into the index
  pruning,    \* prune, between its halves: the index it puts in place
  hot,        \* process, between lookup and record_blocked: the match found;
              \* Telling before the notify_one of record_blocked
  permit,     \* the Notify "dirty" holds a permit
  saver,      \* run_saver: "wait", "sleep", "write"; "last", "flush" and "end"
              \* when it has left its loop
  snap,       \* the snapshot being written
  disk,       \* forfeit_blocklist.json
  up,         \* "up", "stopping" or "down"
  hits, faults,
  overlap,    \* history: apply and prune were between their halves together
  unsaved     \* history: the last write failed

history == <<overlap, unsaved>>
feedVars == <<log, pipe, linked>>
listVars == <<state, index, adding, pruning, hot>>
saveVars == <<permit, saver, snap, disk>>
vars == <<now, feedVars, listVars, saveVars, up, hits, faults, history>>

NoMatch == [added |-> 0, ids |-> {}, status |-> "none", seqs |-> {}, blocked |-> 0]
NoEntry == [match |-> 0, added |-> 0]
EmptyState == [matches |-> [m \in Match |-> NoMatch], last |-> 0, total |-> 0]
EmptyIndex == [c \in Cond |-> NoEntry]
Telling == -1
NotAdding == [match |-> 0, ids |-> {}, dirty |-> FALSE]
Listed(s, m) == s.matches[m].added > 0

\* build_index: a condition of several matches goes to the first.
build_index(s) ==
  [c \in Cond |->
    LET of == {m \in Match : c \in s.matches[m].ids} IN
    IF of = {} THEN NoEntry
    ELSE [match |-> Min(of), added |-> s.matches[Min(of)].added]]

Expired(s) == {m \in Match : Listed(s, m) /\ Ttl > 0 /\ s.matches[m].added + Ttl <= now}
Without(s, ms) == [s EXCEPT !.matches = [m \in Match |-> IF m \in ms THEN NoMatch ELSE @[m]]]

Init ==
  /\ now = 1
  /\ log = <<>> /\ pipe = <<>> /\ linked = FALSE
  /\ state = EmptyState /\ index = EmptyIndex
  /\ adding = NotAdding /\ pruning = {} /\ hot = 0
  /\ permit = FALSE /\ saver = "wait" /\ snap = EmptyState /\ disk = EmptyState
  /\ up = "up" /\ hits = 0 /\ faults = 0
  /\ overlap = FALSE /\ unsaved = FALSE

-----------------------------------------------------------------------------
(* forfeit-feed *)

Frame(q, ids) == [seq |-> q, ids |-> ids, status |-> IF ids = {} THEN "not_found" ELSE "matched"]
Push(f) == IF linked THEN Append(pipe, f) ELSE pipe

Publish(ids) ==
  /\ Len(log) < Len(MatchOf) /\ ids \subseteq MarketsOf[Len(log) + 1]
  /\ log' = Append(log, ids)
  /\ pipe' = Push(Frame(Len(log) + 1, ids))
  /\ UNCHANGED <<now, linked, listVars, saveVars, up, hits, faults, history>>

\* Markets that opened late: the same event again.
Amend(q, ids) ==
  /\ log[q] \subseteq ids /\ log[q] # ids /\ ids \subseteq MarketsOf[q]
  /\ log' = [log EXCEPT ![q] = ids]
  /\ pipe' = Push(Frame(q, ids))
  /\ UNCHANGED <<now, linked, listVars, saveVars, up, hits, faults, history>>

\* A lookup that fails pushes the event without markets.
Failed(q) ==
  /\ linked /\ faults < MaxFaults /\ faults' = faults + 1
  /\ pipe' = Append(pipe, [seq |-> q, ids |-> {}, status |-> "failed"])
  /\ UNCHANGED <<now, log, linked, listVars, saveVars, up, hits, history>>

\* Mutant: only events of now on.
Connect_Live ==
  /\ up = "up" /\ ~linked /\ adding = NotAdding
  /\ linked' = TRUE /\ pipe' = <<>>
  /\ UNCHANGED <<now, log, listVars, saveVars, up, hits, faults, history>>

\* feed_session connects, and the feed sends the past events asked for.
Connect ==
  /\ up = "up" /\ ~linked /\ adding = NotAdding
  /\ linked' = TRUE
  /\ LET first == Max({1, Len(log) - Backfill + 1})
         past == [i \in 1..(Len(log) - first + 1) |-> Frame(first + i - 1, log[first + i - 1])]
     IN pipe' = past
  /\ UNCHANGED <<now, log, listVars, saveVars, up, hits, faults, history>>

\* The session ends, by an error, a close or a read timeout; run_forfeit_feed
\* dials again. On shutdown it returns.
Disconnect ==
  /\ linked /\ adding = NotAdding
  /\ up = "up" => faults < MaxFaults
  /\ faults' = IF up = "up" THEN faults + 1 ELSE faults
  /\ linked' = FALSE /\ pipe' = <<>>
  /\ UNCHANGED <<now, log, listVars, saveVars, up, hits, history>>

-----------------------------------------------------------------------------
(* apply *)

\* The match after an event: the union of the markets, the better status.
merge(old, f) ==
  [added |-> IF old.added = 0 THEN now ELSE old.added,
   ids |-> old.ids \cup f.ids,
   status |-> IF old.status = "matched" THEN old.status ELSE f.status,
   seqs |-> old.seqs \cup {f.seq},
   blocked |-> old.blocked]

\* A frame is read, and apply does what it does under the lock of state.
ApplyState ==
  LET f == pipe[1]
      m == MatchOf[f.seq]
      old == state.matches[m]
      new == merge(old, f)
  IN
  /\ linked /\ pipe # <<>> /\ adding = NotAdding
  /\ pipe' = Tail(pipe)
  /\ state' = [state EXCEPT !.matches[m] = new, !.last = Max({@, f.seq})]
  /\ adding' = IF new = old THEN NotAdding
               ELSE [match |-> m, ids |-> f.ids \ old.ids, dirty |-> TRUE]
  /\ overlap' = (overlap \/ pruning # {})
  /\ UNCHANGED <<now, log, linked, index, pruning, hot, saveVars, up, hits, faults, unsaved>>

\* The other half: what is new goes into the index, and the saver is told.
\* (The match may have been pruned meanwhile: its added_at was read before.)
ApplyIndex ==
  /\ adding # NotAdding
  /\ \E at \in IF Listed(state, adding.match) THEN {state.matches[adding.match].added} ELSE 1..now :
       index' = [c \in Cond |-> IF c \in adding.ids /\ index[c] = NoEntry
                                THEN [match |-> adding.match, added |-> at] ELSE index[c]]
  /\ permit' = TRUE /\ adding' = NotAdding
  /\ UNCHANGED <<now, feedVars, state, pruning, hot, saver, snap, disk, up, hits, faults, history>>

-----------------------------------------------------------------------------
(* The hot path *)

\* lookup: a condition on the list is held back.
Lookup(c) ==
  /\ up # "down" /\ hot = 0 /\ hits < MaxHits
  /\ index[c] # NoEntry
  /\ hits' = hits + 1
  /\ hot' = index[c].match
  /\ UNCHANGED <<now, feedVars, state, index, adding, pruning, saveVars, up, faults, history>>

\* record_blocked, up to its unlock of state.
record_blocked ==
  /\ hot \in Match /\ hot' = Telling
  /\ state' = [state EXCEPT !.total = @ + 1,
       !.matches[hot].blocked = IF Listed(state, hot) THEN @ + 1 ELSE @]
  /\ UNCHANGED <<now, feedVars, index, adding, pruning, saveVars, up, hits, faults, history>>

notify_one ==
  /\ hot = Telling /\ hot' = 0
  /\ permit' = TRUE
  /\ UNCHANGED <<now, feedVars, state, index, adding, pruning, saver, snap, disk, up, hits, faults, history>>

-----------------------------------------------------------------------------
(* run_saver *)

\* The hourly prune, under the lock of state: expired matches go and the index
\* without them is built.
PruneState ==
  /\ up # "down" /\ saver = "wait" /\ pruning = {}
  /\ Expired(state) # {}
  /\ state' = Without(state, Expired(state))
  /\ pruning' = {build_index(state')}
  /\ overlap' = (overlap \/ adding # NotAdding)
  /\ UNCHANGED <<now, feedVars, index, adding, hot, saveVars, up, hits, faults, unsaved>>

PruneIndex ==
  /\ pruning # {}
  /\ index' \in pruning /\ pruning' = {}
  /\ permit' = TRUE
  /\ UNCHANGED <<now, feedVars, state, adding, hot, saver, snap, disk, up, hits, faults, history>>

\* dirty.notified, or the shutdown that ends the loop.
Wake ==
  /\ saver = "wait" /\ pruning = {}
  /\ \/ /\ permit /\ permit' = FALSE /\ up # "down"
        /\ saver' = "sleep"
     \/ /\ up = "stopping" /\ UNCHANGED permit
        /\ saver' = "last"
  /\ UNCHANGED <<now, feedVars, listVars, snap, disk, up, hits, faults, history>>

\* snapshot_bytes: after the second in which changes are gathered, and once
\* more behind the loop.
Snapshot ==
  /\ \/ saver = "sleep" /\ saver' = "write"
     \/ saver = "last" /\ saver' = "flush"
  /\ snap' = state
  /\ UNCHANGED <<now, feedVars, listVars, permit, disk, up, hits, faults, history>>

AfterWrite == IF saver = "write" THEN "wait" ELSE "end"

\* Mutant: a wake-up that arrives while writing is lost.
Write_Clear ==
  /\ saver \in {"write", "flush"} /\ saver' = AfterWrite
  /\ disk' = snap /\ unsaved' = FALSE /\ UNCHANGED faults
  /\ permit' = FALSE
  /\ snap' = EmptyState
  /\ UNCHANGED <<now, feedVars, listVars, up, hits, overlap>>

\* atomic_write; an error is logged and nothing more.
Write ==
  /\ saver \in {"write", "flush"} /\ saver' = AfterWrite
  /\ \/ disk' = snap /\ unsaved' = FALSE /\ UNCHANGED faults
     \/ /\ faults < MaxFaults /\ faults' = faults + 1
        /\ unsaved' = TRUE /\ UNCHANGED disk
  /\ snap' = EmptyState
  /\ UNCHANGED <<now, feedVars, listVars, permit, up, hits, overlap>>

-----------------------------------------------------------------------------
(* The process *)

Stop ==
  /\ up = "up" /\ faults < MaxFaults /\ faults' = faults + 1
  /\ up' = "stopping"
  /\ UNCHANGED <<now, feedVars, listVars, saveVars, hits, history>>

Gone ==
  /\ up' = "down"
  /\ pipe' = <<>> /\ linked' = FALSE
  /\ state' = EmptyState /\ index' = EmptyIndex
  /\ adding' = NotAdding /\ pruning' = {} /\ hot' = 0
  /\ permit' = FALSE /\ saver' = "wait" /\ snap' = EmptyState
  /\ UNCHANGED <<now, log, disk, hits, history>>

\* After the signal the process waits for its tasks, 5 s each at most, and for
\* the saver not at all; or it dies.
Exit == up = "stopping" /\ Gone /\ UNCHANGED faults

Crash == up # "down" /\ faults < MaxFaults /\ faults' = faults + 1 /\ Gone

\* Mutant: the index is left to the feed.
load_NoIndex == EmptyIndex

\* The index after load: the file without what expired.
load == build_index(Without(disk, Expired(disk)))

\* from_config.
Start ==
  /\ up = "down" /\ up' = "up"
  /\ state' = Without(disk, Expired(disk))
  /\ index' = load
  /\ permit' = (Expired(disk) # {})
  /\ unsaved' = FALSE /\ overlap' = FALSE
  /\ UNCHANGED <<now, feedVars, adding, pruning, hot, saver, snap, disk, hits, faults>>

Tick ==
  /\ now < MaxNow /\ now' = now + 1
  /\ UNCHANGED <<feedVars, listVars, saveVars, up, hits, faults, history>>

Session == Connect \/ ApplyState \/ ApplyIndex
Saver == PruneState \/ PruneIndex \/ Wake \/ Snapshot \/ Write

Next ==
  \/ \E ids \in SUBSET Cond : Publish(ids)
  \/ \E q \in DOMAIN log : Failed(q) \/ \E ids \in SUBSET Cond : Amend(q, ids)
  \/ Session \/ Disconnect
  \/ \E c \in Cond : Lookup(c)
  \/ record_blocked \/ notify_one
  \/ Saver
  \/ Stop \/ Exit \/ Crash \/ Start \/ Tick

Spec == Init /\ [][Next]_vars

\* The session redials with a backoff of at most 30 s and reads what comes, and
\* a process that ended is started again.
FairSpec == Spec /\ WF_vars(Session) /\ WF_vars(Start \/ Exit) /\ WF_vars(Saver)

-----------------------------------------------------------------------------
(* Properties *)

Quiet == adding = NotAdding /\ pruning = {}

\* As long as apply and prune did not overlap, the index has exactly the
\* conditions of the matches, each under a match that lists it: nothing that is
\* on the list is broadcast, and what prune took off it is not held back
\* (apply, prune, load).
IndexMatchesState ==
  Quiet /\ ~overlap =>
    \A c \in Cond :
      LET of == {m \in Match : c \in state.matches[m].ids} IN
      IF of = {} THEN index[c] = NoEntry ELSE index[c].match \in of

\* When the saver waits and nothing is signalled, the file is the list, unless
\* the last write failed: no change is left without a save (Notify, run_saver),
\* but for the moment between a change and its notify_one.
SavedWhenIdle ==
  up = "up" /\ saver = "wait" /\ ~permit /\ Quiet /\ hot # Telling /\ ~unsaved => disk = state

\* Every condition the feed publishes is held back some time later, as long as
\* apply and prune did not overlap: disconnects, crashes and events published
\* while nobody listens are made up for by the backfill.
Learned ==
  \A c \in Cond :
    <>(\E q \in DOMAIN log : c \in log[q]) => <>(index[c] # NoEntry \/ overlap)
=============================================================================
