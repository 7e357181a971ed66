----------------------------- MODULE CatalogSync -----------------------------
(***************************************************************************)
(* The market catalog (src/src/enrichment.rs) and its files                *)
(* (src/src/storage.rs): the incremental walk of run_catalog_sync and      *)
(* sync_catalog_before_uma, the full walk of run_catalog_reconcile, the    *)
(* watch for new markets, persist_catalog, load_catalog.                   *)
(*                                                                         *)
(* A market's content is the updatedAt it was read with. Gamma answers a   *)
(* page at one moment and the task reads it at a later one; a page of a    *)
(* walk holds one market, and may leave out markets of the updatedAt the   *)
(* page before it ended at, as run_catalog_reconcile says of Gamma's       *)
(* keyset pages. Both tasks write catalog.bin through the same temporary   *)
(* file, and go on writing into it when the other renames it.              *)
(***************************************************************************)
EXTENDS Integers, FiniteSets

CONSTANTS
  Market,      \* market ids, in the order Gamma gave them
  Nameless,    \* markets Gamma lists without a conditionId
  Boundary,    \* updatedAt below which closed markets are left out
  Listings,    \* what Gamma may list at first: updatedAt and stream of the markets
  MaxStamp,    \* bound: updatedAt values
  MaxTicks,    \* bound: passes after the first, of sync, reconcile and the watch
  MaxFaults    \* bound: failed requests, failed writes and crashes

ASSUME CatalogAssumption ==
  /\ Market \subseteq Nat /\ IsFiniteSet(Market)
  /\ Nameless \subseteq Market
  /\ Boundary \in Nat /\ MaxStamp \in Nat
  /\ MaxTicks \in Nat /\ MaxFaults \in Nat

Task == {"sync", "recon"}
Stream == {"active", "closed"}

ASSUME ListingAssumption ==
  Listings \subseteq [stamp : [Market -> 0..MaxStamp], place : [Market -> Stream]]

VARIABLES
  stamp,     \* Gamma: updatedAt of m, 0 while there is no such market
  place,     \* Gamma: the stream m is listed in
  clock,     \* Gamma: the newest updatedAt given
  mem,       \* Catalog: the content held for m, 0 for none
  maxId,     \* CatalogIndexes.max_market_id
  up,        \* the process: "down", in its first pass ("boot"), or "up"
  watch,     \* the watch for new markets: its step, known_max and its page
  pc,        \* pc[t]: where task t is
  walk,      \* walk[t]: the walk under way
  page,      \* page[t]: the market Gamma answered with, at most one
  snap,      \* snap[t]: the rows persist_catalog writes
  tmp,       \* catalog.bin.tmp: its rows, whether they are whole, who writes them
  file,      \* catalog.bin: the same
  old,       \* catalog.bin is of an older format
  saved,     \* enrichment.cursor and enrichment_closed.cursor
  raced,     \* history: two tasks were persisting at the same time
  stale,     \* history: an older content was put over a newer one
  quiet,     \* history: since reconcile began, Gamma changed nothing and no
             \* older content was put over a newer one
  dropped,   \* history: dropped[t]: markets Gamma left out of the pages of t and
             \* that the cursors keep t from asking for again
  ticks,
  faults

gammaVars == <<stamp, place, clock>>
memVars   == <<mem, maxId, up, watch>>
taskVars  == <<pc, walk, page, snap>>
fileVars  == <<tmp, file, old, saved>>
history == <<raced, stale, quiet, dropped>>
vars == <<gammaVars, memVars, taskVars, fileVars, history, ticks, faults>>

NoCursor == [stamp |-> 0, id |-> 0]
Empty == [m \in Market |-> 0]
NoFile == [rows |-> Empty, whole |-> TRUE, open |-> {}, there |-> FALSE]

Below(a, b) == a.stamp < b.stamp \/ (a.stamp = b.stamp /\ a.id < b.id)
KeyOf(m) == [stamp |-> stamp[m], id |-> m]

\* EnrichmentCursor::advance
advance(c, k) == IF Below(c, k) THEN k ELSE c

\* A walk: its stream, the key its last page ended at, the cursors it was
\* given, the cursors it will leave, whether it changed anything.
NewWalk(prev) ==
  [stream |-> "active", at |-> [stamp |-> MaxStamp + 1, id |-> 0],
   prev |-> prev, next |-> prev, changed |-> FALSE]
NoCursors == [c \in Stream |-> NoCursor]
NoWatch == [at |-> "idle", known |-> 0, page |-> {}]

Idle(t) ==
  /\ pc' = [pc EXCEPT ![t] = "idle"]
  /\ walk' = [walk EXCEPT ![t] = NewWalk(NoCursors)]
  /\ page' = [page EXCEPT ![t] = {}]
  /\ snap' = [snap EXCEPT ![t] = Empty]

\* Nothing of the process is left but its files.
Ended ==
  /\ up' = "down" /\ mem' = Empty /\ maxId' = 0 /\ watch' = NoWatch
  /\ pc' = [t \in Task |-> "idle"]
  /\ walk' = [t \in Task |-> NewWalk(NoCursors)]
  /\ page' = [t \in Task |-> {}]
  /\ snap' = [t \in Task |-> Empty]

\* A pass that failed: the next tick tries again, but the first one is fatal.
Fail(t) == IF up = "boot" THEN Ended ELSE Idle(t) /\ UNCHANGED memVars

\* Nothing runs, and Gamma lists some markets. There are files of an older
\* build, which had seen all of them, or there are none.
Init ==
  /\ \E g \in Listings : stamp = g.stamp /\ place = g.place
  /\ clock \in {stamp[m] : m \in Market} /\ \A m \in Market : stamp[m] <= clock
  /\ mem = Empty /\ maxId = 0 /\ up = "down" /\ watch = NoWatch
  /\ pc = [t \in Task |-> "idle"]
  /\ walk = [t \in Task |-> NewWalk(NoCursors)]
  /\ page = [t \in Task |-> {}]
  /\ snap = [t \in Task |-> Empty]
  /\ tmp = NoFile
  /\ \/ old = FALSE /\ file = NoFile /\ saved = NoCursors
     \/ /\ old = TRUE /\ file = [NoFile EXCEPT !.there = TRUE]
        /\ \E m \in Market : stamp[m] = clock /\ saved = [NoCursors EXCEPT ![place[m]] = KeyOf(m)]
  /\ raced = FALSE /\ stale = FALSE /\ quiet = TRUE
  /\ dropped = [t \in Task |-> {}]
  /\ ticks = 0 /\ faults = 0

-----------------------------------------------------------------------------
(* Gamma *)

\* A market appears, changes or closes, with the newest updatedAt or with the
\* one given last.
Touch(m, c) ==
  /\ \E s \in {clock, clock + 1} :
     /\ s <= MaxStamp /\ s # stamp[m]
     /\ clock' = s
     /\ stamp' = [stamp EXCEPT ![m] = s]
  /\ c = "active" => place[m] = "active"
  /\ stamp[m] = 0 => c = "active"
  /\ place' = [place EXCEPT ![m] = c]
  /\ quiet' = (pc["recon"] = "idle")
  /\ dropped' = [t \in Task |-> dropped[t] \ {m}]
  /\ UNCHANGED <<memVars, taskVars, fileVars, raced, stale, ticks, faults>>

-----------------------------------------------------------------------------
(* Start *)

\* load_catalog refuses a file it cannot read, and the process ends.
load_catalog == IF old \/ ~file.there THEN Empty ELSE file.rows

MaxIdOf(rows) ==
  CHOOSE i \in Market \cup {0} :
    /\ i > 0 => rows[i] > 0
    /\ \A m \in Market : rows[m] > 0 => m <= i

\* The cursors after load_catalog: gone when the catalog is of an old format.
discard_stale_catalog == IF old THEN NoCursors ELSE saved

\* A walk with these cursors comes by what is not behind them again.
Recalled(t, prev) ==
  dropped' = [dropped EXCEPT ![t] = {m \in @ : stamp[m] < prev[place[m]].stamp}]

\* run up to sync_catalog_before_uma, which is the first pass of sync.
Start ==
  /\ up = "down"
  /\ file.whole
  /\ up' = "boot"
  /\ mem' = load_catalog /\ maxId' = MaxIdOf(load_catalog)
  /\ saved' = discard_stale_catalog
  /\ pc' = [pc EXCEPT !["sync"] = "walk"]
  /\ walk' = [walk EXCEPT !["sync"] = NewWalk(discard_stale_catalog)]
  /\ Recalled("sync", discard_stale_catalog)
  /\ UNCHANGED <<gammaVars, watch, page, snap, tmp, file, old, raced, stale, quiet, ticks, faults>>

-----------------------------------------------------------------------------
(* Walks *)

\* The next tick: sync loads its cursors, recon starts from nothing.
Begin(t) ==
  LET prev == IF t = "sync" THEN saved ELSE NoCursors IN
  /\ up = "up" /\ pc[t] = "idle" /\ ticks < MaxTicks
  /\ ticks' = ticks + 1
  /\ quiet' = IF t = "recon" THEN TRUE ELSE quiet
  /\ pc' = [pc EXCEPT ![t] = "walk"]
  /\ walk' = [walk EXCEPT ![t] = NewWalk(prev)]
  /\ Recalled(t, prev)
  /\ UNCHANGED <<gammaVars, memVars, page, snap, fileVars, raced, stale, faults>>

\* Gamma answers a page request: the next market below the key, newest first,
\* or one further on, with markets left out that share the key's updatedAt.
Fetch(t) ==
  LET w == walk[t]
      rest == {m \in Market : /\ stamp[m] > 0 /\ place[m] = w.stream
                              /\ Below(KeyOf(m), w.at)}
      Over(top) == {m \in rest : \A o \in top : Below(KeyOf(o), KeyOf(m))}
  IN
  /\ pc[t] = "walk"
  /\ pc' = [pc EXCEPT ![t] = "page"]
  /\ \E top \in {{}} \cup {{m} : m \in rest} :
     /\ \A m \in Over(top) : stamp[m] = w.at.stamp
     /\ page' = [page EXCEPT ![t] = {KeyOf(m) : m \in top}]
     /\ dropped' = [dropped EXCEPT ![t] = @ \cup (Over(top) \ Nameless)]
  /\ UNCHANGED <<gammaVars, memVars, walk, snap, fileVars, raced, stale, quiet, ticks, faults>>

\* Mutant: a failed page is taken as the last one.
FetchFails_AsLast(t) ==
  /\ pc[t] = "walk" /\ faults < MaxFaults
  /\ faults' = faults + 1
  /\ pc' = [pc EXCEPT ![t] = "page"]
  /\ page' = [page EXCEPT ![t] = {}]
  /\ UNCHANGED <<gammaVars, memVars, walk, snap, fileVars, history, ticks>>

\* A page that fails although it was retried ends the pass with an error.
FetchFails(t) ==
  /\ pc[t] = "walk" /\ faults < MaxFaults
  /\ faults' = faults + 1
  /\ Fail(t)
  /\ UNCHANGED <<gammaVars, tmp, file, old, saved, history, ticks>>

\* Catalog::upsert: the newer call wins.
upsert(k) ==
  /\ mem' = [mem EXCEPT ![k.id] = k.stamp]
  /\ maxId' = IF mem[k.id] # k.stamp /\ k.id > maxId THEN k.id ELSE maxId

\* Mutant: a market known as it is ends the stream: all older ones are known.
Reached_Known(w, k) ==
  \/ mem[k.id] = k.stamp
  \/ k.stamp < w.prev[w.stream].stamp
  \/ (w.stream = "closed" /\ k.stamp < Boundary)

\* A market older than the cursor, or than the lookback, ends the stream.
Reached(w, k) ==
  \/ k.stamp < w.prev[w.stream].stamp
  \/ (w.stream = "closed" /\ k.stamp < Boundary)

\* Whether a market listed can be held: one without a conditionId cannot.
compact_market(m) == m \notin Nameless

\* One market of a page in sync_incremental. Reconcile drops the new cursors.
Take(t, k) ==
  /\ ~Reached(walk[t], k)
  /\ page' = [page EXCEPT ![t] = {}]
  /\ pc' = [pc EXCEPT ![t] = "walk"]
  /\ IF compact_market(k.id)
     THEN /\ upsert(k)
          /\ walk' = [walk EXCEPT ![t].at = k,
                       ![t].next[walk[t].stream] = IF t = "sync" THEN advance(@, k) ELSE @,
                       ![t].changed = @ \/ mem[k.id] # k.stamp]
     ELSE /\ walk' = [walk EXCEPT ![t].at = k]
          /\ UNCHANGED <<mem, maxId>>
  /\ UNCHANGED <<up, watch, snap, tmp>>

\* What makes sync, and what makes reconcile, persist. The first pass always
\* does.
Worth(t) ==
  up = "boot" \/ walk[t].changed \/ (t = "sync" /\ walk[t].next # walk[t].prev)

\* The end of a stream: the closed one follows, then persist_catalog, here up
\* to File::create: a new temporary file, or the one there, cut to nothing.
EndStream(t) ==
  /\ \A k \in page[t] : Reached(walk[t], k)
  /\ UNCHANGED memVars
  /\ IF walk[t].stream = "active"
     THEN /\ walk' = [walk EXCEPT ![t].stream = "closed", ![t].at = NewWalk(NoCursors).at]
          /\ page' = [page EXCEPT ![t] = {}]
          /\ pc' = [pc EXCEPT ![t] = "walk"]
          /\ UNCHANGED <<snap, tmp>>
     ELSE IF Worth(t)
     THEN /\ pc' = [pc EXCEPT ![t] = "write"]
          /\ page' = [page EXCEPT ![t] = {}]
          /\ snap' = [snap EXCEPT ![t] = mem]
          /\ tmp' = [rows |-> Empty, whole |-> FALSE, open |-> tmp.open \cup {t}, there |-> TRUE]
          /\ UNCHANGED walk
     ELSE Idle(t) /\ UNCHANGED tmp

Persisting(t) == pc[t] \in {"write", "rename"}

\* Whether the step puts an older content over a newer one.
Overwrites ==
  LET back == \E m \in Market : mem'[m] < mem[m] IN
  stale' = (stale \/ back) /\ quiet' = (quiet /\ ~back)

\* The page is read.
Read(t) ==
  /\ pc[t] = "page"
  /\ (\E k \in page[t] : Take(t, k)) \/ EndStream(t)
  /\ raced' = (raced \/ \A u \in Task : Persisting(u)')
  /\ Overwrites
  /\ UNCHANGED <<gammaVars, old, saved, file, dropped, ticks, faults>>

-----------------------------------------------------------------------------
(* sync_newest_markets, its pages taken as one *)

WatchBegin ==
  /\ up = "up" /\ watch.at = "idle" /\ ticks < MaxTicks
  /\ ticks' = ticks + 1
  /\ watch' = [NoWatch EXCEPT !.at = "ask", !.known = maxId]
  /\ UNCHANGED <<gammaVars, mem, maxId, up, taskVars, fileVars, history, faults>>

\* Ordered by id, nothing is left out.
WatchFetch ==
  /\ watch.at = "ask"
  /\ watch' = [NoWatch EXCEPT !.at = "got",
       !.page = {KeyOf(m) : m \in {n \in Market : /\ stamp[n] > 0 /\ place[n] = "active"
                                                  /\ n > watch.known}}]
  /\ UNCHANGED <<gammaVars, mem, maxId, up, taskVars, fileVars, history, ticks, faults>>

WatchFails ==
  /\ watch.at = "ask" /\ faults < MaxFaults
  /\ faults' = faults + 1
  /\ watch' = NoWatch
  /\ UNCHANGED <<gammaVars, mem, maxId, up, taskVars, fileVars, history, ticks>>

WatchRead ==
  LET new == {k \in watch.page : compact_market(k.id)} IN
  /\ watch.at = "got"
  /\ mem' = [m \in Market |->
       IF \E k \in new : k.id = m THEN (CHOOSE k \in new : k.id = m).stamp ELSE mem[m]]
  /\ maxId' = MaxIdOf(mem')
  /\ watch' = NoWatch
  /\ Overwrites
  /\ UNCHANGED <<gammaVars, up, taskVars, fileVars, raced, dropped, ticks, faults>>

Watch == WatchBegin \/ WatchFetch \/ WatchFails \/ WatchRead

-----------------------------------------------------------------------------
(* persist_catalog *)

\* Rows written to the end and synced, into the file t has open. Another task
\* that writes into the same file may have left a mixture.
Written(f, t) ==
  IF t \notin f.open THEN {f}
  ELSE {[f EXCEPT !.rows = snap[t], !.whole = TRUE]} \cup
       {[f EXCEPT !.whole = FALSE] : u \in {v \in f.open : snap[v] # snap[t]}}

\* Mutant: the cursors are saved before the catalog is renamed.
Write_CursorFirst(t) ==
  /\ pc[t] = "write"
  /\ pc' = [pc EXCEPT ![t] = "rename"]
  /\ tmp' \in {[f EXCEPT !.open = @ \ {t}] : f \in Written(tmp, t)}
  /\ file' \in {[f EXCEPT !.open = @ \ {t}] : f \in Written(file, t)}
  /\ saved' = IF t = "sync" THEN walk[t].next ELSE saved
  /\ UNCHANGED <<gammaVars, memVars, walk, page, snap, old, history, ticks, faults>>

Write(t) ==
  /\ pc[t] = "write"
  /\ pc' = [pc EXCEPT ![t] = "rename"]
  /\ tmp' \in {[f EXCEPT !.open = @ \ {t}] : f \in Written(tmp, t)}
  /\ file' \in {[f EXCEPT !.open = @ \ {t}] : f \in Written(file, t)}
  /\ UNCHANGED <<gammaVars, memVars, walk, page, snap, old, saved, history, ticks, faults>>

\* fs::rename; the cursors follow for sync only.
Rename(t) ==
  /\ pc[t] = "rename" /\ tmp.there
  /\ file' = tmp /\ tmp' = NoFile /\ old' = FALSE
  /\ UNCHANGED saved
  /\ IF t = "sync"
     THEN pc' = [pc EXCEPT ![t] = "active"] /\ UNCHANGED <<walk, page, snap>>
     ELSE Idle(t)
  /\ UNCHANGED <<gammaVars, memVars, history, ticks, faults>>

\* The other task renamed the file away.
RenameFails(t) ==
  /\ pc[t] = "rename" /\ ~tmp.there
  /\ Idle(t)
  /\ UNCHANGED <<gammaVars, memVars, fileVars, history, ticks, faults>>

\* save_enrichment_cursor, then save_closed_market_cursor.
SaveCursor ==
  /\ pc["sync"] \in Stream
  /\ saved' = [saved EXCEPT ![pc["sync"]] = walk["sync"].next[pc["sync"]]]
  /\ IF pc["sync"] = "active"
     THEN pc' = [pc EXCEPT !["sync"] = "closed"] /\ UNCHANGED <<walk, page, snap, up>>
     ELSE Idle("sync") /\ up' = "up"
  /\ UNCHANGED <<gammaVars, mem, maxId, watch, tmp, file, old, history, ticks, faults>>

\* An error of the file system before the catalog is renamed or a cursor saved.
SaveFails(t) ==
  /\ pc[t] \in {"rename"} \cup Stream
  /\ t \notin tmp.open \cup file.open
  /\ faults < MaxFaults /\ faults' = faults + 1
  /\ Fail(t)
  /\ UNCHANGED <<gammaVars, fileVars, history, ticks>>

\* The process ends. A file half written stays as it is.
Crash ==
  /\ up # "down" /\ faults < MaxFaults /\ faults' = faults + 1
  /\ Ended
  /\ tmp' = [tmp EXCEPT !.open = {}] /\ file' = [file EXCEPT !.open = {}]
  /\ UNCHANGED <<gammaVars, old, saved, history, ticks>>

Step(t) ==
  \/ Begin(t) \/ Fetch(t) \/ Read(t)
  \/ Write(t) \/ Rename(t) \/ RenameFails(t)
  \/ (t = "sync" /\ SaveCursor)

Next ==
  \/ \E m \in Market, c \in Stream : Touch(m, c)
  \/ Start \/ Watch \/ Crash
  \/ \E t \in Task : Step(t) \/ FetchFails(t) \/ SaveFails(t)

Spec == Init /\ [][Next]_vars

-----------------------------------------------------------------------------
(* Properties *)

\* Markets the catalog is to hold.
Wanted(m) ==
  stamp[m] > 0 /\ m \notin Nameless /\ (place[m] = "closed" => stamp[m] >= Boundary)

\* ... and that Gamma has not left out of the pages of sync for good.
Due(m) == Wanted(m) /\ m \notin dropped["sync"]

\* As long as no two saves overlapped, a market the saved cursor has passed is
\* in the saved catalog as Gamma has it: the catalog is durable before the
\* cursor (persist_catalog), across crashes, failed passes and old files. The
\* markets Gamma left out are excepted, until they change.
CatalogBeforeCursor ==
  ~raced /\ ~stale =>
    \A m \in Market : /\ Due(m) /\ stamp[m] < saved[place[m]].stamp
                      /\ (old => up # "down")
                      => file.there /\ file.whole /\ file.rows[m] = stamp[m]

\* As long as no page was overtaken, a running process holds every market its
\* saved cursor has passed, as Gamma has it: a pass that fails half way leaves
\* nothing behind the cursor. Markets Gamma left out are excepted: what
\* run_catalog_reconcile says of them is that the cursor passes them for good.
HeldBehindCursor ==
  up # "down" /\ ~raced /\ ~stale =>
    \A m \in Market : Due(m) /\ stamp[m] < saved[place[m]].stamp => mem[m] = stamp[m]

\* run_catalog_reconcile: whatever was lost before, the markets left out of the
\* pages of sync too, when reconcile has walked both streams and nothing
\* changed meanwhile, the catalog holds what Gamma lists. What its own pages
\* left out is for the next reconcile.
ReconcileRepairs ==
  [][/\ pc["recon"] = "page" /\ pc'["recon"] \in {"idle", "write"} /\ up' = "up" /\ quiet
     => \A m \in Market : Wanted(m) /\ m \notin dropped["recon"] => mem[m] = stamp[m]]_vars
=============================================================================
