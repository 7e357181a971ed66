-------------------------- MODULE CatalogSyncProofs --------------------------
(***************************************************************************)
(* Theorems about the market catalog: what the saved cursor has passed is  *)
(* held and is on disk, and reconcile repairs what was lost, but for the   *)
(* markets Gamma left out of its pages. For any set of markets, whatever   *)
(* Gamma lists, changes and leaves out, and whichever requests and writes  *)
(* fail.                                                                   *)
(***************************************************************************)
EXTENDS CatalogSync, TLAPS

-----------------------------------------------------------------------------
(* Types *)

KeyRec == [stamp : Nat, id : Nat]
MarketKey == [stamp : Nat, id : Market]
Cursors == [Stream -> KeyRec]
Rows == [Market -> Nat]
WalkRec == [stream : Stream, at : KeyRec, prev : Cursors, next : Cursors, changed : BOOLEAN]
FileRec == [rows : Rows, whole : BOOLEAN, open : SUBSET Task, there : BOOLEAN]
Stage == {"idle", "walk", "page", "write", "rename", "active", "closed"}

Types ==
  /\ stamp \in Rows /\ place \in [Market -> Stream] /\ clock \in Nat
  /\ mem \in Rows
  /\ pc \in [Task -> Stage]
  /\ walk \in [Task -> WalkRec]
  /\ page \in [Task -> SUBSET MarketKey]
  /\ snap \in [Task -> Rows]
  /\ tmp \in FileRec /\ file \in FileRec
  /\ saved \in Cursors
  /\ dropped \in [Task -> SUBSET Market]

\* What the watch read is not ahead of Gamma.
WatchInv ==
  watch.page \subseteq MarketKey /\ \A k \in watch.page : k.stamp <= stamp[k.id]

LEMMA EmptyTypes ==
  /\ Empty \in Rows /\ NoFile \in FileRec /\ NoCursors \in Cursors
  /\ \A c \in Stream : NoCursors[c].stamp = 0
  /\ [stamp |-> MaxStamp + 1, id |-> 0] \in KeyRec
<1>1. Empty \in Rows
  BY DEF Empty, Rows
<1>2. NoFile \in FileRec
  BY <1>1 DEF NoFile, FileRec
<1>3. NoCursors \in Cursors /\ \A c \in Stream : NoCursors[c].stamp = 0
  BY DEF NoCursors, NoCursor, Cursors, KeyRec
<1>4. [stamp |-> MaxStamp + 1, id |-> 0] \in KeyRec
  BY CatalogAssumption DEF KeyRec
<1> QED BY <1>1, <1>2, <1>3, <1>4

\* A walk begins above all markets.
LEMMA NewWalkFacts ==
  ASSUME NEW prev \in Cursors
  PROVE  /\ NewWalk(prev) \in WalkRec /\ NewWalk(prev).stream = "active"
         /\ NewWalk(prev).at = [stamp |-> MaxStamp + 1, id |-> 0]
         /\ NewWalk(prev).prev = prev /\ NewWalk(prev).next = prev
  BY EmptyTypes DEF NewWalk, WalkRec, Stream

LEMMA IdleTypes ==
  ASSUME Types, NEW t \in Task, Idle(t)
  PROVE  /\ pc' \in [Task -> Stage] /\ walk' \in [Task -> WalkRec]
         /\ page' \in [Task -> SUBSET MarketKey] /\ snap' \in [Task -> Rows]
<1>1. NewWalk(NoCursors) \in WalkRec /\ Empty \in Rows
  BY EmptyTypes, NewWalkFacts
<1>2. pc' = [pc EXCEPT ![t] = "idle"] /\ walk' = [walk EXCEPT ![t] = NewWalk(NoCursors)]
      /\ page' = [page EXCEPT ![t] = {}] /\ snap' = [snap EXCEPT ![t] = Empty]
  BY DEF Idle
<1> QED BY <1>1, <1>2 DEF Types, Stage

LEMMA EndedTypes ==
  ASSUME Ended
  PROVE  /\ pc' \in [Task -> Stage] /\ walk' \in [Task -> WalkRec] /\ mem' \in Rows
         /\ page' \in [Task -> SUBSET MarketKey] /\ snap' \in [Task -> Rows]
<1>1. NewWalk(NoCursors) \in WalkRec /\ Empty \in Rows
  BY EmptyTypes, NewWalkFacts
<1>2. /\ mem' = Empty
      /\ pc' = [t \in Task |-> "idle"] /\ walk' = [t \in Task |-> NewWalk(NoCursors)]
      /\ page' = [t \in Task |-> {}] /\ snap' = [t \in Task |-> Empty]
  BY DEF Ended
<1> QED BY <1>1, <1>2 DEF Stage

LEMMA FailTypes ==
  ASSUME Types, NEW t \in Task, Fail(t)
  PROVE  /\ pc' \in [Task -> Stage] /\ walk' \in [Task -> WalkRec] /\ mem' \in Rows
         /\ page' \in [Task -> SUBSET MarketKey] /\ snap' \in [Task -> Rows]
<1>1. CASE Ended
  BY <1>1, EndedTypes
<1>2. CASE Idle(t) /\ UNCHANGED memVars
  BY <1>2, IdleTypes DEF memVars, Types
<1> QED BY <1>1, <1>2 DEF Fail

LEMMA KeyType ==
  ASSUME Types, NEW m \in Market
  PROVE  KeyOf(m) \in MarketKey /\ KeyOf(m).stamp = stamp[m] /\ KeyOf(m).id = m
  BY DEF Types, Rows, KeyOf, MarketKey

\* What a market taken does to the walk and the catalog.
LEMMA TakeFacts ==
  ASSUME Types, NEW t \in Task, NEW k \in page[t], Take(t, k)
  PROVE  /\ k \in KeyRec /\ k \in MarketKey
         /\ ~Reached(walk[t], k)
         /\ pc' = [pc EXCEPT ![t] = "walk"] /\ page' = [page EXCEPT ![t] = {}]
         /\ walk' \in [Task -> WalkRec]
         /\ \A u \in Task : u # t => walk'[u] = walk[u]
         /\ walk'[t].stream = walk[t].stream /\ walk'[t].at = k /\ walk'[t].prev = walk[t].prev
         /\ \/ walk'[t].next = walk[t].next
            \/ /\ t = "sync" /\ compact_market(k.id)
               /\ walk'[t].next = [walk[t].next EXCEPT ![walk[t].stream] = advance(@, k)]
         /\ compact_market(k.id) /\ t = "sync" =>
               walk'[t].next = [walk[t].next EXCEPT ![walk[t].stream] = advance(@, k)]
         /\ mem' \in Rows
         /\ mem' = IF compact_market(k.id) THEN [mem EXCEPT ![k.id] = k.stamp] ELSE mem
         /\ UNCHANGED <<up, snap, tmp>>
<1> DEFINE w == walk[t]
           c == w.stream
           adv == IF t = "sync" THEN advance(w.next[c], k) ELSE w.next[c]
           nx == [w.next EXCEPT ![c] = adv]
           ch == w.changed \/ mem[k.id] # k.stamp
           w1 == [w EXCEPT !.at = k, !.next = nx, !.changed = ch]
           w2 == [w EXCEPT !.at = k]
<1>1. w \in WalkRec /\ c \in Stream /\ w.next \in Cursors /\ w.changed \in BOOLEAN
  BY DEF Types, WalkRec
<1>2. k \in KeyRec /\ k \in MarketKey /\ k.stamp \in Nat
  <2>1. k \in MarketKey
    BY DEF Types
  <2> QED BY <2>1, CatalogAssumption DEF KeyRec, MarketKey
<1>3. adv \in KeyRec
  BY <1>1, <1>2 DEF advance, Cursors
<1>4. nx \in Cursors /\ ch \in BOOLEAN
  BY <1>1, <1>3 DEF Cursors
<1>5. walk' = [walk EXCEPT ![t] = IF compact_market(k.id) THEN w1 ELSE w2]
  <2>1. CASE compact_market(k.id)
    <3>1. walk' = [walk EXCEPT ![t].at = k,
                       ![t].next[walk[t].stream] = IF t = "sync" THEN advance(@, k) ELSE @,
                       ![t].changed = @ \/ mem[k.id] # k.stamp]
      BY <2>1 DEF Take
    <3>2. walk' = [walk EXCEPT ![t] = w1]
      BY <3>1, <1>1 DEF Types, WalkRec
    <3> QED BY <2>1, <3>2
  <2>2. CASE ~compact_market(k.id)
    <3>1. walk' = [walk EXCEPT ![t].at = k]
      BY <2>2 DEF Take
    <3> QED BY <2>2, <3>1
  <2> QED BY <2>1, <2>2
<1>6. nx = w.next \/ (t = "sync" /\ nx = [w.next EXCEPT ![c] = advance(@, k)])
  BY <1>1 DEF Cursors
<1>7. t = "sync" => nx = [w.next EXCEPT ![c] = advance(@, k)]
  OBVIOUS
<1>8. walk \in [Task -> WalkRec]
  BY DEF Types
<1> HIDE DEF nx, ch, adv
<1>9. w1 \in WalkRec /\ w1.stream = c /\ w1.at = k /\ w1.prev = w.prev /\ w1.next = nx
  BY <1>1, <1>2, <1>4 DEF WalkRec
<1>10. w2 \in WalkRec /\ w2.stream = c /\ w2.at = k /\ w2.prev = w.prev /\ w2.next = w.next
  BY <1>1, <1>2 DEF WalkRec
<1> HIDE DEF w1, w2
<1>11. /\ walk' \in [Task -> WalkRec] /\ \A u \in Task : u # t => walk'[u] = walk[u]
       /\ walk'[t] = IF compact_market(k.id) THEN w1 ELSE w2
  BY <1>5, <1>8, <1>9, <1>10
<1>12. /\ mem' = IF compact_market(k.id) THEN [mem EXCEPT ![k.id] = k.stamp] ELSE mem
       /\ mem' \in Rows
  <2>1. mem' = IF compact_market(k.id) THEN [mem EXCEPT ![k.id] = k.stamp] ELSE mem
    BY DEF Take, upsert
  <2> QED BY <1>2, <2>1 DEF Types, Rows
<1>13. /\ ~Reached(walk[t], k) /\ UNCHANGED <<up, snap, tmp>>
       /\ pc' = [pc EXCEPT ![t] = "walk"] /\ page' = [page EXCEPT ![t] = {}]
  BY DEF Take
<1> QED BY <1>2, <1>6, <1>7, <1>9, <1>10, <1>11, <1>12, <1>13

\* The three ways a stream ends.
Continue(t) ==
  /\ walk[t].stream = "active"
  /\ pc' = [pc EXCEPT ![t] = "walk"] /\ page' = [page EXCEPT ![t] = {}]
  /\ walk' \in [Task -> WalkRec] /\ \A u \in Task : u # t => walk'[u] = walk[u]
  /\ walk'[t].stream = "closed" /\ walk'[t].at = [stamp |-> MaxStamp + 1, id |-> 0]
  /\ walk'[t].prev = walk[t].prev /\ walk'[t].next = walk[t].next
  /\ UNCHANGED <<snap, tmp>>

Persist(t) ==
  /\ walk[t].stream = "closed"
  /\ pc' = [pc EXCEPT ![t] = "write"] /\ page' = [page EXCEPT ![t] = {}]
  /\ snap' = [snap EXCEPT ![t] = mem]
  /\ tmp' = [rows |-> Empty, whole |-> FALSE, open |-> tmp.open \cup {t}, there |-> TRUE]
  /\ UNCHANGED walk

Leave(t) ==
  /\ walk[t].stream = "closed"
  /\ Idle(t) /\ UNCHANGED tmp

LEMMA EndFacts ==
  ASSUME Types, NEW t \in Task, EndStream(t)
  PROVE  /\ UNCHANGED memVars /\ \A k \in page[t] : Reached(walk[t], k)
         /\ Continue(t) \/ Persist(t) \/ Leave(t)
<1>1. UNCHANGED memVars /\ \A k \in page[t] : Reached(walk[t], k)
  BY DEF EndStream
<1>2. walk[t] \in WalkRec /\ walk[t].stream \in Stream
  BY DEF Types, WalkRec
<1>3. CASE walk[t].stream = "active"
  <2> DEFINE at == [stamp |-> MaxStamp + 1, id |-> 0]
             w == [walk[t] EXCEPT !.stream = "closed", !.at = at]
  <2>1. NewWalk(NoCursors).at = at /\ at \in KeyRec
    BY EmptyTypes, NewWalkFacts
  <2>2. walk' = [walk EXCEPT ![t].stream = "closed", ![t].at = NewWalk(NoCursors).at]
    BY <1>3 DEF EndStream
  <2> HIDE DEF at
  <2>3. walk' = [walk EXCEPT ![t] = w]
    BY <2>1, <2>2, <1>2 DEF Types
  <2>4. w \in WalkRec /\ w.stream = "closed" /\ w.at = at /\ w.prev = walk[t].prev /\ w.next = walk[t].next
    BY <1>2, <2>1 DEF WalkRec, Stream
  <2> HIDE DEF w
  <2>5. /\ walk' \in [Task -> WalkRec] /\ walk'[t] = w
        /\ \A u \in Task : u # t => walk'[u] = walk[u]
    BY <2>3, <2>4 DEF Types
  <2>6. pc' = [pc EXCEPT ![t] = "walk"] /\ page' = [page EXCEPT ![t] = {}] /\ UNCHANGED <<snap, tmp>>
    BY <1>3 DEF EndStream
  <2>7. Continue(t)
    BY <1>3, <2>4, <2>5, <2>6 DEF Continue, at
  <2> QED BY <1>1, <2>7
<1>4. CASE walk[t].stream = "closed"
  <2>1. walk[t].stream # "active"
    BY <1>4
  <2>2. Persist(t) \/ Leave(t)
    BY <1>4, <2>1 DEF EndStream, Persist, Leave
  <2> QED BY <1>1, <2>2
<1> QED BY <1>2, <1>3, <1>4 DEF Stream

LEMMA WriteFacts ==
  ASSUME NEW t \in Task, NEW f \in FileRec, snap \in [Task -> Rows],
         NEW g \in {[h EXCEPT !.open = @ \ {t}] : h \in Written(f, t)}
  PROVE  /\ g \in FileRec /\ g.there = f.there /\ g.open = f.open \ {t}
         /\ t \notin f.open => g.rows = f.rows /\ g.whole = f.whole
         /\ f.open = {t} => g.rows = snap[t] /\ g.whole
<1>1. PICK h \in Written(f, t) : g = [h EXCEPT !.open = @ \ {t}]
  OBVIOUS
<1>2. snap[t] \in Rows
  OBVIOUS
<1>3. /\ h \in FileRec /\ h.there = f.there /\ h.open = f.open
      /\ t \notin f.open => h.rows = f.rows /\ h.whole = f.whole
      /\ f.open = {t} => h.rows = snap[t] /\ h.whole
  <2>1. CASE t \notin f.open
    BY <2>1 DEF Written
  <2>2. CASE t \in f.open /\ h = [f EXCEPT !.rows = snap[t], !.whole = TRUE]
    BY <1>2, <2>2 DEF FileRec
  <2>3. CASE t \in f.open /\ h = [f EXCEPT !.whole = FALSE] /\ \E v \in f.open : snap[v] # snap[t]
    BY <2>3 DEF FileRec
  <2> QED BY <2>1, <2>2, <2>3 DEF Written
<1> QED BY <1>1, <1>3 DEF FileRec

\* What Gamma lists at first.
LEMMA InitFacts ==
  ASSUME Init
  PROVE  /\ stamp \in Rows /\ place \in [Market -> Stream]
         /\ clock \in Nat /\ clock <= MaxStamp /\ \A m \in Market : stamp[m] <= clock
         /\ saved \in Cursors /\ \A c \in Stream : saved[c].stamp <= clock
<1>1. stamp \in [Market -> 0..MaxStamp] /\ place \in [Market -> Stream]
  BY ListingAssumption DEF Init
<1>2. PICK m \in Market : clock = stamp[m]
  BY DEF Init
<1>3. clock \in Nat /\ clock <= MaxStamp /\ \A o \in Market : stamp[o] <= clock
  BY <1>1, <1>2, CatalogAssumption DEF Init
<1>4. stamp \in Rows
  BY <1>1, CatalogAssumption DEF Rows
<1>5. NoCursors \in Cursors /\ \A c \in Stream : NoCursors[c].stamp = 0
  BY EmptyTypes
<1>6. CASE saved = NoCursors
  BY <1>1, <1>3, <1>4, <1>5, <1>6
<1>7. ASSUME NEW o \in Market, stamp[o] = clock, saved = [NoCursors EXCEPT ![place[o]] = KeyOf(o)]
      PROVE  saved \in Cursors /\ \A c \in Stream : saved[c].stamp <= clock
  <2>1. KeyOf(o) \in KeyRec /\ KeyOf(o).stamp = clock
    BY <1>3, <1>7, CatalogAssumption DEF KeyOf, KeyRec
  <2>2. saved \in Cursors
    BY <1>1, <1>5, <1>7, <2>1 DEF Cursors
  <2>3. \A c \in Stream : saved[c] = NoCursors[c] \/ saved[c] = KeyOf(o)
    BY <1>5, <1>7 DEF Cursors
  <2> QED BY <1>3, <1>5, <2>1, <2>2, <2>3
<1> QED BY <1>1, <1>3, <1>4, <1>6, <1>7 DEF Init

LEMMA TypesInit == Init => Types
<1> SUFFICES ASSUME Init PROVE Types
  OBVIOUS
<1>1. NewWalk(NoCursors) \in WalkRec
  BY EmptyTypes, NewWalkFacts
<1>2. file \in FileRec
  <2>1. [NoFile EXCEPT !.there = TRUE] \in FileRec
    BY EmptyTypes DEF FileRec
  <2> QED BY <2>1, EmptyTypes DEF Init
<1>3. pc \in [Task -> Stage] /\ walk \in [Task -> WalkRec] /\ page \in [Task -> SUBSET MarketKey]
  BY <1>1 DEF Init, Stage
<1>4. mem \in Rows /\ snap \in [Task -> Rows] /\ tmp \in FileRec
  BY EmptyTypes DEF Init
<1>5. dropped \in [Task -> SUBSET Market]
  BY DEF Init
<1> QED BY <1>2, <1>3, <1>4, <1>5, InitFacts DEF Types

\* A page of a walk: what is passed over is recorded.
LEMMA FetchFacts ==
  ASSUME NEW t \in Task, Fetch(t)
  PROVE  \E top \in SUBSET Market, over \in SUBSET Market :
           /\ page' = [page EXCEPT ![t] = {KeyOf(m) : m \in top}]
           /\ dropped' = [dropped EXCEPT ![t] = @ \cup (over \ Nameless)]
           /\ \A m \in Market : /\ stamp[m] > 0 /\ place[m] = walk[t].stream
                                /\ Below(KeyOf(m), walk[t].at)
                                => m \in over \/ \E o \in top : ~Below(KeyOf(o), KeyOf(m))
           /\ \A o \in top, x \in top : o = x
<1> DEFINE w == walk[t]
           rest == {m \in Market : /\ stamp[m] > 0 /\ place[m] = w.stream
                                   /\ Below(KeyOf(m), w.at)}
           Over(top) == {m \in rest : \A o \in top : Below(KeyOf(o), KeyOf(m))}
<1>1. PICK top \in {{}} \cup {{m} : m \in rest} :
        /\ page' = [page EXCEPT ![t] = {KeyOf(m) : m \in top}]
        /\ dropped' = [dropped EXCEPT ![t] = @ \cup (Over(top) \ Nameless)]
  BY DEF Fetch
<1>2. top \in SUBSET Market /\ Over(top) \in SUBSET Market /\ \A o \in top, x \in top : o = x
  OBVIOUS
<1>3. \A m \in rest : m \in Over(top) \/ \E o \in top : ~Below(KeyOf(o), KeyOf(m))
  OBVIOUS
<1> QED BY <1>1, <1>2, <1>3

LEMMA TypesNext == Types /\ WatchInv /\ [Next]_vars => Types'
<1> SUFFICES ASSUME Types, WatchInv, [Next]_vars PROVE Types'
  OBVIOUS
<1> USE DEF gammaVars, fileVars
<1>1. ASSUME NEW m \in Market, NEW c \in Stream, Touch(m, c) PROVE Types'
  <2>1. PICK s \in {clock, clock + 1} : clock' = s /\ stamp' = [stamp EXCEPT ![m] = s]
    BY <1>1 DEF Touch
  <2>2. place' = [place EXCEPT ![m] = c] /\ UNCHANGED <<mem, pc, walk, page, snap, tmp, file, saved>>
    BY <1>1 DEF Touch, memVars, taskVars
  <2>3. s \in Nat
    BY DEF Types
  <2>4. stamp' \in Rows /\ clock' \in Nat
    BY <2>1, <2>3 DEF Types, Rows
  <2>5. place' \in [Market -> Stream]
    BY <2>2 DEF Types
  <2>6. dropped' \in [Task -> SUBSET Market]
    BY <1>1 DEF Touch, Types
  <2> QED BY <2>2, <2>4, <2>5, <2>6 DEF Types
<1>2. CASE Start
  <2>1. load_catalog \in Rows /\ discard_stale_catalog \in Cursors
    BY EmptyTypes DEF load_catalog, discard_stale_catalog, Types, FileRec
  <2>2. NewWalk(discard_stale_catalog) \in WalkRec
    BY <2>1, NewWalkFacts
  <2>3. /\ mem' = load_catalog /\ saved' = discard_stale_catalog
        /\ pc' = [pc EXCEPT !["sync"] = "walk"]
        /\ walk' = [walk EXCEPT !["sync"] = NewWalk(discard_stale_catalog)]
        /\ UNCHANGED <<stamp, place, clock, page, snap, tmp, file>>
    BY <1>2 DEF Start
  <2>4. pc' \in [Task -> Stage] /\ walk' \in [Task -> WalkRec]
    BY <2>2, <2>3 DEF Types, Stage
  <2>5. dropped' \in [Task -> SUBSET Market]
    BY <1>2 DEF Start, Recalled, Types
  <2> QED BY <2>1, <2>3, <2>4, <2>5 DEF Types
<1>3. CASE WatchRead
  <2> DEFINE new == {k \in watch.page : compact_market(k.id)}
  <2>1. \A k \in new : k.stamp \in Nat
    BY DEF WatchInv, MarketKey
  <2>2. mem' = [m \in Market |->
          IF \E k \in new : k.id = m THEN (CHOOSE k \in new : k.id = m).stamp ELSE mem[m]]
    BY <1>3 DEF WatchRead
  <2> HIDE DEF new
  <2>3. \A m \in Market : (\E k \in new : k.id = m) => (CHOOSE k \in new : k.id = m) \in new
    OBVIOUS
  <2>4. mem' \in Rows
    BY <2>1, <2>2, <2>3 DEF Types, Rows
  <2> QED BY <1>3, <2>4 DEF WatchRead, taskVars, Types
<1>14. CASE WatchBegin \/ WatchFetch \/ WatchFails
  BY <1>14 DEF WatchBegin, WatchFetch, WatchFails, taskVars, history, Types
<1>4. CASE Crash
  <2>1. [tmp EXCEPT !.open = {}] \in FileRec /\ [file EXCEPT !.open = {}] \in FileRec
    BY DEF Types, FileRec
  <2>2. /\ pc' \in [Task -> Stage] /\ walk' \in [Task -> WalkRec] /\ mem' \in Rows
        /\ page' \in [Task -> SUBSET MarketKey] /\ snap' \in [Task -> Rows]
    BY <1>4, EndedTypes DEF Crash
  <2> QED BY <1>4, <2>1, <2>2 DEF Crash, history, Types
<1>5. ASSUME NEW t \in Task, Begin(t) PROVE Types'
  <2>1. NewWalk(IF t = "sync" THEN saved ELSE NoCursors) \in WalkRec
    BY NewWalkFacts, EmptyTypes DEF Types
  <2>2. /\ pc' = [pc EXCEPT ![t] = "walk"]
        /\ walk' = [walk EXCEPT ![t] = NewWalk(IF t = "sync" THEN saved ELSE NoCursors)]
        /\ UNCHANGED <<stamp, place, clock, mem, page, snap, tmp, file, saved>>
    BY <1>5 DEF Begin, memVars
  <2>3. pc' \in [Task -> Stage] /\ walk' \in [Task -> WalkRec]
    BY <2>1, <2>2 DEF Types, Stage
  <2>4. dropped' \in [Task -> SUBSET Market]
    BY <1>5 DEF Begin, Recalled, Types
  <2> QED BY <2>2, <2>3, <2>4 DEF Types
<1>6. ASSUME NEW t \in Task, Fetch(t) PROVE Types'
  <2>1. PICK top \in SUBSET Market, over \in SUBSET Market :
          /\ page' = [page EXCEPT ![t] = {KeyOf(m) : m \in top}]
          /\ dropped' = [dropped EXCEPT ![t] = @ \cup (over \ Nameless)]
    BY <1>6, FetchFacts
  <2>2. {KeyOf(m) : m \in top} \in SUBSET MarketKey
    BY KeyType
  <2>3. pc' \in [Task -> Stage] /\ page' \in [Task -> SUBSET MarketKey]
    BY <1>6, <2>1, <2>2 DEF Fetch, Types, Stage
  <2>4. dropped' \in [Task -> SUBSET Market]
    BY <2>1 DEF Types
  <2> QED BY <1>6, <2>3, <2>4 DEF Fetch, memVars, Types
<1>7. ASSUME NEW t \in Task, FetchFails(t) \/ SaveFails(t) PROVE Types'
  BY <1>7, FailTypes DEF FetchFails, SaveFails, history, Types
<1>8. ASSUME NEW t \in Task, Read(t) PROVE Types'
  <2>1. UNCHANGED <<stamp, place, clock, saved, file, dropped>>
    BY <1>8 DEF Read
  <2>2. ASSUME NEW k \in page[t], Take(t, k) PROVE Types'
    <3>1. /\ pc' = [pc EXCEPT ![t] = "walk"] /\ page' = [page EXCEPT ![t] = {}]
          /\ walk' \in [Task -> WalkRec] /\ mem' \in Rows /\ UNCHANGED <<snap, tmp>>
      BY <2>2, TakeFacts
    <3>2. pc' \in [Task -> Stage] /\ page' \in [Task -> SUBSET MarketKey]
      BY <3>1 DEF Types, Stage
    <3> QED BY <2>1, <3>1, <3>2 DEF Types
  <2>3. CASE EndStream(t)
    <3>1. mem' = mem
      BY <2>3 DEF EndStream, memVars
    <3>2. CASE Continue(t)
      <4>1. pc' \in [Task -> Stage] /\ page' \in [Task -> SUBSET MarketKey]
        BY <3>2 DEF Continue, Types, Stage
      <4> QED BY <2>1, <3>1, <3>2, <4>1 DEF Continue, Types
    <3>3. CASE Persist(t)
      <4>1. pc' \in [Task -> Stage] /\ page' \in [Task -> SUBSET MarketKey] /\ snap' \in [Task -> Rows]
        BY <3>3 DEF Persist, Types, Stage
      <4>2. tmp' \in FileRec
        BY <3>3, EmptyTypes DEF Persist, Types, FileRec
      <4> QED BY <2>1, <3>1, <3>3, <4>1, <4>2 DEF Persist, Types
    <3>4. CASE Leave(t)
      BY <2>1, <3>1, <3>4, IdleTypes DEF Leave, Types
    <3> QED BY <2>3, <3>2, <3>3, <3>4, EndFacts
  <2> QED BY <1>8, <2>2, <2>3 DEF Read
<1>9. ASSUME NEW t \in Task, Write(t) PROVE Types'
  <2>1. tmp' \in FileRec /\ file' \in FileRec
    BY <1>9, WriteFacts DEF Write, Types
  <2>2. pc' \in [Task -> Stage]
    BY <1>9 DEF Write, Types, Stage
  <2> QED BY <1>9, <2>1, <2>2 DEF Write, memVars, history, Types
<1>10. ASSUME NEW t \in Task, Rename(t) PROVE Types'
  <2>1. file' \in FileRec /\ tmp' \in FileRec /\ UNCHANGED <<stamp, place, clock, mem, saved, dropped>>
    BY <1>10, EmptyTypes DEF Rename, memVars, history, Types
  <2>2. CASE pc' = [pc EXCEPT ![t] = "active"] /\ UNCHANGED <<walk, page, snap>>
    <3>1. pc' \in [Task -> Stage]
      BY <2>2 DEF Types, Stage
    <3> QED BY <2>1, <2>2, <3>1 DEF Types
  <2>3. CASE Idle(t)
    BY <2>1, <2>3, IdleTypes DEF Types
  <2> QED BY <1>10, <2>2, <2>3 DEF Rename
<1>11. ASSUME NEW t \in Task, RenameFails(t) PROVE Types'
  BY <1>11, IdleTypes DEF RenameFails, memVars, history, Types
<1>12. CASE SaveCursor
  <2> DEFINE c == pc["sync"]
  <2>1. c \in Stream /\ saved' = [saved EXCEPT ![c] = walk["sync"].next[c]]
        /\ UNCHANGED <<stamp, place, clock, mem, tmp, file, dropped>>
    BY <1>12 DEF SaveCursor, history
  <2>2. walk["sync"].next[c] \in KeyRec
    BY <2>1 DEF Types, WalkRec, Cursors, Task
  <2> HIDE DEF c
  <2>3. saved' \in Cursors
    BY <2>1, <2>2 DEF Types, Cursors
  <2>4. CASE pc' = [pc EXCEPT !["sync"] = "closed"] /\ UNCHANGED <<walk, page, snap, up>>
    <3>1. pc' \in [Task -> Stage]
      BY <2>4 DEF Types, Stage
    <3> QED BY <2>1, <2>3, <2>4, <3>1 DEF Types
  <2>5. CASE Idle("sync")
    BY <2>1, <2>3, <2>5, IdleTypes DEF Types, Task
  <2> QED BY <1>12, <2>4, <2>5 DEF SaveCursor
<1>13. CASE UNCHANGED vars
  BY <1>13 DEF vars, memVars, taskVars, history, Types
<1> QED BY <1>1, <1>2, <1>3, <1>4, <1>5, <1>6, <1>7, <1>8, <1>9, <1>10, <1>11, <1>12, <1>13, <1>14
        DEF Next, Step, Watch

-----------------------------------------------------------------------------
(* The kinds of steps, task by task *)

Sync == walk["sync"]
Top == [stamp |-> MaxStamp + 1, id |-> 0]

\* The invariant, part by part. First the numbers: no cursor and no page is
\* ahead of Gamma.
Bounds ==
  /\ clock <= MaxStamp /\ \A m \in Market : stamp[m] <= clock
  /\ \A c \in Stream : saved[c].stamp <= clock /\ Sync.next[c].stamp <= clock
  /\ \A t \in Task : \A k \in page[t] : k.stamp <= stamp[k.id]

\* What is so at which place of a task.
Stages ==
  /\ up = "down" => \A t \in Task : pc[t] = "idle"
  /\ up = "boot" => pc["recon"] = "idle"
  /\ pc["recon"] \notin Stream
  /\ old /\ up # "down" => saved = NoCursors /\ pc["sync"] \notin Stream
  /\ pc["sync"] \in {"walk", "page", "write", "rename"} => Sync.prev = saved
  /\ pc["sync"] # "idle" => \A c \in Stream : saved[c].stamp <= Sync.next[c].stamp
  /\ walk["recon"].prev = NoCursors

\* As long as no two saves overlapped, the temporary file is of the task that
\* is saving.
Files ==
  ~raced =>
    /\ ~(Persisting("sync") /\ Persisting("recon"))
    /\ file.open = {}
    /\ \A t \in Task :
       /\ t \in tmp.open => pc[t] = "write"
       /\ pc[t] = "write" => tmp.there /\ tmp.open = {t}
       /\ pc[t] = "rename" => tmp.there /\ tmp.whole /\ tmp.rows = snap[t]

Base == Types /\ Bounds /\ Stages /\ Files /\ WatchInv

Fixed == UNCHANGED <<stamp, place, clock>>
Keeps(u) == pc'[u] = pc[u] /\ walk'[u] = walk[u] /\ page'[u] = page[u] /\ snap'[u] = snap[u]
Others(t) == \A u \in Task \ {t} : Keeps(u)
Rests(u) == pc'[u] = "idle" /\ walk'[u] = NewWalk(NoCursors) /\ page'[u] = {} /\ snap'[u] = Empty

\* Markets that can be held and that a walk is to come by.
Ahead(t, m) ==
  stamp[m] > 0 /\ m \notin Nameless /\ place[m] = walk[t].stream /\ Below(KeyOf(m), walk[t].at)

\* A walk with these cursors begins.
Recall(t, prev) ==
  /\ \A u \in Task \ {t} : dropped'[u] = dropped[u]
  /\ dropped'[t] = {m \in dropped[t] : stamp[m] < prev[place[m]].stamp}

Touched(m) ==
  /\ clock <= clock' /\ clock' <= MaxStamp /\ stamp'[m] = clock'
  /\ \A o \in Market \ {m} : stamp'[o] = stamp[o] /\ place'[o] = place[o]
  /\ \A u \in Task : Keeps(u)
  /\ quiet' = (pc["recon"] = "idle")
  /\ \A u \in Task : dropped'[u] = dropped[u] \ {m}
  /\ UNCHANGED <<mem, up, tmp, file, old, saved, raced, stale>>

Started ==
  /\ Fixed /\ up = "down" /\ up' = "boot"
  /\ mem' = load_catalog /\ saved' = discard_stale_catalog
  /\ pc'["sync"] = "walk" /\ walk'["sync"] = NewWalk(discard_stale_catalog)
  /\ page'["sync"] = page["sync"] /\ snap'["sync"] = snap["sync"]
  /\ file.whole
  /\ Others("sync") /\ Recall("sync", discard_stale_catalog)
  /\ UNCHANGED <<tmp, file, old, raced, stale, quiet>>

\* What was held as Gamma has it is still held so, when nothing went back.
Watched ==
  /\ Fixed /\ \A u \in Task : Keeps(u)
  /\ (stale => stale') /\ (quiet' => quiet)
  /\ ~stale' \/ quiet' => \A m \in Market : mem[m] = stamp[m] => mem'[m] = stamp[m]
  /\ UNCHANGED <<up, tmp, file, old, saved, raced, dropped>>

Began(t) ==
  /\ Fixed /\ Others(t) /\ up = "up"
  /\ pc[t] = "idle" /\ pc'[t] = "walk"
  /\ walk'[t] = NewWalk(IF t = "sync" THEN saved ELSE NoCursors)
  /\ page'[t] = page[t] /\ snap'[t] = snap[t]
  /\ t # "recon" => quiet' = quiet
  /\ Recall(t, IF t = "sync" THEN saved ELSE NoCursors)
  /\ UNCHANGED <<mem, up, tmp, file, old, saved, raced, stale>>

Fetched(t) ==
  /\ Fixed /\ Others(t)
  /\ pc[t] = "walk" /\ pc'[t] = "page"
  /\ \A k \in page'[t] : k = KeyOf(k.id)
  /\ \A m \in Market : Ahead(t, m) =>
       \/ page'[t] # {} /\ \A k \in page'[t] : KeyOf(m) = k \/ Below(KeyOf(m), k)
       \/ m \in dropped'[t]
  /\ dropped[t] \subseteq dropped'[t] /\ \A u \in Task \ {t} : dropped'[u] = dropped[u]
  /\ walk'[t] = walk[t] /\ snap'[t] = snap[t]
  /\ UNCHANGED <<mem, up, tmp, file, old, saved, raced, stale, quiet>>

Took(t, k) ==
  /\ Fixed /\ Others(t)
  /\ pc[t] = "page" /\ pc'[t] = "walk" /\ page'[t] = {}
  /\ k \in page[t] /\ k \in MarketKey /\ ~Reached(walk[t], k)
  /\ walk'[t].stream = walk[t].stream /\ walk'[t].at = k /\ walk'[t].prev = walk[t].prev
  /\ \A c \in Stream :
       \/ walk'[t].next[c] = walk[t].next[c]
       \/ c = walk[t].stream /\ walk'[t].next[c] = k /\ Below(walk[t].next[c], k)
  /\ k.id \notin Nameless => mem'[k.id] = k.stamp
  /\ (stale => stale') /\ (raced => raced') /\ (quiet' => quiet)
  /\ ~stale' \/ quiet' => \A m \in Market : mem[m] = stamp[m] => mem'[m] = stamp[m]
  /\ snap'[t] = snap[t]
  /\ UNCHANGED <<up, tmp, file, old, saved, dropped>>

\* The page is the last of its stream.
Last(t) ==
  /\ Fixed /\ Others(t)
  /\ pc[t] = "page" /\ page'[t] = {}
  /\ \A k \in page[t] : Reached(walk[t], k)
  /\ (stale => stale') /\ (raced => raced') /\ (quiet' => quiet)
  /\ UNCHANGED <<mem, up, file, old, saved, dropped>>

Continued(t) ==
  /\ Last(t) /\ walk[t].stream = "active"
  /\ pc'[t] = "walk" /\ walk'[t].stream = "closed" /\ walk'[t].at = Top
  /\ walk'[t].prev = walk[t].prev /\ walk'[t].next = walk[t].next
  /\ snap'[t] = snap[t] /\ UNCHANGED tmp

Persisted(t) ==
  /\ Last(t) /\ walk[t].stream = "closed"
  /\ pc'[t] = "write" /\ walk'[t] = walk[t] /\ snap'[t] = mem
  /\ tmp'.there /\ tmp'.open = tmp.open \cup {t}
  /\ raced' \/ \E u \in Task : ~Persisting(u)'

Wrote(t) ==
  /\ Fixed /\ Others(t)
  /\ pc[t] = "write" /\ pc'[t] = "rename"
  /\ walk'[t] = walk[t] /\ page'[t] = page[t] /\ snap'[t] = snap[t]
  /\ tmp'.there = tmp.there /\ tmp'.open = tmp.open \ {t}
  /\ tmp.open = {t} => tmp'.whole /\ tmp'.rows = snap[t]
  /\ file.open = {} => file' = file
  /\ UNCHANGED <<mem, up, old, saved, raced, stale, quiet, dropped>>

Renamed(t) ==
  /\ Fixed /\ Others(t)
  /\ pc[t] = "rename"
  /\ IF t = "sync" THEN /\ pc'[t] = "active" /\ walk'[t] = walk[t]
                        /\ page'[t] = page[t] /\ snap'[t] = snap[t]
     ELSE Rests(t)
  /\ file' = tmp /\ tmp' = NoFile /\ old' = FALSE
  /\ UNCHANGED <<mem, up, saved, raced, stale, quiet, dropped>>

CursorSaved ==
  /\ Fixed /\ Others("sync")
  /\ pc["sync"] \in Stream
  /\ saved' = [saved EXCEPT ![pc["sync"]] = Sync.next[pc["sync"]]]
  /\ IF pc["sync"] = "active"
     THEN /\ pc'["sync"] = "closed" /\ walk'["sync"] = Sync /\ page'["sync"] = page["sync"]
          /\ snap'["sync"] = snap["sync"] /\ up' = up
     ELSE Rests("sync") /\ up' = "up"
  /\ UNCHANGED <<mem, tmp, file, old, raced, stale, quiet, dropped>>

\* The process has ended.
Halted ==
  /\ Fixed /\ up' = "down" /\ \A u \in Task : Rests(u)
  /\ ~raced => tmp'.open = {} /\ file'.open = {}
  /\ file'.rows = file.rows /\ file'.whole = file.whole /\ file'.there = file.there
  /\ up # "down"
  /\ UNCHANGED <<old, saved, raced, stale, quiet, dropped>>

\* The pass of t has ended.
Stopped(t) ==
  /\ Fixed /\ Others(t)
  /\ pc[t] \notin {"idle", "write"} /\ Rests(t)
  /\ pc[t] = "page" => walk[t].stream = "closed" /\ \A k \in page[t] : Reached(walk[t], k)
  /\ (stale => stale') /\ (raced => raced') /\ (quiet' => quiet)
  /\ UNCHANGED <<mem, up, tmp, file, old, saved, dropped>>

Kinds ==
  \/ \E m \in Market : Touched(m)
  \/ Started \/ Watched \/ CursorSaved \/ Halted
  \/ \E t \in Task : \/ Began(t) \/ Fetched(t) \/ (\E k \in page[t] : Took(t, k))
                      \/ Continued(t) \/ Persisted(t) \/ Wrote(t) \/ Renamed(t) \/ Stopped(t)
  \/ /\ Fixed /\ \A u \in Task : Keeps(u)
     /\ UNCHANGED <<mem, up, tmp, file, old, saved, raced, stale, quiet, dropped>>

-----------------------------------------------------------------------------
(* Every step is of one of these kinds *)

LEMMA BelowOrder ==
  ASSUME NEW a \in KeyRec, NEW b \in KeyRec
  PROVE  /\ Below(a, b) => ~Below(b, a)
         /\ Below(a, b) => a.stamp <= b.stamp
         /\ a = b => ~Below(a, b)
         /\ a = b \/ Below(a, b) \/ Below(b, a)
  BY DEF Below, KeyRec

LEMMA IdleFacts ==
  ASSUME Types, NEW t \in Task, Idle(t)
  PROVE  Rests(t) /\ Others(t)
  BY DEF Types, Idle, Rests, Others, Keeps

LEMMA EndedFacts ==
  ASSUME Ended
  PROVE  up' = "down" /\ \A u \in Task : Rests(u)
  BY DEF Ended, Rests

LEMMA RecallFacts ==
  ASSUME Types, NEW t \in Task, NEW prev, Recalled(t, prev)
  PROVE  Recall(t, prev)
  BY DEF Types, Recalled, Recall

LEMMA KindsHold ==
  ASSUME Base, [Next]_vars
  PROVE  Kinds
<1> USE DEF gammaVars, memVars, taskVars, fileVars, history
<1>0. Types /\ Bounds /\ Stages /\ Files /\ WatchInv
  BY DEF Base
<1>1. ASSUME NEW m \in Market, NEW c \in Stream, Touch(m, c) PROVE Touched(m)
  <2>1. PICK s \in {clock, clock + 1} : s <= MaxStamp /\ clock' = s /\ stamp' = [stamp EXCEPT ![m] = s]
    BY <1>1 DEF Touch
  <2>2. /\ place' = [place EXCEPT ![m] = c] /\ quiet' = (pc["recon"] = "idle")
        /\ UNCHANGED <<mem, up, pc, walk, page, snap, tmp, file, old, saved, raced, stale>>
    BY <1>1 DEF Touch
  <2>3. stamp'[m] = s /\ \A o \in Market \ {m} : stamp'[o] = stamp[o] /\ place'[o] = place[o]
    BY <1>0, <2>1, <2>2 DEF Types, Rows
  <2>4. clock <= s
    BY <1>0 DEF Types
  <2>5. \A u \in Task : Keeps(u)
    BY <2>2 DEF Keeps
  <2>6. \A u \in Task : dropped'[u] = dropped[u] \ {m}
    BY <1>1 DEF Touch
  <2> QED BY <2>1, <2>2, <2>3, <2>4, <2>5, <2>6 DEF Touched
<1>2. CASE Start
  <2>1. Others("sync") /\ pc'["sync"] = "walk" /\ walk'["sync"] = NewWalk(discard_stale_catalog)
    BY <1>0, <1>2 DEF Start, Types, Others, Keeps, Task
  <2>2. Recall("sync", discard_stale_catalog)
    BY <1>0, <1>2, RecallFacts DEF Start, Task
  <2>3. Started
    BY <1>2, <2>1, <2>2 DEF Start, Started, Fixed
  <2> QED BY <2>3 DEF Kinds
<1>3. CASE WatchRead
  <2> DEFINE new == {k \in watch.page : compact_market(k.id)}
             back == \E m \in Market : mem'[m] < mem[m]
  <2>1. \A k \in new : k.id \in Market /\ k.stamp \in Nat /\ k.stamp <= stamp[k.id]
    BY <1>0 DEF WatchInv, MarketKey
  <2>2. /\ mem' = [m \in Market |->
              IF \E k \in new : k.id = m THEN (CHOOSE k \in new : k.id = m).stamp ELSE mem[m]]
        /\ stale' = (stale \/ back) /\ quiet' = (quiet /\ ~back)
    BY <1>3 DEF WatchRead, Overwrites
  <2>3. ASSUME ~back, NEW m \in Market, mem[m] = stamp[m] PROVE mem'[m] = stamp[m]
    <3> HIDE DEF new
    <3>1. mem'[m] = mem[m] \/ \E k \in new : k.id = m /\ mem'[m] = k.stamp
      BY <2>2
    <3>2. mem'[m] \in Nat => mem'[m] >= mem[m]
      BY <1>0, <2>3 DEF Types, Rows
    <3>3. stamp[m] \in Nat
      BY <1>0 DEF Types, Rows
    <3> QED BY <2>1, <2>3, <3>1, <3>2, <3>3
  <2>4. /\ Fixed /\ (\A u \in Task : Keeps(u))
        /\ UNCHANGED <<up, tmp, file, old, saved, raced, dropped>>
    BY <1>3 DEF WatchRead, Fixed, Keeps
  <2> HIDE DEF back
  <2>5. Watched
    BY <2>2, <2>3, <2>4 DEF Watched
  <2> QED BY <2>5 DEF Kinds
<1>16. CASE WatchBegin \/ WatchFetch \/ WatchFails
  BY <1>16 DEF WatchBegin, WatchFetch, WatchFails, Kinds, Fixed, Keeps
<1>4. CASE Crash
  <2>1. /\ tmp'.open = {} /\ file'.open = {}
        /\ file'.rows = file.rows /\ file'.whole = file.whole /\ file'.there = file.there
    BY <1>0, <1>4 DEF Crash, Types, FileRec
  <2>2. Halted
    BY <1>4, <2>1, EndedFacts DEF Crash, Halted, Fixed
  <2> QED BY <2>2 DEF Kinds
<1>5. ASSUME NEW t \in Task, Begin(t) PROVE Began(t)
  <2>1. /\ Others(t) /\ pc'[t] = "walk"
        /\ walk'[t] = NewWalk(IF t = "sync" THEN saved ELSE NoCursors)
    BY <1>0, <1>5 DEF Begin, Types, Others, Keeps
  <2>2. Recall(t, IF t = "sync" THEN saved ELSE NoCursors)
    BY <1>0, <1>5, RecallFacts DEF Begin
  <2> QED BY <1>5, <2>1, <2>2 DEF Begin, Began, Fixed
<1>6. ASSUME NEW t \in Task, Fetch(t) PROVE Fetched(t)
  <2>1. PICK top \in SUBSET Market, over \in SUBSET Market :
          /\ page' = [page EXCEPT ![t] = {KeyOf(m) : m \in top}]
          /\ dropped' = [dropped EXCEPT ![t] = @ \cup (over \ Nameless)]
          /\ \A m \in Market : /\ stamp[m] > 0 /\ place[m] = walk[t].stream
                               /\ Below(KeyOf(m), walk[t].at)
                               => m \in over \/ \E o \in top : ~Below(KeyOf(o), KeyOf(m))
          /\ \A o \in top, x \in top : o = x
    BY <1>6, FetchFacts
  <2>2. /\ pc[t] = "walk" /\ pc'[t] = "page" /\ walk'[t] = walk[t] /\ snap'[t] = snap[t]
        /\ Others(t) /\ Fixed /\ UNCHANGED <<mem, up, tmp, file, old, saved, raced, stale, quiet>>
    BY <1>0, <1>6, <2>1 DEF Fetch, Types, Others, Keeps, Fixed
  <2>3. /\ page'[t] = {KeyOf(m) : m \in top} /\ dropped'[t] = dropped[t] \cup (over \ Nameless)
        /\ \A u \in Task \ {t} : dropped'[u] = dropped[u]
    BY <1>0, <2>1 DEF Types
  <2>4. \A k \in page'[t] : k = KeyOf(k.id)
    <3>1. \A m \in Market : KeyOf(m).id = m
      BY DEF KeyOf
    <3> QED BY <2>3, <3>1
  <2>5. ASSUME NEW m \in Market, Ahead(t, m), m \notin dropped'[t]
        PROVE  page'[t] # {} /\ \A k \in page'[t] : KeyOf(m) = k \/ Below(KeyOf(m), k)
    <3>1. m \notin over
      BY <2>3, <2>5 DEF Ahead
    <3>2. PICK o \in top : ~Below(KeyOf(o), KeyOf(m))
      BY <2>1, <2>5, <3>1 DEF Ahead
    <3>3. page'[t] = {KeyOf(o)}
      BY <2>1, <2>3, <3>2
    <3>4. KeyOf(o) \in KeyRec /\ KeyOf(m) \in KeyRec
      BY <1>0, <3>2, KeyType, CatalogAssumption DEF MarketKey, KeyRec
    <3>5. KeyOf(m) = KeyOf(o) \/ Below(KeyOf(m), KeyOf(o))
      BY <3>2, <3>4, BelowOrder
    <3> QED BY <3>3, <3>5
  <2> QED BY <2>2, <2>3, <2>4, <2>5 DEF Fetched
<1>7. ASSUME NEW t \in Task, FetchFails(t) \/ SaveFails(t) PROVE Halted \/ Stopped(t)
  <2>1. pc[t] \notin {"idle", "write", "page"} /\ Fixed
        /\ UNCHANGED <<tmp, file, old, saved, raced, stale, quiet, dropped>>
    BY <1>7 DEF FetchFails, SaveFails, Fixed, Stream
  <2>2. CASE up = "boot" /\ Ended
    <3>1. t = "sync"
      BY <1>0, <2>1, <2>2 DEF Stages, Task
    <3>2. ~raced => tmp.open = {} /\ file.open = {}
      <4>1. SUFFICES ASSUME ~raced PROVE tmp.open = {} /\ file.open = {}
        OBVIOUS
      <4>2. file.open = {} /\ \A u \in Task : u \in tmp.open => pc[u] = "write"
        BY <1>0, <4>1 DEF Files
      <4>3. pc["sync"] # "write" /\ pc["recon"] # "write"
        BY <1>0, <2>1, <2>2, <3>1 DEF Stages
      <4>4. tmp.open \subseteq Task
        BY <1>0 DEF Types, FileRec
      <4> QED BY <4>2, <4>3, <4>4 DEF Task
    <3> QED BY <2>1, <2>2, <3>2, EndedFacts DEF Halted
  <2>3. CASE Idle(t) /\ UNCHANGED <<mem, maxId, up, watch>>
    BY <1>0, <2>1, <2>3, IdleFacts DEF Stopped
  <2> QED BY <1>7, <2>2, <2>3 DEF FetchFails, SaveFails, Fail
<1>8. ASSUME NEW t \in Task, Read(t)
      PROVE  (\E k \in page[t] : Took(t, k)) \/ Continued(t) \/ Persisted(t) \/ Stopped(t)
  <2> DEFINE back == \E m \in Market : mem'[m] < mem[m]
  <2>1. /\ pc[t] = "page" /\ Fixed /\ UNCHANGED <<old, saved, file, dropped>>
        /\ raced' = (raced \/ \A u \in Task : Persisting(u)')
        /\ stale' = (stale \/ back) /\ quiet' = (quiet /\ ~back)
    BY <1>8 DEF Read, Overwrites, Fixed
  <2>2. ASSUME NEW k \in page[t], Take(t, k) PROVE Took(t, k)
    <3>1. /\ k \in KeyRec /\ k \in MarketKey /\ ~Reached(walk[t], k)
          /\ pc' = [pc EXCEPT ![t] = "walk"] /\ page' = [page EXCEPT ![t] = {}]
          /\ \A u \in Task : u # t => walk'[u] = walk[u]
          /\ walk'[t].stream = walk[t].stream /\ walk'[t].at = k /\ walk'[t].prev = walk[t].prev
          /\ \/ walk'[t].next = walk[t].next
             \/ walk'[t].next = [walk[t].next EXCEPT ![walk[t].stream] = advance(@, k)]
          /\ mem' = IF compact_market(k.id) THEN [mem EXCEPT ![k.id] = k.stamp] ELSE mem
          /\ mem' \in Rows
          /\ UNCHANGED <<up, snap, tmp>>
      BY <1>0, <2>2, TakeFacts
    <3>2. pc'[t] = "walk" /\ page'[t] = {} /\ Others(t) /\ snap'[t] = snap[t]
      BY <1>0, <3>1 DEF Types, Others, Keeps
    <3>3. \A c \in Stream :
            \/ walk'[t].next[c] = walk[t].next[c]
            \/ c = walk[t].stream /\ walk'[t].next[c] = k /\ Below(walk[t].next[c], k)
      <4>1. walk[t].next \in Cursors
        BY <1>0 DEF Types, WalkRec
      <4> QED BY <3>1, <4>1 DEF Cursors, advance
    <3>4. k.id \in Market /\ k.stamp \in Nat /\ k.stamp <= stamp[k.id] /\ mem \in Rows /\ stamp \in Rows
      BY <1>0, <3>1 DEF Bounds, MarketKey, Types
    <3>5. k.id \notin Nameless => mem'[k.id] = k.stamp
      BY <3>1, <3>4 DEF compact_market, Rows
    <3>6. ASSUME ~back, NEW m \in Market, mem[m] = stamp[m] PROVE mem'[m] = stamp[m]
      <4>1. mem'[m] \in Nat /\ mem[m] \in Nat /\ mem'[m] >= mem[m]
        BY <3>1, <3>4, <3>6 DEF Rows
      <4>2. mem'[m] = mem[m] \/ (m = k.id /\ mem'[m] = k.stamp)
        BY <3>1, <3>4 DEF Rows
      <4> QED BY <3>4, <3>6, <4>1, <4>2
    <3>7. /\ (stale => stale') /\ (raced => raced') /\ (quiet' => quiet)
          /\ ~stale' \/ quiet' => ~back
      BY <2>1
    <3> HIDE DEF back
    <3> QED BY <2>1, <3>1, <3>2, <3>3, <3>5, <3>6, <3>7 DEF Took
  <2>3. CASE EndStream(t)
    <3>1. /\ UNCHANGED <<mem, up>> /\ \A k \in page[t] : Reached(walk[t], k)
          /\ Continue(t) \/ Persist(t) \/ Leave(t)
      BY <1>0, <2>3, EndFacts
    <3>3. (stale => stale') /\ (raced => raced') /\ (quiet' => quiet)
      BY <2>1
    <3>4. CASE Continue(t)
      <4>1. pc'[t] = "walk" /\ page'[t] = {} /\ Others(t) /\ snap'[t] = snap[t]
        BY <1>0, <3>4 DEF Continue, Types, Others, Keeps
      <4>2. Continued(t)
        BY <2>1, <3>1, <3>3, <3>4, <4>1 DEF Continue, Continued, Last, Top
      <4> QED BY <4>2
    <3>5. CASE Persist(t)
      <4>1. /\ pc'[t] = "write" /\ page'[t] = {} /\ Others(t) /\ snap'[t] = mem /\ walk'[t] = walk[t]
            /\ tmp'.there /\ tmp'.open = tmp.open \cup {t}
        BY <1>0, <3>5 DEF Persist, Types, Others, Keeps
      <4>2. Persisted(t)
        BY <2>1, <3>1, <3>3, <3>5, <4>1 DEF Persist, Persisted, Last
      <4> QED BY <4>2
    <3>6. CASE Leave(t)
      <4>1. Stopped(t)
        BY <1>0, <2>1, <3>1, <3>3, <3>6, IdleFacts DEF Leave, Stopped
      <4> QED BY <4>1
    <3> QED BY <3>1, <3>4, <3>5, <3>6
  <2> QED BY <1>8, <2>2, <2>3 DEF Read
<1>9. ASSUME NEW t \in Task, Write(t) PROVE Wrote(t)
  <2>1. /\ Others(t) /\ pc[t] = "write" /\ pc'[t] = "rename" /\ Fixed
        /\ walk'[t] = walk[t] /\ page'[t] = page[t] /\ snap'[t] = snap[t]
        /\ UNCHANGED <<mem, up, old, saved, raced, stale, quiet, dropped>>
    BY <1>0, <1>9 DEF Write, Types, Others, Keeps, Fixed
  <2>2. tmp \in FileRec /\ file \in FileRec /\ snap \in [Task -> Rows]
    BY <1>0 DEF Types
  <2>3. /\ tmp' \in {[h EXCEPT !.open = @ \ {t}] : h \in Written(tmp, t)}
        /\ file' \in {[h EXCEPT !.open = @ \ {t}] : h \in Written(file, t)}
    BY <1>9 DEF Write
  <2>4. /\ tmp'.there = tmp.there /\ tmp'.open = tmp.open \ {t}
        /\ tmp.open = {t} => tmp'.rows = snap[t] /\ tmp'.whole
    BY <2>2, <2>3, WriteFacts
  <2>5. file.open = {} => file' = file
    <3>1. /\ file' \in FileRec /\ file'.there = file.there /\ file'.open = file.open \ {t}
          /\ t \notin file.open => file'.rows = file.rows /\ file'.whole = file.whole
      BY <2>2, <2>3, WriteFacts
    <3> QED BY <2>2, <3>1 DEF FileRec
  <2> QED BY <2>1, <2>4, <2>5 DEF Wrote
<1>10. ASSUME NEW t \in Task, Rename(t) PROVE Renamed(t)
  <2>1. /\ pc[t] = "rename" /\ file' = tmp /\ tmp' = NoFile /\ old' = FALSE /\ Fixed
        /\ UNCHANGED <<mem, up, saved, raced, stale, quiet, dropped>>
    BY <1>10 DEF Rename, Fixed
  <2>2. CASE t = "sync"
    <3>1. pc' = [pc EXCEPT ![t] = "active"] /\ UNCHANGED <<walk, page, snap>>
      BY <1>10, <2>2 DEF Rename
    <3>2. Others(t) /\ pc'[t] = "active"
      BY <1>0, <3>1 DEF Types, Others, Keeps
    <3> QED BY <2>1, <2>2, <3>1, <3>2 DEF Renamed
  <2>3. CASE t # "sync"
    <3>1. Idle(t)
      BY <1>10, <2>3 DEF Rename
    <3> QED BY <1>0, <2>1, <2>3, <3>1, IdleFacts DEF Renamed
  <2> QED BY <2>2, <2>3
<1>11. ASSUME NEW t \in Task, RenameFails(t) PROVE Stopped(t)
  BY <1>0, <1>11, IdleFacts DEF RenameFails, Stopped, Fixed
<1>12. CASE SaveCursor
  <2>1. /\ Fixed /\ pc["sync"] \in Stream /\ saved' = [saved EXCEPT ![pc["sync"]] = Sync.next[pc["sync"]]]
        /\ UNCHANGED <<mem, tmp, file, old, raced, stale, quiet, dropped>>
    BY <1>12 DEF SaveCursor, Fixed, Sync
  <2>2. CASE pc["sync"] = "active"
    <3>1. pc' = [pc EXCEPT !["sync"] = "closed"] /\ UNCHANGED <<walk, page, snap, up>>
      BY <1>12, <2>2 DEF SaveCursor
    <3>2. Others("sync") /\ pc'["sync"] = "closed"
      BY <1>0, <3>1 DEF Types, Others, Keeps, Task
    <3>3. CursorSaved
      BY <2>1, <2>2, <3>1, <3>2 DEF CursorSaved, Sync
    <3> QED BY <3>3 DEF Kinds
  <2>3. CASE pc["sync"] # "active"
    <3>1. Idle("sync") /\ up' = "up" /\ "sync" \in Task
      BY <1>12, <2>3 DEF SaveCursor, Task
    <3>2. CursorSaved
      BY <1>0, <2>1, <2>3, <3>1, IdleFacts DEF CursorSaved
    <3> QED BY <3>2 DEF Kinds
  <2> QED BY <2>2, <2>3
<1>13. CASE UNCHANGED vars
  BY <1>13 DEF vars, Kinds, Fixed, Keeps
<1>14. ASSUME NEW m \in Market, NEW c \in Stream, Touch(m, c) PROVE Kinds
  BY <1>1, <1>14 DEF Kinds
<1>15. ASSUME NEW t \in Task, Step(t) \/ FetchFails(t) \/ SaveFails(t) PROVE Kinds
  BY <1>5, <1>6, <1>7, <1>8, <1>9, <1>10, <1>11, <1>12, <1>15 DEF Kinds, Step
<1> QED BY <1>2, <1>3, <1>4, <1>13, <1>14, <1>15, <1>16 DEF Next, Watch

-----------------------------------------------------------------------------
(* The first parts of the invariant are kept *)

LEMMA WatchNext ==
  ASSUME Base, Types', [Next]_vars
  PROVE  WatchInv'
<1> USE DEF memVars
<1>0. Types /\ Bounds /\ WatchInv
  BY DEF Base
<1>1. \A m \in Market : stamp[m] \in Nat /\ stamp'[m] \in Nat
  BY <1>0 DEF Types, Rows
<1>2. \A m \in Market : stamp[m] <= stamp'[m]
  <2>1. ASSUME NEW m \in Market, NEW c \in Stream, Touch(m, c), NEW o \in Market
        PROVE  stamp[o] <= stamp'[o]
    <3>1. PICK s \in {clock, clock + 1} : stamp' = [stamp EXCEPT ![m] = s]
      BY <2>1 DEF Touch
    <3>2. clock \in Nat /\ stamp[o] <= clock
      BY <1>0 DEF Types, Bounds
    <3>3. stamp'[o] = stamp[o] \/ stamp'[o] = s
      BY <1>0, <3>1 DEF Types, Rows
    <3> QED BY <1>1, <3>2, <3>3
  <2>2. CASE stamp' = stamp
    BY <1>1, <2>2
  <2>3. (\E m \in Market, c \in Stream : Touch(m, c)) \/ stamp' = stamp
    <3>1. Start \/ Watch \/ Crash => stamp' = stamp
      BY DEF Start, Watch, WatchBegin, WatchFetch, WatchFails, WatchRead, Crash, gammaVars
    <3>2. ASSUME NEW t \in Task, Step(t) \/ FetchFails(t) \/ SaveFails(t) PROVE stamp' = stamp
      BY <3>2 DEF Step, Begin, Fetch, Read, Write, Rename, RenameFails, SaveCursor,
                  FetchFails, SaveFails, gammaVars
    <3>3. UNCHANGED vars => stamp' = stamp
      BY DEF vars, gammaVars
    <3> QED BY <3>1, <3>2, <3>3 DEF Next
  <2> QED BY <2>1, <2>2, <2>3
<1>3. CASE watch' = watch
  BY <1>0, <1>1, <1>2, <1>3 DEF WatchInv, MarketKey
<1>4. CASE watch'.page = {}
  BY <1>4 DEF WatchInv
<1>5. CASE WatchFetch
  <2>1. \A k \in watch'.page : \E m \in Market : k = KeyOf(m)
    BY <1>5 DEF WatchFetch, NoWatch
  <2>2. \A k \in watch'.page : k \in MarketKey /\ k.stamp = stamp[k.id] /\ k.id \in Market
    BY <1>0, <2>1, KeyType
  <2> QED BY <1>1, <1>2, <2>2 DEF WatchInv
<1>6. watch' = watch \/ watch'.page = {} \/ WatchFetch
  <2>1. NoWatch.page = {}
    BY DEF NoWatch
  <2>2. Ended => watch'.page = {}
    BY <2>1 DEF Ended
  <2>3. \A t \in Task : Fail(t) => watch' = watch \/ watch'.page = {}
    BY <2>2 DEF Fail
  <2>4. ASSUME NEW m \in Market, NEW c \in Stream, Touch(m, c) PROVE watch' = watch
    BY <2>4 DEF Touch
  <2>5. ASSUME NEW t \in Task, Read(t) PROVE watch' = watch
    <3>1. \A k \in page[t] : Take(t, k) => watch' = watch
      BY DEF Take
    <3>2. EndStream(t) => watch' = watch
      BY DEF EndStream
    <3> QED BY <2>5, <3>1, <3>2 DEF Read
  <2>6. ASSUME NEW t \in Task, Step(t) \/ FetchFails(t) \/ SaveFails(t)
        PROVE  watch' = watch \/ watch'.page = {}
    <3>1. FetchFails(t) \/ SaveFails(t) => Fail(t)
      BY DEF FetchFails, SaveFails
    <3>2. Begin(t) \/ Fetch(t) \/ Write(t) \/ Rename(t) \/ RenameFails(t) => watch' = watch
      BY DEF Begin, Fetch, Write, Rename, RenameFails
    <3>3. SaveCursor => watch' = watch
      BY DEF SaveCursor
    <3> QED BY <2>3, <2>5, <2>6, <3>1, <3>2, <3>3 DEF Step
  <2>7. Start \/ Crash \/ UNCHANGED vars => watch' = watch \/ watch'.page = {}
    BY <2>2 DEF Start, Crash, vars
  <2>8. WatchBegin \/ WatchFails \/ WatchRead => watch'.page = {}
    BY <2>1 DEF WatchBegin, WatchFails, WatchRead, NoWatch
  <2> QED BY <2>4, <2>6, <2>7, <2>8 DEF Next, Watch
<1> QED BY <1>3, <1>4, <1>5, <1>6

\* A walk at rest, or just begun.
LEMMA FreshWalk ==
  ASSUME Types, Bounds, NEW cur \in Cursors, \A c \in Stream : cur[c].stamp <= clock
  PROVE  /\ \A c \in Stream : NewWalk(cur).next[c].stamp <= clock
         /\ NewWalk(cur).next = cur /\ NewWalk(cur).prev = cur
         /\ NewWalk(cur).stream = "active" /\ NewWalk(cur).at = Top
  BY NewWalkFacts DEF Top

LEMMA RestWalk ==
  ASSUME Types, Bounds
  PROVE  /\ NoCursors \in Cursors /\ \A c \in Stream : NoCursors[c].stamp = 0
         /\ NewWalk(NoCursors).prev = NoCursors
         /\ \A c \in Stream : NewWalk(NoCursors).next[c].stamp = 0 /\ 0 <= clock
<1>1. NoCursors \in Cursors /\ \A c \in Stream : NoCursors[c].stamp = 0
  BY EmptyTypes
<1>2. NewWalk(NoCursors).prev = NoCursors /\ NewWalk(NoCursors).next = NoCursors
  BY <1>1, NewWalkFacts
<1>3. 0 <= clock
  BY DEF Types
<1> QED BY <1>1, <1>2, <1>3

LEMMA BoundsNext ==
  ASSUME Base, Kinds, Types'
  PROVE  Bounds'
<1>0. Types /\ Bounds /\ Stages
  BY DEF Base
<1>a. /\ clock \in Nat /\ \A m \in Market : stamp[m] \in Nat /\ stamp[m] <= clock
      /\ \A c \in Stream : saved[c].stamp \in Nat /\ Sync.next[c].stamp \in Nat
      /\ \A c \in Stream : saved[c].stamp <= clock /\ Sync.next[c].stamp <= clock
      /\ clock <= MaxStamp /\ MaxStamp \in Nat
      /\ \A t \in Task : \A k \in page[t] : k.id \in Market /\ k.stamp \in Nat /\ k.stamp <= stamp[k.id]
  <2>1. saved \in Cursors /\ Sync.next \in Cursors
    BY <1>0 DEF Types, WalkRec, Sync, Task
  <2>2. \A t \in Task : \A k \in page[t] : k \in MarketKey
    BY <1>0 DEF Types
  <2>3. \A c \in Stream : saved[c].stamp \in Nat /\ Sync.next[c].stamp \in Nat
    BY <2>1 DEF Cursors, KeyRec
  <2>4. \A t \in Task : \A k \in page[t] : k.id \in Market /\ k.stamp \in Nat
    BY <2>2 DEF MarketKey
  <2>5. clock \in Nat /\ \A m \in Market : stamp[m] \in Nat
    BY <1>0 DEF Types, Rows
  <2> QED BY <1>0, <2>3, <2>4, <2>5, CatalogAssumption DEF Bounds
<1>b. Fixed => /\ clock' <= MaxStamp /\ \A m \in Market : stamp'[m] <= clock'
  BY <1>a DEF Fixed
<1>1. ASSUME NEW m \in Market, Touched(m) PROVE Bounds'
  <2>1. /\ clock' \in Nat /\ clock <= clock' /\ clock' <= MaxStamp /\ stamp'[m] = clock'
        /\ \A o \in Market \ {m} : stamp'[o] = stamp[o]
        /\ saved' = saved /\ \A u \in Task : page'[u] = page[u] /\ walk'[u] = walk[u]
    BY <1>1 DEF Touched, Keeps, Types
  <2>2. \A o \in Market : stamp'[o] \in Nat /\ stamp[o] <= stamp'[o] /\ stamp'[o] <= clock'
    BY <1>a, <2>1
  <2>3. walk'["sync"] = walk["sync"]
    BY <2>1 DEF Task
  <2>4. \A c \in Stream : saved'[c].stamp <= clock' /\ Sync'.next[c].stamp <= clock'
    BY <1>a, <2>1, <2>3 DEF Sync
  <2>5. \A t \in Task : \A k \in page'[t] : k.stamp <= stamp'[k.id]
    BY <1>a, <2>1, <2>2
  <2> QED BY <2>1, <2>2, <2>4, <2>5 DEF Bounds
<1>c. ASSUME Fixed, \A c \in Stream : saved'[c].stamp <= clock,
             \A c \in Stream : walk'["sync"].next[c].stamp <= clock,
             \A t \in Task : \A k \in page'[t] : k.stamp <= stamp[k.id]
      PROVE  Bounds'
  BY <1>b, <1>c DEF Bounds, Fixed, Sync
<1>d. /\ \A c \in Stream : saved[c].stamp <= clock
      /\ \A c \in Stream : walk["sync"].next[c].stamp <= clock
      /\ \A t \in Task : \A k \in page[t] : k.stamp <= stamp[k.id]
  BY <1>a DEF Sync
<1>e. "sync" \in Task /\ Task = {"sync", "recon"}
  BY DEF Task
<1>2. CASE Started
  <2>1. \A c \in Stream : discard_stale_catalog[c].stamp <= clock
    BY <1>0, <1>d, RestWalk DEF discard_stale_catalog
  <2>2. discard_stale_catalog \in Cursors
    BY <1>0, RestWalk DEF discard_stale_catalog, Types
  <2>3. \A c \in Stream : NewWalk(discard_stale_catalog).next[c].stamp <= clock
    BY <1>0, <2>1, <2>2, FreshWalk
  <2>4. \A t \in Task : page'[t] = page[t]
    BY <1>2, <1>e DEF Started, Others, Keeps
  <2> QED BY <1>2, <1>c, <1>d, <2>1, <2>3, <2>4 DEF Started
<1>3. CASE Watched \/ (Fixed /\ (\A u \in Task : Keeps(u)) /\ saved' = saved)
  BY <1>3, <1>c, <1>d, <1>e DEF Watched, Keeps
<1>4. CASE Halted
  <2>1. \A t \in Task : page'[t] = {}
    BY <1>4 DEF Halted, Rests
  <2>2. walk'["sync"] = NewWalk(NoCursors)
    BY <1>4, <1>e DEF Halted, Rests
  <2> QED BY <1>0, <1>4, <1>c, <1>d, <2>1, <2>2, RestWalk DEF Halted
<1>5. ASSUME NEW t \in Task, Began(t) PROVE Bounds'
  <2>1. \A u \in Task : page'[u] = page[u]
    BY <1>5 DEF Began, Others, Keeps
  <2>2. walk'["sync"] = walk["sync"] \/ walk'["sync"] = NewWalk(saved)
    BY <1>5, <1>e DEF Began, Others, Keeps
  <2>3. \A c \in Stream : NewWalk(saved).next[c].stamp <= clock
    BY <1>0, <1>d, FreshWalk DEF Types
  <2> QED BY <1>5, <1>c, <1>d, <2>1, <2>2, <2>3 DEF Began
<1>6. ASSUME NEW t \in Task, Fetched(t) PROVE Bounds'
  <2>1. walk'["sync"] = walk["sync"] /\ \A u \in Task \ {t} : page'[u] = page[u]
    BY <1>6, <1>e DEF Fetched, Others, Keeps
  <2>2. \A k \in page'[t] : k.stamp <= stamp[k.id]
    <3>1. \A k \in page'[t] : k.id \in Market /\ k.stamp = stamp[k.id]
      <4>1. page'[t] \subseteq MarketKey
        BY DEF Types
      <4>2. \A k \in page'[t] : k.id \in Market /\ k = KeyOf(k.id)
        BY <1>6, <4>1 DEF Fetched, MarketKey
      <4> QED BY <4>2 DEF KeyOf
    <3> QED BY <1>a, <3>1
  <2> QED BY <1>6, <1>c, <1>d, <2>1, <2>2 DEF Fetched
<1>7. ASSUME NEW t \in Task, NEW k \in page[t], Took(t, k) PROVE Bounds'
  <2>1. \A u \in Task : page'[u] = {} \/ page'[u] = page[u]
    BY <1>7 DEF Took, Others, Keeps
  <2>2. \A c \in Stream : walk'["sync"].next[c] \in {walk["sync"].next[c], k}
    BY <1>7, <1>e DEF Took, Others, Keeps
  <2>3. k.stamp <= clock
    BY <1>a
  <2> QED BY <1>7, <1>c, <1>d, <2>1, <2>2, <2>3 DEF Took
<1>8. ASSUME NEW t \in Task, Continued(t) \/ Persisted(t) PROVE Bounds'
  <2>1. \A u \in Task : page'[u] = {} \/ page'[u] = page[u]
    BY <1>8 DEF Continued, Persisted, Last, Others, Keeps
  <2>2. walk'["sync"].next = walk["sync"].next
    BY <1>8, <1>e DEF Continued, Persisted, Last, Others, Keeps
  <2> QED BY <1>8, <1>c, <1>d, <2>1, <2>2 DEF Continued, Persisted, Last
<1>9. ASSUME NEW t \in Task, Wrote(t) \/ Renamed(t) \/ Stopped(t) PROVE Bounds'
  <2>1. \A u \in Task : page'[u] = {} \/ page'[u] = page[u]
    BY <1>9 DEF Wrote, Renamed, Stopped, Rests, Others, Keeps
  <2>2. walk'["sync"] = walk["sync"] \/ walk'["sync"] = NewWalk(NoCursors)
    BY <1>9, <1>e DEF Wrote, Renamed, Stopped, Rests, Others, Keeps
  <2> QED BY <1>0, <1>9, <1>c, <1>d, <2>1, <2>2, RestWalk DEF Wrote, Renamed, Stopped
<1>10. CASE CursorSaved
  <2>1. \A u \in Task : page'[u] = {} \/ page'[u] = page[u]
    BY <1>10, <1>e DEF CursorSaved, Rests, Others, Keeps
  <2>2. walk'["sync"] = walk["sync"] \/ walk'["sync"] = NewWalk(NoCursors)
    BY <1>10 DEF CursorSaved, Rests, Sync
  <2>3. \A c \in Stream : saved'[c] = saved[c] \/ saved'[c] = walk["sync"].next[c]
    <3>1. saved \in Cursors
      BY <1>0 DEF Types
    <3> QED BY <1>10, <3>1 DEF CursorSaved, Cursors, Sync
  <2> QED BY <1>0, <1>10, <1>c, <1>d, <2>1, <2>2, <2>3, RestWalk DEF CursorSaved
<1> QED BY <1>1, <1>2, <1>3, <1>4, <1>5, <1>6, <1>7, <1>8, <1>9, <1>10 DEF Kinds

LEMMA StagesNext ==
  ASSUME Base, Kinds, Types'
  PROVE  Stages'
<1>0. Types /\ Bounds /\ Stages
  BY DEF Base
<1>a. \A c \in Stream : saved[c].stamp \in Nat /\ Sync.next[c].stamp \in Nat
  <2>1. saved \in Cursors /\ Sync.next \in Cursors
    BY <1>0 DEF Types, WalkRec, Sync, Task
  <2> QED BY <2>1 DEF Cursors, KeyRec
<1>e. "sync" \in Task /\ "recon" \in Task /\ Task = {"sync", "recon"} /\ Stream = {"active", "closed"}
  BY DEF Task, Stream
<1>f. \A t \in Task : pc[t] # "idle" => up # "down" /\ (t = "recon" => up # "boot")
  BY <1>0 DEF Stages
\* A step that leaves the process, the cursors and the other task alone.
<1>g. ASSUME NEW t \in Task, Others(t), UNCHANGED <<up, saved>>, old' => old,
             pc[t] # "idle" \/ up = "up",
             pc'[t] \notin Stream,
             walk'[t].prev = IF t = "sync" THEN saved ELSE NoCursors,
             t = "sync" => \A c \in Stream : saved[c].stamp <= walk'[t].next[c].stamp
      PROVE  Stages'
  <2>1. up # "down" /\ (t = "recon" => up # "boot")
    BY <1>f, <1>g
  <2>2. CASE t = "sync"
    <3>1. pc'["recon"] = pc["recon"] /\ walk'["recon"] = walk["recon"]
      BY <1>g, <2>2, <1>e DEF Others, Keeps
    <3> QED BY <1>0, <1>g, <2>1, <2>2, <3>1 DEF Stages, Sync
  <2>3. CASE t = "recon"
    <3>1. pc'["sync"] = pc["sync"] /\ walk'["sync"] = walk["sync"]
      BY <1>g, <2>3, <1>e DEF Others, Keeps
    <3> QED BY <1>0, <1>g, <2>1, <2>3, <3>1 DEF Stages, Sync
  <2> QED BY <2>2, <2>3, <1>e
\* The pass of t has ended.
<1>h. ASSUME NEW t \in Task, Others(t), UNCHANGED <<up, saved>>, old' => old, Rests(t)
      PROVE  Stages'
  <2>1. pc'[t] = "idle" /\ walk'[t].prev = NoCursors
    BY <1>0, <1>h, RestWalk DEF Rests
  <2>2. CASE t = "sync"
    <3>1. pc'["recon"] = pc["recon"] /\ walk'["recon"] = walk["recon"]
      BY <1>h, <2>2, <1>e DEF Others, Keeps
    <3> QED BY <1>0, <1>e, <1>h, <2>1, <2>2, <3>1 DEF Stages, Sync
  <2>3. CASE t = "recon"
    <3>1. pc'["sync"] = pc["sync"] /\ walk'["sync"] = walk["sync"]
      BY <1>h, <2>3, <1>e DEF Others, Keeps
    <3> QED BY <1>0, <1>e, <1>h, <2>1, <2>3, <3>1 DEF Stages, Sync
  <2> QED BY <2>2, <2>3, <1>e
\* No task moves.
<1>i. ASSUME \A u \in Task : Keeps(u), UNCHANGED <<up, saved, old>> PROVE Stages'
  <2>1. \A u \in Task : pc'[u] = pc[u] /\ walk'[u] = walk[u]
    BY <1>i DEF Keeps
  <2> QED BY <1>0, <1>e, <1>i, <2>1 DEF Stages, Sync
<1>1. ASSUME NEW m \in Market, Touched(m) PROVE Stages'
  BY <1>1, <1>i DEF Touched
<1>2. CASE Started
  <2>1. discard_stale_catalog \in Cursors /\ (old => discard_stale_catalog = NoCursors)
    BY <1>0, RestWalk DEF discard_stale_catalog, Types
  <2>2. walk'["sync"].prev = saved' /\ walk'["sync"].next = saved'
    BY <1>2, <2>1, NewWalkFacts DEF Started
  <2>3. pc'["recon"] = "idle" /\ walk'["recon"] = walk["recon"]
    BY <1>0, <1>2, <1>e DEF Started, Others, Keeps, Stages
  <2>4. \A c \in Stream : saved'[c].stamp <= saved'[c].stamp
    BY DEF Types, Cursors, KeyRec
  <2> QED BY <1>0, <1>2, <1>e, <2>1, <2>2, <2>3, <2>4 DEF Started, Stages, Sync
<1>3. CASE Watched \/ ((\A u \in Task : Keeps(u)) /\ UNCHANGED <<up, saved, old>>)
  BY <1>3, <1>i DEF Watched
<1>4. CASE Halted
  <2>1. \A u \in Task : pc'[u] = "idle" /\ walk'[u].prev = NoCursors
    BY <1>0, <1>4, RestWalk DEF Halted, Rests
  <2> QED BY <1>4, <1>e, <2>1 DEF Halted, Stages
<1>5. ASSUME NEW t \in Task, Began(t) PROVE Stages'
  <2>1. saved \in Cursors /\ NoCursors \in Cursors
    BY <1>0, RestWalk DEF Types
  <2>2. /\ NewWalk(saved).prev = saved /\ NewWalk(saved).next = saved
        /\ NewWalk(NoCursors).prev = NoCursors
    BY <2>1, NewWalkFacts
  <2>3. \A c \in Stream : saved[c].stamp <= saved[c].stamp
    BY <1>a
  <2> QED BY <1>5, <1>e, <1>g, <2>2, <2>3 DEF Began
<1>k. ASSUME NEW t \in Task, pc[t] \in {"walk", "page", "write"}
      PROVE  /\ pc[t] # "idle" /\ walk[t].prev = IF t = "sync" THEN saved ELSE NoCursors
             /\ t = "sync" => \A c \in Stream : saved[c].stamp <= walk[t].next[c].stamp
  BY <1>0, <1>k, <1>e DEF Stages, Sync
<1>6. ASSUME NEW t \in Task, Fetched(t) PROVE Stages'
  BY <1>6, <1>e, <1>g, <1>k DEF Fetched
<1>7. ASSUME NEW t \in Task, NEW k \in page[t], Took(t, k) PROVE Stages'
  <2>1. t = "sync" => \A c \in Stream : saved[c].stamp <= walk'[t].next[c].stamp
    <3>1. SUFFICES ASSUME t = "sync", NEW c \in Stream PROVE saved[c].stamp <= walk'[t].next[c].stamp
      OBVIOUS
    <3>2. saved[c].stamp <= walk[t].next[c].stamp
      BY <1>7, <1>k, <3>1 DEF Took
    <3>3. walk'[t].next[c] = walk[t].next[c] \/ (walk'[t].next[c] = k /\ Below(walk[t].next[c], k))
      BY <1>7 DEF Took
    <3>4. k \in KeyRec /\ walk[t].next[c] \in KeyRec
      <4>1. k \in MarketKey
        BY <1>0 DEF Types
      <4>2. k \in KeyRec
        BY <4>1, CatalogAssumption DEF MarketKey, KeyRec
      <4>3. walk[t].next \in Cursors
        BY <1>0 DEF Types, WalkRec
      <4> QED BY <4>2, <4>3 DEF Cursors
    <3>5. k.stamp \in Nat /\ walk[t].next[c].stamp \in Nat /\ saved[c].stamp \in Nat
      BY <1>a, <3>4 DEF KeyRec
    <3> QED BY <3>2, <3>3, <3>4, <3>5, BelowOrder
  <2> QED BY <1>7, <1>e, <1>g, <1>k, <2>1 DEF Took
<1>8. ASSUME NEW t \in Task, Continued(t) \/ Persisted(t) PROVE Stages'
  BY <1>8, <1>e, <1>g, <1>k DEF Continued, Persisted, Last
<1>9. ASSUME NEW t \in Task, Wrote(t) PROVE Stages'
  BY <1>9, <1>e, <1>g, <1>k DEF Wrote
<1>10. ASSUME NEW t \in Task, Renamed(t) PROVE Stages'
  <2>1. CASE t = "sync"
    <3>1. /\ pc'["sync"] = "active" /\ walk'["sync"] = walk["sync"] /\ old' = FALSE /\ UNCHANGED <<up, saved>>
          /\ pc["sync"] = "rename"
      BY <1>10, <2>1 DEF Renamed
    <3>2. pc'["recon"] = pc["recon"] /\ walk'["recon"] = walk["recon"]
      BY <1>10, <2>1, <1>e DEF Renamed, Others, Keeps
    <3>3. up # "down"
      BY <1>e, <1>f, <3>1
    <3> QED BY <1>0, <3>1, <3>2, <3>3 DEF Stages, Sync
  <2>2. CASE t = "recon"
    BY <1>10, <1>h, <2>2 DEF Renamed
  <2> QED BY <2>1, <2>2, <1>e
<1>11. ASSUME NEW t \in Task, Stopped(t) PROVE Stages'
  BY <1>11, <1>h DEF Stopped
<1>12. CASE CursorSaved
  <2>1. pc'["recon"] = pc["recon"] /\ walk'["recon"] = walk["recon"] /\ old' = old /\ up # "down" /\ ~old
    BY <1>0, <1>12, <1>e, <1>f DEF CursorSaved, Others, Keeps, Stages
  <2>2. CASE pc["sync"] = "active"
    <3>1. pc'["sync"] = "closed" /\ walk'["sync"] = Sync /\ up' = up
      BY <1>12, <2>2 DEF CursorSaved
    <3>2. saved' = [saved EXCEPT !["active"] = Sync.next["active"]] /\ saved \in Cursors
      BY <1>0, <1>12, <2>2 DEF CursorSaved, Types
    <3>3. \A c \in Stream : saved'[c].stamp <= Sync.next[c].stamp
      <4>1. \A c \in Stream : saved[c].stamp <= Sync.next[c].stamp
        BY <1>0, <2>2 DEF Stages
      <4> QED BY <1>a, <1>e, <3>2, <4>1 DEF Cursors
    <3> QED BY <1>0, <2>1, <3>1, <3>3 DEF Stages, Sync
  <2>3. CASE pc["sync"] # "active"
    <3>1. pc'["sync"] = "idle" /\ up' = "up"
      BY <1>12, <2>3 DEF CursorSaved, Rests
    <3> QED BY <1>0, <1>e, <2>1, <3>1 DEF Stages, Sync
  <2> QED BY <2>2, <2>3
<1> QED BY <1>1, <1>2, <1>3, <1>4, <1>5, <1>6, <1>7, <1>8, <1>9, <1>10, <1>11, <1>12 DEF Kinds

LEMMA FilesNext ==
  ASSUME Base, Kinds, Types'
  PROVE  Files'
<1>0. Types /\ Bounds /\ Stages /\ Files
  BY DEF Base
<1> SUFFICES ASSUME ~raced'
             PROVE  /\ ~(Persisting("sync")' /\ Persisting("recon")')
                    /\ file'.open = {}
                    /\ \A t \in Task :
                       /\ t \in tmp'.open => pc'[t] = "write"
                       /\ pc'[t] = "write" => tmp'.there /\ tmp'.open = {t}
                       /\ pc'[t] = "rename" => tmp'.there /\ tmp'.whole /\ tmp'.rows = snap'[t]
  BY DEF Files
<1> DEFINE Goal1 == /\ ~(Persisting("sync")' /\ Persisting("recon")')
                    /\ file'.open = {}
                    /\ \A t \in Task :
                       /\ t \in tmp'.open => pc'[t] = "write"
                       /\ pc'[t] = "write" => tmp'.there /\ tmp'.open = {t}
                       /\ pc'[t] = "rename" => tmp'.there /\ tmp'.whole /\ tmp'.rows = snap'[t]
           Saving == {"write", "rename"}
<1>e. "sync" \in Task /\ "recon" \in Task /\ Task = {"sync", "recon"}
  BY DEF Task
<1>f. ASSUME ~raced
      PROVE  /\ ~(pc["sync"] \in Saving /\ pc["recon"] \in Saving)
             /\ file.open = {}
             /\ \A t \in Task :
                /\ t \in tmp.open => pc[t] = "write"
                /\ pc[t] = "write" => tmp.there /\ tmp.open = {t}
                /\ pc[t] = "rename" => tmp.there /\ tmp.whole /\ tmp.rows = snap[t]
  BY <1>0, <1>f DEF Files, Persisting
\* A step of t outside persist_catalog.
<1>g. ASSUME NEW t \in Task, Others(t), pc[t] # "write", pc'[t] \notin Saving,
             ~raced, UNCHANGED <<tmp, file>>
      PROVE  Goal1
  <2>1. \A u \in Task \ {t} : pc'[u] = pc[u] /\ snap'[u] = snap[u]
    BY <1>g DEF Others, Keeps
  <2> QED BY <1>e, <1>f, <1>g, <2>1 DEF Persisting
<1>i. ASSUME \A u \in Task : Keeps(u), UNCHANGED <<tmp, file, raced>> PROVE Goal1
  <2>1. \A u \in Task : pc'[u] = pc[u] /\ snap'[u] = snap[u]
    BY <1>i DEF Keeps
  <2> QED BY <1>e, <1>f, <1>i, <2>1 DEF Persisting
<1>1. ASSUME NEW m \in Market, Touched(m) PROVE Goal1
  BY <1>1, <1>i DEF Touched
<1>2. CASE Started
  <2>1. pc["sync"] = "idle"
    BY <1>0, <1>2, <1>e DEF Started, Stages
  <2> QED BY <1>2, <1>e, <1>g, <2>1 DEF Started
<1>3. CASE Watched \/ ((\A u \in Task : Keeps(u)) /\ UNCHANGED <<tmp, file, raced>>)
  BY <1>3, <1>i DEF Watched
<1>4. CASE Halted
  <2>1. \A u \in Task : pc'[u] = "idle"
    BY <1>4 DEF Halted, Rests
  <2> QED BY <1>4, <1>e, <2>1 DEF Halted, Persisting
<1>5. ASSUME NEW t \in Task, Began(t) PROVE Goal1
  BY <1>5, <1>g DEF Began
<1>6. ASSUME NEW t \in Task, Fetched(t) PROVE Goal1
  BY <1>6, <1>g DEF Fetched
<1>7. ASSUME NEW t \in Task, NEW k \in page[t], Took(t, k) PROVE Goal1
  BY <1>7, <1>g DEF Took
<1>8. ASSUME NEW t \in Task, Continued(t) PROVE Goal1
  BY <1>8, <1>g DEF Continued, Last
<1>9. ASSUME NEW t \in Task, Persisted(t) PROVE Goal1
  <2>1. /\ ~raced /\ file' = file /\ pc[t] = "page" /\ pc'[t] = "write"
        /\ tmp'.there /\ tmp'.open = tmp.open \cup {t}
        /\ \A u \in Task \ {t} : pc'[u] = pc[u]
        /\ \E u \in Task : ~Persisting(u)'
    BY <1>9 DEF Persisted, Last, Others, Keeps
  <2>2. \A u \in Task \ {t} : pc'[u] \notin Saving
    BY <2>1, <1>e DEF Persisting
  <2>3. tmp.open = {}
    <3>1. tmp.open \subseteq Task
      BY <1>0 DEF Types, FileRec
    <3> QED BY <1>f, <1>e, <2>1, <2>2, <3>1
  <2> QED BY <1>e, <1>f, <2>1, <2>2, <2>3 DEF Persisting
<1>10. ASSUME NEW t \in Task, Wrote(t) PROVE Goal1
  <2>1. ~raced /\ pc[t] = "write" /\ pc'[t] = "rename" /\ snap'[t] = snap[t]
        /\ \A u \in Task \ {t} : pc'[u] = pc[u]
    BY <1>10 DEF Wrote, Others, Keeps
  <2>2. \A u \in Task \ {t} : pc'[u] \notin Saving
    BY <1>e, <1>f, <2>1
  <2>3. tmp.open = {t} /\ tmp.there /\ file.open = {}
    BY <1>f, <2>1
  <2>4. tmp'.open = {} /\ tmp'.there /\ tmp'.whole /\ tmp'.rows = snap[t] /\ file' = file
    BY <1>10, <2>3 DEF Wrote
  <2> QED BY <1>e, <2>1, <2>2, <2>3, <2>4 DEF Persisting
<1>11. ASSUME NEW t \in Task, Renamed(t) PROVE Goal1
  <2>1. ~raced /\ pc[t] = "rename" /\ pc'[t] \notin Saving /\ file' = tmp /\ tmp' = NoFile
        /\ \A u \in Task \ {t} : pc'[u] = pc[u]
    BY <1>11, <1>e DEF Renamed, Rests, Others, Keeps
  <2>2. \A u \in Task : pc'[u] \notin Saving
    BY <1>e, <1>f, <2>1
  <2>3. tmp.open = {}
    <3>1. tmp.open \subseteq Task
      BY <1>0 DEF Types, FileRec
    <3>2. \A u \in Task : pc[u] # "write"
      BY <1>e, <1>f, <2>1
    <3> QED BY <1>f, <2>1, <3>1, <3>2
  <2>4. NoFile.open = {}
    BY DEF NoFile
  <2> QED BY <1>e, <2>1, <2>2, <2>3, <2>4 DEF Persisting
<1>12. ASSUME NEW t \in Task, Stopped(t) PROVE Goal1
  BY <1>12, <1>g DEF Stopped, Rests
<1>13. CASE CursorSaved
  <2>1. pc["sync"] # "write" /\ pc'["sync"] \notin Saving
    BY <1>13 DEF CursorSaved, Rests, Stream
  <2> QED BY <1>13, <1>e, <1>g, <2>1 DEF CursorSaved
<1> QED BY <1>1, <1>2, <1>3, <1>4, <1>5, <1>6, <1>7, <1>8, <1>9, <1>10, <1>11, <1>12, <1>13 DEF Kinds

-----------------------------------------------------------------------------
(* What the cursors have passed *)

\* The cursors, when the saves under way have ended: of the files, and of the
\* catalog in memory, which is ahead of them.
Goal == IF pc["sync"] \in Stream THEN Sync.next ELSE saved
Limit == IF pc["sync"] \in {"active", "closed", "write", "rename"} THEN Sync.next ELSE saved

Covers(rows, cur) ==
  \A m \in Market : Due(m) /\ stamp[m] < cur[place[m]].stamp => rows[m] = stamp[m]
OnDisk(cur) ==
  \A m \in Market : Due(m) /\ stamp[m] < cur[place[m]].stamp
                   => file.there /\ file.whole /\ file.rows[m] = stamp[m]

\* A walk has left m behind.
Passed(t, m) ==
  IF place[m] = walk[t].stream THEN ~Below(KeyOf(m), walk[t].at) ELSE walk[t].stream = "closed"
OnPage(t, m) == page[t] # {} /\ \A k \in page[t] : KeyOf(m) = k \/ Below(KeyOf(m), k)

\* The walk of sync: what it passed and its next cursors pass is held; what is
\* ahead of it is not ahead of the page it waits for, or changed since, or was
\* left out.
WalkHeld ==
  pc["sync"] \in {"walk", "page"} =>
    \A m \in Market : Due(m) /\ Passed("sync", m) /\ stamp[m] < Sync.next[place[m]].stamp
                     => mem[m] = stamp[m]
PageHeld ==
  pc["sync"] = "page" =>
    \A m \in Market : Ahead("sync", m) =>
      \/ OnPage("sync", m)
      \/ stamp[m] >= Sync.next[Sync.stream].stamp /\ \A k \in page["sync"] : stamp[m] >= k.stamp
      \/ m \in dropped["sync"]

Covered ==
  /\ up # "down" => Covers(mem, Limit)
  /\ ~(old /\ up = "down") => OnDisk(Goal)
  /\ pc["sync"] \in {"write", "rename"} => Covers(snap["sync"], Sync.next)
  /\ pc["recon"] \in {"write", "rename"} => Covers(snap["recon"], Goal)
  /\ WalkHeld /\ PageHeld

CoverInv == ~raced /\ ~stale => Covered

LEMMA CoversLess ==
  ASSUME Types, NEW rows, NEW cur \in Cursors, NEW less \in Cursors,
         \A c \in Stream : less[c].stamp <= cur[c].stamp
  PROVE  /\ Covers(rows, cur) => Covers(rows, less)
         /\ OnDisk(cur) => OnDisk(less)
<1>1. \A m \in Market : stamp[m] \in Nat /\ place[m] \in Stream
  BY DEF Types, Rows
<1>2. \A c \in Stream : cur[c].stamp \in Nat /\ less[c].stamp \in Nat
  BY DEF Cursors, KeyRec
<1>3. \A m \in Market : stamp[m] < less[place[m]].stamp => stamp[m] < cur[place[m]].stamp
  BY <1>1, <1>2
<1> QED BY <1>3 DEF Covers, OnDisk

\* Nothing is behind a cursor that says nothing.
LEMMA CoversNothing ==
  ASSUME Types, NEW rows
  PROVE  Covers(rows, NoCursors) /\ OnDisk(NoCursors)
<1>1. \A m \in Market : stamp[m] \in Nat /\ place[m] \in Stream
  BY DEF Types, Rows
<1>2. \A m \in Market : ~(stamp[m] < NoCursors[place[m]].stamp)
  BY <1>1, EmptyTypes
<1> QED BY <1>2 DEF Covers, OnDisk

\* What was left out stays so, but when it changes or a walk comes by it again.
Grows(t) == dropped[t] \subseteq dropped'[t]

LEMMA DueStays ==
  ASSUME Fixed, Grows("sync")
  PROVE  \A m \in Market : Due(m)' => Due(m)
  BY DEF Fixed, Grows, Due, Wanted

\* While Gamma changes nothing.
LEMMA CoversKept ==
  ASSUME Fixed, NEW rows, NEW rows2, NEW cur,
         \A m \in Market : Due(m)' /\ stamp[m] < cur[place[m]].stamp => Due(m),
         \A m \in Market : rows[m] = stamp[m] => rows2[m] = stamp[m],
         Covers(rows, cur)
  PROVE  \A m \in Market : Due(m)' /\ stamp'[m] < cur[place'[m]].stamp => rows2[m] = stamp'[m]
  BY DEF Fixed, Covers

LEMMA DiskKept ==
  ASSUME Fixed, Grows("sync"), NEW cur, OnDisk(cur),
         file'.there = file.there, file'.whole = file.whole, file'.rows = file.rows
  PROVE  \A m \in Market : Due(m)' /\ stamp'[m] < cur[place'[m]].stamp
                          => file'.there /\ file'.whole /\ file'.rows[m] = stamp'[m]
  BY DueStays DEF Fixed, OnDisk

\* A market Gamma changed is not behind any cursor.
LEMMA TouchedAhead ==
  ASSUME Base, Types', NEW m \in Market, Touched(m), NEW cur \in Cursors,
         \A c \in Stream : cur[c].stamp <= clock
  PROVE  \A o \in Market : /\ stamp'[o] < cur[place'[o]].stamp => o # m
                           /\ o # m => stamp'[o] = stamp[o] /\ place'[o] = place[o] /\ (Due(o)' <=> Due(o))
<1>1. /\ clock \in Nat /\ clock' \in Nat /\ clock <= clock' /\ stamp'[m] = clock' /\ place'[m] \in Stream
      /\ \A o \in Market \ {m} : stamp'[o] = stamp[o] /\ place'[o] = place[o]
  BY DEF Base, Types, Touched
<1>2. cur[place'[m]].stamp \in Nat /\ cur[place'[m]].stamp <= clock
  BY <1>1 DEF Cursors, KeyRec
<1>3. ~(stamp'[m] < cur[place'[m]].stamp)
  BY <1>1, <1>2
<1>4. \A o \in Market \ {m} : o \in dropped'["sync"] <=> o \in dropped["sync"]
  BY DEF Touched, Task
<1> QED BY <1>1, <1>3, <1>4 DEF Due, Wanted

LEMMA CursorTypes ==
  ASSUME Base
  PROVE  /\ saved \in Cursors /\ Sync.next \in Cursors /\ Goal \in Cursors /\ Limit \in Cursors
         /\ \A c \in Stream : /\ Goal[c].stamp <= clock /\ Limit[c].stamp <= clock
                              /\ Sync.next[c].stamp <= clock
                              /\ saved[c].stamp <= Goal[c].stamp /\ Goal[c].stamp <= Limit[c].stamp
<1>1. saved \in Cursors /\ Sync.next \in Cursors
  BY DEF Base, Types, WalkRec, Sync, Task
<1>2. \A c \in Stream : saved[c].stamp \in Nat /\ Sync.next[c].stamp \in Nat
  BY <1>1 DEF Cursors, KeyRec
<1>3. \A c \in Stream : saved[c].stamp <= clock /\ Sync.next[c].stamp <= clock
  BY DEF Base, Bounds
<1>4. pc["sync"] # "idle" => \A c \in Stream : saved[c].stamp <= Sync.next[c].stamp
  BY DEF Base, Stages
<1> QED BY <1>1, <1>2, <1>3, <1>4 DEF Goal, Limit, Stream

\* Every market is below the key a stream begins at.
LEMMA TopAbove ==
  ASSUME Types, Bounds
  PROVE  \A m \in Market : Below(KeyOf(m), Top)
<1> SUFFICES ASSUME NEW m \in Market PROVE Below(KeyOf(m), Top)
  OBVIOUS
<1>1. stamp[m] \in Nat /\ clock \in Nat /\ stamp[m] <= clock /\ clock <= MaxStamp /\ MaxStamp \in Nat
  BY CatalogAssumption DEF Types, Rows, Bounds
<1>2. KeyOf(m).stamp = stamp[m] /\ Top.stamp = MaxStamp + 1
  BY DEF KeyOf, Top
<1> QED BY <1>1, <1>2 DEF Below

\* A step that leaves sync and the cursors alone, and puts nothing older over
\* what is held as Gamma has it.
LEMMA SyncStill ==
  ASSUME Base, Covered, Fixed, Keeps("sync"), Grows("sync"), saved' = saved,
         \A m \in Market : mem[m] = stamp[m] => mem'[m] = stamp[m]
  PROVE  /\ Goal' = Goal /\ Limit' = Limit /\ WalkHeld' /\ PageHeld'
         /\ pc'["sync"] \in {"write", "rename"} => Covers(snap["sync"], Sync.next)'
         /\ up # "down" => Covers(mem, Limit)'
<1>d. \A m \in Market : Due(m)' => Due(m)
  BY DueStays
<1>1. /\ pc'["sync"] = pc["sync"] /\ walk'["sync"] = walk["sync"]
      /\ page'["sync"] = page["sync"] /\ snap'["sync"] = snap["sync"]
  BY DEF Keeps
<1>2. Goal' = Goal /\ Limit' = Limit
  BY <1>1 DEF Goal, Limit, Sync
<1>3. \A m \in Market : KeyOf(m)' = KeyOf(m)
  BY DEF Fixed, KeyOf
<1>4. WalkHeld'
  <2>1. \A m \in Market : Passed("sync", m)' = Passed("sync", m)
    BY <1>1, <1>3 DEF Passed, Fixed
  <2> QED BY <1>1, <1>d, <2>1 DEF Covered, WalkHeld, Fixed, Sync
<1>5. PageHeld'
  <2>1. \A m \in Market : /\ Ahead("sync", m)' = Ahead("sync", m)
                          /\ OnPage("sync", m)' = OnPage("sync", m)
    BY <1>1, <1>3 DEF Ahead, OnPage, Fixed
  <2> QED BY <1>1, <2>1 DEF Covered, PageHeld, Fixed, Sync, Grows
<1>6. pc'["sync"] \in {"write", "rename"} => Covers(snap["sync"], Sync.next)'
  BY <1>1, <1>d DEF Covered, Covers, Fixed, Sync
<1>7. up # "down" => Covers(mem, Limit)'
  <2>1. SUFFICES ASSUME up # "down" PROVE Covers(mem, Limit)'
    OBVIOUS
  <2>2. Covers(mem, Limit)
    BY <2>1 DEF Covered
  <2>3. \A m \in Market : Due(m)' /\ stamp'[m] < Limit[place'[m]].stamp => mem'[m] = stamp'[m]
    BY <1>d, <2>2, CoversKept
  <2> QED BY <1>2, <2>3 DEF Covers
<1> QED BY <1>2, <1>4, <1>5, <1>6, <1>7

\* The last page of a stream of sync: what the next cursor passes in it is held.
LEMMA EndHeld ==
  ASSUME Base, Covered, pc["sync"] = "page", \A k \in page["sync"] : Reached(Sync, k),
         NEW m \in Market, Due(m), stamp[m] < Sync.next[place[m]].stamp,
         place[m] = Sync.stream \/ Sync.stream = "closed"
  PROVE  mem[m] = stamp[m]
<1>0. Types /\ Bounds /\ Stages
  BY DEF Base
<1>1. CASE Passed("sync", m)
  BY <1>1 DEF Covered, WalkHeld
<1>2. CASE ~Passed("sync", m)
  <2>1. place[m] = Sync.stream /\ Below(KeyOf(m), Sync.at)
    BY <1>2 DEF Passed, Sync
  <2>2. Ahead("sync", m)
    BY <2>1 DEF Ahead, Due, Wanted, Sync
  <2>3. Sync \in WalkRec /\ Sync.next \in Cursors /\ place[m] \in Stream /\ stamp[m] \in Nat
    BY <1>0 DEF Types, Rows, Sync, Task, WalkRec
  <2>4. Sync.next[place[m]].stamp \in Nat
    BY <2>3 DEF Cursors, KeyRec
  <2>5. OnPage("sync", m)
    BY <2>1, <2>2, <2>3, <2>4 DEF Covered, PageHeld, Due
  <2>6. PICK k \in page["sync"] : KeyOf(m) = k \/ Below(KeyOf(m), k)
    BY <2>5 DEF OnPage
  <2>7. k \in MarketKey /\ k.stamp \in Nat
    BY <1>0 DEF Types, Task, MarketKey
  <2>8. stamp[m] <= k.stamp
    BY <2>3, <2>6, <2>7 DEF KeyOf, Below
  <2>9. up # "down" /\ Sync.prev = saved /\ Limit = saved
    BY <1>0 DEF Stages, Limit, Task
  <2>10. CASE k.stamp < Sync.prev[Sync.stream].stamp
    <3>1. saved[place[m]].stamp \in Nat
      BY <1>0, <2>3 DEF Types, Cursors, KeyRec
    <3>2. stamp[m] < Limit[place[m]].stamp
      BY <2>1, <2>3, <2>7, <2>8, <2>9, <2>10, <3>1
    <3> QED BY <2>9, <3>2 DEF Covered, Covers
  <2>11. CASE Sync.stream = "closed" /\ k.stamp < Boundary
    <3>1. stamp[m] < Boundary
      BY <2>3, <2>7, <2>8, <2>11, CatalogAssumption
    <3> QED BY <2>1, <2>3, <2>11, <3>1, CatalogAssumption DEF Due, Wanted
  <2> QED BY <2>10, <2>11 DEF Reached
<1> QED BY <1>1, <1>2

LEMMA CoverTouched ==
  ASSUME Base, Types', Covered, NEW m \in Market, Touched(m)
  PROVE  Covered'
<1>1. /\ \A u \in Task : pc'[u] = pc[u] /\ walk'[u] = walk[u] /\ page'[u] = page[u] /\ snap'[u] = snap[u]
      /\ UNCHANGED <<mem, up, tmp, file, old, saved>>
  BY DEF Touched, Keeps
<1>2. "sync" \in Task /\ "recon" \in Task
  BY DEF Task
<1>3. Goal' = Goal /\ Limit' = Limit /\ Sync' = Sync
  BY <1>1, <1>2 DEF Goal, Limit, Sync
<1>4. ASSUME NEW rows, NEW cur \in Cursors, \A c \in Stream : cur[c].stamp <= clock, Covers(rows, cur)
      PROVE  \A o \in Market : Due(o)' /\ stamp'[o] < cur[place'[o]].stamp => rows[o] = stamp'[o]
  BY <1>4, TouchedAhead DEF Covers
<1>5. up # "down" => Covers(mem, Limit)'
  BY <1>1, <1>3, <1>4, CursorTypes DEF Covered, Covers
<1>6. ~(old /\ up = "down") => OnDisk(Goal)'
  <2>1. SUFFICES ASSUME ~(old /\ up = "down") PROVE OnDisk(Goal)'
    OBVIOUS
  <2>2. OnDisk(Goal)
    BY <2>1 DEF Covered
  <2> QED BY <1>1, <1>3, <2>2, CursorTypes, TouchedAhead DEF OnDisk
<1>7. pc["sync"] \in {"write", "rename"} => Covers(snap["sync"], Sync.next)'
  <2>1. SUFFICES ASSUME pc["sync"] \in {"write", "rename"} PROVE Covers(snap["sync"], Sync.next)'
    OBVIOUS
  <2>2. Covers(snap["sync"], Sync.next)
    BY <2>1 DEF Covered
  <2>3. \A o \in Market : Due(o)' /\ stamp'[o] < Sync.next[place'[o]].stamp => snap["sync"][o] = stamp'[o]
    BY <1>4, <2>2, CursorTypes
  <2>4. snap'["sync"] = snap["sync"]
    BY <1>1, <1>2
  <2> QED BY <1>3, <2>3, <2>4 DEF Covers
<1>8. pc["recon"] \in {"write", "rename"} => Covers(snap["recon"], Goal)'
  <2>1. SUFFICES ASSUME pc["recon"] \in {"write", "rename"} PROVE Covers(snap["recon"], Goal)'
    OBVIOUS
  <2>2. Covers(snap["recon"], Goal)
    BY <2>1 DEF Covered
  <2>3. \A o \in Market : Due(o)' /\ stamp'[o] < Goal[place'[o]].stamp => snap["recon"][o] = stamp'[o]
    BY <1>4, <2>2, CursorTypes
  <2>4. snap'["recon"] = snap["recon"]
    BY <1>1, <1>2
  <2> QED BY <1>3, <2>3, <2>4 DEF Covers
<1>a. \A o \in Market : /\ stamp'[o] < Sync.next[place'[o]].stamp => o # m
                        /\ o # m => stamp'[o] = stamp[o] /\ place'[o] = place[o] /\ (Due(o)' <=> Due(o))
  BY CursorTypes, TouchedAhead
<1>9. WalkHeld'
  <2>1. \A o \in Market \ {m} : Passed("sync", o)' = Passed("sync", o)
    BY <1>1, <1>2, <1>a DEF Passed, KeyOf
  <2> QED BY <1>1, <1>2, <1>3, <1>a, <2>1 DEF Covered, WalkHeld
<1>10. PageHeld'
  <2>1. SUFFICES ASSUME pc["sync"] = "page", NEW o \in Market, Ahead("sync", o)'
                 PROVE  \/ OnPage("sync", o)'
                        \/ /\ stamp'[o] >= Sync.next[Sync.stream].stamp
                           /\ \A k \in page["sync"] : stamp'[o] >= k.stamp
                        \/ o \in dropped'["sync"]
    BY <1>1, <1>2, <1>3 DEF PageHeld
  <2>2. CASE o = m
    <3>1. stamp'[o] = clock' /\ clock <= clock' /\ clock \in Nat /\ clock' \in Nat
      BY <2>2 DEF Touched, Types, Base
    <3>2. Sync.stream \in Stream
      BY <1>2 DEF Base, Types, WalkRec, Sync
    <3>3. Sync.next[Sync.stream].stamp \in Nat /\ Sync.next[Sync.stream].stamp <= clock
      BY <3>2, CursorTypes DEF Cursors, KeyRec
    <3>4. \A k \in page["sync"] : k.stamp \in Nat /\ k.stamp <= clock
      <4>1. \A k \in page["sync"] : k.stamp \in Nat /\ k.id \in Market
        BY <1>2 DEF Base, Types, MarketKey
      <4>2. \A k \in page["sync"] : k.stamp <= stamp[k.id]
        BY <1>2 DEF Base, Bounds
      <4>3. \A x \in Market : stamp[x] \in Nat /\ stamp[x] <= clock
        BY DEF Base, Bounds, Types, Rows
      <4> QED BY <3>1, <4>1, <4>2, <4>3
    <3> QED BY <3>1, <3>3, <3>4
  <2>3. CASE o # m
    <3>1. Ahead("sync", o) /\ KeyOf(o)' = KeyOf(o)
      BY <1>1, <1>2, <1>a, <2>1, <2>3 DEF Ahead, KeyOf
    <3>2. OnPage("sync", o)' = OnPage("sync", o)
      BY <1>1, <1>2, <3>1 DEF OnPage
    <3>3. o \in dropped["sync"] => o \in dropped'["sync"]
      BY <1>2, <2>3 DEF Touched
    <3> QED BY <1>a, <2>1, <2>3, <3>1, <3>2, <3>3 DEF Covered, PageHeld
  <2> QED BY <2>2, <2>3
<1> QED BY <1>1, <1>2, <1>5, <1>6, <1>7, <1>8, <1>9, <1>10 DEF Covered

\* Sync rests, and the process goes on with the cursors it has.
LEMMA CoverSyncRests ==
  ASSUME Base, Types', Covered, Fixed, Others("sync"), Grows("sync"), pc'["sync"] = "idle",
         UNCHANGED <<mem, file, old>>, up # "down", up' # "down",
         \A c \in Stream : saved'[c].stamp <= Goal[c].stamp
  PROVE  Covered'
<1>d. \A m \in Market : Due(m)' => Due(m)
  BY DueStays
<1>1. Goal' = saved' /\ Limit' = saved' /\ saved' \in Cursors
  BY DEF Goal, Limit, Stream, Types
<1>2. /\ saved \in Cursors /\ Goal \in Cursors /\ Limit \in Cursors
      /\ \A c \in Stream : Goal[c].stamp <= Limit[c].stamp
  BY CursorTypes
<1>3. \A c \in Stream : saved'[c].stamp <= Limit[c].stamp
  <2>1. \A c \in Stream : saved'[c].stamp \in Nat /\ Goal[c].stamp \in Nat /\ Limit[c].stamp \in Nat
    BY <1>1, <1>2 DEF Cursors, KeyRec
  <2> QED BY <1>2, <2>1
<1>4. Types
  BY DEF Base
<1>5. Covers(mem, Limit)'
  <2>1. Covers(mem, saved')
    BY <1>1, <1>2, <1>3, <1>4, CoversLess DEF Covered
  <2> QED BY <1>1, <2>1, <1>d DEF Covers, Fixed
<1>6. OnDisk(Goal)'
  <2>1. OnDisk(saved')
    BY <1>1, <1>2, <1>4, CoversLess DEF Covered
  <2> QED BY <1>1, <2>1, <1>d DEF OnDisk, Fixed
<1>7. pc'["recon"] \in {"write", "rename"} => Covers(snap["recon"], Goal)'
  <2>1. pc'["recon"] = pc["recon"] /\ snap'["recon"] = snap["recon"]
    BY DEF Others, Keeps, Task
  <2>2. SUFFICES ASSUME pc["recon"] \in {"write", "rename"} PROVE Covers(snap["recon"], Goal)'
    BY <2>1
  <2>3. Covers(snap["recon"], Goal)
    BY <2>2 DEF Covered
  <2>4. Covers(snap["recon"], saved')
    BY <1>1, <1>2, <1>4, <2>3, CoversLess
  <2> QED BY <1>1, <2>1, <2>4, <1>d DEF Covers, Fixed
<1> QED BY <1>5, <1>6, <1>7 DEF Covered, WalkHeld, PageHeld

LEMMA CoverHalted ==
  ASSUME Base, Types', Covered, Halted
  PROVE  Covered'
<1>1. pc'["sync"] = "idle" /\ pc'["recon"] = "idle"
  BY DEF Halted, Rests, Task
<1>2. Goal' = saved
  BY <1>1 DEF Goal, Halted, Stream
<1>3. ~old => OnDisk(Goal)'
  <2>1. SUFFICES ASSUME ~old PROVE OnDisk(Goal)'
    OBVIOUS
  <2>2. OnDisk(saved)
    BY <2>1, CursorTypes, CoversLess DEF Covered, Base
  <2>3. Grows("sync")
    BY DEF Halted, Grows
  <2> QED BY <1>2, <2>2, <2>3, DiskKept DEF OnDisk, Halted
<1> QED BY <1>1, <1>3 DEF Covered, WalkHeld, PageHeld, Halted

LEMMA CoverStarted ==
  ASSUME Base, Types', Bounds', Covered, Started
  PROVE  Covered'
<1>0. Types /\ Bounds /\ Stages
  BY DEF Base
<1>1. pc["sync"] = "idle" /\ pc["recon"] = "idle" /\ pc'["recon"] = "idle"
  BY <1>0 DEF Stages, Started, Others, Keeps, Task
<1>2. Goal = saved /\ Goal' = saved' /\ Limit' = saved'
  BY <1>1 DEF Goal, Limit, Stream, Started
<1>3. Covers(load_catalog, discard_stale_catalog) /\ OnDisk(discard_stale_catalog)
  <2>1. CASE old
    BY <1>0, <2>1, CoversNothing DEF discard_stale_catalog
  <2>2. CASE ~old
    <3>1. OnDisk(saved) /\ discard_stale_catalog = saved
      BY <1>2, <2>2 DEF Covered, discard_stale_catalog
    <3>2. Covers(load_catalog, saved)
      BY <2>2, <3>1 DEF Covers, OnDisk, load_catalog
    <3> QED BY <3>1, <3>2
  <2> QED BY <2>1, <2>2
<1>4. Covers(mem, Limit)' /\ OnDisk(Goal)'
  <2>1. \A m \in Market : Due(m)' /\ stamp[m] < discard_stale_catalog[place[m]].stamp => Due(m)
    BY DEF Started, Recall, Fixed, Due, Wanted
  <2> QED BY <1>2, <1>3, <2>1 DEF Covers, OnDisk, Started, Fixed
<1>5. WalkHeld'
  <2>1. discard_stale_catalog \in Cursors
    BY <1>0, RestWalk DEF discard_stale_catalog, Types
  <2>2. walk'["sync"].stream = "active" /\ walk'["sync"].at = Top
    BY <2>1, NewWalkFacts DEF Started, Top
  <2>3. \A m \in Market : Below(KeyOf(m)', Top)
    BY <1>0, TopAbove DEF Started, Fixed, KeyOf
  <2>4. \A m \in Market : ~Passed("sync", m)'
    BY <2>2, <2>3 DEF Passed
  <2> QED BY <2>4 DEF WalkHeld
<1>6. PageHeld' /\ pc'["sync"] = "walk"
  BY DEF PageHeld, Started
<1> QED BY <1>1, <1>4, <1>5, <1>6 DEF Covered

\* The steps of reconcile, and of the watch: sync is where it was.
LEMMA CoverOthers ==
  ASSUME Base, Types', Covered, ~raced, Fixed, Keeps("sync"), Grows("sync"), UNCHANGED <<saved, up>>,
         \A m \in Market : mem[m] = stamp[m] => mem'[m] = stamp[m],
         \/ file' = file /\ old' = old
         \/ file' = tmp /\ pc["recon"] = "rename" /\ old' = FALSE,
         \/ pc'["recon"] \notin {"write", "rename"}
         \/ pc["recon"] \in {"write", "rename"} /\ snap'["recon"] = snap["recon"]
         \/ pc["recon"] = "page" /\ snap'["recon"] = mem
  PROVE  Covered'
<1>d. \A m \in Market : Due(m)' => Due(m)
  BY DueStays
<1>1. /\ Goal' = Goal /\ Limit' = Limit /\ WalkHeld' /\ PageHeld'
      /\ pc'["sync"] \in {"write", "rename"} => Covers(snap["sync"], Sync.next)'
      /\ up # "down" => Covers(mem, Limit)'
  BY SyncStill
<1>2. ~(old' /\ up = "down") => OnDisk(Goal)'
  <2>1. CASE file' = file /\ old' = old
    <3>1. SUFFICES ASSUME ~(old /\ up = "down") PROVE OnDisk(Goal)'
      BY <2>1
    <3>2. OnDisk(Goal)
      BY <3>1 DEF Covered
    <3> QED BY <1>1, <2>1, <3>2, <1>d DEF OnDisk, Fixed
  <2>2. CASE file' = tmp /\ pc["recon"] = "rename"
    <3>1. tmp.there /\ tmp.whole /\ tmp.rows = snap["recon"]
      BY <2>2 DEF Base, Files, Task
    <3>2. Covers(snap["recon"], Goal)
      BY <2>2 DEF Covered
    <3> QED BY <1>1, <2>2, <3>1, <3>2, <1>d DEF OnDisk, Covers, Fixed
  <2> QED BY <2>1, <2>2
<1>3. pc'["recon"] \in {"write", "rename"} => Covers(snap["recon"], Goal)'
  <2>1. CASE pc["recon"] \in {"write", "rename"} /\ snap'["recon"] = snap["recon"]
    <3>1. Covers(snap["recon"], Goal)
      BY <2>1 DEF Covered
    <3> QED BY <1>1, <2>1, <3>1, <1>d DEF Covers, Fixed
  <2>2. CASE pc["recon"] = "page" /\ snap'["recon"] = mem
    <3>1. up # "down"
      BY <2>2 DEF Base, Stages, Task
    <3>2. Covers(mem, Limit)
      BY <3>1 DEF Covered
    <3>3. Covers(mem, Goal)
      BY <3>2, CursorTypes, CoversLess DEF Base
    <3> QED BY <1>1, <2>2, <3>3, <1>d DEF Covers, Fixed
  <2> QED BY <2>1, <2>2
<1> QED BY <1>1, <1>2, <1>3 DEF Covered

\* A step of sync inside its walk. What it passed and has on its page is left.
LEMMA CoverWalks ==
  ASSUME Base, Types', Covered, Fixed, Others("sync"), UNCHANGED <<saved, up, file, old>>,
         pc["sync"] \in {"idle", "walk", "page"}, pc'["sync"] \in {"walk", "page"},
         \A m \in Market : Due(m)' /\ stamp[m] < saved[place[m]].stamp => Due(m),
         \A m \in Market : mem[m] = stamp[m] => mem'[m] = stamp[m],
         WalkHeld', PageHeld'
  PROVE  Covered'
<1>1. Goal = saved /\ Goal' = saved /\ Limit = saved /\ Limit' = saved
  BY DEF Goal, Limit, Stream
<1>2. pc'["recon"] = pc["recon"] /\ snap'["recon"] = snap["recon"]
  BY DEF Others, Keeps, Task
<1>3. up # "down" => Covers(mem, Limit)'
  <2>1. SUFFICES ASSUME up # "down" PROVE Covers(mem, Limit)'
    OBVIOUS
  <2>2. Covers(mem, saved)
    BY <1>1, <2>1 DEF Covered
  <2>3. \A m \in Market : Due(m)' /\ stamp'[m] < saved[place'[m]].stamp => mem'[m] = stamp'[m]
    BY <2>2, CoversKept
  <2> QED BY <1>1, <2>3 DEF Covers
<1>4. ~(old /\ up = "down") => OnDisk(Goal)'
  BY <1>1 DEF Covered, OnDisk, Fixed
<1>5. pc["recon"] \in {"write", "rename"} => Covers(snap["recon"], Goal)'
  BY <1>1, <1>2 DEF Covered, Covers, Fixed
<1> QED BY <1>2, <1>3, <1>4, <1>5 DEF Covered

LEMMA CoverBegan ==
  ASSUME Base, Types', Covered, Began("sync")
  PROVE  Covered'
<1>0. Types /\ Bounds
  BY DEF Base
<1>1. walk'["sync"].stream = "active" /\ walk'["sync"].at = Top
  BY <1>0, NewWalkFacts DEF Types, Began, Top
<1>2. \A m \in Market : Below(KeyOf(m)', Top)
  BY <1>0, TopAbove DEF Began, Fixed, KeyOf
<1>3. \A m \in Market : ~Passed("sync", m)'
  BY <1>1, <1>2 DEF Passed
<1>4. WalkHeld' /\ PageHeld'
  BY <1>3 DEF WalkHeld, PageHeld, Began
<1>5. \A m \in Market : mem[m] = stamp[m] => mem'[m] = stamp[m]
  BY DEF Began
<1>6. \A m \in Market : Due(m)' /\ stamp[m] < saved[place[m]].stamp => Due(m)
  BY DEF Began, Recall, Fixed, Due, Wanted
<1> QED BY <1>4, <1>5, <1>6, CoverWalks DEF Began

LEMMA CoverFetched ==
  ASSUME Base, Types', Covered, Fetched("sync")
  PROVE  Covered'
<1>1. pc["sync"] = "walk" /\ pc'["sync"] = "page" /\ walk'["sync"] = walk["sync"] /\ mem' = mem /\ Fixed
  BY DEF Fetched
<1>d. \A m \in Market : Due(m)' => Due(m)
  BY DueStays DEF Fetched, Grows
<1>2. \A m \in Market : /\ KeyOf(m)' = KeyOf(m)
                        /\ Ahead("sync", m)' = Ahead("sync", m)
                        /\ Passed("sync", m)' = Passed("sync", m)
  BY <1>1 DEF Fixed, KeyOf, Ahead, Passed
<1>3. WalkHeld'
  BY <1>1, <1>2, <1>d DEF Covered, WalkHeld, Fixed, Sync
<1>4. PageHeld'
  BY <1>1, <1>2 DEF PageHeld, OnPage, Fetched
<1>5. \A m \in Market : mem[m] = stamp[m] => mem'[m] = stamp[m]
  BY <1>1
<1> QED BY <1>3, <1>4, <1>5, <1>d, CoverWalks DEF Fetched

LEMMA CoverTook ==
  ASSUME Base, Types', Covered, NEW k \in page["sync"], Took("sync", k), ~stale'
  PROVE  Covered'
<1>0. Types /\ Bounds
  BY DEF Base
<1>d. \A m \in Market : Due(m)' => Due(m)
  BY DueStays DEF Took, Grows
<1>1. /\ pc["sync"] = "page" /\ pc'["sync"] = "walk" /\ Fixed
      /\ walk'["sync"].stream = Sync.stream /\ walk'["sync"].at = k
      /\ \A c \in Stream :
           \/ walk'["sync"].next[c] = Sync.next[c]
           \/ c = Sync.stream /\ walk'["sync"].next[c] = k
      /\ \A m \in Market : mem[m] = stamp[m] => mem'[m] = stamp[m]
      /\ k \in MarketKey /\ (k.id \notin Nameless => mem'[k.id] = k.stamp)
  BY DEF Took, Sync
<1>2. WalkHeld'
  <2>1. SUFFICES ASSUME NEW m \in Market, Due(m), Passed("sync", m)',
                        stamp[m] < walk'["sync"].next[place[m]].stamp
                 PROVE  mem'[m] = stamp[m]
    BY <1>1, <1>d DEF WalkHeld, Fixed, Sync
  <2>2. Sync.next \in Cursors /\ Sync.stream \in Stream /\ Sync.at \in KeyRec
        /\ place[m] \in Stream /\ stamp[m] \in Nat
    BY <1>0 DEF Types, Rows, Sync, Task, WalkRec
  <2>3. Sync.next[place[m]].stamp \in Nat /\ k.stamp \in Nat /\ k.id \in Market
    BY <1>1, <2>2 DEF Cursors, KeyRec, MarketKey
  <2>4. KeyOf(m)' = KeyOf(m) /\ KeyOf(m).stamp = stamp[m] /\ KeyOf(m).id = m
    BY <1>1 DEF Fixed, KeyOf
  <2>5. place[m] = Sync.stream => ~Below(KeyOf(m), k)
    BY <1>1, <2>1, <2>4 DEF Passed, Fixed
  <2>6. CASE stamp[m] < Sync.next[place[m]].stamp /\ Passed("sync", m)
    BY <1>1, <2>1, <2>6 DEF Covered, WalkHeld
  <2>7. CASE ~(stamp[m] < Sync.next[place[m]].stamp)
    <3>1. place[m] = Sync.stream /\ stamp[m] < k.stamp
      BY <1>1, <2>1, <2>2, <2>7
    <3> QED BY <2>3, <2>4, <2>5, <3>1 DEF Below
  <2>8. CASE stamp[m] < Sync.next[place[m]].stamp /\ ~Passed("sync", m)
    <3>1. place[m] = Sync.stream /\ Below(KeyOf(m), Sync.at)
      BY <1>1, <2>1, <2>8 DEF Passed, Fixed, Sync
    <3>2. Ahead("sync", m)
      BY <2>1, <3>1 DEF Ahead, Due, Wanted, Sync
    <3>3. OnPage("sync", m)
      BY <1>1, <2>1, <2>2, <2>3, <2>8, <3>1, <3>2 DEF Covered, PageHeld, Due
    <3>4. KeyOf(m) = k
      BY <2>5, <3>1, <3>3 DEF OnPage
    <3>5. m \notin Nameless
      BY <2>1 DEF Due, Wanted
    <3> QED BY <1>1, <2>4, <3>4, <3>5
  <2> QED BY <2>6, <2>7, <2>8
<1>3. PageHeld'
  BY <1>1 DEF PageHeld
<1> QED BY <1>1, <1>2, <1>3, <1>d, CoverWalks DEF Took

LEMMA CoverContinued ==
  ASSUME Base, Types', Covered, Continued("sync")
  PROVE  Covered'
<1>0. Types /\ Bounds
  BY DEF Base
<1>d. \A m \in Market : Due(m)' => Due(m)
  BY DueStays DEF Continued, Last, Grows
<1>1. /\ pc["sync"] = "page" /\ pc'["sync"] = "walk" /\ Fixed /\ mem' = mem
      /\ Sync.stream = "active" /\ walk'["sync"].stream = "closed" /\ walk'["sync"].at = Top
      /\ walk'["sync"].next = Sync.next /\ \A k \in page["sync"] : Reached(Sync, k)
  BY DEF Continued, Last, Sync
<1>2. WalkHeld'
  <2>1. SUFFICES ASSUME NEW m \in Market, Due(m), Passed("sync", m)',
                        stamp[m] < Sync.next[place[m]].stamp
                 PROVE  mem[m] = stamp[m]
    BY <1>1, <1>d DEF WalkHeld, Fixed, Sync
  <2>2. place[m] \in Stream /\ Below(KeyOf(m)', Top)
    BY <1>0, <1>1, TopAbove DEF Types, Fixed, KeyOf
  <2>3. place[m] = Sync.stream
    BY <1>1, <2>1, <2>2 DEF Passed, Fixed, Stream
  <2> QED BY <1>1, <2>1, <2>3, EndHeld
<1>3. PageHeld'
  BY <1>1 DEF PageHeld
<1>4. \A m \in Market : mem[m] = stamp[m] => mem'[m] = stamp[m]
  BY <1>1
<1> QED BY <1>1, <1>2, <1>3, <1>4, <1>d, CoverWalks DEF Continued, Last

LEMMA CoverPersisted ==
  ASSUME Base, Types', Covered, Persisted("sync")
  PROVE  Covered'
<1>d. \A m \in Market : Due(m)' => Due(m)
  BY DueStays DEF Persisted, Last, Grows
<1>1. /\ pc["sync"] = "page" /\ pc'["sync"] = "write" /\ Fixed /\ Others("sync")
      /\ walk'["sync"] = walk["sync"] /\ snap'["sync"] = mem
      /\ Sync.stream = "closed" /\ \A k \in page["sync"] : Reached(Sync, k)
      /\ UNCHANGED <<mem, up, file, old, saved>>
  BY DEF Persisted, Last, Sync
<1>2. Covers(mem, Sync.next)
  <2>1. SUFFICES ASSUME NEW m \in Market, Due(m), stamp[m] < Sync.next[place[m]].stamp
                 PROVE  mem[m] = stamp[m]
    BY DEF Covers
  <2> QED BY <1>1, <2>1, EndHeld
<1>3. Goal = saved /\ Goal' = saved /\ Limit' = Sync.next /\ Sync' = Sync
  BY <1>1 DEF Goal, Limit, Stream, Sync
<1>4. Covers(mem, Limit)' /\ Covers(snap["sync"], Sync.next)'
  BY <1>1, <1>2, <1>3, <1>d DEF Covers, Fixed
<1>5. ~(old /\ up = "down") => OnDisk(Goal)'
  BY <1>1, <1>3, <1>d DEF Covered, OnDisk, Fixed
<1>6. pc'["recon"] = pc["recon"] /\ snap'["recon"] = snap["recon"]
  BY <1>1 DEF Others, Keeps, Task
<1>7. pc["recon"] \in {"write", "rename"} => Covers(snap["recon"], Goal)'
  BY <1>1, <1>3, <1>6, <1>d DEF Covered, Covers, Fixed
<1> QED BY <1>1, <1>4, <1>5, <1>6, <1>7 DEF Covered, WalkHeld, PageHeld

LEMMA CoverWrote ==
  ASSUME Base, Types', Covered, ~raced, Wrote("sync")
  PROVE  Covered'
<1>d. \A m \in Market : Due(m)' => Due(m)
  BY DueStays DEF Wrote, Grows
<1>1. /\ pc["sync"] = "write" /\ pc'["sync"] = "rename" /\ Fixed /\ Others("sync")
      /\ walk'["sync"] = walk["sync"] /\ snap'["sync"] = snap["sync"]
      /\ UNCHANGED <<mem, up, old, saved>> /\ (file.open = {} => file' = file)
  BY DEF Wrote
<1>2. file' = file
  BY <1>1 DEF Base, Files
<1>3. Goal' = Goal /\ Limit' = Limit /\ Sync' = Sync
  BY <1>1 DEF Goal, Limit, Stream, Sync
<1>4. up # "down" => Covers(mem, Limit)'
  BY <1>1, <1>3, <1>d DEF Covered, Covers, Fixed
<1>5. Covers(snap["sync"], Sync.next)'
  BY <1>1, <1>3, <1>d DEF Covered, Covers, Fixed
<1>6. ~(old /\ up = "down") => OnDisk(Goal)'
  BY <1>1, <1>2, <1>3, <1>d DEF Covered, OnDisk, Fixed
<1>7. pc'["recon"] = pc["recon"] /\ snap'["recon"] = snap["recon"]
  BY <1>1 DEF Others, Keeps, Task
<1>8. pc["recon"] \in {"write", "rename"} => Covers(snap["recon"], Goal)'
  BY <1>1, <1>3, <1>7, <1>d DEF Covered, Covers, Fixed
<1> QED BY <1>1, <1>4, <1>5, <1>6, <1>7, <1>8 DEF Covered, WalkHeld, PageHeld

LEMMA CoverRenamed ==
  ASSUME Base, Types', Covered, ~raced, Renamed("sync")
  PROVE  Covered'
<1>d. \A m \in Market : Due(m)' => Due(m)
  BY DueStays DEF Renamed, Grows
<1>1. /\ pc["sync"] = "rename" /\ pc'["sync"] = "active" /\ Fixed /\ Others("sync")
      /\ walk'["sync"] = walk["sync"] /\ UNCHANGED <<mem, up, saved>> /\ file' = tmp
  BY DEF Renamed
<1>2. /\ tmp.there /\ tmp.whole /\ tmp.rows = snap["sync"]
      /\ pc'["recon"] = pc["recon"] /\ pc["recon"] \notin {"write", "rename"}
  BY <1>1 DEF Base, Files, Persisting, Others, Keeps, Task
<1>3. Goal' = Sync.next /\ Limit' = Sync.next /\ Limit = Sync.next
  BY <1>1 DEF Goal, Limit, Stream, Sync
<1>4. Covers(snap["sync"], Sync.next)
  BY <1>1 DEF Covered
<1>5. OnDisk(Goal)'
  BY <1>1, <1>2, <1>3, <1>4, <1>d DEF OnDisk, Covers, Fixed
<1>6. up # "down" => Covers(mem, Limit)'
  BY <1>1, <1>3, <1>d DEF Covered, Covers, Fixed
<1> QED BY <1>1, <1>2, <1>5, <1>6 DEF Covered, WalkHeld, PageHeld

LEMMA CoverCursorSaved ==
  ASSUME Base, Types', Covered, CursorSaved
  PROVE  Covered'
<1>d. \A m \in Market : Due(m)' => Due(m)
  BY DueStays DEF CursorSaved, Grows
<1>1. /\ pc["sync"] \in Stream /\ Fixed /\ Others("sync") /\ UNCHANGED <<mem, file, old>>
      /\ saved' = [saved EXCEPT ![pc["sync"]] = Sync.next[pc["sync"]]]
  BY DEF CursorSaved
<1>2. up # "down" /\ ~old /\ Goal = Sync.next /\ Limit = Sync.next
  BY <1>1 DEF Base, Stages, Stream, Task, Goal, Limit
<1>3. CASE pc["sync"] = "active"
  <2>1. pc'["sync"] = "closed" /\ walk'["sync"] = Sync /\ up' = up
    BY <1>3 DEF CursorSaved
  <2>2. Goal' = Sync.next /\ Limit' = Sync.next
    BY <2>1 DEF Goal, Limit, Stream, Sync
  <2>3. Covers(mem, Limit)' /\ OnDisk(Goal)'
    BY <1>1, <1>2, <2>2, <1>d DEF Covered, Covers, OnDisk, Fixed
  <2>4. pc'["recon"] = pc["recon"] /\ snap'["recon"] = snap["recon"]
    BY <1>1 DEF Others, Keeps, Task
  <2>5. pc["recon"] \in {"write", "rename"} => Covers(snap["recon"], Goal)'
    BY <1>1, <1>2, <2>2, <2>4, <1>d DEF Covered, Covers, Fixed
  <2> QED BY <2>1, <2>3, <2>4, <2>5 DEF Covered, WalkHeld, PageHeld
<1>4. CASE pc["sync"] # "active"
  <2>1. pc'["sync"] = "idle" /\ up' = "up"
    BY <1>4 DEF CursorSaved, Rests
  <2>2. \A c \in Stream : saved'[c].stamp <= Goal[c].stamp
    <3>1. saved \in Cursors /\ Goal \in Cursors /\ \A c \in Stream : saved[c].stamp <= Goal[c].stamp
      BY CursorTypes
    <3>2. \A c \in Stream : Goal[c].stamp \in Nat
      BY <3>1 DEF Cursors, KeyRec
    <3>3. \A c \in Stream : saved'[c] = saved[c] \/ saved'[c] = Goal[c]
      BY <1>1, <1>2, <3>1 DEF Cursors
    <3> QED BY <3>1, <3>2, <3>3
  <2>3. Grows("sync")
    BY DEF CursorSaved, Grows
  <2> QED BY <1>1, <1>2, <2>1, <2>2, <2>3, CoverSyncRests
<1> QED BY <1>3, <1>4

LEMMA CoverNext ==
  ASSUME Base, CoverInv, Kinds, Types', Bounds'
  PROVE  CoverInv'
<1> SUFFICES ASSUME ~raced', ~stale' PROVE Covered'
  BY DEF CoverInv
<1>e. "sync" \in Task /\ "recon" \in Task /\ Task = {"sync", "recon"}
  BY DEF Task
<1>f. ~raced /\ ~stale => Covered
  BY DEF CoverInv
<1>1. ASSUME NEW m \in Market, Touched(m) PROVE Covered'
  BY <1>1, <1>f, CoverTouched DEF Touched
<1>2. CASE Started
  BY <1>2, <1>f, CoverStarted DEF Started
<1>3. CASE Watched
  <2>1. ~raced /\ ~stale /\ \A m \in Market : mem[m] = stamp[m] => mem'[m] = stamp[m]
    BY <1>3 DEF Watched
  <2>2. /\ Keeps("sync") /\ Grows("sync")
        /\ pc'["recon"] = pc["recon"] /\ snap'["recon"] = snap["recon"]
    BY <1>3, <1>e DEF Watched, Keeps, Grows
  <2> QED BY <1>3, <1>f, <2>1, <2>2, CoverOthers DEF Watched
<1>4. CASE /\ Fixed /\ \A u \in Task : Keeps(u)
           /\ UNCHANGED <<mem, up, tmp, file, old, saved, raced, stale, quiet, dropped>>
  <2>1. Keeps("sync") /\ Grows("sync") /\ pc'["recon"] = pc["recon"] /\ snap'["recon"] = snap["recon"]
    BY <1>4, <1>e DEF Keeps, Grows
  <2> QED BY <1>4, <1>f, <2>1, CoverOthers
<1>5. CASE Halted
  BY <1>5, <1>f, CoverHalted DEF Halted
<1>6. CASE CursorSaved
  BY <1>6, <1>f, CoverCursorSaved DEF CursorSaved
<1>7. ASSUME NEW t \in Task, Began(t) \/ Fetched(t) PROVE Covered'
  <2>1. ~raced /\ ~stale /\ Covered
    BY <1>7, <1>f DEF Began, Fetched
  <2>2. CASE t = "sync"
    BY <1>7, <2>1, <2>2, CoverBegan, CoverFetched
  <2>3. CASE t = "recon"
    <3>1. Keeps("sync") /\ Grows("sync") /\ pc'["recon"] \notin {"write", "rename"}
      BY <1>7, <1>e, <2>3 DEF Began, Fetched, Others, Recall, Grows
    <3>2. Fixed /\ UNCHANGED <<saved, up, mem, file, old>>
      BY <1>7 DEF Began, Fetched
    <3> QED BY <2>1, <3>1, <3>2, CoverOthers
  <2> QED BY <1>e, <2>2, <2>3
<1>8. ASSUME NEW t \in Task, NEW k \in page[t], Took(t, k) PROVE Covered'
  <2>1. ~raced /\ ~stale /\ Covered
    BY <1>8, <1>f DEF Took
  <2>2. CASE t = "sync"
    BY <1>8, <2>1, <2>2, CoverTook
  <2>3. CASE t = "recon"
    <3>1. Keeps("sync") /\ Grows("sync") /\ pc'["recon"] \notin {"write", "rename"}
      BY <1>8, <1>e, <2>3 DEF Took, Others, Grows
    <3>2. /\ Fixed /\ UNCHANGED <<saved, up, file, old>>
          /\ \A m \in Market : mem[m] = stamp[m] => mem'[m] = stamp[m]
      BY <1>8 DEF Took
    <3> QED BY <2>1, <3>1, <3>2, CoverOthers
  <2> QED BY <1>e, <2>2, <2>3
<1>9. ASSUME NEW t \in Task, Continued(t) \/ Persisted(t) PROVE Covered'
  <2>1. ~raced /\ ~stale /\ Covered
    BY <1>9, <1>f DEF Continued, Persisted, Last
  <2>2. CASE t = "sync"
    BY <1>9, <2>1, <2>2, CoverContinued, CoverPersisted
  <2>3. CASE t = "recon"
    <3>1. /\ Keeps("sync") /\ Grows("sync") /\ pc["recon"] = "page"
          /\ pc'["recon"] \notin {"write", "rename"} \/ snap'["recon"] = mem
      BY <1>9, <1>e, <2>3 DEF Continued, Persisted, Last, Others, Grows
    <3>2. Fixed /\ UNCHANGED <<saved, up, mem, file, old>>
      BY <1>9 DEF Continued, Persisted, Last
    <3> QED BY <2>1, <3>1, <3>2, CoverOthers
  <2> QED BY <1>e, <2>2, <2>3
<1>10. ASSUME NEW t \in Task, Wrote(t) \/ Renamed(t) PROVE Covered'
  <2>1. ~raced /\ ~stale /\ Covered
    BY <1>10, <1>f DEF Wrote, Renamed
  <2>2. CASE t = "sync"
    BY <1>10, <2>1, <2>2, CoverWrote, CoverRenamed
  <2>3. CASE t = "recon" /\ Wrote(t)
    <3>1. /\ Keeps("sync") /\ Grows("sync") /\ pc["recon"] = "write" /\ snap'["recon"] = snap["recon"] /\ Fixed
          /\ UNCHANGED <<saved, up, mem, old>> /\ (file.open = {} => file' = file)
      BY <1>e, <2>3 DEF Wrote, Others, Grows
    <3>2. file' = file
      BY <2>1, <3>1 DEF Base, Files
    <3> QED BY <2>1, <3>1, <3>2, CoverOthers
  <2>4. CASE t = "recon" /\ Renamed(t)
    <3>1. /\ Keeps("sync") /\ Grows("sync") /\ pc["recon"] = "rename" /\ pc'["recon"] = "idle" /\ Fixed
          /\ UNCHANGED <<saved, up, mem>> /\ old' = FALSE /\ file' = tmp
      BY <1>e, <2>4 DEF Renamed, Others, Rests, Grows
    <3> QED BY <2>1, <3>1, CoverOthers
  <2> QED BY <1>10, <1>e, <2>2, <2>3, <2>4
<1>11. ASSUME NEW t \in Task, Stopped(t) PROVE Covered'
  <2>1. ~raced /\ ~stale /\ Covered
    BY <1>11, <1>f DEF Stopped
  <2>2. CASE t = "sync"
    <3>1. up # "down"
      BY <1>11, <2>2, <1>e DEF Stopped, Base, Stages
    <3>2. /\ pc'["sync"] = "idle" /\ Fixed /\ Others("sync") /\ Grows("sync")
          /\ UNCHANGED <<mem, up, file, old, saved>>
      BY <1>11, <2>2 DEF Stopped, Rests, Grows
    <3> QED BY <2>1, <3>1, <3>2, CoverSyncRests, CursorTypes
  <2>3. CASE t = "recon"
    <3>1. Keeps("sync") /\ Grows("sync") /\ pc'["recon"] = "idle" /\ Fixed /\ UNCHANGED <<mem, up, file, old, saved>>
      BY <1>11, <1>e, <2>3 DEF Stopped, Others, Rests, Grows
    <3> QED BY <2>1, <3>1, CoverOthers
  <2> QED BY <1>e, <2>2, <2>3
<1> QED BY <1>1, <1>2, <1>3, <1>4, <1>5, <1>6, <1>7, <1>8, <1>9, <1>10, <1>11 DEF Kinds

-----------------------------------------------------------------------------
(* Reconcile *)

\* While nothing changes, reconcile holds what it has passed, and the page it
\* waits for is what is next.
ReconHeld ==
  pc["recon"] \in {"walk", "page"} =>
    \A m \in Market : Wanted(m) /\ m \notin dropped["recon"] /\ Passed("recon", m) => mem[m] = stamp[m]
ReconPage ==
  pc["recon"] = "page" => \A m \in Market : Ahead("recon", m) => OnPage("recon", m) \/ m \in dropped["recon"]

ReconInv == quiet => ReconHeld /\ ReconPage

\* The last page of a stream of reconcile: what is listed in it is held.
LEMMA ReconEnd ==
  ASSUME Base, ReconHeld, ReconPage, pc["recon"] = "page",
         \A k \in page["recon"] : Reached(walk["recon"], k),
         NEW m \in Market, Wanted(m), m \notin dropped["recon"],
         place[m] = walk["recon"].stream \/ walk["recon"].stream = "closed"
  PROVE  mem[m] = stamp[m]
<1>0. Types /\ Bounds /\ Stages
  BY DEF Base
<1>1. CASE Passed("recon", m)
  BY <1>1 DEF ReconHeld
<1>2. CASE ~Passed("recon", m)
  <2>1. place[m] = walk["recon"].stream /\ Below(KeyOf(m), walk["recon"].at)
    BY <1>2 DEF Passed
  <2>2. Ahead("recon", m)
    BY <2>1 DEF Ahead, Wanted
  <2>3. PICK k \in page["recon"] : KeyOf(m) = k \/ Below(KeyOf(m), k)
    BY <2>2 DEF ReconPage, OnPage
  <2>4. k.stamp \in Nat /\ stamp[m] \in Nat /\ place[m] \in Stream
    BY <1>0 DEF Types, Rows, Task, MarketKey
  <2>5. stamp[m] <= k.stamp
    BY <2>3, <2>4 DEF KeyOf, Below
  <2>6. walk["recon"].prev[walk["recon"].stream].stamp = 0
    BY <1>0, <2>1, <2>4, RestWalk DEF Stages
  <2>7. walk["recon"].stream = "closed" /\ k.stamp < Boundary
    BY <2>4, <2>6 DEF Reached
  <2>8. stamp[m] < Boundary
    BY <2>4, <2>5, <2>7, CatalogAssumption
  <2> QED BY <2>1, <2>4, <2>7, <2>8, CatalogAssumption DEF Wanted
<1> QED BY <1>1, <1>2

\* A step that leaves reconcile alone.
LEMMA ReconStill ==
  ASSUME ReconHeld, ReconPage, Fixed, Keeps("recon"), Grows("recon"),
         \A m \in Market : mem[m] = stamp[m] => mem'[m] = stamp[m]
  PROVE  ReconHeld' /\ ReconPage'
<1>1. pc'["recon"] = pc["recon"] /\ walk'["recon"] = walk["recon"] /\ page'["recon"] = page["recon"]
  BY DEF Keeps
<1>2. \A m \in Market : /\ Wanted(m)' = Wanted(m) /\ Passed("recon", m)' = Passed("recon", m)
                        /\ Ahead("recon", m)' = Ahead("recon", m)
                        /\ OnPage("recon", m)' = OnPage("recon", m)
  BY <1>1 DEF Fixed, Wanted, Passed, Ahead, OnPage, KeyOf
<1> QED BY <1>1, <1>2 DEF ReconHeld, ReconPage, Fixed, Grows

LEMMA ReconNext ==
  ASSUME Base, ReconInv, Kinds, Types'
  PROVE  ReconInv'
<1> SUFFICES ASSUME quiet' PROVE ReconHeld' /\ ReconPage'
  BY DEF ReconInv
<1>0. Types /\ Bounds /\ Stages
  BY DEF Base
<1>e. "sync" \in Task /\ "recon" \in Task /\ Task = {"sync", "recon"}
  BY DEF Task
<1>f. quiet => ReconHeld /\ ReconPage
  BY DEF ReconInv
\* Outside its walk there is nothing to show.
<1>g. ASSUME pc'["recon"] \notin {"walk", "page"} PROVE ReconHeld' /\ ReconPage'
  BY <1>g DEF ReconHeld, ReconPage
\* A stream begins: nothing of it is passed.
<1>h. ASSUME pc'["recon"] = "walk", walk'["recon"].at = Top, Fixed,
             \A m \in Market : Wanted(m) /\ m \notin dropped'["recon"] /\ place[m] # walk'["recon"].stream /\ walk'["recon"].stream = "closed"
                              => mem'[m] = stamp[m]
      PROVE  ReconHeld' /\ ReconPage'
  <2>1. \A m \in Market : Below(KeyOf(m)', Top)
    BY <1>0, <1>h, TopAbove DEF Fixed, KeyOf
  <2>2. ReconHeld'
    BY <1>h, <2>1 DEF ReconHeld, Passed, Fixed, Wanted
  <2> QED BY <1>h, <2>2 DEF ReconPage
<1>1. ASSUME NEW m \in Market, Touched(m) PROVE ReconHeld' /\ ReconPage'
  <2>1. pc'["recon"] = "idle"
    BY <1>1, <1>e DEF Touched, Keeps
  <2> QED BY <1>g, <2>1
<1>2. CASE Started \/ Halted
  <2>1. pc'["recon"] = "idle"
    BY <1>0, <1>2, <1>e DEF Started, Halted, Others, Keeps, Rests, Stages
  <2> QED BY <1>g, <2>1
<1>3. CASE Watched
  <2>1. Keeps("recon") /\ Grows("recon") /\ Fixed /\ quiet /\ \A m \in Market : mem[m] = stamp[m] => mem'[m] = stamp[m]
    BY <1>3, <1>e DEF Watched, Grows
  <2> QED BY <1>f, <2>1, ReconStill
<1>4. CASE Fixed /\ (\A u \in Task : Keeps(u)) /\ UNCHANGED <<mem, quiet, dropped>>
  <2>1. Keeps("recon") /\ Grows("recon") /\ Fixed /\ quiet /\ mem' = mem
    BY <1>4, <1>e DEF Grows
  <2> QED BY <1>f, <2>1, ReconStill
<1>5. CASE CursorSaved
  <2>1. Keeps("recon") /\ Grows("recon") /\ Fixed /\ quiet /\ mem' = mem
    BY <1>5, <1>e DEF CursorSaved, Others, Grows
  <2> QED BY <1>f, <2>1, ReconStill
<1>6. ASSUME NEW t \in Task, Began(t) PROVE ReconHeld' /\ ReconPage'
  <2>1. CASE t = "sync"
    <3>1. Keeps("recon") /\ Grows("recon") /\ Fixed /\ quiet /\ mem' = mem
      BY <1>6, <1>e, <2>1 DEF Began, Others, Recall, Grows
    <3> QED BY <1>f, <3>1, ReconStill
  <2>2. CASE t = "recon"
    <3>1. pc'["recon"] = "walk" /\ walk'["recon"] = NewWalk(NoCursors) /\ Fixed
      BY <1>6, <2>2 DEF Began
    <3>2. NewWalk(NoCursors).at = Top /\ NewWalk(NoCursors).stream = "active"
      BY <1>0, RestWalk, NewWalkFacts DEF Top
    <3> QED BY <1>h, <3>1, <3>2
  <2> QED BY <1>e, <2>1, <2>2
<1>7. ASSUME NEW t \in Task, Fetched(t) PROVE ReconHeld' /\ ReconPage'
  <2>0. Fixed /\ quiet /\ mem' = mem
    BY <1>7 DEF Fetched
  <2>1. CASE t = "sync"
    <3>1. Keeps("recon") /\ Grows("recon")
      BY <1>7, <1>e, <2>1 DEF Fetched, Others, Grows
    <3> QED BY <1>f, <2>0, <3>1, ReconStill
  <2>2. CASE t = "recon"
    <3>1. /\ pc["recon"] = "walk" /\ pc'["recon"] = "page" /\ walk'["recon"] = walk["recon"]
          /\ dropped["recon"] \subseteq dropped'["recon"]
      BY <1>7, <2>2 DEF Fetched
    <3>2. \A m \in Market : /\ Wanted(m)' = Wanted(m) /\ Passed("recon", m)' = Passed("recon", m)
                            /\ Ahead("recon", m)' = Ahead("recon", m) /\ KeyOf(m)' = KeyOf(m)
      BY <2>0, <3>1 DEF Fixed, Wanted, Passed, Ahead, KeyOf
    <3>3. ReconHeld'
      BY <1>f, <2>0, <3>1, <3>2 DEF ReconHeld, Fixed
    <3>4. ReconPage'
      BY <1>7, <2>2, <3>2 DEF ReconPage, OnPage, Fetched
    <3> QED BY <3>3, <3>4
  <2> QED BY <1>e, <2>1, <2>2
<1>8. ASSUME NEW t \in Task, NEW k \in page[t], Took(t, k) PROVE ReconHeld' /\ ReconPage'
  <2>0. Fixed /\ quiet /\ \A m \in Market : mem[m] = stamp[m] => mem'[m] = stamp[m]
    BY <1>8 DEF Took
  <2>1. CASE t = "sync"
    <3>1. Keeps("recon") /\ Grows("recon")
      BY <1>8, <1>e, <2>1 DEF Took, Others, Grows
    <3> QED BY <1>f, <2>0, <3>1, ReconStill
  <2>2. CASE t = "recon"
    <3>1. /\ pc["recon"] = "page" /\ pc'["recon"] = "walk" /\ k \in page["recon"]
          /\ walk'["recon"].stream = walk["recon"].stream /\ walk'["recon"].at = k
          /\ (k.id \notin Nameless => mem'[k.id] = k.stamp) /\ dropped' = dropped
      BY <1>8, <2>2 DEF Took
    <3>2. ASSUME NEW m \in Market, Wanted(m), m \notin dropped["recon"], Passed("recon", m)' PROVE mem'[m] = stamp[m]
      <4>1. KeyOf(m)' = KeyOf(m) /\ KeyOf(m).stamp = stamp[m] /\ KeyOf(m).id = m
        BY <2>0 DEF Fixed, KeyOf
      <4>2. CASE Passed("recon", m)
        BY <1>f, <2>0, <3>1, <3>2, <4>2 DEF ReconHeld
      <4>3. CASE ~Passed("recon", m)
        <5>1. place[m] = walk["recon"].stream /\ Below(KeyOf(m), walk["recon"].at) /\ ~Below(KeyOf(m), k)
          BY <2>0, <3>1, <3>2, <4>1, <4>3 DEF Passed, Fixed
        <5>2. Ahead("recon", m)
          BY <3>2, <5>1 DEF Ahead, Wanted
        <5>3. KeyOf(m) = k
          BY <1>f, <2>0, <3>1, <3>2, <5>1, <5>2 DEF ReconPage, OnPage
        <5>4. m \notin Nameless
          BY <3>2 DEF Wanted
        <5> QED BY <3>1, <4>1, <5>3, <5>4
      <4> QED BY <4>2, <4>3
    <3>3. ReconHeld'
      BY <2>0, <3>1, <3>2 DEF ReconHeld, Fixed, Wanted
    <3> QED BY <3>1, <3>3 DEF ReconPage
  <2> QED BY <1>e, <2>1, <2>2
<1>9. ASSUME NEW t \in Task, Continued(t) \/ Persisted(t) PROVE ReconHeld' /\ ReconPage'
  <2>0. Fixed /\ quiet /\ mem' = mem
    BY <1>9 DEF Continued, Persisted, Last
  <2>1. CASE t = "sync"
    <3>1. Keeps("recon") /\ Grows("recon")
      BY <1>9, <1>e, <2>1 DEF Continued, Persisted, Last, Others, Grows
    <3> QED BY <1>f, <2>0, <3>1, ReconStill
  <2>2. CASE t = "recon" /\ Continued(t)
    <3>1. /\ pc["recon"] = "page" /\ pc'["recon"] = "walk"
          /\ walk["recon"].stream = "active" /\ walk'["recon"].stream = "closed" /\ walk'["recon"].at = Top
          /\ dropped' = dropped /\ \A k \in page["recon"] : Reached(walk["recon"], k)
      BY <2>2 DEF Continued, Last
    <3>2. ASSUME NEW m \in Market, Wanted(m), m \notin dropped["recon"], place[m] # "closed" PROVE mem[m] = stamp[m]
      <4>1. place[m] = walk["recon"].stream
        BY <1>0, <3>1, <3>2 DEF Types, Stream
      <4> QED BY <1>f, <2>0, <3>1, <3>2, <4>1, ReconEnd
    <3> QED BY <1>h, <2>0, <3>1, <3>2
  <2>3. CASE t = "recon" /\ Persisted(t)
    <3>1. pc'["recon"] = "write"
      BY <2>3 DEF Persisted
    <3> QED BY <1>g, <3>1
  <2> QED BY <1>9, <1>e, <2>1, <2>2, <2>3
<1>10. ASSUME NEW t \in Task, Wrote(t) \/ Renamed(t) \/ Stopped(t) PROVE ReconHeld' /\ ReconPage'
  <2>1. CASE t = "sync"
    <3>1. Keeps("recon") /\ Grows("recon") /\ Fixed /\ quiet /\ mem' = mem
      BY <1>10, <1>e, <2>1 DEF Wrote, Renamed, Stopped, Others, Grows
    <3> QED BY <1>f, <3>1, ReconStill
  <2>2. CASE t = "recon"
    <3>1. pc'["recon"] \in {"idle", "rename"}
      BY <1>10, <2>2 DEF Wrote, Renamed, Stopped, Rests
    <3> QED BY <1>g, <3>1
  <2> QED BY <1>e, <2>1, <2>2
<1> QED BY <1>1, <1>2, <1>3, <1>4, <1>5, <1>6, <1>7, <1>8, <1>9, <1>10 DEF Kinds

-----------------------------------------------------------------------------
(* Theorems *)

CatalogInv == Base /\ CoverInv /\ ReconInv

LEMMA CatalogInit == Init => CatalogInv
<1> SUFFICES ASSUME Init PROVE CatalogInv
  OBVIOUS
<1>1. Types
  BY TypesInit
<1>2. /\ up = "down" /\ \A t \in Task : pc[t] = "idle" /\ page[t] = {} /\ walk[t] = NewWalk(NoCursors)
      /\ tmp = NoFile /\ (old = FALSE \/ old = TRUE)
  BY DEF Init
<1>3. /\ NoCursors \in Cursors /\ \A c \in Stream : NoCursors[c].stamp = 0
      /\ NewWalk(NoCursors).next = NoCursors /\ NewWalk(NoCursors).prev = NoCursors
  BY EmptyTypes, NewWalkFacts
<1>4. /\ clock \in Nat /\ clock <= MaxStamp /\ \A m \in Market : stamp[m] <= clock
      /\ \A c \in Stream : saved[c].stamp <= clock
  BY InitFacts
<1>5. Bounds
  <2>1. \A c \in Stream : Sync.next[c].stamp <= clock
    BY <1>2, <1>3, <1>4 DEF Sync, Task
  <2> QED BY <1>2, <1>4, <2>1 DEF Bounds
<1>6. Stages
  BY <1>2, <1>3 DEF Stages, Sync, Task, Stream
<1>7. Files
  <2>1. NoFile.open = {} /\ NoFile \in FileRec
    BY EmptyTypes DEF NoFile
  <2>2. file = NoFile \/ file = [NoFile EXCEPT !.there = TRUE]
    BY DEF Init
  <2>3. file.open = {}
    BY <2>1, <2>2 DEF FileRec
  <2> QED BY <1>2, <2>1, <2>3 DEF Files, Persisting, Task
<1>8. CoverInv
  <2>1. pc["sync"] = "idle" /\ pc["recon"] = "idle"
    BY <1>2 DEF Task
  <2>2. ~(old /\ up = "down") => OnDisk(Goal)
    <3>1. ~(old /\ up = "down") => Goal = NoCursors
      BY <1>2, <2>1 DEF Init, Goal, Stream
    <3> QED BY <1>1, <3>1, CoversNothing
  <2> QED BY <1>2, <2>1, <2>2 DEF CoverInv, Covered, WalkHeld, PageHeld
<1>9. ReconInv
  BY <1>2 DEF ReconInv, ReconHeld, ReconPage, Task
<1>10. WatchInv
  BY DEF WatchInv, Init, NoWatch
<1> QED BY <1>1, <1>5, <1>6, <1>7, <1>8, <1>9, <1>10 DEF CatalogInv, Base

LEMMA CatalogNext == CatalogInv /\ [Next]_vars => CatalogInv'
<1> SUFFICES ASSUME CatalogInv, [Next]_vars PROVE CatalogInv'
  OBVIOUS
<1>1. Base /\ CoverInv /\ ReconInv
  BY DEF CatalogInv
<1>2. Types'
  BY <1>1, TypesNext DEF Base
<1>3. Kinds
  BY <1>1, KindsHold
<1>4. Bounds' /\ Stages' /\ Files' /\ WatchInv'
  BY <1>1, <1>2, <1>3, BoundsNext, StagesNext, FilesNext, WatchNext
<1>5. CoverInv' /\ ReconInv'
  BY <1>1, <1>2, <1>3, <1>4, CoverNext, ReconNext
<1> QED BY <1>2, <1>4, <1>5 DEF CatalogInv, Base

\* As long as no two saves overlapped and no page was overtaken, a running
\* process holds every market its saved cursor has passed, as Gamma has it, but
\* for those Gamma left out of the pages of sync: whichever requests and writes
\* failed and however often it crashed.
THEOREM HeldBehindCursorHolds == Spec => []HeldBehindCursor
<1>1. CatalogInv => HeldBehindCursor
  <2>1. SUFFICES ASSUME CatalogInv, up # "down", ~raced, ~stale PROVE Covers(mem, saved)
    BY DEF HeldBehindCursor, Covers
  <2>2. Base /\ Covered
    BY <2>1 DEF CatalogInv, CoverInv
  <2>3. \A c \in Stream : saved[c].stamp <= Limit[c].stamp
    <3>1. \A c \in Stream : saved[c].stamp \in Nat /\ Goal[c].stamp \in Nat /\ Limit[c].stamp \in Nat
      BY <2>2, CursorTypes DEF Cursors, KeyRec
    <3> QED BY <2>2, <3>1, CursorTypes
  <2> QED BY <2>1, <2>2, <2>3, CursorTypes, CoversLess DEF Covered, Base
<1> QED BY <1>1, CatalogInit, CatalogNext, PTL DEF Spec

\* As long as no two saves overlapped and no page was overtaken, what the saved
\* cursor has passed is in catalog.bin as Gamma has it, but for what Gamma left
\* out of the pages of sync: persist_catalog makes the catalog durable before
\* the cursors, and Start reads both.
THEOREM CatalogBeforeCursorHolds == Spec => []CatalogBeforeCursor
<1>1. CatalogInv => CatalogBeforeCursor
  <2>1. SUFFICES ASSUME CatalogInv, ~raced, ~stale, ~(old /\ up = "down") PROVE OnDisk(saved)
    BY DEF CatalogBeforeCursor, OnDisk
  <2>2. Base /\ OnDisk(Goal)
    BY <2>1 DEF CatalogInv, CoverInv, Covered
  <2> QED BY <2>2, CursorTypes, CoversLess DEF Base
<1> QED BY <1>1, CatalogInit, CatalogNext, PTL DEF Spec

\* When run_catalog_reconcile has walked both streams and Gamma changed nothing
\* meanwhile, the catalog holds what Gamma lists, whatever was lost before: the
\* markets left out of the pages of sync too, not those left out of its own.
THEOREM ReconcileRepairsHolds == Spec => ReconcileRepairs
<1> DEFINE Repairs == /\ pc["recon"] = "page" /\ pc'["recon"] \in {"idle", "write"} /\ up' = "up" /\ quiet
                      => \A m \in Market : Wanted(m) /\ m \notin dropped["recon"] => mem[m] = stamp[m]
<1>1. CatalogInv /\ [Next]_vars => [Repairs]_vars
  <2>1. SUFFICES ASSUME CatalogInv, [Next]_vars,
                        pc["recon"] = "page", pc'["recon"] \in {"idle", "write"}, up' = "up", quiet,
                        NEW m \in Market, Wanted(m), m \notin dropped["recon"]
                 PROVE  mem[m] = stamp[m]
    OBVIOUS
  <2>2. Base /\ ReconHeld /\ ReconPage
    BY <2>1 DEF CatalogInv, ReconInv
  <2>3. ~Keeps("recon")
    BY <2>1 DEF Keeps
  <2>4. "recon" \in Task /\ Task = {"sync", "recon"}
    BY DEF Task
  <2>5. Persisted("recon") \/ Stopped("recon")
    <3>1. Kinds
      BY <2>1, <2>2, KindsHold
    <3>2. ~Halted /\ ~Started
      BY <2>1 DEF Halted, Started
    <3>3. /\ ~Began("recon") /\ ~Fetched("recon") /\ ~Continued("recon") /\ ~Wrote("recon") /\ ~Renamed("recon")
          /\ ~Watched /\ ~CursorSaved /\ \A o \in Market : ~Touched(o)
      BY <2>1, <2>3, <2>4 DEF Began, Fetched, Continued, Wrote, Renamed, Watched, CursorSaved, Touched, Others
    <3>4. \A k \in page["recon"] : ~Took("recon", k)
      BY <2>1 DEF Took
    <3>5. ~Others("sync")
      BY <2>3, <2>4 DEF Others
    <3>6. \A k \in page["sync"] : ~Took("sync", k)
      BY <3>5 DEF Took
    <3>7. /\ ~Began("sync") /\ ~Fetched("sync") /\ ~Continued("sync") /\ ~Persisted("sync")
          /\ ~Wrote("sync") /\ ~Renamed("sync") /\ ~Stopped("sync")
      BY <3>5 DEF Began, Fetched, Continued, Persisted, Last, Wrote, Renamed, Stopped
    <3> QED BY <2>3, <2>4, <3>1, <3>2, <3>3, <3>4, <3>6, <3>7 DEF Kinds
  <2>6. walk["recon"].stream = "closed" /\ \A k \in page["recon"] : Reached(walk["recon"], k)
    BY <2>1, <2>5 DEF Persisted, Last, Stopped
  <2> QED BY <2>1, <2>2, <2>6, ReconEnd
<1> QED BY <1>1, CatalogInit, CatalogNext, PTL DEF Spec, ReconcileRepairs
=============================================================================
