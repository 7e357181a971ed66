------------------------------ MODULE Registry ------------------------------
(***************************************************************************)
(* The console's node registry (src/src/console/registry.rs), the admin    *)
(* routes that change it (src/src/console/server.rs), and the edges and    *)
(* clients it steers: heartbeats in, directives out, the public list, the  *)
(* release of clients from busy nodes, nodes.json.                         *)
(*                                                                         *)
(* A heartbeat reaches the registry at once; its answer is under way until *)
(* the edge applies it or it is lost. Time is abstract: a node lapses when *)
(* nothing was heard of it for stale_after. The route handlers test        *)
(* is_relay in one lock and act in another, so that others act between.    *)
(* Ratios are exact here; the code takes them in floating point.           *)
(***************************************************************************)
EXTENDS Integers, FiniteSets, FiniteSetsExt

CONSTANTS
  Node,          \* node ids; numbers, because ties go to the smaller id
  MaxClients,    \* max_clients of every edge
  Crowd,         \* clients there are
  ReleaseBatch,  \* Settings.release_batch
  SpreadPct,     \* Settings.balance_spread_pct
  MinExcess,     \* Settings.balance_min_excess
  MaxAsk,        \* bound: clients one manual release asks for
  MaxOps         \* bound: admin requests, restarts, lost answers and lapses

ASSUME RegistryAssumption ==
  /\ Node \subseteq Nat /\ IsFiniteSet(Node)
  /\ MaxClients \in Nat \ {0} /\ Crowd \in Nat
  /\ ReleaseBatch \in Nat /\ SpreadPct \in Nat /\ MinExcess \in Nat
  /\ MaxAsk \in Nat /\ MaxOps \in Nat

VARIABLES
  known,     \* Inner.nodes has an entry
  hb,        \* hb[n]: the last Heartbeat of n
  heard,     \* heard[n]: last_seen_ms is not older than stale_after
  drain,     \* Node.desired_drain
  pending,   \* Node.pending_release
  admin,     \* Inner.admin: from the nodes that have an entry to NodeAdmin
  auto,      \* Settings.auto_balance
  disk,      \* nodes.json
  op,        \* admin requests past their is_relay test
  started,   \* started[n]: which process of edge n runs
  up,        \* up[n]: edge n is connected to tinyuma
  conn,      \* conn[n]: clients of edge n
  draining,  \* draining[n]: edge n drains because the console said so
  answer,    \* answer[n]: directives under way to n, at most one
  lobby,     \* clients without a connection
  hidden,    \* history: n was saved as relay or disabled, and not enabled or
             \* forgotten since
  drainFor,  \* history: the process the console knew of when a drain was asked
  asked,     \* history: clients the last manual release asked for, and those an
             \* answer to an earlier one was releasing at that moment
  freed,     \* history: clients released because of it
  ops

consoleVars == <<known, hb, heard, drain, pending, admin, auto, disk, op>>
edgeVars == <<started, up, conn, draining, answer, lobby>>
history == <<hidden, drainFor, asked, freed>>
vars == <<consoleVars, edgeVars, history, ops>>

Heartbeat == [started : Nat, clients : Nat, draining : BOOLEAN, ready : BOOLEAN]
NodeAdmin == [disabled : BOOLEAN, relay : BOOLEAN]
Directive == [drain : BOOLEAN, release : Nat, manual : BOOLEAN]
NoHeartbeat == [started |-> 0, clients |-> 0, draining |-> FALSE, ready |-> FALSE]
NoAdmin == [disabled |-> FALSE, relay |-> FALSE]
Guarded == {"drain", "undrain", "disable", "enable", "forget"}
Request == [act : Guarded \cup {"release"}, node : Node, count : {0, MaxAsk}]

admin_of(n) == IF n \in DOMAIN admin THEN admin[n] ELSE NoAdmin

\* Registry::open on an empty data directory; the edges are up, none was heard.
Init ==
  /\ known = {}
  /\ hb = [n \in Node |-> NoHeartbeat]
  /\ heard = [n \in Node |-> FALSE]
  /\ drain = [n \in Node |-> FALSE]
  /\ pending = [n \in Node |-> 0]
  /\ admin = [n \in {} |-> NoAdmin] /\ auto = TRUE
  /\ disk = [admin |-> admin, auto |-> auto]
  /\ op = {}
  /\ started = [n \in Node |-> 1] /\ up = [n \in Node |-> TRUE]
  /\ conn = [n \in Node |-> 0]
  /\ draining = [n \in Node |-> FALSE]
  /\ answer = [n \in Node |-> {}]
  /\ lobby = Crowd
  /\ hidden = [n \in Node |-> FALSE]
  /\ drainFor = [n \in Node |-> 0]
  /\ asked = [n \in Node |-> 0] /\ freed = [n \in Node |-> 0]
  /\ ops = 0

-----------------------------------------------------------------------------
(* What the registry thinks of its nodes *)

status_of(n) ==
  IF ~heard[n] THEN "stale"
  ELSE IF admin_of(n).relay THEN "relay"
  ELSE IF admin_of(n).disabled THEN "disabled"
  ELSE IF drain[n] \/ hb[n].draining THEN "draining"
  ELSE IF ~hb[n].ready THEN "not_ready"
  ELSE IF hb[n].clients >= MaxClients THEN "full"
  ELSE "serving"

serving == {n \in known : status_of(n) = "serving"}

\* Mutant: full nodes cannot be relieved.
sheddable_NotFull == serving

sheddable == {n \in known : status_of(n) \in {"serving", "full"}}

\* The busiest node that may lose clients; ties go to the smaller id.
busiest_sheddable(n) ==
  /\ n \in sheddable
  /\ \A m \in sheddable \ {n} : \/ hb[m].clients < hb[n].clients
                                \/ hb[m].clients = hb[n].clients /\ n < m

emptiest == IF serving = {} THEN 0 ELSE Min({hb[m].clients : m \in serving})

\* Clients the nodes ns can still take.
seats(ns) == MapThenSumSet(LAMBDA m : MaxClients - hb[m].clients, ns)

\* Clients above the line drawn from the emptiest serving node, at most half
\* of the gap to it, at most what the other serving nodes can seat.
balance_excess(n) ==
  LET spare == seats(serving \ {n})
      gap   == IF hb[n].clients > emptiest THEN hb[n].clients - emptiest ELSE 0
  IN  IF n \notin sheddable \/ spare = 0 THEN 0
      ELSE Min({(100 * hb[n].clients - emptiest * (100 + SpreadPct)) \div 100,
                gap \div 2, spare})

batch == Max({ReleaseBatch, 1})

\* What decide_release answers when no manual release is pending.
auto_release(n) ==
  IF auto /\ ~drain[n] /\ busiest_sheddable(n) /\ balance_excess(n) >= MinExcess
  THEN Min({balance_excess(n), batch}) ELSE 0

\* public_list: the nodes a client takes its first choice from, those within
\* the spread of the emptiest one, in random order.
first_choice ==
  {n \in serving : hb[n].clients <= emptiest + (emptiest * SpreadPct) \div 100}

-----------------------------------------------------------------------------
(* Heartbeats *)

\* build_heartbeat of the process that runs.
build_heartbeat(n) ==
  [started |-> started[n], clients |-> conn[n], draining |-> draining[n],
   ready |-> ~draining[n] /\ up[n]]

\* Mutant: a new process inherits the drain of the one before.
restarted_Never(n) == FALSE

\* The node answers with another process than the one known.
restarted(n) ==
  n \in known /\ hb[n].started # 0 /\ hb[n].started # started[n]

\* Mutant: what is handed out stays pending.
decide_release_Again(n) ==
  LET manual == pending[n] > 0
      r == IF manual THEN Min({pending[n], batch}) ELSE auto_release(n)'
  IN  /\ pending' = pending
      /\ answer' = [answer EXCEPT ![n] = {[drain |-> drain'[n], release |-> r, manual |-> manual]}]

\* decide_release: what is pending by hand first, in batches, then balancing.
decide_release(n) ==
  LET manual == pending[n] > 0
      r == IF manual THEN Min({pending[n], batch}) ELSE auto_release(n)'
  IN  /\ pending' = [pending EXCEPT ![n] = IF manual THEN @ - r ELSE 0]
      /\ answer' = [answer EXCEPT ![n] = {[drain |-> drain'[n], release |-> r, manual |-> manual]}]

\* Registry::heartbeat. A relay is told neither to drain nor to release.
Beat(n) ==
  /\ answer[n] = {}
  /\ known' = known \cup {n}
  /\ hb' = [hb EXCEPT ![n] = build_heartbeat(n)]
  /\ heard' = [heard EXCEPT ![n] = TRUE]
  /\ UNCHANGED <<admin, auto, disk, op>>
  /\ drain' = [drain EXCEPT ![n] = @ /\ ~restarted(n) /\ ~admin_of(n).relay]
  /\ IF admin_of(n).relay
     THEN /\ pending' = [pending EXCEPT ![n] = 0]
          /\ answer' = [answer EXCEPT ![n] = {[drain |-> FALSE, release |-> 0, manual |-> FALSE]}]
     ELSE decide_release(n)
  /\ UNCHANGED <<started, up, conn, draining, lobby, history, ops>>

\* Hub::release closes at most the clients there are.
released(n, d) == Min({d.release, conn[n]})

\* apply at the edge: release, then drain or take the drain back.
Apply(n) ==
  \E d \in answer[n] :
  LET k == released(n, d) IN
  /\ answer' = [answer EXCEPT ![n] = {}]
  /\ conn' = [conn EXCEPT ![n] = @ - k]
  /\ lobby' = lobby + k
  /\ draining' = [draining EXCEPT ![n] = d.drain]
  /\ freed' = [freed EXCEPT ![n] = IF d.manual THEN @ + k ELSE @]
  /\ UNCHANGED <<consoleVars, started, up, hidden, drainFor, asked, ops>>

\* The answer does not reach the edge: nobody tells the console.
Lose(n) ==
  /\ answer[n] # {} /\ ops < MaxOps
  /\ answer' = [answer EXCEPT ![n] = {}]
  /\ ops' = ops + 1
  /\ UNCHANGED <<consoleVars, started, up, conn, draining, lobby, history>>

\* Nothing is heard of a node for longer than stale_after.
Lapse(n) ==
  /\ heard[n] /\ ops < MaxOps
  /\ heard' = [heard EXCEPT ![n] = FALSE]
  /\ ops' = ops + 1
  /\ UNCHANGED <<known, hb, drain, pending, admin, auto, disk, op, edgeVars, history>>

-----------------------------------------------------------------------------
(* Edges and clients *)

\* A new edge process, without clients.
Restart(n) ==
  /\ ops < MaxOps /\ ops' = ops + 1
  /\ started' = [started EXCEPT ![n] = @ + 1]
  /\ up' = [up EXCEPT ![n] = FALSE]
  /\ lobby' = lobby + conn[n]
  /\ conn' = [conn EXCEPT ![n] = 0]
  /\ draining' = [draining EXCEPT ![n] = FALSE]
  /\ answer' = [answer EXCEPT ![n] = {}]
  /\ UNCHANGED <<consoleVars, history>>

\* The edge's connection to tinyuma comes up, or is lost.
Link(n) ==
  /\ up' = [up EXCEPT ![n] = ~@]
  /\ \/ ~up[n] /\ UNCHANGED ops
     \/ up[n] /\ ops < MaxOps /\ ops' = ops + 1
  /\ UNCHANGED <<consoleVars, started, conn, draining, answer, lobby, history>>

\* A client takes its first choice of the public list.
Connect(n) ==
  /\ lobby > 0 /\ n \in first_choice
  /\ conn[n] < MaxClients /\ ~draining[n]
  /\ lobby' = lobby - 1
  /\ conn' = [conn EXCEPT ![n] = @ + 1]
  /\ UNCHANGED <<consoleVars, started, up, draining, answer, history, ops>>

\* The drain loop of the edge closes clients.
DrainStep(n) ==
  /\ draining[n] /\ conn[n] > 0
  /\ conn' = [conn EXCEPT ![n] = @ - 1]
  /\ lobby' = lobby + 1
  /\ UNCHANGED <<consoleVars, started, up, draining, answer, history, ops>>

-----------------------------------------------------------------------------
(* Admin requests *)

\* persist: save_json replaces nodes.json or leaves it as it was. The change
\* stays in memory either way; the caller is told.
persist(saved) ==
  disk' = IF saved THEN [admin |-> admin', auto |-> auto'] ELSE disk

Set(a, n, b) == [m \in DOMAIN a \cup {n} |-> IF m = n THEN b ELSE a[m]]

\* Mutant: a node that is a relay no more serves at once.
set_relay_Serves(n, relay, saved) ==
  /\ n \in known \cup DOMAIN admin
  /\ admin' = Set(admin, n, [disabled |-> admin_of(n).disabled, relay |-> relay])
  /\ UNCHANGED auto /\ persist(saved)
  /\ hidden' = [hidden EXCEPT ![n] = @ \/ saved]

\* relay and unrelay, which test nothing first. unrelay disables.
set_relay(n, relay, saved) ==
  /\ n \in known \cup DOMAIN admin
  /\ admin' = Set(admin, n, [disabled |-> admin_of(n).disabled \/ ~relay, relay |-> relay])
  /\ UNCHANGED auto /\ persist(saved)
  /\ hidden' = [hidden EXCEPT ![n] = @ \/ saved]

AdminRelay(n, relay, saved) ==
  /\ ops < MaxOps /\ ops' = ops + 1
  /\ set_relay(n, relay, saved)
  /\ UNCHANGED <<known, hb, heard, drain, pending, op, edgeVars, drainFor, asked, freed>>

\* The note itself is left out; what is saved with it are all admin bits.
set_note(n, saved) ==
  /\ ops < MaxOps /\ ops' = ops + 1
  /\ n \in known \cup DOMAIN admin
  /\ admin' = Set(admin, n, admin_of(n))
  /\ UNCHANGED auto /\ persist(saved)
  /\ UNCHANGED <<known, hb, heard, drain, pending, op, edgeVars, history>>

\* admin_node_action and admin_node_release up to the test for a relay.
AdminTest(r) ==
  /\ op = {} /\ ops < MaxOps /\ ops' = ops + 1
  /\ ~admin_of(r.node).relay
  /\ r.act = "release" \/ r.count = 0
  /\ op' = {r}
  /\ UNCHANGED <<known, hb, heard, drain, pending, admin, auto, disk, edgeVars, history>>

\* set_drain
AdminDrain(n, to) ==
  /\ n \in known
  /\ drain' = [drain EXCEPT ![n] = to]
  /\ drainFor' = [drainFor EXCEPT ![n] = IF to THEN hb[n].started ELSE @]
  /\ UNCHANGED <<known, hb, heard, pending, admin, auto, disk, hidden, asked, freed>>

\* set_disabled
AdminDisable(n, to) ==
  /\ n \in known \cup DOMAIN admin
  /\ \E saved \in BOOLEAN :
     /\ admin' = Set(admin, n, [disabled |-> to, relay |-> admin_of(n).relay])
     /\ UNCHANGED auto /\ persist(saved)
     /\ hidden' = [hidden EXCEPT ![n] = to /\ (@ \/ saved)]
  /\ UNCHANGED <<known, hb, heard, drain, pending, drainFor, asked, freed>>

\* forget: the entry and its admin bits go.
AdminForget(n) ==
  /\ n \in known \cup DOMAIN admin
  /\ known' = known \ {n}
  /\ heard' = [heard EXCEPT ![n] = FALSE]
  /\ admin' = [m \in DOMAIN admin \ {n} |-> admin[m]]
  /\ \E saved \in BOOLEAN : UNCHANGED auto /\ persist(saved)
  /\ hidden' = [hidden EXCEPT ![n] = FALSE]
  /\ hb' = [hb EXCEPT ![n] = NoHeartbeat]
  /\ drain' = [drain EXCEPT ![n] = FALSE]
  /\ pending' = [pending EXCEPT ![n] = 0]
  /\ UNCHANGED <<drainFor, asked, freed>>

\* Clients an answer under way to n releases by hand.
under_way(n) ==
  IF answer[n] # {} /\ (CHOOSE d \in answer[n] : TRUE).manual
  THEN (CHOOSE d \in answer[n] : TRUE).release ELSE 0

\* request_release replaces what was pending.
AdminRelease(n, count) ==
  /\ n \in known
  /\ pending' = [pending EXCEPT ![n] = count]
  /\ asked' = [asked EXCEPT ![n] = count + under_way(n)]
  /\ freed' = [freed EXCEPT ![n] = 0]
  /\ UNCHANGED <<known, hb, heard, drain, admin, auto, disk, hidden, drainFor>>

\* The node is not known: 404.
AdminUnknown(r) ==
  /\ r.node \notin known
  /\ r.act \in {"disable", "enable", "forget"} => r.node \notin DOMAIN admin
  /\ UNCHANGED <<known, hb, heard, drain, pending, admin, auto, disk, history>>

AdminAct ==
  \E r \in op :
  /\ op' = {}
  /\ \/ r.act = "drain" /\ AdminDrain(r.node, TRUE)
     \/ r.act = "undrain" /\ AdminDrain(r.node, FALSE)
     \/ r.act = "disable" /\ AdminDisable(r.node, TRUE)
     \/ r.act = "enable" /\ AdminDisable(r.node, FALSE)
     \/ r.act = "forget" /\ AdminForget(r.node)
     \/ r.act = "release" /\ AdminRelease(r.node, r.count)
     \/ AdminUnknown(r)
  /\ UNCHANGED <<edgeVars, ops>>

set_auto_balance(enabled) ==
  /\ ops < MaxOps /\ ops' = ops + 1
  /\ auto' = enabled
  /\ UNCHANGED admin
  /\ \E saved \in BOOLEAN : persist(saved)
  /\ UNCHANGED <<known, hb, heard, drain, pending, op, edgeVars, history>>

\* A new console: Registry::open. Requests and answers under way are gone.
ConsoleRestart ==
  /\ ops < MaxOps /\ ops' = ops + 1
  /\ known' = {}
  /\ hb' = [n \in Node |-> NoHeartbeat]
  /\ heard' = [n \in Node |-> FALSE]
  /\ drain' = [n \in Node |-> FALSE]
  /\ pending' = [n \in Node |-> 0]
  /\ admin' = disk.admin /\ auto' = disk.auto
  /\ op' = {}
  /\ answer' = [n \in Node |-> {}]
  /\ UNCHANGED <<disk, started, up, conn, draining, lobby, history>>

Next ==
  \/ \E n \in Node :
     \/ Beat(n) \/ Apply(n) \/ Lose(n) \/ Lapse(n)
     \/ Restart(n) \/ Link(n) \/ Connect(n) \/ DrainStep(n)
     \/ \E relay, saved \in BOOLEAN : AdminRelay(n, relay, saved)
     \/ \E saved \in BOOLEAN : set_note(n, saved)
  \/ \E r \in Request : AdminTest(r)
  \/ AdminAct
  \/ \E enabled \in BOOLEAN : set_auto_balance(enabled)
  \/ ConsoleRestart

Spec == Init /\ [][Next]_vars

-----------------------------------------------------------------------------
(* Properties *)

\* A node saved as relay or disabled is not on the public list until it is
\* enabled or forgotten, whatever restarts, is un-relayed or fails to be saved
\* in between (status_of, set_relay, mutate_admin, open).
HiddenStaysHidden == \A n \in Node : hidden[n] => n \notin serving

\* A process is told to drain only when the console knew that process at the
\* moment the drain was asked for: a restarted edge does not inherit it.
DrainOnlyItsProcess ==
  \A n \in Node : \A d \in answer[n] : d.drain => drainFor[n] = started[n]

\* A manual release closes no more clients than were asked for, however it is
\* cut into batches and whichever answers are lost.
NeverOverReleased ==
  \A n \in Node : freed[n] + under_way(n) + pending[n] <= asked[n]

\* An edge's heartbeat loop goes on, and clients without a connection retry.
Fairness ==
  /\ \A n \in Node : WF_vars(Beat(n) \/ Apply(n))
  /\ WF_vars(\E n \in Node : Connect(n))

FairSpec == Spec /\ Fairness

\* Two nodes in service, one so far above the other that a client should move.
Uneven ==
  auto /\ \E n, m \in known :
    /\ {status_of(n), status_of(m)} \subseteq {"serving", "full"}
    /\ conn[n] - conn[m] >= 2 * MinExcess
    /\ 100 * conn[n] - conn[m] * (100 + SpreadPct) >= 100 * MinExcess

\* Balancing comes to rest: no node stays at its limit, or far above another,
\* while auto_balance is on and the other is in service.
Settles == <>[]~Uneven
=============================================================================
