------------------------------ MODULE EdgeDrain ------------------------------
(***************************************************************************)
(* How an edge stops serving: start_drain and its loop, cancel_drain and   *)
(* the handshake's tests (src/src/edge/server.rs), the drain part of apply *)
(* (src/src/edge/heartbeat.rs) and the signal handler                      *)
(* (src/src/bin/uma-edge.rs).                                              *)
(*                                                                         *)
(* The three flags are atomics that the heartbeat task, the admin handler, *)
(* the main task and the drain loop use without a lock on several threads, *)
(* so every load, store and swap is a step of its own. A handshake tests   *)
(* draining and the client count before the upgrade and subscribes after   *)
(* it.                                                                     *)
(***************************************************************************)
EXTENDS Naturals, FiniteSets

CONSTANTS
  Client,
  MaxClients,   \* EDGE_MAX_CLIENTS
  Batch,        \* EDGE_DRAIN_BATCH
  Task          \* bound: as many drain tasks may exist at a time

ASSUME DrainAssumption == MaxClients \in Nat /\ Batch \in Nat \ {0}

Caller == {"heartbeat", "admin", "signal"}

VARIABLES
  draining, exits, active,   \* EdgeStats: draining, drain_exits, drain_active
  at,       \* at[who]: the store, load or swap that caller has next
  loop,     \* loop[l]: where drain task l is, or "none"
  client,   \* client[c]: "out", "tested", "admitted" or "in" (subscribed)
  exited,   \* the process is gone
  crossed,  \* history: see StoreExits
  skipped   \* history: see SwapActive

flags     == <<draining, exits, active>>
hist      == <<crossed, skipped>>
drainVars == <<flags, at, loop, client, exited, hist>>

In      == {c \in Client : client[c] = "in"}
Running == {l \in Task : loop[l] \in {"test", "count", "release", "cancelled", "finished"}}
Serving == at["signal"] \notin {"over", "gone"}    \* the listener accepts

DrainInit ==
  /\ draining = FALSE /\ exits = FALSE /\ active = FALSE
  /\ at = [who \in Caller |-> "idle"]
  /\ loop = [l \in Task |-> "none"]
  /\ client = [c \in Client |-> "out"]
  /\ exited = FALSE /\ crossed = FALSE /\ skipped = FALSE

-----------------------------------------------------------------------------
(* start_drain and cancel_drain, as their callers step through them *)

Goes(who, next) == at' = [at EXCEPT ![who] = next]

\* apply, Directive.drain: nothing to do when the node drains already.
DrainDirective ==
  /\ at["heartbeat"] = "idle"
  /\ ~draining
  /\ Goes("heartbeat", "draining")
  /\ UNCHANGED <<flags, loop, client, exited, hist>>

\* Mutant: cancel_drain does not look at drain_exits.
UndrainDirective_Blind ==
  /\ at["heartbeat"] = "idle"
  /\ Goes("heartbeat", "cancel")
  /\ UNCHANGED <<flags, loop, client, exited, hist>>

\* apply, no Directive.drain: cancel_drain loads drain_exits.
UndrainDirective ==
  /\ at["heartbeat"] = "idle"
  /\ ~exits
  /\ Goes("heartbeat", "cancel")
  /\ UNCHANGED <<flags, loop, client, exited, hist>>

AdminDrain ==
  /\ Serving /\ at["admin"] = "idle"
  /\ Goes("admin", "exits")
  /\ UNCHANGED <<flags, loop, client, exited, hist>>

Signal ==
  /\ at["signal"] = "idle"
  /\ Goes("signal", "exits")
  /\ UNCHANGED <<flags, loop, client, exited, hist>>

\* crossed: drain_exits was FALSE when cancel_drain loaded it, and is stored
\* before cancel_drain swaps draining.
StoreExits(who) ==
  /\ at[who] = "exits"
  /\ exits' = TRUE
  /\ crossed' = (crossed \/ (~exits /\ at["heartbeat"] = "cancel"))
  /\ Goes(who, "draining")
  /\ UNCHANGED <<draining, active, loop, client, exited, skipped>>

\* Draining is wanted (again), unless the swap of cancel_drain is still to come.
StoreDraining(who) ==
  /\ at[who] = "draining"
  /\ draining' = TRUE
  /\ crossed' = (crossed /\ at["heartbeat"] = "cancel")
  /\ Goes(who, "swap")
  /\ UNCHANGED <<exits, active, loop, client, exited, skipped>>

\* drain_active.swap: a loop is spawned unless one runs. The main task then
\* stops the listener. skipped: the loop that runs has read draining as FALSE
\* and is about to end.
SwapActive(who) ==
  /\ at[who] = "swap"
  /\ active' = TRUE
  /\ \/ active /\ UNCHANGED loop
     \/ ~active /\ \E l \in Task : loop[l] = "none" /\ loop' = [loop EXCEPT ![l] = "test"]
  /\ skipped' = (\E l \in Task : loop[l] = "cancelled")
  /\ Goes(who, IF who = "signal" THEN "over" ELSE "idle")
  /\ UNCHANGED <<draining, exits, client, exited, crossed>>

\* Mutant: cancelling clears drain_active for the loop.
CancelDrain_Clears ==
  /\ at["heartbeat"] = "cancel"
  /\ draining' = FALSE /\ active' = FALSE
  /\ crossed' = (crossed /\ draining)
  /\ Goes("heartbeat", "idle")
  /\ UNCHANGED <<exits, loop, client, exited, skipped>>

\* cancel_drain: draining.swap(false). A drain that is not stored yet comes to
\* no harm.
CancelDrain ==
  /\ at["heartbeat"] = "cancel"
  /\ draining' = FALSE
  /\ crossed' = (crossed /\ draining)
  /\ Goes("heartbeat", "idle")
  /\ UNCHANGED <<exits, active, loop, client, exited, skipped>>

\* The process ends, and its memory, its tasks and its connections with it.
Exit ==
  /\ exited' = TRUE
  /\ draining' = FALSE /\ exits' = FALSE /\ active' = FALSE
  /\ at' = [who \in Caller |-> "gone"]
  /\ loop' = [l \in Task |-> "none"]
  /\ client' = [c \in Client |-> "out"]
  /\ UNCHANGED hist

\* The main task returns when the server has stopped, at the latest 5 s after
\* the drain's deadline.
MainReturns ==
  /\ at["signal"] = "over"
  /\ Exit

-----------------------------------------------------------------------------
(* The drain task *)

Moves(l, next) == loop' = [loop EXCEPT ![l] = next]

LoopTest(l) ==
  /\ loop[l] = "test"
  /\ Moves(l, IF draining THEN "count" ELSE "cancelled")
  /\ UNCHANGED <<flags, at, client, exited, hist>>

\* hub.clients(): the loop ends without clients, or has a batch to release.
LoopCount(l) ==
  /\ loop[l] = "count"
  /\ Moves(l, IF In = {} THEN "finished" ELSE "release")
  /\ UNCHANGED <<flags, at, client, exited, hist>>

\* Clients are left and drain_timeout is over.
LoopDeadline(l) ==
  /\ loop[l] = "count" /\ In # {}
  /\ Moves(l, "finished")
  /\ UNCHANGED <<flags, at, client, exited, hist>>

\* Hub::release(drain_batch), then drain_interval of sleep.
LoopRelease(l) ==
  /\ loop[l] = "release"
  /\ \E R \in SUBSET In :
       /\ Cardinality(R) = IF Cardinality(In) < Batch THEN Cardinality(In) ELSE Batch
       /\ client' = [c \in Client |-> IF c \in R THEN "out" ELSE client[c]]
  /\ Moves(l, "test")
  /\ UNCHANGED <<flags, at, exited, hist>>

\* Mutant: drain_active is cleared by a cancelled loop only.
LoopClear_NotDone(l) ==
  /\ \/ loop[l] = "cancelled" /\ Moves(l, "none") /\ active' = FALSE
     \/ loop[l] = "finished" /\ Moves(l, "ask") /\ UNCHANGED active
  /\ UNCHANGED <<draining, exits, at, client, exited, hist>>

\* drain_active.store(false), when cancelled and when done.
LoopClear(l) ==
  /\ \/ loop[l] = "cancelled" /\ Moves(l, "none")
     \/ loop[l] = "finished" /\ Moves(l, "ask")
  /\ active' = FALSE
  /\ UNCHANGED <<draining, exits, at, client, exited, hist>>

\* drain_exits is loaded: 1.5 s later the process exits.
LoopAsk(l) ==
  /\ loop[l] = "ask"
  /\ Moves(l, IF exits THEN "exiting" ELSE "none")
  /\ UNCHANGED <<flags, at, client, exited, hist>>

LoopExit(l) ==
  /\ loop[l] = "exiting"
  /\ Exit

-----------------------------------------------------------------------------
(* Handshakes *)

TestDraining(c) ==
  /\ client[c] = "out" /\ Serving
  /\ ~draining
  /\ client' = [client EXCEPT ![c] = "tested"]
  /\ UNCHANGED <<flags, at, loop, exited, hist>>

\* hub.clients() against max_clients: upgraded or rejected.
TestFull(c) ==
  /\ client[c] = "tested"
  /\ client' = [client EXCEPT ![c] = IF Cardinality(In) >= MaxClients THEN "out" ELSE "admitted"]
  /\ UNCHANGED <<flags, at, loop, exited, hist>>

HubSubscribe(c) ==
  /\ client[c] = "admitted"
  /\ client' = [client EXCEPT ![c] = "in"]
  /\ UNCHANGED <<flags, at, loop, exited, hist>>

\* The client leaves, or is released by the console or by the admin.
Leave(c) ==
  /\ client[c] = "in"
  /\ client' = [client EXCEPT ![c] = "out"]
  /\ UNCHANGED <<flags, at, loop, exited, hist>>

Call(who) == StoreExits(who) \/ StoreDraining(who) \/ SwapActive(who)
Loop(l)   == \/ LoopTest(l) \/ LoopCount(l) \/ LoopDeadline(l) \/ LoopRelease(l)
             \/ LoopClear(l) \/ LoopAsk(l) \/ LoopExit(l)
Shake(c)  == TestDraining(c) \/ TestFull(c) \/ HubSubscribe(c) \/ Leave(c)

DrainNext ==
  \/ DrainDirective \/ UndrainDirective \/ CancelDrain
  \/ AdminDrain \/ Signal \/ MainReturns
  \/ \E who \in Caller : Call(who)
  \/ \E l \in Task : Loop(l)
  \/ \E c \in Client : Shake(c)

DrainSpec == DrainInit /\ [][DrainNext]_drainVars

\* Tasks that are ready run, and drain_timeout ends some day; clients and
\* operators may do nothing for ever.
FairDrainSpec == /\ DrainSpec
                 /\ \A who \in Caller : WF_drainVars(Call(who))
                 /\ \A l \in Task : WF_drainVars(Loop(l)) /\ SF_drainVars(LoopDeadline(l))
-----------------------------------------------------------------------------
(* Properties *)

\* Flags are booleans, and callers, tasks and clients are at a known step.
DrainTypeOK ==
  /\ draining \in BOOLEAN /\ exits \in BOOLEAN /\ active \in BOOLEAN /\ exited \in BOOLEAN
  /\ at \in [Caller -> {"idle", "exits", "draining", "swap", "cancel", "over", "gone"}]
  /\ loop \in [Task -> {"none", "test", "count", "release", "cancelled", "finished",
                        "ask", "exiting"}]
  /\ client \in [Client -> {"out", "tested", "admitted", "in"}]
  /\ crossed \in BOOLEAN /\ skipped \in BOOLEAN

\* start_drain, "only one loop may run": however drains, undrains and signals
\* interleave, drain_active tells whether a loop runs, and there is one at most.
OneLoop ==
  /\ active <=> Running # {}
  /\ \A l, m \in Running : l = m

Quiet == \A who \in Caller : at[who] \in {"idle", "over"}

Ends == {"test", "count", "release", "finished", "ask", "exiting"}

\* The two races that lose a drain: cancel_drain clears the draining of a
\* drain that exits, whose drain_exits it did not see, or the swap finds the
\* drain_active of a loop that ends.
Lost == crossed \/ skipped

\* start_drain, "the loop already running will read drain_exits", and
\* cancel_drain, "drains that exit cannot be taken back": when every caller has
\* returned, a process that is to exit drains and some task is on its way to
\* end it. The two races alone are excepted, until the next start_drain.
UpgradeHasLoop ==
  (exits /\ Quiet /\ ~Lost) => draining /\ \E l \in Task : loop[l] \in Ends

\* start_drain, "a console drain upgraded by admin/SIGTERM still exits": a
\* process that stays up although it is to exit has lost its drain in one of
\* the two races, and no start_drain came after. The drain task alone sees to
\* it: of main's own return no fairness is assumed.
ExitDrainExits == <>[]exits => <>[]Lost
=============================================================================
