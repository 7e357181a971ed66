------------------------------ MODULE TokenSync ------------------------------
(***************************************************************************)
(* How client tokens get from the console to the edges and what they       *)
(* decide there: TokenStore (src/src/console/tokens.rs), the heartbeat     *)
(* handler (src/src/console/server.rs), run_heartbeat and apply            *)
(* (src/src/edge/heartbeat.rs), TokenSet (src/src/edge/auth.rs), and the   *)
(* handshake, which tests the token before the upgrade and subscribes      *)
(* after it (websocket and session, src/src/edge/server.rs).               *)
(*                                                                         *)
(* An edge has one heartbeat under way at a time; request or answer may be *)
(* lost. replace and kick_tokens take different locks, so handshakes run   *)
(* between them. A token is its id; its secret is as unique as the id.     *)
(***************************************************************************)
EXTENDS Integers

CONSTANTS
  Edge,
  Token,        \* ids the console may issue; random, so never issued twice
  Static,       \* STATIC_TOKEN_ID: what a secret of EDGE_CLIENT_TOKENS counts as
  Client,
  MaxVersion,   \* bound: no version above it is given
  MaxRestarts   \* bound: how often processes are restarted

ASSUME TokenAssumption ==
  /\ Static \notin Token
  /\ MaxVersion \in Nat /\ MaxRestarts \in Nat

None == "none"

VARIABLES
  store,      \* store[t]: "new" (not created), "on", "off" or "deleted"
  version,    \* TokensFile.version
  saved,      \* tokens.json: the last store and version saved
  lost,       \* history: a restart lost a change that could not be saved
  edgeVer,    \* TokenSet.version
  edgeSet,    \* TokenSet.console
  heard,      \* TokenSet.received_from_console
  beat,       \* beat[e]: e's heartbeat: idle, asked or kicking, the version
              \* in it and the token set in the answer, as a set of at most one
  client,     \* client[c]: out, or checked or in with an edge and a token
  restarts,
  overtaken   \* history: the set was replaced between c's test and its subscription

consoleVars == <<store, version, saved, lost>>
edgeVars    == <<edgeVer, edgeSet, heard>>
tokenVars == <<consoleVars, edgeVars, beat, client, restarts, overtaken>>

Idle == [phase |-> "idle", ver |-> 0, grants |-> {}]
Kicking == [phase |-> "kicking", ver |-> 0, grants |-> {}]
Out  == [phase |-> "out", edge |-> None, token |-> None]
Enabled == {t \in Token : store[t] = "on"}

TokenInit ==
  /\ store = [t \in Token |-> "new"] /\ version = 0
  /\ saved = [store |-> store, version |-> 0] /\ lost = FALSE
  /\ edgeVer = [e \in Edge |-> 0]
  /\ edgeSet = [e \in Edge |-> {}]
  /\ heard = [e \in Edge |-> FALSE]
  /\ beat = [e \in Edge |-> Idle]
  /\ client = [c \in Client |-> Out]
  /\ restarts = 0
  /\ overtaken = [c \in Client |-> FALSE]

-----------------------------------------------------------------------------
(* The console *)

\* Mutant: a change does not get a version of its own.
Mutate_SameVersion(s) ==
  /\ version < MaxVersion
  /\ store' = s /\ version' = IF version = 0 THEN 1 ELSE version
  /\ \/ saved' = [store |-> s, version |-> version']
     \/ UNCHANGED saved
  /\ UNCHANGED <<lost, edgeVars, beat, client, restarts, overtaken>>

\* TokenStore::mutate: change, next version, save, under one lock. A save that
\* fails is reported, and the change stays in memory.
Mutate(s) ==
  /\ version < MaxVersion
  /\ store' = s /\ version' = version + 1
  /\ \/ saved' = [store |-> s, version |-> version + 1]
     \/ UNCHANGED saved
  /\ UNCHANGED <<lost, edgeVars, beat, client, restarts, overtaken>>

Create(t)          == store[t] = "new" /\ Mutate([store EXCEPT ![t] = "on"])
SetEnabled(t, how) == store[t] \in {"on", "off"} /\ Mutate([store EXCEPT ![t] = how])
Rename(t)          == store[t] \in {"on", "off"} /\ Mutate(store)
Delete(t)          == store[t] \in {"on", "off"} /\ Mutate([store EXCEPT ![t] = "deleted"])

ConsoleRestart ==
  /\ restarts < MaxRestarts
  /\ restarts' = restarts + 1
  /\ store' = saved.store /\ version' = saved.version
  /\ lost' = (lost \/ saved.version # version)
  /\ beat' = [e \in Edge |-> IF beat[e].phase = "asked" THEN Idle ELSE beat[e]]
  /\ UNCHANGED <<saved, edgeVars, client, overtaken>>

\* Mutant: the set is sent to an edge that has none, and never again.
Answer_Once(e) ==
  /\ beat[e].phase = "asked"
  /\ beat' = [beat EXCEPT ![e] =
       [phase |-> "answered", ver |-> version,
        grants |-> IF beat[e].ver = 0 THEN {Enabled} ELSE {}]]
  /\ UNCHANGED <<consoleVars, edgeVars, client, restarts, overtaken>>

\* The heartbeat handler: the enabled set goes out when the versions differ.
Answer(e) ==
  /\ beat[e].phase = "asked"
  /\ beat' = [beat EXCEPT ![e] =
       [phase |-> "answered", ver |-> version,
        grants |-> IF beat[e].ver # version THEN {Enabled} ELSE {}]]
  /\ UNCHANGED <<consoleVars, edgeVars, client, restarts, overtaken>>

-----------------------------------------------------------------------------
(* The edge's heartbeat *)

\* build_heartbeat and the request: the edge reports the version it holds.
Ask(e) ==
  /\ beat[e].phase = "idle"
  /\ beat' = [beat EXCEPT ![e] = [phase |-> "asked", ver |-> edgeVer[e], grants |-> {}]]
  /\ UNCHANGED <<consoleVars, edgeVars, client, restarts, overtaken>>

\* No answer within 4 s: the request or the answer was lost.
BeatFails(e) ==
  /\ beat[e].phase \in {"asked", "answered"}
  /\ beat' = [beat EXCEPT ![e] = Idle]
  /\ UNCHANGED <<consoleVars, edgeVars, client, restarts, overtaken>>

Checked(c, e) == client[c].phase = "checked" /\ client[c].edge = e

\* apply up to TokenSet::replace. kick_tokens follows when the set changed.
Replace(e) ==
  /\ beat[e].phase = "answered"
  /\ \/ /\ beat[e].grants = {}
        /\ beat' = [beat EXCEPT ![e] = Idle]
        /\ UNCHANGED <<edgeVars, overtaken>>
     \/ \E next \in beat[e].grants :
        LET changed == next # edgeSet[e] \/ ~heard[e] IN
        /\ edgeVer' = [edgeVer EXCEPT ![e] = beat[e].ver]
        /\ edgeSet' = [edgeSet EXCEPT ![e] = next]
        /\ heard' = [heard EXCEPT ![e] = TRUE]
        /\ beat' = [beat EXCEPT ![e] = IF changed THEN Kicking ELSE Idle]
        /\ overtaken' = [c \in Client |-> overtaken[c] \/ Checked(c, e)]
  /\ UNCHANGED <<consoleVars, client, restarts>>

\* is_live
Live(e, t) == IF t = Static THEN ~heard[e] ELSE t \in edgeSet[e]

\* Mutant: clients with a static token are left alone.
Kick_NotStatic(e) ==
  /\ beat[e].phase = "kicking"
  /\ client' = [c \in Client |->
       IF client[c].phase = "in" /\ client[c].edge = e /\ client[c].token # Static
          /\ ~Live(e, client[c].token)
       THEN Out ELSE client[c]]
  /\ beat' = [beat EXCEPT ![e] = Idle]
  /\ UNCHANGED <<consoleVars, edgeVars, restarts, overtaken>>

\* kick_tokens: every subscriber whose token is not live any more.
Kick(e) ==
  /\ beat[e].phase = "kicking"
  /\ client' = [c \in Client |->
       IF client[c].phase = "in" /\ client[c].edge = e /\ ~Live(e, client[c].token)
       THEN Out ELSE client[c]]
  /\ beat' = [beat EXCEPT ![e] = Idle]
  /\ UNCHANGED <<consoleVars, edgeVars, restarts, overtaken>>

-----------------------------------------------------------------------------
(* Clients, and the edge process *)

\* websocket: TokenSet::check, then the upgrade is under way.
Check(c, e, t) ==
  /\ client[c].phase = "out"
  /\ Live(e, t)
  /\ client' = [client EXCEPT ![c] = [phase |-> "checked", edge |-> e, token |-> t]]
  /\ overtaken' = [overtaken EXCEPT ![c] = FALSE]
  /\ UNCHANGED <<consoleVars, edgeVars, beat, restarts>>

\* session: the hub registers the client with the token found before.
Subscribe(c) ==
  /\ client[c].phase = "checked"
  /\ client' = [client EXCEPT ![c].phase = "in"]
  /\ UNCHANGED <<consoleVars, edgeVars, beat, restarts, overtaken>>

Leave(c) ==
  /\ client[c].phase # "out"
  /\ client' = [client EXCEPT ![c] = Out]
  /\ UNCHANGED <<consoleVars, edgeVars, beat, restarts, overtaken>>

\* A new edge process: TokenSet::new, no clients, first heartbeat to come.
EdgeRestart(e) ==
  /\ restarts < MaxRestarts
  /\ restarts' = restarts + 1
  /\ edgeVer' = [edgeVer EXCEPT ![e] = 0]
  /\ edgeSet' = [edgeSet EXCEPT ![e] = {}]
  /\ heard' = [heard EXCEPT ![e] = FALSE]
  /\ beat' = [beat EXCEPT ![e] = Idle]
  /\ client' = [c \in Client |-> IF client[c].edge = e THEN Out ELSE client[c]]
  /\ UNCHANGED <<consoleVars, overtaken>>

Console   == \/ \E t \in Token : \/ Create(t) \/ Rename(t) \/ Delete(t)
                                 \/ \E how \in {"on", "off"} : SetEnabled(t, how)
             \/ ConsoleRestart
Heart(e)  == Ask(e) \/ Answer(e) \/ Replace(e) \/ Kick(e)
Visit(c)  == \/ \E e \in Edge, t \in Token \cup {Static} : Check(c, e, t)
             \/ Subscribe(c) \/ Leave(c)
TokenNext ==
  \/ Console
  \/ \E e \in Edge : Heart(e) \/ BeatFails(e) \/ EdgeRestart(e)
  \/ \E c \in Client : Visit(c)

TokenSpec == TokenInit /\ [][TokenNext]_tokenVars

\* run_heartbeat never stops asking, and one that is repeated for ever gets
\* through now and then.
FairTokenSpec ==
  /\ TokenSpec
  /\ \A e \in Edge : /\ WF_tokenVars(Ask(e)) /\ WF_tokenVars(Kick(e))
                     /\ SF_tokenVars(Answer(e)) /\ SF_tokenVars(Replace(e))
-----------------------------------------------------------------------------
(* Properties *)

\* Every variable keeps the shape the store, the heartbeat and the hub give it.
TypeOK ==
  /\ store \in [Token -> {"new", "on", "off", "deleted"}] /\ version \in Nat
  /\ saved \in [store : [Token -> {"new", "on", "off", "deleted"}], version : Nat]
  /\ lost \in BOOLEAN /\ edgeVer \in [Edge -> Nat] /\ edgeSet \in [Edge -> SUBSET Token]
  /\ heard \in [Edge -> BOOLEAN]
  /\ beat \in [Edge -> [phase : {"idle", "asked", "answered", "kicking"}, ver : Nat,
                        grants : SUBSET SUBSET Token]]
  /\ client \in [Client -> [phase : {"out", "checked", "in"}, edge : Edge \cup {None},
                            token : Token \cup {Static, None}]]
  /\ overtaken \in [Client -> BOOLEAN] /\ restarts \in 0..MaxRestarts

\* EDGE_DESIGN, "every change gives tokens_version += 1 and is saved": a
\* version stands for one set. The console sends nothing to an edge that
\* reports its version, so that edge must hold the enabled tokens, whatever
\* answers were lost and whoever restarted. The exception is a console that
\* came back without a change it could not save: it gives that version again.
VersionNamesSet == ~lost => \A e \in Edge : edgeVer[e] = version => edgeSet[e] = Enabled

\* No client is connected with a token its edge no longer accepts, once the
\* edge has applied the set that revoked it; the exception is a handshake
\* that the new set overtook.
RevokedAreKicked ==
  \A c \in Client :
    (client[c].phase = "in" /\ beat[client[c].edge].phase # "kicking" /\ ~overtaken[c])
      => Live(client[c].edge, client[c].token)

\* The tokens an edge accepts become the enabled ones when the console is
\* left alone, although heartbeats are lost and processes restart, unless the
\* console came back without an unsaved change.
EdgesConverge == <>[](lost \/ \A e \in Edge : edgeSet[e] = Enabled)
=============================================================================
