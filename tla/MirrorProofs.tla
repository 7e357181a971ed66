---------------------------- MODULE MirrorProofs ----------------------------
(***************************************************************************)
(* Theorems about the two lists that one process keeps for another and     *)
(* that are saved to a file: the client tokens the console sends to the    *)
(* edges (TokenSync) and the forfeit blocklist tinyuma takes from its feed *)
(* (Forfeit).                                                              *)
(*                                                                         *)
(* For every number of edges, tokens and clients, however many heartbeats  *)
(* are lost and processes restarted, a version names one token set and a   *)
(* revoked token has no session. For any matches, markets and feed,        *)
(* whenever the process ends and writes fail, the index of the hot path    *)
(* agrees with the blocklist and no change of it is left unsaved.          *)
(***************************************************************************)
EXTENDS TokenSync, Forfeit, WellFoundedInduction, TLAPS

-----------------------------------------------------------------------------
(* The tokens *)


Stores  == [Token -> {"new", "on", "off", "deleted"}]
Beats   == [phase : {"idle", "asked", "answered", "kicking"}, ver : Nat,
            grants : SUBSET SUBSET Token]
Clients == [phase : {"out", "checked", "in"}, edge : Edge \cup {None},
            token : Token \cup {Static, None}]

\* Every variable keeps the shape the store, the heartbeat and the hub give it.
LEMMA TypeInit == TokenInit => TypeOK
<1> SUFFICES ASSUME TokenInit PROVE TypeOK
  OBVIOUS
<1>1. store \in Stores /\ version \in Nat
  BY DEF TokenInit, Stores
<1>2. saved = [store |-> store, version |-> 0] /\ lost = FALSE
  BY DEF TokenInit
<1>3. saved \in [store : Stores, version : Nat]
  BY <1>1, <1>2
<1>4. beat \in [Edge -> Beats]
  BY DEF TokenInit, Idle, Beats
<1>5. client \in [Client -> Clients]
  BY DEF TokenInit, Out, Clients
<1>6. lost \in BOOLEAN
  BY <1>2
<1> QED
  BY <1>1, <1>3, <1>4, <1>5, <1>6, TokenAssumption DEF TokenInit, TypeOK, Stores, Beats, Clients

\* No step of the console, of a heartbeat or of a client leaves the types.
LEMMA TypeNext == TypeOK /\ [TokenNext]_tokenVars => TypeOK'
<1> SUFFICES ASSUME TypeOK, [TokenNext]_tokenVars PROVE TypeOK'
  OBVIOUS
<1> USE DEF TypeOK
<1>1. ASSUME NEW s \in Stores, Mutate(s) PROVE TypeOK'
  BY <1>1 DEF Mutate, Stores, consoleVars, edgeVars
<1>2. CASE Console
  <2>1. ASSUME NEW t \in Token, Create(t) PROVE TypeOK'
    BY <2>1, <1>1 DEF Create, Stores
  <2>2. ASSUME NEW t \in Token, Rename(t) PROVE TypeOK'
    BY <2>2, <1>1 DEF Rename, Stores
  <2>3. ASSUME NEW t \in Token, Delete(t) PROVE TypeOK'
    BY <2>3, <1>1 DEF Delete, Stores
  <2>4. ASSUME NEW t \in Token, NEW how \in {"on", "off"}, SetEnabled(t, how) PROVE TypeOK'
    BY <2>4, <1>1 DEF SetEnabled, Stores
  <2>5. CASE ConsoleRestart
    BY <2>5, TokenAssumption DEF ConsoleRestart, Idle, edgeVars
  <2> QED
    BY <1>2, <2>1, <2>2, <2>3, <2>4, <2>5 DEF Console
<1>3. ASSUME NEW e \in Edge, Ask(e) PROVE TypeOK'
  BY <1>3 DEF Ask, consoleVars, edgeVars
<1>4. ASSUME NEW e \in Edge, Answer(e) PROVE TypeOK'
  BY <1>4 DEF Answer, Enabled, consoleVars, edgeVars
<1>5. ASSUME NEW e \in Edge, Replace(e) PROVE TypeOK'
  <2>1. UNCHANGED <<store, version, saved, lost, client, restarts>>
    BY <1>5 DEF Replace, consoleVars
  <2>2. CASE beat' = [beat EXCEPT ![e] = Idle] /\ UNCHANGED <<edgeVars, overtaken>>
    BY <2>1, <2>2 DEF Idle, edgeVars
  <2>3. ASSUME NEW next \in beat[e].grants, NEW b \in {Idle, Kicking},
               edgeVer' = [edgeVer EXCEPT ![e] = beat[e].ver],
               edgeSet' = [edgeSet EXCEPT ![e] = next],
               heard' = [heard EXCEPT ![e] = TRUE],
               beat' = [beat EXCEPT ![e] = b],
               overtaken' = [c \in Client |-> overtaken[c] \/ Checked(c, e)]
        PROVE  TypeOK'
    <3>1. b \in Beats
      BY DEF Idle, Kicking, Beats
    <3>2. beat' \in [Edge -> Beats]
      BY <2>3, <3>1 DEF Beats
    <3>3. overtaken' \in [Client -> BOOLEAN]
      BY <2>3
    <3>4. edgeVer' \in [Edge -> Nat] /\ edgeSet' \in [Edge -> SUBSET Token]
      BY <2>3
    <3>5. heard' \in [Edge -> BOOLEAN]
      BY <2>3
    <3> QED
      BY <2>1, <3>2, <3>3, <3>4, <3>5 DEF Beats
  <2> QED
    BY <1>5, <2>2, <2>3 DEF Replace
<1>6. ASSUME NEW e \in Edge, Kick(e) PROVE TypeOK'
  BY <1>6 DEF Kick, Idle, Out, consoleVars, edgeVars
<1>7. ASSUME NEW e \in Edge, BeatFails(e) PROVE TypeOK'
  BY <1>7 DEF BeatFails, Idle, consoleVars, edgeVars
<1>8. ASSUME NEW e \in Edge, EdgeRestart(e) PROVE TypeOK'
  BY <1>8, TokenAssumption DEF EdgeRestart, Idle, Out, consoleVars
<1>9. ASSUME NEW c \in Client, Visit(c) PROVE TypeOK'
  <2>1. ASSUME NEW e \in Edge, NEW t \in Token \cup {Static}, Check(c, e, t) PROVE TypeOK'
    BY <2>1 DEF Check, consoleVars, edgeVars
  <2>2. CASE Subscribe(c)
    <3>1. client' \in [Client -> Clients]
      <4>1. client \in [Client -> Clients]
        BY DEF Clients
      <4>2. \A r \in Clients : [r EXCEPT !.phase = "in"] \in Clients
        BY DEF Clients
      <4>3. [client[c] EXCEPT !.phase = "in"] \in Clients
        BY <4>1, <4>2
      <4> QED
        BY <2>2, <4>1, <4>3 DEF Subscribe
    <3>2. UNCHANGED <<consoleVars, edgeVars, beat, restarts, overtaken>>
      BY <2>2 DEF Subscribe
    <3> QED
      BY <3>1, <3>2 DEF Clients, consoleVars, edgeVars
  <2>3. CASE Leave(c)
    BY <2>3 DEF Leave, Out, consoleVars, edgeVars
  <2> QED
    BY <1>9, <2>1, <2>2, <2>3 DEF Visit
<1>10. CASE UNCHANGED tokenVars
  BY <1>10 DEF tokenVars, consoleVars, edgeVars
<1> QED
  BY <1>2, <1>3, <1>4, <1>5, <1>6, <1>7, <1>8, <1>9, <1>10 DEF TokenNext, Heart

\* Type correctness of the token store, the heartbeats and the clients.
THEOREM TypeCorrect == TokenSpec => []TypeOK
  BY TypeInit, TypeNext, PTL DEF TokenSpec

-----------------------------------------------------------------------------
(* A version names one token set. What makes it inductive: the file is not   *)
(* ahead of memory, and holds memory's tokens when it has its version; and   *)
(* neither an edge nor an answer under way has a version the console has not *)
(* given, nor the current one with another set.                              *)

Saved  == saved.version <= version /\ (saved.version = version => saved.store = store)
Exact(v, S) == v \in Nat /\ v <= version /\ (v = version => S = Enabled)
VersionInv ==
  /\ Saved
  /\ Exact(0, {})
  /\ \A e \in Edge : Exact(edgeVer[e], edgeSet[e])
  /\ \A e \in Edge : \A g \in beat[e].grants : Exact(beat[e].ver, g)

\* A new console is at version 0 without tokens, and so is a new edge.
LEMMA VersionInit == TokenInit => VersionInv
<1> SUFFICES ASSUME TokenInit PROVE VersionInv
  OBVIOUS
<1>1. Enabled = {}
  BY DEF TokenInit, Enabled
<1>2. Saved
  BY DEF TokenInit, Saved
<1>3. Exact(0, {}) /\ \A e \in Edge : Exact(edgeVer[e], edgeSet[e])
  BY <1>1 DEF TokenInit, Exact
<1>4. \A e \in Edge : beat[e].grants = {}
  BY DEF TokenInit, Idle
<1> QED
  BY <1>2, <1>3, <1>4 DEF VersionInv

\* mutate gives a fresh version, and an answer carries version and set together.
LEMMA VersionNext ==
  ASSUME TypeOK, VersionInv, [TokenNext]_tokenVars, ~lost'
  PROVE  VersionInv'
<1>1. version \in Nat
  BY DEF TypeOK
<1>2. ASSUME NEW s \in Stores, Mutate(s) PROVE VersionInv'
  <2>1. Saved'
    <3>1. CASE saved' = [store |-> s, version |-> version + 1]
      BY <1>1, <1>2, <3>1 DEF Mutate, Saved
    <3>2. CASE UNCHANGED saved
      <4>1. saved.version \in Nat /\ saved.version <= version
        BY <1>1 DEF VersionInv, Saved, TypeOK
      <4> QED
        BY <1>1, <1>2, <3>2, <4>1 DEF Mutate, Saved
    <3> QED
      BY <1>2, <3>1, <3>2 DEF Mutate
  <2>2. Exact(0, {})'
    BY <1>1, <1>2 DEF VersionInv, Mutate, Exact
  <2>3. UNCHANGED <<edgeVer, edgeSet, beat>>
    BY <1>2 DEF Mutate, edgeVars
  <2>4. \A e \in Edge : Exact(edgeVer[e], edgeSet[e])'
    BY <1>1, <1>2, <2>3 DEF VersionInv, Mutate, Exact
  <2>5. \A e \in Edge : \A g \in beat'[e].grants : Exact(beat[e].ver, g)'
    BY <1>1, <1>2, <2>3 DEF VersionInv, Mutate, Exact
  <2> QED
    BY <2>1, <2>2, <2>4, <2>5 DEF VersionInv
<1>3. CASE Console
  <2>1. ASSUME NEW t \in Token, Create(t) PROVE VersionInv'
    BY <2>1, <1>2 DEF Create, Stores, TypeOK
  <2>2. ASSUME NEW t \in Token, Rename(t) PROVE VersionInv'
    BY <2>2, <1>2 DEF Rename, Stores, TypeOK
  <2>3. ASSUME NEW t \in Token, Delete(t) PROVE VersionInv'
    BY <2>3, <1>2 DEF Delete, Stores, TypeOK
  <2>4. ASSUME NEW t \in Token, NEW how \in {"on", "off"}, SetEnabled(t, how) PROVE VersionInv'
    BY <2>4, <1>2 DEF SetEnabled, Stores, TypeOK
  <2>5. CASE ConsoleRestart
    <3>1. UNCHANGED <<store, version, saved, edgeVer, edgeSet>>
      BY <2>5 DEF ConsoleRestart, VersionInv, Saved, edgeVars
    <3>2. \A e \in Edge : beat'[e] = beat[e] \/ beat'[e].grants = {}
      BY <2>5 DEF ConsoleRestart, Idle
    <3> QED
      BY <3>1, <3>2 DEF VersionInv, Saved, Exact, Enabled
  <2> QED
    BY <1>3, <2>1, <2>2, <2>3, <2>4, <2>5 DEF Console
<1>4. ASSUME NEW e \in Edge, UNCHANGED <<store, version, saved>>,
             NEW v, NEW S, Exact(v, S),
             edgeVer' = [edgeVer EXCEPT ![e] = v], edgeSet' = [edgeSet EXCEPT ![e] = S],
             NEW b \in {Idle, Kicking}, beat' = [beat EXCEPT ![e] = b]
      PROVE  VersionInv'
  <2>1. b.grants = {}
    BY <1>4 DEF Idle, Kicking
  <2>2. \A f \in Edge : (f # e => beat'[f] = beat[f]) /\ (f = e => beat'[f] = b)
    BY <1>4 DEF TypeOK
  <2>3. \A f \in Edge : \A g \in beat'[f].grants : beat'[f] = beat[f]
    BY <2>1, <2>2
  <2>4. \A f \in Edge : Exact(edgeVer[f], edgeSet[f])'
    BY <1>4 DEF VersionInv, Exact, Enabled, TypeOK
  <2>5. \A f \in Edge : \A g \in beat'[f].grants : Exact(beat[f].ver, g)'
    BY <1>4, <2>3 DEF VersionInv, Exact, Enabled
  <2> QED
    BY <1>4, <2>4, <2>5 DEF VersionInv, Saved, Exact, Enabled
<1>5. ASSUME NEW e \in Edge, NEW b, beat' = [beat EXCEPT ![e] = b],
             UNCHANGED <<store, version, saved, edgeVer, edgeSet>>,
             \A g \in b.grants : Exact(b.ver, g)
      PROVE  VersionInv'
  <2>1. \A f \in Edge : (f # e => beat'[f] = beat[f]) /\ (f = e => beat'[f] = b)
    BY <1>5 DEF TypeOK
  <2>2. \A f \in Edge : \A g \in beat'[f].grants : Exact(beat'[f].ver, g)
    BY <1>5, <2>1 DEF VersionInv
  <2> QED
    BY <1>5, <2>2 DEF VersionInv, Saved, Exact, Enabled
<1>6. ASSUME NEW e \in Edge, Ask(e) PROVE VersionInv'
  <2> DEFINE b == [phase |-> "asked", ver |-> edgeVer[e], grants |-> {}]
  <2>1. \A g \in b.grants : Exact(b.ver, g)
    OBVIOUS
  <2>2. beat' = [beat EXCEPT ![e] = b]
    BY <1>6 DEF Ask
  <2>3. UNCHANGED <<store, version, saved, edgeVer, edgeSet>>
    BY <1>6 DEF Ask, consoleVars, edgeVars
  <2> HIDE DEF b
  <2> QED
    BY <1>5, <2>1, <2>2, <2>3
<1>7. ASSUME NEW e \in Edge, Answer(e) PROVE VersionInv'
  <2> DEFINE b == [phase |-> "answered", ver |-> version,
                   grants |-> IF beat[e].ver # version THEN {Enabled} ELSE {}]
  <2>1. \A g \in b.grants : Exact(b.ver, g)
    BY <1>1 DEF Exact
  <2>2. beat' = [beat EXCEPT ![e] = b]
    BY <1>7 DEF Answer
  <2>3. UNCHANGED <<store, version, saved, edgeVer, edgeSet>>
    BY <1>7 DEF Answer, consoleVars, edgeVars
  <2> HIDE DEF b
  <2> QED
    BY <1>5, <2>1, <2>2, <2>3
<1>8. ASSUME NEW e \in Edge, Replace(e) PROVE VersionInv'
  <2>1. UNCHANGED <<store, version, saved>>
    BY <1>8 DEF Replace, consoleVars
  <2>2. CASE beat' = [beat EXCEPT ![e] = Idle] /\ UNCHANGED <<edgeVars, overtaken>>
    <3>1. \A g \in Idle.grants : Exact(Idle.ver, g)
      BY DEF Idle
    <3>2. UNCHANGED <<edgeVer, edgeSet>>
      BY <2>2 DEF edgeVars
    <3> QED
      BY <1>5, <2>1, <2>2, <3>1, <3>2
  <2>3. ASSUME NEW next \in beat[e].grants,
               edgeVer' = [edgeVer EXCEPT ![e] = beat[e].ver],
               edgeSet' = [edgeSet EXCEPT ![e] = next],
               NEW b \in {Idle, Kicking}, beat' = [beat EXCEPT ![e] = b]
        PROVE  VersionInv'
    BY <1>4, <2>1, <2>3 DEF VersionInv
  <2> QED
    BY <1>8, <2>2, <2>3 DEF Replace
<1>9. ASSUME NEW e \in Edge, Kick(e) PROVE VersionInv'
  <2>1. \A g \in Idle.grants : Exact(Idle.ver, g)
    BY DEF Idle
  <2>2. beat' = [beat EXCEPT ![e] = Idle]
    BY <1>9 DEF Kick
  <2>3. UNCHANGED <<store, version, saved, edgeVer, edgeSet>>
    BY <1>9 DEF Kick, consoleVars, edgeVars
  <2> QED
    BY <1>5, <2>1, <2>2, <2>3
<1>10. ASSUME NEW e \in Edge, BeatFails(e) PROVE VersionInv'
  <2>1. \A g \in Idle.grants : Exact(Idle.ver, g)
    BY DEF Idle
  <2>2. beat' = [beat EXCEPT ![e] = Idle]
    BY <1>10 DEF BeatFails
  <2>3. UNCHANGED <<store, version, saved, edgeVer, edgeSet>>
    BY <1>10 DEF BeatFails, consoleVars, edgeVars
  <2> QED
    BY <1>5, <2>1, <2>2, <2>3
<1>11. ASSUME NEW e \in Edge, EdgeRestart(e) PROVE VersionInv'
  <2>1. Exact(0, {})
    BY DEF VersionInv
  <2>2. UNCHANGED <<store, version, saved>>
    BY <1>11 DEF EdgeRestart, consoleVars
  <2> QED
    BY <1>11, <2>1, <2>2, <1>4 DEF EdgeRestart
<1>12. ASSUME NEW c \in Client, Visit(c) PROVE VersionInv'
  BY <1>12 DEF Visit, Check, Subscribe, Leave, consoleVars, edgeVars, VersionInv, Saved, Exact, Enabled
<1>13. CASE UNCHANGED tokenVars
  BY <1>13 DEF tokenVars, consoleVars, edgeVars, VersionInv, Saved, Exact, Enabled
<1> QED
  BY <1>3, <1>6, <1>7, <1>8, <1>9, <1>10, <1>11, <1>12, <1>13 DEF TokenNext, Heart

\* A lost change stays lost.
LEMMA LostStays == [TokenNext]_tokenVars /\ lost => lost'
  BY DEF TokenNext, Console, Create, Rename, Delete, SetEnabled, Mutate, ConsoleRestart, Heart, Ask,
         Answer, Replace, Kick, BeatFails, EdgeRestart, Visit, Check, Subscribe, Leave, tokenVars,
         consoleVars

\* As long as no restart loses an unsaved change, a version stands for one
\* token set: an edge that reports the console's version, and so gets no
\* tokens in the answer, accepts exactly the enabled ones.
THEOREM VersionNamesSetHolds == TokenSpec => []VersionNamesSet
<1>1. TokenInit => TypeOK /\ VersionInv
  BY TypeInit, VersionInit
<1>2. TypeOK /\ (lost \/ VersionInv) /\ [TokenNext]_tokenVars => TypeOK' /\ (lost' \/ VersionInv')
  BY TypeNext, VersionNext, LostStays
<1>3. lost \/ VersionInv => VersionNamesSet
  BY DEF VersionInv, VersionNamesSet, Exact
<1> QED
  BY <1>1, <1>2, <1>3, PTL DEF TokenSpec

-----------------------------------------------------------------------------
(* Revoked tokens lose their connections. What makes it inductive: a         *)
(* handshake the set has not overtaken still has a live token.               *)

KickInv ==
  \A c \in Client : ~overtaken[c] =>
    /\ client[c].phase # "out" => client[c].edge \in Edge
    /\ client[c].phase = "checked" => Live(client[c].edge, client[c].token)
    /\ client[c].phase = "in" => \/ beat[client[c].edge].phase = "kicking"
                                \/ Live(client[c].edge, client[c].token)

\* At the start nobody is connected.
LEMMA KickInit == TokenInit => KickInv
  BY DEF TokenInit, KickInv, Out

\* replace marks the handshakes it overtakes, and kick_tokens follows a change.
LEMMA KickNext ==
  ASSUME TypeOK, KickInv, [TokenNext]_tokenVars
  PROVE  KickInv'
<1>1. ASSUME UNCHANGED <<edgeSet, heard, client, overtaken>>,
             \A e \in Edge : beat[e].phase = "kicking" => beat'[e].phase = "kicking"
      PROVE  KickInv'
  BY <1>1 DEF KickInv, Live
<1>2. CASE Console
  <2>1. UNCHANGED <<edgeSet, heard, client, overtaken>>
    BY <1>2 DEF Console, Create, Rename, Delete, SetEnabled, Mutate, ConsoleRestart, edgeVars
  <2>2. beat' = beat \/ beat' = [e \in Edge |-> IF beat[e].phase = "asked" THEN Idle ELSE beat[e]]
    BY <1>2 DEF Console, Create, Rename, Delete, SetEnabled, Mutate, ConsoleRestart
  <2> QED
    BY <1>1, <2>1, <2>2
<1>3. ASSUME NEW e \in Edge, Ask(e) \/ Answer(e) \/ BeatFails(e) PROVE KickInv'
  <2>1. UNCHANGED <<edgeSet, heard, client, overtaken>>
    BY <1>3 DEF Ask, Answer, BeatFails, edgeVars
  <2>2. beat[e].phase # "kicking" /\ \A f \in Edge \ {e} : beat'[f] = beat[f]
    BY <1>3 DEF Ask, Answer, BeatFails, TypeOK
  <2> QED
    BY <1>1, <2>1, <2>2
<1>4. ASSUME NEW e \in Edge, Replace(e) PROVE KickInv'
  <2>1. beat[e].phase = "answered" /\ UNCHANGED client
    BY <1>4 DEF Replace
  <2>2. CASE beat' = [beat EXCEPT ![e] = Idle] /\ UNCHANGED <<edgeVars, overtaken>>
    <3>1. \A f \in Edge \ {e} : beat'[f] = beat[f]
      BY <2>2 DEF TypeOK
    <3> QED
      BY <1>1, <2>1, <2>2, <3>1 DEF edgeVars
  <2>3. ASSUME NEW next \in beat[e].grants,
               edgeSet' = [edgeSet EXCEPT ![e] = next],
               heard' = [heard EXCEPT ![e] = TRUE],
               overtaken' = [c \in Client |-> overtaken[c] \/ Checked(c, e)],
               NEW b, beat' = [beat EXCEPT ![e] = b],
               b = Kicking \/ (next = edgeSet[e] /\ heard[e])
        PROVE  KickInv'
    <3> SUFFICES ASSUME NEW c \in Client, ~overtaken'[c]
                 PROVE  /\ client[c].phase # "out" => client[c].edge \in Edge
                        /\ client[c].phase = "checked" => Live(client[c].edge, client[c].token)'
                        /\ client[c].phase = "in" => \/ beat'[client[c].edge].phase = "kicking"
                                                    \/ Live(client[c].edge, client[c].token)'
      BY <2>1 DEF KickInv
    <3>1. ~overtaken[c] /\ ~Checked(c, e)
      BY <2>3
    <3>2. \A f \in Edge \ {e} : beat'[f] = beat[f] /\ edgeSet'[f] = edgeSet[f] /\ heard'[f] = heard[f]
      BY <2>3 DEF TypeOK
    <3>3. beat'[e] = b /\ edgeSet'[e] = next /\ heard'[e]
      BY <2>3 DEF TypeOK
    <3>4. CASE client[c].edge # e
      BY <2>1, <3>1, <3>2, <3>4 DEF KickInv, Live
    <3>5. CASE client[c].edge = e
      <4>1. client[c].phase # "checked"
        BY <3>1, <3>5 DEF Checked
      <4>2. CASE b = Kicking
        BY <3>1, <3>3, <3>5, <4>1, <4>2 DEF Kicking
      <4>3. CASE next = edgeSet[e] /\ heard[e]
        BY <2>1, <3>1, <3>3, <3>5, <4>1, <4>3 DEF KickInv, Live
      <4> QED
        BY <2>3, <4>2, <4>3
    <3> QED
      BY <3>4, <3>5
  <2> QED
    BY <1>4, <2>2, <2>3 DEF Replace
<1>5. ASSUME NEW e \in Edge, Kick(e) PROVE KickInv'
  <2>1. UNCHANGED <<edgeSet, heard, overtaken>>
    BY <1>5 DEF Kick, edgeVars
  <2>2. \A f \in Edge \ {e} : beat'[f] = beat[f]
    BY <1>5 DEF Kick, TypeOK
  <2>3. \A c \in Client :
          \/ client'[c].phase = "out"
          \/ /\ client'[c] = client[c]
             /\ client[c].phase = "in" /\ client[c].edge = e => Live(e, client[c].token)
    BY <1>5 DEF Kick, Out
  <2> QED
    BY <2>1, <2>2, <2>3 DEF KickInv, Live
<1>6. ASSUME NEW e \in Edge, EdgeRestart(e) PROVE KickInv'
  <2>1. \A f \in Edge \ {e} : beat'[f] = beat[f] /\ edgeSet'[f] = edgeSet[f] /\ heard'[f] = heard[f]
    BY <1>6 DEF EdgeRestart, TypeOK
  <2>2. \A c \in Client : client'[c].phase = "out" \/ (client'[c] = client[c] /\ client[c].edge # e)
    BY <1>6 DEF EdgeRestart, Out
  <2>3. UNCHANGED overtaken
    BY <1>6 DEF EdgeRestart
  <2> QED
    BY <2>1, <2>2, <2>3 DEF KickInv, Live
<1>7. ASSUME NEW c \in Client, Visit(c) PROVE KickInv'
  <2>1. UNCHANGED <<edgeSet, heard, beat>>
    BY <1>7 DEF Visit, Check, Subscribe, Leave, edgeVars
  <2>2. \A d \in Client \ {c} : client'[d] = client[d] /\ overtaken'[d] = overtaken[d]
    BY <1>7 DEF Visit, Check, Subscribe, Leave, TypeOK
  <2>3. ASSUME NEW e \in Edge, NEW t, Check(c, e, t)
        PROVE  client'[c].phase = "checked" /\ client'[c].edge = e /\ client'[c].token = t /\ Live(e, t)
    BY <2>3 DEF Check, TypeOK
  <2>4. ASSUME Subscribe(c)
        PROVE  /\ client[c].phase = "checked" /\ client'[c].phase = "in" /\ overtaken'[c] = overtaken[c]
               /\ client'[c].edge = client[c].edge /\ client'[c].token = client[c].token
    BY <2>4 DEF Subscribe, TypeOK
  <2>5. ASSUME Leave(c) PROVE client'[c].phase = "out"
    BY <2>5 DEF Leave, Out, TypeOK
  <2>6. CASE \E e \in Edge, t \in Token \cup {Static} : Check(c, e, t)
    BY <2>1, <2>2, <2>3, <2>6 DEF KickInv, Live
  <2>7. CASE Subscribe(c)
    BY <2>1, <2>2, <2>4, <2>7 DEF KickInv, Live
  <2>8. CASE Leave(c)
    BY <2>1, <2>2, <2>5, <2>8 DEF KickInv, Live
  <2> QED
    BY <1>7, <2>6, <2>7, <2>8 DEF Visit
<1>8. CASE UNCHANGED tokenVars
  BY <1>8 DEF tokenVars, edgeVars, KickInv, Live
<1> QED
  BY <1>2, <1>3, <1>4, <1>5, <1>6, <1>7, <1>8 DEF TokenNext, Heart

\* Once apply has returned, kick_tokens included, no client is connected with
\* a token its edge no longer accepts, unless the new set overtook its
\* handshake.
THEOREM RevokedAreKickedHolds == TokenSpec => []RevokedAreKicked
<1>1. TypeOK /\ KickInv => RevokedAreKicked
  BY DEF KickInv, RevokedAreKicked
<1>2. TypeOK /\ KickInv /\ [TokenNext]_tokenVars => KickInv'
  BY KickNext
<1> QED
  BY KickInit, TypeInit, TypeNext, <1>1, <1>2, PTL DEF TokenSpec


-----------------------------------------------------------------------------
(* The blocklist: types *)

MatchRec ==
  [added : Nat, ids : SUBSET Cond, status : {"none", "matched", "not_found", "failed"},
   seqs : SUBSET Nat, blocked : Nat]
StateRec == [matches : [Match -> MatchRec], last : Nat, total : Nat]
FrameRec == [seq : DOMAIN MatchOf, ids : SUBSET Cond, status : {"matched", "not_found", "failed"}]

\* The list, its copies and what the feed sends.
Types ==
  /\ now \in Nat
  /\ log \in Seq(SUBSET Cond) /\ Len(log) <= Len(MatchOf)
  /\ pipe \in Seq(FrameRec)
  /\ state \in StateRec /\ snap \in StateRec /\ disk \in StateRec

LEMMA EmptyType == EmptyState \in StateRec /\ NoMatch \in MatchRec
<1>1. NoMatch \in MatchRec
  BY DEF NoMatch, MatchRec
<1> QED BY <1>1 DEF EmptyState, StateRec

\* The least of a set of naturals.
LEMMA MinNat ==
  ASSUME NEW T, T \subseteq Nat, T # {}
  PROVE  Min(T) \in T
<1> DEFINE R == OpToRel(<, Nat)
<1>1. IsWellFoundedOn(R, Nat)
  BY NatLessThanWellFounded
<1>2. \A x, y \in Nat : x < y => <<x, y>> \in R
  BY DEF OpToRel
<1> HIDE DEF R
<1>3. PICK x \in T : \A y \in T : ~(<<y, x>> \in R)
  BY <1>1, WFMin
<1>4. \A y \in T : ~(y < x)
  BY <1>2, <1>3, Zenon
<1>5. \A y \in T : x <= y
  BY <1>4
<1> QED BY <1>5 DEF Min

LEMMA TypesInit == Init => Types
  BY EmptyType, ForfeitAssumption DEF Init, Types

\* Frames of the feed name an event of the log.
LEMMA FrameType ==
  ASSUME NEW q \in DOMAIN MatchOf, NEW ids \in SUBSET Cond
  PROVE  Frame(q, ids) \in FrameRec
  BY DEF Frame, FrameRec

LEMMA PushType ==
  ASSUME Types, NEW f \in FrameRec
  PROVE  Push(f) \in Seq(FrameRec)
  BY DEF Types, Push

LEMMA MaxTwo ==
  ASSUME NEW a \in Int, NEW b \in Int
  PROVE  Max({a, b}) = IF a >= b THEN a ELSE b
  BY DEF Max

\* What expires leaves no trace of its markets.
LEMMA WithoutType ==
  ASSUME NEW s \in StateRec, NEW ms
  PROVE  /\ Without(s, ms) \in StateRec
         /\ Without(s, ms).last = s.last
         /\ \A m \in Match : Without(s, ms).matches[m] = IF m \in ms THEN NoMatch ELSE s.matches[m]
         /\ ms = {} => Without(s, ms) = s
<1> DEFINE f == [m \in Match |-> IF m \in ms THEN NoMatch ELSE s.matches[m]]
<1>1. Without(s, ms) = [s EXCEPT !.matches = f]
  BY DEF Without
<1>2. f \in [Match -> MatchRec] /\ (ms = {} => f = s.matches)
  BY EmptyType DEF StateRec
<1> HIDE DEF f
<1>3. Without(s, ms) \in StateRec /\ Without(s, ms).matches = f /\ Without(s, ms).last = s.last
  BY <1>1, <1>2 DEF StateRec
<1>4. ms = {} => Without(s, ms) = s
  BY <1>1, <1>2 DEF StateRec
<1> QED BY <1>3, <1>4 DEF f

\* apply, first half.
LEMMA ApplyStateFacts ==
  ASSUME Types, ApplyState
  PROVE  \E m \in Match, f \in FrameRec :
           LET old == state.matches[m]
               new == merge(old, f)
           IN  /\ new \in MatchRec /\ state' \in StateRec /\ pipe' \in Seq(FrameRec)
               /\ state'.matches = [state.matches EXCEPT ![m] = new]
               /\ state'.last = Max({state.last, f.seq}) /\ state'.total = state.total
               /\ adding' = IF new = old THEN NotAdding
                            ELSE [match |-> m, ids |-> f.ids \ old.ids, dirty |-> TRUE]
<1> DEFINE f == pipe[1]
           m == MatchOf[f.seq]
           old == state.matches[m]
           new == merge(old, f)
<1>1. /\ pipe # <<>> /\ pipe' = Tail(pipe)
      /\ state' = [state EXCEPT !.matches[m] = new, !.last = Max({@, f.seq})]
      /\ adding' = IF new = old THEN NotAdding
                   ELSE [match |-> m, ids |-> f.ids \ old.ids, dirty |-> TRUE]
  BY DEF ApplyState
<1>2. f \in FrameRec /\ pipe' \in Seq(FrameRec)
  BY <1>1 DEF Types
<1> HIDE DEF f
<1>3. m \in Match /\ f.seq \in Nat /\ f.ids \in SUBSET Cond
      /\ f.status \in {"matched", "not_found", "failed"}
  BY <1>2, ForfeitAssumption DEF FrameRec
<1> HIDE DEF m
<1>4. old \in MatchRec /\ state.last \in Nat
  BY <1>3 DEF Types, StateRec
<1> HIDE DEF old
<1>5. new \in MatchRec
  BY <1>3, <1>4 DEF merge, MatchRec, Types
<1>6. Max({state.last, f.seq}) \in Nat
  BY <1>3, <1>4, MaxTwo
<1> HIDE DEF new
<1>7. /\ state' \in StateRec /\ state'.matches = [state.matches EXCEPT ![m] = new]
      /\ state'.last = Max({state.last, f.seq}) /\ state'.total = state.total
  BY <1>1, <1>3, <1>5, <1>6 DEF Types, StateRec
<1> QED BY <1>1, <1>2, <1>3, <1>5, <1>7 DEF new, old

\* record_blocked counts, and leaves markets and sequences alone.
LEMMA BlockedFacts ==
  ASSUME Types, record_blocked
  PROVE  /\ state' \in StateRec /\ state'.last = state.last
         /\ \A m \in Match : /\ state'.matches[m].ids = state.matches[m].ids
                             /\ state'.matches[m].seqs = state.matches[m].seqs
<1>1. state' = [state EXCEPT !.total = @ + 1,
                  !.matches[hot].blocked = IF Listed(state, hot) THEN @ + 1 ELSE @]
  BY DEF record_blocked
<1> DEFINE b == IF Listed(state, hot) THEN state.matches[hot].blocked + 1
                ELSE state.matches[hot].blocked
           f == [state.matches EXCEPT ![hot] = [state.matches[hot] EXCEPT !.blocked = b]]
<1>2. state' = [state EXCEPT !.total = state.total + 1, !.matches = f]
  BY <1>1 DEF Types, StateRec
<1>3. /\ f \in [Match -> MatchRec]
      /\ \A m \in Match : f[m].ids = state.matches[m].ids /\ f[m].seqs = state.matches[m].seqs
  <2>1. state.matches \in [Match -> MatchRec]
    BY DEF Types, StateRec
  <2>2. hot \in Match => /\ [state.matches[hot] EXCEPT !.blocked = b] \in MatchRec
                         /\ [state.matches[hot] EXCEPT !.blocked = b].ids = state.matches[hot].ids
                         /\ [state.matches[hot] EXCEPT !.blocked = b].seqs = state.matches[hot].seqs
    BY <2>1 DEF MatchRec
  <2> QED BY <2>1, <2>2
<1> HIDE DEF f
<1> DEFINE t == state.total + 1
<1>4. state \in StateRec /\ t \in Nat
  BY DEF Types, StateRec
<1> HIDE DEF t
<1>5. state' = [state EXCEPT !.total = t, !.matches = f]
  BY <1>2 DEF t
<1>6. state' \in StateRec /\ state'.matches = f /\ state'.last = state.last
  BY <1>3, <1>4, <1>5 DEF StateRec
<1> QED BY <1>3, <1>6

\* The session gets what the feed has from some event on.
LEMMA ConnectType ==
  ASSUME Types, Connect
  PROVE  pipe' \in Seq(FrameRec)
<1> DEFINE first == Max({1, Len(log) - Backfill + 1})
           n == Len(log) - first + 1
           past == [i \in 1..n |-> Frame(first + i - 1, log[first + i - 1])]
<1>1. pipe' = past
  BY DEF Connect
<1>2. Len(log) \in Nat /\ Backfill \in Nat
  BY ForfeitAssumption DEF Types
<1>3. first \in Nat /\ first >= 1 /\ first <= Len(log) + 1
  BY <1>2, MaxTwo
<1> HIDE DEF first
<1>4. n \in Nat
  BY <1>2, <1>3
<1>5. \A i \in 1..n : first + i - 1 \in 1..Len(log)
  BY <1>2, <1>3
<1>6. \A i \in 1..n : Frame(first + i - 1, log[first + i - 1]) \in FrameRec
  <2>1. \A q \in 1..Len(log) : q \in DOMAIN MatchOf /\ log[q] \in SUBSET Cond
    BY <1>2, ForfeitAssumption DEF Types
  <2> QED BY <1>5, <2>1, FrameType
<1> HIDE DEF n
<1>7. past \in [1..n -> FrameRec]
  BY <1>6
<1> QED BY <1>1, <1>4, <1>7

LEMMA TypesNext == Types /\ [Next]_vars => Types'
<1> SUFFICES ASSUME Types, [Next]_vars PROVE Types'
  OBVIOUS
<1> USE DEF vars, feedVars, listVars, saveVars
<1>1. ASSUME NEW ids \in SUBSET Cond, Publish(ids) PROVE Types'
  <2>1. /\ Len(log) + 1 \in DOMAIN MatchOf /\ log' = Append(log, ids)
        /\ pipe' = Push(Frame(Len(log) + 1, ids))
        /\ Len(log) \in Nat /\ Len(log) + 1 <= Len(MatchOf)
    BY <1>1, ForfeitAssumption DEF Publish, Types
  <2>2. pipe' \in Seq(FrameRec)
    BY <2>1, FrameType, PushType
  <2>3. log' \in Seq(SUBSET Cond) /\ Len(log') = Len(log) + 1
    BY <2>1 DEF Types
  <2> QED BY <1>1, <2>1, <2>2, <2>3 DEF Publish, Types
<1>2. ASSUME NEW q \in DOMAIN log, NEW ids \in SUBSET Cond, Amend(q, ids) PROVE Types'
  <2>1. q \in DOMAIN MatchOf
    BY ForfeitAssumption DEF Types
  <2>2. log' = [log EXCEPT ![q] = ids] /\ pipe' = Push(Frame(q, ids))
    BY <1>2 DEF Amend
  <2>3. pipe' \in Seq(FrameRec)
    BY <2>1, <2>2, FrameType, PushType
  <2>4. log' \in Seq(SUBSET Cond) /\ Len(log') = Len(log)
    BY <2>2 DEF Types
  <2> QED BY <1>2, <2>3, <2>4 DEF Amend, Types
<1>3. ASSUME NEW q \in DOMAIN log, Failed(q) PROVE Types'
  <2>1. q \in DOMAIN MatchOf
    BY ForfeitAssumption DEF Types
  <2>2. [seq |-> q, ids |-> {}, status |-> "failed"] \in FrameRec
    BY <2>1 DEF FrameRec
  <2>3. pipe' \in Seq(FrameRec)
    BY <1>3, <2>2 DEF Failed, Types
  <2> QED BY <1>3, <2>3 DEF Failed, Types
<1>4. CASE Connect
  BY <1>4, ConnectType DEF Connect, Types
<1>5. CASE ApplyState
  <2>1. state' \in StateRec /\ pipe' \in Seq(FrameRec)
    BY <1>5, ApplyStateFacts
  <2> QED BY <1>5, <2>1 DEF ApplyState, Types
<1>6. CASE record_blocked
  BY <1>6, BlockedFacts DEF record_blocked, Types
<1>7. CASE Disconnect
  BY <1>7 DEF Disconnect, Types
<1>8. CASE PruneState
  BY <1>8, WithoutType DEF PruneState, Types
<1>9. CASE Snapshot \/ Write
  BY <1>9, EmptyType DEF Snapshot, Write, Types
<1>10. CASE Exit \/ Crash
  <2>1. /\ pipe' = <<>> /\ state' = EmptyState /\ snap' = EmptyState
        /\ UNCHANGED <<now, log, disk>>
    BY <1>10 DEF Exit, Crash, Gone
  <2> QED BY <2>1, EmptyType DEF Types
<1>11. CASE Start
  BY <1>11, WithoutType DEF Start, Types
<1>12. CASE Tick
  <2>1. now' \in Nat
    BY <1>12 DEF Tick, Types
  <2> QED BY <1>12, <2>1 DEF Tick, Types
<1>13. CASE \/ ApplyIndex \/ (\E c \in Cond : Lookup(c)) \/ notify_one \/ PruneIndex
            \/ Wake \/ Stop \/ UNCHANGED vars
  BY <1>13 DEF ApplyIndex, Lookup, notify_one, PruneIndex, Wake, Stop, Types
<1> QED BY <1>1, <1>2, <1>3, <1>4, <1>5, <1>6, <1>7, <1>8, <1>9, <1>10, <1>11, <1>12, <1>13
        DEF Next, Session, Saver

\* A process that is down does nothing.
DownInv == up = "down" => ~linked /\ Quiet /\ saver = "wait"

LEMMA DownNext == DownInv /\ [Next]_vars => DownInv'
<1> SUFFICES ASSUME DownInv, [Next]_vars PROVE DownInv'
  OBVIOUS
<1> USE DEF vars, feedVars, listVars, saveVars, DownInv, Quiet
<1>1. CASE \/ \E ids \in SUBSET Cond : Publish(ids)
           \/ \E q \in DOMAIN log : Failed(q) \/ \E ids \in SUBSET Cond : Amend(q, ids)
           \/ Connect \/ Disconnect \/ (\E c \in Cond : Lookup(c)) \/ record_blocked \/ notify_one \/ Tick
           \/ UNCHANGED vars
  BY <1>1 DEF Publish, Failed, Amend, Connect, Disconnect, Lookup, record_blocked, notify_one, Tick
<1>2. CASE ApplyState \/ ApplyIndex \/ PruneState \/ PruneIndex
  BY <1>2 DEF ApplyState, ApplyIndex, PruneState, PruneIndex
<1>3. CASE Wake \/ Snapshot \/ Write
  BY <1>3 DEF Wake, Snapshot, Write, AfterWrite
<1>4. CASE Stop \/ Exit \/ Crash \/ Start
  BY <1>4 DEF Stop, Exit, Crash, Start, Gone
<1> QED BY <1>1, <1>2, <1>3, <1>4 DEF Next, Session, Saver

-----------------------------------------------------------------------------
(* The index *)

\* The matches that list a condition, and an index entry that is one of them.
Of(s, c) == {m \in Match : c \in s.matches[m].ids}
Fits(ix, s, c) == IF Of(s, c) = {} THEN ix[c] = NoEntry ELSE ix[c].match \in Of(s, c)

\* Between the halves of apply the index lacks what apply is about to put in;
\* between those of prune it is the index to come that fits the list.
IndexInv ==
  ~overlap =>
    /\ adding = NotAdding \/ pruning = {}
    /\ pruning = {} =>
         \A c \in Cond : IF c \in adding.ids /\ index[c] = NoEntry
                         THEN adding.match \in Of(state, c) ELSE Fits(index, state, c)
    /\ \A ix \in pruning : \A c \in Cond : Fits(ix, state, c)

\* build_index fits the list it is built from.
LEMMA BuildFits ==
  ASSUME NEW s, NEW c \in Cond
  PROVE  Fits(build_index(s), s, c)
<1> DEFINE of == Of(s, c)
<1>1. build_index(s)[c] = IF of = {} THEN NoEntry
                          ELSE [match |-> Min(of), added |-> s.matches[Min(of)].added]
  BY DEF build_index, Of
<1>2. of # {} => Min(of) \in of
  <2>1. of \subseteq Nat
    BY ForfeitAssumption DEF Of
  <2> QED BY <2>1, MinNat
<1> HIDE DEF of
<1>3. IF of = {} THEN build_index(s)[c] = NoEntry ELSE build_index(s)[c].match \in of
  BY <1>1, <1>2
<1> QED BY <1>3 DEF Fits, of

LEMMA EmptyFits ==
  ASSUME NEW c \in Cond
  PROVE  Fits(EmptyIndex, EmptyState, c)
<1>1. \A m \in Match : EmptyState.matches[m].ids = {}
  BY DEF EmptyState, NoMatch
<1> QED BY <1>1 DEF Fits, Of, EmptyIndex

LEMMA NoEntryFits ==
  ASSUME NEW ix, NEW s, NEW c, Fits(ix, s, c), Of(s, c) # {}
  PROVE  ix[c] # NoEntry
<1>1. NoEntry.match = 0 /\ 0 \notin Match
  BY ForfeitAssumption DEF NoEntry
<1>2. ix[c].match \in Match
  BY DEF Fits, Of
<1> QED BY <1>1, <1>2

\* A list that is as before for a condition fits as before.
LEMMA FitsSame ==
  ASSUME NEW s, NEW t, NEW c, \A m \in Match : c \in s.matches[m].ids <=> c \in t.matches[m].ids
  PROVE  Of(s, c) = Of(t, c) /\ \A ix : Fits(ix, s, c) <=> Fits(ix, t, c)
  BY DEF Of, Fits

LEMMA IndexApplyState == Types /\ IndexInv /\ ApplyState => IndexInv'
<1> SUFFICES ASSUME Types, IndexInv, ApplyState, ~overlap' PROVE IndexInv'
  BY DEF IndexInv
<1>1. ~overlap /\ pruning = {} /\ adding = NotAdding /\ pruning' = {} /\ index' = index
  BY DEF ApplyState
<1>2. \A c \in Cond : Fits(index, state, c)
  BY <1>1 DEF IndexInv, NotAdding
<1>3. PICK m \in Match, f \in FrameRec :
           LET old == state.matches[m]
               new == merge(old, f)
           IN  /\ state'.matches = [state.matches EXCEPT ![m] = new]
               /\ adding' = IF new = old THEN NotAdding
                            ELSE [match |-> m, ids |-> f.ids \ old.ids, dirty |-> TRUE]
  BY ApplyStateFacts
<1> DEFINE old == state.matches[m]
           new == merge(old, f)
<1>4. state.matches \in [Match -> MatchRec] /\ new.ids = old.ids \cup f.ids
  BY DEF merge, Types, StateRec
<1>5. adding'.ids \subseteq f.ids \ old.ids /\ (adding'.ids # {} => adding'.match = m)
      /\ (f.ids \ old.ids) \subseteq adding'.ids
  <2>1. CASE new = old
    <3>1. f.ids \ old.ids = {}
      BY <1>4, <2>1
    <3> QED BY <1>3, <2>1, <3>1 DEF NotAdding
  <2>2. CASE new # old
    BY <1>3, <2>2
  <2> QED BY <2>1, <2>2
<1>6. \A k \in Match : state'.matches[k].ids = IF k = m THEN old.ids \cup f.ids ELSE state.matches[k].ids
  BY <1>3, <1>4
<1> HIDE DEF new
<1>7. ASSUME NEW c \in Cond
      PROVE  IF c \in adding'.ids /\ index[c] = NoEntry
             THEN adding'.match \in Of(state', c) ELSE Fits(index, state', c)
  <2>1. CASE c \in f.ids \ old.ids
    <3>1. c \in adding'.ids /\ adding'.match = m /\ m \in Of(state', c)
      BY <1>5, <1>6, <2>1 DEF Of
    <3>2. Of(state, c) \subseteq Of(state', c)
      BY <1>6 DEF Of
    <3>3. index[c] # NoEntry => Fits(index, state', c)
      BY <1>2, <3>1, <3>2 DEF Fits
    <3> QED BY <3>1, <3>3
  <2>2. CASE c \notin f.ids \ old.ids
    <3>1. c \notin adding'.ids
      BY <1>5, <2>2
    <3>2. \A k \in Match : c \in state.matches[k].ids <=> c \in state'.matches[k].ids
      BY <1>6, <2>2
    <3>3. Fits(index, state', c)
      BY <1>2, <3>2, FitsSame
    <3> QED BY <3>1, <3>3
  <2> QED BY <2>1, <2>2
<1> QED BY <1>1, <1>7 DEF IndexInv

LEMMA IndexNext == Types /\ DownInv /\ IndexInv /\ [Next]_vars => IndexInv'
<1> SUFFICES ASSUME Types, DownInv, IndexInv, [Next]_vars PROVE IndexInv'
  OBVIOUS
<1> USE DEF vars, feedVars, listVars, saveVars, history
<1>1. CASE \/ \E ids \in SUBSET Cond : Publish(ids)
           \/ \E q \in DOMAIN log : Failed(q) \/ \E ids \in SUBSET Cond : Amend(q, ids)
           \/ Connect \/ Disconnect \/ (\E c \in Cond : Lookup(c)) \/ Tick
           \/ notify_one \/ Wake \/ Snapshot \/ Write \/ Stop \/ UNCHANGED vars
  <2>1. UNCHANGED <<overlap, adding, pruning, index, state>>
    BY <1>1 DEF Publish, Failed, Amend, Connect, Disconnect, Lookup, Tick, notify_one, Wake, Snapshot, Write, Stop
  <2> QED BY <2>1 DEF IndexInv, Fits, Of
<1>2. CASE ApplyState
  BY <1>2, IndexApplyState
<1>3. CASE ApplyIndex
  <2> SUFFICES ASSUME ~overlap PROVE IndexInv'
    BY <1>3 DEF ApplyIndex, IndexInv
  <2>1. /\ adding # NotAdding /\ pruning = {} /\ pruning' = {} /\ adding' = NotAdding /\ state' = state
    BY <1>3 DEF ApplyIndex, IndexInv
  <2>2. PICK at : index' = [c \in Cond |-> IF c \in adding.ids /\ index[c] = NoEntry
                                THEN [match |-> adding.match, added |-> at] ELSE index[c]]
    BY <1>3 DEF ApplyIndex
  <2>3. ASSUME NEW c \in Cond PROVE Fits(index', state, c)
    <3>1. CASE c \in adding.ids /\ index[c] = NoEntry
      <4>1. adding.match \in Of(state, c) /\ index'[c].match = adding.match
        BY <2>1, <2>2, <3>1 DEF IndexInv
      <4> QED BY <4>1 DEF Fits
    <3>2. CASE ~(c \in adding.ids /\ index[c] = NoEntry)
      <4>1. Fits(index, state, c) /\ index'[c] = index[c]
        BY <2>1, <2>2, <3>2 DEF IndexInv
      <4> QED BY <4>1 DEF Fits
    <3> QED BY <3>1, <3>2
  <2>4. adding'.ids = {}
    BY <2>1 DEF NotAdding
  <2> QED BY <2>1, <2>3, <2>4 DEF IndexInv
<1>4. CASE record_blocked
  <2>1. UNCHANGED <<overlap, adding, pruning, index>>
    BY <1>4 DEF record_blocked
  <2>2. \A m \in Match : state'.matches[m].ids = state.matches[m].ids
    BY <1>4, BlockedFacts
  <2>3. \A c : Of(state', c) = Of(state, c)
    BY <2>2 DEF Of
  <2>4. \A ix, c : Fits(ix, state', c) <=> Fits(ix, state, c)
    BY <2>3 DEF Fits
  <2> QED BY <2>1, <2>3, <2>4 DEF IndexInv
<1>5. CASE PruneState
  <2> SUFFICES ASSUME ~overlap' PROVE IndexInv'
    BY DEF IndexInv
  <2>1. adding' = NotAdding /\ pruning' = {build_index(state')}
    BY <1>5 DEF PruneState
  <2> QED BY <2>1, BuildFits DEF IndexInv
<1>6. CASE PruneIndex
  <2> SUFFICES ASSUME ~overlap PROVE IndexInv'
    BY <1>6 DEF PruneIndex, IndexInv
  <2>1. /\ pruning # {} /\ index' \in pruning /\ pruning' = {} /\ state' = state /\ adding' = NotAdding
    BY <1>6 DEF PruneIndex, IndexInv
  <2>2. \A c \in Cond : Fits(index', state', c)
    BY <2>1 DEF IndexInv
  <2> QED BY <2>1, <2>2 DEF IndexInv, NotAdding
<1>7. CASE Exit \/ Crash
  <2>1. state' = EmptyState /\ index' = EmptyIndex /\ adding' = NotAdding /\ pruning' = {}
    BY <1>7 DEF Exit, Crash, Gone
  <2> QED BY <2>1, EmptyFits DEF IndexInv, NotAdding
<1>8. CASE Start
  <2>1. adding' = NotAdding /\ pruning' = {}
    BY <1>8 DEF Start, DownInv, Quiet
  <2>2. index' = build_index(state')
    BY <1>8 DEF Start, load
  <2>3. \A c \in Cond : Fits(index', state', c)
    BY <2>2, BuildFits
  <2> QED BY <2>1, <2>3 DEF IndexInv, NotAdding
<1> QED BY <1>1, <1>2, <1>3, <1>4, <1>5, <1>6, <1>7, <1>8 DEF Next, Session, Saver

\* As long as apply and prune did not overlap, the index the hot path reads has
\* exactly the conditions of the list, each under a match that has it, through
\* every merge, expiry, crash and load (apply, prune, build_index).
THEOREM IndexMatchesStateHolds == Spec => []IndexMatchesState
<1>1. Init => DownInv /\ IndexInv
  <2> SUFFICES ASSUME Init PROVE DownInv /\ IndexInv
    OBVIOUS
  <2>1. DownInv
    BY DEF Init, DownInv
  <2>2. state = EmptyState /\ index = EmptyIndex /\ adding = NotAdding /\ pruning = {}
    BY DEF Init
  <2>3. IndexInv
    BY <2>2, EmptyFits DEF IndexInv, NotAdding
  <2> QED BY <2>1, <2>3
<1>2. IndexInv => IndexMatchesState
  <2> SUFFICES ASSUME IndexInv, Quiet, ~overlap, NEW c \in Cond PROVE Fits(index, state, c)
    BY DEF IndexMatchesState, Fits, Of
  <2> QED BY DEF IndexInv, Quiet, NotAdding
<1> QED BY <1>1, <1>2, TypesInit, TypesNext, DownNext, IndexNext, PTL DEF Spec

-----------------------------------------------------------------------------
(* The file *)

\* last_feed_sequence is at least every sequence merged.
SeqsOk(s) == \A m \in Match : \A q \in s.matches[m].seqs : q <= s.last
SeqsInv == SeqsOk(state) /\ SeqsOk(snap) /\ SeqsOk(disk)

\* With no permit and no half done, what the saver writes, or wrote, is the list.
SaveInv ==
  up = "up" /\ ~permit /\ Quiet /\ hot # Telling =>
    /\ saver = "wait" /\ ~unsaved => disk = state
    /\ saver = "write" => snap = state

LEMMA EmptySeqs == SeqsOk(EmptyState)
  BY DEF SeqsOk, EmptyState, NoMatch

LEMMA WithoutSeqs ==
  ASSUME NEW s \in StateRec, NEW ms, SeqsOk(s)
  PROVE  SeqsOk(Without(s, ms))
<1>1. /\ Without(s, ms).last = s.last
      /\ \A m \in Match : Without(s, ms).matches[m] = IF m \in ms THEN NoMatch ELSE s.matches[m]
  BY WithoutType
<1>2. NoMatch.seqs = {}
  BY DEF NoMatch
<1> QED BY <1>1, <1>2 DEF SeqsOk

\* A frame merged raises the last sequence; one that changes nothing changes
\* no part of the list.
LEMMA ApplySeqs ==
  ASSUME Types, SeqsOk(state), ApplyState
  PROVE  SeqsOk(state') /\ (adding' = NotAdding => state' = state)
<1>1. PICK m \in Match, f \in FrameRec :
           LET old == state.matches[m]
               new == merge(old, f)
           IN  /\ state' \in StateRec
               /\ state'.matches = [state.matches EXCEPT ![m] = new]
               /\ state'.last = Max({state.last, f.seq}) /\ state'.total = state.total
               /\ adding' = IF new = old THEN NotAdding
                            ELSE [match |-> m, ids |-> f.ids \ old.ids, dirty |-> TRUE]
  BY ApplyStateFacts
<1> DEFINE old == state.matches[m]
           new == merge(old, f)
<1>2. state \in StateRec /\ state.matches \in [Match -> MatchRec] /\ state.last \in Nat
      /\ f.seq \in Nat /\ old.seqs \in SUBSET Nat
      /\ \A k \in Match : state.matches[k].seqs \in SUBSET Nat
  <2>1. state \in StateRec /\ state.matches \in [Match -> MatchRec] /\ state.last \in Nat
    BY DEF Types, StateRec
  <2>2. f.seq \in Nat
    BY ForfeitAssumption DEF FrameRec
  <2>3. \A k \in Match : state.matches[k].seqs \in SUBSET Nat
    BY <2>1 DEF MatchRec
  <2> QED BY <2>1, <2>2, <2>3
<1>3. new.seqs = old.seqs \cup {f.seq}
  BY DEF merge
<1>4. state'.last = IF state.last >= f.seq THEN state.last ELSE f.seq
  BY <1>1, <1>2, MaxTwo
<1>5. \A k \in Match : state'.matches[k].seqs =
         IF k = m THEN old.seqs \cup {f.seq} ELSE state.matches[k].seqs
  BY <1>1, <1>2, <1>3
<1>6. SeqsOk(state')
  BY <1>2, <1>4, <1>5 DEF SeqsOk
<1>7. ASSUME adding' = NotAdding PROVE state' = state
  <2>1. new = old
    BY <1>1, <1>7 DEF NotAdding
  <2>2. state'.matches = state.matches
    BY <1>1, <1>2, <2>1
  <2>3. f.seq \in old.seqs
    BY <1>3, <2>1
  <2>4. state'.last = state.last
    BY <1>2, <1>4, <2>3 DEF SeqsOk
  <2> QED BY <1>1, <1>2, <2>2, <2>4 DEF StateRec
<1> QED BY <1>6, <1>7

LEMMA SeqsNext == Types /\ SeqsInv /\ [Next]_vars => SeqsInv'
<1> SUFFICES ASSUME Types, SeqsInv, [Next]_vars PROVE SeqsInv'
  OBVIOUS
<1> USE DEF vars, feedVars, listVars, saveVars, history
<1>1. CASE UNCHANGED <<state, snap, disk>>
  BY <1>1 DEF SeqsInv, SeqsOk
<1>2. CASE ApplyState
  BY <1>2, ApplySeqs DEF ApplyState, SeqsInv
<1>3. CASE record_blocked
  <2>1. SeqsOk(state')
    BY <1>3, BlockedFacts DEF SeqsInv, SeqsOk
  <2> QED BY <1>3, <2>1 DEF record_blocked, SeqsInv
<1>4. CASE PruneState
  BY <1>4, WithoutSeqs DEF PruneState, SeqsInv, Types
<1>5. CASE Snapshot \/ Write
  BY <1>5, EmptySeqs DEF Snapshot, Write, SeqsInv
<1>6. CASE Exit \/ Crash
  BY <1>6, EmptySeqs DEF Exit, Crash, Gone, SeqsInv
<1>7. CASE Start
  BY <1>7, WithoutSeqs DEF Start, SeqsInv, Types
<1>8. CASE \/ \E ids \in SUBSET Cond : Publish(ids)
           \/ \E q \in DOMAIN log : Failed(q) \/ \E ids \in SUBSET Cond : Amend(q, ids)
           \/ Connect \/ Disconnect \/ (\E c \in Cond : Lookup(c)) \/ Tick
           \/ ApplyIndex \/ notify_one \/ PruneIndex \/ Wake \/ Stop
  <2>1. UNCHANGED <<state, snap, disk>>
    BY <1>8 DEF Publish, Failed, Amend, Connect, Disconnect, Lookup, Tick,
                ApplyIndex, notify_one, PruneIndex, Wake, Stop
  <2> QED BY <1>1, <2>1
<1> QED BY <1>1, <1>2, <1>3, <1>4, <1>5, <1>6, <1>7, <1>8 DEF Next, Session, Saver

LEMMA SaveNext == Types /\ DownInv /\ SeqsInv /\ SaveInv /\ [Next]_vars => SaveInv'
<1> SUFFICES ASSUME Types, DownInv, SeqsInv, SaveInv, [Next]_vars PROVE SaveInv'
  OBVIOUS
<1> USE DEF vars, feedVars, listVars, saveVars, history
<1>1. CASE \/ \E ids \in SUBSET Cond : Publish(ids)
           \/ \E q \in DOMAIN log : Failed(q) \/ \E ids \in SUBSET Cond : Amend(q, ids)
           \/ Connect \/ Disconnect \/ (\E c \in Cond : Lookup(c)) \/ Tick
           \/ UNCHANGED vars
  <2>1. UNCHANGED <<up, permit, adding, pruning, saver, unsaved, disk, snap, state>>
    BY <1>1 DEF Publish, Failed, Amend, Connect, Disconnect, Lookup, Tick
  <2>2. 0 # Telling
    BY DEF Telling
  <2>3. hot' = hot \/ hot = 0
    BY <1>1 DEF Publish, Failed, Amend, Connect, Disconnect, Lookup, Tick
  <2> QED BY <2>1, <2>2, <2>3 DEF SaveInv, Quiet
<1>2. CASE ApplyState
  <2>1. UNCHANGED <<up, permit, pruning, hot, saver, unsaved, disk, snap>> /\ adding = NotAdding
    BY <1>2 DEF ApplyState
  <2>2. adding' = NotAdding => state' = state
    BY <1>2, ApplySeqs DEF SeqsInv
  <2> QED BY <2>1, <2>2 DEF SaveInv, Quiet
<1>3. CASE ApplyIndex \/ record_blocked \/ notify_one \/ PruneIndex
  BY <1>3 DEF ApplyIndex, record_blocked, notify_one, PruneIndex, SaveInv
<1>4. CASE PruneState
  BY <1>4 DEF PruneState, SaveInv, Quiet
<1>5. CASE Wake
  BY <1>5 DEF Wake, SaveInv
<1>6. CASE Snapshot
  BY <1>6 DEF Snapshot, SaveInv
<1>7. CASE Write
  BY <1>7 DEF Write, AfterWrite, SaveInv, Quiet
<1>8. CASE Stop \/ Exit \/ Crash
  BY <1>8 DEF Stop, Exit, Crash, Gone, SaveInv
<1>9. CASE Start
  <2>1. saver' = "wait" /\ disk' = disk /\ permit' = (Expired(disk) # {})
        /\ state' = Without(disk, Expired(disk))
    BY <1>9 DEF Start, DownInv
  <2>2. ~permit' => state' = disk
    BY <2>1, WithoutType DEF Types
  <2> QED BY <2>1, <2>2 DEF SaveInv
<1> QED BY <1>1, <1>2, <1>3, <1>4, <1>5, <1>6, <1>7, <1>8, <1>9 DEF Next, Session, Saver

\* When the saver waits without a permit and no half is open, the file is the
\* list, unless the last write failed: no change is left without a save,
\* however merges, blocks, prunes, saves and restarts interleave (Notify,
\* run_saver, atomic_write).
THEOREM SavedWhenIdleHolds == Spec => []SavedWhenIdle
<1>1. Init => DownInv /\ SeqsInv /\ SaveInv
  <2>1. Init => SeqsInv
    BY EmptySeqs DEF Init, SeqsInv
  <2>2. Init => DownInv /\ SaveInv
    BY DEF Init, DownInv, SaveInv
  <2> QED BY <2>1, <2>2
<1>2. SaveInv => SavedWhenIdle
  BY DEF SaveInv, SavedWhenIdle
<1> QED BY <1>1, <1>2, TypesInit, TypesNext, DownNext, SeqsNext, SaveNext, PTL DEF Spec
=============================================================================
