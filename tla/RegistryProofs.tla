--------------------------- MODULE RegistryProofs ---------------------------
(***************************************************************************)
(* Theorems about the console's node registry: a node taken off the public *)
(* list stays off it, a drain does not outlive its process, and a release  *)
(* by hand does not close more clients than were asked for. For any nodes, *)
(* limits and settings, whatever is lost, restarts or is not saved.        *)
(***************************************************************************)
EXTENDS Registry, FiniteSetTheorems, WellFoundedInduction, TLAPS

-----------------------------------------------------------------------------
(* A hidden node stays hidden *)

\* The admin bits a keep n off the public list.
Off(a, n) == n \in DOMAIN a /\ (a[n].relay \/ a[n].disabled)

\* A hidden node is off the list in memory and in the file: what is saved
\* for another node writes all of memory, and a restart reads the file.
HiddenInv ==
  /\ hidden \in [Node -> BOOLEAN]
  /\ \A n \in Node : hidden[n] => Off(admin, n) /\ Off(disk.admin, n)

LEMMA HiddenInit == Init => HiddenInv
  BY DEF Init, HiddenInv

\* A node that is off is not in service.
LEMMA OffNotServing ==
  ASSUME NEW n, Off(admin, n)
  PROVE  n \notin serving
<1>1. admin_of(n) = admin[n]
  BY DEF Off, admin_of
<1>2. status_of(n) # "serving"
  BY <1>1 DEF Off, status_of
<1> QED BY <1>2 DEF serving

\* An entry that is set, and the others.
LEMMA SetOff ==
  ASSUME NEW a, NEW n, NEW b
  PROVE  /\ Off(Set(a, n, b), n) <=> (b.relay \/ b.disabled)
         /\ \A m : m # n /\ Off(a, m) => Off(Set(a, n, b), m)
  BY DEF Set, Off

\* relay and unrelay.
LEMMA HiddenRelay ==
  ASSUME HiddenInv, NEW n \in Node, NEW relay \in BOOLEAN, NEW saved \in BOOLEAN,
         AdminRelay(n, relay, saved)
  PROVE  HiddenInv'
<1> DEFINE b == [disabled |-> admin_of(n).disabled \/ ~relay, relay |-> relay]
<1>1. /\ admin' = Set(admin, n, b) /\ persist(saved)
      /\ hidden' = [hidden EXCEPT ![n] = @ \/ saved]
  BY DEF AdminRelay, set_relay
<1>2. b.relay \/ b.disabled
  OBVIOUS
<1> HIDE DEF b
<1>3. Off(admin', n)
  BY <1>1, <1>2, SetOff
<1>4. \A m \in Node : m # n /\ Off(admin, m) => Off(admin', m)
  BY <1>1, SetOff
<1>5. hidden' \in [Node -> BOOLEAN]
  BY <1>1 DEF HiddenInv
<1>6. \A m \in Node : hidden'[m] => hidden[m] \/ (m = n /\ saved)
  BY <1>1 DEF HiddenInv
<1>7. ASSUME NEW m \in Node, hidden'[m] PROVE Off(admin', m) /\ Off(disk'.admin, m)
  <2>1. Off(admin', m)
    BY <1>3, <1>4, <1>6, <1>7 DEF HiddenInv
  <2>2. CASE disk'.admin = admin'
    BY <2>1, <2>2
  <2>3. CASE ~saved /\ disk' = disk
    BY <2>1, <2>3, <1>6, <1>7 DEF HiddenInv
  <2> QED BY <1>1, <2>2, <2>3 DEF persist
<1> QED BY <1>5, <1>7 DEF HiddenInv

\* A note.
LEMMA HiddenNote ==
  ASSUME HiddenInv, NEW n \in Node, NEW saved \in BOOLEAN, set_note(n, saved)
  PROVE  HiddenInv'
<1>1. admin' = Set(admin, n, admin_of(n)) /\ persist(saved) /\ UNCHANGED hidden
  BY DEF set_note, history
<1>2. \A m \in Node : Off(admin, m) => Off(admin', m)
  BY <1>1 DEF Off, Set, admin_of
<1>3. disk'.admin = admin' \/ disk' = disk
  BY <1>1 DEF persist
<1> QED BY <1>1, <1>2, <1>3 DEF HiddenInv

\* disable, enable and forget.
LEMMA HiddenAct ==
  ASSUME HiddenInv, AdminAct, op \subseteq Request
  PROVE  HiddenInv'
<1> PICK r \in op :
      \/ \E to \in BOOLEAN : AdminDrain(r.node, to)
      \/ \E to \in BOOLEAN : AdminDisable(r.node, to)
      \/ AdminForget(r.node) \/ AdminRelease(r.node, r.count) \/ AdminUnknown(r)
  BY DEF AdminAct
<1> DEFINE n == r.node
<1>0. n \in Node
  BY DEF Request
<1>1. CASE \E to \in BOOLEAN : AdminDisable(n, to)
  <2> PICK to \in BOOLEAN : AdminDisable(n, to)
    BY <1>1
  <2> PICK saved \in BOOLEAN :
        /\ admin' = Set(admin, n, [disabled |-> to, relay |-> admin_of(n).relay])
        /\ persist(saved)
        /\ hidden' = [hidden EXCEPT ![n] = to /\ (@ \/ saved)]
    BY DEF AdminDisable
  <2>1. to => Off(admin', n)
    BY SetOff
  <2>2. \A m \in Node : m # n /\ Off(admin, m) => Off(admin', m)
    BY SetOff
  <2>3. hidden' \in [Node -> BOOLEAN]
    BY <1>0 DEF HiddenInv
  <2>4. \A m \in Node : hidden'[m] => IF m = n THEN to /\ (hidden[m] \/ saved) ELSE hidden[m]
    BY <1>0 DEF HiddenInv
  <2>5. ASSUME NEW m \in Node, hidden'[m] PROVE Off(admin', m) /\ Off(disk'.admin, m)
    <3>1. Off(admin', m)
      BY <2>1, <2>2, <2>4, <2>5 DEF HiddenInv
    <3>2. CASE disk'.admin = admin'
      BY <3>1, <3>2
    <3>3. CASE ~saved /\ disk' = disk
      BY <3>1, <3>3, <2>4, <2>5 DEF HiddenInv
    <3> QED BY <3>2, <3>3 DEF persist
  <2> QED BY <2>3, <2>5 DEF HiddenInv
<1>2. CASE AdminForget(n)
  <2> PICK saved \in BOOLEAN : persist(saved)
    BY <1>2 DEF AdminForget
  <2>1. /\ admin' = [m \in DOMAIN admin \ {n} |-> admin[m]]
        /\ hidden' = [hidden EXCEPT ![n] = FALSE]
    BY <1>2 DEF AdminForget
  <2>2. \A m \in Node : m # n /\ Off(admin, m) => Off(admin', m)
    BY <2>1 DEF Off
  <2>3. hidden' \in [Node -> BOOLEAN] /\ \A m \in Node : hidden'[m] => m # n /\ hidden[m]
    BY <1>0, <2>1 DEF HiddenInv
  <2>4. ASSUME NEW m \in Node, hidden'[m] PROVE Off(admin', m) /\ Off(disk'.admin, m)
    <3>1. Off(admin', m) /\ Off(disk.admin, m)
      BY <2>2, <2>3, <2>4 DEF HiddenInv
    <3> QED BY <3>1 DEF persist
  <2> QED BY <2>3, <2>4 DEF HiddenInv
<1>3. CASE \/ \E to \in BOOLEAN : AdminDrain(n, to)
           \/ AdminRelease(n, r.count) \/ AdminUnknown(r)
  <2>1. UNCHANGED <<admin, disk, hidden>>
    BY <1>3 DEF AdminDrain, AdminRelease, AdminUnknown, history
  <2> QED BY <2>1 DEF HiddenInv
<1> QED BY <1>1, <1>2, <1>3

\* Requests under way are requests.
LEMMA OpType ==
  /\ Init => op \subseteq Request
  /\ op \subseteq Request /\ [Next]_vars => op' \subseteq Request
  BY DEF Init, Next, vars, consoleVars, Beat, Apply, Lose, Lapse, Restart, Link, Connect,
         DrainStep, AdminRelay, set_note, AdminTest, AdminAct, set_auto_balance, ConsoleRestart

LEMMA HiddenNext ==
  ASSUME HiddenInv, op \subseteq Request, [Next]_vars
  PROVE  HiddenInv'
<1>1. CASE \E n \in Node, relay, saved \in BOOLEAN : AdminRelay(n, relay, saved)
  BY <1>1, HiddenRelay
<1>6. CASE \E n \in Node, saved \in BOOLEAN : set_note(n, saved)
  BY <1>6, HiddenNote
<1>2. CASE AdminAct
  BY <1>2, HiddenAct
<1>3. CASE \E enabled \in BOOLEAN : set_auto_balance(enabled)
  <2> PICK saved \in BOOLEAN : persist(saved) /\ UNCHANGED admin /\ UNCHANGED hidden
    BY <1>3 DEF set_auto_balance, history
  <2>1. disk'.admin = admin' \/ disk' = disk
    BY DEF persist
  <2> QED BY <2>1 DEF HiddenInv
<1>4. CASE ConsoleRestart
  <2>1. admin' = disk.admin /\ UNCHANGED <<disk, hidden>>
    BY <1>4 DEF ConsoleRestart, history
  <2> QED BY <2>1 DEF HiddenInv
<1>5. CASE \/ \E n \in Node : \/ Beat(n) \/ Apply(n) \/ Lose(n) \/ Lapse(n)
                              \/ Restart(n) \/ Link(n) \/ Connect(n) \/ DrainStep(n)
           \/ \E r \in Request : AdminTest(r)
           \/ UNCHANGED vars
  <2>1. UNCHANGED <<admin, disk, hidden>>
    BY <1>5 DEF vars, consoleVars, history, Beat, Apply, Lose, Lapse, Restart, Link,
                Connect, DrainStep, AdminTest
  <2> QED BY <2>1 DEF HiddenInv
<1> QED BY <1>1, <1>2, <1>3, <1>4, <1>5, <1>6 DEF Next

\* A node saved as relay or disabled is not on the public list until it is
\* enabled or forgotten (status_of, set_relay, mutate_admin, persist, open).
THEOREM HiddenStaysHiddenHolds == Spec => []HiddenStaysHidden
<1> DEFINE Inv == op \subseteq Request /\ HiddenInv
<1>1. Inv => HiddenStaysHidden
  BY OffNotServing DEF HiddenInv, HiddenStaysHidden
<1>2. Inv /\ [Next]_vars => Inv'
  BY HiddenNext, OpType
<1>3. Init => Inv
  BY HiddenInit, OpType
<1> HIDE DEF Inv
<1> QED BY <1>1, <1>2, <1>3, PTL DEF Spec

-----------------------------------------------------------------------------
(* A drain does not outlive its process *)

\* What the console knows of its nodes, and what it has told them.
DrainTypes ==
  /\ known \subseteq Node
  /\ started \in [Node -> Nat \ {0}]
  /\ drain \in [Node -> BOOLEAN]
  /\ DOMAIN hb = Node /\ DOMAIN drainFor = Node /\ DOMAIN answer = Node

\* A drain is wanted of the process the console knows; while an answer is under
\* way to a node, the process known is the one that runs; and an answer that
\* says drain goes to the process the drain was asked for.
DrainInv ==
  /\ DrainTypes
  /\ \A n \in known : hb[n].started # 0
  /\ \A n \in Node : drain[n] => n \in known /\ drainFor[n] = hb[n].started
  /\ \A n \in known : answer[n] # {} => hb[n].started = started[n]
  /\ DrainOnlyItsProcess

LEMMA DrainInit == Init => DrainInv
  BY DEF Init, DrainInv, DrainTypes, DrainOnlyItsProcess

\* A heartbeat: a drain wanted of another process is dropped first.
LEMMA DrainBeat ==
  ASSUME DrainInv, NEW n \in Node, Beat(n)
  PROVE  DrainInv'
<1> USE DEF DrainInv, DrainTypes, DrainOnlyItsProcess
<1>1. /\ known' = known \cup {n} /\ hb' = [hb EXCEPT ![n] = build_heartbeat(n)]
      /\ drain' = [drain EXCEPT ![n] = @ /\ ~restarted(n) /\ ~admin_of(n).relay]
      /\ UNCHANGED <<started, drainFor>>
  BY DEF Beat, history
<1>2. \E e : answer' = [answer EXCEPT ![n] = {e}] /\ (e.drain => drain'[n])
  <2>1. CASE admin_of(n).relay
    <3> DEFINE e == [drain |-> FALSE, release |-> 0, manual |-> FALSE]
    <3>1. answer' = [answer EXCEPT ![n] = {e}] /\ ~e.drain
      BY <2>1 DEF Beat
    <3> QED BY <3>1
  <2>2. CASE ~admin_of(n).relay
    <3> DEFINE manual == pending[n] > 0
               r == IF manual THEN Min({pending[n], batch}) ELSE auto_release(n)'
               e == [drain |-> drain'[n], release |-> r, manual |-> manual]
    <3>1. decide_release(n)
      BY <2>2 DEF Beat
    <3>2. answer' = [answer EXCEPT ![n] = {e}]
      BY <3>1 DEF decide_release
    <3>3. e.drain = drain'[n]
      OBVIOUS
    <3> QED BY <3>2, <3>3
  <2> QED BY <2>1, <2>2
<1>3. hb'[n].started = started[n] /\ \A m \in Node : m # n => hb'[m] = hb[m]
  BY <1>1 DEF build_heartbeat
<1>4. drain' \in [Node -> BOOLEAN] /\ \A m \in Node : drain'[m] => drain[m]
  BY <1>1
<1>5. drain'[n] => hb[n].started = started[n]
  BY <1>1 DEF restarted
<1>6. drain'[n] => drainFor'[n] = started'[n]
  BY <1>1, <1>4, <1>5
<1>7. DrainTypes'
  BY <1>1, <1>2, <1>4
<1>8. DrainOnlyItsProcess'
  BY <1>1, <1>2, <1>6
<1>9. \A m \in known' : hb'[m].started # 0 /\ (answer'[m] # {} => hb'[m].started = started'[m])
  BY <1>1, <1>2, <1>3
<1>10. \A m \in Node : drain'[m] => m \in known' /\ drainFor'[m] = hb'[m].started
  BY <1>1, <1>3, <1>4, <1>6
<1> QED BY <1>7, <1>8, <1>9, <1>10

\* What is done with an answer, and a new process of an edge.
LEMMA DrainEdge ==
  ASSUME DrainInv, NEW n \in Node, Apply(n) \/ Lose(n) \/ Restart(n)
  PROVE  DrainInv'
<1> USE DEF DrainInv, DrainTypes, DrainOnlyItsProcess
<1>1. /\ answer' = [answer EXCEPT ![n] = {}]
      /\ UNCHANGED <<known, hb, drain, drainFor>>
      /\ started' = started \/ started' = [started EXCEPT ![n] = @ + 1]
  BY DEF Apply, Lose, Restart, consoleVars, history
<1>2. started' \in [Node -> Nat \ {0}] /\ \A m \in Node : m # n => started'[m] = started[m]
  BY <1>1
<1> QED BY <1>1, <1>2

\* drain, undrain and forget.
LEMMA DrainAct ==
  ASSUME DrainInv, op \subseteq Request, AdminAct
  PROVE  DrainInv'
<1> USE DEF DrainInv, DrainTypes, DrainOnlyItsProcess
<1> PICK r \in op :
      \/ \E to \in BOOLEAN : AdminDrain(r.node, to)
      \/ \E to \in BOOLEAN : AdminDisable(r.node, to)
      \/ AdminForget(r.node) \/ AdminRelease(r.node, r.count) \/ AdminUnknown(r)
  BY DEF AdminAct
<1> DEFINE n == r.node
<1>0. n \in Node /\ UNCHANGED <<started, answer>>
  BY DEF Request, AdminAct, edgeVars
<1> HIDE DEF n
<1>1. CASE \E to \in BOOLEAN : AdminDrain(n, to)
  <2> PICK to \in BOOLEAN : AdminDrain(n, to)
    BY <1>1
  <2>1. /\ n \in known /\ drain' = [drain EXCEPT ![n] = to]
        /\ drainFor' = [drainFor EXCEPT ![n] = IF to THEN hb[n].started ELSE @]
        /\ UNCHANGED <<known, hb>>
    BY DEF AdminDrain
  <2>2. answer[n] # {} => hb[n].started = started[n]
    BY <2>1
  <2>3. DrainTypes'
    BY <1>0, <2>1
  <2>4. \A m \in Node : drain'[m] => m \in known /\ drainFor'[m] = hb[m].started
    BY <1>0, <2>1
  <2>5. DrainOnlyItsProcess'
    BY <1>0, <2>1, <2>2
  <2> QED BY <1>0, <2>1, <2>3, <2>4, <2>5
<1>2. CASE AdminForget(n)
  <2>1. /\ known' = known \ {n} /\ hb' = [hb EXCEPT ![n] = NoHeartbeat]
        /\ drain' = [drain EXCEPT ![n] = FALSE] /\ UNCHANGED drainFor
    BY <1>2 DEF AdminForget
  <2> QED BY <1>0, <2>1
<1>3. CASE \/ \E to \in BOOLEAN : AdminDisable(n, to)
           \/ AdminRelease(n, r.count) \/ AdminUnknown(r)
  <2>1. UNCHANGED <<known, hb, drain, drainFor>>
    BY <1>3 DEF AdminDisable, AdminRelease, AdminUnknown, history
  <2> QED BY <1>0, <2>1
<1> QED BY <1>1, <1>2, <1>3 DEF n

LEMMA DrainNext ==
  ASSUME DrainInv, op \subseteq Request, [Next]_vars
  PROVE  DrainInv'
<1>1. CASE \E n \in Node : Beat(n)
  BY <1>1, DrainBeat
<1>2. CASE \E n \in Node : Apply(n) \/ Lose(n) \/ Restart(n)
  BY <1>2, DrainEdge
<1>3. CASE AdminAct
  BY <1>3, DrainAct
<1>4. CASE ConsoleRestart
  <2>1. /\ known' = {} /\ hb' = [n \in Node |-> NoHeartbeat]
        /\ drain' = [n \in Node |-> FALSE] /\ answer' = [n \in Node |-> {}]
        /\ UNCHANGED <<started, drainFor>>
    BY <1>4 DEF ConsoleRestart, history
  <2> QED BY <2>1 DEF DrainInv, DrainTypes, DrainOnlyItsProcess
<1>5. CASE \/ \E n \in Node : \/ Lapse(n) \/ Link(n) \/ Connect(n) \/ DrainStep(n)
                              \/ \E relay, saved \in BOOLEAN : AdminRelay(n, relay, saved)
                              \/ \E saved \in BOOLEAN : set_note(n, saved)
           \/ \E r \in Request : AdminTest(r)
           \/ \E enabled \in BOOLEAN : set_auto_balance(enabled)
           \/ UNCHANGED vars
  <2>1. UNCHANGED <<known, hb, drain, drainFor, started, answer>>
    BY <1>5 DEF vars, consoleVars, edgeVars, history, Lapse, Link, Connect, DrainStep,
                AdminRelay, set_note, AdminTest, set_auto_balance
  <2> QED BY <2>1 DEF DrainInv, DrainTypes, DrainOnlyItsProcess
<1> QED BY <1>1, <1>2, <1>3, <1>4, <1>5 DEF Next

\* A process is told to drain only when the console knew that process at the
\* moment the drain was asked for (heartbeat, set_drain, forget, open): the
\* restart of an edge or of the console, lost answers and admin requests that
\* are under way at that moment change nothing of it.
THEOREM DrainOnlyItsProcessHolds == Spec => []DrainOnlyItsProcess
<1> DEFINE Inv == op \subseteq Request /\ DrainInv
<1>1. Inv => DrainOnlyItsProcess
  BY DEF DrainInv
<1>2. Inv /\ [Next]_vars => Inv'
  BY DrainNext, OpType
<1>3. Init => Inv
  BY DrainInit, OpType
<1> HIDE DEF Inv
<1> QED BY <1>1, <1>2, <1>3, PTL DEF Spec

-----------------------------------------------------------------------------
(* Induction, and the operators of the model that need it *)

\* Every set of naturals that is not empty has a least element.
LEMMA LeastNat ==
  ASSUME NEW T, T \subseteq Nat, T # {}
  PROVE  \E x \in T : \A y \in T : x <= y
<1> DEFINE R == OpToRel(<, Nat)
<1>1. IsWellFoundedOn(R, Nat)
  BY NatLessThanWellFounded
<1>2. \A x, y \in Nat : x < y => <<x, y>> \in R
  BY DEF OpToRel
<1> HIDE DEF R
<1>3. PICK x \in T : \A y \in T : ~(<<y, x>> \in R)
  BY <1>1, WFMin
<1>4. \A y \in T : ~(y < x)
  BY <1>2, <1>3, Zenon
<1>5. \A y \in T : x <= y
  BY <1>4
<1> QED BY <1>5

\* What holds at 0 and passes from n to n + 1 holds of every n.
LEMMA SetInduction ==
  ASSUME NEW S, 0 \in S, \A n \in Nat : n \in S => n + 1 \in S
  PROVE  Nat \subseteq S
<1> DEFINE T == Nat \ S
<1> SUFFICES ASSUME T # {} PROVE FALSE
  OBVIOUS
<1>0. T \subseteq Nat
  OBVIOUS
<1>1. PICK x \in T : \A y \in T : x <= y
  <2> HIDE DEF T
  <2> QED BY <1>0, LeastNat
<1>2. x - 1 \in Nat /\ x - 1 \in S /\ (x - 1) + 1 = x
  BY <1>1
<1> QED BY <1>1, <1>2

\* The least of a set of naturals, and of two integers.
LEMMA MinNat ==
  ASSUME NEW T, T \subseteq Nat, T # {}
  PROVE  Min(T) \in T /\ \A y \in T : Min(T) <= y
  BY LeastNat DEF Min

LEMMA MinTwo ==
  ASSUME NEW a \in Int, NEW b \in Int
  PROVE  Min({a, b}) = IF a <= b THEN a ELSE b
  BY DEF Min

\* Clients a set of nodes can take: a sum over the set.
Clients == \A n \in Node : hb[n].clients \in Nat

One(s) == CHOOSE x \in s : TRUE
SeatsStep(f, s) ==
  IF s = {} THEN 0 ELSE (MaxClients - hb[One(s)].clients) + f[s \ {One(s)}]
Small(ns, n) == {s \in SUBSET ns : Cardinality(s) <= n}

LEMMA SmallSets ==
  ASSUME NEW ns \in SUBSET Node
  PROVE  /\ \A s \in SUBSET ns : Cardinality(s) \in Nat
         /\ \A s \in SUBSET ns : s # {} =>
              /\ One(s) \in s /\ s \ {One(s)} \in SUBSET ns
              /\ Cardinality(s) > 0 /\ Cardinality(s \ {One(s)}) = Cardinality(s) - 1
         /\ Small(ns, 0) = {{}} /\ Small(ns, Cardinality(ns)) = SUBSET ns
<1>1. \A s \in SUBSET ns : IsFiniteSet(s) /\ Cardinality(s) \in Nat
  BY RegistryAssumption, FS_Subset, FS_CardinalityType
<1>2. ASSUME NEW s \in SUBSET ns, s # {}
      PROVE  /\ One(s) \in s /\ s \ {One(s)} \in SUBSET ns
             /\ Cardinality(s) > 0 /\ Cardinality(s \ {One(s)}) = Cardinality(s) - 1
  <2>1. One(s) \in s
    BY <1>2 DEF One
  <2>2. Cardinality(s) # 0
    BY <1>1, <1>2, FS_EmptySet
  <2>3. Cardinality(s \ {One(s)}) = Cardinality(s) - 1
    BY <1>1, <2>1, FS_RemoveElement
  <2> QED BY <1>1, <2>1, <2>2, <2>3
<1>3. Small(ns, 0) = {{}}
  <2>1. \A s \in SUBSET ns : Cardinality(s) <= 0 <=> s = {}
    <3>1. Cardinality({}) = 0
      BY FS_EmptySet
    <3>2. \A s \in SUBSET ns : s # {} => Cardinality(s) > 0
      BY <1>2
    <3>3. \A s \in SUBSET ns : Cardinality(s) <= 0 => ~(Cardinality(s) > 0)
      BY <1>1
    <3>4. 0 <= 0
      OBVIOUS
    <3> QED BY <3>1, <3>2, <3>3, <3>4, Zenon
  <2> QED BY <2>1 DEF Small
<1>4. Small(ns, Cardinality(ns)) = SUBSET ns
  BY <1>1, FS_Subset DEF Small
<1> QED BY <1>1, <1>2, <1>3, <1>4

\* There is a function that satisfies the recursion of the sum.
LEMMA SeatsExist ==
  ASSUME NEW ns \in SUBSET Node
  PROVE  \E F : F = [s \in SUBSET ns |-> SeatsStep(F, s)]
<1> DEFINE S == {n \in Nat : \E F : F = [s \in Small(ns, n) |-> SeatsStep(F, s)]}
<1>1. 0 \in S
  <2> DEFINE F == [s \in Small(ns, 0) |-> 0]
  <2>1. \A s \in Small(ns, 0) : s = {}
    BY SmallSets
  <2>2. \A s \in Small(ns, 0) : SeatsStep(F, s) = 0
    BY <2>1 DEF SeatsStep
  <2>3. F = [s \in Small(ns, 0) |-> SeatsStep(F, s)]
    BY <2>2
  <2> QED BY <2>3
<1>2. ASSUME NEW n \in Nat, n \in S PROVE n + 1 \in S
  <2>1. PICK F : F = [s \in Small(ns, n) |-> SeatsStep(F, s)]
    BY <1>2
  <2> DEFINE G == [s \in Small(ns, n + 1) |-> IF s \in Small(ns, n) THEN F[s] ELSE SeatsStep(F, s)]
  <2>2. \A s \in Small(ns, n + 1) : G[s] = SeatsStep(F, s)
    BY <2>1
  <2>3. \A s \in Small(ns, n + 1) : s # {} =>
          s \ {One(s)} \in Small(ns, n) /\ s \ {One(s)} \in Small(ns, n + 1)
    BY SmallSets DEF Small
  <2>4. \A s \in Small(ns, n + 1) : s # {} => G[s \ {One(s)}] = F[s \ {One(s)}]
    BY <2>3
  <2>5. G = [s \in Small(ns, n + 1) |-> G[s]]
    OBVIOUS
  <2> HIDE DEF G
  <2>6. \A s \in Small(ns, n + 1) : G[s] = SeatsStep(G, s)
    BY <2>2, <2>4 DEF SeatsStep
  <2>7. G = [s \in Small(ns, n + 1) |-> SeatsStep(G, s)]
    BY <2>5, <2>6
  <2> QED BY <2>7
<1> HIDE DEF S
<1>3. Cardinality(ns) \in S
  BY <1>1, <1>2, SetInduction, SmallSets
<1>4. PICK F : F = [s \in Small(ns, Cardinality(ns)) |-> SeatsStep(F, s)]
  BY <1>3 DEF S
<1>5. Small(ns, Cardinality(ns)) = SUBSET ns
  BY SmallSets
<1> QED BY <1>4, <1>5

\* The sum is a number.
LEMMA SeatsType ==
  ASSUME Clients, NEW ns \in SUBSET Node
  PROVE  seats(ns) \in Int
<1> DEFINE F == CHOOSE F : F = [s \in SUBSET ns |-> SeatsStep(F, s)]
<1>1. seats(ns) = F[ns]
  BY DEF seats, MapThenSumSet, MapThenFoldSet, SeatsStep, One
<1>2. F = [s \in SUBSET ns |-> SeatsStep(F, s)]
  BY SeatsExist
<1> HIDE DEF F
<1>3. \A s \in SUBSET ns : F[s] = SeatsStep(F, s)
  BY <1>2
<1> DEFINE I == {n \in Nat : \A s \in Small(ns, n) : F[s] \in Int}
<1>0. F[{}] = 0
  BY <1>3 DEF SeatsStep
<1>4. 0 \in I
  <2>1. \A s \in Small(ns, 0) : s = {}
    BY SmallSets
  <2>2. 0 \in Int
    OBVIOUS
  <2> QED BY <1>0, <2>1, <2>2
<1>5. ASSUME NEW n \in Nat, n \in I PROVE n + 1 \in I
  <2> SUFFICES ASSUME NEW s \in Small(ns, n + 1) PROVE F[s] \in Int
    OBVIOUS
  <2>1. s \in SUBSET ns
    BY DEF Small
  <2>2. CASE s = {}
    BY <1>0, <2>2
  <2>3. CASE s # {}
    <3>1. s \ {One(s)} \in Small(ns, n) /\ One(s) \in ns
      BY <2>1, <2>3, SmallSets DEF Small
    <3>2. F[s \ {One(s)}] \in Int
      BY <1>5, <3>1
    <3>3. hb[One(s)].clients \in Nat
      BY <3>1 DEF Clients
    <3>4. F[s] = (MaxClients - hb[One(s)].clients) + F[s \ {One(s)}]
      BY <1>3, <2>1, <2>3 DEF SeatsStep
    <3> QED BY <3>2, <3>3, <3>4, RegistryAssumption
  <2> QED BY <2>2, <2>3
<1> HIDE DEF I
<1>6. Cardinality(ns) \in I
  BY <1>4, <1>5, SetInduction, SmallSets
<1>7. ns \in Small(ns, Cardinality(ns))
  BY SmallSets
<1> QED BY <1>1, <1>6, <1>7 DEF I

-----------------------------------------------------------------------------
(* A release by hand closes no more clients than were asked for *)

\* An answer is one directive, and releases a number of clients.
Directives(a) ==
  a = {} \/ \E d : a = {d} /\ d.manual \in BOOLEAN /\ d.release \in Nat

\* Counts are numbers; what is pending, under way and closed is at most what
\* was asked for.
ReleaseInv ==
  /\ known \subseteq Node /\ DOMAIN hb = Node /\ Clients
  /\ pending \in [Node -> Nat] /\ asked \in [Node -> Nat] /\ freed \in [Node -> Nat]
  /\ conn \in [Node -> Nat]
  /\ DOMAIN answer = Node /\ \A n \in Node : Directives(answer[n])
  /\ NeverOverReleased

LEMMA ReleaseInit == Init => ReleaseInv
  BY DEF Init, ReleaseInv, Clients, Directives, NeverOverReleased, under_way, NoHeartbeat

\* Balancing releases a number of clients.
LEMMA AutoType ==
  known \subseteq Node /\ Clients => \A n \in Node : auto_release(n) \in Nat
<1> SUFFICES ASSUME known \subseteq Node, Clients, NEW n \in Node
             PROVE  auto_release(n) \in Nat
  OBVIOUS
<1>1. serving \subseteq Node
  BY DEF serving
<1>2. emptiest \in Nat
  <2>1. CASE serving = {}
    BY <2>1 DEF emptiest
  <2>2. CASE serving # {}
    <3> DEFINE T == {hb[m].clients : m \in serving}
    <3>1. T # {} /\ T \subseteq Nat
      BY <1>1, <2>2 DEF Clients
    <3>2. emptiest = Min(T)
      BY <2>2 DEF emptiest
    <3> HIDE DEF T
    <3> QED BY <3>1, <3>2, MinNat
  <2> QED BY <2>1, <2>2
<1>3. balance_excess(n) \in Int
  <2> DEFINE a == (100 * hb[n].clients - emptiest * (100 + SpreadPct)) \div 100
             gap == IF hb[n].clients > emptiest THEN hb[n].clients - emptiest ELSE 0
             b == gap \div 2
             c == seats(serving \ {n})
  <2>1. hb[n].clients \in Nat /\ SpreadPct \in Nat
    BY RegistryAssumption DEF Clients
  <2>2. a \in Int
    BY <1>2, <2>1
  <2>3. b \in Int
    BY <1>2, <2>1
  <2>4. c \in Int
    BY <1>1, SeatsType
  <2>5. balance_excess(n) = 0 \/ balance_excess(n) = Min({a, b, c})
    BY DEF balance_excess
  <2> HIDE DEF a, b, c
  <2>6. Min({a, b, c}) \in {a, b, c}
    <3>1. \E x \in {a, b, c} : \A y \in {a, b, c} : x <= y
      BY <2>2, <2>3, <2>4
    <3> QED BY <3>1 DEF Min
  <2> QED BY <2>2, <2>3, <2>4, <2>5, <2>6
<1>4. batch \in Nat
  <2>1. Max({ReleaseBatch, 1}) \in {ReleaseBatch, 1}
    BY RegistryAssumption DEF Max
  <2> QED BY <2>1, RegistryAssumption DEF batch
<1>5. CASE balance_excess(n) >= MinExcess
  <2>1. balance_excess(n) \in Nat
    BY <1>3, <1>5, RegistryAssumption
  <2>2. Min({balance_excess(n), batch}) \in Nat
    BY <1>4, <2>1, MinTwo
  <2> QED BY <2>2 DEF auto_release
<1>6. CASE ~(balance_excess(n) >= MinExcess)
  BY <1>6 DEF auto_release
<1> QED BY <1>5, <1>6

LEMMA AutoTypeNext ==
  (known \subseteq Node /\ Clients => \A n \in Node : auto_release(n) \in Nat)'
  BY AutoType, PTL

\* What an answer under way releases.
LEMMA UnderWay ==
  ASSUME NEW a, NEW d, a = {d}
  PROVE  (CHOOSE x \in a : TRUE) = d
  OBVIOUS

\* Steps that change nothing of it, or take a directive away.
LEMMA ReleaseLess ==
  ASSUME ReleaseInv, known' \subseteq Node, DOMAIN hb' = Node, Clients', conn' \in [Node -> Nat],
         UNCHANGED <<asked, freed>>, pending' \in [Node -> Nat], DOMAIN answer' = Node,
         \A n \in Node : pending'[n] <= pending[n] /\ (answer'[n] = answer[n] \/ answer'[n] = {})
  PROVE  ReleaseInv'
<1>1. \A n \in Node : Directives(answer'[n])
  BY DEF ReleaseInv, Directives
<1>2. ASSUME NEW n \in Node PROVE (freed[n] + under_way(n) + pending[n] <= asked[n])'
  <2>1. freed[n] + under_way(n) + pending[n] <= asked[n]
    BY DEF ReleaseInv, NeverOverReleased
  <2>2. under_way(n) \in Nat
    BY UnderWay DEF under_way, ReleaseInv, Directives
  <2>3. under_way(n)' = under_way(n) \/ under_way(n)' = 0
    <3>1. CASE answer'[n] = answer[n]
      BY <3>1 DEF under_way
    <3>2. CASE answer'[n] = {}
      BY <3>2 DEF under_way
    <3> QED BY <3>1, <3>2
  <2>4. freed[n] \in Nat /\ asked[n] \in Nat /\ pending[n] \in Nat /\ pending'[n] \in Nat
    BY DEF ReleaseInv
  <2> QED BY <2>1, <2>2, <2>3, <2>4
<1> QED BY <1>1, <1>2 DEF ReleaseInv, NeverOverReleased

\* A heartbeat: what it hands out is no longer pending.
LEMMA ReleaseBeat ==
  ASSUME ReleaseInv, NEW n \in Node, Beat(n)
  PROVE  ReleaseInv'
<1>1. /\ known' = known \cup {n} /\ hb' = [hb EXCEPT ![n] = build_heartbeat(n)]
      /\ answer[n] = {} /\ UNCHANGED <<conn, asked, freed>>
  BY DEF Beat, history
<1>2. known' \subseteq Node /\ DOMAIN hb' = Node /\ Clients'
  BY <1>1 DEF ReleaseInv, Clients, build_heartbeat
<1>3. auto_release(n)' \in Nat
  BY <1>2, AutoTypeNext
<1>4. pending[n] \in Nat /\ freed[n] \in Nat /\ asked[n] \in Nat /\ under_way(n) = 0
      /\ freed[n] + pending[n] <= asked[n]
  BY <1>1 DEF ReleaseInv, NeverOverReleased, under_way
<1>5. \E d : /\ answer' = [answer EXCEPT ![n] = {d}] /\ d.manual \in BOOLEAN /\ d.release \in Nat
             /\ pending' \in [Node -> Nat]
             /\ \A m \in Node : m # n => pending'[m] = pending[m]
             /\ d.manual => d.release + pending'[n] <= pending[n]
             /\ ~d.manual => pending'[n] = 0
  <2>1. CASE admin_of(n).relay
    <3> DEFINE d == [drain |-> FALSE, release |-> 0, manual |-> FALSE]
    <3>1. answer' = [answer EXCEPT ![n] = {d}] /\ pending' = [pending EXCEPT ![n] = 0]
      BY <2>1 DEF Beat
    <3>2. pending' \in [Node -> Nat] /\ pending'[n] = 0
          /\ \A m \in Node : m # n => pending'[m] = pending[m]
      BY <3>1 DEF ReleaseInv
    <3>3. d.manual = FALSE /\ d.release = 0
      OBVIOUS
    <3> HIDE DEF d
    <3> QED BY <3>1, <3>2, <3>3
  <2>2. CASE ~admin_of(n).relay
    <3> DEFINE manual == pending[n] > 0
               r == IF manual THEN Min({pending[n], batch}) ELSE auto_release(n)'
               d == [drain |-> drain'[n], release |-> r, manual |-> manual]
    <3>1. decide_release(n)
      BY <2>2 DEF Beat
    <3>2. /\ answer' = [answer EXCEPT ![n] = {d}]
          /\ pending' = [pending EXCEPT ![n] = IF manual THEN @ - r ELSE 0]
      BY <3>1 DEF decide_release
    <3>3. d.manual = manual /\ d.release = r /\ manual \in BOOLEAN
      OBVIOUS
    <3>4. batch \in Nat
      <4>1. Max({ReleaseBatch, 1}) \in {ReleaseBatch, 1}
        BY RegistryAssumption DEF Max
      <4> QED BY <4>1, RegistryAssumption DEF batch
    <3>5. r \in Nat /\ (manual => r <= pending[n])
      BY <1>3, <1>4, <3>4, MinTwo
    <3> HIDE DEF d, r
    <3>6. manual => pending'[n] = pending[n] - r /\ pending[n] - r \in Nat
      BY <3>2, <3>5, <1>4 DEF ReleaseInv
    <3>7. ~manual => pending'[n] = 0
      BY <3>2 DEF ReleaseInv
    <3>8. pending' \in [Node -> Nat] /\ \A m \in Node : m # n => pending'[m] = pending[m]
      BY <3>2, <3>5, <1>4 DEF ReleaseInv
    <3>9. manual => r + pending'[n] <= pending[n]
      BY <3>5, <3>6, <1>4
    <3> QED BY <3>2, <3>3, <3>5, <3>7, <3>8, <3>9
  <2> QED BY <2>1, <2>2
<1>6. PICK d :
             /\ answer' = [answer EXCEPT ![n] = {d}] /\ d.manual \in BOOLEAN /\ d.release \in Nat
             /\ pending' \in [Node -> Nat]
             /\ \A m \in Node : m # n => pending'[m] = pending[m]
             /\ d.manual => d.release + pending'[n] <= pending[n]
             /\ ~d.manual => pending'[n] = 0
  BY <1>5
<1>7. DOMAIN answer' = Node /\ answer'[n] = {d} /\ \A m \in Node : m # n => answer'[m] = answer[m]
  BY <1>6 DEF ReleaseInv
<1>8. under_way(n)' = IF d.manual THEN d.release ELSE 0
  BY <1>7, UnderWay DEF under_way
<1>9. freed'[n] + under_way(n)' + pending'[n] <= asked'[n]
  BY <1>1, <1>4, <1>6, <1>8
<1>10. \A m \in Node : m # n => freed'[m] + under_way(m)' + pending'[m] <= asked'[m]
  BY <1>1, <1>6, <1>7 DEF ReleaseInv, NeverOverReleased, under_way
<1>11. \A m \in Node : Directives(answer'[m])
  BY <1>6, <1>7 DEF ReleaseInv, Directives
<1>12. NeverOverReleased'
  BY <1>9, <1>10 DEF NeverOverReleased
<1> QED BY <1>1, <1>2, <1>6, <1>7, <1>11, <1>12 DEF ReleaseInv

\* The edge closes at most what the directive says.
LEMMA ReleaseApply ==
  ASSUME ReleaseInv, NEW n \in Node, Apply(n)
  PROVE  ReleaseInv'
<1> PICK d \in answer[n] :
      /\ answer' = [answer EXCEPT ![n] = {}]
      /\ conn' = [conn EXCEPT ![n] = @ - released(n, d)]
      /\ freed' = [freed EXCEPT ![n] = IF d.manual THEN @ + released(n, d) ELSE @]
      /\ UNCHANGED <<known, hb, pending, asked>>
  BY DEF Apply, consoleVars
<1>1. answer[n] = {d} /\ d.manual \in BOOLEAN /\ d.release \in Nat
  BY DEF ReleaseInv, Directives
<1>2. conn[n] \in Nat /\ freed[n] \in Nat /\ pending[n] \in Nat /\ asked[n] \in Nat
  BY DEF ReleaseInv
<1> DEFINE k == released(n, d)
<1>3. k \in Nat /\ k <= d.release /\ k <= conn[n]
  BY <1>1, <1>2, MinTwo DEF released
<1> HIDE DEF k
<1>4. conn' = [conn EXCEPT ![n] = @ - k] /\ freed' = [freed EXCEPT ![n] = IF d.manual THEN @ + k ELSE @]
  BY DEF k
<1>5. conn' \in [Node -> Nat] /\ freed' \in [Node -> Nat]
  <2>1. conn[n] - k \in Nat /\ freed[n] + k \in Nat
    BY <1>2, <1>3
  <2> QED BY <1>4, <2>1 DEF ReleaseInv
<1>6. DOMAIN answer' = Node /\ answer'[n] = {} /\ \A m \in Node : m # n => answer'[m] = answer[m]
  BY DEF ReleaseInv
<1>7. under_way(n) = IF d.manual THEN d.release ELSE 0
  BY <1>1, UnderWay DEF under_way
<1>8. under_way(n)' = 0
  BY <1>6 DEF under_way
<1>9. freed'[n] = IF d.manual THEN freed[n] + k ELSE freed[n]
  BY <1>4 DEF ReleaseInv
<1>10. freed[n] + under_way(n) + pending[n] <= asked[n]
  BY DEF ReleaseInv, NeverOverReleased
<1>11. freed'[n] + under_way(n)' + pending'[n] <= asked'[n]
  BY <1>1, <1>2, <1>3, <1>7, <1>8, <1>9, <1>10
<1>12. \A m \in Node : m # n => freed'[m] + under_way(m)' + pending'[m] <= asked'[m]
  BY <1>4, <1>6 DEF ReleaseInv, NeverOverReleased, under_way
<1>13. NeverOverReleased'
  BY <1>11, <1>12 DEF NeverOverReleased
<1>14. \A m \in Node : Directives(answer'[m])
  BY <1>6 DEF ReleaseInv, Directives
<1>15. Clients'
  BY DEF ReleaseInv, Clients
<1> QED BY <1>5, <1>6, <1>13, <1>14, <1>15 DEF ReleaseInv

\* A request: what it asks for replaces what was pending.
LEMMA ReleaseAct ==
  ASSUME ReleaseInv, op \subseteq Request, AdminAct
  PROVE  ReleaseInv'
<1> PICK r \in op :
      \/ \E to \in BOOLEAN : AdminDrain(r.node, to)
      \/ \E to \in BOOLEAN : AdminDisable(r.node, to)
      \/ AdminForget(r.node) \/ AdminRelease(r.node, r.count) \/ AdminUnknown(r)
  BY DEF AdminAct
<1> DEFINE n == r.node
<1>0. n \in Node /\ r.count \in Nat /\ UNCHANGED <<conn, answer>>
  BY RegistryAssumption DEF Request, AdminAct, edgeVars
<1> HIDE DEF n
<1>1. CASE AdminRelease(n, r.count)
  <2>1. /\ pending' = [pending EXCEPT ![n] = r.count]
        /\ asked' = [asked EXCEPT ![n] = r.count + under_way(n)]
        /\ freed' = [freed EXCEPT ![n] = 0]
        /\ UNCHANGED <<known, hb>>
    BY <1>1 DEF AdminRelease
  <2>2. under_way(n) \in Nat
    BY <1>0, UnderWay DEF under_way, ReleaseInv, Directives
  <2>3. pending' \in [Node -> Nat] /\ asked' \in [Node -> Nat] /\ freed' \in [Node -> Nat]
    BY <1>0, <2>1, <2>2 DEF ReleaseInv
  <2>4. \A m \in Node : under_way(m)' = under_way(m)
    BY <1>0 DEF under_way
  <2>5. pending'[n] = r.count /\ asked'[n] = r.count + under_way(n) /\ freed'[n] = 0
    BY <1>0, <2>1 DEF ReleaseInv
  <2>6. freed'[n] + under_way(n)' + pending'[n] <= asked'[n]
    BY <1>0, <2>2, <2>4, <2>5
  <2>7. \A m \in Node : m # n => freed'[m] + under_way(m)' + pending'[m] <= asked'[m]
    BY <2>1, <2>4 DEF ReleaseInv, NeverOverReleased
  <2>8. NeverOverReleased'
    BY <2>6, <2>7 DEF NeverOverReleased
  <2>9. Clients'
    BY <2>1 DEF ReleaseInv, Clients
  <2> QED BY <1>0, <2>1, <2>3, <2>8, <2>9 DEF ReleaseInv
<1>2. CASE AdminForget(n)
  <2>1. /\ known' = known \ {n} /\ hb' = [hb EXCEPT ![n] = NoHeartbeat]
        /\ pending' = [pending EXCEPT ![n] = 0] /\ UNCHANGED <<asked, freed>>
    BY <1>2 DEF AdminForget
  <2>2. known' \subseteq Node /\ DOMAIN hb' = Node /\ Clients'
    BY <2>1 DEF ReleaseInv, Clients, NoHeartbeat
  <2>3. pending' \in [Node -> Nat] /\ \A m \in Node : pending'[m] <= pending[m]
    <3>1. pending \in [Node -> Nat]
      BY DEF ReleaseInv
    <3>2. pending' \in [Node -> Nat] /\ \A m \in Node : pending'[m] = 0 \/ pending'[m] = pending[m]
      BY <2>1, <3>1
    <3>3. \A m \in Node : pending[m] \in Nat
      BY <3>1
    <3> QED BY <3>2, <3>3
  <2> QED BY <1>0, <2>1, <2>2, <2>3, ReleaseLess DEF ReleaseInv
<1>3. CASE \/ \E to \in BOOLEAN : AdminDrain(n, to) \/ AdminDisable(n, to)
           \/ AdminUnknown(r)
  <2>1. UNCHANGED <<known, hb, pending, asked, freed>>
    BY <1>3 DEF AdminDrain, AdminDisable, AdminUnknown, history
  <2> QED BY <1>0, <2>1 DEF ReleaseInv, Clients, NeverOverReleased, under_way
<1> QED BY <1>1, <1>2, <1>3 DEF n

LEMMA ReleaseNext ==
  ASSUME ReleaseInv, op \subseteq Request, [Next]_vars
  PROVE  ReleaseInv'
<1>1. CASE \E n \in Node : Beat(n)
  BY <1>1, ReleaseBeat
<1>2. CASE \E n \in Node : Apply(n)
  BY <1>2, ReleaseApply
<1>3. CASE AdminAct
  BY <1>3, ReleaseAct
<1>4. ASSUME NEW n \in Node, Lose(n) \/ Restart(n) PROVE ReleaseInv'
  <2>1. /\ answer' = [answer EXCEPT ![n] = {}]
        /\ conn' = conn \/ conn' = [conn EXCEPT ![n] = 0]
        /\ UNCHANGED <<known, hb, pending, asked, freed>>
    BY <1>4 DEF Lose, Restart, consoleVars, history
  <2>2. conn' \in [Node -> Nat] /\ DOMAIN answer' = Node
    BY <2>1 DEF ReleaseInv
  <2>3. \A m \in Node : answer'[m] = answer[m] \/ answer'[m] = {}
    BY <2>1 DEF ReleaseInv
  <2>4. Clients' /\ \A m \in Node : pending'[m] <= pending[m]
    BY <2>1 DEF ReleaseInv, Clients
  <2> QED BY <2>1, <2>2, <2>3, <2>4, ReleaseLess DEF ReleaseInv
<1>5. ASSUME NEW n \in Node, Connect(n) \/ DrainStep(n) PROVE ReleaseInv'
  <2>1. /\ conn' = [conn EXCEPT ![n] = @ + 1] \/ (conn[n] > 0 /\ conn' = [conn EXCEPT ![n] = @ - 1])
        /\ UNCHANGED <<known, hb, pending, asked, freed, answer>>
    BY <1>5 DEF Connect, DrainStep, consoleVars, history
  <2>2. conn[n] \in Nat /\ conn[n] + 1 \in Nat /\ (conn[n] > 0 => conn[n] - 1 \in Nat)
    BY DEF ReleaseInv
  <2>3. conn' \in [Node -> Nat]
    BY <2>1, <2>2 DEF ReleaseInv
  <2> QED BY <2>1, <2>3 DEF ReleaseInv, Clients, NeverOverReleased, under_way
<1>6. CASE ConsoleRestart
  <2>1. /\ known' = {} /\ hb' = [n \in Node |-> NoHeartbeat]
        /\ pending' = [n \in Node |-> 0] /\ answer' = [n \in Node |-> {}]
        /\ UNCHANGED <<conn, asked, freed>>
    BY <1>6 DEF ConsoleRestart, history
  <2>2. known' \subseteq Node /\ DOMAIN hb' = Node /\ Clients' /\ DOMAIN answer' = Node
    BY <2>1 DEF Clients, NoHeartbeat
  <2>3. pending' \in [Node -> Nat] /\ \A m \in Node : pending'[m] <= pending[m]
    <3>1. \A m \in Node : pending'[m] = 0
      BY <2>1
    <3>2. pending' \in [Node -> Nat]
      BY <2>1
    <3>3. \A m \in Node : pending[m] \in Nat
      BY DEF ReleaseInv
    <3>4. \A m \in Node : pending'[m] <= pending[m]
      BY <3>1, <3>3
    <3> QED BY <3>2, <3>4
  <2> QED BY <2>1, <2>2, <2>3, ReleaseLess DEF ReleaseInv
<1>7. CASE \/ \E n \in Node : \/ Lapse(n) \/ Link(n)
                              \/ \E relay, saved \in BOOLEAN : AdminRelay(n, relay, saved)
                              \/ \E saved \in BOOLEAN : set_note(n, saved)
           \/ \E r \in Request : AdminTest(r)
           \/ \E enabled \in BOOLEAN : set_auto_balance(enabled)
           \/ UNCHANGED vars
  <2>1. UNCHANGED <<known, hb, pending, asked, freed, conn, answer>>
    BY <1>7 DEF vars, consoleVars, edgeVars, history, Lapse, Link, AdminRelay, set_note, AdminTest,
                set_auto_balance
  <2> QED BY <2>1 DEF ReleaseInv, Clients, NeverOverReleased, under_way
<1> QED BY <1>1, <1>2, <1>3, <1>4, <1>5, <1>6, <1>7 DEF Next

\* A release by hand closes no more clients than were asked for: however it is
\* cut into batches, whichever answers are lost, whoever restarts, and whatever
\* balancing releases meanwhile (request_release, decide_release, Hub::release).
THEOREM NeverOverReleasedHolds == Spec => []NeverOverReleased
<1> DEFINE Inv == op \subseteq Request /\ ReleaseInv
<1>1. Inv => NeverOverReleased
  BY DEF ReleaseInv
<1>2. Inv /\ [Next]_vars => Inv'
  BY ReleaseNext, OpType
<1>3. Init => Inv
  BY ReleaseInit, OpType
<1> HIDE DEF Inv
<1> QED BY <1>1, <1>2, <1>3, PTL DEF Spec
=============================================================================
