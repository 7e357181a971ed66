---------------------------- MODULE AlertsProofs ----------------------------
(***************************************************************************)
(* Theorems about the console's alerts: what the chat is told, what the    *)
(* engine holds and what the counters did agree, for any rules, nodes,     *)
(* limits and reports, whichever pushes fail and whoever restarts.         *)
(***************************************************************************)
EXTENDS Alerts, FiniteSetTheorems, WellFoundedInduction, TLAPS

-----------------------------------------------------------------------------
(* Numbers and finite sets *)

LEMMA LeastNat ==
  ASSUME NEW T, T \subseteq Nat, T # {}
  PROVE  \E x \in T : \A y \in T : x <= y
<1> DEFINE R == OpToRel(<, Nat)
<1>1. IsWellFoundedOn(R, Nat)
  BY NatLessThanWellFounded
<1>2. \A x, y \in Nat : x < y => <<x, y>> \in R
  BY DEF OpToRel
<1> HIDE DEF R
<1>3. PICK x \in T : \A y \in T : ~(<<y, x>> \in R)
  BY <1>1, WFMin
<1>4. \A y \in T : ~(y < x)
  BY <1>2, <1>3, Zenon
<1>5. \A y \in T : x <= y
  BY <1>4
<1> QED BY <1>5

\* What holds at 0 and passes from n to n + 1 holds of every n.
LEMMA SetInduction ==
  ASSUME NEW S, 0 \in S, \A n \in Nat : n \in S => n + 1 \in S
  PROVE  Nat \subseteq S
<1> DEFINE T == Nat \ S
<1> SUFFICES ASSUME T # {} PROVE FALSE
  OBVIOUS
<1>0. T \subseteq Nat
  OBVIOUS
<1>1. PICK x \in T : \A y \in T : x <= y
  <2> HIDE DEF T
  <2> QED BY <1>0, LeastNat
<1>2. x - 1 \in Nat /\ x - 1 \in S /\ (x - 1) + 1 = x
  BY <1>1
<1> QED BY <1>1, <1>2

\* The greatest of some numbers up to n.
LEMMA MaxUpTo ==
  ASSUME NEW n \in Nat, NEW T, T \subseteq 0..n, T # {}
  PROVE  Max(T) \in T /\ \A y \in T : y <= Max(T)
<1> DEFINE U == {n - x : x \in T}
<1>1. U \subseteq Nat /\ U # {}
  <2>1. \A x \in T : n - x \in Nat
    OBVIOUS
  <2> QED BY <2>1
<1>2. PICK u \in U : \A y \in U : u <= y
  <2> HIDE DEF U
  <2> QED BY <1>1, LeastNat
<1>3. PICK x \in T : u = n - x
  BY <1>2
<1>4. \A y \in T : x >= y
  <2> SUFFICES ASSUME NEW y \in T PROVE x >= y
    OBVIOUS
  <2>1. n - x <= n - y
    BY <1>2, <1>3
  <2> QED BY <2>1
<1>5. Max(T) \in T /\ \A y \in T : Max(T) >= y
  BY <1>3, <1>4 DEF Max
<1> QED BY <1>5

LEMMA MaxTwo ==
  ASSUME NEW a \in Int, NEW b \in Int
  PROVE  Max({a, b}) = IF a >= b THEN a ELSE b
  BY DEF Max

LEMMA ThreeFinite ==
  ASSUME NEW a, NEW b, NEW c
  PROVE  IsFiniteSet({a, b, c})
<1>1. IsFiniteSet({a}) /\ IsFiniteSet({b}) /\ IsFiniteSet({c})
  BY FS_Singleton
<1>2. IsFiniteSet({a} \cup {b})
  BY <1>1, FS_Union
<1>3. IsFiniteSet(({a} \cup {b}) \cup {c})
  BY <1>1, <1>2, FS_Union
<1>4. ({a} \cup {b}) \cup {c} = {a, b, c}
  OBVIOUS
<1> QED BY <1>3, <1>4

LEMMA KeysFinite == IsFiniteSet(Key)
<1> DEFINE u1 == {"rpc_reconnects", "enrichment_misses", "decode_errors"}
           u2 == {"slow_clients", "cursor_rejected", "storage_dropped"}
           u3 == {"rpc_disconnected", "rpc_sources_degraded", "upstream_silent"}
           u4 == {"enrichment_recent_low", "catalog_small", "catalog_small"}
           e1 == {"edge_stale", "edge_upstream_down", "edge_sequence_lag"}
           e2 == {"edge_link_lag", "edge_near_full", "edge_near_full"}
<1>1. IsFiniteSet(UpRule \cup OwnRule)
  <2>1. IsFiniteSet(u1) /\ IsFiniteSet(u2) /\ IsFiniteSet(u3) /\ IsFiniteSet(u4) /\ IsFiniteSet(OwnRule)
    BY ThreeFinite DEF OwnRule
  <2>2. UpRule = (u1 \cup u2) \cup (u3 \cup u4)
    BY DEF UpRule, UpCounter
  <2> HIDE DEF u1, u2, u3, u4
  <2>3. IsFiniteSet(u1 \cup u2) /\ IsFiniteSet(u3 \cup u4)
    BY <2>1, FS_Union
  <2>4. IsFiniteSet(UpRule)
    BY <2>2, <2>3, FS_Union
  <2> QED BY <2>1, <2>4, FS_Union
<1>2. IsFiniteSet(EdgeRule)
  <2>1. IsFiniteSet(e1) /\ IsFiniteSet(e2) /\ IsFiniteSet(EdgeCounter)
    BY ThreeFinite DEF EdgeCounter
  <2>2. EdgeRule = EdgeCounter \cup (e1 \cup e2)
    BY DEF EdgeRule
  <2> HIDE DEF e1, e2
  <2>3. IsFiniteSet(e1 \cup e2)
    BY <2>1, FS_Union
  <2> QED BY <2>1, <2>2, <2>3, FS_Union
<1>3. IsFiniteSet(((UpRule \cup OwnRule) \X {""}) \cup (EdgeRule \X Node))
  BY <1>1, <1>2, AlertsAssumption, FS_Singleton, FS_Product, FS_Union
<1> QED BY <1>3, FS_Subset DEF Key

-----------------------------------------------------------------------------
(* The queue of recoveries *)

One(s) == CHOOSE x \in s : TRUE
QueueStep(f, queue, s) == IF s = {} THEN queue ELSE Append(f[s \ {One(s)}], One(s))
Small(ks, n) == {s \in SUBSET ks : Cardinality(s) <= n}

LEMMA SmallSets ==
  ASSUME NEW ks \in SUBSET Key
  PROVE  /\ \A s \in SUBSET ks : Cardinality(s) \in Nat
         /\ \A s \in SUBSET ks : s # {} =>
              /\ One(s) \in s /\ s \ {One(s)} \in SUBSET ks
              /\ Cardinality(s) > 0 /\ Cardinality(s \ {One(s)}) = Cardinality(s) - 1
         /\ Small(ks, 0) = {{}} /\ Small(ks, Cardinality(ks)) = SUBSET ks
<1>0. IsFiniteSet(ks)
  BY KeysFinite, FS_Subset
<1>1. \A s \in SUBSET ks : IsFiniteSet(s) /\ Cardinality(s) \in Nat
  BY <1>0, FS_Subset, FS_CardinalityType
<1>2. ASSUME NEW s \in SUBSET ks, s # {}
      PROVE  /\ One(s) \in s /\ s \ {One(s)} \in SUBSET ks
             /\ Cardinality(s) > 0 /\ Cardinality(s \ {One(s)}) = Cardinality(s) - 1
  <2>1. One(s) \in s
    BY <1>2 DEF One
  <2>2. Cardinality(s) # 0
    BY <1>1, <1>2, FS_EmptySet
  <2>3. Cardinality(s \ {One(s)}) = Cardinality(s) - 1
    BY <1>1, <2>1, FS_RemoveElement
  <2> QED BY <1>1, <2>1, <2>2, <2>3
<1>3. Small(ks, 0) = {{}}
  <2>1. \A s \in SUBSET ks : Cardinality(s) <= 0 <=> s = {}
    <3>1. Cardinality({}) = 0
      BY FS_EmptySet
    <3>2. \A s \in SUBSET ks : s # {} => Cardinality(s) > 0
      BY <1>2
    <3>3. \A s \in SUBSET ks : Cardinality(s) <= 0 => ~(Cardinality(s) > 0)
      BY <1>1
    <3>4. 0 <= 0
      OBVIOUS
    <3> QED BY <3>1, <3>2, <3>3, <3>4, Zenon
  <2> QED BY <2>1 DEF Small
<1>4. Small(ks, Cardinality(ks)) = SUBSET ks
  BY <1>0, <1>1, FS_Subset DEF Small
<1> QED BY <1>1, <1>2, <1>3, <1>4

LEMMA AppendSet ==
  ASSUME NEW q \in Seq(Key), NEW x \in Key
  PROVE  Append(q, x) \in Seq(Key) /\ ToSet(Append(q, x)) = ToSet(q) \cup {x}
<1> DEFINE r == Append(q, x)
           n == Len(q)
<1>1. /\ r \in Seq(Key) /\ n \in Nat /\ DOMAIN q = 1..n /\ DOMAIN r = 1..(n + 1)
      /\ \A i \in 1..n : r[i] = q[i]
      /\ r[n + 1] = x
  OBVIOUS
<1> HIDE DEF r, n
<1>2. \A i \in 1..(n + 1) : i \in 1..n \/ i = n + 1
  BY <1>1
<1>3. n + 1 \in 1..(n + 1) /\ 1..n \subseteq 1..(n + 1)
  BY <1>1
<1>4. ToSet(r) = ToSet(q) \cup {x}
  BY <1>1, <1>2, <1>3 DEF ToSet
<1> QED BY <1>1, <1>4 DEF r

\* There is a function that satisfies the recursion of the fold.
LEMMA QueueExists ==
  ASSUME NEW ks \in SUBSET Key, NEW queue
  PROVE  \E F : F = [s \in SUBSET ks |-> QueueStep(F, queue, s)]
<1> DEFINE S == {n \in Nat : \E F : F = [s \in Small(ks, n) |-> QueueStep(F, queue, s)]}
<1>1. 0 \in S
  <2> DEFINE F == [s \in Small(ks, 0) |-> queue]
  <2>1. \A s \in Small(ks, 0) : s = {}
    BY SmallSets
  <2>2. \A s \in Small(ks, 0) : QueueStep(F, queue, s) = queue
    BY <2>1 DEF QueueStep
  <2>3. F = [s \in Small(ks, 0) |-> QueueStep(F, queue, s)]
    BY <2>2
  <2> QED BY <2>3
<1>2. ASSUME NEW n \in Nat, n \in S PROVE n + 1 \in S
  <2>1. PICK F : F = [s \in Small(ks, n) |-> QueueStep(F, queue, s)]
    BY <1>2
  <2> DEFINE G == [s \in Small(ks, n + 1) |->
                     IF s \in Small(ks, n) THEN F[s] ELSE QueueStep(F, queue, s)]
  <2>2. \A s \in Small(ks, n + 1) : G[s] = QueueStep(F, queue, s)
    BY <2>1
  <2>3. \A s \in Small(ks, n + 1) : s # {} =>
          s \ {One(s)} \in Small(ks, n) /\ s \ {One(s)} \in Small(ks, n + 1)
    BY SmallSets DEF Small
  <2>4. \A s \in Small(ks, n + 1) : s # {} => G[s \ {One(s)}] = F[s \ {One(s)}]
    BY <2>3
  <2>5. G = [s \in Small(ks, n + 1) |-> G[s]]
    OBVIOUS
  <2> HIDE DEF G
  <2>6. \A s \in Small(ks, n + 1) : G[s] = QueueStep(G, queue, s)
    BY <2>2, <2>4 DEF QueueStep
  <2>7. G = [s \in Small(ks, n + 1) |-> QueueStep(G, queue, s)]
    BY <2>5, <2>6
  <2> QED BY <2>7
<1> HIDE DEF S
<1>3. Cardinality(ks) \in S
  BY <1>1, <1>2, SetInduction, SmallSets
<1>4. PICK F : F = [s \in Small(ks, Cardinality(ks)) |-> QueueStep(F, queue, s)]
  BY <1>3 DEF S
<1>5. Small(ks, Cardinality(ks)) = SUBSET ks
  BY SmallSets
<1> QED BY <1>4, <1>5

\* The recoveries of a round come behind those queued, none is left out.
LEMMA QueuedAll ==
  ASSUME NEW ks \in SUBSET Key, NEW queue \in Seq(Key)
  PROVE  Queued(queue, ks) \in Seq(Key) /\ ToSet(Queued(queue, ks)) = ToSet(queue) \cup ks
<1> DEFINE F == CHOOSE F : F = [s \in SUBSET ks |-> QueueStep(F, queue, s)]
<1>1. Queued(queue, ks) = F[ks]
  BY DEF Queued, FoldSet, MapThenFoldSet, QueueStep, One
<1>2. F = [s \in SUBSET ks |-> QueueStep(F, queue, s)]
  BY QueueExists
<1> HIDE DEF F
<1>3. \A s \in SUBSET ks : F[s] = QueueStep(F, queue, s)
  BY <1>2
<1> DEFINE I == {n \in Nat : \A s \in Small(ks, n) :
                   F[s] \in Seq(Key) /\ ToSet(F[s]) = ToSet(queue) \cup s}
<1>0. F[{}] = queue
  BY <1>3 DEF QueueStep
<1>4. 0 \in I
  <2>1. \A s \in Small(ks, 0) : s = {}
    BY SmallSets
  <2> QED BY <1>0, <2>1
<1>5. ASSUME NEW n \in Nat, n \in I PROVE n + 1 \in I
  <2> SUFFICES ASSUME NEW s \in Small(ks, n + 1)
               PROVE  F[s] \in Seq(Key) /\ ToSet(F[s]) = ToSet(queue) \cup s
    OBVIOUS
  <2>1. s \in SUBSET ks
    BY DEF Small
  <2>2. CASE s = {}
    BY <1>0, <2>2
  <2>3. CASE s # {}
    <3> DEFINE x == One(s)
               q == F[s \ {x}]
    <3>1. s \ {x} \in Small(ks, n) /\ x \in s /\ x \in Key
      BY <2>1, <2>3, SmallSets DEF Small
    <3>2. q \in Seq(Key) /\ ToSet(q) = ToSet(queue) \cup (s \ {x})
      BY <1>5, <3>1
    <3>3. F[s] = Append(q, x)
      BY <1>3, <2>1, <2>3 DEF QueueStep
    <3> HIDE DEF q, x
    <3>4. Append(q, x) \in Seq(Key) /\ ToSet(Append(q, x)) = ToSet(q) \cup {x}
      BY <3>1, <3>2, AppendSet
    <3> QED BY <3>1, <3>2, <3>3, <3>4
  <2> QED BY <2>2, <2>3
<1> HIDE DEF I
<1>6. Cardinality(ks) \in I
  BY <1>4, <1>5, SetInduction, SmallSets
<1>7. ks \in Small(ks, Cardinality(ks))
  BY SmallSets
<1> QED BY <1>1, <1>6, <1>7 DEF I

-----------------------------------------------------------------------------
(* What the chat is told *)

CondRec == [pending : Int, firing : BOOLEAN, notified : Nat \cup {Never}, absent : Int]

Types ==
  /\ DOMAIN conditions \subseteq Key /\ conditions \in [DOMAIN conditions -> CondRec]
  /\ resolved \in Seq(Key) /\ faults \in Nat

\* While a message is under way the engine stands as it did when it was made.
MessageInv == message = {} \/ message = {[keys |-> Due(conditions), resolved |-> resolved]}

\* A recovery queued is of something the chat was told, and an alert that fires
\* again meanwhile has not been told.
QueueInv ==
  \A k \in ToSet(resolved) : /\ k \in chat \cup doubt
                             /\ k \in DOMAIN conditions => conditions[k].notified = Never

TellInv == Types /\ MessageInv /\ QueueInv /\ NoOrphanRecovery /\ ToldIsTracked

LEMMA NoConditionType == NoCondition \in CondRec
  BY DEF NoCondition, CondRec, Never

LEMMA TellInit == Init => TellInv
<1> SUFFICES ASSUME Init PROVE TellInv
  OBVIOUS
<1>1. DOMAIN conditions = {} /\ resolved = <<>> /\ chat = {} /\ message = {} /\ orphan = FALSE /\ faults = 0
  BY DEF Init, NoConditions
<1>2. conditions \in [DOMAIN conditions -> CondRec]
  BY <1>1 DEF Init, NoConditions
<1> QED BY <1>1, <1>2 DEF TellInv, Types, MessageInv, QueueInv, NoOrphanRecovery, ToldIsTracked, ToSet

\* A round changes neither that an alert was told nor, short of ending it, that
\* it fires; a rule that was not looked at is left as it is.
LEMMA ObservedFacts ==
  ASSUME NEW c \in CondRec, NEW r, NEW present \in BOOLEAN, NEW looked \in BOOLEAN
  PROVE  LET o == observed(Aged(c, r), r, present, looked)
         IN  /\ o \in CondRec
             /\ o # NoCondition => (o.notified = Never <=> c.notified = Never)
             /\ c.notified = Never => o.notified = Never
             /\ c.firing => o = NoCondition \/ o.firing
             /\ c.firing /\ ~looked => o.firing
<1> DEFINE a == Aged(c, r)
           o == observed(a, r, present, looked)
<1>1. \A cap : \A x \in Int : Older(x, cap) \in Int
  BY DEF Older
<1>2. \A cap : \A x \in Nat \cup {Never} :
        Older(x, cap) \in Nat \cup {Never} /\ (Older(x, cap) = Never <=> x = Never)
  BY DEF Older, Never
<1>3. a \in CondRec /\ a.firing = c.firing /\ (a.notified = Never <=> c.notified = Never)
  <2> DEFINE p == IF c.firing THEN c.pending ELSE Older(c.pending, Hold[r])
             b == Older(c.absent, ResolveAfter)
             n == Older(c.notified, RepeatAfter)
  <2>1. a = [c EXCEPT !.pending = p, !.absent = b, !.notified = n]
    BY DEF Aged
  <2>2. p \in Int /\ b \in Int /\ n \in Nat \cup {Never} /\ (n = Never <=> c.notified = Never)
    BY <1>1, <1>2 DEF CondRec
  <2> HIDE DEF p, b, n, a
  <2> QED BY <2>1, <2>2 DEF CondRec
<1> HIDE DEF a
<1> DEFINE held == IF a.pending = Never THEN 0 ELSE a.pending
           fire == a.firing \/ held >= Hold[r]
           gone == IF a.absent = Never THEN 0 ELSE a.absent
<1>4. held \in Int /\ gone \in Int /\ fire \in BOOLEAN /\ Never \in Int
  BY <1>3 DEF CondRec, Never
<1>5. o = IF present THEN [a EXCEPT !.pending = held, !.absent = Never, !.firing = fire]
          ELSE IF ~looked THEN a
          ELSE IF ~a.firing \/ gone >= ResolveAfter THEN NoCondition
          ELSE [a EXCEPT !.absent = gone]
  BY DEF observed
<1>6. a.firing => fire
  OBVIOUS
<1> HIDE DEF o, held, gone, fire
<1>7. CASE present
  <2>1. o = [a EXCEPT !.pending = held, !.absent = Never, !.firing = fire]
    BY <1>5, <1>7
  <2>2. o \in CondRec /\ o.notified = a.notified /\ o.firing = fire
    BY <1>3, <1>4, <2>1 DEF CondRec
  <2> QED BY <1>3, <1>6, <2>2 DEF o, a
<1>8. CASE ~present /\ ~looked
  BY <1>3, <1>5, <1>8 DEF o, a
<1>9. CASE ~present /\ looked /\ (~a.firing \/ gone >= ResolveAfter)
  <2>1. o = NoCondition
    BY <1>5, <1>9
  <2>2. NoCondition.notified = Never
    BY DEF NoCondition
  <2> QED BY <1>9, <2>1, <2>2, NoConditionType DEF o, a
<1>10. CASE ~present /\ looked /\ ~(~a.firing \/ gone >= ResolveAfter)
  <2>1. o = [a EXCEPT !.absent = gone]
    BY <1>5, <1>10
  <2>2. o \in CondRec /\ o.notified = a.notified /\ o.firing = a.firing
    BY <1>3, <1>4, <2>1 DEF CondRec
  <2> QED BY <1>3, <1>10, <2>2 DEF o, a
<1> QED BY <1>7, <1>8, <1>9, <1>10

\* What a round does to conditions and recoveries.
LEMMA RoundFacts ==
  ASSUME Types, NEW i, Round(i)
  PROVE  /\ Types'
         /\ \A k \in DOMAIN conditions' :
              conditions'[k].notified # Never => k \in DOMAIN conditions /\ conditions[k].notified # Never
         /\ \A k \in DOMAIN conditions \cap DOMAIN conditions' :
              /\ conditions[k].firing => conditions'[k].firing
              /\ conditions'[k].notified = Never <=> conditions[k].notified = Never
         /\ \A k \in DOMAIN conditions \ DOMAIN conditions' :
              conditions[k].firing => k[1] \in evaluated(i)
         /\ LET gone == {k \in DOMAIN conditions \ DOMAIN conditions' : told(conditions[k])}
            IN  /\ ToSet(resolved') \subseteq ToSet(resolved) \cup gone
                /\ ToSet(resolved) \cup gone \cup dropped \subseteq ToSet(resolved') \cup dropped'
<1> DEFINE seen(k) == observed(Aged(Condition(k), k[1]), k[1], k \in found', k[1] \in evaluated(i))
           live == {k \in DOMAIN conditions \cup found' : seen(k) # NoCondition}
           gone == {k \in DOMAIN conditions \ live : told(conditions[k])}
           all == Queued(resolved, gone)
           excess == Max({0, Len(all) - MaxResolved})
<1>1. /\ conditions' = [k \in live |-> seen(k)]
      /\ resolved' = SubSeq(all, excess + 1, Len(all))
      /\ dropped' = (dropped \cup {all[j] : j \in 1..excess}) \ ToSet(resolved')
      /\ found' = Findings(i, series') /\ faults' = faults
  BY DEF Round, observe
<1>2. live \subseteq Key
  BY <1>1 DEF Types, Findings
<1>3. ASSUME NEW k
      PROVE  /\ Condition(k) \in CondRec
             /\ seen(k) \in CondRec
             /\ seen(k) # NoCondition => (seen(k).notified = Never <=> Condition(k).notified = Never)
             /\ Condition(k).firing => seen(k) = NoCondition \/ seen(k).firing
             /\ Condition(k).firing /\ k[1] \notin evaluated(i) => seen(k).firing
  <2>1. Condition(k) \in CondRec
    BY NoConditionType DEF Condition, Types
  <2> DEFINE p == k \in found'
             l == k[1] \in evaluated(i)
  <2>2. p \in BOOLEAN /\ l \in BOOLEAN
    OBVIOUS
  <2>3. seen(k) = observed(Aged(Condition(k), k[1]), k[1], p, l)
    OBVIOUS
  <2> HIDE DEF p, l, seen
  <2>4. /\ seen(k) \in CondRec
        /\ seen(k) # NoCondition => (seen(k).notified = Never <=> Condition(k).notified = Never)
        /\ Condition(k).firing => seen(k) = NoCondition \/ seen(k).firing
        /\ Condition(k).firing /\ ~l => seen(k).firing
    BY <2>1, <2>2, <2>3, ObservedFacts
  <2> QED BY <2>1, <2>4 DEF l
<1>4. NoCondition.notified = Never /\ NoCondition.firing = FALSE
  BY DEF NoCondition
<1>5. /\ DOMAIN conditions' = live /\ \A k \in live : conditions'[k] = seen(k) /\ seen(k) # NoCondition
      /\ \A k \in DOMAIN conditions \ live : seen(k) = NoCondition
  BY <1>1
<1> HIDE DEF seen, live
<1>6. gone \subseteq Key /\ resolved \in Seq(Key)
  BY DEF Types
<1>7. all \in Seq(Key) /\ ToSet(all) = ToSet(resolved) \cup gone
  BY <1>6, QueuedAll
<1> HIDE DEF gone, all
<1>8. Len(all) \in Nat /\ MaxResolved \in Nat
  BY <1>7, AlertsAssumption
<1>9. excess \in 0..Len(all)
  BY <1>8, MaxTwo
<1> HIDE DEF excess
<1>10. /\ resolved' \in Seq(Key)
       /\ ToSet(resolved') \subseteq ToSet(all)
       /\ ToSet(all) \subseteq ToSet(resolved') \cup {all[j] : j \in 1..excess}
  <2> DEFINE n == Len(all)
             q == resolved'
  <2>1. /\ q \in Seq(Key) /\ Len(q) = n - excess /\ DOMAIN q = 1..(n - excess) /\ DOMAIN all = 1..n
        /\ \A j \in 1..(n - excess) : q[j] = all[excess + j]
    BY <1>1, <1>7, <1>8, <1>9
  <2>2. n \in Nat /\ excess \in 0..n
    BY <1>8, <1>9
  <2> HIDE DEF n, q
  <2>3. ToSet(q) \subseteq ToSet(all)
    <3>1. \A j \in 1..(n - excess) : excess + j \in 1..n
      BY <2>2
    <3> QED BY <2>1, <3>1 DEF ToSet
  <2>4. ASSUME NEW j \in 1..n PROVE all[j] \in ToSet(q) \cup {all[l] : l \in 1..excess}
    <3>1. CASE j <= excess
      <4>1. j \in 1..excess
        BY <2>2, <3>1
      <4> QED BY <4>1
    <3>2. CASE j > excess
      <4>1. j - excess \in 1..(n - excess) /\ excess + (j - excess) = j
        BY <2>2, <3>2
      <4>2. q[j - excess] = all[j]
        BY <2>1, <4>1
      <4> QED BY <2>1, <4>1, <4>2 DEF ToSet
    <3> QED BY <2>2, <3>1, <3>2
  <2>5. ToSet(all) \subseteq ToSet(q) \cup {all[l] : l \in 1..excess}
    BY <2>1, <2>4 DEF ToSet
  <2> QED BY <2>1, <2>3, <2>5 DEF q
<1>11. Types'
  <2>1. conditions' \in [live -> CondRec]
    BY <1>1, <1>3
  <2> QED BY <1>1, <1>2, <1>5, <1>10, <2>1 DEF Types
<1>12. \A k \in DOMAIN conditions : Condition(k) = conditions[k]
  BY DEF Condition
<1>13. \A k : k \notin DOMAIN conditions => Condition(k) = NoCondition
  BY DEF Condition
<1>14. \A k \in DOMAIN conditions' :
         conditions'[k].notified # Never => k \in DOMAIN conditions /\ conditions[k].notified # Never
  BY <1>3, <1>4, <1>5, <1>12, <1>13
<1>15. \A k \in DOMAIN conditions \cap DOMAIN conditions' :
         /\ conditions[k].firing => conditions'[k].firing
         /\ conditions'[k].notified = Never <=> conditions[k].notified = Never
  BY <1>3, <1>5, <1>12
<1>16. \A k \in DOMAIN conditions \ DOMAIN conditions' :
         conditions[k].firing => k[1] \in evaluated(i)
  BY <1>3, <1>4, <1>5, <1>12
<1>17. gone = {k \in DOMAIN conditions \ DOMAIN conditions' : told(conditions[k])}
  BY <1>5 DEF gone
<1>18. ToSet(resolved) \cup gone \cup dropped \subseteq ToSet(resolved') \cup dropped'
  BY <1>1, <1>7, <1>10
<1> QED BY <1>7, <1>10, <1>11, <1>14, <1>15, <1>16, <1>17, <1>18

LEMMA TellRound ==
  ASSUME TellInv, NEW i, Round(i)
  PROVE  TellInv'
<1>1. UNCHANGED <<chat, doubt, orphan>>
  BY DEF Round
<1>2. Types
  BY DEF TellInv
<1> DEFINE gone == {k \in DOMAIN conditions \ DOMAIN conditions' : told(conditions[k])}
<1>3. /\ Types'
      /\ \A k \in DOMAIN conditions' :
           conditions'[k].notified # Never => k \in DOMAIN conditions /\ conditions[k].notified # Never
      /\ \A k \in DOMAIN conditions \cap DOMAIN conditions' :
           /\ conditions[k].firing => conditions'[k].firing
           /\ conditions'[k].notified = Never <=> conditions[k].notified = Never
      /\ ToSet(resolved') \subseteq ToSet(resolved) \cup gone
      /\ ToSet(resolved) \cup gone \cup dropped \subseteq ToSet(resolved') \cup dropped'
  BY <1>2, RoundFacts
<1>4. \A k \in gone : k \in DOMAIN conditions /\ k \notin DOMAIN conditions' /\ conditions[k].notified # Never
  BY DEF told
<1>5. \A k \in DOMAIN conditions \ DOMAIN conditions' :
        conditions[k].firing /\ conditions[k].notified # Never => k \in gone
  BY DEF told
<1> HIDE DEF gone
<1>6. MessageInv'
  BY DEF Round, MessageInv
<1>7. QueueInv'
  <2> SUFFICES ASSUME NEW k \in ToSet(resolved')
               PROVE  /\ k \in chat \cup doubt
                      /\ k \in DOMAIN conditions' => conditions'[k].notified = Never
    BY <1>1 DEF QueueInv
  <2>1. CASE k \in gone
    BY <1>4, <2>1 DEF TellInv, ToldIsTracked
  <2>2. CASE k \in ToSet(resolved)
    BY <1>3, <2>2 DEF TellInv, QueueInv
  <2> QED BY <1>3, <2>1, <2>2
<1>8. \A k \in DOMAIN conditions' : conditions'[k].notified # Never => k \in chat
  BY <1>3 DEF TellInv, ToldIsTracked
<1>9. ASSUME NEW k \in chat \ doubt
      PROVE  \/ Condition(k)'.firing /\ Condition(k)'.notified # Never
             \/ k \in ToSet(resolved')
             \/ k \in dropped'
  <2>1. CASE Condition(k).firing /\ Condition(k).notified # Never
    <3>1. k \in DOMAIN conditions /\ conditions[k].firing /\ conditions[k].notified # Never
      BY <2>1 DEF Condition, NoCondition
    <3>2. CASE k \in DOMAIN conditions'
      <4>1. conditions'[k].firing /\ conditions'[k].notified # Never
        BY <1>3, <3>1, <3>2
      <4>2. Condition(k)' = conditions'[k]
        BY <3>2 DEF Condition
      <4> QED BY <4>1, <4>2
    <3>3. CASE k \notin DOMAIN conditions'
      BY <1>3, <1>5, <3>1, <3>3
    <3> QED BY <3>2, <3>3
  <2>2. CASE k \in ToSet(resolved) \cup dropped
    BY <1>3, <2>2
  <2> QED BY <2>1, <2>2 DEF TellInv, ToldIsTracked
<1>10. ToldIsTracked'
  BY <1>1, <1>8, <1>9 DEF ToldIsTracked
<1> QED BY <1>1, <1>3, <1>6, <1>7, <1>10 DEF TellInv, NoOrphanRecovery

\* The message under way is of what is due and of all recoveries queued.
LEMMA MessageFacts ==
  ASSUME TellInv, NEW m \in message
  PROVE  /\ m.keys = Due(conditions) /\ m.resolved = resolved
         /\ m.keys \subseteq DOMAIN conditions /\ \A k \in m.keys : conditions[k].firing
<1>1. m = [keys |-> Due(conditions), resolved |-> resolved]
  BY DEF TellInv, MessageInv
<1>2. Due(conditions) \subseteq DOMAIN conditions /\ \A k \in Due(conditions) : conditions[k].firing
  BY DEF Due
<1> QED BY <1>1, <1>2

LEMMA TellSent ==
  ASSUME TellInv, NEW m, Sent(m)
  PROVE  TellInv'
<1>1. /\ m \in message /\ message' = {} /\ UNCHANGED <<dropped, faults>>
      /\ chat' = (chat \ ToSet(m.resolved)) \cup m.keys
      /\ orphan' = (orphan \/ ~(ToSet(m.resolved) \subseteq chat \cup doubt))
      /\ doubt' = doubt \ (m.keys \cup ToSet(m.resolved))
      /\ conditions' = [k \in DOMAIN conditions |->
                      IF k \in m.keys THEN [conditions[k] EXCEPT !.notified = 0] ELSE conditions[k]]
      /\ resolved' = SubSeq(resolved, Len(m.resolved) + 1, Len(resolved))
  BY DEF Sent, Shown, mark_sent
<1>2. /\ m.keys = Due(conditions) /\ m.resolved = resolved
      /\ m.keys \subseteq DOMAIN conditions /\ \A k \in m.keys : conditions[k].firing
  BY <1>1, MessageFacts
<1>3. /\ DOMAIN conditions \subseteq Key /\ conditions \in [DOMAIN conditions -> CondRec]
      /\ resolved \in Seq(Key) /\ faults \in Nat
  BY DEF TellInv, Types
<1>4. resolved' = <<>> /\ ToSet(resolved') = {}
  <2>1. resolved' = <<>>
    BY <1>1, <1>2, <1>3
  <2> QED BY <2>1 DEF ToSet
<1>5. /\ DOMAIN conditions' = DOMAIN conditions
      /\ \A k \in DOMAIN conditions :
           /\ conditions'[k] \in CondRec
           /\ conditions'[k].firing = conditions[k].firing
           /\ conditions'[k].notified = IF k \in m.keys THEN 0 ELSE conditions[k].notified
  <2>1. \A c \in CondRec : /\ [c EXCEPT !.notified = 0] \in CondRec
                           /\ [c EXCEPT !.notified = 0].firing = c.firing
                           /\ [c EXCEPT !.notified = 0].notified = 0
    BY DEF CondRec
  <2> QED BY <1>1, <1>3, <2>1
<1>6. conditions' \in [DOMAIN conditions' -> CondRec]
  BY <1>1, <1>5
<1>7. Types' /\ MessageInv' /\ QueueInv'
  BY <1>1, <1>3, <1>4, <1>5, <1>6 DEF Types, MessageInv, QueueInv
<1>8. NoOrphanRecovery'
  BY <1>1, <1>2 DEF TellInv, NoOrphanRecovery, QueueInv
<1>9. ASSUME NEW k \in DOMAIN conditions', conditions'[k].notified # Never PROVE k \in chat'
  <2>1. CASE k \in m.keys
    BY <1>1, <2>1
  <2>2. CASE k \notin m.keys
    <3>1. conditions[k].notified # Never /\ k \in DOMAIN conditions
      BY <1>5, <1>9, <2>2
    <3>2. k \in chat /\ k \notin ToSet(resolved)
      BY <3>1 DEF TellInv, ToldIsTracked, QueueInv
    <3> QED BY <1>1, <1>2, <3>2
  <2> QED BY <2>1, <2>2
<1>10. ASSUME NEW k \in chat' \ doubt'
       PROVE  (Condition(k)'.firing /\ Condition(k)'.notified # Never) \/ k \in dropped'
  <2>0. 0 # Never
    BY DEF Never
  <2>1. CASE k \in m.keys
    <3>1. conditions'[k].firing /\ conditions'[k].notified # Never /\ k \in DOMAIN conditions'
      BY <1>2, <1>5, <2>0, <2>1
    <3> QED BY <3>1 DEF Condition
  <2>2. CASE k \notin m.keys
    <3>1. k \in chat \ doubt /\ k \notin ToSet(resolved)
      BY <1>1, <1>2, <2>2
    <3>2. CASE k \in dropped
      BY <1>1, <3>2
    <3>3. CASE Condition(k).firing /\ Condition(k).notified # Never
      <4>1. k \in DOMAIN conditions /\ conditions[k].firing /\ conditions[k].notified # Never
        BY <3>3 DEF Condition, NoCondition
      <4>2. conditions'[k].firing /\ conditions'[k].notified # Never /\ k \in DOMAIN conditions'
        BY <1>5, <2>2, <4>1
      <4> QED BY <4>2 DEF Condition
    <3> QED BY <3>1, <3>2, <3>3 DEF TellInv, ToldIsTracked
  <2> QED BY <2>1, <2>2
<1>11. ToldIsTracked'
  BY <1>9, <1>10 DEF ToldIsTracked
<1> QED BY <1>7, <1>8, <1>11 DEF TellInv

LEMMA TellSendFails ==
  ASSUME TellInv, NEW m, SendFails(m)
  PROVE  TellInv'
<1>1. /\ m \in message /\ message' = {} /\ UNCHANGED <<conditions, resolved, dropped>> /\ faults' = faults + 1
      /\ \/ UNCHANGED <<chat, orphan, doubt>>
         \/ /\ chat' = (chat \ ToSet(m.resolved)) \cup m.keys
            /\ orphan' = (orphan \/ ~(ToSet(m.resolved) \subseteq chat \cup doubt))
            /\ doubt' = doubt \cup m.keys \cup ToSet(m.resolved)
  BY DEF SendFails, Shown, engine
<1>2. m.resolved = resolved
  BY <1>1, MessageFacts
<1>3. Types' /\ MessageInv'
  <2>1. faults' \in Nat
    BY <1>1 DEF TellInv, Types
  <2> QED BY <1>1, <2>1 DEF TellInv, Types, MessageInv
<1>4. CASE UNCHANGED <<chat, orphan, doubt>>
  BY <1>1, <1>3, <1>4 DEF TellInv, QueueInv, NoOrphanRecovery, ToldIsTracked, Condition
<1>5. CASE /\ chat' = (chat \ ToSet(resolved)) \cup m.keys
           /\ orphan' = (orphan \/ ~(ToSet(resolved) \subseteq chat \cup doubt))
           /\ doubt' = doubt \cup m.keys \cup ToSet(resolved)
  <2>1. QueueInv'
    BY <1>1, <1>5 DEF TellInv, QueueInv
  <2>2. NoOrphanRecovery'
    BY <1>5 DEF TellInv, NoOrphanRecovery, QueueInv
  <2>3. \A k \in DOMAIN conditions : conditions[k].notified # Never => k \in chat'
    BY <1>5 DEF TellInv, ToldIsTracked, QueueInv
  <2>4. chat' \ doubt' \subseteq chat \ doubt
    BY <1>5
  <2>5. \A k : Condition(k)' = Condition(k)
    BY <1>1 DEF Condition
  <2>6. ToldIsTracked'
    BY <1>1, <2>3, <2>4, <2>5 DEF TellInv, ToldIsTracked
  <2> QED BY <1>3, <2>1, <2>2, <2>6 DEF TellInv
<1> QED BY <1>1, <1>2, <1>4, <1>5

LEMMA TellNext == TellInv /\ [Next]_vars => TellInv'
<1> SUFFICES ASSUME TellInv, [Next]_vars PROVE TellInv'
  OBVIOUS
<1>1. ASSUME NEW i \in Inputs, Round(i) PROVE TellInv'
  BY <1>1, TellRound
<1>2. CASE Push
  BY <1>2, TellSent, TellSendFails DEF Push
<1>3. CASE (\E k \in Growing : Grow(k) \/ PeerRestart(k)) \/ UNCHANGED vars
  <2>1. /\ UNCHANGED <<conditions, resolved, message, chat, doubt, dropped, orphan>>
        /\ faults' \in Nat
    BY <1>3 DEF Grow, PeerRestart, vars, engine, delivery, history, TellInv, Types
  <2> QED BY <2>1 DEF TellInv, Types, MessageInv, QueueInv, NoOrphanRecovery, ToldIsTracked, Condition
<1>4. CASE ConsoleRestart
  <2>1. /\ conditions' = NoConditions /\ resolved' = <<>> /\ message' = {} /\ chat' = {}
        /\ orphan' = orphan /\ faults' \in Nat
    BY <1>4 DEF ConsoleRestart, TellInv, Types
  <2>2. DOMAIN conditions' = {} /\ conditions' \in [DOMAIN conditions' -> CondRec] /\ ToSet(resolved') = {}
    BY <2>1 DEF NoConditions, ToSet
  <2> QED BY <2>1, <2>2 DEF TellInv, Types, MessageInv, QueueInv, NoOrphanRecovery, ToldIsTracked
<1> QED BY <1>1, <1>2, <1>3, <1>4 DEF Next

\* The chat is never told that something is over which does not stand in it as
\* fired, but for the repetition of a message whose answer was lost: through
\* failed pushes, alerts that fire again before their recovery is told, the
\* limit on recoveries and restarts (observe, pending_message, mark_sent).
THEOREM NoOrphanRecoveryHolds == Spec => []NoOrphanRecovery
<1>1. TellInv => NoOrphanRecovery
  BY DEF TellInv
<1> QED BY <1>1, TellInit, TellNext, PTL DEF Spec

\* Engine and chat agree: what counts as told was told, and what the chat was
\* told is held as firing or as a recovery to tell, short of the limit and of
\* lost answers (observe, mark_sent, run_alerts).
THEOREM ToldIsTrackedHolds == Spec => []ToldIsTracked
<1>1. TellInv => ToldIsTracked
  BY DEF TellInv
<1> QED BY <1>1, TellInit, TellNext, PTL DEF Spec

\* A tinyuma alert that fires ends in no round without data on tinyuma, short
\* of a restart (observe: a rule that was not looked at stays as it is).
THEOREM NoDataNoRecoveryHolds == Spec => NoDataNoRecovery
<1> DEFINE P == \A k \in DOMAIN conditions :
                  k[1] \in UpRule /\ conditions[k].firing /\ k \notin DOMAIN conditions'
                  => input'.fresh \/ faults' # faults
<1>1. TellInv /\ [Next]_vars => [P]_vars
  <2> SUFFICES ASSUME TellInv, Next PROVE P
    OBVIOUS
  <2> SUFFICES ASSUME NEW k \in DOMAIN conditions, k[1] \in UpRule, conditions[k].firing,
                      k \notin DOMAIN conditions'
               PROVE  input'.fresh \/ faults' # faults
    OBVIOUS
  <2>1. ASSUME NEW i \in Inputs, Round(i) PROVE input'.fresh
    <3>1. k[1] \in evaluated(i) /\ input' = i
      BY <2>1, RoundFacts DEF TellInv, Round
    <3>2. UpRule \cap (EdgeRule \cup OwnRule) = {}
      BY DEF UpRule, UpCounter, EdgeRule, EdgeCounter, OwnRule
    <3> QED BY <3>1, <3>2 DEF evaluated
  <2>2. CASE Push
    <3>1. DOMAIN conditions' = DOMAIN conditions
      BY <2>2 DEF Push, Sent, SendFails, mark_sent, engine
    <3> QED BY <3>1
  <2>3. CASE \E g \in Growing : Grow(g) \/ PeerRestart(g)
    BY <2>3 DEF Grow, PeerRestart, engine
  <2>4. CASE ConsoleRestart
    BY <2>4 DEF ConsoleRestart, TellInv, Types
  <2> QED BY <2>1, <2>2, <2>3, <2>4 DEF Next
<1> QED BY <1>1, TellInit, TellNext, PTL DEF Spec, NoDataNoRecovery

-----------------------------------------------------------------------------
(* What the counters did *)

Sample == [age : Nat, value : Nat, real : Nat]

\* What increase takes the step from one sample to the next for.
StepUp(a, b) == IF b.value < a.value THEN b.value ELSE b.value - a.value

\* The counter went on from the sample, or started again since.
Follows(e, c, r) == e.real <= r /\ (c - e.value = r - e.real \/ c <= r - e.real)

\* The samples of a counter that stands at c after growing by r in all: oldest
\* first, no step taken for more than the counter grew.
SeriesOk(s, c, r) ==
  /\ s \in Seq(Sample)
  /\ \A i \in 1..Len(s) : s[i].age <= Keep + 1
  /\ \A i, j \in 1..Len(s) : i <= j => s[j].age <= s[i].age
  /\ \A i, j \in 1..Len(s) : j = i + 1 => StepUp(s[i], s[j]) <= s[j].real - s[i].real
  /\ s # <<>> => Follows(s[Len(s)], c, r)

SeriesInv ==
  /\ count \in [CounterKey -> Nat] /\ real \in [CounterKey -> Nat]
  /\ \A k \in CounterKey : SeriesOk(series[k], count[k], real[k])

LEMMA SampleFields == \A e \in Sample : e.age \in Nat /\ e.value \in Nat /\ e.real \in Nat
  BY DEF Sample

\* Some samples from one on.
LEMMA SuffixOk ==
  ASSUME NEW c \in Nat, NEW r \in Nat, NEW s, SeriesOk(s, c, r), NEW d \in 0..Len(s), d < Len(s)
  PROVE  SeriesOk(SubSeq(s, d + 1, Len(s)), c, r)
<1> DEFINE n == Len(s)
           q == SubSeq(s, d + 1, n)
<1>1. n \in Nat /\ d \in Nat /\ n - d > 0 /\ s \in Seq(Sample)
  BY DEF SeriesOk
<1>2. q \in Seq(Sample) /\ Len(q) = n - d /\ \A i \in 1..(n - d) : q[i] = s[d + i]
  BY <1>1
<1>3. \A i \in 1..(n - d) : d + i \in 1..n
  BY <1>1
<1>4. \A i, j \in 1..(n - d) : (i <= j => d + i <= d + j) /\ (j = i + 1 => d + j = (d + i) + 1)
  BY <1>1
<1> HIDE DEF q
<1>5. \A i \in 1..Len(q) : q[i].age <= Keep + 1
  BY <1>2, <1>3 DEF SeriesOk
<1>6. ASSUME NEW i \in 1..Len(q), NEW j \in 1..Len(q), i <= j PROVE q[j].age <= q[i].age
  <2>1. /\ i \in 1..(n - d) /\ j \in 1..(n - d) /\ d + i \in 1..n /\ d + j \in 1..n
        /\ d + i <= d + j
    BY <1>2, <1>3, <1>4, <1>6
  <2>2. s[d + j].age <= s[d + i].age
    BY <2>1 DEF SeriesOk
  <2> QED BY <1>2, <2>1, <2>2
<1>7. \A i, j \in 1..Len(q) : j = i + 1 => StepUp(q[i], q[j]) <= q[j].real - q[i].real
  BY <1>2, <1>3, <1>4 DEF SeriesOk
<1>8. Follows(q[Len(q)], c, r)
  <2>1. n - d \in 1..(n - d) /\ d + (n - d) = n
    BY <1>1
  <2>2. q[n - d] = s[n]
    BY <1>2, <2>1
  <2>3. Follows(s[n], c, r)
    BY <1>1 DEF SeriesOk
  <2> QED BY <1>2, <2>2, <2>3
<1> QED BY <1>2, <1>5, <1>6, <1>7, <1>8 DEF SeriesOk, q

\* One more sample.
LEMMA AppendOk ==
  ASSUME NEW c \in Nat, NEW r \in Nat, NEW s, SeriesOk(s, c, r)
  PROVE  SeriesOk(Append(s, [age |-> 0, value |-> c, real |-> r]), c, r)
<1> DEFINE e == [age |-> 0, value |-> c, real |-> r]
           n == Len(s)
           q == Append(s, e)
<1>1. e \in Sample /\ e.age = 0 /\ e.value = c /\ e.real = r
  BY DEF Sample
<1>2. s \in Seq(Sample) /\ n \in Nat
  BY DEF SeriesOk
<1> HIDE DEF e
<1>3. q \in Seq(Sample) /\ Len(q) = n + 1 /\ q[n + 1] = e /\ \A i \in 1..n : q[i] = s[i]
  BY <1>1, <1>2
<1>4. \A i \in 1..(n + 1) : i \in 1..n \/ i = n + 1
  BY <1>2
<1>5. \A i \in 1..(n + 1) : q[i] \in Sample /\ q[i].age \in Nat /\ q[i].value \in Nat /\ q[i].real \in Nat
  <2>1. \A i \in 1..(n + 1) : q[i] \in Sample
    BY <1>3, <1>2
  <2> QED BY <2>1, SampleFields
<1>6. Keep + 1 \in Nat
  BY AlertsAssumption
<1> HIDE DEF q
<1>7. \A i \in 1..Len(q) : q[i].age <= Keep + 1
  BY <1>1, <1>3, <1>4, <1>6 DEF SeriesOk
<1>8. ASSUME NEW i \in 1..Len(q), NEW j \in 1..Len(q), i <= j PROVE q[j].age <= q[i].age
  <2>1. CASE j = n + 1
    BY <1>1, <1>3, <1>5, <2>1
  <2>2. CASE j # n + 1
    <3>1. i \in 1..n /\ j \in 1..n
      BY <1>2, <1>3, <1>8, <2>2
    <3> QED BY <1>3, <1>8, <3>1 DEF SeriesOk
  <2> QED BY <2>1, <2>2
<1>9. ASSUME NEW i \in 1..Len(q), NEW j \in 1..Len(q), j = i + 1
      PROVE  StepUp(q[i], q[j]) <= q[j].real - q[i].real
  <2>1. CASE j = n + 1
    <3>1. i = n /\ n \in 1..n /\ s # <<>>
      BY <1>2, <1>3, <1>9, <2>1
    <3>2. Follows(s[n], c, r)
      BY <3>1 DEF SeriesOk
    <3>3. q[i] = s[n] /\ q[j] = e /\ s[n].value \in Nat /\ s[n].real \in Nat
      BY <1>3, <1>5, <2>1, <3>1
    <3> DEFINE v == s[n].value
               l == s[n].real
    <3>4. l <= r /\ (c - v = r - l \/ c <= r - l)
      BY <3>2 DEF Follows
    <3> HIDE DEF v, l
    <3>5. v \in Nat /\ l \in Nat
      BY <3>3 DEF v, l
    <3>6. (IF c < v THEN c ELSE c - v) <= r - l
      BY <3>4, <3>5
    <3>7. StepUp(q[i], q[j]) = IF c < v THEN c ELSE c - v
      BY <1>1, <3>3 DEF StepUp, v
    <3> QED BY <1>1, <3>3, <3>6, <3>7 DEF l
  <2>2. CASE j # n + 1
    <3>1. i \in 1..n /\ j \in 1..n
      BY <1>2, <1>3, <1>9, <2>2
    <3> QED BY <1>3, <1>9, <3>1 DEF SeriesOk
  <2> QED BY <2>1, <2>2
<1>10. Follows(q[Len(q)], c, r)
  BY <1>1, <1>3 DEF Follows
<1> QED BY <1>3, <1>7, <1>8, <1>9, <1>10 DEF SeriesOk, q, e

\* A round makes all samples older.
Aging(s) == [i \in DOMAIN s |-> [s[i] EXCEPT !.age = Older(@, Keep + 1)]]

LEMMA AgingOk ==
  ASSUME NEW c \in Nat, NEW r \in Nat, NEW s, SeriesOk(s, c, r)
  PROVE  SeriesOk(Aging(s), c, r) /\ Len(Aging(s)) = Len(s)
<1> DEFINE n == Len(s)
           q == Aging(s)
<1>1. s \in Seq(Sample) /\ n \in Nat /\ DOMAIN s = 1..n /\ Keep + 1 \in Nat
  BY AlertsAssumption DEF SeriesOk
<1>2. \A e \in Sample : /\ [e EXCEPT !.age = Older(@, Keep + 1)] \in Sample
                        /\ [e EXCEPT !.age = Older(@, Keep + 1)].age = Older(e.age, Keep + 1)
                        /\ [e EXCEPT !.age = Older(@, Keep + 1)].value = e.value
                        /\ [e EXCEPT !.age = Older(@, Keep + 1)].real = e.real
  BY <1>1 DEF Sample, Older, Never
<1>3. /\ q \in [1..n -> Sample]
      /\ \A i \in 1..n : /\ q[i].age = Older(s[i].age, Keep + 1)
                         /\ q[i].value = s[i].value /\ q[i].real = s[i].real
                         /\ s[i].age \in Nat
  <2>1. \A i \in 1..n : s[i] \in Sample
    BY <1>1
  <2>2. q = [i \in 1..n |-> [s[i] EXCEPT !.age = Older(@, Keep + 1)]]
    BY <1>1 DEF Aging
  <2> HIDE DEF q
  <2> QED BY <1>2, <2>1, <2>2, SampleFields
<1>4. q \in Seq(Sample) /\ Len(q) = n
  BY <1>1, <1>3
<1> HIDE DEF q
<1>5. \A a, b \in 0..(Keep + 1) : /\ Older(a, Keep + 1) <= Keep + 1
                                  /\ a <= b => Older(a, Keep + 1) <= Older(b, Keep + 1)
  BY <1>1 DEF Older, Never
<1>6. \A i \in 1..n : s[i].age \in 0..(Keep + 1)
  BY <1>1, <1>3 DEF SeriesOk
<1>7. \A i \in 1..Len(q) : q[i].age <= Keep + 1
  BY <1>3, <1>4, <1>5, <1>6
<1>8. \A i, j \in 1..Len(q) : i <= j => q[j].age <= q[i].age
  BY <1>3, <1>4, <1>5, <1>6 DEF SeriesOk
<1>9. \A i, j \in 1..Len(q) : j = i + 1 => StepUp(q[i], q[j]) <= q[j].real - q[i].real
  BY <1>3, <1>4 DEF SeriesOk, StepUp
<1>10. q # <<>> => Follows(q[Len(q)], c, r)
  <2> SUFFICES ASSUME q # <<>> PROVE Follows(q[Len(q)], c, r)
    OBVIOUS
  <2>1. n \in 1..n /\ s # <<>>
    BY <1>1, <1>4
  <2> QED BY <1>3, <1>4, <2>1 DEF SeriesOk, Follows
<1> QED BY <1>4, <1>7, <1>8, <1>9, <1>10 DEF SeriesOk, q

LEMMA PushOk ==
  ASSUME NEW k, count[k] \in Nat, real[k] \in Nat, NEW s, SeriesOk(s, count[k], real[k]), NEW fresh \in BOOLEAN
  PROVE  SeriesOk(push(s, fresh, k), count[k], real[k])
<1> DEFINE aged == Aging(s)
           all == Append(aged, [age |-> 0, value |-> count[k], real |-> real[k]])
           old == {n \in 0..Len(s) : \A i \in 1..n : aged[i].age > Keep}
           d == Max(old)
<1>1. push(s, fresh, k) = IF fresh THEN SubSeq(all, d + 1, Len(all))
                          ELSE IF aged # <<>> /\ Last(aged).age > Keep THEN <<>> ELSE aged
  BY DEF push, Aging
<1>2. SeriesOk(aged, count[k], real[k]) /\ Len(aged) = Len(s)
  BY AgingOk
<1>3. SeriesOk(all, count[k], real[k])
  BY <1>2, AppendOk
<1>4. Len(s) \in Nat /\ Len(all) = Len(s) + 1
  BY <1>2 DEF SeriesOk
<1>5. SeriesOk(<<>>, count[k], real[k])
  BY DEF SeriesOk
<1>6. d \in 0..Len(s)
  <2>1. 0 \in old /\ old \subseteq 0..Len(s)
    BY <1>4
  <2> HIDE DEF old
  <2> QED BY <1>4, <2>1, MaxUpTo
<1> HIDE DEF aged, all, d
<1>7. SeriesOk(SubSeq(all, d + 1, Len(all)), count[k], real[k])
  <2>1. d \in 0..Len(all) /\ d < Len(all)
    BY <1>4, <1>6
  <2> QED BY <1>3, <2>1, SuffixOk
<1> QED BY <1>1, <1>2, <1>5, <1>7

LEMMA SeriesNext == SeriesInv /\ [Next]_vars => SeriesInv'
<1> SUFFICES ASSUME SeriesInv, [Next]_vars PROVE SeriesInv'
  OBVIOUS
<1>0. CounterKey = Growing
  BY DEF CounterKey
<1>1. ASSUME NEW i \in Inputs, Round(i) PROVE SeriesInv'
  <2>1. UNCHANGED <<count, real>> /\ series' = [k \in CounterKey |-> push(series[k], k \in Sampled(i), k)]
    BY <1>1 DEF Round
  <2>2. ASSUME NEW k \in CounterKey PROVE SeriesOk(push(series[k], k \in Sampled(i), k), count[k], real[k])
    <3> DEFINE fr == k \in Sampled(i)
    <3>1. fr \in BOOLEAN
      OBVIOUS
    <3>2. count[k] \in Nat /\ real[k] \in Nat /\ SeriesOk(series[k], count[k], real[k])
      BY DEF SeriesInv
    <3> HIDE DEF fr
    <3>3. SeriesOk(push(series[k], fr, k), count[k], real[k])
      BY <3>1, <3>2, PushOk
    <3> QED BY <3>3 DEF fr
  <2> QED BY <2>1, <2>2 DEF SeriesInv
<1>2. CASE Push \/ UNCHANGED vars
  BY <1>2 DEF Push, Sent, SendFails, vars, engine, history, SeriesInv
<1>3. ASSUME NEW k \in Growing, Grow(k) \/ PeerRestart(k) PROVE SeriesInv'
  <2>1. series' = series
    BY <1>3 DEF Grow, PeerRestart, engine
  <2>2. /\ count' \in [CounterKey -> Nat] /\ real' \in [CounterKey -> Nat]
        /\ \A l \in CounterKey : l # k => count'[l] = count[l] /\ real'[l] = real[l]
        /\ \/ count'[k] = count[k] + 1 /\ real'[k] = real[k] + 1
           \/ count'[k] = 0 /\ real'[k] = real[k]
    BY <1>0, <1>3 DEF Grow, PeerRestart, history, SeriesInv
  <2>3. ASSUME NEW e \in Sample, Follows(e, count[k], real[k]) PROVE Follows(e, count'[k], real'[k])
    <3>1. count[k] \in Nat /\ real[k] \in Nat /\ e.value \in Nat /\ e.real \in Nat
      BY <1>0 DEF SeriesInv, Sample
    <3> QED BY <2>2, <2>3, <3>1 DEF Follows
  <2>4. SeriesOk(series[k], count'[k], real'[k])
    <3>1. SeriesOk(series[k], count[k], real[k])
      BY <1>0 DEF SeriesInv
    <3>2. series[k] # <<>> => series[k][Len(series[k])] \in Sample
      BY <3>1 DEF SeriesOk
    <3> QED BY <2>3, <3>1, <3>2 DEF SeriesOk
  <2>5. \A l \in CounterKey : l # k => SeriesOk(series[l], count'[l], real'[l])
    BY <2>2 DEF SeriesInv
  <2> QED BY <2>1, <2>2, <2>4, <2>5 DEF SeriesInv
<1>4. CASE ConsoleRestart
  <2>1. UNCHANGED <<count, real>> /\ series' = [k \in CounterKey |-> <<>>]
    BY <1>4 DEF ConsoleRestart, NoSeries
  <2>2. \A c, r : SeriesOk(<<>>, c, r)
    BY DEF SeriesOk
  <2> QED BY <2>1, <2>2 DEF SeriesInv
<1> QED BY <1>1, <1>2, <1>3, <1>4 DEF Next

LEMMA SeriesInit == Init => SeriesInv
<1>1. \A c, r : SeriesOk(<<>>, c, r)
  BY DEF SeriesOk
<1> QED BY <1>1 DEF Init, SeriesInv, NoSeries

\* The recursion of increase: what the i-th sample adds, and the sums.
Added(s, w, i) == IF s[i].age > w THEN 0 ELSE StepUp(s[i - 1], s[i])
SumStep(f, s, w, i) == IF i < 2 THEN 0 ELSE f[i - 1] + Added(s, w, i)

LEMMA SumsExist ==
  ASSUME NEW s, NEW w, NEW n \in Nat
  PROVE  \E f : f = [i \in 0..n |-> SumStep(f, s, w, i)]
<1> DEFINE S == {m \in Nat : \E f : f = [i \in 0..m |-> SumStep(f, s, w, i)]}
<1>1. 0 \in S
  <2> DEFINE f == [i \in 0..0 |-> 0]
  <2>1. \A i \in 0..0 : SumStep(f, s, w, i) = 0
    BY DEF SumStep
  <2>2. f = [i \in 0..0 |-> SumStep(f, s, w, i)]
    BY <2>1
  <2> QED BY <2>2
<1>2. ASSUME NEW m \in Nat, m \in S PROVE m + 1 \in S
  <2>1. PICK f : f = [i \in 0..m |-> SumStep(f, s, w, i)]
    BY <1>2
  <2> DEFINE g == [i \in 0..(m + 1) |-> IF i \in 0..m THEN f[i] ELSE SumStep(f, s, w, i)]
  <2>2. \A i \in 0..(m + 1) : g[i] = SumStep(f, s, w, i)
    BY <2>1
  <2>3. \A i \in 0..(m + 1) : ~(i < 2) => i - 1 \in 0..m
    OBVIOUS
  <2>4. \A i \in 0..m : g[i] = f[i]
    OBVIOUS
  <2>5. g = [i \in 0..(m + 1) |-> g[i]]
    OBVIOUS
  <2> HIDE DEF g
  <2>6. \A i \in 0..(m + 1) : g[i] = SumStep(g, s, w, i)
    BY <2>2, <2>3, <2>4 DEF SumStep
  <2>7. g = [i \in 0..(m + 1) |-> SumStep(g, s, w, i)]
    BY <2>5, <2>6
  <2> QED BY <2>7
<1> HIDE DEF S
<1>3. n \in S
  BY <1>1, <1>2, SetInduction
<1> QED BY <1>3 DEF S

\* The sum over the window is at most what the counter grew since the last
\* sample before it.
LEMMA IncreaseBound ==
  ASSUME NEW c \in Nat, NEW r \in Nat, NEW s, SeriesOk(s, c, r), s # <<>>, NEW w \in Nat,
         NEW base \in 1..Len(s),
         base = 1 \/ s[base].age > w,
         \A i \in 1..Len(s) : s[i].age > w => i <= base
  PROVE  increase(s, w) <= s[Len(s)].real - s[base].real
<1> DEFINE n == Len(s)
           f == CHOOSE f : f = [i \in 0..n |-> SumStep(f, s, w, i)]
<1>1. increase(s, w) = f[n]
  BY DEF increase, SumStep, Added, StepUp
<1>2. s \in Seq(Sample) /\ n \in Nat /\ n >= 1
  BY DEF SeriesOk
<1>3. f = [i \in 0..n |-> SumStep(f, s, w, i)]
  BY <1>2, SumsExist
<1> HIDE DEF f
<1>4. \A i \in 0..n : f[i] = SumStep(f, s, w, i)
  BY <1>3
<1>5. \A i \in 1..n : s[i].age \in Nat /\ s[i].value \in Nat /\ s[i].real \in Nat
  <2>1. \A i \in 1..n : s[i] \in Sample
    BY <1>2
  <2> QED BY <2>1, SampleFields
<1> DEFINE I == {m \in Nat : m \in 1..n =>
                   f[m] \in Int /\ f[m] <= IF m <= base THEN 0 ELSE s[m].real - s[base].real}
<1>6. 0 \in I
  OBVIOUS
<1>7. ASSUME NEW m \in Nat, m \in I PROVE m + 1 \in I
  <2> SUFFICES ASSUME m + 1 \in 1..n
               PROVE  /\ f[m + 1] \in Int
                      /\ f[m + 1] <= IF m + 1 <= base THEN 0 ELSE s[m + 1].real - s[base].real
    OBVIOUS
  <2>1. CASE m = 0
    <3>1. f[1] = 0
      BY <1>2, <1>4 DEF SumStep
    <3> QED BY <2>1, <3>1
  <2>2. CASE m # 0
    <3>1. m \in 1..n /\ m + 1 \in 0..n /\ (m + 1) - 1 = m /\ ~(m + 1 < 2)
      BY <1>2, <2>2
    <3>2. f[m] \in Int /\ f[m] <= IF m <= base THEN 0 ELSE s[m].real - s[base].real
      BY <1>7, <3>1
    <3>3. f[m + 1] = f[m] + Added(s, w, m + 1)
      BY <1>4, <3>1 DEF SumStep
    <3>4. StepUp(s[m], s[m + 1]) \in Nat /\ StepUp(s[m], s[m + 1]) <= s[m + 1].real - s[m].real
      <4>1. StepUp(s[m], s[m + 1]) <= s[m + 1].real - s[m].real
        BY <3>1 DEF SeriesOk
      <4>2. StepUp(s[m], s[m + 1]) \in Nat
        BY <1>5, <3>1 DEF StepUp
      <4> QED BY <4>1, <4>2
    <3>5. Added(s, w, m + 1) = IF s[m + 1].age > w THEN 0 ELSE StepUp(s[m], s[m + 1])
      BY <3>1 DEF Added
    <3>6. CASE m + 1 <= base
      <4>1. s[base].age > w
        BY <1>2, <2>2, <3>6
      <4>2. s[base].age <= s[m + 1].age
        BY <3>1, <3>6 DEF SeriesOk
      <4>3. s[m + 1].age > w
        BY <1>5, <3>1, <4>1, <4>2
      <4>4. m <= base
        BY <3>6
      <4> QED BY <3>2, <3>3, <3>5, <3>6, <4>3, <4>4
    <3>7. CASE ~(m + 1 <= base)
      <4>1. ~(s[m + 1].age > w)
        BY <3>7
      <4>2. f[m + 1] = f[m] + StepUp(s[m], s[m + 1])
        BY <3>3, <3>5, <4>1
      <4>3. f[m] <= s[m].real - s[base].real
        <5>1. CASE m <= base
          <6>1. m = base
            BY <3>7, <5>1
          <6> QED BY <1>5, <3>2, <5>1, <6>1
        <5>2. CASE ~(m <= base)
          BY <3>2, <5>2
        <5> QED BY <5>1, <5>2
      <4> QED BY <1>5, <3>1, <3>2, <3>4, <3>7, <4>2, <4>3
    <3> QED BY <3>6, <3>7
  <2> QED BY <2>1, <2>2
<1> HIDE DEF I
<1>8. n \in I
  BY <1>2, <1>6, <1>7, SetInduction
<1>9. f[n] <= IF n <= base THEN 0 ELSE s[n].real - s[base].real
  BY <1>2, <1>8 DEF I
<1>10. n <= base => n = base
  BY <1>2
<1> QED BY <1>1, <1>2, <1>5, <1>9, <1>10

\* A counter alert has a reason: what increase finds in a window is at most what
\* the counter really grew since the last sample before it, whoever restarted
\* and whichever samples are missing (Series::push, Series::increase).
THEOREM GrowthIsRealHolds == Spec => []GrowthIsReal
<1>1. SeriesInv => GrowthIsReal
  <2> SUFFICES ASSUME SeriesInv, NEW k \in CounterKey, series[k] # <<>>
               PROVE  LET s == series[k]
                          before == {i \in DOMAIN s : s[i].age > Window[k[1]]}
                          base == IF before = {} THEN 1 ELSE Max(before)
                      IN increase(s, Window[k[1]]) <= Last(s).real - s[base].real
    BY DEF GrowthIsReal
  <2> DEFINE s == series[k]
             w == Window[k[1]]
             before == {i \in DOMAIN s : s[i].age > w}
             base == IF before = {} THEN 1 ELSE Max(before)
  <2>1. w \in Nat
    BY AlertsAssumption DEF CounterKey
  <2>2. count[k] \in Nat /\ real[k] \in Nat /\ SeriesOk(s, count[k], real[k])
    BY DEF SeriesInv
  <2>3. Len(s) \in Nat /\ Len(s) >= 1 /\ DOMAIN s = 1..Len(s)
    BY <2>2 DEF SeriesOk
  <2> HIDE DEF s, w
  <2>4. before \subseteq 0..Len(s) /\ \A i \in before : i \in 1..Len(s) /\ s[i].age > w
    BY <2>3
  <2>5. \A i \in 1..Len(s) : s[i].age > w => i \in before
    BY <2>3
  <2> HIDE DEF before
  <2>6. before # {} => Max(before) \in before /\ \A y \in before : y <= Max(before)
    BY <2>3, <2>4, MaxUpTo
  <2>7. /\ base \in 1..Len(s) /\ (base = 1 \/ s[base].age > w)
        /\ \A i \in 1..Len(s) : s[i].age > w => i <= base
    <3>1. CASE before = {}
      <4>1. base = 1
        BY <3>1
      <4> QED BY <2>3, <2>5, <3>1, <4>1
    <3>2. CASE before # {}
      <4>1. base \in before /\ \A y \in before : y <= base
        BY <2>6, <3>2
      <4> HIDE DEF base
      <4> QED BY <2>4, <2>5, <4>1
    <3> QED BY <3>1, <3>2
  <2>8. s # <<>>
    BY DEF s
  <2> HIDE DEF base
  <2>9. increase(s, w) <= s[Len(s)].real - s[base].real
    BY <2>1, <2>2, <2>7, <2>8, IncreaseBound
  <2> QED BY <2>9 DEF s, w, before, base, Last
<1> QED BY <1>1, SeriesInit, SeriesNext, PTL DEF Spec
=============================================================================
