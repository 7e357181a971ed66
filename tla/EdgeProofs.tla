----------------------------- MODULE EdgeProofs -----------------------------
(***************************************************************************)
(* Theorems about uma-edge: the hub and its client sessions (EdgeHub), for *)
(* any number of subscriptions, tokens, frames and capacities, and how it  *)
(* stops serving (EdgeDrain), for any number of clients and drain tasks.   *)
(***************************************************************************)
EXTENDS EdgeHub, EdgeDrain, TLAPS

\* The ring holds the newest frames, consecutively numbered.
RingContiguous ==
  /\ Len(ring) <= RingCapacity
  /\ Len(ring) < nextOffset
  /\ Consecutive(ring, nextOffset - Len(ring))

\* Before subscribe there is nothing of a subscription; it is registered only
\* after subscribe.
Fresh ==
  \A i \in Sub :
    /\ start[i] = 0 <=> writer[i] = "none"
    /\ writer[i] = "none" => /\ i \notin subs
                             /\ got[i] = <<>> /\ replay[i] = <<>> /\ rx[i] = <<>>

\* The inductive invariant.
Inv == TypeOK /\ RingContiguous /\ Fresh /\ Gapless

-----------------------------------------------------------------------------
(* Consecutive runs *)

\* A run is extended by the number that comes next.
LEMMA ExtendRun ==
  ASSUME NEW q \in Seq(Nat), NEW b \in Nat, Consecutive(q, b)
  PROVE  /\ Append(q, b + Len(q)) \in Seq(Nat)
         /\ Len(Append(q, b + Len(q))) = Len(q) + 1
         /\ Consecutive(Append(q, b + Len(q)), b)
<1> DEFINE n == Len(q)
           a == Append(q, b + n)
<1>1. n \in Nat /\ a \in Seq(Nat) /\ Len(a) = n + 1
      /\ a[n + 1] = b + n /\ \A k \in 1..n : a[k] = q[k]
  OBVIOUS
<1>2. ASSUME NEW k \in 1..(n + 1) PROVE a[k] = b + k - 1
  <2>1. CASE k = n + 1
    BY <1>1, <2>1
  <2>2. CASE k \in 1..n
    BY <1>1, <2>2 DEF Consecutive
  <2> QED BY <1>1, <2>1, <2>2
<1> HIDE DEF a
<1>3. Consecutive(a, b)
  BY <1>1, <1>2 DEF Consecutive
<1> QED BY <1>1, <1>3 DEF a

\* Dropping the head of a run leaves the run that starts one later.
LEMMA ShrinkRun ==
  ASSUME NEW q \in Seq(Nat), q # <<>>, NEW b \in Nat, Consecutive(q, b)
  PROVE  /\ Head(q) = b
         /\ Tail(q) \in Seq(Nat) /\ Len(q) \in Nat \ {0} /\ Len(Tail(q)) = Len(q) - 1
         /\ Consecutive(Tail(q), b + 1)
<1>1. /\ Len(q) \in Nat \ {0} /\ Head(q) = q[1]
      /\ Tail(q) \in Seq(Nat) /\ Len(Tail(q)) = Len(q) - 1
      /\ \A k \in 1..(Len(q) - 1) : Tail(q)[k] = q[k + 1]
  OBVIOUS
<1>2. Head(q) = b
  BY <1>1 DEF Consecutive
<1>3. ASSUME NEW k \in 1..(Len(q) - 1) PROVE Tail(q)[k] = (b + 1) + k - 1
  <2>1. k + 1 \in 1..Len(q)
    BY <1>1
  <2>2. q[k + 1] = b + (k + 1) - 1
    BY <2>1 DEF Consecutive
  <2> QED BY <1>1, <2>2
<1>4. Consecutive(Tail(q), b + 1)
  BY <1>1, <1>3 DEF Consecutive
<1> QED BY <1>1, <1>2, <1>4

\* Nothing is subscribed and nothing published at start.
LEMMA InvInit == Init => Inv
  BY EdgeHubAssumption
  DEF Init, Inv, TypeOK, RingContiguous, Fresh, Gapless, Consecutive, Reach, Code, CLOSE_NORMAL

-----------------------------------------------------------------------------
(* The ring *)

\* push keeps the ring consecutive up to the frame just numbered.
LEMMA PushContiguous ==
  ASSUME TypeOK, RingContiguous, ring' = Pushed, nextOffset' = nextOffset + 1
  PROVE  RingContiguous' /\ ring' \in Seq(Nat)
<1> DEFINE n == Len(ring)
<1>1. /\ n \in Nat /\ nextOffset \in Nat /\ RingCapacity \in Nat \ {0} /\ ring \in Seq(Nat)
      /\ n <= RingCapacity /\ n < nextOffset /\ Consecutive(ring, nextOffset - n)
      /\ nextOffset - n \in Nat
  BY EdgeHubAssumption DEF TypeOK, RingContiguous
<1>2. CASE n = RingCapacity
  <2>1. ring # <<>> /\ ring' = Append(Tail(ring), nextOffset)
    BY <1>1, <1>2 DEF Pushed
  <2> DEFINE t == Tail(ring)
             b == nextOffset - n + 1
  <2>2. t \in Seq(Nat) /\ Len(t) = n - 1 /\ Consecutive(t, b) /\ b \in Nat
    BY <1>1, <2>1, ShrinkRun
  <2>3. b + Len(t) = nextOffset
    BY <1>1, <2>2
  <2> HIDE DEF t
  <2> HIDE DEF b
  <2>4. Append(t, b + Len(t)) \in Seq(Nat) /\ Len(Append(t, b + Len(t))) = Len(t) + 1
        /\ Consecutive(Append(t, b + Len(t)), b)
    BY <2>2, ExtendRun
  <2>a. ring' = Append(t, b + Len(t))
    BY <2>1, <2>3 DEF t
  <2>c. Len(t) + 1 = n
    BY <1>1, <2>2
  <2>5. ring' \in Seq(Nat) /\ Len(ring') = n /\ Consecutive(ring', b)
    BY <2>4, <2>a, <2>c
  <2>6. nextOffset' - Len(ring') = b /\ Len(ring') < nextOffset'
    BY <1>1, <2>5 DEF b
  <2> QED BY <1>1, <2>5, <2>6 DEF RingContiguous, Consecutive
<1>3. CASE n # RingCapacity
  <2> DEFINE b == nextOffset - n
  <2>1. ring' = Append(ring, b + n)
    BY <1>1, <1>3 DEF Pushed
  <2>2. ring' \in Seq(Nat) /\ Len(ring') = n + 1 /\ Consecutive(ring', b)
    BY <1>1, <2>1, ExtendRun
  <2>3. nextOffset' - Len(ring') = b /\ Len(ring') < nextOffset' /\ Len(ring') <= RingCapacity
    BY <1>1, <1>3, <2>2
  <2> QED BY <2>2, <2>3 DEF RingContiguous, Consecutive
<1> QED BY <1>2, <1>3

\* tail(n) is a consecutive run that ends at the newest frame.
LEMMA TailContiguous ==
  ASSUME TypeOK, RingContiguous, NEW n \in Nat
  PROVE  /\ TailOf(n) \in Seq(Nat)
         /\ Len(TailOf(n)) <= Len(ring)
         /\ Consecutive(TailOf(n), nextOffset - Len(TailOf(n)))
<1> DEFINE m == Len(ring)
<1>1. m \in Nat /\ nextOffset \in Nat
  BY DEF TypeOK
<1>2. CASE n >= m
  BY <1>1, <1>2 DEF TailOf, TypeOK, RingContiguous
<1>3. CASE n < m
  <2>1. TailOf(n) = SubSeq(ring, m - n + 1, m)
    BY <1>1, <1>3 DEF TailOf
  <2>2. /\ TailOf(n) \in Seq(Nat) /\ Len(TailOf(n)) = n
        /\ \A k \in 1..n : TailOf(n)[k] = ring[m - n + k]
    BY <2>1, <1>1, <1>3 DEF TypeOK
  <2>3. \A k \in 1..n : m - n + k \in 1..m /\ ring[m - n + k] = nextOffset - n + k - 1
    BY <1>1, <1>3 DEF RingContiguous, Consecutive
  <2>4. Len(TailOf(n)) <= Len(ring)
    BY <2>2, <1>1, <1>3
  <2>5. Consecutive(TailOf(n), nextOffset - Len(TailOf(n)))
    BY <2>2, <2>3 DEF Consecutive
  <2> QED BY <2>2, <2>4, <2>5
<1> QED BY <1>1, <1>2, <1>3

-----------------------------------------------------------------------------
(* Steps *)

\* What Gapless says of one subscription, over the values of its variables:
\* frames g received, p to replay, q queued, first frame s, next offset n.
RunOf(g, p, q, s, n, registered) ==
  /\ Consecutive(g, s)
  /\ Consecutive(p, s + Len(g))
  /\ Consecutive(q, s + Len(g) + Len(p))
  /\ s + Len(g) + Len(p) + Len(q) <= n
  /\ registered => s + Len(g) + Len(p) + Len(q) = n

Run(i) == RunOf(got[i], replay[i], rx[i], start[i], nextOffset,
                i \in subs /\ writer[i] = "live")

\* The types of one subscription's sequences.
LEMMA Shape ==
  ASSUME TypeOK, NEW i \in Sub
  PROVE  /\ got[i] \in Seq(Nat) /\ replay[i] \in Seq(Nat) /\ rx[i] \in Seq(Nat)
         /\ Len(got[i]) \in Nat /\ Len(replay[i]) \in Nat /\ Len(rx[i]) \in Nat
         /\ start[i] \in Nat /\ nextOffset \in Nat \ {0}
  BY DEF TypeOK

\* Gapless is Run of every subscription.
LEMMA GaplessIsRun == Gapless <=> \A i \in Sub : start[i] > 0 => Run(i)
  BY DEF Gapless, Run, RunOf, Reach

\* The same after a step.
LEMMA GaplessIsRunPrime == Gapless' <=> \A i \in Sub : start'[i] > 0 => Run(i)'
  BY DEF Gapless, Run, RunOf, Reach

\* Moving the next frame from the replay to the received ones.
LEMMA MoveReplay ==
  ASSUME NEW g \in Seq(Nat), NEW p \in Seq(Nat), NEW q \in Seq(Nat), NEW s \in Nat,
         NEW n \in Nat, NEW r \in BOOLEAN, p # <<>>, RunOf(g, p, q, s, n, r)
  PROVE  RunOf(Append(g, Head(p)), Tail(p), q, s, n, r)
<1>1. Len(g) \in Nat /\ Len(p) \in Nat /\ Len(q) \in Nat /\ s + Len(g) \in Nat
  OBVIOUS
<1>2. /\ Head(p) = s + Len(g) /\ Len(Tail(p)) = Len(p) - 1
      /\ Consecutive(Tail(p), s + Len(g) + 1)
  BY <1>1, ShrinkRun DEF RunOf
<1> DEFINE h == Append(g, Head(p))
<1>3. Len(h) = Len(g) + 1 /\ Consecutive(h, s)
  BY <1>1, <1>2, ExtendRun DEF RunOf
<1> HIDE DEF h
<1>4. s + Len(h) = s + Len(g) + 1 /\ s + Len(h) + Len(Tail(p)) = s + Len(g) + Len(p)
  BY <1>1, <1>2, <1>3
<1>5. RunOf(h, Tail(p), q, s, n, r)
  BY <1>2, <1>3, <1>4 DEF RunOf
<1> QED BY <1>5 DEF h

\* Moving the next frame from the queue, once the replay is empty.
LEMMA MoveLive ==
  ASSUME NEW g \in Seq(Nat), NEW q \in Seq(Nat), NEW s \in Nat,
         NEW n \in Nat, NEW r \in BOOLEAN, q # <<>>, RunOf(g, <<>>, q, s, n, r)
  PROVE  RunOf(Append(g, Head(q)), <<>>, Tail(q), s, n, r)
<1>0. Len(<<>>) = 0 /\ \A b : Consecutive(<<>>, b)
  BY DEF Consecutive
<1>1. Len(g) \in Nat /\ Len(q) \in Nat /\ s + Len(g) \in Nat /\ s + Len(g) + Len(<<>>) = s + Len(g)
  BY <1>0
<1>2. /\ Head(q) = s + Len(g) /\ Len(Tail(q)) = Len(q) - 1
      /\ Consecutive(Tail(q), s + Len(g) + 1)
  BY <1>1, ShrinkRun DEF RunOf
<1> DEFINE h == Append(g, Head(q))
<1>3. Len(h) = Len(g) + 1 /\ Consecutive(h, s)
  BY <1>1, <1>2, ExtendRun DEF RunOf
<1> HIDE DEF h
<1>4. /\ s + Len(h) + Len(<<>>) = s + Len(g) + 1
      /\ s + Len(h) + Len(<<>>) + Len(Tail(q)) = s + Len(g) + Len(<<>>) + Len(q)
  BY <1>0, <1>1, <1>2, <1>3
<1>5. RunOf(h, <<>>, Tail(q), s, n, r)
  BY <1>0, <1>2, <1>3, <1>4 DEF RunOf
<1> QED BY <1>5 DEF h

\* publish hands the new frame to every subscriber it keeps, and only to those.
LEMMA InvPublish == Inv /\ Publish => Inv'
<1> SUFFICES ASSUME Inv, Publish PROVE Inv'
  OBVIOUS
<1>0. TypeOK /\ RingContiguous /\ Fresh /\ Gapless
  BY DEF Inv
<1>1. RingContiguous' /\ ring' \in Seq(Nat)
  BY <1>0, PushContiguous DEF Publish
<1>2. \A i \in Sub : rx'[i] = IF i \in subs /\ Accepts(i) THEN Append(rx[i], nextOffset) ELSE rx[i]
  BY DEF Publish
<1>3. rx' \in [Sub -> Seq(Nat)]
  BY <1>0, Shape DEF Publish
<1>4. TypeOK'
  BY <1>0, <1>1, <1>3 DEF TypeOK, Publish, Code, CLOSE_POLICY
<1>5. Fresh'
  BY <1>0, <1>2 DEF Fresh, Publish, Accepts
<1>6. ASSUME NEW i \in Sub, start'[i] > 0 PROVE Run(i)'
  <2>0. /\ got[i] \in Seq(Nat) /\ replay[i] \in Seq(Nat) /\ rx[i] \in Seq(Nat)
        /\ Len(got[i]) \in Nat /\ Len(replay[i]) \in Nat /\ Len(rx[i]) \in Nat
        /\ start[i] \in Nat /\ nextOffset \in Nat \ {0}
    BY <1>0, Shape
  <2>1. start'[i] = start[i] /\ got'[i] = got[i] /\ replay'[i] = replay[i] /\ writer'[i] = writer[i]
        /\ nextOffset' = nextOffset + 1
    BY DEF Publish
  <2>2. Run(i)
    BY <1>0, <1>6, <2>1, GaplessIsRun
  <2> DEFINE b == start[i] + Len(got[i]) + Len(replay[i])
  <2>b. b \in Nat /\ Consecutive(rx[i], b)
    BY <2>0, <2>2 DEF Run, RunOf
  <2>3. CASE i \in subs /\ Accepts(i)
    <3>1. nextOffset = b + Len(rx[i])
      BY <2>2, <2>3 DEF Run, RunOf, Accepts
    <3>2. rx'[i] = Append(rx[i], b + Len(rx[i]))
      BY <1>2, <2>3, <3>1
    <3>3. Len(rx'[i]) = Len(rx[i]) + 1 /\ Consecutive(rx'[i], b)
      BY <2>0, <2>b, <3>2, ExtendRun
    <3>4. b + Len(rx'[i]) = nextOffset'
      BY <2>0, <2>1, <2>b, <3>1, <3>3
    <3>5. RunOf(got[i], replay[i], rx'[i], start[i], nextOffset', TRUE)
      BY <2>0, <2>1, <2>2, <3>3, <3>4 DEF Run, RunOf
    <3> QED BY <2>1, <3>5 DEF Run, RunOf
  <2>4. CASE ~(i \in subs /\ Accepts(i))
    <3>1. rx'[i] = rx[i] /\ i \notin subs'
      BY <1>2, <2>4 DEF Publish
    <3>2. b + Len(rx[i]) <= nextOffset'
      BY <2>0, <2>1, <2>2, <2>b DEF Run, RunOf
    <3>3. RunOf(got[i], replay[i], rx[i], start[i], nextOffset', FALSE)
      BY <2>2, <3>2 DEF Run, RunOf
    <3> QED BY <2>1, <3>1, <3>3 DEF Run, RunOf
  <2> QED BY <2>3, <2>4
<1>7. Gapless'
  BY <1>4, <1>6, GaplessIsRunPrime
<1> QED BY <1>1, <1>4, <1>5, <1>7 DEF Inv

\* subscribe takes a run that ends at the newest frame.
LEMMA InvSubscribe ==
  ASSUME Inv, NEW i \in Sub, NEW n \in 0..MaxReplay, Subscribe(i, n)
  PROVE  Inv'
<1>0. TypeOK /\ RingContiguous /\ Fresh /\ Gapless /\ n \in Nat
  BY EdgeHubAssumption DEF Inv
<1> DEFINE t == TailOf(n)
<1>1. /\ t \in Seq(Nat) /\ Len(t) <= Len(ring)
      /\ Consecutive(t, nextOffset - Len(t))
  BY <1>0, TailContiguous
<1>t. Len(t) \in Nat
  BY <1>1
<1>2. nextOffset - Len(t) \in Nat /\ nextOffset - Len(t) > 0
  BY <1>0, <1>1, <1>t DEF RingContiguous, TypeOK
<1>3. /\ writer[i] = "none"
      /\ replay' = [replay EXCEPT ![i] = t] /\ start' = [start EXCEPT ![i] = nextOffset - Len(t)]
      /\ subs' = subs \cup {i} /\ writer' = [writer EXCEPT ![i] = "live"]
      /\ reading' = [reading EXCEPT ![i] = TRUE]
      /\ UNCHANGED <<ring, nextOffset, token, closeCode, rx, got>>
  BY DEF Subscribe
<1> HIDE DEF t
<1>4. TypeOK'
  BY <1>0, <1>1, <1>2, <1>3 DEF TypeOK
<1>5. RingContiguous'
  BY <1>0, <1>3 DEF RingContiguous
<1>6. Fresh'
  BY <1>0, <1>2, <1>3 DEF Fresh, TypeOK
<1>7. ASSUME NEW j \in Sub, start'[j] > 0 PROVE Run(j)'
  <2>1. CASE j = i
    <3>1. /\ got'[j] = <<>> /\ rx'[j] = <<>> /\ replay'[j] = t /\ start'[j] = nextOffset - Len(t)
          /\ nextOffset' = nextOffset /\ nextOffset \in Nat
      BY <1>0, <1>3, <2>1 DEF Fresh, TypeOK
    <3> DEFINE s == nextOffset - Len(t)
    <3>2. /\ Len(<<>>) = 0 /\ \A b : Consecutive(<<>>, b)
          /\ s + Len(<<>>) = s /\ s + Len(<<>>) + Len(t) + Len(<<>>) = nextOffset
      BY <1>t, <1>2, <3>1 DEF Consecutive
    <3>3. RunOf(<<>>, t, <<>>, s, nextOffset, TRUE)
      BY <1>1, <1>t, <3>1, <3>2 DEF RunOf
    <3> QED BY <3>1, <3>3 DEF Run, RunOf
  <2>2. CASE j # i
    <3>1. /\ UNCHANGED <<got[j], rx[j], replay[j], start[j], writer[j], nextOffset>>
          /\ j \in subs' <=> j \in subs
      BY <1>0, <1>3, <2>2 DEF TypeOK
    <3>2. Run(j)
      BY <1>0, <1>7, <3>1, GaplessIsRun
    <3> QED BY <3>1, <3>2 DEF Run
  <2> QED BY <2>1, <2>2
<1>8. Gapless'
  BY <1>4, <1>7, GaplessIsRunPrime
<1> QED BY <1>4, <1>5, <1>6, <1>8 DEF Inv

\* Writing a frame moves it from the replay or the queue to the received ones.
LEMMA InvWrite ==
  ASSUME Inv, NEW i \in Sub, WriteReplay(i) \/ WriteLive(i)
  PROVE  Inv'
<1>0. TypeOK /\ RingContiguous /\ Fresh /\ Gapless
  BY DEF Inv
<1>s. /\ got[i] \in Seq(Nat) /\ replay[i] \in Seq(Nat) /\ rx[i] \in Seq(Nat)
      /\ start[i] \in Nat /\ nextOffset \in Nat
  BY <1>0, Shape
<1>1. UNCHANGED <<ring, nextOffset, subs, token, closeCode, writer, reading, start>> /\ writer[i] = "live"
  BY DEF WriteReplay, WriteLive, hubVars
<1>2. Run(i) /\ start[i] > 0
  BY <1>s, <1>0, <1>1, GaplessIsRun DEF Fresh
<1> DEFINE registered == i \in subs /\ writer[i] = "live"
<1>3. /\ got' \in [Sub -> Seq(Nat)] /\ replay' \in [Sub -> Seq(Nat)] /\ rx' \in [Sub -> Seq(Nat)]
      /\ RunOf(got'[i], replay'[i], rx'[i], start[i], nextOffset, registered)
      /\ \A j \in Sub \ {i} : UNCHANGED <<got[j], replay[j], rx[j]>>
  <2> DEFINE g == got[i]  p == replay[i]  q == rx[i]
  <2>0. RunOf(g, p, q, start[i], nextOffset, registered) /\ registered \in BOOLEAN
    BY <1>2 DEF Run
  <2>1. CASE WriteReplay(i)
    <3>1. /\ p # <<>> /\ got' = [got EXCEPT ![i] = Append(g, Head(p))]
          /\ replay' = [replay EXCEPT ![i] = Tail(p)] /\ rx' = rx
      BY <2>1 DEF WriteReplay
    <3>2. Append(g, Head(p)) \in Seq(Nat) /\ Tail(p) \in Seq(Nat)
      BY <1>s, <3>1
    <3>3. RunOf(Append(g, Head(p)), Tail(p), q, start[i], nextOffset, registered)
      BY <1>s, <2>0, <3>1, MoveReplay
    <3> QED BY <1>0, <3>1, <3>2, <3>3 DEF TypeOK
  <2>2. CASE WriteLive(i)
    <3>1. /\ q # <<>> /\ p = <<>> /\ got' = [got EXCEPT ![i] = Append(g, Head(q))]
          /\ rx' = [rx EXCEPT ![i] = Tail(q)] /\ replay' = replay
      BY <2>2 DEF WriteLive
    <3>2. Append(g, Head(q)) \in Seq(Nat) /\ Tail(q) \in Seq(Nat)
      BY <1>s, <3>1
    <3>3. RunOf(Append(g, Head(q)), <<>>, Tail(q), start[i], nextOffset, registered)
      BY <1>s, <2>0, <3>1, MoveLive
    <3> QED BY <1>0, <3>1, <3>2, <3>3 DEF TypeOK
  <2> QED BY <2>1, <2>2
<1>4. TypeOK'
  BY <1>0, <1>1, <1>3 DEF TypeOK
<1>5. Fresh'
  BY <1>0, <1>1, <1>3 DEF Fresh
<1>6. ASSUME NEW j \in Sub, start'[j] > 0 PROVE Run(j)'
  <2>1. CASE j = i
    BY <1>1, <1>3, <2>1 DEF Run
  <2>2. CASE j # i
    <3>1. Run(j)
      BY <1>0, <1>1, <1>6, GaplessIsRun
    <3> QED BY <1>1, <1>3, <2>2, <3>1 DEF Run
  <2> QED BY <2>1, <2>2
<1>7. Gapless'
  BY <1>4, <1>6, GaplessIsRunPrime
<1> QED BY <1>0, <1>1, <1>4, <1>5, <1>7 DEF Inv, RingContiguous

\* Removing subscribers and ending tasks leave the frames where they are.
LEMMA InvRemove ==
  ASSUME Inv, UNCHANGED <<ring, nextOffset, token, replay, rx, got, start>>,
         subs' \subseteq subs, closeCode' \in [Sub -> Code], reading' \in [Sub -> BOOLEAN],
         writer' \in [Sub -> {"none", "live", "closed", "gone"}],
         \A i \in Sub : writer'[i] = writer[i] \/ (writer[i] = "live" /\ writer'[i] \in {"closed", "gone"})
  PROVE  Inv'
<1>0. TypeOK /\ RingContiguous /\ Fresh /\ Gapless
  BY DEF Inv
<1>1. TypeOK'
  BY <1>0 DEF TypeOK
<1>2. Fresh'
  BY <1>0 DEF Fresh
<1>3. Gapless'
  BY <1>0 DEF Gapless, Reach
<1> QED BY <1>0, <1>1, <1>2, <1>3 DEF Inv, RingContiguous

\* The invariant is inductive.
LEMMA InvNext == Inv /\ [Next]_vars => Inv'
<1> SUFFICES ASSUME Inv, [Next]_vars PROVE Inv'
  OBVIOUS
<1>0. TypeOK
  BY DEF Inv
<1>1. CASE Publish
  BY <1>1, InvPublish
<1>2. ASSUME NEW S \in SUBSET subs, NEW code \in Code, Remove(S, code) PROVE Inv'
  BY <1>0, <1>2, InvRemove DEF Remove, TypeOK
<1>3. ASSUME NEW n \in 1..Cardinality(Sub), Release(n) PROVE Inv'
  BY <1>2, <1>3 DEF Release, Code
<1>4. ASSUME NEW keep \in SUBSET Token, KickTokens(keep) PROVE Inv'
  BY <1>2, <1>4 DEF KickTokens, Code
<1>5. ASSUME NEW i \in Sub, NEW n \in 0..MaxReplay, Subscribe(i, n) PROVE Inv'
  BY <1>5, InvSubscribe
<1>6. ASSUME NEW i \in Sub, WriteReplay(i) \/ WriteLive(i) PROVE Inv'
  BY <1>6, InvWrite
<1>7. ASSUME NEW i \in Sub, WriteClose(i) \/ WriterFails(i) PROVE Inv'
  BY <1>0, <1>7, InvRemove DEF WriteClose, WriterFails, hubVars, TypeOK
<1>8. ASSUME NEW i \in Sub, SessionEnds(i) PROVE Inv'
  BY <1>0, <1>8, InvRemove DEF SessionEnds, TypeOK
<1>9. CASE UNCHANGED vars
  BY <1>0, <1>9, InvRemove DEF vars, hubVars, sessionVars, TypeOK
<1> QED BY <1>1, <1>3, <1>4, <1>5, <1>6, <1>7, <1>8, <1>9 DEF Next, Writer

\* Whatever the interleaving of publish, subscribe, eviction and the writers,
\* a client's frames are one gapless run (the comment on Hub::subscribe).
THEOREM GaplessHolds == Spec => [](TypeOK /\ Gapless)
<1>1. Inv => TypeOK /\ Gapless
  BY DEF Inv
<1> QED BY <1>1, InvInit, InvNext, PTL DEF Spec

-----------------------------------------------------------------------------
(* The hub implements ContiguousFeed *)

\* Publishing a frame emits it.
LEMMA PublishEmits == ASSUME TypeOK, Publish PROVE Feed!Emit
<1>1. nextOffset \in Nat \ {0} /\ nextOffset' = nextOffset + 1 /\ UNCHANGED <<start, got>>
  BY DEF TypeOK, Publish
<1>2. nextOffset' - 1 = (nextOffset - 1) + 1
  BY <1>1
<1> QED BY <1>1, <1>2 DEF Feed!Emit

\* Subscribing joins at the oldest replayed frame, or at the next one.
LEMMA SubscribeJoins ==
  ASSUME Inv, NEW i \in Sub, NEW n \in 0..MaxReplay, Subscribe(i, n)
  PROVE  Feed!Join(i)
<1>0. TypeOK /\ RingContiguous /\ Fresh /\ n \in Nat
  BY EdgeHubAssumption DEF Inv
<1> DEFINE f == nextOffset - Len(TailOf(n))
<1>1. TailOf(n) \in Seq(Nat) /\ Len(TailOf(n)) <= Len(ring)
  BY <1>0, TailContiguous
<1>2. Len(TailOf(n)) \in Nat /\ Len(ring) \in Nat /\ Len(ring) < nextOffset /\ nextOffset \in Nat
  BY <1>0, <1>1 DEF TypeOK, RingContiguous
<1>3. f \in 1..((nextOffset - 1) + 1)
  BY <1>1, <1>2
<1>4. start[i] = 0 /\ start' = [start EXCEPT ![i] = f] /\ nextOffset' = nextOffset /\ got' = got
  BY <1>0 DEF Subscribe, Fresh
<1> QED BY <1>3, <1>4 DEF Feed!Join

\* Writing a frame delivers the next one.
LEMMA WriteReceives ==
  ASSUME Inv, NEW i \in Sub, WriteReplay(i) \/ WriteLive(i)
  PROVE  Feed!Receive(i)
<1>0. TypeOK /\ Fresh /\ Gapless
  BY DEF Inv
<1>1. /\ got[i] \in Seq(Nat) /\ replay[i] \in Seq(Nat) /\ rx[i] \in Seq(Nat)
      /\ Len(got[i]) \in Nat /\ Len(replay[i]) \in Nat /\ Len(rx[i]) \in Nat
      /\ start[i] \in Nat /\ nextOffset \in Nat \ {0}
  BY <1>0, Shape
<1>2. UNCHANGED <<nextOffset, start>> /\ writer[i] = "live"
  BY DEF WriteReplay, WriteLive, hubVars
<1>3. Run(i) /\ start[i] > 0
  BY <1>0, <1>1, <1>2, GaplessIsRun DEF Fresh
<1> DEFINE s == start[i]  g == Len(got[i])  next == s + g
<1>4. next \in Nat /\ Consecutive(replay[i], next) /\ s + g + Len(replay[i]) + Len(rx[i]) <= nextOffset
  BY <1>1, <1>3 DEF Run, RunOf
<1>5. next < nextOffset /\ got' = [got EXCEPT ![i] = Append(@, next)]
  <2>1. CASE WriteReplay(i)
    <3>1. replay[i] # <<>> /\ got' = [got EXCEPT ![i] = Append(@, Head(replay[i]))]
      BY <2>1 DEF WriteReplay
    <3>2. Len(replay[i]) \in Nat \ {0} /\ Head(replay[i]) = next
      BY <1>1, <1>4, <3>1, ShrinkRun
    <3>3. next < nextOffset
      BY <1>1, <1>4, <3>2
    <3> QED BY <3>1, <3>2, <3>3
  <2>2. CASE WriteLive(i)
    <3>1. rx[i] # <<>> /\ replay[i] = <<>> /\ got' = [got EXCEPT ![i] = Append(@, Head(rx[i]))]
      BY <2>2 DEF WriteLive
    <3>2. Len(replay[i]) = 0 /\ next + Len(replay[i]) = next
      BY <1>4, <3>1
    <3>3. Consecutive(rx[i], next)
      BY <1>3, <3>2 DEF Run, RunOf
    <3>4. Head(rx[i]) = next /\ Len(rx[i]) > 0
      BY <1>1, <1>4, <3>1, <3>3, ShrinkRun
    <3>5. next < nextOffset
      BY <1>1, <1>4, <3>2, <3>4
    <3> QED BY <3>1, <3>4, <3>5
  <2> QED BY <2>1, <2>2
<1>6. s + g <= nextOffset - 1
  BY <1>1, <1>5
<1>7. got' = [got EXCEPT ![i] = Append(@, start[i] + Len(@))]
  BY <1>5
<1> QED BY <1>2, <1>3, <1>6, <1>7 DEF Feed!Receive

\* Every step of the hub is a step of the feed or changes nothing of it.
LEMMA FeedStep == Inv /\ [Next]_vars => [Feed!FeedNext]_(Feed!feedVars)
<1> SUFFICES ASSUME Inv, [Next]_vars PROVE [Feed!FeedNext]_(Feed!feedVars)
  OBVIOUS
<1>0. TypeOK
  BY DEF Inv
<1>1. CASE Publish
  BY <1>0, <1>1, PublishEmits DEF Feed!FeedNext
<1>2. ASSUME NEW i \in Sub, NEW n \in 0..MaxReplay, Subscribe(i, n) PROVE Feed!FeedNext
  BY <1>2, SubscribeJoins DEF Feed!FeedNext
<1>3. ASSUME NEW i \in Sub, WriteReplay(i) \/ WriteLive(i) PROVE Feed!FeedNext
  BY <1>3, WriteReceives DEF Feed!FeedNext
<1>4. ASSUME UNCHANGED <<nextOffset, start, got>> PROVE UNCHANGED Feed!feedVars
  BY <1>4 DEF Feed!feedVars
<1>5. ASSUME NEW n \in 1..Cardinality(Sub), Release(n) PROVE UNCHANGED <<nextOffset, start, got>>
  BY <1>5 DEF Release, Remove
<1>6. ASSUME NEW keep \in SUBSET Token, KickTokens(keep) PROVE UNCHANGED <<nextOffset, start, got>>
  BY <1>6 DEF KickTokens, Remove
<1>7. ASSUME NEW i \in Sub, WriteClose(i) \/ WriterFails(i) \/ SessionEnds(i)
      PROVE  UNCHANGED <<nextOffset, start, got>>
  BY <1>7 DEF WriteClose, WriterFails, SessionEnds, hubVars
<1>8. CASE UNCHANGED vars
  BY <1>4, <1>8 DEF vars, hubVars, sessionVars
<1> QED BY <1>1, <1>2, <1>3, <1>4, <1>5, <1>6, <1>7, <1>8 DEF Next, Writer

\* The detailed hub, with its ring, queues, evictions and close codes,
\* implements the feed an edge promises its clients.
THEOREM FeedImplemented == Spec => ImplementsFeed
<1>1. Init => Feed!FeedInit
  BY DEF Init, Feed!FeedInit
<1>2. Spec => []Inv
  BY InvInit, InvNext, PTL DEF Spec
<1> QED BY <1>1, <1>2, FeedStep, PTL DEF Spec, ImplementsFeed, Feed!FeedSpec

-----------------------------------------------------------------------------
(* How an edge stops serving *)

LoopAt  == {"none", "test", "count", "release", "cancelled", "finished", "ask", "exiting"}
RunsAt  == {"test", "count", "release", "cancelled", "finished"}

\* No step of a caller, of a drain task or of a handshake leaves the types.
LEMMA TypeNext == DrainTypeOK /\ [DrainNext]_drainVars => DrainTypeOK'
<1> SUFFICES ASSUME DrainTypeOK, [DrainNext]_drainVars PROVE DrainTypeOK'
  OBVIOUS
<1> USE DEF DrainTypeOK
<1>1. CASE DrainDirective \/ UndrainDirective \/ CancelDrain
  BY <1>1 DEF DrainDirective, UndrainDirective, CancelDrain,
              Goes, flags, hist, Caller
<1>2. CASE AdminDrain \/ Signal
  BY <1>2 DEF AdminDrain, Signal, Goes, flags, hist, Caller
<1>3. CASE MainReturns
  BY <1>3 DEF MainReturns, Exit, hist
<1>4. ASSUME NEW who \in Caller, StoreExits(who) \/ StoreDraining(who) PROVE DrainTypeOK'
  BY <1>4 DEF StoreExits, StoreDraining, Goes
<1>5. ASSUME NEW who \in Caller, SwapActive(who) PROVE DrainTypeOK'
  BY <1>5 DEF SwapActive, Goes
<1>6. ASSUME NEW l \in Task, LoopTest(l) \/ LoopCount(l) \/ LoopDeadline(l) \/ LoopClear(l)
                             \/ LoopAsk(l)
      PROVE  DrainTypeOK'
  BY <1>6 DEF LoopTest, LoopCount, LoopDeadline, LoopClear, LoopAsk, Moves, flags, hist
<1>7. ASSUME NEW l \in Task, LoopRelease(l) PROVE DrainTypeOK'
  BY <1>7 DEF LoopRelease, Moves, flags, hist
<1>8. ASSUME NEW l \in Task, LoopExit(l) PROVE DrainTypeOK'
  BY <1>8 DEF LoopExit, Exit, hist
<1>9. ASSUME NEW c \in Client, Shake(c) PROVE DrainTypeOK'
  BY <1>9 DEF Shake, TestDraining, TestFull, HubSubscribe, Leave, flags, hist
<1>10. CASE UNCHANGED drainVars
  BY <1>10 DEF drainVars, flags, hist
<1> QED
  BY <1>1, <1>2, <1>3, <1>4, <1>5, <1>6, <1>7, <1>8, <1>9, <1>10 DEF DrainNext, Call, Loop

\* Only the swap of drain_active starts a loop and only its end clears the flag.
LEMMA OneLoopNext ==
  ASSUME DrainTypeOK, OneLoop, [DrainNext]_drainVars
  PROVE  OneLoop'
<1>1. ASSUME UNCHANGED <<active, loop>> PROVE OneLoop'
  BY <1>1 DEF OneLoop, Running
<1>2. ASSUME NEW l \in Task, NEW to \in LoopAt, loop' = [loop EXCEPT ![l] = to],
             UNCHANGED active, (loop[l] \in RunsAt) <=> (to \in RunsAt)
      PROVE  OneLoop'
  <2>1. Running' = Running
    BY <1>2 DEF Running, RunsAt, DrainTypeOK
  <2> QED
    BY <1>2, <2>1 DEF OneLoop
<1>3. ASSUME Exit PROVE OneLoop'
  BY <1>3 DEF Exit, OneLoop, Running
<1>4. ASSUME NEW who \in Caller, SwapActive(who) PROVE OneLoop'
  <2>1. CASE active /\ UNCHANGED loop
    BY <1>1, <1>4, <2>1 DEF SwapActive
  <2>2. ASSUME ~active, NEW l \in Task, loop[l] = "none", loop' = [loop EXCEPT ![l] = "test"]
        PROVE  OneLoop'
    <3>1. Running = {} /\ active'
      BY <1>4, <2>2 DEF OneLoop, SwapActive
    <3>2. Running' = {l}
      BY <2>2, <3>1 DEF Running, DrainTypeOK
    <3> QED
      BY <3>1, <3>2 DEF OneLoop
  <2> QED
    BY <1>4, <2>1, <2>2 DEF SwapActive
<1>5. ASSUME NEW l \in Task, LoopClear(l) PROVE OneLoop'
  <2>1. l \in Running /\ ~active'
    BY <1>5 DEF LoopClear, Running
  <2>2. PICK to \in {"none", "ask"} : loop' = [loop EXCEPT ![l] = to]
    BY <1>5 DEF LoopClear, Moves
  <2>3. Running' = Running \ {l}
    BY <2>2 DEF Running, DrainTypeOK
  <2>4. Running' = {}
    BY <2>1, <2>3 DEF OneLoop
  <2> QED
    BY <2>1, <2>4 DEF OneLoop
<1>6. ASSUME NEW l \in Task,
             LoopTest(l) \/ LoopCount(l) \/ LoopDeadline(l) \/ LoopRelease(l) \/ LoopAsk(l)
      PROVE  OneLoop'
  <2>1. UNCHANGED active
    BY <1>6 DEF LoopTest, LoopCount, LoopDeadline, LoopRelease, LoopAsk, flags
  <2>2. PICK to \in LoopAt : /\ loop' = [loop EXCEPT ![l] = to]
                             /\ (loop[l] \in RunsAt) <=> (to \in RunsAt)
    BY <1>6 DEF LoopTest, LoopCount, LoopDeadline, LoopRelease, LoopAsk, Moves, LoopAt, RunsAt
  <2> QED
    BY <1>2, <2>1, <2>2
<1>7. CASE \/ DrainDirective \/ UndrainDirective \/ CancelDrain \/ AdminDrain \/ Signal
           \/ UNCHANGED drainVars
  BY <1>1, <1>7 DEF DrainDirective, UndrainDirective, CancelDrain, AdminDrain,
                    Signal, drainVars, flags
<1>8. ASSUME NEW who \in Caller, StoreExits(who) \/ StoreDraining(who) PROVE OneLoop'
  BY <1>1, <1>8 DEF StoreExits, StoreDraining
<1>9. ASSUME NEW c \in Client, Shake(c) PROVE OneLoop'
  BY <1>1, <1>9 DEF Shake, TestDraining, TestFull, HubSubscribe, Leave, flags
<1> QED
  BY <1>3, <1>4, <1>5, <1>6, <1>7, <1>8, <1>9
  DEF DrainNext, Call, Loop, MainReturns, LoopExit

\* start_drain's swap and the two places that clear drain_active keep drain
\* loops apart: one runs exactly while drain_active is set.
THEOREM OneLoopHolds == DrainSpec => [](DrainTypeOK /\ OneLoop)
<1>1. DrainInit => DrainTypeOK /\ OneLoop
  BY DEF DrainInit, DrainTypeOK, OneLoop, Running, Caller
<1>2. DrainTypeOK /\ OneLoop /\ [DrainNext]_drainVars => (DrainTypeOK /\ OneLoop)'
  BY TypeNext, OneLoopNext
<1> QED
  BY <1>1, <1>2, PTL DEF DrainSpec

-----------------------------------------------------------------------------
(* A drain that exits is carried by a caller or by a task, or was lost in    *)
(* one of the two races. What makes it inductive: a cancel_drain that is     *)
(* still to swap draining did not see drain_exits, so it is the race itself  *)
(* if it meets a drain that exits, unless that is still to store draining.   *)

Storing  == \E who \in Caller : at[who] = "draining"
Swapping == \E who \in Caller : at[who] = "swap"
Carried  == \E l \in Task : loop[l] \in Ends

\* Only the console's drain leaves drain_exits alone, and only it is cancelled.
CallerInv ==
  /\ \A who \in Caller \ {"heartbeat"} : at[who] \in {"draining", "swap"} => exits
  /\ \A who \in Caller : at[who] = "cancel" => who = "heartbeat"

CancelInv ==
  at["heartbeat"] = "cancel" => /\ exits => crossed /\ (Storing \/ draining)
                                /\ Swapping => draining

CarryInv ==
  /\ Swapping /\ ~crossed => draining
  /\ exits /\ ~Lost => Storing \/ (draining /\ (Swapping \/ Carried))

UpgradeInv == CallerInv /\ CancelInv /\ CarryInv

\* A step of the loop that hands the drain on, if it ever held it, leaves the
\* callers and what they promise alone.
LEMMA LoopCarries ==
  ASSUME DrainTypeOK, UpgradeInv, NEW l \in Task, NEW to \in LoopAt,
         loop' = [loop EXCEPT ![l] = to],
         exits /\ draining /\ loop[l] \in Ends => to \in Ends,
         UNCHANGED <<draining, exits, at, hist>>
  PROVE  UpgradeInv'
<1>1. CallerInv' /\ CancelInv'
  BY DEF UpgradeInv, CallerInv, CancelInv, Storing, Swapping, hist
<1>2. exits /\ draining /\ Carried => Carried'
  <2> SUFFICES ASSUME exits, draining, NEW m \in Task, loop[m] \in Ends PROVE Carried'
    BY DEF Carried
  <2>1. loop'[m] \in Ends
    BY DEF DrainTypeOK
  <2> QED
    BY <2>1 DEF Carried
<1>3. CarryInv'
  BY <1>2 DEF UpgradeInv, CarryInv, Storing, Swapping, Lost, hist
<1> QED
  BY <1>1, <1>3 DEF UpgradeInv

\* A caller hands the drain to the loop it spawns or to the one that runs.
LEMMA SwapCarries ==
  ASSUME DrainTypeOK, OneLoop, UpgradeInv, NEW who \in Caller, SwapActive(who)
  PROVE  UpgradeInv'
<1> USE DEF DrainTypeOK
<1>1. Storing => Storing'
  BY DEF SwapActive, Goes, Storing
<1>2. Swapping /\ (Swapping' => Swapping)
  BY DEF SwapActive, Goes, Swapping
<1>3. /\ at'["heartbeat"] = "cancel" => at["heartbeat"] = "cancel"
      /\ \A x \in Caller : at'[x] \in {"draining", "swap", "cancel"} => at'[x] = at[x]
  BY DEF SwapActive, Goes, Caller
<1>4. ~skipped' => Carried'
  <2> SUFFICES ASSUME ~skipped' PROVE Carried'
    OBVIOUS
  <2>1. CASE active /\ UNCHANGED loop
    <3>1. PICK l \in Task : loop[l] \in RunsAt
      BY <2>1 DEF OneLoop, Running, RunsAt
    <3>2. loop[l] \in Ends
      BY <3>1 DEF RunsAt, Ends, SwapActive
    <3> QED
      BY <2>1, <3>2 DEF Carried
  <2>2. ASSUME NEW l \in Task, loop' = [loop EXCEPT ![l] = "test"] PROVE Carried'
    BY <2>2 DEF Carried, Ends
  <2> QED
    BY <2>1, <2>2 DEF SwapActive
<1>5. CallerInv'
  BY <1>3 DEF UpgradeInv, CallerInv, SwapActive
<1>6. CancelInv'
  BY <1>1, <1>2, <1>3 DEF UpgradeInv, CancelInv, SwapActive
<1>7. CarryInv'
  BY <1>2, <1>4 DEF UpgradeInv, CarryInv, SwapActive, Lost
<1> QED
  BY <1>5, <1>6, <1>7 DEF UpgradeInv

\* No step of a caller, of a drain task or of a handshake loses a drain that
\* exits otherwise.
LEMMA UpgradeNext ==
  ASSUME DrainTypeOK, OneLoop, UpgradeInv, [DrainNext]_drainVars
  PROVE  UpgradeInv'
<1> USE DEF DrainTypeOK
<1>1. CASE DrainDirective
  <2>1. Storing' /\ (Swapping' => Swapping) /\ at'["heartbeat"] # "cancel"
    BY <1>1 DEF DrainDirective, Goes, Storing, Swapping, Caller
  <2>2. CallerInv'
    BY <1>1 DEF DrainDirective, Goes, UpgradeInv, CallerInv, flags, Caller
  <2> QED
    BY <1>1, <2>1, <2>2 DEF DrainDirective, UpgradeInv, CancelInv, CarryInv, flags, hist
<1>2. CASE UndrainDirective
  <2>1. (Swapping' => Swapping) /\ ~exits' /\ ~Swapping
    BY <1>2 DEF UndrainDirective, Goes, UpgradeInv, CallerInv, Swapping, Caller, flags
  <2>2. CallerInv'
    BY <1>2 DEF UndrainDirective, Goes, UpgradeInv, CallerInv, flags, Caller
  <2> QED
    BY <2>1, <2>2 DEF UpgradeInv, CancelInv, CarryInv
<1>3. ASSUME NEW who \in Caller \ {"heartbeat"}, at[who] = "idle", Goes(who, "exits"),
             UNCHANGED <<draining, exits, active, loop, hist>>
      PROVE  UpgradeInv'
  <2>1. /\ Storing' = Storing /\ Swapping' = Swapping /\ Carried' = Carried
        /\ at'["heartbeat"] = at["heartbeat"]
    BY <1>3 DEF Storing, Swapping, Carried, Goes, Caller
  <2>2. CallerInv'
    BY <1>3 DEF UpgradeInv, CallerInv, Goes
  <2> QED
    BY <1>3, <2>1, <2>2 DEF UpgradeInv, CancelInv, CarryInv, Lost, hist
<1>4. CASE AdminDrain \/ Signal
  BY <1>3, <1>4 DEF AdminDrain, Signal, Caller, flags
<1>5. CASE Exit
  BY <1>5 DEF Exit, UpgradeInv, CallerInv, CancelInv, CarryInv, Swapping, Caller
<1>6. ASSUME NEW who \in Caller, StoreExits(who) PROVE UpgradeInv'
  <2>1. Storing' /\ Swapping' = Swapping
    BY <1>6 DEF StoreExits, Goes, Storing, Swapping
  <2>2. CallerInv'
    BY <1>6 DEF StoreExits, Goes, UpgradeInv, CallerInv
  <2>3. at'["heartbeat"] = "cancel" => at["heartbeat"] = "cancel"
    BY <1>6 DEF StoreExits, Goes, Caller
  <2>4. CancelInv'
    BY <1>6, <2>1, <2>3 DEF StoreExits, UpgradeInv, CancelInv
  <2>5. CarryInv'
    BY <1>6, <2>1 DEF StoreExits, UpgradeInv, CarryInv
  <2> QED
    BY <2>2, <2>4, <2>5 DEF UpgradeInv
<1>7. ASSUME NEW who \in Caller, StoreDraining(who) PROVE UpgradeInv'
  <2>1. Swapping' /\ draining'
    BY <1>7 DEF StoreDraining, Goes, Swapping
  <2>2. CallerInv'
    BY <1>7 DEF StoreDraining, Goes, UpgradeInv, CallerInv
  <2>3. at'["heartbeat"] = "cancel" => at["heartbeat"] = "cancel"
    BY <1>7 DEF StoreDraining, Goes, Caller
  <2>4. CancelInv'
    BY <1>7, <2>1, <2>3 DEF StoreDraining, UpgradeInv, CancelInv
  <2> QED
    BY <2>1, <2>2, <2>4 DEF UpgradeInv, CarryInv
<1>8. CASE CancelDrain
  <2>1. /\ Storing' = Storing /\ Swapping' = Swapping
        /\ at'["heartbeat"] # "cancel"
    BY <1>8 DEF CancelDrain, Goes, Storing, Swapping, Caller
  <2>2. CallerInv'
    BY <1>8 DEF CancelDrain, Goes, UpgradeInv, CallerInv
  <2>3. Swapping => crossed'
    <3>1. Swapping => exits
      BY <1>8 DEF CancelDrain, UpgradeInv, CallerInv, Swapping
    <3> QED
      BY <1>8, <3>1 DEF CancelDrain, UpgradeInv, CancelInv
  <2>4. exits /\ ~crossed' => Storing
    BY <1>8 DEF CancelDrain, UpgradeInv, CancelInv
  <2>5. CarryInv'
    BY <1>8, <2>1, <2>3, <2>4 DEF CancelDrain, CarryInv, Lost
  <2> QED
    BY <2>1, <2>2, <2>5 DEF UpgradeInv, CancelInv
<1>9. ASSUME NEW l \in Task, LoopTest(l) PROVE UpgradeInv'
  BY <1>9, LoopCarries DEF LoopTest, Moves, Ends, LoopAt, flags
<1>10. ASSUME NEW l \in Task, LoopCount(l) \/ LoopDeadline(l) \/ LoopRelease(l)
       PROVE  UpgradeInv'
  BY <1>10, LoopCarries DEF LoopCount, LoopDeadline, LoopRelease, Moves, Ends, LoopAt, flags
<1>11. ASSUME NEW l \in Task, LoopClear(l) PROVE UpgradeInv'
  BY <1>11, LoopCarries DEF LoopClear, Moves, Ends, LoopAt
<1>12. ASSUME NEW l \in Task, LoopAsk(l) PROVE UpgradeInv'
  BY <1>12, LoopCarries DEF LoopAsk, Moves, Ends, LoopAt, flags
<1>13. ASSUME UNCHANGED <<flags, at, loop, hist>> PROVE UpgradeInv'
  BY <1>13 DEF UpgradeInv, CallerInv, CancelInv, CarryInv, Storing, Swapping, Carried,
               Lost, flags, hist
<1>14. ASSUME NEW c \in Client, Shake(c) PROVE UpgradeInv'
  BY <1>13, <1>14 DEF Shake, TestDraining, TestFull, HubSubscribe, Leave
<1>15. CASE UNCHANGED drainVars
  BY <1>13, <1>15 DEF drainVars
<1> QED
  BY <1>1, <1>2, <1>4, <1>5, <1>6, <1>7, <1>8, <1>9, <1>10, <1>11, <1>12, <1>14, <1>15,
     SwapCarries
  DEF DrainNext, Call, Loop, MainReturns, LoopExit

\* A drain that exits is not lost and is not taken back: when start_drain and
\* cancel_drain have returned, the node drains and a task is left that will
\* read drain_exits, save for the two races of UpgradeHasLoop.
THEOREM UpgradeHasLoopHolds == DrainSpec => []UpgradeHasLoop
<1>1. DrainInit => DrainTypeOK /\ OneLoop /\ UpgradeInv
  BY DEF DrainInit, DrainTypeOK, OneLoop, Running, Caller,
         UpgradeInv, CallerInv, CancelInv, CarryInv, Swapping
<1>2. DrainTypeOK /\ OneLoop /\ UpgradeInv /\ [DrainNext]_drainVars
      => DrainTypeOK' /\ OneLoop' /\ UpgradeInv'
  BY TypeNext, OneLoopNext, UpgradeNext
<1>3. UpgradeInv => UpgradeHasLoop
  BY DEF UpgradeInv, CarryInv, UpgradeHasLoop, Quiet, Storing, Swapping, Carried
<1> QED
  BY <1>1, <1>2, <1>3, PTL DEF DrainSpec
=============================================================================
