---------------------------- MODULE ResumeProofs ----------------------------
(***************************************************************************)
(* What a tinyuma process resumes from, whatever the one before it went    *)
(* through: the journal, from which it takes its dedup ring and its        *)
(* counter (Journal), and the saved block cursor (Ingest). For every       *)
(* number of sources, keys, racers and walks, every capacity and every     *)
(* placement of logs in blocks.                                            *)
(*                                                                         *)
(* The ring: a sequence names one record among all that the process or the *)
(* next one may still handle. That would not hold of the whole file, in    *)
(* which records that no reader sees any more may have a sequence that was *)
(* given out again; it holds of the window load_events keeps, since the    *)
(* window only moves forward.                                              *)
(*                                                                         *)
(* The counter: the newest record that was flushed is always near enough   *)
(* to the end of the file for the reader to keep it, provided that the     *)
(* ring is larger than what may be written behind it (Roomy).              *)
(*                                                                         *)
(* The cursor: the storage writer keeps the largest checkpoint and starts  *)
(* from what is saved, so it is never behind the file; that needs every    *)
(* checkpoint to be a block number, whichever task makes it.               *)
(*                                                                         *)
(* The blocks a lost socket missed: latest_block, where a gap-fill starts, *)
(* may be far above a block that some racer lost. It is never above one    *)
(* that no gap-fill owes, since every racer's channel is in the order of   *)
(* the blocks and every walk starts where nothing is missing (FollowInv).  *)
(***************************************************************************)
EXTENDS Journal, Ingest, FiniteSetTheorems, SequenceTheorems, TLAPS

-----------------------------------------------------------------------------
(* The journal *)


Entry == Record \cup {Torn}

\* How many entries of the file f the reader reads, and the ones it keeps.
Readable(f) ==
  LET torn == {i \in 1..Len(f) : f[i] = Torn}
  IN IF torn = {} THEN Len(f) ELSE (CHOOSE i \in torn : \A j \in torn : i <= j) - 1
Window(f) == Last(SubSeq(f, 1, Readable(f)), Capacity)

\* The records the process, or the next one, may still handle.
Handled == Entries(Window(file)) \cup Entries(buffer) \cup Entries(queue) \cup Entries(ring)
             \cup UNION {Entries(taken[s]) : s \in Source}

JournalTypes ==
  /\ up \in BOOLEAN /\ sequence \in Nat
  /\ taken \in [Source -> Seq(Record)]
  /\ ring \in Seq(Record) /\ queue \in Seq(Record) /\ buffer \in Seq(Record)
  /\ file \in Seq(Entry)

\* Nothing of a process is left when it is down.
Gone == ~up => /\ ring = <<>> /\ queue = <<>> /\ buffer = <<>>
               /\ taken = [s \in Source |-> <<>>]

\* A sequence names one record among those that may be handled again, and the
\* process numbers on above them all.
Named ==
  /\ \A x, y \in Handled : x.seq = y.seq => x = y
  /\ up => \A x \in Handled : x.seq <= sequence

\* The dedup ring.
RingKeys ==
  /\ Len(ring) <= Capacity
  /\ \A i, j \in 1..Len(ring) : i # j => ring[i].key # ring[j].key

JournalInv == JournalTypes /\ Gone /\ Named /\ RingKeys

-----------------------------------------------------------------------------
(* Induction *)

\* Every set of naturals that is not empty has a least element.
LEMMA LeastNat ==
  ASSUME NEW T, T \subseteq Nat, T # {}
  PROVE  \E x \in T : \A y \in T : x <= y
<1> DEFINE R == OpToRel(<, Nat)
<1>1. IsWellFoundedOn(R, Nat)
  BY NatLessThanWellFounded
<1>2. \A x, y \in Nat : x < y => <<x, y>> \in R
  BY DEF OpToRel
<1> HIDE DEF R
<1>3. PICK x \in T : \A y \in T : ~(<<y, x>> \in R)
  BY <1>1, WFMin
<1>4. \A y \in T : ~(y < x)
  BY <1>2, <1>3, Zenon
<1>5. \A y \in T : x <= y
  BY <1>4
<1> QED BY <1>5

\* What holds at 0 and passes from n to n + 1 holds of every n up to m.
LEMMA UptoInduction ==
  ASSUME NEW m \in Nat, NEW S, 0 \in S, \A n \in Nat : n < m /\ n \in S => n + 1 \in S
  PROVE  m \in S
<1> DEFINE T == (0..m) \ S
<1> SUFFICES ASSUME T # {} PROVE FALSE
  OBVIOUS
<1>0. T \subseteq Nat
  OBVIOUS
<1>1. PICK x \in T : \A y \in T : x <= y
  <2> HIDE DEF T
  <2> QED BY <1>0, LeastNat
<1>2. x - 1 \in Nat /\ x - 1 < m /\ x - 1 \in S /\ (x - 1) + 1 = x
  BY <1>1
<1> QED BY <1>1, <1>2

-----------------------------------------------------------------------------
(* Sequences *)

\* The entries of the sequences that the operations of Journal make.
LEMMA EntriesEmpty == Entries(<<>>) = {}
  BY DEF Entries

LEMMA EntriesAppend ==
  ASSUME NEW S, NEW q \in Seq(S), NEW x \in S
  PROVE  Append(q, x) \in Seq(S) /\ Entries(Append(q, x)) = Entries(q) \cup {x}
<1>1. /\ Len(Append(q, x)) = Len(q) + 1 /\ Len(q) \in Nat /\ Append(q, x)[Len(q) + 1] = x
      /\ \A i \in 1..Len(q) : Append(q, x)[i] = q[i]
  OBVIOUS
<1>2. \A i \in 1..(Len(q) + 1) : i \in 1..Len(q) \/ i = Len(q) + 1
  BY <1>1
<1>3. Len(q) + 1 \in 1..(Len(q) + 1) /\ 1..Len(q) \subseteq 1..(Len(q) + 1)
  BY <1>1
<1> QED BY <1>1, <1>2, <1>3 DEF Entries

LEMMA EntriesTail ==
  ASSUME NEW S, NEW q \in Seq(S), q # <<>>
  PROVE  /\ Tail(q) \in Seq(S) /\ Entries(Tail(q)) \subseteq Entries(q)
         /\ Head(q) \in S /\ Head(q) \in Entries(q)
<1>1. /\ Len(q) \in Nat /\ Len(q) >= 1 /\ Tail(q) \in Seq(S) /\ Head(q) = q[1] /\ q[1] \in S
      /\ Len(Tail(q)) = Len(q) - 1
      /\ \A i \in 1..(Len(q) - 1) : Tail(q)[i] = q[i + 1]
  OBVIOUS
<1>2. \A i \in 1..(Len(q) - 1) : i + 1 \in 1..Len(q)
  BY <1>1
<1>3. 1 \in 1..Len(q)
  BY <1>1
<1> QED BY <1>1, <1>2, <1>3 DEF Entries

LEMMA EntriesSub ==
  ASSUME NEW S, NEW q \in Seq(S), NEW m \in 1..(Len(q) + 1), NEW n \in 0..Len(q), m <= n + 1
  PROVE  /\ SubSeq(q, m, n) \in Seq(S) /\ Len(SubSeq(q, m, n)) = n - m + 1
         /\ \A i \in 1..(n - m + 1) : SubSeq(q, m, n)[i] = q[m + i - 1]
         /\ Entries(SubSeq(q, m, n)) = {q[i] : i \in m..n}
<1>1. /\ SubSeq(q, m, n) \in Seq(S) /\ Len(SubSeq(q, m, n)) = n - m + 1
      /\ \A i \in 1..(n - m + 1) : SubSeq(q, m, n)[i] = q[m + i - 1]
  OBVIOUS
<1>2. \A i \in 1..(n - m + 1) : m + i - 1 \in m..n
  OBVIOUS
<1>3. \A j \in m..n : j - m + 1 \in 1..(n - m + 1) /\ m + (j - m + 1) - 1 = j
  OBVIOUS
<1>4. \A j \in m..n : SubSeq(q, m, n)[j - m + 1] = q[j]
  BY <1>1, <1>3
<1> DEFINE r == SubSeq(q, m, n)
           k == n - m + 1
<1>5. Entries(r) = {r[i] : i \in 1..k}
  BY <1>1 DEF Entries
<1>6. {r[i] : i \in 1..k} = {q[i] : i \in m..n}
  <2>1. \A i \in 1..k : r[i] \in {q[j] : j \in m..n}
    BY <1>1, <1>2
  <2>2. \A j \in m..n : q[j] \in {r[i] : i \in 1..k}
    <3> HIDE DEF r
    <3> SUFFICES ASSUME NEW j \in m..n PROVE q[j] \in {r[i] : i \in 1..k}
      OBVIOUS
    <3>1. j - m + 1 \in 1..k /\ r[j - m + 1] = q[j]
      BY <1>3, <1>4 DEF r
    <3> QED BY <3>1
  <2> HIDE DEF r, k
  <2> QED BY <2>1, <2>2
<1> QED BY <1>1, <1>5, <1>6

\* The last n of a sequence are its places above Len(q) - n.
LEMMA LastFacts ==
  ASSUME NEW S, NEW q \in Seq(S), NEW n \in Nat
  PROVE  /\ Last(q, n) \in Seq(S) /\ Len(Last(q, n)) <= n /\ Len(Last(q, n)) <= Len(q)
         /\ \A i \in 1..Len(Last(q, n)) : /\ i + (Len(q) - Len(Last(q, n))) \in 1..Len(q)
                                          /\ Last(q, n)[i] = q[i + (Len(q) - Len(Last(q, n)))]
         /\ Entries(Last(q, n)) = {q[i] : i \in {j \in 1..Len(q) : j > Len(q) - n}}
<1>0. Len(q) \in Nat
  OBVIOUS
<1>1. CASE Len(q) <= n
  <2>1. Last(q, n) = q
    BY <1>1 DEF Last
  <2>2. {j \in 1..Len(q) : j > Len(q) - n} = 1..Len(q)
    BY <1>0, <1>1
  <2> QED BY <1>0, <1>1, <2>1, <2>2 DEF Entries
<1>2. CASE Len(q) > n
  <2> DEFINE m == Len(q) - n + 1
  <2>1. Last(q, n) = SubSeq(q, m, Len(q)) /\ m \in 1..(Len(q) + 1) /\ m <= Len(q) + 1 /\ m \in Nat
    BY <1>0, <1>2 DEF Last
  <2>2. {j \in 1..Len(q) : j > Len(q) - n} = m..Len(q)
    BY <1>0, <1>2
  <2>3. Len(q) - m + 1 = n /\ Len(q) \in 0..Len(q)
    BY <1>0
  <2>4. /\ Last(q, n) \in Seq(S) /\ Len(Last(q, n)) = n
        /\ \A i \in 1..n : Last(q, n)[i] = q[m + i - 1]
        /\ Entries(Last(q, n)) = {q[i] : i \in m..Len(q)}
    <3> HIDE DEF m
    <3>1. /\ SubSeq(q, m, Len(q)) \in Seq(S)
          /\ Len(SubSeq(q, m, Len(q))) = Len(q) - m + 1
          /\ \A i \in 1..(Len(q) - m + 1) : SubSeq(q, m, Len(q))[i] = q[m + i - 1]
          /\ Entries(SubSeq(q, m, Len(q))) = {q[i] : i \in m..Len(q)}
      BY <2>1, <2>3, EntriesSub
    <3> QED BY <2>1, <2>3, <3>1
  <2>5. \A i \in 1..n : m + i - 1 = i + (Len(q) - n) /\ i + (Len(q) - n) \in 1..Len(q)
    BY <1>0, <1>2
  <2> QED BY <1>0, <1>2, <2>2, <2>4, <2>5
<1> QED BY <1>0, <1>1, <1>2

\* A concatenation, place by place.
LEMMA ConcatFacts ==
  ASSUME NEW S, NEW q \in Seq(S), NEW r \in Seq(S)
  PROVE  /\ q \o r \in Seq(S) /\ Len(q \o r) = Len(q) + Len(r)
         /\ \A i \in 1..(Len(q) + Len(r)) :
              (q \o r)[i] = IF i <= Len(q) THEN q[i] ELSE r[i - Len(q)]
  OBVIOUS

-----------------------------------------------------------------------------
(* load_events *)

\* The reader stops before the first torn entry, or at the end.
LEMMA ReadableFacts ==
  ASSUME NEW f \in Seq(Entry)
  PROVE  /\ Readable(f) \in 0..Len(f)
         /\ \A j \in 1..Readable(f) : f[j] # Torn
         /\ Readable(f) < Len(f) => f[Readable(f) + 1] = Torn
<1> DEFINE torn == {i \in 1..Len(f) : f[i] = Torn}
<1>0. Len(f) \in Nat
  OBVIOUS
<1>1. CASE torn = {}
  <2>1. Readable(f) = Len(f)
    BY <1>1 DEF Readable
  <2> QED BY <1>0, <1>1, <2>1
<1>2. CASE torn # {}
  <2> DEFINE c == CHOOSE i \in torn : \A j \in torn : i <= j
  <2>1. torn \subseteq Nat
    BY <1>0
  <2>2. \E i \in torn : \A j \in torn : i <= j
    <3> HIDE DEF torn
    <3> QED BY <1>2, <2>1, LeastNat
  <2>3. c \in torn /\ \A j \in torn : c <= j
    <3> HIDE DEF torn
    <3> QED BY <2>2
  <2>4. Readable(f) = c - 1
    BY <1>2 DEF Readable
  <2> HIDE DEF c
  <2>5. c \in 1..Len(f) /\ f[c] = Torn
    BY <2>3
  <2>6. \A j \in 1..(c - 1) : f[j] # Torn
    <3> SUFFICES ASSUME NEW j \in 1..(c - 1), f[j] = Torn PROVE FALSE
      OBVIOUS
    <3>1. j \in torn
      BY <1>0, <2>5
    <3>2. c <= j
      BY <2>3, <3>1
    <3> QED BY <1>0, <2>5, <3>2
  <2> QED BY <1>0, <2>4, <2>5, <2>6
<1> QED BY <1>1, <1>2

\* The records the reader keeps, by their place in the file.
LEMMA WindowFacts ==
  ASSUME NEW f \in Seq(Entry)
  PROVE  /\ Window(f) \in Seq(Record) /\ Len(Window(f)) <= Capacity
         /\ Entries(Window(f)) =
              {f[i] : i \in {j \in 1..Readable(f) : j > Readable(f) - Capacity}}
<1> DEFINE e == Readable(f)
           q == SubSeq(f, 1, e)
<1>1. e \in 0..Len(f) /\ Len(f) \in Nat /\ \A j \in 1..e : f[j] # Torn
  BY ReadableFacts
<1> HIDE DEF e
<1>2. 1 \in 1..(Len(f) + 1) /\ 1 <= e + 1 /\ e - 1 + 1 = e /\ Capacity \in Nat
  BY <1>1, JournalAssumption
<1>3. /\ q \in Seq(Entry) /\ Len(q) = e
      /\ \A i \in 1..e : q[i] = f[1 + i - 1]
  BY <1>1, <1>2, EntriesSub
<1>4. \A i \in 1..e : q[i] = f[i] /\ q[i] \in Record
  <2>1. \A i \in 1..e : 1 + i - 1 = i /\ i \in 1..Len(f)
    BY <1>1
  <2>2. \A i \in 1..e : f[i] \in Entry
    BY <2>1
  <2> QED BY <1>1, <1>3, <2>1, <2>2 DEF Entry
<1>5. q \in Seq(Record)
  <2>1. q = [i \in 1..e |-> q[i]]
    <3> HIDE DEF q
    <3> QED BY <1>3
  <2>2. e \in Nat
    BY <1>1
  <2> HIDE DEF q
  <2>3. q \in [1..e -> Record]
    BY <1>4, <2>1
  <2> QED BY <2>2, <2>3
<1> HIDE DEF q
<1>6. Window(f) = Last(q, Capacity)
  BY DEF Window, q, e
<1>7. /\ Last(q, Capacity) \in Seq(Record) /\ Len(Last(q, Capacity)) <= Capacity
      /\ Entries(Last(q, Capacity)) = {q[i] : i \in {j \in 1..e : j > e - Capacity}}
  BY <1>2, <1>3, <1>5, LastFacts
<1>8. {q[i] : i \in {j \in 1..e : j > e - Capacity}}
        = {f[i] : i \in {j \in 1..e : j > e - Capacity}}
  BY <1>4
<1> QED BY <1>6, <1>7, <1>8 DEF e

\* The window only moves forward: what an append makes readable is appended.
LEMMA WindowGrows ==
  ASSUME NEW f \in Seq(Entry), NEW x \in Seq(Entry)
  PROVE  /\ f \o x \in Seq(Entry)
         /\ Entries(Window(f \o x)) \subseteq Entries(Window(f)) \cup (Entries(x) \cap Record)
<1> DEFINE g == f \o x
           e == Readable(f)
           d == Readable(g)
<1>1. /\ g \in Seq(Entry) /\ Len(g) = Len(f) + Len(x) /\ Len(f) \in Nat /\ Len(x) \in Nat
      /\ \A i \in 1..(Len(f) + Len(x)) : g[i] = IF i <= Len(f) THEN f[i] ELSE x[i - Len(f)]
  BY ConcatFacts
<1> HIDE DEF g
<1>2. /\ e \in 0..Len(f) /\ \A j \in 1..e : f[j] # Torn
      /\ e < Len(f) => f[e + 1] = Torn
  BY ReadableFacts
<1>3. /\ d \in 0..Len(g) /\ \A j \in 1..d : g[j] # Torn
      /\ d < Len(g) => g[d + 1] = Torn
  BY <1>1, ReadableFacts
<1>4. Entries(Window(f)) = {f[i] : i \in {j \in 1..e : j > e - Capacity}}
  BY WindowFacts
<1>5. /\ Entries(Window(g)) = {g[i] : i \in {j \in 1..d : j > d - Capacity}}
      /\ Window(g) \in Seq(Record)
  BY <1>1, WindowFacts
<1> HIDE DEF e, d
<1>6. e <= d
  <2> SUFFICES ASSUME d < e PROVE FALSE
    BY <1>1, <1>2, <1>3
  <2>1. d + 1 \in 1..e /\ d + 1 <= Len(f) /\ d < Len(g) /\ d + 1 \in 1..(Len(f) + Len(x))
    BY <1>1, <1>2, <1>3
  <2> QED BY <1>1, <1>2, <1>3, <2>1
<1>7. e < Len(f) => d = e
  <2> SUFFICES ASSUME e < Len(f), e < d PROVE FALSE
    BY <1>1, <1>2, <1>3, <1>6
  <2>1. e + 1 \in 1..d /\ e + 1 <= Len(f) /\ e + 1 \in 1..(Len(f) + Len(x))
    BY <1>1, <1>2, <1>3
  <2> QED BY <1>1, <1>2, <1>3, <2>1
<1>8. ASSUME NEW i \in 1..d, i > d - Capacity
      PROVE  g[i] \in Entries(Window(f)) \cup (Entries(x) \cap Record)
  <2>0. Capacity \in Nat /\ i \in Nat
    BY <1>1, <1>3, JournalAssumption
  <2>1. CASE i <= e
    <3>1. i \in 1..e /\ i > e - Capacity /\ g[i] = f[i]
      BY <1>1, <1>2, <1>3, <1>6, <1>8, <2>0, <2>1
    <3> QED BY <1>4, <3>1
  <2>2. CASE i > e
    <3>1. i > Len(f) /\ i <= Len(f) + Len(x)
      BY <1>1, <1>2, <1>3, <1>7, <2>0, <2>2
    <3>2. g[i] = x[i - Len(f)] /\ i - Len(f) \in 1..Len(x)
      BY <1>1, <2>0, <3>1
    <3>3. g[i] \in Entries(x)
      BY <3>2 DEF Entries
    <3>4. g[i] # Torn /\ g[i] \in Entry
      BY <1>1, <1>3, <1>8, <2>0, <3>1
    <3> QED BY <3>3, <3>4 DEF Entry
  <2> QED BY <1>1, <1>2, <2>0, <2>1, <2>2
<1>9. Entries(Window(g)) \subseteq Entries(Window(f)) \cup (Entries(x) \cap Record)
  BY <1>5, <1>8
<1> QED BY <1>1, <1>9 DEF g

\* A file without a torn entry.
LEMMA WindowWhole ==
  ASSUME NEW f \in Seq(Record)
  PROVE  f \in Seq(Entry) /\ Entries(Window(f)) \subseteq Entries(f)
<1>1. f \in Seq(Entry)
  BY DEF Entry
<1>2. Readable(f) \in 0..Len(f) /\ Len(f) \in Nat
  BY <1>1, ReadableFacts
<1>3. 1..Readable(f) \subseteq 1..Len(f)
  BY <1>2
<1>4. Entries(Window(f)) = {f[i] : i \in {j \in 1..Readable(f) : j > Readable(f) - Capacity}}
  BY <1>1, WindowFacts
<1> QED BY <1>1, <1>3, <1>4 DEF Entries

-----------------------------------------------------------------------------
(* The recovery *)

\* The fields of a record.
LEMMA RecordFields == \A r \in Record : r.key \in Key /\ r.seq \in Nat
  BY DEF Record

\* The largest sequence of some records.
LEMMA MaxSeqFacts ==
  ASSUME NEW q \in Seq(Record)
  PROVE  /\ MaxSeq(Entries(q)) \in Nat /\ \A r \in Entries(q) : r.seq <= MaxSeq(Entries(q))
         /\ MaxSeq(Entries(q)) \in {0} \cup {r.seq : r \in Entries(q)}
<1> DEFINE m == Len(q)
           N == {0} \cup {r.seq : r \in Entries(q)}
           S == {n \in Nat : \E b \in Nat : \A i \in 1..m : i <= n => q[i].seq <= b}
<1>0. m \in Nat /\ \A i \in 1..m : q[i] \in Record
  OBVIOUS
<1>1. \A i \in 1..m : q[i].seq \in Nat
  BY <1>0, RecordFields
<1>2. 0 \in S
  BY <1>0
<1>3. ASSUME NEW n \in Nat, n < m, n \in S PROVE n + 1 \in S
  <2>1. PICK b \in Nat : \A i \in 1..m : i <= n => q[i].seq <= b
    BY <1>3
  <2>2. n + 1 \in 1..m
    BY <1>0, <1>3
  <2>3. q[n + 1].seq \in Nat /\ b + q[n + 1].seq \in Nat
    BY <1>1, <2>2
  <2>4. \A i \in 1..m : i <= n + 1 => q[i].seq <= b + q[n + 1].seq
    <3> SUFFICES ASSUME NEW i \in 1..m, i <= n + 1 PROVE q[i].seq <= b + q[n + 1].seq
      OBVIOUS
    <3>1. q[i].seq \in Nat
      BY <1>1
    <3>2. i <= n \/ i = n + 1
      BY <1>0
    <3> QED BY <2>1, <2>3, <3>1, <3>2
  <2>5. \E c \in Nat : \A i \in 1..m : i <= n + 1 => q[i].seq <= c
    <3> DEFINE c == b + q[n + 1].seq
    <3>1. c \in Nat /\ \A i \in 1..m : i <= n + 1 => q[i].seq <= c
      BY <2>3, <2>4
    <3> HIDE DEF c
    <3> QED BY <3>1
  <2> HIDE DEF m
  <2> QED BY <2>5
<1>4. m \in S
  <2> HIDE DEF S
  <2> QED BY <1>0, <1>2, <1>3, UptoInduction
<1>5. PICK b \in Nat : \A i \in 1..m : q[i].seq <= b
  <2>1. PICK b \in Nat : \A i \in 1..m : i <= m => q[i].seq <= b
    BY <1>4
  <2>2. \A i \in 1..m : i <= m
    BY <1>0
  <2> HIDE DEF m
  <2>3. \A i \in 1..m : q[i].seq <= b
    BY <2>1, <2>2
  <2> QED BY <2>3
<1>6. N \subseteq Nat /\ N # {} /\ \A x \in N : x <= b
  BY <1>1, <1>5 DEF Entries
<1>7. \E x \in N : \A y \in N : y <= x
  <2> HIDE DEF N
  <2> DEFINE U == {b - x : x \in N}
  <2>1. U \subseteq Nat /\ U # {}
    <3>1. \A x \in N : b - x \in Nat
      BY <1>6
    <3> QED BY <1>6, <3>1
  <2>2. PICK u \in U : \A y \in U : u <= y
    <3> HIDE DEF U
    <3> QED BY <2>1, LeastNat
  <2>3. PICK x \in N : u = b - x
    BY <2>2
  <2>4. \A y \in N : y <= x
    <3> SUFFICES ASSUME NEW y \in N PROVE y <= x
      OBVIOUS
    <3>1. b - x <= b - y
      BY <2>2, <2>3
    <3> QED BY <1>6, <2>3, <3>1
  <2> QED BY <2>3, <2>4
<1>8. \E x \in N : \A r \in Entries(q) : r.seq <= x
  BY <1>7
<1>9. MaxSeq(Entries(q)) \in N /\ \A r \in Entries(q) : r.seq <= MaxSeq(Entries(q))
  BY <1>8 DEF MaxSeq
<1> QED BY <1>6, <1>9

\* The recursion of Inserted.
InsertStep(q, f, n) ==
  IF n = 0 THEN <<>>
  ELSE IF q[n].key \in Keys(f[n - 1]) THEN f[n - 1] ELSE Append(f[n - 1], q[n])

\* There is a function that satisfies it.
LEMMA InsertedExists ==
  ASSUME NEW q, NEW m \in Nat
  PROVE  \E f : f = [n \in 0..m |-> InsertStep(q, f, n)]
<1> DEFINE S == {k \in Nat : \E f : f = [n \in 0..k |-> InsertStep(q, f, n)]}
<1>1. 0 \in S
  <2> DEFINE f == [n \in 0..0 |-> <<>>]
  <2>1. \A n \in 0..0 : InsertStep(q, f, n) = <<>>
    BY DEF InsertStep
  <2>2. f = [n \in 0..0 |-> InsertStep(q, f, n)]
    BY <2>1
  <2> QED BY <2>2
<1>2. ASSUME NEW k \in Nat, k \in S PROVE k + 1 \in S
  <2>1. PICK f : f = [n \in 0..k |-> InsertStep(q, f, n)]
    BY <1>2
  <2> DEFINE g == [n \in 0..(k + 1) |-> IF n \in 0..k THEN f[n] ELSE InsertStep(q, f, n)]
  <2>2. \A n \in 0..(k + 1) : g[n] = InsertStep(q, f, n)
    BY <2>1
  <2>3. \A n \in 0..(k + 1) : n # 0 => g[n - 1] = f[n - 1]
    OBVIOUS
  <2>4. g = [n \in 0..(k + 1) |-> g[n]]
    OBVIOUS
  <2> HIDE DEF g
  <2>5. \A n \in 0..(k + 1) : g[n] = InsertStep(q, g, n)
    BY <2>2, <2>3 DEF InsertStep
  <2>6. g = [n \in 0..(k + 1) |-> InsertStep(q, g, n)]
    BY <2>4, <2>5
  <2> QED BY <2>6
<1> HIDE DEF S
<1>3. m \in S
  BY <1>1, <1>2, UptoInduction
<1> QED BY <1>3 DEF S

\* No key twice.
OneEach(q) == \A i, j \in 1..Len(q) : i # j => q[i].key # q[j].key

\* insert keeps the keys apart, and so does dropping the oldest records.
LEMMA OneEachAppend ==
  ASSUME NEW q \in Seq(Record), NEW x \in Record, OneEach(q), x.key \notin Keys(q)
  PROVE  OneEach(Append(q, x))
<1>1. /\ Len(Append(q, x)) = Len(q) + 1 /\ Len(q) \in Nat /\ Append(q, x)[Len(q) + 1] = x
      /\ \A i \in 1..Len(q) : Append(q, x)[i] = q[i]
  OBVIOUS
<1>2. \A i \in 1..Len(q) : q[i].key # x.key
  BY DEF Keys, Entries
<1>3. \A i \in 1..(Len(q) + 1) : i \in 1..Len(q) \/ i = Len(q) + 1
  BY <1>1
<1> QED BY <1>1, <1>2, <1>3 DEF OneEach

LEMMA OneEachLast ==
  ASSUME NEW q \in Seq(Record), NEW n \in Nat, OneEach(q)
  PROVE  OneEach(Last(q, n))
<1> DEFINE l == Last(q, n)
           d == Len(q) - Len(l)
<1>1. /\ l \in Seq(Record) /\ Len(l) \in Nat /\ Len(q) \in Nat
      /\ \A i \in 1..Len(l) : i + d \in 1..Len(q) /\ l[i] = q[i + d]
  BY LastFacts
<1> HIDE DEF l
<1>2. d \in Int /\ \A i, j \in 1..Len(l) : i # j => i + d # j + d
  BY <1>1
<1> HIDE DEF d
<1>3. OneEach(l)
  BY <1>1, <1>2 DEF OneEach
<1> QED BY <1>3 DEF l

\* The ring that is recovered from some records: each key once.
LEMMA InsertedFacts ==
  ASSUME NEW q \in Seq(Record)
  PROVE  /\ Inserted(q) \in Seq(Record) /\ Len(Inserted(q)) <= Len(q)
         /\ Entries(Inserted(q)) \subseteq Entries(q) /\ OneEach(Inserted(q))
<1> DEFINE m == Len(q)
           f == CHOOSE f : f = [n \in 0..m |-> InsertStep(q, f, n)]
           Good(r, n) == /\ r \in Seq(Record) /\ Len(r) <= n
                         /\ Entries(r) \subseteq Entries(q) /\ OneEach(r)
           S == {n \in 0..m : Good(f[n], n)}
<1>0. m \in Nat
  OBVIOUS
<1>1. Inserted(q) = f[m]
  BY DEF Inserted, InsertStep
<1>2. f = [n \in 0..m |-> InsertStep(q, f, n)]
  BY <1>0, InsertedExists
<1> HIDE DEF f
<1>3. \A n \in 0..m : f[n] = InsertStep(q, f, n)
  BY <1>2
<1>4. 0 \in S
  <2>1. f[0] = <<>>
    BY <1>0, <1>3 DEF InsertStep
  <2>2. Good(<<>>, 0)
    BY EntriesEmpty DEF OneEach
  <2> HIDE DEF Good
  <2>3. 0 \in 0..m
    BY <1>0
  <2> QED BY <2>1, <2>2, <2>3
<1>5. ASSUME NEW n \in Nat, n < m, n \in S PROVE n + 1 \in S
  <2> DEFINE r == f[n]
             x == q[n + 1]
  <2>1. n + 1 \in 1..m /\ n + 1 \in 0..m /\ n + 1 # 0 /\ (n + 1) - 1 = n
    BY <1>0, <1>5
  <2>2. x \in Record /\ x \in Entries(q)
    BY <2>1 DEF Entries
  <2>3. Good(r, n)
    BY <1>5
  <2>4. f[n + 1] = IF x.key \in Keys(r) THEN r ELSE Append(r, x)
    BY <1>3, <2>1 DEF InsertStep
  <2> HIDE DEF r, x
  <2>5. CASE x.key \in Keys(r)
    <3>1. Good(r, n + 1)
      BY <2>3
    <3> QED BY <2>1, <2>4, <2>5, <3>1
  <2>6. CASE x.key \notin Keys(r)
    <3>1. Append(r, x) \in Seq(Record) /\ Entries(Append(r, x)) = Entries(r) \cup {x}
      BY <2>2, <2>3, EntriesAppend
    <3>2. Len(Append(r, x)) = Len(r) + 1 /\ Len(r) \in Nat
      BY <2>3
    <3>3. OneEach(Append(r, x))
      BY <2>2, <2>3, <2>6, OneEachAppend
    <3>4. Good(Append(r, x), n + 1)
      BY <2>2, <2>3, <3>1, <3>2, <3>3
    <3> HIDE DEF Good
    <3> QED BY <2>1, <2>4, <2>6, <3>4
  <2> QED BY <2>5, <2>6
<1>6. m \in S
  <2> HIDE DEF S
  <2> QED BY <1>0, <1>4, <1>5, UptoInduction
<1> QED BY <1>1, <1>6

-----------------------------------------------------------------------------
(* The invariant *)

\* The first process starts with nothing.
LEMMA JournalStart == JournalInit => JournalInv
<1> SUFFICES ASSUME JournalInit PROVE JournalInv
  OBVIOUS
<1>1. JournalTypes
  <2>1. <<>> \in Seq(Record) /\ <<>> \in Seq(Entry)
    OBVIOUS
  <2> QED BY <2>1 DEF JournalInit, JournalTypes
<1>2. Entries(Window(file)) = {}
  <2>1. file = <<>> /\ <<>> \in Seq(Record)
    BY DEF JournalInit
  <2> QED BY <2>1, WindowWhole, EntriesEmpty
<1>3. Handled = {}
  <2>1. \A s \in Source : taken[s] = <<>>
    BY DEF JournalInit
  <2>2. UNION {Entries(taken[s]) : s \in Source} = {}
    BY <2>1, EntriesEmpty
  <2> QED BY <1>2, <2>2, EntriesEmpty DEF JournalInit, Handled
<1>4. RingKeys
  BY JournalAssumption DEF JournalInit, RingKeys
<1> QED BY <1>1, <1>3, <1>4 DEF JournalInv, Named, Gone, JournalInit

\* A step after which less may be handled, and that gives no sequence away.
LEMMA Fewer ==
  ASSUME Named, Handled' \subseteq Handled, up' => up /\ sequence' = sequence
  PROVE  Named'
  BY DEF Named

\* A source's records are among those that may be handled.
LEMMA TakenHandled ==
  ASSUME NEW s \in Source
  PROVE  Entries(taken[s]) \subseteq Handled
  BY DEF Handled

\* A number above all that may be handled.
LEMMA KeepNumber ==
  ASSUME JournalInv, NEW s \in Source, NEW k \in Key, Number(s, k)
  PROVE  JournalInv'
<1> DEFINE r == [key |-> k, seq |-> sequence + 1]
<1> USE DEF JournalInv
<1>1. up /\ r \in Record /\ r.seq = sequence + 1 /\ sequence \in Nat /\ sequence' = sequence + 1
  BY DEF Number, JournalTypes, Record
<1>2. taken' = [taken EXCEPT ![s] = <<r>>]
  BY DEF Number
<1>3. UNCHANGED <<up, ring, queue, buffer, file>>
  BY DEF Number, diskVars
<1> HIDE DEF r
<1>4. <<r>> \in Seq(Record) /\ Entries(<<r>>) = {r}
  BY <1>1 DEF Entries
<1>5. JournalTypes'
  BY <1>1, <1>2, <1>3, <1>4 DEF JournalTypes
<1>6. Handled' \subseteq Handled \cup {r}
  <2>1. \A o \in Source : Entries(taken'[o]) \subseteq Entries(taken[o]) \cup {r}
    BY <1>2, <1>4 DEF JournalTypes
  <2> QED BY <1>3, <2>1 DEF Handled
<1>7. Handled \subseteq Record
  <2>1. \A q \in Seq(Record) : Entries(q) \subseteq Record
    BY DEF Entries
  <2>2. \A o \in Source : taken[o] \in Seq(Record)
    BY DEF JournalTypes
  <2>3. Window(file) \in Seq(Record)
    BY WindowFacts DEF JournalTypes
  <2> QED BY <2>1, <2>2, <2>3 DEF Handled, JournalTypes
<1>8. \A x \in Handled : x.seq \in Nat /\ x.seq <= sequence
  BY <1>1, <1>7, RecordFields DEF Named
<1>9. Named'
  <2>1. \A x, y \in Handled \cup {r} : x.seq = y.seq => x = y
    BY <1>1, <1>8 DEF Named
  <2>2. \A x \in Handled \cup {r} : x.seq <= sequence + 1
    BY <1>1, <1>8
  <2> QED BY <1>1, <1>6, <2>1, <2>2 DEF Named
<1>10. Gone' /\ RingKeys'
  BY <1>1, <1>3 DEF Gone, RingKeys
<1> QED BY <1>5, <1>9, <1>10

\* insert moves a record that was taken, or drops it.
LEMMA KeepInsert ==
  ASSUME JournalInv, NEW s \in Source, InsertEvent(s)
  PROVE  JournalInv'
<1> DEFINE r == taken[s][1]
<1> USE DEF JournalInv
<1>1. taken[s] \in Seq(Record) /\ taken[s] # <<>>
  BY DEF InsertEvent, JournalTypes
<1>2. r \in Record /\ r \in Entries(taken[s])
  <2>1. 1 \in 1..Len(taken[s])
    BY <1>1
  <2> QED BY <1>1, <2>1 DEF Entries
<1>3. /\ up /\ UNCHANGED <<up, sequence, buffer, file>>
      /\ taken' = [taken EXCEPT ![s] = <<>>]
  BY DEF InsertEvent, diskVars
<1>4. \/ UNCHANGED <<ring, queue>>
      \/ /\ r.key \notin Keys(ring)
         /\ ring' = Last(Append(ring, r), Capacity)
         /\ queue' \in {queue, Append(queue, r)}
  BY DEF InsertEvent
<1> HIDE DEF r
<1>5. Append(ring, r) \in Seq(Record) /\ Entries(Append(ring, r)) = Entries(ring) \cup {r}
  BY <1>2, EntriesAppend DEF JournalTypes
<1>6. Append(queue, r) \in Seq(Record) /\ Entries(Append(queue, r)) = Entries(queue) \cup {r}
  BY <1>2, EntriesAppend DEF JournalTypes
<1>7. Capacity \in Nat
  BY JournalAssumption
<1> DEFINE a == Append(ring, r)
           l == Last(a, Capacity)
<1>8. l \in Seq(Record) /\ Len(l) <= Capacity /\ Entries(l) \subseteq Entries(ring) \cup {r}
  <2>1. /\ l \in Seq(Record) /\ Len(l) <= Capacity
        /\ Entries(l) = {a[i] : i \in {j \in 1..Len(a) : j > Len(a) - Capacity}}
    <3>1. a \in Seq(Record)
      BY <1>5
    <3> HIDE DEF a
    <3> QED BY <1>7, <3>1, LastFacts
  <2>2. {a[i] : i \in {j \in 1..Len(a) : j > Len(a) - Capacity}} \subseteq Entries(a)
    BY DEF Entries
  <2> HIDE DEF a, l
  <2>3. Entries(a) = Entries(ring) \cup {r}
    BY <1>5 DEF a
  <2> QED BY <2>1, <2>2, <2>3
<1>9. r.key \notin Keys(ring) => OneEach(l)
  <2> SUFFICES ASSUME r.key \notin Keys(ring) PROVE OneEach(l)
    OBVIOUS
  <2>1. OneEach(ring) /\ ring \in Seq(Record)
    BY DEF RingKeys, OneEach, JournalTypes
  <2>2. OneEach(a)
    BY <1>2, <2>1, OneEachAppend
  <2> QED BY <1>5, <1>7, <2>2, OneEachLast
<1>10. /\ ring' \in Seq(Record) /\ Entries(ring') \subseteq Entries(ring) \cup {r}
       /\ Len(ring') <= Capacity /\ OneEach(ring')
  <2>1. OneEach(ring) /\ ring \in Seq(Record) /\ Len(ring) <= Capacity
    BY DEF RingKeys, OneEach, JournalTypes
  <2> HIDE DEF a, l
  <2>2. CASE UNCHANGED <<ring, queue>>
    BY <2>1, <2>2
  <2>3. CASE r.key \notin Keys(ring) /\ ring' = l
    BY <1>8, <1>9, <2>3
  <2> QED BY <1>4, <2>2, <2>3 DEF a, l
<1>11. queue' \in Seq(Record) /\ Entries(queue') \subseteq Entries(queue) \cup {r}
  BY <1>4, <1>6 DEF JournalTypes
<1> HIDE DEF a, l
<1>12. /\ taken' \in [Source -> Seq(Record)]
       /\ \A o \in Source : Entries(taken'[o]) \subseteq Entries(taken[o])
  BY <1>3, EntriesEmpty DEF JournalTypes
<1>13. JournalTypes'
  BY <1>3, <1>10, <1>11, <1>12 DEF JournalTypes
<1>14. r \in Handled
  BY <1>2, TakenHandled
<1>15. Handled' \subseteq Handled
  <2>1. Handled' \subseteq Handled \cup {r}
    BY <1>3, <1>10, <1>11, <1>12 DEF Handled
  <2> QED BY <1>14, <2>1
<1>16. Named'
  BY <1>3, <1>15, Fewer
<1>17. Gone' /\ RingKeys'
  BY <1>3, <1>10 DEF Gone, RingKeys, OneEach
<1> QED BY <1>13, <1>16, <1>17

\* The storage writer moves records on: from the channel to its buffer, from
\* there to the file.
LEMMA KeepWrite ==
  ASSUME JournalInv, up, UNCHANGED <<up, sequence, taken, ring>>,
         queue' \in Seq(Record), buffer' \in Seq(Record), file' \in Seq(Entry),
         Entries(queue') \subseteq Handled, Entries(buffer') \subseteq Handled,
         Entries(Window(file')) \subseteq Handled
  PROVE  JournalInv'
<1> USE DEF JournalInv
<1>1. JournalTypes'
  BY DEF JournalTypes
<1>2. Handled' \subseteq Handled
  BY DEF Handled
<1>3. Named'
  BY <1>2, Fewer
<1> QED BY <1>1, <1>3 DEF Gone, RingKeys

\* What the end of the process leaves in the file is all that is left.
LEMMA KeepDown ==
  ASSUME JournalInv, up, Down, file' \in Seq(Entry), Entries(Window(file')) \subseteq Handled
  PROVE  JournalInv'
<1> USE DEF JournalInv
<1>1. /\ ~up' /\ up' \in BOOLEAN /\ sequence' = 0 /\ taken' = [s \in Source |-> <<>>]
      /\ ring' = <<>> /\ queue' = <<>> /\ buffer' = <<>>
  BY DEF Down
<1>2. <<>> \in Seq(Record) /\ Len(<<>>) = 0
  OBVIOUS
<1>3. JournalTypes'
  BY <1>1, <1>2 DEF JournalTypes
<1>4. Handled' \subseteq Handled
  <2>1. \A s \in Source : Entries(taken'[s]) = {}
    BY <1>1, EntriesEmpty
  <2> QED BY <1>1, <2>1, EntriesEmpty DEF Handled
<1>5. Named'
  BY <1>1, <1>4, Fewer
<1>6. RingKeys'
  BY <1>1, <1>2, JournalAssumption DEF RingKeys
<1> QED BY <1>1, <1>3, <1>5, <1>6 DEF Gone

\* The steps of the storage writer: append, rewrite and flush.
LEMMA KeepWriter ==
  ASSUME JournalInv, AppendEvent \/ AppendAndRewrite \/ FlushTick
  PROVE  JournalInv'
<1> USE DEF JournalInv
<1>0. /\ queue \in Seq(Record) /\ buffer \in Seq(Record) /\ ring \in Seq(Record)
      /\ file \in Seq(Entry) /\ <<>> \in Seq(Record)
      /\ Entries(queue) \subseteq Handled /\ Entries(buffer) \subseteq Handled
      /\ Entries(ring) \subseteq Handled /\ Entries(Window(file)) \subseteq Handled
  BY DEF JournalTypes, Handled
<1>1. queue # <<>> =>
        /\ Tail(queue) \in Seq(Record) /\ Entries(Tail(queue)) \subseteq Handled
        /\ Append(buffer, Head(queue)) \in Seq(Record)
        /\ Entries(Append(buffer, Head(queue))) \subseteq Handled
  <2> SUFFICES ASSUME queue # <<>>
               PROVE  /\ Tail(queue) \in Seq(Record) /\ Entries(Tail(queue)) \subseteq Handled
                      /\ Append(buffer, Head(queue)) \in Seq(Record)
                      /\ Entries(Append(buffer, Head(queue))) \subseteq Handled
    OBVIOUS
  <2>1. /\ Tail(queue) \in Seq(Record) /\ Entries(Tail(queue)) \subseteq Entries(queue)
        /\ Head(queue) \in Record /\ Head(queue) \in Entries(queue)
    BY <1>0, EntriesTail
  <2>2. /\ Append(buffer, Head(queue)) \in Seq(Record)
        /\ Entries(Append(buffer, Head(queue))) = Entries(buffer) \cup {Head(queue)}
    BY <1>0, <2>1, EntriesAppend
  <2> QED BY <1>0, <2>1, <2>2
<1>2. ASSUME NEW x \in Seq(Record), Entries(x) \subseteq Handled
      PROVE  file \o x \in Seq(Entry) /\ Entries(Window(file \o x)) \subseteq Handled
  <2>1. x \in Seq(Entry)
    BY DEF Entry
  <2>2. /\ file \o x \in Seq(Entry)
        /\ Entries(Window(file \o x)) \subseteq Entries(Window(file)) \cup (Entries(x) \cap Record)
    BY <1>0, <2>1, WindowGrows
  <2> QED BY <1>0, <1>2, <2>2
<1>3. CASE AppendEvent
  <2>1. /\ up /\ queue # <<>> /\ queue' = Tail(queue) /\ buffer' = Append(buffer, Head(queue))
        /\ UNCHANGED <<up, sequence, taken, ring, file>>
    BY <1>3 DEF AppendEvent, diskVars
  <2> QED BY <1>0, <1>1, <2>1, KeepWrite
<1>4. CASE AppendAndRewrite
  <2>1. /\ up /\ queue # <<>> /\ queue' = Tail(queue) /\ buffer' = <<>>
        /\ UNCHANGED <<up, sequence, taken, ring>>
        /\ file' = ring \/ file' = file \o Append(buffer, Head(queue))
    BY <1>4 DEF AppendAndRewrite
  <2>2. file' \in Seq(Entry) /\ Entries(Window(file')) \subseteq Handled
    <3>1. CASE file' = ring
      BY <1>0, <3>1, WindowWhole
    <3>2. CASE file' = file \o Append(buffer, Head(queue))
      BY <1>1, <1>2, <2>1, <3>2
    <3> QED BY <2>1, <3>1, <3>2
  <2> QED BY <1>0, <1>1, <2>1, <2>2, EntriesEmpty, KeepWrite
<1>5. CASE FlushTick
  <2>1. /\ up /\ file' = file \o buffer /\ buffer' = <<>>
        /\ UNCHANGED <<up, sequence, taken, ring, queue>>
    BY <1>5 DEF FlushTick
  <2>2. file' \in Seq(Entry) /\ Entries(Window(file')) \subseteq Handled
    BY <1>0, <1>2, <2>1
  <2> QED BY <1>0, <2>1, <2>2, EntriesEmpty, KeepWrite
<1> QED BY <1>3, <1>4, <1>5

\* A shutdown flushes the buffer; a crash writes a part of it, cut anywhere.
LEMMA KeepEnd ==
  ASSUME JournalInv, Shutdown \/ Crash
  PROVE  JournalInv'
<1> USE DEF JournalInv
<1>0. /\ buffer \in Seq(Record) /\ buffer \in Seq(Entry) /\ file \in Seq(Entry)
      /\ Len(buffer) \in Nat
      /\ Entries(buffer) \subseteq Handled /\ Entries(Window(file)) \subseteq Handled
  BY DEF JournalTypes, Handled, Entry
<1>1. ASSUME NEW x \in Seq(Entry), Entries(x) \cap Record \subseteq Handled
      PROVE  file \o x \in Seq(Entry) /\ Entries(Window(file \o x)) \subseteq Handled
  BY <1>0, <1>1, WindowGrows
<1>2. CASE Shutdown
  <2>1. up /\ Down /\ file' = file \o buffer
    BY <1>2 DEF Shutdown
  <2> QED BY <1>0, <1>1, <2>1, KeepDown
<1>3. CASE Crash
  <2>1. up /\ Down
    BY <1>3 DEF Crash
  <2>2. PICK n \in 0..Len(buffer) : \/ file' = file \o SubSeq(buffer, 1, n)
                                    \/ file' = file \o Append(SubSeq(buffer, 1, n), Torn)
    BY <1>3 DEF Crash
  <2> DEFINE b == SubSeq(buffer, 1, n)
  <2>3. b \in Seq(Entry) /\ Entries(b) \subseteq Handled
    <3>1. 1 \in 1..(Len(buffer) + 1) /\ 1 <= n + 1
      BY <1>0
    <3>2. b \in Seq(Entry) /\ Entries(b) = {buffer[i] : i \in 1..n}
      BY <1>0, <3>1, EntriesSub
    <3>3. 1..n \subseteq 1..Len(buffer)
      BY <1>0
    <3> HIDE DEF b
    <3>4. Entries(b) \subseteq Entries(buffer)
      BY <3>2, <3>3 DEF Entries
    <3> QED BY <1>0, <3>2, <3>4
  <2> HIDE DEF b
  <2>4. Append(b, Torn) \in Seq(Entry) /\ Entries(Append(b, Torn)) = Entries(b) \cup {Torn}
    BY <2>3, EntriesAppend DEF Entry
  <2>5. Torn \notin Record
    BY TornAssumption
  <2>6. file' \in Seq(Entry) /\ Entries(Window(file')) \subseteq Handled
    <3>1. CASE file' = file \o b
      BY <1>1, <2>3, <3>1
    <3>2. CASE file' = file \o Append(b, Torn)
      BY <1>1, <2>3, <2>4, <2>5, <3>2
    <3> QED BY <2>2, <3>1, <3>2 DEF b
  <2> QED BY <2>1, <2>6, KeepDown
<1> QED BY <1>2, <1>3

\* The next process counts on from the largest sequence it reads.
LEMMA KeepRestart ==
  ASSUME JournalInv, Restart
  PROVE  JournalInv'
<1> DEFINE w == Window(file)
<1> USE DEF JournalInv
<1>1. LoadEvents = w
  BY DEF LoadEvents, Window, Readable
<1>2. /\ ~up /\ up' = TRUE /\ sequence' = MaxSeq(Entries(w)) /\ ring' = Inserted(w)
      /\ UNCHANGED <<taken, queue, buffer, file>>
  BY <1>1 DEF Restart, diskVars
<1>3. w \in Seq(Record) /\ Len(w) <= Capacity /\ Len(w) \in Nat
  BY WindowFacts DEF JournalTypes
<1> HIDE DEF w
<1>4. MaxSeq(Entries(w)) \in Nat /\ \A r \in Entries(w) : r.seq <= MaxSeq(Entries(w))
  BY <1>3, MaxSeqFacts
<1>5. /\ Inserted(w) \in Seq(Record) /\ Len(Inserted(w)) <= Len(w)
      /\ Entries(Inserted(w)) \subseteq Entries(w) /\ OneEach(Inserted(w))
  BY <1>3, InsertedFacts
<1>6. JournalTypes'
  BY <1>2, <1>4, <1>5 DEF JournalTypes
<1>7. Handled' \subseteq Entries(w) /\ Entries(w) \subseteq Handled
  <2>1. queue = <<>> /\ buffer = <<>> /\ \A s \in Source : taken[s] = <<>>
    BY <1>2 DEF Gone
  <2> QED BY <1>2, <1>5, <2>1, EntriesEmpty DEF Handled, w
<1>8. Named'
  BY <1>2, <1>4, <1>7 DEF Named
<1>9. RingKeys'
  <2>1. Len(Inserted(w)) \in Nat /\ Capacity \in Nat
    BY <1>5, JournalAssumption
  <2> QED BY <1>2, <1>3, <1>5, <2>1 DEF RingKeys, OneEach
<1> QED BY <1>2, <1>6, <1>8, <1>9 DEF Gone

\* Every step keeps the invariant.
LEMMA JournalStep == JournalInv /\ [JournalNext]_journalVars => JournalInv'
<1> SUFFICES ASSUME JournalInv, [JournalNext]_journalVars PROVE JournalInv'
  OBVIOUS
<1>1. CASE UNCHANGED journalVars
  <2>1. UNCHANGED <<up, sequence, taken, ring, queue, buffer, file>>
    BY <1>1 DEF journalVars, runVars, diskVars
  <2> QED BY <2>1 DEF JournalInv, JournalTypes, Gone, Named, RingKeys, Handled
<1> QED BY <1>1, KeepNumber, KeepInsert, KeepWriter, KeepEnd, KeepRestart DEF JournalNext

\* Every process runs on a ring without a key or a sequence twice, numbered
\* below its counter, whatever the journal went through before.
THEOREM RingDistinctHolds == JournalSpec => []RingDistinct
<1>1. JournalInv => RingDistinct
  <2> SUFFICES ASSUME JournalInv PROVE RingDistinct
    OBVIOUS
  <2>1. Entries(ring) \subseteq Handled
    BY DEF Handled
  <2>2. \A i \in 1..Len(ring) : ring[i] \in Handled
    BY <2>1 DEF Entries
  <2> QED BY <2>1, <2>2 DEF JournalInv, RingDistinct, RingKeys, Named
<1> QED BY <1>1, JournalStart, JournalStep, PTL DEF JournalSpec

-----------------------------------------------------------------------------
(* The counter after a restart *)

\* The records on their way to the file, in the order in which they are written.
Written == (file \o buffer) \o queue

\* The sources that still hold a record numbered below n.
Late(n) == {s \in Source : taken[s] # <<>> /\ taken[s][1].seq < n}

\* Room in the ring, and so in what load_events keeps, for all that may be
\* written behind the newest record: a full channel, less the command that makes
\* the writer compact, and a record of every other source. config.rs does not
\* check it; its defaults (a ring of 10000, a channel of 8192) leave it.
Roomy == IsFiniteSet(Source) /\ Capacity >= QueueCapacity + Cardinality(Source) - 1
Slack == QueueCapacity + Cardinality(Source) - 2

\* Place i of q holds the newest of its first n records.
Newest(q, i, n) == i \in 1..n /\ \A j \in 1..n : q[j].seq <= q[i].seq

\* Nothing the process has written, will write or has in its ring is above n.
Below(n) ==
  /\ \A j \in 1..Len(Written) : Written[j].seq <= n
  /\ \A j \in 1..Len(ring) : ring[j].seq <= n
  /\ durable <= n

\* Wherever the writing stops, the newest record is near the end.
CutsNear ==
  \A n \in Len(file)..Len(Written) :
    n > 0 => \E i \in 1..n : Newest(Written, i, n) /\ n - i <= Slack

\* It will be so of what the sources still hold.
TailNear ==
  Len(Written) > 0 =>
    \E i \in 1..Len(Written) :
      /\ Newest(Written, i, Len(Written))
      /\ (Len(Written) - i) + Cardinality(Late(Written[i].seq)) <= Slack

\* Nothing has been inserted since the start, and what is numbered is newer than all.
Fresh ==
  /\ queue = <<>> /\ buffer = <<>>
  /\ \A s \in Source : taken[s] # <<>> => Below(taken[s][1].seq)

\* Otherwise the newest record of all is near the end of the ring.
RingTop ==
  \/ Fresh
  \/ \E i \in 1..Len(ring) :
       /\ Below(ring[i].seq)
       /\ (Len(ring) - i) + Cardinality(Late(ring[i].seq)) <= Cardinality(Source) - 1

\* What was flushed last is still in the file, or something newer is.
DurableRead == durable = 0 \/ \E i \in 1..Len(file) : durable <= file[i].seq

\* What lets the next process number on, until an entry is cut short.
Recoverable ==
  ~tore => /\ file \in Seq(Record) /\ durable \in Nat /\ Len(queue) <= QueueCapacity
           /\ CutsNear /\ TailNear /\ RingTop /\ DurableRead
           /\ up => Below(sequence)

\* A concatenation of three, place by place.
LEMMA ThreeParts ==
  ASSUME NEW S, NEW f \in Seq(S), NEW b \in Seq(S), NEW q \in Seq(S)
  PROVE  /\ (f \o b) \o q \in Seq(S) /\ Len((f \o b) \o q) = Len(f) + Len(b) + Len(q)
         /\ Len(f) \in Nat /\ Len(b) \in Nat /\ Len(q) \in Nat
         /\ \A i \in 1..Len(f) : ((f \o b) \o q)[i] = f[i]
         /\ \A i \in 1..Len(b) : ((f \o b) \o q)[Len(f) + i] = b[i]
         /\ \A i \in 1..Len(q) : ((f \o b) \o q)[Len(f) + Len(b) + i] = q[i]
<1> DEFINE fb == f \o b
<1>1. /\ fb \in Seq(S) /\ Len(fb) = Len(f) + Len(b)
      /\ \A i \in 1..(Len(f) + Len(b)) : fb[i] = IF i <= Len(f) THEN f[i] ELSE b[i - Len(f)]
  BY ConcatFacts
<1> HIDE DEF fb
<1>2. /\ fb \o q \in Seq(S) /\ Len(fb \o q) = Len(fb) + Len(q)
      /\ \A i \in 1..(Len(fb) + Len(q)) :
           (fb \o q)[i] = IF i <= Len(fb) THEN fb[i] ELSE q[i - Len(fb)]
  <2>1. fb \in Seq(S)
    BY <1>1
  <2> QED BY <2>1, ConcatFacts
<1>3. Len(f) \in Nat /\ Len(b) \in Nat /\ Len(q) \in Nat
  OBVIOUS
<1>4. \A i \in 1..Len(f) : (fb \o q)[i] = f[i]
  BY <1>1, <1>2, <1>3
<1>5. ASSUME NEW i \in 1..Len(b) PROVE (fb \o q)[Len(f) + i] = b[i]
  <2> DEFINE k == Len(f) + i
  <2>1. /\ k \in 1..(Len(f) + Len(b)) /\ k \in 1..(Len(fb) + Len(q)) /\ k <= Len(fb)
        /\ ~(k <= Len(f)) /\ k - Len(f) = i
    BY <1>1, <1>3
  <2> HIDE DEF k
  <2>2. (fb \o q)[k] = b[i]
    BY <1>1, <1>2, <2>1
  <2> QED BY <2>2 DEF k
<1>6. ASSUME NEW i \in 1..Len(q) PROVE (fb \o q)[Len(f) + Len(b) + i] = q[i]
  <2> DEFINE k == Len(f) + Len(b) + i
  <2>1. k \in 1..(Len(fb) + Len(q)) /\ ~(k <= Len(fb)) /\ k - Len(fb) = i
    BY <1>1, <1>3
  <2> HIDE DEF k
  <2>2. (fb \o q)[k] = q[i]
    BY <1>2, <2>1
  <2> QED BY <2>2 DEF k
<1> QED BY <1>1, <1>2, <1>3, <1>4, <1>5, <1>6 DEF fb

\* Types of the parts, and of the whole.
LEMMA WrittenFacts ==
  ASSUME JournalTypes, file \in Seq(Record)
  PROVE  /\ Written \in Seq(Record) /\ Len(Written) = Len(file) + Len(buffer) + Len(queue)
         /\ Len(file) \in Nat /\ Len(buffer) \in Nat /\ Len(queue) \in Nat /\ Len(ring) \in Nat
         /\ \A i \in 1..Len(file) : Written[i] = file[i]
         /\ \A i \in 1..Len(Written) : Written[i] \in Record /\ Written[i].seq \in Nat
         /\ \A i \in 1..Len(ring) : ring[i] \in Record /\ ring[i].seq \in Nat
<1>1. buffer \in Seq(Record) /\ queue \in Seq(Record) /\ ring \in Seq(Record)
  BY DEF JournalTypes
<1>2. /\ Written \in Seq(Record) /\ Len(Written) = Len(file) + Len(buffer) + Len(queue)
      /\ Len(file) \in Nat /\ Len(buffer) \in Nat /\ Len(queue) \in Nat
      /\ \A i \in 1..Len(file) : Written[i] = file[i]
  BY <1>1, ThreeParts DEF Written
<1>3. \A i \in 1..Len(Written) : Written[i] \in Record
  BY <1>2
<1>4. Len(ring) \in Nat /\ \A i \in 1..Len(ring) : ring[i] \in Record
  BY <1>1
<1> QED BY <1>2, <1>3, <1>4, RecordFields

\* The sources behind are some of the sources.
LEMMA LateFacts ==
  ASSUME Roomy, NEW n
  PROVE  /\ IsFiniteSet(Late(n)) /\ Cardinality(Late(n)) \in Nat
         /\ Cardinality(Source) \in Nat /\ Cardinality(Late(n)) <= Cardinality(Source)
<1>1. Late(n) \in SUBSET Source /\ IsFiniteSet(Source)
  BY DEF Late, Roomy
<1>2. IsFiniteSet(Late(n)) /\ Cardinality(Late(n)) <= Cardinality(Source)
  BY <1>1, FS_Subset
<1> QED BY <1>1, <1>2, FS_CardinalityType

\* Moving a record from the channel to the buffer and on to the file keeps the order.
LEMMA Moves ==
  ASSUME NEW f \in Seq(Record), NEW b \in Seq(Record), NEW q \in Seq(Record), q # <<>>
  PROVE  (f \o Append(b, Head(q))) \o Tail(q) = (f \o b) \o q
<1> DEFINE h == Head(q)
           t == Tail(q)
           a == Append(b, h)
<1>1. h \in Record /\ t \in Seq(Record) /\ Len(t) = Len(q) - 1
      /\ h = q[1] /\ (\A i \in 1..Len(t) : t[i] = q[i + 1]) /\ Len(q) \in Nat /\ Len(q) >= 1
  OBVIOUS
<1>2. a \in Seq(Record) /\ Len(a) = Len(b) + 1 /\ Len(b) \in Nat /\ Len(f) \in Nat
      /\ a[Len(b) + 1] = h /\ \A i \in 1..Len(b) : a[i] = b[i]
  BY <1>1
<1> HIDE DEF h, t, a
<1>3. /\ f \o a \in Seq(Record) /\ Len(f \o a) = Len(f) + Len(a)
      /\ \A i \in 1..(Len(f) + Len(a)) : (f \o a)[i] = IF i <= Len(f) THEN f[i] ELSE a[i - Len(f)]
  BY <1>2, ConcatFacts
<1>4. /\ f \o b \in Seq(Record) /\ Len(f \o b) = Len(f) + Len(b)
      /\ \A i \in 1..(Len(f) + Len(b)) : (f \o b)[i] = IF i <= Len(f) THEN f[i] ELSE b[i - Len(f)]
  BY <1>2, ConcatFacts
<1> DEFINE fa == f \o a
           fb == f \o b
<1> HIDE DEF fa, fb
<1>5. /\ fa \o t \in Seq(Record) /\ Len(fa \o t) = Len(fa) + Len(t)
      /\ \A i \in 1..(Len(fa) + Len(t)) :
           (fa \o t)[i] = IF i <= Len(fa) THEN fa[i] ELSE t[i - Len(fa)]
  <2>1. fa \in Seq(Record)
    BY <1>3 DEF fa
  <2> QED BY <1>1, <2>1, ConcatFacts
<1>6. /\ fb \o q \in Seq(Record) /\ Len(fb \o q) = Len(fb) + Len(q)
      /\ \A i \in 1..(Len(fb) + Len(q)) :
           (fb \o q)[i] = IF i <= Len(fb) THEN fb[i] ELSE q[i - Len(fb)]
  <2>1. fb \in Seq(Record)
    BY <1>4 DEF fb
  <2> QED BY <2>1, ConcatFacts
<1>7. Len(fa \o t) = Len(fb \o q)
  BY <1>1, <1>2, <1>3, <1>4, <1>5, <1>6 DEF fa, fb
<1>8. ASSUME NEW i \in 1..Len(fa \o t) PROVE (fa \o t)[i] = (fb \o q)[i]
  <2>0. i \in Nat /\ i >= 1 /\ Len(fa) = Len(f) + Len(b) + 1 /\ Len(fb) = Len(f) + Len(b)
        /\ i <= Len(f) + Len(b) + Len(q)
    BY <1>1, <1>2, <1>3, <1>4, <1>5 DEF fa, fb
  <2>1. CASE i <= Len(f)
    BY <1>1, <1>2, <1>3, <1>4, <1>5, <1>6, <2>0, <2>1 DEF fa, fb
  <2>2. CASE i > Len(f) /\ i <= Len(f) + Len(b)
    <3>1. i - Len(f) \in 1..Len(b) /\ i - Len(f) <= Len(a)
      BY <1>2, <2>0, <2>2
    <3>2. (fa \o t)[i] = a[i - Len(f)]
      BY <1>1, <1>2, <1>3, <1>5, <2>0, <2>2 DEF fa
    <3>3. (fb \o q)[i] = b[i - Len(f)]
      BY <1>1, <1>2, <1>4, <1>6, <2>0, <2>2 DEF fb
    <3> QED BY <1>2, <3>1, <3>2, <3>3
  <2>3. CASE i = Len(f) + Len(b) + 1
    <3>1. (fa \o t)[i] = a[Len(b) + 1]
      <4>1. i - Len(f) = Len(b) + 1 /\ i \in 1..(Len(f) + Len(a)) /\ ~(i <= Len(f))
        BY <1>2, <2>3
      <4>2. fa[i] = a[i - Len(f)]
        BY <1>3, <4>1 DEF fa
      <4>3. (fa \o t)[i] = fa[i]
        BY <1>1, <1>2, <1>5, <2>0, <2>3
      <4> QED BY <4>1, <4>2, <4>3
    <3>2. (fb \o q)[i] = q[1]
      <4>1. i - Len(fb) = 1 /\ ~(i <= Len(fb)) /\ i \in 1..(Len(fb) + Len(q))
        BY <1>1, <1>2, <2>0, <2>3
      <4> QED BY <1>6, <4>1
    <3> QED BY <1>1, <1>2, <3>1, <3>2
  <2>4. CASE i > Len(f) + Len(b) + 1
    <3>1. i - Len(fa) \in 1..Len(t) /\ (i - Len(fa)) + 1 = i - Len(fb) /\ ~(i <= Len(fa)) /\ ~(i <= Len(fb))
          /\ i \in 1..(Len(fa) + Len(t)) /\ i \in 1..(Len(fb) + Len(q))
      BY <1>1, <1>2, <2>0, <2>4
    <3>2. (fa \o t)[i] = t[i - Len(fa)] /\ (fb \o q)[i] = q[i - Len(fb)]
      BY <1>5, <1>6, <3>1
    <3>3. t[i - Len(fa)] = q[(i - Len(fa)) + 1]
      BY <1>1, <3>1
    <3> QED BY <3>1, <3>2, <3>3
  <2> QED BY <1>2, <2>0, <2>1, <2>2, <2>3, <2>4
<1>9. fa \o t = fb \o q
  <2> DEFINE u == fa \o t
             v == fb \o q
  <2>1. u \in Seq(Record) /\ v \in Seq(Record) /\ Len(u) = Len(v) /\ \A i \in 1..Len(u) : u[i] = v[i]
    BY <1>5, <1>6, <1>7, <1>8
  <2> HIDE DEF u, v
  <2>2. u = v
    BY <2>1, SeqEqual
  <2> QED BY <2>2 DEF u, v
<1> QED BY <1>9 DEF fa, fb, h, t, a

\* A step of the writer that keeps the order of what is written.
LEMMA KeepOrder ==
  ASSUME JournalTypes, JournalTypes', Recoverable, ~tore, ~tore', up,
         UNCHANGED <<sequence, taken, ring>>,
         Written' = Written, file' \in Seq(Record),
         Len(file) <= Len(file'), Len(file') <= Len(Written),
         queue # <<>> \/ buffer # <<>>, Len(queue') <= QueueCapacity,
         durable' \in Nat, DurableRead',
         durable' = durable \/ \E j \in 1..Len(Written) : durable' <= Written[j].seq
  PROVE  Recoverable'
<1> USE DEF Recoverable
<1>1. /\ Len(file) \in Nat /\ Len(Written) \in Nat /\ Len(file') \in Nat
      /\ \A i \in 1..Len(Written) : Written[i].seq \in Nat
      /\ \A i \in 1..Len(ring) : ring[i].seq \in Nat
  BY WrittenFacts
<1>2. ASSUME NEW n \in Nat, Below(n) PROVE Below(n)'
  BY <1>1, <1>2 DEF Below
<1>3. CutsNear'
  <2>1. Len(file')..Len(Written) \subseteq Len(file)..Len(Written)
    BY <1>1
  <2> QED BY <2>1 DEF CutsNear, Newest
<1>4. TailNear'
  BY DEF TailNear, Newest, Late
<1>5. RingTop'
  <2>1. ~Fresh
    BY DEF Fresh
  <2>2. PICK i \in 1..Len(ring) :
          /\ Below(ring[i].seq)
          /\ (Len(ring) - i) + Cardinality(Late(ring[i].seq)) <= Cardinality(Source) - 1
    BY <2>1 DEF RingTop
  <2>3. Below(ring[i].seq)'
    BY <1>1, <1>2, <2>2
  <2>4. Late(ring[i].seq)' = Late(ring[i].seq)
    BY DEF Late
  <2> QED BY <2>2, <2>3, <2>4 DEF RingTop
<1>6. Below(sequence)'
  BY <1>2 DEF JournalTypes
<1> QED BY <1>3, <1>4, <1>5, <1>6

\* Newer takes one of the two.
LEMMA NewerFacts ==
  ASSUME NEW a \in Nat, NEW b \in Nat
  PROVE  /\ Newer(a, b) \in {a, b} /\ Newer(a, b) \in Nat
         /\ a <= Newer(a, b) /\ b <= Newer(a, b)
  BY DEF Newer

\* The largest sequence of some records is 0 or the sequence of one of them.
LEMMA MaxSeqTaken ==
  ASSUME NEW q \in Seq(Record)
  PROVE  MaxSeq(Entries(q)) = 0 \/ \E i \in 1..Len(q) : MaxSeq(Entries(q)) = q[i].seq
<1>1. MaxSeq(Entries(q)) \in {0} \cup {r.seq : r \in Entries(q)}
  BY MaxSeqFacts
<1> QED BY <1>1 DEF Entries

\* What a flush of x to the file leaves.
LEMMA FlushReads ==
  ASSUME file \in Seq(Record), NEW x \in Seq(Record), DurableRead, durable \in Nat,
         file' = file \o x, durable' = Newer(durable, MaxSeq(Entries(x)))
  PROVE  /\ file' \in Seq(Record) /\ Len(file') = Len(file) + Len(x)
         /\ durable' \in Nat /\ DurableRead'
         /\ durable' = durable \/ \E j \in 1..Len(file') : durable' <= file'[j].seq
<1>1. /\ file \o x \in Seq(Record) /\ Len(file \o x) = Len(file) + Len(x)
      /\ \A i \in 1..(Len(file) + Len(x)) :
           (file \o x)[i] = IF i <= Len(file) THEN file[i] ELSE x[i - Len(file)]
      /\ Len(file) \in Nat /\ Len(x) \in Nat
  BY ConcatFacts
<1> DEFINE m == MaxSeq(Entries(x))
<1>2. m \in Nat /\ (m = 0 \/ \E i \in 1..Len(x) : m = x[i].seq)
  BY MaxSeqFacts, MaxSeqTaken
<1> HIDE DEF m
<1>3. durable' \in {durable, m} /\ durable' \in Nat /\ durable <= durable' /\ m <= durable'
  BY <1>2, NewerFacts DEF m
<1>4. durable = 0 \/ \E j \in 1..Len(file') : durable <= file'[j].seq
  <2> SUFFICES ASSUME NEW i \in 1..Len(file), durable <= file[i].seq
               PROVE  \E j \in 1..Len(file') : durable <= file'[j].seq
    BY DEF DurableRead
  <2>1. i \in 1..Len(file') /\ file'[i] = file[i]
    BY <1>1
  <2> QED BY <2>1
<1>5. m = 0 \/ \E j \in 1..Len(file') : m <= file'[j].seq
  <2> SUFFICES ASSUME NEW i \in 1..Len(x), m = x[i].seq
               PROVE  \E j \in 1..Len(file') : m <= file'[j].seq
    BY <1>2
  <2> DEFINE j == Len(file) + i
  <2>1. j \in 1..(Len(file) + Len(x)) /\ ~(j <= Len(file)) /\ j - Len(file) = i
    BY <1>1
  <2> HIDE DEF j
  <2>2. j \in 1..Len(file') /\ file'[j] = x[i]
    BY <1>1, <2>1
  <2>3. m <= file'[j].seq
    BY <1>2, <2>2
  <2> QED BY <2>2, <2>3
<1>6. durable' = 0 \/ \E j \in 1..Len(file') : durable' <= file'[j].seq
  BY <1>3, <1>4, <1>5
<1>7. durable' = 0 => durable' = durable
  BY <1>3
<1> QED BY <1>1, <1>3, <1>6, <1>7 DEF DurableRead

\* The places of the file are the first places of what is written.
LEMMA FlushedWritten ==
  ASSUME JournalTypes', file' \in Seq(Record), Written' = Written,
         durable' = durable \/ \E j \in 1..Len(file') : durable' <= file'[j].seq
  PROVE  /\ Len(file') <= Len(Written)
         /\ durable' = durable \/ \E j \in 1..Len(Written) : durable' <= Written[j].seq
<1>1. /\ Len(Written') = Len(file') + Len(buffer') + Len(queue')
      /\ Len(file') \in Nat /\ Len(buffer') \in Nat /\ Len(queue') \in Nat
      /\ \A i \in 1..Len(file') : Written'[i] = file'[i]
  <2>1. buffer' \in Seq(Record) /\ queue' \in Seq(Record)
    BY DEF JournalTypes
  <2> DEFINE f == file'
             b == buffer'
             q == queue'
  <2>2. f \in Seq(Record) /\ b \in Seq(Record) /\ q \in Seq(Record) /\ Written' = (f \o b) \o q
    BY <2>1 DEF Written
  <2> HIDE DEF f, b, q
  <2>3. /\ Len((f \o b) \o q) = Len(f) + Len(b) + Len(q)
        /\ Len(f) \in Nat /\ Len(b) \in Nat /\ Len(q) \in Nat
        /\ \A i \in 1..Len(f) : ((f \o b) \o q)[i] = f[i]
    BY <2>2, ThreeParts
  <2> QED BY <2>2, <2>3 DEF f, b, q
<1>2. Len(file') <= Len(Written) /\ 1..Len(file') \subseteq 1..Len(Written)
  BY <1>1
<1> QED BY <1>1, <1>2

\* A command moves to the buffer, the buffer to the file.
LEMMA RecoverWrite ==
  ASSUME JournalInv, JournalInv', Recoverable, ~tore,
         AppendEvent \/ FlushTick
  PROVE  Recoverable'
<1> USE DEF Recoverable
<1>0. /\ JournalTypes /\ JournalTypes' /\ file \in Seq(Record) /\ buffer \in Seq(Record)
      /\ queue \in Seq(Record) /\ Len(file) \in Nat /\ Len(queue) \in Nat /\ Len(buffer) \in Nat
      /\ QueueCapacity \in Nat /\ durable \in Nat /\ DurableRead
  BY JournalAssumption DEF JournalInv, JournalTypes
<1>1. CASE AppendEvent
  <2>1. /\ up /\ queue # <<>> /\ queue' = Tail(queue) /\ buffer' = Append(buffer, Head(queue))
        /\ UNCHANGED <<sequence, taken, ring, file, durable, tore>>
    BY <1>1 DEF AppendEvent, diskVars
  <2>2. Written' = Written /\ Len(queue') <= QueueCapacity
    <3>1. /\ (file \o Append(buffer, Head(queue))) \o Tail(queue) = (file \o buffer) \o queue
          /\ Len(Tail(queue)) = Len(queue) - 1
      <4>1. /\ file \in Seq(Record) /\ buffer \in Seq(Record) /\ queue \in Seq(Record)
            /\ queue # <<>>
        BY <1>0, <2>1
      <4>2. (file \o Append(buffer, Head(queue))) \o Tail(queue) = (file \o buffer) \o queue
        BY <4>1, Moves
      <4>3. Len(Tail(queue)) = Len(queue) - 1
        BY <4>1
      <4> QED BY <4>2, <4>3
    <3>2. Written' = (file \o Append(buffer, Head(queue))) \o Tail(queue)
      BY <2>1, Zenon DEF Written
    <3>3. Written' = Written
      BY <3>1, <3>2, Zenon DEF Written
    <3>4. Len(queue') = Len(queue) - 1
      BY <2>1, <3>1, Zenon
    <3> QED BY <1>0, <3>3, <3>4
  <2>3. DurableRead'
    BY <1>0, <2>1 DEF DurableRead
  <2>4. Len(file) <= Len(Written)
    BY <1>0, WrittenFacts
  <2> QED BY <1>0, <2>1, <2>2, <2>3, <2>4, KeepOrder
<1>2. CASE FlushTick
  <2>1. /\ up /\ buffer # <<>> /\ file' = file \o buffer /\ buffer' = <<>>
        /\ durable' = Newer(durable, MaxSeq(Entries(buffer)))
        /\ UNCHANGED <<sequence, taken, ring, queue, tore>>
    BY <1>2 DEF FlushTick
  <2>2. file \o buffer \in Seq(Record)
    BY <1>0, ConcatFacts
  <2>3. Written' = Written
    BY <2>1, <2>2, ConcatEmptySeq DEF Written
  <2>4. /\ file' \in Seq(Record) /\ Len(file') = Len(file) + Len(buffer)
        /\ durable' \in Nat /\ DurableRead'
        /\ durable' = durable \/ \E j \in 1..Len(file') : durable' <= file'[j].seq
    BY <1>0, <2>1, FlushReads
  <2>5. /\ Len(file') <= Len(Written) /\ Len(file) <= Len(file')
        /\ durable' = durable \/ \E j \in 1..Len(Written) : durable' <= Written[j].seq
    BY <1>0, <2>3, <2>4, FlushedWritten
  <2> QED BY <1>0, <2>1, <2>3, <2>4, <2>5, KeepOrder
<1> QED BY <1>1, <1>2

\* The new file starts with the ring, whose end holds the newest record.
LEMMA RecoverRewrite ==
  ASSUME JournalInv, JournalInv', Roomy, Recoverable, ~tore, AppendAndRewrite
  PROVE  Recoverable'
<1> USE DEF Recoverable
<1> DEFINE x == Append(buffer, Head(queue))
           t == Tail(queue)
<1>0. /\ JournalTypes /\ JournalTypes' /\ file \in Seq(Record) /\ buffer \in Seq(Record)
      /\ queue \in Seq(Record) /\ Len(file) \in Nat /\ Len(queue) \in Nat /\ Len(buffer) \in Nat
      /\ QueueCapacity \in Nat /\ durable \in Nat /\ DurableRead
      /\ ring \in Seq(Record) /\ Len(ring) \in Nat
  BY JournalAssumption DEF JournalInv, JournalTypes
<1>1. /\ up /\ queue # <<>> /\ queue' = t /\ buffer' = <<>>
      /\ UNCHANGED <<up, sequence, taken, ring, tore>>
      /\ \/ file' = ring /\ durable' = Newer(durable, MaxSeq(Entries(x \o ring)))
         \/ file' = file \o x /\ durable' = Newer(durable, MaxSeq(Entries(x)))
  BY DEF AppendAndRewrite
<1>2. /\ (file \o x) \o t = Written /\ x \in Seq(Record) /\ t \in Seq(Record)
      /\ Len(x) = Len(buffer) + 1 /\ Len(t) = Len(queue) - 1 /\ Len(x) \in Nat /\ Len(t) \in Nat
  <2>1. queue # <<>>
    BY <1>1
  <2>2. /\ (file \o x) \o t = (file \o buffer) \o queue /\ x \in Seq(Record) /\ t \in Seq(Record)
        /\ Len(x) = Len(buffer) + 1 /\ Len(t) = Len(queue) - 1
    <3>1. /\ file \in Seq(Record) /\ buffer \in Seq(Record) /\ queue \in Seq(Record)
      BY <1>0
    <3>2. (file \o x) \o t = (file \o buffer) \o queue
      BY <2>1, <3>1, Moves
    <3>3. /\ x \in Seq(Record) /\ t \in Seq(Record)
          /\ Len(x) = Len(buffer) + 1 /\ Len(t) = Len(queue) - 1
      BY <2>1, <3>1
    <3> QED BY <3>2, <3>3, Zenon
  <2> HIDE DEF x, t
  <2> QED BY <2>2 DEF Written
<1> HIDE DEF x, t
<1>3. CASE file' = file \o x /\ durable' = Newer(durable, MaxSeq(Entries(x)))
  <2>1. file \o x \in Seq(Record)
    BY <1>0, <1>2, ConcatFacts
  <2>2. Written' = Written
    BY <1>1, <1>2, <1>3, <2>1, ConcatEmptySeq DEF Written
  <2>3. /\ file' \in Seq(Record) /\ Len(file') = Len(file) + Len(x)
        /\ durable' \in Nat /\ DurableRead'
        /\ durable' = durable \/ \E j \in 1..Len(file') : durable' <= file'[j].seq
    BY <1>0, <1>2, <1>3, FlushReads
  <2>4. /\ Len(file') <= Len(Written) /\ Len(file) <= Len(file') /\ Len(queue') <= QueueCapacity
        /\ durable' = durable \/ \E j \in 1..Len(Written) : durable' <= Written[j].seq
    BY <1>0, <1>1, <1>2, <2>2, <2>3, FlushedWritten
  <2> QED BY <1>0, <1>1, <2>2, <2>3, <2>4, KeepOrder
<1>4. CASE file' = ring /\ durable' = Newer(durable, MaxSeq(Entries(x \o ring)))
  <2>1. ~Fresh
    BY <1>1 DEF Fresh
  <2>2. PICK i \in 1..Len(ring) :
          /\ Below(ring[i].seq)
          /\ (Len(ring) - i) + Cardinality(Late(ring[i].seq)) <= Cardinality(Source) - 1
    BY <2>1 DEF RingTop
  <2> DEFINE n == ring[i].seq
             l == Cardinality(Late(n))
  <2>3. /\ n \in Nat /\ n <= sequence /\ sequence \in Nat
        /\ \A j \in 1..Len(ring) : ring[j].seq \in Nat /\ ring[j].seq <= n
        /\ \A j \in 1..Len(Written) : Written[j].seq \in Nat /\ Written[j].seq <= n
        /\ Len(Written) = Len(file) + Len(buffer) + Len(queue)
    BY <1>0, <1>1, <2>2, WrittenFacts DEF Below, JournalTypes
  <2>4. l \in Nat /\ Cardinality(Source) \in Nat
    BY LateFacts
  <2>5. Written' = ring \o t /\ file' \in Seq(Record)
    BY <1>0, <1>1, <1>4, ConcatEmptySeq DEF Written
  <2>6. /\ Len(ring \o t) = Len(ring) + Len(t) /\ Len(t) \in Nat
        /\ \A j \in 1..(Len(ring) + Len(t)) :
             (ring \o t)[j] = IF j <= Len(ring) THEN ring[j] ELSE t[j - Len(ring)]
    <3>1. t \in Seq(Record) /\ Len(t) \in Nat /\ ring \in Seq(Record)
      BY <1>0, <1>2
    <3> QED BY <3>1, ConcatFacts
  <2>7. /\ \A j \in 1..Len(x) : x[j].seq \in Nat /\ x[j].seq <= n
        /\ \A j \in 1..Len(t) : t[j].seq \in Nat /\ t[j].seq <= n
    <3>1. /\ Len(Written) = Len(file) + Len(x) + Len(t)
          /\ \A j \in 1..Len(x) : Written[Len(file) + j] = x[j]
          /\ \A j \in 1..Len(t) : Written[Len(file) + Len(x) + j] = t[j]
      <4>1. file \in Seq(Record) /\ x \in Seq(Record) /\ t \in Seq(Record)
        BY <1>0, <1>2
      <4>2. /\ Len((file \o x) \o t) = Len(file) + Len(x) + Len(t)
            /\ \A j \in 1..Len(x) : ((file \o x) \o t)[Len(file) + j] = x[j]
            /\ \A j \in 1..Len(t) : ((file \o x) \o t)[Len(file) + Len(x) + j] = t[j]
        BY <4>1, ThreeParts
      <4>3. Written = (file \o x) \o t
        BY <1>2
      <4> QED BY <4>2, <4>3, Zenon
    <3>2. /\ \A j \in 1..Len(x) : Len(file) + j \in 1..Len(Written)
          /\ \A j \in 1..Len(t) : Len(file) + Len(x) + j \in 1..Len(Written)
      BY <1>0, <1>2, <3>1
    <3> HIDE DEF n
    <3> QED BY <2>3, <3>1, <3>2
  <2>8. \A j \in 1..Len(Written') : Written'[j].seq \in Nat /\ Written'[j].seq <= n
    <3> SUFFICES ASSUME NEW j \in 1..(Len(ring) + Len(t)) PROVE (ring \o t)[j].seq \in Nat /\ (ring \o t)[j].seq <= n
      BY <2>5, <2>6
    <3>1. CASE j <= Len(ring)
      BY <1>0, <2>3, <2>6, <3>1
    <3>2. CASE j > Len(ring)
      <4>1. j - Len(ring) \in 1..Len(t)
        BY <1>0, <2>6, <3>2
      <4> QED BY <1>0, <2>6, <2>7, <3>2, <4>1
    <3> QED BY <1>0, <2>6, <3>1, <3>2
  <2>9. durable' \in Nat /\ durable' <= n
    <3> DEFINE m == MaxSeq(Entries(x \o ring))
    <3>1. /\ x \o ring \in Seq(Record) /\ Len(x \o ring) = Len(x) + Len(ring) /\ Len(x) \in Nat
          /\ \A j \in 1..(Len(x) + Len(ring)) :
               (x \o ring)[j] = IF j <= Len(x) THEN x[j] ELSE ring[j - Len(x)]
      <4>1. x \in Seq(Record) /\ Len(x) \in Nat /\ ring \in Seq(Record)
        BY <1>0, <1>2
      <4> QED BY <4>1, ConcatFacts
    <3>2. ASSUME NEW j \in 1..(Len(x) + Len(ring)) PROVE (x \o ring)[j].seq <= n
      <4>1. CASE j <= Len(x)
        BY <1>0, <2>7, <3>1, <4>1
      <4>2. CASE j > Len(x)
        <5>1. j - Len(x) \in 1..Len(ring)
          BY <1>0, <3>1, <4>2
        <5> QED BY <1>0, <2>3, <3>1, <4>2, <5>1
      <4> QED BY <1>0, <3>1, <4>1, <4>2
    <3>3. m \in Nat /\ (m = 0 \/ \E j \in 1..Len(x \o ring) : m = (x \o ring)[j].seq)
      BY <3>1, MaxSeqFacts, MaxSeqTaken
    <3>4. m <= n
      BY <2>3, <3>1, <3>2, <3>3
    <3>5. durable <= n
      BY <2>2 DEF Below
    <3> HIDE DEF m, n
    <3>6. durable' = Newer(durable, m)
      BY <1>4 DEF m
    <3> QED BY <1>0, <3>3, <3>4, <3>5, <3>6, NewerFacts
  <2>10. Below(n)'
    <3>1. \A j \in 1..Len(ring') : ring'[j].seq <= n'
      BY <1>1, <2>3
    <3>2. n' = n
      BY <1>1
    <3> QED BY <2>8, <2>9, <3>1, <3>2 DEF Below
  <2>11. Late(n)' = Late(n) /\ Late(n') = Late(n)
    BY <1>1 DEF Late
  <2>12. /\ Len(Written') = Len(ring) + Len(t) /\ i <= Len(ring)
         /\ \A c \in Len(ring)..(Len(ring) + Len(t)) : Newest(Written', i, c)
    <3>1. Written'[i] = ring[i] /\ Len(Written') = Len(ring) + Len(t) /\ i <= Len(ring) /\ i >= 1
      BY <1>0, <2>5, <2>6
    <3>2. ASSUME NEW c \in Len(ring)..(Len(ring) + Len(t)) PROVE i \in 1..c /\ 1..c \subseteq 1..Len(Written')
      BY <1>0, <2>6, <3>1
    <3> QED BY <2>8, <3>1, <3>2 DEF Newest
  <2>13. CutsNear'
    <3> SUFFICES ASSUME NEW c \in Len(ring)..(Len(ring) + Len(t)), c > 0
                 PROVE  \E k \in 1..c : Newest(Written', k, c) /\ c - k <= Slack
      BY <1>4, <2>12 DEF CutsNear, Newest, Slack
    <3>1. c - i <= Slack /\ i \in 1..c
      <4> HIDE DEF l
      <4>1. (Len(ring) - i) + l <= Cardinality(Source) - 1
        BY <2>2 DEF l
      <4>2. c <= Len(ring) + (Len(queue) - 1) /\ c >= Len(ring) /\ c \in Nat /\ Len(queue) <= QueueCapacity
        BY <1>0, <1>2
      <4>3. i \in 1..c
        BY <1>0, <4>2
      <4>4. c - i <= (Len(ring) - i) + (QueueCapacity - 1)
        BY <1>0, <4>2
      <4> QED BY <1>0, <2>4, <4>1, <4>2, <4>3, <4>4 DEF Slack
    <3> QED BY <2>12, <3>1
  <2>14. TailNear'
    <3>1. (Len(Written') - i) + l <= Slack /\ i \in 1..Len(Written')
      <4> HIDE DEF l
      <4>1. (Len(ring) - i) + l <= Cardinality(Source) - 1
        BY <2>2 DEF l
      <4>2. Len(Written') <= Len(ring) + (QueueCapacity - 1) /\ Len(Written') >= Len(ring)
        BY <1>0, <1>2, <2>6, <2>12
      <4>3. Len(Written') \in Nat /\ i \in 1..Len(Written')
        BY <1>0, <2>12, <4>2
      <4> QED BY <1>0, <2>4, <4>1, <4>2, <4>3 DEF Slack
    <3>2. Written'[i].seq = n
      BY <1>0, <2>5, <2>6
    <3>3. Newest(Written', i, Len(Written'))
      <4>1. Len(Written') \in Len(ring)..(Len(ring) + Len(t))
        BY <1>0, <2>6, <2>12
      <4> QED BY <2>12, <4>1, Zenon
    <3>4. Late(Written[i].seq)' = Late(n)
      <4> HIDE DEF n
      <4>1. Late(Written[i].seq)' = {s \in Source : taken'[s] # <<>> /\ taken'[s][1].seq < n}
        BY <3>2 DEF Late
      <4> QED BY <1>1, <4>1 DEF Late
    <3> QED BY <3>1, <3>3, <3>4 DEF TailNear, Newest, Slack
  <2>15. RingTop'
    BY <1>1, <2>2, <2>10, <2>11 DEF RingTop
  <2>16. DurableRead'
    BY <1>4, <2>9 DEF DurableRead
  <2>17. Below(sequence)'
    <3> HIDE DEF n
    <3> QED BY <1>1, <2>3, <2>8, <2>9 DEF Below
  <2> QED BY <1>0, <1>1, <1>2, <2>5, <2>9, <2>13, <2>14, <2>15, <2>16, <2>17
<1> QED BY <1>1, <1>3, <1>4

\* A new number is above everything.
LEMMA RecoverNumber ==
  ASSUME JournalInv, Recoverable, ~tore, NEW s \in Source, NEW k \in Key, Number(s, k)
  PROVE  Recoverable'
<1> USE DEF Recoverable
<1>0. JournalTypes /\ file \in Seq(Record) /\ sequence \in Nat /\ durable \in Nat
  BY DEF JournalInv, JournalTypes
<1>1. /\ up /\ taken[s] = <<>> /\ sequence' = sequence + 1
      /\ taken' = [taken EXCEPT ![s] = <<[key |-> k, seq |-> sequence + 1]>>]
      /\ UNCHANGED <<up, ring, queue, buffer, file, durable, tore>>
  BY DEF Number, diskVars
<1>2. /\ \A i \in 1..Len(Written) : Written[i].seq \in Nat /\ Written[i].seq <= sequence
      /\ \A i \in 1..Len(ring) : ring[i].seq \in Nat /\ ring[i].seq <= sequence
      /\ durable <= sequence
  BY <1>0, <1>1, WrittenFacts DEF Below
<1>3. /\ taken'[s] = <<[key |-> k, seq |-> sequence + 1]>> /\ taken'[s] # <<>>
      /\ taken'[s][1].seq = sequence + 1 /\ \A o \in Source \ {s} : taken'[o] = taken[o]
  BY <1>0, <1>1 DEF JournalTypes
<1>4. \A n \in Nat : n <= sequence =>
        {o \in Source : taken'[o] # <<>> /\ taken'[o][1].seq < n} = Late(n)
  <2> SUFFICES ASSUME NEW n \in Nat, n <= sequence, NEW o \in Source
               PROVE  taken'[o] # <<>> /\ taken'[o][1].seq < n <=> taken[o] # <<>> /\ taken[o][1].seq < n
    BY DEF Late
  <2>1. CASE o = s
    BY <1>0, <1>1, <1>3, <2>1
  <2>2. CASE o # s
    BY <1>3, <2>2
  <2> QED BY <2>1, <2>2
<1>5. Written' = Written
  BY <1>1 DEF Written
<1>6. CutsNear' /\ DurableRead'
  BY <1>1, <1>5 DEF CutsNear, DurableRead, Newest
<1>7. TailNear'
  <2> SUFFICES ASSUME Len(Written) > 0
               PROVE  \E i \in 1..Len(Written) :
                        /\ Newest(Written, i, Len(Written))
                        /\ (Len(Written) - i) + Cardinality(Late(Written[i].seq)') <= Slack
    BY <1>5 DEF TailNear, Late, Newest
  <2>1. PICK i \in 1..Len(Written) :
           /\ Newest(Written, i, Len(Written))
           /\ (Len(Written) - i) + Cardinality(Late(Written[i].seq)) <= Slack
    BY DEF TailNear
  <2>2. Late(Written[i].seq)' = Late(Written[i].seq)
    BY <1>2, <1>4, <1>5 DEF Late
  <2> QED BY <2>1, <2>2
<1>10. RingTop'
  <2>1. CASE Fresh
    <3>1. \A o \in Source : taken'[o] # <<>> => Below(taken[o][1].seq)'
      <4> SUFFICES ASSUME NEW o \in Source, taken'[o] # <<>> PROVE Below(taken[o][1].seq)'
        OBVIOUS
      <4>1. CASE o = s
        BY <1>0, <1>1, <1>2, <1>3, <1>5, <4>1 DEF Below
      <4>2. CASE o # s
        <5>1. Below(taken[o][1].seq) /\ taken'[o] = taken[o]
          BY <1>3, <2>1, <4>2 DEF Fresh
        <5> QED BY <1>1, <1>5, <5>1 DEF Below
      <4> QED BY <4>1, <4>2
    <3>2. Fresh'
      BY <1>1, <2>1, <3>1 DEF Fresh
    <3> QED BY <3>2 DEF RingTop
  <2>2. CASE ~Fresh
    <3>1. PICK i \in 1..Len(ring) :
            /\ Below(ring[i].seq)
            /\ (Len(ring) - i) + Cardinality(Late(ring[i].seq)) <= Cardinality(Source) - 1
      BY <2>2 DEF RingTop
    <3>2. Late(ring[i].seq)' = Late(ring[i].seq)
      BY <1>1, <1>2, <1>4 DEF Late
    <3>3. Below(ring[i].seq)'
      BY <1>1, <1>5, <3>1 DEF Below
    <3> QED BY <1>1, <3>1, <3>2, <3>3 DEF RingTop
  <2> QED BY <2>1, <2>2
<1>11. Below(sequence)'
  BY <1>0, <1>1, <1>2, <1>5 DEF Below
<1> QED BY <1>0, <1>1, <1>6, <1>7, <1>10, <1>11

\* A record near the end of a sequence is as near the end of its last n.
LEMMA LastAt ==
  ASSUME NEW q \in Seq(Record), NEW n \in Nat, NEW i \in 1..Len(q), i > Len(q) - n
  PROVE  \E k \in 1..Len(Last(q, n)) : Last(q, n)[k] = q[i] /\ Len(Last(q, n)) - k = Len(q) - i
<1>0. Len(q) \in Nat
  OBVIOUS
<1>1. CASE Len(q) <= n
  BY <1>1 DEF Last
<1>2. CASE Len(q) > n
  <2> DEFINE m == Len(q) - n + 1
             k == i - m + 1
  <2>1. Last(q, n) = SubSeq(q, m, Len(q)) /\ m \in 1..(Len(q) + 1) /\ m <= Len(q) + 1
        /\ Len(q) \in 0..Len(q) /\ k \in 1..(Len(q) - m + 1) /\ m + k - 1 = i
        /\ (Len(q) - m + 1) - k = Len(q) - i
    BY <1>0, <1>2 DEF Last
  <2> HIDE DEF m, k
  <2>2. /\ Len(SubSeq(q, m, Len(q))) = Len(q) - m + 1
        /\ \A j \in 1..(Len(q) - m + 1) : SubSeq(q, m, Len(q))[j] = q[m + j - 1]
    BY <2>1, EntriesSub
  <2>3. Last(q, n)[k] = q[i] /\ k \in 1..Len(Last(q, n)) /\ Len(Last(q, n)) - k = Len(q) - i
    BY <2>1, <2>2
  <2> QED BY <2>3
<1> QED BY <1>0, <1>1, <1>2

\* An offer to the channel appends to what is written.
LEMMA OfferAppends ==
  ASSUME NEW f \in Seq(Record), NEW b \in Seq(Record), NEW q \in Seq(Record), NEW r \in Record
  PROVE  (f \o b) \o Append(q, r) = Append((f \o b) \o q, r)
<1> DEFINE fb == f \o b
<1>1. fb \in Seq(Record) /\ <<r>> \in Seq(Record)
  BY ConcatFacts
<1> HIDE DEF fb
<1>2. Append(q, r) = q \o <<r>>
  BY AppendIsConcat
<1>3. (fb \o q) \o <<r>> = fb \o (q \o <<r>>)
  <2> DEFINE t == <<r>>
  <2>1. t \in Seq(Record)
    BY <1>1
  <2> HIDE DEF t
  <2>2. (fb \o q) \o t = fb \o (q \o t)
    BY <1>1, <2>1, ConcatAssociative
  <2> QED BY <2>2 DEF t
<1>4. fb \o q \in Seq(Record)
  BY <1>1, ConcatFacts
<1>5. Append(fb \o q, r) = (fb \o q) \o <<r>>
  BY <1>4, AppendIsConcat
<1> QED BY <1>2, <1>3, <1>5 DEF fb

\* A source that has inserted or dropped its record holds none.
LEMMA LateShrinks ==
  ASSUME Roomy, JournalTypes, NEW s \in Source, taken' = [taken EXCEPT ![s] = <<>>],
         taken[s] # <<>>, NEW n \in Nat
  PROVE  LET late == {o \in Source : taken'[o] # <<>> /\ taken'[o][1].seq < n}
         IN /\ Cardinality(late) \in Nat /\ Cardinality(Source) \in Nat
            /\ Cardinality(late) <= Cardinality(Source) - 1
            /\ Cardinality(late) <= Cardinality(Late(n))
            /\ taken[s][1].seq < n => Cardinality(late) = Cardinality(Late(n)) - 1
            /\ Cardinality(Late(n)) \in Nat
<1> DEFINE late == {o \in Source : taken'[o] # <<>> /\ taken'[o][1].seq < n}
<1>1. late = Late(n) \ {s}
  <2>1. taken'[s] = <<>> /\ \A o \in Source \ {s} : taken'[o] = taken[o]
    BY DEF JournalTypes
  <2> QED BY <2>1 DEF Late
<1>2. IsFiniteSet(Source) /\ Cardinality(Source) \in Nat /\ IsFiniteSet(Late(n)) /\ Cardinality(Late(n)) \in Nat
  BY LateFacts DEF Roomy
<1>3. IsFiniteSet(Source \ {s}) /\ Cardinality(Source \ {s}) = Cardinality(Source) - 1
  BY <1>2, FS_RemoveElement
<1>4. /\ IsFiniteSet(late)
     
      /\ Cardinality(late) = IF s \in Late(n) THEN Cardinality(Late(n)) - 1 ELSE Cardinality(Late(n))
  <2>1. /\ IsFiniteSet(Late(n) \ {s})
       
        /\ Cardinality(Late(n) \ {s}) = IF s \in Late(n) THEN Cardinality(Late(n)) - 1 ELSE Cardinality(Late(n))
    BY <1>2, FS_RemoveElement
  <2> HIDE DEF late
  <2> QED BY <1>1, <2>1
<1>5. late \in SUBSET (Source \ {s})
  BY <1>1 DEF Late
<1>6. Cardinality(late) <= Cardinality(Source \ {s})
  BY <1>3, <1>5, FS_Subset
<1>7. Cardinality(late) \in Nat
  BY <1>4, FS_CardinalityType
<1>8. taken[s][1].seq < n => s \in Late(n)
  BY DEF Late
<1> HIDE DEF late
<1>9. /\ Cardinality(late) \in Nat /\ Cardinality(Source) \in Nat
      /\ Cardinality(late) <= Cardinality(Source) - 1
      /\ Cardinality(late) <= Cardinality(Late(n))
      /\ taken[s][1].seq < n => Cardinality(late) = Cardinality(Late(n)) - 1
      /\ Cardinality(Late(n)) \in Nat
  BY <1>2, <1>3, <1>4, <1>6, <1>7, <1>8
<1> QED BY <1>9 DEF late

\* What an insert does to the order in which records are written.
LEMMA InsertWritten ==
  ASSUME JournalInv, Roomy, Recoverable, ~tore, NEW s \in Source, up, taken[s] # <<>>,
         taken' = [taken EXCEPT ![s] = <<>>], file' = file,
         taken[s][1] \in Record,
         Written' = Written \/ Written' = Append(Written, taken[s][1])
  PROVE  CutsNear' /\ TailNear'
<1> USE DEF Recoverable
<1> DEFINE r == taken[s][1]
           L(n) == {o \in Source : taken'[o] # <<>> /\ taken'[o][1].seq < n}
           m == Len(Written)
<1>0. /\ JournalTypes /\ file \in Seq(Record) /\ Written \in Seq(Record) /\ m \in Nat
      /\ Len(file) \in Nat
      /\ \A i \in 1..m : Written[i].seq \in Nat
      /\ QueueCapacity \in Nat /\ QueueCapacity >= 1 /\ r.seq \in Nat /\ Len(file) <= m
  BY WrittenFacts, RecordFields, JournalAssumption DEF JournalInv
<1>1. \A n \in Nat :
        /\ Cardinality(L(n)) \in Nat /\ Cardinality(Source) \in Nat
        /\ Cardinality(L(n)) <= Cardinality(Source) - 1
        /\ Cardinality(L(n)) <= Cardinality(Late(n))
        /\ r.seq < n => Cardinality(L(n)) = Cardinality(Late(n)) - 1
        /\ Cardinality(Late(n)) \in Nat
  BY <1>0, LateShrinks
<1>2. TailNear' <=> (Len(Written') > 0 =>
        \E i \in 1..Len(Written') : /\ Newest(Written', i, Len(Written'))
                                   
                                    /\ (Len(Written') - i) + Cardinality(L(Written'[i].seq)) <= Slack)
  BY DEF TailNear, Newest, Late, Slack
<1>3. CutsNear' <=> \A n \in Len(file)..Len(Written') :
        n > 0 => \E i \in 1..n : Newest(Written', i, n) /\ n - i <= Slack
  BY DEF CutsNear, Newest, Slack
<1> HIDE DEF L, r
<1>4. m > 0 => \E i \in 1..m : /\ Newest(Written, i, m) /\ Written[i].seq \in Nat
                                /\ (m - i) + Cardinality(Late(Written[i].seq)) <= Slack
  BY <1>0 DEF TailNear
<1>5. CASE Written' = Written
  <2>1. CutsNear'
    BY <1>3, <1>5 DEF CutsNear
  <2>2. m > 0 => \E i \in 1..m : /\ Newest(Written, i, m)
                                  /\ (m - i) + Cardinality(L(Written[i].seq)) <= Slack
    <3> SUFFICES ASSUME m > 0
                 PROVE  \E i \in 1..m : /\ Newest(Written, i, m)
                                        /\ (m - i) + Cardinality(L(Written[i].seq)) <= Slack
      OBVIOUS
    <3>1. PICK i \in 1..m : /\ Newest(Written, i, m) /\ Written[i].seq \in Nat
                            /\ (m - i) + Cardinality(Late(Written[i].seq)) <= Slack
      BY <1>4
    <3> DEFINE n == Written[i].seq
    <3> HIDE DEF n, m
    <3>2. n \in Nat /\ (m - i) + Cardinality(Late(n)) <= Slack
      BY <3>1 DEF n
    <3>3. Cardinality(L(n)) <= Cardinality(Late(n)) /\ Cardinality(L(n)) \in Nat /\ Cardinality(Late(n)) \in Nat
          /\ Cardinality(Source) \in Nat
      BY <1>1, <3>2
    <3>4. (m - i) + Cardinality(L(n)) <= Slack
      BY <1>0, <3>2, <3>3 DEF Slack
    <3> QED BY <3>1, <3>4 DEF n
  <2>3. TailNear'
    BY <1>2, <1>5, <2>2
  <2> QED BY <2>1, <2>3
<1>6. CASE Written' = Append(Written, r)
  <2>1. /\ Len(Written') = m + 1 /\ Written'[m + 1] = r
        /\ \A j \in 1..m : Written'[j] = Written[j]
    BY <1>0, <1>6
  <2> HIDE DEF m
  <2>2. \E i \in 1..(m + 1) : /\ Newest(Written', i, m + 1) /\ Written'[i].seq \in Nat
                              /\ ((m + 1) - i) + Cardinality(L(Written'[i].seq)) <= Slack
    <3>1. CASE \A j \in 1..m : Written[j].seq <= r.seq
      <4>1. \A j \in 1..(m + 1) : j \in 1..m \/ j = m + 1
        BY <1>0
      <4>2. m + 1 \in 1..(m + 1)
        BY <1>0
      <4>3. \A j \in 1..(m + 1) : Written'[j].seq <= r.seq
        BY <1>0, <2>1, <3>1, <4>1
      <4>4. Newest(Written', m + 1, m + 1)
        BY <2>1, <4>2, <4>3 DEF Newest
      <4>5. Cardinality(L(r.seq)) \in Nat /\ Cardinality(L(r.seq)) <= Cardinality(Source) - 1
            /\ Cardinality(Source) \in Nat
        BY <1>0, <1>1
      <4>6. ((m + 1) - (m + 1)) + Cardinality(L(r.seq)) <= Slack
        BY <1>0, <4>5 DEF Slack
      <4> QED BY <1>0, <2>1, <4>2, <4>4, <4>6
    <3>2. CASE ~(\A j \in 1..m : Written[j].seq <= r.seq)
      <4>1. PICK j \in 1..m : ~(Written[j].seq <= r.seq)
        BY <3>2
      <4>2. m > 0
        BY <1>0, <4>1
      <4>3. PICK i \in 1..m : /\ Newest(Written, i, m) /\ Written[i].seq \in Nat
                              /\ (m - i) + Cardinality(Late(Written[i].seq)) <= Slack
        BY <1>4, <4>2
      <4> DEFINE n == Written[i].seq
      <4>4. n \in Nat /\ (m - i) + Cardinality(Late(n)) <= Slack /\ \A k \in 1..m : Written[k].seq <= n
        BY <4>3 DEF Newest
      <4> HIDE DEF n
      <4>5. r.seq < n
        <5>1. Written[j].seq <= n /\ Written[j].seq \in Nat
          BY <1>0, <4>4
        <5> QED BY <1>0, <4>1, <4>4, <5>1
      <4>6. Cardinality(L(n)) = Cardinality(Late(n)) - 1 /\ Cardinality(Late(n)) \in Nat
        BY <1>1, <4>4, <4>5
      <4>7. ((m + 1) - i) + Cardinality(L(n)) <= Slack
        <5>1. Cardinality(Source) \in Nat
          BY <1>1, <4>4
        <5> QED BY <1>0, <4>4, <4>6, <5>1 DEF Slack
      <4>8. i \in 1..(m + 1) /\ \A k \in 1..(m + 1) : k \in 1..m \/ k = m + 1
        BY <1>0
      <4>9. Written'[i].seq = n
        BY <2>1 DEF n
      <4>10. \A k \in 1..(m + 1) : Written'[k].seq <= n
        <5>1. \A k \in 1..m : Written'[k].seq <= n
          BY <2>1, <4>4
        <5>2. Written'[m + 1].seq <= n
          BY <1>0, <2>1, <4>4, <4>5
        <5> QED BY <4>8, <5>1, <5>2
      <4>11. Newest(Written', i, m + 1)
        BY <4>8, <4>9, <4>10 DEF Newest
      <4> QED BY <4>4, <4>7, <4>8, <4>9, <4>11
    <3> QED BY <3>1, <3>2
  <2>3. TailNear'
    BY <1>2, <2>1, <2>2
  <2>4. ASSUME NEW n \in Len(file)..(m + 1), n > 0
        PROVE  \E i \in 1..n : Newest(Written', i, n) /\ n - i <= Slack
    <3>1. CASE n <= m
      <4>1. n \in Len(file)..Len(Written)
        BY <1>0, <3>1 DEF m
      <4>2. PICK i \in 1..n : Newest(Written, i, n) /\ n - i <= Slack
        BY <2>4, <4>1 DEF CutsNear
      <4>3. \A j \in 1..n : Written'[j] = Written[j]
        BY <1>0, <2>1, <3>1
      <4> QED BY <4>2, <4>3 DEF Newest
    <3>2. CASE n > m
      <4>1. n = m + 1
        BY <1>0, <3>2
      <4>2. PICK i \in 1..(m + 1) : /\ Newest(Written', i, m + 1) /\ Written'[i].seq \in Nat
                              /\ ((m + 1) - i) + Cardinality(L(Written'[i].seq)) <= Slack
        BY <2>2
      <4>3. Cardinality(L(Written'[i].seq)) \in Nat /\ Cardinality(Source) \in Nat
        BY <1>1, <4>2
      <4>4. (m + 1) - i <= Slack
        BY <1>0, <4>2, <4>3 DEF Slack
      <4> QED BY <4>1, <4>2, <4>4
    <3> QED BY <1>0, <3>1, <3>2
  <2>5. CutsNear'
    BY <1>3, <2>1, <2>4
  <2> QED BY <2>3, <2>5
<1> QED BY <1>5, <1>6 DEF r

\* What an insert does to the end of the ring.
LEMMA InsertRing ==
  ASSUME JournalInv, Roomy, Recoverable, ~tore, NEW s \in Source, up, taken[s] # <<>>,
         taken' = [taken EXCEPT ![s] = <<>>], durable' = durable, file' = file,
         taken[s][1] \in Record,
         ring' = Last(Append(ring, taken[s][1]), Capacity),
         Written' = Written \/ Written' = Append(Written, taken[s][1])
  PROVE  RingTop'
<1> USE DEF Recoverable
<1> DEFINE r == taken[s][1]
           L(n) == {o \in Source : taken'[o] # <<>> /\ taken'[o][1].seq < n}
           a == Append(ring, r)
           m == Len(ring)
<1>0. /\ JournalTypes /\ file \in Seq(Record) /\ Written \in Seq(Record) /\ ring \in Seq(Record)
      /\ m \in Nat
      /\ (\A i \in 1..Len(Written) : Written[i].seq \in Nat) /\ \A i \in 1..m : ring[i].seq \in Nat
      /\ Len(Written) \in Nat /\ durable \in Nat
  BY WrittenFacts DEF JournalInv, JournalTypes
<1>1. \A n \in Nat :
        /\ Cardinality(L(n)) \in Nat /\ Cardinality(Source) \in Nat
        /\ Cardinality(L(n)) <= Cardinality(Source) - 1
        /\ r.seq < n => Cardinality(L(n)) = Cardinality(Late(n)) - 1
        /\ Cardinality(Late(n)) \in Nat
  BY <1>0, LateShrinks
<1>2. RingTop' <=> Fresh' \/ \E i \in 1..Len(ring') :
        /\ Below(ring[i].seq)'
        /\ (Len(ring') - i) + Cardinality(L(ring'[i].seq)) <= Cardinality(Source) - 1
  BY DEF RingTop, Late
<1>3. /\ r \in Record /\ r.seq \in Nat /\ Capacity \in Nat /\ Capacity > 0
      /\ QueueCapacity \in Nat /\ QueueCapacity >= 1
      /\ Capacity >= QueueCapacity + Cardinality(Source) - 1
  BY RecordFields, JournalAssumption DEF Roomy
<1>4. Cardinality(Source) \in Nat /\ ring' = Last(a, Capacity)
      /\ (Written' = Written \/ Written' = Append(Written, r))
  BY <1>1
<1> HIDE DEF L, r
<1>5. a \in Seq(Record) /\ Len(a) = m + 1 /\ a[m + 1] = r /\ \A i \in 1..m : a[i] = ring[i]
  BY <1>0, <1>3
<1> HIDE DEF a, m
<1>6. Len(Written') \in Nat /\ \A j \in 1..Len(Written') : Written'[j] = r \/ \E k \in 1..Len(Written) : Written'[j] = Written[k]
  <2>1. CASE Written' = Written
    BY <1>0, <2>1
  <2>2. CASE Written' = Append(Written, r)
    <3>1. Len(Written') = Len(Written) + 1 /\ Written'[Len(Written) + 1] = r
          /\ \A j \in 1..Len(Written) : Written'[j] = Written[j]
      BY <1>0, <1>3, <2>2
    <3>2. \A j \in 1..(Len(Written) + 1) : j \in 1..Len(Written) \/ j = Len(Written) + 1
      BY <1>0
    <3> QED BY <1>0, <3>1, <3>2
  <2> QED BY <1>4, <2>1, <2>2
<1>7. \A j \in 1..Len(ring') : \E k \in 1..(m + 1) : ring'[j] = a[k]
  <2>1. a \in Seq(Record) /\ Capacity \in Nat
    BY <1>3, <1>5
  <2>2. \A j \in 1..Len(Last(a, Capacity)) :
          /\ j + (Len(a) - Len(Last(a, Capacity))) \in 1..Len(a)
          /\ Last(a, Capacity)[j] = a[j + (Len(a) - Len(Last(a, Capacity)))]
    BY <2>1, LastFacts
  <2> QED BY <1>4, <1>5, <2>2
<1>8. \A k \in 1..(m + 1) : a[k] = r \/ \E j \in 1..m : a[k] = ring[j]
  <2>1. \A k \in 1..(m + 1) : k \in 1..m \/ k = m + 1
    BY <1>0
  <2> QED BY <1>5, <2>1
<1>9. ASSUME NEW n \in Nat, Below(n), r.seq <= n
      PROVE  /\ \A j \in 1..Len(Written') : Written'[j].seq <= n
             /\ \A j \in 1..Len(ring') : ring'[j].seq <= n
             /\ durable' <= n
  <2>1. \A j \in 1..Len(Written') : Written'[j].seq <= n
    BY <1>6, <1>9 DEF Below
  <2>2. \A j \in 1..m : ring[j].seq <= n
    BY <1>9 DEF Below, m
  <2>3. \A j \in 1..Len(ring') : ring'[j].seq <= n
    BY <1>7, <1>8, <1>9, <2>2
  <2> QED BY <1>9, <2>1, <2>3 DEF Below
\* The newest record stays in the ring, at i of a.
<1>10. \E i \in 1..(m + 1) :
         /\ a[i].seq \in Nat /\ Below(a[i].seq) /\ r.seq <= a[i].seq
         /\ ((m + 1) - i) + Cardinality(L(a[i].seq)) <= Cardinality(Source) - 1
  <2>1. CASE Below(r.seq)
    <3>1. m + 1 \in 1..(m + 1) /\ (m + 1) - (m + 1) = 0
      BY <1>0
    <3>2. Cardinality(L(r.seq)) \in Nat /\ Cardinality(L(r.seq)) <= Cardinality(Source) - 1
      BY <1>1, <1>3
    <3>3. ((m + 1) - (m + 1)) + Cardinality(L(r.seq)) <= Cardinality(Source) - 1
      BY <3>1, <3>2
    <3> QED BY <1>3, <1>5, <2>1, <3>1, <3>3
  <2>2. CASE ~Below(r.seq)
    <3>1. ~Fresh
      BY <2>2 DEF Fresh, r
    <3>2. PICK i \in 1..m :
            /\ Below(ring[i].seq)
            /\ (m - i) + Cardinality(Late(ring[i].seq)) <= Cardinality(Source) - 1
      BY <3>1 DEF RingTop, m
    <3> DEFINE n == ring[i].seq
    <3>3. n \in Nat /\ Below(n) /\ (m - i) + Cardinality(Late(n)) <= Cardinality(Source) - 1
      BY <1>0, <3>2
    <3>4. a[i].seq = n /\ i \in 1..(m + 1)
      BY <1>0, <1>5
    <3> HIDE DEF n
    <3>5. r.seq < n
      <4> SUFFICES ASSUME n <= r.seq PROVE Below(r.seq)
        BY <1>3, <2>2, <3>3
      <4>1. \A j \in 1..Len(Written) : Written[j].seq \in Nat /\ Written[j].seq <= n
        BY <1>0, <3>3 DEF Below
      <4>2. \A j \in 1..Len(ring) : ring[j].seq \in Nat /\ ring[j].seq <= n
        BY <1>0, <3>3 DEF Below, m
      <4>3. durable <= n
        BY <3>3 DEF Below
      <4> QED BY <1>0, <1>3, <3>3, <4>1, <4>2, <4>3 DEF Below
    <3>6. Cardinality(L(n)) = Cardinality(Late(n)) - 1 /\ Cardinality(Late(n)) \in Nat
      BY <1>1, <3>3, <3>5
    <3>7. ((m + 1) - i) + Cardinality(L(n)) <= Cardinality(Source) - 1
      BY <1>0, <1>4, <3>3, <3>6
    <3>8. r.seq <= n
      BY <1>3, <3>3, <3>5
    <3> QED BY <3>3, <3>4, <3>7, <3>8
  <2> QED BY <2>1, <2>2
<1>11. PICK i \in 1..(m + 1) :
         /\ a[i].seq \in Nat /\ Below(a[i].seq) /\ r.seq <= a[i].seq
         /\ ((m + 1) - i) + Cardinality(L(a[i].seq)) <= Cardinality(Source) - 1
  BY <1>10
<1> DEFINE n == a[i].seq
<1>12. n \in Nat /\ Below(n) /\ r.seq <= n /\ ((m + 1) - i) + Cardinality(L(n)) <= Cardinality(Source) - 1
  BY <1>11
<1> HIDE DEF n
<1>13. Cardinality(L(n)) \in Nat
  BY <1>1, <1>12
<1>14. i \in 1..Len(a) /\ i > Len(a) - Capacity
  <2>1. (m + 1) - i <= Cardinality(Source) - 1 /\ i \in Nat
    BY <1>0, <1>4, <1>12, <1>13
  <2> QED BY <1>0, <1>3, <1>4, <1>5, <2>1
<1>15. PICK k \in 1..Len(ring') : ring'[k] = a[i] /\ Len(ring') - k = Len(a) - i
  <2>1. a \in Seq(Record) /\ Capacity \in Nat
    BY <1>3, <1>5
  <2>2. \E k \in 1..Len(Last(a, Capacity)) :
          Last(a, Capacity)[k] = a[i] /\ Len(Last(a, Capacity)) - k = Len(a) - i
    BY <1>14, <2>1, LastAt
  <2> QED BY <1>4, <2>2
<1>16. Below(ring[k].seq)'
  <2>1. ring'[k].seq = n
    BY <1>15 DEF n
  <2>2. /\ \A j \in 1..Len(Written') : Written'[j].seq <= n
        /\ \A j \in 1..Len(ring') : ring'[j].seq <= n
        /\ durable' <= n
    BY <1>9, <1>12
  <2> QED BY <2>1, <2>2 DEF Below
<1>17. (Len(ring') - k) + Cardinality(L(ring'[k].seq)) <= Cardinality(Source) - 1
  <2>1. ring'[k].seq = n
    BY <1>15 DEF n
  <2> QED BY <1>5, <1>12, <1>15, <2>1
<1> QED BY <1>2, <1>16, <1>17

\* insert, and the offer to the channel.
LEMMA RecoverInsert ==
  ASSUME JournalInv, JournalInv', Roomy, Recoverable, ~tore, NEW s \in Source, InsertEvent(s)
  PROVE  Recoverable'
<1> USE DEF Recoverable
<1> DEFINE r == taken[s][1]
<1>0. /\ JournalTypes /\ JournalTypes' /\ file \in Seq(Record) /\ buffer \in Seq(Record)
      /\ queue \in Seq(Record) /\ Len(queue) \in Nat /\ QueueCapacity \in Nat
      /\ taken[s] \in Seq(Record) /\ sequence \in Nat
  BY JournalAssumption DEF JournalInv, JournalTypes
<1>1. /\ up /\ taken[s] # <<>> /\ taken' = [taken EXCEPT ![s] = <<>>]
      /\ UNCHANGED <<up, sequence, buffer, file, durable, tore>>
      /\ \/ UNCHANGED <<ring, queue>>
         \/ /\ ring' = Last(Append(ring, r), Capacity)
            /\ queue' = IF Len(queue) < QueueCapacity THEN Append(queue, r) ELSE queue
  BY DEF InsertEvent, diskVars
<1>2. r \in Record /\ r \in Entries(taken[s])
  <2>1. 1 \in 1..Len(taken[s])
    BY <1>0, <1>1
  <2> QED BY <1>0, <2>1 DEF Entries
<1>3. r.seq \in Nat /\ r.seq <= sequence
  <2>1. r \in Handled
    BY <1>2, TakenHandled
  <2> QED BY <1>1, <1>2, <2>1, RecordFields DEF JournalInv, Named
<1>4. Written' = Written \/ Written' = Append(Written, r)
  <2>1. (file \o buffer) \o Append(queue, r) = Append((file \o buffer) \o queue, r)
    BY <1>0, <1>2, OfferAppends
  <2>2. queue' = queue \/ queue' = Append(queue, r)
    BY <1>1
  <2>3. Written' = (file \o buffer) \o queue'
    BY <1>1 DEF Written
  <2> QED BY <2>1, <2>2, <2>3, Zenon DEF Written
<1>5. CutsNear' /\ TailNear'
  BY <1>1, <1>2, <1>4, InsertWritten
<1>6. DurableRead'
  BY <1>1 DEF DurableRead
<1>7. Len(queue') <= QueueCapacity
  <2>1. Len(Append(queue, r)) = Len(queue) + 1
    BY <1>0, <1>2
  <2> QED BY <1>0, <1>1, <2>1
<1>8. RingTop'
  <2>1. CASE ring' = Last(Append(ring, r), Capacity)
    BY <1>1, <1>2, <1>4, <2>1, InsertRing
  <2>2. CASE UNCHANGED <<ring, queue>>
    <3>1. Written' = Written
      BY <1>1, <2>2 DEF Written
    <3>2. CASE Fresh
      <4>1. \A o \in Source : taken'[o] # <<>> => taken'[o] = taken[o]
        BY <1>0, <1>1 DEF JournalTypes
      <4>2. \A o \in Source : taken'[o] # <<>> => Below(taken[o][1].seq)'
        <5> SUFFICES ASSUME NEW o \in Source, taken'[o] # <<>> PROVE Below(taken[o][1].seq)'
          OBVIOUS
        <5>1. Below(taken[o][1].seq) /\ taken'[o] = taken[o]
          BY <3>2, <4>1 DEF Fresh
        <5> QED BY <1>1, <2>2, <3>1, <5>1 DEF Below
      <4>3. Fresh'
        BY <1>1, <2>2, <3>2, <4>2 DEF Fresh
      <4> QED BY <4>3 DEF RingTop
    <3>3. CASE ~Fresh
      <4>1. PICK i \in 1..Len(ring) :
              /\ Below(ring[i].seq)
              /\ (Len(ring) - i) + Cardinality(Late(ring[i].seq)) <= Cardinality(Source) - 1
        BY <3>3 DEF RingTop
      <4> DEFINE n == ring[i].seq
                 late == {o \in Source : taken'[o] # <<>> /\ taken'[o][1].seq < n}
      <4>2. n \in Nat /\ Len(ring) \in Nat
        BY <1>0, WrittenFacts
      <4>3. Below(ring[i].seq)' /\ late = Late(ring[i].seq)'
        BY <1>1, <2>2, <3>1, <4>1 DEF Below, Late
      <4>4. /\ Cardinality(late) \in Nat /\ Cardinality(Source) \in Nat
            /\ Cardinality(late) <= Cardinality(Late(n)) /\ Cardinality(Late(n)) \in Nat
        BY <1>0, <1>1, <4>2, LateShrinks
      <4>5. (Len(ring) - i) + Cardinality(Late(n)) <= Cardinality(Source) - 1
        BY <4>1
      <4> HIDE DEF n, late
      <4>6. (Len(ring) - i) + Cardinality(late) <= Cardinality(Source) - 1
        BY <4>2, <4>4, <4>5
      <4> QED BY <2>2, <4>3, <4>6 DEF RingTop
    <3> QED BY <3>2, <3>3
  <2> QED BY <1>1, <2>1, <2>2
<1>9. Below(sequence)'
  <2>1. \A x \in Entries(ring') : x.seq <= sequence'
    BY <1>1 DEF JournalInv, Named, Handled
  <2>2. \A j \in 1..Len(ring') : ring'[j].seq <= sequence'
    BY <2>1 DEF Entries
  <2>3. Below(sequence) /\ Written \in Seq(Record) /\ Len(Written) \in Nat
    BY <1>0, <1>1, WrittenFacts
  <2>4. \A j \in 1..Len(Written') : Written'[j].seq <= sequence
    <3>1. CASE Written' = Written
      BY <2>3, <3>1 DEF Below
    <3>2. CASE Written' = Append(Written, r)
      <4> HIDE DEF r
      <4>1. Len(Written') = Len(Written) + 1 /\ Written'[Len(Written) + 1] = r
            /\ \A j \in 1..Len(Written) : Written'[j] = Written[j]
        BY <1>2, <2>3, <3>2
      <4>2. \A j \in 1..(Len(Written) + 1) : j \in 1..Len(Written) \/ j = Len(Written) + 1
        BY <2>3
      <4> QED BY <1>3, <2>3, <4>1, <4>2 DEF Below
    <3> QED BY <1>4, <3>1, <3>2
  <2> QED BY <1>1, <2>2, <2>3, <2>4 DEF Below
<1> QED BY <1>0, <1>1, <1>5, <1>6, <1>7, <1>8, <1>9

\* The end of the process leaves a file that was cut where the writing stood.
LEMMA RecoverDown ==
  ASSUME JournalInv, Recoverable, ~tore, Down, Roomy,
         file' \in Seq(Record), Len(file') \in Len(file)..Len(Written),
         \A j \in 1..Len(file') : file'[j] = Written[j],
         durable' \in Nat, DurableRead'
  PROVE  Recoverable'
<1> USE DEF Recoverable
<1>1. /\ ~up' /\ buffer' = <<>> /\ queue' = <<>> /\ taken' = [s \in Source |-> <<>>]
  BY DEF Down
<1>2. Written' = file'
  BY <1>1, ConcatEmptySeq DEF Written
<1> DEFINE n == Len(file')
<1>3. n \in Nat /\ Len(Written') = n
  BY <1>2
<1>4. \A x : Late(x)' = {}
  BY <1>1 DEF Late
<1>5. Cardinality({}) = 0
  BY FS_EmptySet
<1>6. n > 0 => \E i \in 1..n : Newest(file', i, n) /\ n - i <= Slack
  <2> SUFFICES ASSUME n > 0 PROVE \E i \in 1..n : Newest(file', i, n) /\ n - i <= Slack
    OBVIOUS
  <2>1. PICK i \in 1..n : Newest(Written, i, n) /\ n - i <= Slack
    BY DEF CutsNear
  <2> QED BY <2>1 DEF Newest
<1>7. CutsNear'
  <2> SUFFICES ASSUME NEW c \in n..n, c > 0
               PROVE  \E i \in 1..c : Newest(file', i, c) /\ c - i <= Slack
    BY <1>2, <1>3 DEF CutsNear, Newest, Slack
  <2>1. c = n
    BY <1>3
  <2> QED BY <1>6, <2>1
<1>8. TailNear'
  <2> SUFFICES ASSUME n > 0
               PROVE  \E i \in 1..n : Newest(file', i, n) /\ (n - i) + Cardinality(Late(Written[i].seq)') <= Slack
    BY <1>2, <1>3 DEF TailNear, Newest, Slack, Late
  <2>1. PICK i \in 1..n : Newest(file', i, n) /\ n - i <= Slack
    BY <1>6
  <2>2. (n - i) + 0 = n - i
    BY <1>3
  <2>3. Late(Written[i].seq)' = {}
    BY <1>1 DEF Late
  <2> QED BY <1>5, <2>1, <2>2, <2>3
<1>9. RingTop'
  BY <1>1 DEF RingTop, Fresh
<1>10. Len(queue') <= QueueCapacity
  BY <1>1, JournalAssumption
<1> QED BY <1>1, <1>7, <1>8, <1>9, <1>10

\* Shutdown and crash, unless it cuts an entry short.
LEMMA RecoverEnd ==
  ASSUME JournalInv, Roomy, Recoverable, ~tore, ~tore', Shutdown \/ Crash
  PROVE  Recoverable'
<1> USE DEF Recoverable
<1>0. /\ file \in Seq(Record) /\ buffer \in Seq(Record) /\ queue \in Seq(Record)
      /\ Len(file) \in Nat /\ Len(buffer) \in Nat /\ durable \in Nat /\ DurableRead
  BY DEF JournalInv, JournalTypes
<1>1. /\ Len(Written) = Len(file) + Len(buffer) + Len(queue) /\ Len(queue) \in Nat
      /\ \A i \in 1..Len(file) : Written[i] = file[i]
      /\ \A i \in 1..Len(buffer) : Written[Len(file) + i] = buffer[i]
  BY <1>0, ThreeParts DEF Written
<1>2. ASSUME NEW x \in Seq(Record), Len(x) <= Len(buffer), \A i \in 1..Len(x) : x[i] = buffer[i]
      PROVE  /\ file \o x \in Seq(Record) /\ Len(file \o x) \in Len(file)..Len(Written)
             /\ \A j \in 1..Len(file \o x) : (file \o x)[j] = Written[j]
             /\ \A j \in 1..Len(file) : (file \o x)[j] = file[j] /\ j \in 1..Len(file \o x)
  <2> DEFINE g == file \o x
  <2>1. /\ g \in Seq(Record) /\ Len(g) = Len(file) + Len(x) /\ Len(x) \in Nat
        /\ \A i \in 1..(Len(file) + Len(x)) :
             g[i] = IF i <= Len(file) THEN file[i] ELSE x[i - Len(file)]
    BY <1>0, ConcatFacts
  <2> HIDE DEF g
  <2>2. Len(g) \in Len(file)..Len(Written)
    BY <1>0, <1>1, <1>2, <2>1
  <2>3. ASSUME NEW j \in 1..(Len(file) + Len(x)) PROVE g[j] = Written[j]
    <3>1. CASE j <= Len(file)
      BY <1>0, <1>1, <2>1, <3>1
    <3>2. CASE j > Len(file)
      <4> DEFINE k == j - Len(file)
      <4>1. k \in 1..Len(x) /\ k \in 1..Len(buffer) /\ j = Len(file) + k
        BY <1>0, <1>2, <2>1, <3>2
      <4>2. g[j] = x[k]
        BY <1>0, <2>1, <3>2
      <4> HIDE DEF k
      <4>3. Written[j] = buffer[k]
        BY <1>1, <4>1
      <4> QED BY <1>2, <4>1, <4>2, <4>3
    <3> QED BY <1>0, <2>1, <3>1, <3>2
  <2>4. \A j \in 1..Len(file) : g[j] = file[j] /\ j \in 1..Len(g)
    BY <1>0, <2>1
  <2> QED BY <2>1, <2>2, <2>3, <2>4 DEF g
<1>3. CASE Shutdown
  <2>1. Down /\ file' = file \o buffer /\ durable' = Newer(durable, MaxSeq(Entries(buffer)))
    BY <1>3 DEF Shutdown
  <2>2. durable' \in Nat /\ DurableRead'
    BY <1>0, <2>1, FlushReads
  <2>3. /\ file' \in Seq(Record) /\ Len(file') \in Len(file)..Len(Written)
        /\ \A j \in 1..Len(file') : file'[j] = Written[j]
    BY <1>0, <1>2, <2>1
  <2> QED BY <2>1, <2>2, <2>3, RecoverDown
<1>4. CASE Crash
  <2>1. Down /\ durable' = durable
    BY <1>4 DEF Crash
  <2>2. PICK n \in 0..Len(buffer) : file' = file \o SubSeq(buffer, 1, n)
    BY <1>4 DEF Crash
  <2> DEFINE x == SubSeq(buffer, 1, n)
  <2>3. x \in Seq(Record) /\ Len(x) = n /\ \A i \in 1..n : x[i] = buffer[i]
    <3>1. 1 \in 1..(Len(buffer) + 1) /\ 1 <= n + 1 /\ n - 1 + 1 = n
      BY <1>0
    <3>2. /\ x \in Seq(Record) /\ Len(x) = n - 1 + 1
          /\ \A i \in 1..(n - 1 + 1) : x[i] = buffer[1 + i - 1]
      BY <1>0, <3>1, EntriesSub
    <3>3. \A i \in 1..n : 1 + i - 1 = i
      BY <1>0
    <3> QED BY <3>1, <3>2, <3>3
  <2>4. Len(x) <= Len(buffer) /\ file' = file \o x
    BY <1>0, <2>2, <2>3
  <2> HIDE DEF x
  <2>5. /\ file' \in Seq(Record) /\ Len(file') \in Len(file)..Len(Written)
        /\ \A j \in 1..Len(file') : file'[j] = Written[j]
        /\ \A j \in 1..Len(file) : file'[j] = file[j] /\ j \in 1..Len(file')
    BY <1>2, <2>3, <2>4
  <2>6. DurableRead'
    BY <1>0, <2>1, <2>5 DEF DurableRead
  <2> QED BY <1>0, <2>1, <2>5, <2>6, RecoverDown
<1> QED BY <1>3, <1>4

\* The next process reads the newest record of the file.
LEMMA RecoverRestart ==
  ASSUME JournalInv, JournalInv', Roomy, Recoverable, ~tore, Restart
  PROVE  Recoverable'
<1> USE DEF Recoverable
<1> DEFINE w == Window(file)
           e == Len(file)
<1>0. file \in Seq(Record) /\ file \in Seq(Entry) /\ e \in Nat /\ durable \in Nat /\ DurableRead
      /\ Capacity \in Nat /\ QueueCapacity \in Nat
  BY JournalAssumption DEF Entry
<1>1. LoadEvents = w
  BY DEF LoadEvents, Window, Readable
<1>2. /\ ~up /\ up' = TRUE /\ sequence' = MaxSeq(Entries(w))
      /\ UNCHANGED <<taken, queue, buffer, file, durable, tore>>
  BY <1>1 DEF Restart, diskVars
<1>3. queue = <<>> /\ buffer = <<>> /\ \A s \in Source : taken[s] = <<>>
  BY <1>2 DEF JournalInv, Gone
<1>4. Written = file /\ Written' = Written
  BY <1>0, <1>2, <1>3, ConcatEmptySeq DEF Written
<1>5. Readable(file) = e
  <2>1. Readable(file) \in 0..e /\ (Readable(file) < e => file[Readable(file) + 1] = Torn)
    BY <1>0, ReadableFacts
  <2>2. Readable(file) < e => Readable(file) + 1 \in 1..e
    BY <1>0, <2>1
  <2>3. \A i \in 1..e : file[i] # Torn
    BY <1>0, TornAssumption
  <2> QED BY <1>0, <2>1, <2>2, <2>3
<1>6. /\ w \in Seq(Record)
      /\ Entries(w) = {file[i] : i \in {j \in 1..e : j > e - Capacity}}
  BY <1>0, <1>5, WindowFacts
<1> HIDE DEF w
<1>7. sequence' \in Nat /\ \A x \in Entries(w) : x.seq <= sequence'
  BY <1>2, <1>6, MaxSeqFacts
<1>8. \A j \in 1..e : file[j].seq \in Nat /\ file[j].seq <= sequence'
  <2> SUFFICES ASSUME NEW j \in 1..e PROVE file[j].seq \in Nat /\ file[j].seq <= sequence'
    OBVIOUS
  <2>1. e > 0 /\ e \in e..Len(Written)
    BY <1>0, <1>4
  <2>2. PICK i \in 1..e : Newest(Written, i, e) /\ e - i <= Slack
    BY <2>1 DEF CutsNear
  <2>3. Cardinality(Source) \in Nat /\ Slack < Capacity
    BY <1>0, FS_CardinalityType DEF Roomy, Slack
  <2>4. i > e - Capacity
    BY <1>0, <2>2, <2>3 DEF Slack
  <2>5. file[i].seq <= sequence' /\ file[j].seq <= file[i].seq
    BY <1>4, <1>6, <1>7, <2>2, <2>4 DEF Newest
  <2>6. file[i].seq \in Nat /\ file[j].seq \in Nat
    BY <1>0, RecordFields
  <2> QED BY <1>7, <2>5, <2>6
<1>9. durable <= sequence'
  <2>1. CASE durable = 0
    BY <1>7, <2>1
  <2>2. CASE \E i \in 1..e : durable <= file[i].seq
    BY <1>0, <1>7, <1>8, <2>2
  <2> QED BY <1>0, <2>1, <2>2 DEF DurableRead
<1>10. Below(sequence)'
  <2>1. \A x \in Entries(ring') : x.seq <= sequence'
    BY <1>2 DEF JournalInv, Named, Handled
  <2>2. \A j \in 1..Len(ring') : ring'[j].seq <= sequence'
    BY <2>1 DEF Entries
  <2> QED BY <1>2, <1>4, <1>8, <1>9, <2>2 DEF Below
<1>11. RingTop'
  BY <1>2, <1>3 DEF RingTop, Fresh
<1>12. CutsNear' /\ TailNear' /\ DurableRead'
  BY <1>2, <1>4 DEF CutsNear, TailNear, DurableRead, Newest, Late
<1>13. Len(queue') <= QueueCapacity
  BY <1>2
<1> QED BY <1>0, <1>2, <1>10, <1>11, <1>12, <1>13

\* Nothing is written when the first process starts.
LEMMA RecoverStart == JournalInit => Recoverable
<1> SUFFICES ASSUME JournalInit PROVE Recoverable
  OBVIOUS
<1>1. /\ file = <<>> /\ buffer = <<>> /\ queue = <<>> /\ ring = <<>> /\ durable = 0 /\ sequence = 0
      /\ taken = [s \in Source |-> <<>>]
  BY DEF JournalInit
<1>2. <<>> \in Seq(Record) /\ Len(<<>>) = 0 /\ <<>> \o <<>> = <<>>
  OBVIOUS
<1>3. Written = <<>>
  BY <1>1, <1>2 DEF Written
<1>4. CutsNear /\ TailNear
  BY <1>1, <1>2, <1>3 DEF CutsNear, TailNear
<1>5. RingTop /\ DurableRead /\ Below(sequence)
  BY <1>1, <1>2, <1>3 DEF RingTop, Fresh, DurableRead, Below
<1> QED BY <1>1, <1>2, <1>4, <1>5, JournalAssumption DEF Recoverable

\* Every step keeps it; a torn entry ends it.
LEMMA RecoverStep ==
  ASSUME Roomy
  PROVE  JournalInv /\ JournalInv' /\ Recoverable /\ [JournalNext]_journalVars => Recoverable'
<1> SUFFICES ASSUME JournalInv, JournalInv', Recoverable, [JournalNext]_journalVars, ~tore'
             PROVE  Recoverable'
  BY DEF Recoverable
<1>1. CASE UNCHANGED journalVars
  <2>1. UNCHANGED <<up, sequence, taken, ring, queue, buffer, file, durable, tore>>
    BY <1>1 DEF journalVars, runVars, diskVars
  <2> QED BY <2>1 DEF Recoverable, CutsNear, TailNear, RingTop, DurableRead, Below, Fresh, Late, Written, Newest
<1>2. CASE JournalNext
  <2>1. ~tore
    BY <1>2 DEF JournalNext, Number, InsertEvent, AppendEvent, AppendAndRewrite, FlushTick,
                Shutdown, Crash, Restart, diskVars
  <2> QED BY <1>2, <2>1, RecoverNumber, RecoverInsert, RecoverWrite, RecoverRewrite,
             RecoverEnd, RecoverRestart DEF JournalNext
<1> QED BY <1>1, <1>2

\* A process never numbers from below a record that was flushed, however often
\* the journal was compacted with commands still queued, and wherever a crash
\* stopped the writing, as long as no entry was cut short and the ring is larger
\* than the channel and the sources together.
THEOREM NoReuseUntornHolds ==
  ASSUME Roomy
  PROVE  JournalSpec => []NoReuseUntorn
<1>1. Recoverable => NoReuseUntorn
  BY DEF Recoverable, Below, NoReuseUntorn, NoSequenceReuse
<1>2. JournalInit => JournalInv /\ Recoverable
  BY JournalStart, RecoverStart
<1>3. (JournalInv /\ Recoverable) /\ [JournalNext]_journalVars => (JournalInv /\ Recoverable)'
  BY JournalStep, RecoverStep
<1> QED BY <1>1, <1>2, <1>3, PTL DEF JournalSpec

-----------------------------------------------------------------------------
(* The block cursor *)


Log == Nat \X Nat

\* Whatever makes a checkpoint holds block numbers only.
BlocksOK ==
  /\ head \in Nat /\ latest \in Nat
  /\ live \in [Racer -> Seq(Log)]
  /\ walks \subseteq Walk

\* The writer's cursor is never behind the saved one.
SavedBehind == cursor \in Nat /\ disk \in Nat /\ disk <= cursor

\* The inductive invariant.
CursorInv == BlocksOK /\ SavedBehind

-----------------------------------------------------------------------------
(* The operators of Ingest *)

\* The logs of a range of blocks, and of one block in order.
LEMMA LogTypes ==
  /\ \A m, n \in Nat : LogsFrom(m, n) \subseteq Log
  /\ \A b \in 1..MaxBlock : LogList(b) \in Seq(Log)
<1>1. \A b \in 1..MaxBlock : LogsIn[b] \in Nat /\ b \in Nat
  BY IngestAssumption
<1>2. \A b \in 1..MaxBlock : LogsOf(b) \subseteq Log
  BY <1>1 DEF LogsOf, Log
<1>3. \A b \in 1..MaxBlock : LogList(b) \in Seq(Log)
  BY <1>1 DEF LogList, Log
<1> QED BY <1>2, <1>3 DEF LogsFrom

\* A subscription's channel starts empty.
LEMMA EmptyLog == <<>> \in Seq(Log)
  OBVIOUS

\* process raises latest_block to a block number.
LEMMA ProcessType ==
  ASSUME BlocksOK, NEW S \in SUBSET Log, ProcessLogs(S)
  PROVE  latest' \in Nat
<1>1. \A l \in S : l[1] \in Nat
  BY DEF Log
<1> QED BY <1>1 DEF ProcessLogs, BlocksOK

\* A checkpoint keeps the writer's cursor at or past the saved one.
LEMMA CheckpointKeeps ==
  ASSUME SavedBehind, NEW b \in Nat, Checkpoint(b), disk' = disk
  PROVE  SavedBehind'
  BY DEF Checkpoint, SavedBehind, MaxOf

\* The walks other than w, and the ones w becomes.
LEMMA BecomesType ==
  ASSUME BlocksOK, NEW w, NEW W \in SUBSET Walk, Becomes(w, W)
  PROVE  walks' \subseteq Walk
  BY DEF Becomes, BlocksOK

\* The fields of a walk, and a walk in another phase.
LEMMA WalkFields ==
  /\ \A w \in Walk : w.next \in Nat /\ w.to \in Nat
  /\ \A w \in Walk, p \in {"wait", "head", "cursor", "walk"} : [w EXCEPT !.phase = p] \in Walk
  /\ Backfill \in Walk
  BY DEF Walk, Backfill

-----------------------------------------------------------------------------
(* The invariant *)

LEMMA CursorStart == Init => CursorInv
<1> SUFFICES ASSUME Init PROVE CursorInv
  OBVIOUS
<1>1. head \in Nat /\ latest \in Nat /\ SavedBehind
  BY IngestAssumption DEF Init, SavedBehind
<1>2. live \in [Racer -> Seq(Log)]
  BY EmptyLog DEF Init
<1>3. walks \subseteq Walk
  BY WalkFields DEF Init
<1> QED BY <1>1, <1>2, <1>3 DEF CursorInv, BlocksOK

\* The tasks of a racer.
LEMMA KeepRacer ==
  ASSUME CursorInv, NEW r \in Racer, LiveTask(r) \/ SubscribeFails(r) \/ SocketLost(r)
  PROVE  CursorInv'
<1> USE DEF CursorInv, racerVars, cursorVars
<1>1. CASE SpawnGapFill(r)
  <2>1. GapFill \subseteq Walk
    BY DEF GapFill, Walk, BlocksOK
  <2>2. walks' \subseteq Walk
    BY <1>1, <2>1 DEF SpawnGapFill, BlocksOK
  <2> QED BY <1>1, <2>2 DEF SpawnGapFill, BlocksOK, SavedBehind
<1>2. CASE LiveLog(r)
  <2>1. /\ live[r] \in Seq(Log) /\ live[r] # <<>>
        /\ Head(live[r]) \in Log /\ Tail(live[r]) \in Seq(Log)
    BY <1>2 DEF LiveLog, BlocksOK
  <2>2. Head(live[r])[1] \in Nat /\ {Head(live[r])} \in SUBSET Log
    BY <2>1 DEF Log
  <2>3. latest' \in Nat
    BY <1>2, <2>2, ProcessType DEF LiveLog
  <2>4. SavedBehind'
    BY <1>2, <2>2, CheckpointKeeps DEF LiveLog
  <2>5. live' \in [Racer -> Seq(Log)]
    BY <1>2, <2>1 DEF LiveLog, BlocksOK
  <2> QED BY <1>2, <2>3, <2>4, <2>5 DEF LiveLog, BlocksOK
<1>3. CASE SocketLost(r)
  <2>1. \A n \in 0..Len(live[r]) : SubSeq(live[r], 1, n) \in Seq(Log)
    BY DEF BlocksOK
  <2>2. live' \in [Racer -> Seq(Log)]
    BY <1>3, <2>1 DEF SocketLost, BlocksOK
  <2> QED BY <1>3, <2>2 DEF SocketLost, BlocksOK, SavedBehind
<1>4. CASE Subscribe(r) \/ SessionOver(r) \/ SubscribeFails(r)
  BY <1>4 DEF Subscribe, SessionOver, SubscribeFails, BlocksOK, SavedBehind
<1> QED BY <1>1, <1>2, <1>3, <1>4 DEF LiveTask

\* The steps of a walk.
LEMMA KeepWalk ==
  ASSUME CursorInv, NEW w \in walks, RangeWalk(w) \/ RequestFails(w)
  PROVE  CursorInv'
<1> USE DEF CursorInv, racerVars, cursorVars, Others
<1>1. w \in Walk /\ w.next \in Nat /\ w.to \in Nat /\ head \in Nat
  BY WalkFields DEF BlocksOK
<1>2. CASE BackfillStarts(w) \/ ReadHead(w) \/ ReadCursor(w) \/ RequestFails(w)
  <2>1. walks' \subseteq Walk
    <3>1. CASE BackfillStarts(w)
      BY <3>1, <1>1, WalkFields, BecomesType DEF BackfillStarts
    <3>2. CASE ReadHead(w)
      <4>1. /\ [w EXCEPT !.phase = "cursor", !.to = head] \in Walk
            /\ [w EXCEPT !.phase = "walk", !.to = head] \in Walk
        BY <1>1 DEF Walk
      <4> QED BY <3>2, <4>1 DEF ReadHead, Becomes, BlocksOK
    <3>3. CASE ReadCursor(w)
      <4> DEFINE from == IF disk > 0 THEN disk + 1 ELSE StartBlock
      <4>1. from \in Nat
        BY IngestAssumption DEF SavedBehind
      <4>2. Becomes(w, IF from > w.to THEN {} ELSE {[w EXCEPT !.phase = "walk", !.next = from]})
        BY <3>3 DEF ReadCursor
      <4> HIDE DEF from
      <4>3. [w EXCEPT !.phase = "walk", !.next = from] \in Walk
        BY <1>1, <4>1 DEF Walk
      <4> QED BY <4>2, <4>3 DEF Becomes, BlocksOK
    <3>4. CASE RequestFails(w)
      BY <3>4, WalkFields, BecomesType DEF RequestFails
    <3> QED BY <1>2, <3>1, <3>2, <3>3, <3>4
  <2>2. UNCHANGED <<head, live, latest, cursor, disk>>
    BY <1>2 DEF BackfillStarts, ReadHead, ReadCursor, RequestFails
  <2> QED BY <2>1, <2>2 DEF BlocksOK, SavedBehind
<1>3. CASE WalkBatch(w)
  <2> DEFINE end == MinOf(w.next + BatchBlocks - 1, w.to)
  <2>1. end \in Nat
    BY <1>1, IngestAssumption DEF MinOf
  <2>2. ProcessLogs(LogsFrom(w.next, end)) /\ Checkpoint(end)
        /\ Becomes(w, IF end = w.to THEN {} ELSE {[w EXCEPT !.next = end + 1]})
        /\ UNCHANGED <<head, live, disk>>
    BY <1>3 DEF WalkBatch
  <2> HIDE DEF end
  <2>3. latest' \in Nat
    BY <1>1, <2>1, <2>2, LogTypes, ProcessType
  <2>4. SavedBehind'
    BY <2>1, <2>2, CheckpointKeeps
  <2>5. [w EXCEPT !.next = end + 1] \in Walk
    BY <1>1, <2>1 DEF Walk
  <2>6. walks' \subseteq Walk
    BY <2>2, <2>5 DEF Becomes, BlocksOK
  <2> QED BY <2>2, <2>3, <2>4, <2>6 DEF BlocksOK
<1> QED BY <1>2, <1>3 DEF RangeWalk

\* The chain, the writer's flush and the next process.
LEMMA KeepSystem ==
  ASSUME CursorInv, Mine \/ SaveCursor \/ Reboot
  PROVE  CursorInv'
<1> USE DEF CursorInv, racerVars, cursorVars
<1>1. CASE Mine
  <2>1. LogList(head + 1) \in Seq(Log)
    BY <1>1, LogTypes, IngestAssumption DEF Mine, BlocksOK
  <2>2. live' \in [Racer -> Seq(Log)]
    BY <1>1, <2>1 DEF Mine, BlocksOK
  <2> QED BY <1>1, <2>2 DEF Mine, BlocksOK, SavedBehind
<1>2. CASE SaveCursor
  BY <1>2 DEF SaveCursor, BlocksOK, SavedBehind
<1>3. CASE Reboot
  <2>1. live' \in [Racer -> Seq(Log)]
    BY <1>3, EmptyLog DEF Reboot
  <2>3. walks' \subseteq Walk
    BY <1>3, WalkFields DEF Reboot
  <2>2. head' \in Nat /\ disk' \in Nat /\ latest' = disk' /\ cursor' = disk'
    BY <1>3 DEF Reboot, BlocksOK, SavedBehind
  <2> QED BY <2>1, <2>2, <2>3 DEF BlocksOK, SavedBehind
<1> QED BY <1>1, <1>2, <1>3

LEMMA CursorStep == CursorInv /\ [Next]_vars => CursorInv'
<1> SUFFICES ASSUME CursorInv, [Next]_vars PROVE CursorInv'
  OBVIOUS
<1>1. CASE Next
  BY <1>1, KeepRacer, KeepWalk, KeepSystem DEF Next
<1>2. CASE UNCHANGED vars
  BY <1>2 DEF vars, racerVars, cursorVars, CursorInv, BlocksOK, SavedBehind
<1> QED BY <1>1, <1>2

\* uma.cursor, as the storage writer saves it, never moves back: not when
\* racers, the back-fill and gap-fills checkpoint in any order, not when
\* checkpoints are dropped, not across crashes and shutdowns.
THEOREM CursorForwardHolds == Spec => CursorForward
<1>1. CursorInv /\ [Next]_vars => [disk' >= disk]_vars
  <2> SUFFICES ASSUME CursorInv, Next PROVE disk' >= disk
    BY DEF CursorInv, SavedBehind
  <2>1. disk \in Nat /\ cursor \in Nat /\ disk <= cursor
    BY DEF CursorInv, SavedBehind
  <2>2. disk' = disk \/ disk' = cursor
    BY DEF Next, Mine, SaveCursor, Reboot, LiveTask, Subscribe, SpawnGapFill, SubscribeFails, LiveLog,
           SocketLost, SessionOver, RangeWalk, BackfillStarts, ReadHead, ReadCursor,
           WalkBatch, RequestFails, Others, cursorVars
  <2> QED BY <2>1, <2>2
<1> QED BY <1>1, CursorStart, CursorStep, PTL DEF Spec, CursorForward

-----------------------------------------------------------------------------
(* What a lost socket missed *)

\* The blocks the promise is about: mined since the process was following, with
\* signal logs, none of them processed.
Missing == {b \in (since + 1)..head : Untouched(b)}

\* The blocks a gap-fill will still ask for, or gave up.
Owed == given \cup {b \in 1..MaxBlock : \E w \in walks : WillWalk(w, b)}

\* Nothing below n is missing but what a gap-fill owes.
Before(n) == \A b \in Missing : b < n => b \in Owed

\* Racer r will bring block b: it is in its channel, or the next gap-fill of r,
\* which starts above every block the others had brought by then, will ask for it.
Coming(r, b) ==
  \/ InChannel(r, b)
  \/ filling[r]
  \/ link[r] = "ended" /\ \A i \in 1..Len(live[r]) : live[r][i][1] < b
  \/ link[r] = "down" /\ ~fresh[r]

\* Logs of mined blocks, in the order of their blocks.
Feed(s, h) ==
  /\ \A i \in 1..Len(s) : s[i][1] \in 1..h /\ s[i] \in LogsOf(s[i][1])
  /\ \A i, j \in 1..Len(s) : i <= j => s[i][1] <= s[j][1]

Bounds == /\ head \in StartHead..MaxBlock /\ since \in StartHead..MaxBlock
          /\ latest <= head /\ cursor <= head

\* What `since` records.
Following ==
  since < MaxBlock => latest > 0 /\ \A r \in Racer : ~(link[r] = "down" /\ fresh[r])

RacerOK(r) == Feed(live[r], head) /\ (link[r] = "down" => live[r] = <<>> /\ ~filling[r])
Channels ==
  /\ link \in [Racer -> {"down", "up", "ended"}]
  /\ fresh \in [Racer -> BOOLEAN] /\ filling \in [Racer -> BOOLEAN]
  /\ \A r \in Racer : RacerOK(r)

\* A walk raises latest_block and the cursor over nothing that is missing.
WalkOK(w) ==
  /\ w.next <= head + 1 /\ Before(w.next)
  /\ w.kind = "gapfill" => w.phase \in {"head", "walk"}
  /\ w.phase \in {"cursor", "walk"} => w.to <= head
  /\ w.phase = "walk" => w.next <= w.to
WalksOK == \A w \in walks : WalkOK(w)

Passed == Before(latest + 1) /\ Before(cursor + 1)

\* Every racer, on its own, will bring what no gap-fill owes.
Tracked == \A r \in Racer : \A b \in Missing : b \in Owed \/ Coming(r, b)

\* The inductive invariant.
FollowInv == CursorInv /\ Bounds /\ Following /\ Channels /\ WalksOK /\ Passed /\ Tracked

-----------------------------------------------------------------------------
(* Channels of logs *)

\* The first log leaves the channel.
LEMMA FeedTail ==
  ASSUME NEW s \in Seq(Log), NEW h \in Nat, Feed(s, h), s # <<>>
  PROVE  /\ Feed(Tail(s), h)
         /\ Head(s)[1] \in 1..h /\ Head(s) \in LogsOf(Head(s)[1])
         /\ \A i \in 1..Len(s) : Head(s)[1] <= s[i][1]
         /\ \A i \in 1..Len(s) :
              s[i][1] # Head(s)[1] => i - 1 \in 1..Len(Tail(s)) /\ Tail(s)[i - 1] = s[i]
         /\ \A i \in 1..Len(Tail(s)) : i + 1 \in 1..Len(s) /\ Tail(s)[i] = s[i + 1]
<1>1. Len(s) \in Nat /\ Len(s) > 0 /\ Head(s) = s[1] /\ Len(Tail(s)) = Len(s) - 1
  OBVIOUS
<1>2. \A i \in 1..Len(Tail(s)) : i + 1 \in 1..Len(s) /\ Tail(s)[i] = s[i + 1]
  BY <1>1
<1>3. \A i \in 1..Len(s) :
        s[i][1] # Head(s)[1] => i - 1 \in 1..Len(Tail(s)) /\ Tail(s)[i - 1] = s[i]
  BY <1>1
<1>4. Head(s)[1] \in 1..h /\ Head(s) \in LogsOf(Head(s)[1])
  BY <1>1 DEF Feed
<1>5. \A i \in 1..Len(s) : Head(s)[1] <= s[i][1]
  BY <1>1 DEF Feed
<1>6. \A i \in 1..Len(Tail(s)) : Tail(s)[i][1] \in 1..h /\ Tail(s)[i] \in LogsOf(Tail(s)[i][1])
  BY <1>2 DEF Feed
<1>7. \A i, j \in 1..Len(Tail(s)) : i <= j => Tail(s)[i][1] <= Tail(s)[j][1]
  BY <1>1, <1>2 DEF Feed
<1> QED BY <1>2, <1>3, <1>4, <1>5, <1>6, <1>7 DEF Feed

\* A lost socket leaves a prefix: a block is still in it, or above all of it.
LEMMA FeedPrefix ==
  ASSUME NEW s \in Seq(Log), NEW h \in Nat, Feed(s, h), NEW n \in 0..Len(s)
  PROVE  /\ Feed(SubSeq(s, 1, n), h)
         /\ \A i \in 1..Len(s) :
              \/ \E j \in 1..Len(SubSeq(s, 1, n)) : SubSeq(s, 1, n)[j][1] = s[i][1]
              \/ \A j \in 1..Len(SubSeq(s, 1, n)) : SubSeq(s, 1, n)[j][1] < s[i][1]
<1> DEFINE p == SubSeq(s, 1, n)
<1>1. Len(s) \in Nat /\ Len(p) = n /\ \A j \in 1..n : p[j] = s[j] /\ j \in 1..Len(s)
  OBVIOUS
<1> HIDE DEF p
<1>2. Feed(p, h)
  BY <1>1 DEF Feed
<1>3. ASSUME NEW i \in 1..Len(s), \A j \in 1..Len(p) : p[j][1] # s[i][1]
      PROVE  \A j \in 1..Len(p) : p[j][1] < s[i][1]
  <2>1. i > n
    BY <1>1, <1>3
  <2> SUFFICES ASSUME NEW j \in 1..n PROVE p[j][1] < s[i][1]
    BY <1>1
  <2>2. s[j][1] <= s[i][1] /\ s[j][1] # s[i][1] /\ p[j] = s[j]
    BY <1>1, <1>3, <2>1 DEF Feed
  <2>3. s[j][1] \in Nat /\ s[i][1] \in Nat
    BY <1>1 DEF Feed
  <2> QED BY <2>2, <2>3
<1> QED BY <1>2, <1>3 DEF p

\* The chain grows past a channel.
LEMMA FeedGrows ==
  ASSUME NEW s, NEW h \in Nat, Feed(s, h)
  PROVE  Feed(s, h + 1)
  BY DEF Feed

\* The logs of the next block arrive.
LEMMA FeedAppend ==
  ASSUME NEW s \in Seq(Log), NEW h \in Nat, h < MaxBlock, Feed(s, h)
  PROVE  /\ Feed(s \o LogList(h + 1), h + 1)
         /\ \A i \in 1..Len(s) :
              i \in 1..Len(s \o LogList(h + 1)) /\ (s \o LogList(h + 1))[i] = s[i]
         /\ LogsOf(h + 1) # {} =>
              \E i \in 1..Len(s \o LogList(h + 1)) : (s \o LogList(h + 1))[i][1] = h + 1
<1> DEFINE c == h + 1
           t == LogList(c)
           a == s \o t
<1>1. c \in 1..MaxBlock /\ LogsIn[c] \in Nat
  BY IngestAssumption
<1>2. t \in Seq(Log)
  BY <1>1, LogTypes
<1>3. Len(t) = LogsIn[c] /\ \A i \in 1..LogsIn[c] : t[i] = <<c, i>> /\ t[i] \in LogsOf(c)
  BY <1>1 DEF LogList, LogsOf
<1> HIDE DEF t
<1>4. /\ Len(s) \in Nat /\ Len(a) = Len(s) + LogsIn[c]
      /\ \A i \in 1..Len(s) : a[i] = s[i]
      /\ \A i \in 1..Len(a) : i > Len(s) => i - Len(s) \in 1..LogsIn[c] /\ a[i] = t[i - Len(s)]
  BY <1>1, <1>2, <1>3
<1>5. \A i \in 1..Len(a) : i > Len(s) => a[i] \in LogsOf(c) /\ a[i][1] = c
  BY <1>3, <1>4
<1> HIDE DEF a
<1>6. \A i \in 1..Len(s) : s[i][1] \in 1..h /\ s[i] \in LogsOf(s[i][1])
  BY DEF Feed
<1>7. \A i \in 1..Len(a) : a[i][1] \in 1..c /\ a[i] \in LogsOf(a[i][1])
  <2> SUFFICES ASSUME NEW i \in 1..Len(a) PROVE a[i][1] \in 1..c /\ a[i] \in LogsOf(a[i][1])
    OBVIOUS
  <2>1. CASE i > Len(s)
    BY <1>1, <1>5, <2>1
  <2>2. CASE i <= Len(s)
    <3>1. i \in 1..Len(s) /\ a[i] = s[i]
      BY <1>4, <2>2
    <3> QED BY <3>1, <1>6
  <2> QED BY <1>4, <2>1, <2>2
<1>8. ASSUME NEW i \in 1..Len(a), NEW j \in 1..Len(a), i <= j
      PROVE  a[i][1] <= a[j][1]
  <2>1. CASE j > Len(s)
    BY <1>1, <1>5, <1>7, <2>1
  <2>2. CASE j <= Len(s)
    BY <1>1, <1>4, <1>8, <2>2 DEF Feed
  <2> QED BY <1>4, <2>1, <2>2
<1>9. Feed(a, c)
  BY <1>7, <1>8 DEF Feed
<1>10. ASSUME LogsOf(c) # {}
       PROVE  \E i \in 1..Len(a) : a[i][1] = c
  <2>1. LogsIn[c] > 0
    BY <1>1, <1>10 DEF LogsOf
  <2>2. Len(s) + 1 \in 1..Len(a) /\ Len(s) + 1 > Len(s)
    BY <1>1, <1>4, <2>1
  <2> QED BY <1>5, <2>2
<1>11. \A i \in 1..Len(s) : i \in 1..Len(a) /\ a[i] = s[i]
  BY <1>1, <1>4
<1> QED BY <1>9, <1>10, <1>11 DEF a, t

-----------------------------------------------------------------------------
(* What the steps have in common *)

LEMMA MissingRange ==
  ASSUME Bounds
  PROVE  /\ Missing \subseteq 1..MaxBlock
         /\ \A b \in Missing : since < b /\ b <= head /\ since < MaxBlock
  BY IngestAssumption DEF Bounds, Missing

\* While no block is mined, processing and the history can only take blocks
\* off the list.
LEMMA MissingShrinks ==
  ASSUME Bounds, seen \subseteq seen', head' = head, since' = since \/ since' = head
  PROVE  Missing' \subseteq Missing
<1>1. head \in Nat /\ since \in Nat
  BY IngestAssumption DEF Bounds
<1>2. CASE since' = since
  BY <1>2 DEF Missing, Untouched, LogsOf
<1>3. CASE since' = head
  <2>1. \A b \in (since' + 1)..head' : FALSE
    BY <1>1, <1>3
  <2> QED BY <2>1 DEF Missing
<1> QED BY <1>2, <1>3

\* A process that has seen nothing yet, or just started, misses nothing.
LEMMA MissingEmpty ==
  ASSUME head \in 0..MaxBlock, since = MaxBlock
  PROVE  Missing = {}
  BY IngestAssumption DEF Missing

\* A walk gives way to others: what it owed is processed, owed by those, or
\* given up.
LEMMA OwedKept ==
  ASSUME NEW w, NEW W, Becomes(w, W), given \subseteq given',
         \A b \in Missing' : WillWalk(w, b) => b \in given' \/ \E v \in W : WillWalk(v, b)
  PROVE  \A b \in Missing' : b \in Owed => b \in Owed'
  BY DEF Becomes, Owed, WillWalk

LEMMA OwedSame ==
  ASSUME walks' = walks, given' = given
  PROVE  Owed' = Owed
  BY DEF Owed, WillWalk

LEMMA PassedKept ==
  ASSUME Passed, latest' = latest, cursor' = cursor, Missing' \subseteq Missing,
         \A b \in Missing' : b \in Owed => b \in Owed'
  PROVE  Passed'
  BY DEF Passed, Before

LEMMA WalkKept ==
  ASSUME NEW w, WalkOK(w), head' = head, Missing' \subseteq Missing,
         \A b \in Missing' : b \in Owed => b \in Owed'
  PROVE  WalkOK(w)'
  BY DEF WalkOK, Before

LEMMA TrackedKept ==
  ASSUME Tracked, Missing' \subseteq Missing,
         \A b \in Missing' : b \in Owed => b \in Owed',
         \A q \in Racer : \A b \in Missing' : Coming(q, b) => (b \in Owed' \/ Coming(q, b)')
  PROVE  Tracked'
  BY DEF Tracked

\* A racer whose channel, link and session did not change.
LEMMA ComingSame ==
  ASSUME NEW q, live'[q] = live[q], filling'[q] = filling[q], link'[q] = link[q],
         fresh'[q] = fresh[q]
  PROVE  \A b : Coming(q, b) <=> Coming(q, b)'
  BY DEF Coming, InChannel

LEMMA RacerSame ==
  ASSUME NEW q, RacerOK(q), live'[q] = live[q], filling'[q] = filling[q], link'[q] = link[q],
         head' = head
  PROVE  RacerOK(q)'
  BY DEF RacerOK, Feed, LogsOf

\* Steps after which the process may have begun to follow the chain.
LEMMA SettleKeeps ==
  ASSUME Bounds, Following, Settle, latest \in Nat, latest' \in Nat, latest' >= latest, head' = head,
         \A q \in Racer : (link'[q] = "down" /\ fresh'[q]) => (link[q] = "down" /\ fresh[q])
  PROVE  /\ since' = since \/ since' = head
         /\ since' \in StartHead..MaxBlock /\ Following'
<1>1. head \in StartHead..MaxBlock /\ since \in StartHead..MaxBlock
  BY DEF Bounds
<1> DEFINE following == latest' > 0 /\ \A r \in Racer : ~(link'[r] = "down" /\ fresh'[r])
<1>2. since' = IF since = MaxBlock /\ following THEN head ELSE since
  BY DEF Settle
<1>3. CASE since = MaxBlock /\ following
  BY <1>1, <1>2, <1>3 DEF Following
<1> HIDE DEF following
<1>4. CASE ~(since = MaxBlock /\ following)
  <2>1. since' = since
    BY <1>2, <1>4
  <2>2. CASE since = MaxBlock
    BY <1>1, <2>1, <2>2, IngestAssumption DEF Following
  <2>3. CASE since # MaxBlock
    <3>1. since < MaxBlock
      BY <1>1, <2>3, IngestAssumption
    <3>2. latest' > 0 /\ \A r \in Racer : ~(link'[r] = "down" /\ fresh'[r])
      BY <3>1 DEF Following
    <3> QED BY <1>1, <2>1, <3>2 DEF Following
  <2> QED BY <2>2, <2>3
<1> QED BY <1>3, <1>4

\* Steps that leave the history alone.
LEMMA FollowingSame ==
  ASSUME Following, since' = since, latest' = latest,
         \A q \in Racer : (link'[q] = "down" /\ fresh'[q]) => (link[q] = "down" /\ fresh[q])
  PROVE  Following'
  BY DEF Following

\* process raises latest_block at most to a block of the logs.
LEMMA LatestRaised ==
  ASSUME NEW S, ProcessLogs(S), latest \in Nat, \A l \in S : l[1] \in Nat
  PROVE  /\ latest' \in Nat /\ latest' >= latest
         /\ latest' = latest \/ \E l \in S : latest' = l[1]
         /\ seen \subseteq seen' /\ S \subseteq seen'
<1> DEFINE new == {latest} \cup {l[1] : l \in S \ known}
<1>1. latest' \in {b \in new : \A c \in new : c <= b} /\ seen' = seen \cup S
  BY DEF ProcessLogs
<1>2. latest' \in new /\ latest' >= latest
  BY <1>1
<1> QED BY <1>1, <1>2

\* A process boots on a cursor at or below the head.
Booted ==
  /\ CursorInv /\ head \in StartHead..MaxBlock /\ since = MaxBlock
  /\ latest <= head /\ cursor <= head /\ walks = {Backfill}
  /\ link = [r \in Racer |-> "down"] /\ fresh = [r \in Racer |-> TRUE]
  /\ live = [r \in Racer |-> <<>>] /\ filling = [r \in Racer |-> FALSE]

LEMMA FollowBoot == Booted => FollowInv
<1> SUFFICES ASSUME Booted PROVE FollowInv
  OBVIOUS
<1>1. Missing = {}
  BY MissingEmpty, IngestAssumption DEF Booted
<1>2. Bounds /\ Following
  BY IngestAssumption DEF Bounds, Following, Booted
<1>3. Passed /\ Tracked
  BY <1>1 DEF Passed, Before, Tracked
<1>4. WalksOK
  BY <1>1, IngestAssumption DEF WalksOK, WalkOK, Before, Backfill, Booted
<1>5. \A r \in Racer : live[r] = <<>> /\ ~filling[r]
  BY DEF Booted
<1>6. Channels
  BY <1>5 DEF Channels, RacerOK, Feed, Booted
<1> QED BY <1>2, <1>3, <1>4, <1>6 DEF FollowInv, Booted

LEMMA FollowStart == Init => FollowInv
<1> SUFFICES ASSUME Init PROVE FollowInv
  OBVIOUS
<1>1. CursorInv
  BY CursorStart
<1>2. head \in StartHead..MaxBlock /\ since = MaxBlock /\ latest <= head /\ cursor <= head
  BY IngestAssumption DEF Init
<1> QED BY <1>1, <1>2, FollowBoot DEF Init, Booted

-----------------------------------------------------------------------------
(* The tasks of a racer *)

\* A racer subscribes, or its first attempt fails.
LEMMA FollowSubscribe ==
  ASSUME FollowInv, NEW r \in Racer, Subscribe(r) \/ SubscribeFails(r), CursorInv'
  PROVE  FollowInv'
<1> USE DEF FollowInv, racerVars, cursorVars
<1>1. /\ UNCHANGED <<head, live, walks, latest, cursor, seen, given>> /\ Settle /\ link[r] = "down"
  BY DEF Subscribe, SubscribeFails
<1>2. latest \in Nat /\ latest' >= latest
  BY <1>1 DEF CursorInv, BlocksOK
<1>3. \A q \in Racer : (link'[q] = "down" /\ fresh'[q]) => (link[q] = "down" /\ fresh[q])
  BY DEF Subscribe, SubscribeFails, Channels
<1>4. /\ since' = since \/ since' = head
      /\ since' \in StartHead..MaxBlock /\ Following'
  BY <1>1, <1>2, <1>3, SettleKeeps
<1>5. Bounds'
  BY <1>1, <1>4 DEF Bounds
<1>6. Missing' \subseteq Missing /\ Owed' = Owed
  BY <1>1, <1>4, MissingShrinks, OwedSame
<1>7. Passed'
  BY <1>1, <1>6, PassedKept
<1>8. WalksOK'
  BY <1>1, <1>6, WalkKept DEF WalksOK
<1>9. \A q \in Racer : q # r =>
        /\ live'[q] = live[q] /\ filling'[q] = filling[q]
        /\ link'[q] = link[q] /\ fresh'[q] = fresh[q]
  BY <1>1 DEF Subscribe, SubscribeFails, Channels
<1>10. Channels'
  <2>1. /\ link' \in [Racer -> {"down", "up", "ended"}]
        /\ fresh' \in [Racer -> BOOLEAN] /\ filling' \in [Racer -> BOOLEAN]
    BY DEF Subscribe, SubscribeFails, Channels
  <2>2. RacerOK(r)'
    <3>1. Feed(live'[r], head') /\ live'[r] = <<>>
      BY <1>1 DEF Channels, RacerOK, Feed, LogsOf
    <3>2. link'[r] = "down" => ~filling'[r]
      BY <1>1 DEF Subscribe, SubscribeFails, Channels, RacerOK
    <3> QED BY <3>1, <3>2 DEF RacerOK
  <2>3. \A q \in Racer : q # r => RacerOK(q)'
    BY <1>1, <1>9, RacerSame DEF Channels
  <2> QED BY <2>1, <2>2, <2>3 DEF Channels
<1>11. \A b \in Missing' : Coming(r, b) => Coming(r, b)'
  <2> SUFFICES ASSUME NEW b \in Missing', Coming(r, b) PROVE Coming(r, b)'
    OBVIOUS
  <2>1. live[r] = <<>> /\ ~filling[r]
    BY <1>1 DEF Channels, RacerOK
  <2>2. ~fresh[r]
    BY <1>1, <2>1 DEF Coming, InChannel
  <2>3. Subscribe(r) /\ filling'[r]
    BY <2>2 DEF Subscribe, SubscribeFails, Channels
  <2> QED BY <2>3 DEF Coming
<1>12. Tracked'
  BY <1>6, <1>9, <1>11, ComingSame, TrackedKept
<1> QED BY <1>4, <1>5, <1>7, <1>8, <1>10, <1>12

\* The gap-fill of a reconnected racer.
LEMMA FollowSpawn ==
  ASSUME FollowInv, NEW r \in Racer, SpawnGapFill(r), CursorInv'
  PROVE  FollowInv'
<1> USE DEF FollowInv, racerVars, cursorVars
<1>1. /\ UNCHANGED <<head, link, fresh, live, latest, cursor, seen, since, given>>
      /\ filling' = [filling EXCEPT ![r] = FALSE] /\ walks' = walks \cup GapFill
  BY DEF SpawnGapFill
<1>2. head \in Nat /\ latest \in Nat /\ latest <= head
  BY DEF CursorInv, BlocksOK, Bounds
<1>3. Bounds' /\ Following'
  BY <1>1, FollowingSame DEF Bounds
<1>4. Missing' \subseteq Missing
  BY <1>1, MissingShrinks
<1>5. \A b \in Missing' : b \in Owed'
  <2> SUFFICES ASSUME NEW b \in Missing' PROVE b \in Owed'
    OBVIOUS
  <2>1. b \in Missing /\ b \in 1..MaxBlock /\ latest > 0
    BY <1>4, MissingRange DEF Following
  <2>2. CASE b <= latest
    <3>1. b \in Owed
      BY <1>2, <2>1, <2>2 DEF Passed, Before
    <3> QED BY <1>1, <3>1 DEF Owed, WillWalk
  <2>3. CASE b > latest
    <3> DEFINE g == [kind |-> "gapfill", phase |-> "head", next |-> latest + 1, to |-> 0]
    <3>1. g \in walks'
      BY <1>1, <2>1 DEF GapFill
    <3>2. WillWalk(g, b)
      BY <1>2, <2>1, <2>3 DEF WillWalk
    <3> HIDE DEF g
    <3> QED BY <2>1, <3>1, <3>2 DEF Owed, WillWalk
  <2> QED BY <1>2, <2>1, <2>2, <2>3
<1>6. Passed' /\ Tracked'
  BY <1>5 DEF Passed, Before, Tracked
<1>7. WalksOK'
  <2>1. \A w \in walks : WalkOK(w)'
    BY <1>1, <1>4, <1>5, WalkKept DEF WalksOK
  <2>2. \A w \in GapFill : WalkOK(w)'
    BY <1>1, <1>2, <1>5 DEF GapFill, WalkOK, Before
  <2> QED BY <1>1, <2>1, <2>2 DEF WalksOK
<1>8. Channels'
  <2>1. \A q \in Racer : RacerOK(q)'
    <3>1. \A q \in Racer : filling'[q] => filling[q]
      BY <1>1 DEF Channels
    <3> SUFFICES ASSUME NEW q \in Racer PROVE RacerOK(q)'
      OBVIOUS
    <3>2. RacerOK(q) /\ live'[q] = live[q] /\ link'[q] = link[q] /\ head' = head
      BY <1>1 DEF Channels
    <3>3. Feed(live'[q], head')
      BY <3>2 DEF RacerOK, Feed, LogsOf
    <3> QED BY <3>1, <3>2, <3>3 DEF RacerOK
  <2> QED BY <1>1, <2>1 DEF Channels
<1> QED BY <1>3, <1>6, <1>7, <1>8

\* A lost socket: what it takes away is above all it leaves.
LEMMA FollowSocket ==
  ASSUME FollowInv, NEW r \in Racer, SocketLost(r) \/ SessionOver(r), CursorInv'
  PROVE  FollowInv'
<1> USE DEF FollowInv, racerVars, cursorVars
<1>1. /\ UNCHANGED <<head, filling, walks, latest, cursor, seen, since, given>>
  BY DEF SocketLost, SessionOver
<1>2. head \in Nat /\ live[r] \in Seq(Log) /\ Feed(live[r], head) /\ RacerOK(r)
  BY DEF CursorInv, BlocksOK, Channels, RacerOK
<1>3. \A q \in Racer : q # r =>
        /\ live'[q] = live[q] /\ filling'[q] = filling[q]
        /\ link'[q] = link[q] /\ fresh'[q] = fresh[q]
  BY DEF SocketLost, SessionOver, CursorInv, BlocksOK, Channels
<1>4. (link'[r] = "down" /\ fresh'[r]) => FALSE
  BY DEF SocketLost, SessionOver, Channels
<1>5. Bounds' /\ Following'
  BY <1>1, <1>3, <1>4, FollowingSame DEF Bounds
<1>6. Missing' \subseteq Missing /\ Owed' = Owed
  BY <1>1, MissingShrinks, OwedSame
<1>7. Passed'
  BY <1>1, <1>6, PassedKept
<1>8. WalksOK'
  BY <1>1, <1>6, WalkKept DEF WalksOK
<1>9. RacerOK(r)' /\ \A b \in Missing' : Coming(r, b) => Coming(r, b)'
  <2>1. CASE SocketLost(r)
    <3>1. PICK n \in 0..Len(live[r]) : live' = [live EXCEPT ![r] = SubSeq(live[r], 1, n)]
      BY <2>1 DEF SocketLost
    <3> DEFINE p == SubSeq(live[r], 1, n)
    <3>2. live'[r] = p /\ link'[r] = "ended" /\ link[r] = "up"
      BY <2>1, <3>1 DEF SocketLost, CursorInv, BlocksOK, Channels
    <3>3. /\ Feed(p, head)
          /\ \A i \in 1..Len(live[r]) :
               \/ \E j \in 1..Len(p) : p[j][1] = live[r][i][1]
               \/ \A j \in 1..Len(p) : p[j][1] < live[r][i][1]
      BY <1>2, FeedPrefix
    <3> HIDE DEF p
    <3>4. Feed(live'[r], head')
      BY <1>1, <3>2, <3>3 DEF Feed, LogsOf
    <3>5. \A b \in Missing' : Coming(r, b) => InChannel(r, b) \/ filling'[r]
      BY <1>1, <3>2 DEF Coming
    <3>6. \A b : InChannel(r, b) => Coming(r, b)'
      BY <3>2, <3>3 DEF Coming, InChannel
    <3>7. \A b : filling'[r] => Coming(r, b)'
      BY DEF Coming
    <3> QED BY <3>2, <3>4, <3>5, <3>6, <3>7 DEF RacerOK
  <2>2. CASE SessionOver(r)
    <3>1. live'[r] = <<>> /\ ~filling'[r] /\ live'[r] = live[r]
      BY <2>2 DEF SessionOver
    <3>2. Feed(live'[r], head')
      BY <1>1, <1>2, <3>1 DEF Feed, LogsOf
    <3>3. link'[r] = "down" /\ ~fresh'[r]
      BY <2>2 DEF SessionOver, Channels
    <3> QED BY <3>1, <3>2, <3>3 DEF RacerOK, Coming
  <2> QED BY <2>1, <2>2
<1>10. Channels'
  <2>1. /\ link' \in [Racer -> {"down", "up", "ended"}]
        /\ fresh' \in [Racer -> BOOLEAN] /\ filling' \in [Racer -> BOOLEAN]
    BY <1>1 DEF SocketLost, SessionOver, Channels
  <2>2. \A q \in Racer : q # r => RacerOK(q)'
    BY <1>1, <1>3, RacerSame DEF Channels
  <2> QED BY <1>9, <2>1, <2>2 DEF Channels
<1>11. Tracked'
  BY <1>3, <1>6, <1>9, ComingSame, TrackedKept
<1> QED BY <1>5, <1>7, <1>8, <1>10, <1>11

\* A live log: the channel is in order, so its block has nothing missing below
\* it but what gap-fills owe, and may become the newest one.
LEMMA FollowLive ==
  ASSUME FollowInv, NEW r \in Racer, LiveLog(r), CursorInv'
  PROVE  FollowInv'
<1> USE DEF FollowInv, racerVars, cursorVars
<1> DEFINE l == Head(live[r])
           c == Head(live[r])[1]
<1>1. /\ UNCHANGED <<head, link, fresh, filling, walks, given>> /\ Settle
      /\ ~filling[r] /\ live[r] # <<>> /\ ProcessLogs({l}) /\ Checkpoint(c)
      /\ live' = [live EXCEPT ![r] = Tail(live[r])]
  BY DEF LiveLog
<1>2. /\ head \in Nat /\ live[r] \in Seq(Log) /\ Feed(live[r], head) /\ RacerOK(r)
      /\ latest \in Nat /\ cursor \in Nat /\ latest <= head /\ cursor <= head
  BY DEF CursorInv, BlocksOK, SavedBehind, Channels, RacerOK, Bounds
<1>3. /\ Feed(Tail(live[r]), head)
      /\ c \in 1..head /\ l \in LogsOf(c)
      /\ \A i \in 1..Len(live[r]) : c <= live[r][i][1]
      /\ \A i \in 1..Len(live[r]) : live[r][i][1] # c =>
           i - 1 \in 1..Len(Tail(live[r])) /\ Tail(live[r])[i - 1] = live[r][i]
      /\ \A i \in 1..Len(Tail(live[r])) :
           i + 1 \in 1..Len(live[r]) /\ Tail(live[r])[i] = live[r][i + 1]
  BY <1>1, <1>2, FeedTail
<1>4. link[r] # "down" /\ live'[r] = Tail(live[r])
  BY <1>1, <1>2 DEF RacerOK, CursorInv, BlocksOK
<1>5. \A q \in Racer : q # r =>
        /\ live'[q] = live[q] /\ filling'[q] = filling[q]
        /\ link'[q] = link[q] /\ fresh'[q] = fresh[q]
  BY <1>1 DEF CursorInv, BlocksOK
<1>6. /\ latest' \in Nat /\ latest' >= latest /\ (latest' = latest \/ latest' = c)
      /\ seen \subseteq seen' /\ l \in seen'
  <2>1. \A k \in {l} : k[1] \in Nat
    BY <1>3
  <2>2. /\ latest' \in Nat /\ latest' >= latest
        /\ latest' = latest \/ \E k \in {l} : latest' = k[1]
        /\ seen \subseteq seen' /\ {l} \subseteq seen'
    BY <1>1, <1>2, <2>1, LatestRaised
  <2> QED BY <2>2
<1>7. cursor' = cursor \/ cursor' = c
  BY <1>1 DEF Checkpoint, MaxOf
<1> HIDE DEF l, c
<1>8. /\ since' = since \/ since' = head
      /\ since' \in StartHead..MaxBlock /\ Following'
  BY <1>1, <1>2, <1>6, SettleKeeps
<1>9. Bounds'
  BY <1>1, <1>2, <1>3, <1>6, <1>7, <1>8 DEF Bounds
<1>10. Missing' \subseteq Missing /\ Missing \subseteq 1..MaxBlock /\ Owed' = Owed
  BY <1>1, <1>6, <1>8, MissingShrinks, MissingRange, OwedSame
<1>11. c \notin Missing'
  BY <1>3, <1>6 DEF Missing, Untouched, LogsOf
<1>12. \A b \in Missing' : b < c + 1 => b \in Owed'
  <2>5. c \in Nat /\ \A b \in Missing' : b \in Nat
    BY <1>2, <1>3, <1>10
  <2> SUFFICES ASSUME NEW b \in Missing', b <= c, b \notin Owed PROVE FALSE
    BY <1>10, <2>5
  <2>1. Coming(r, b)
    BY <1>10 DEF Tracked
  <2>2. b # c /\ b < c
    BY <1>11, <2>5
  <2>3. CASE InChannel(r, b)
    BY <1>3, <1>10, <2>2, <2>3 DEF InChannel
  <2>4. CASE \A i \in 1..Len(live[r]) : live[r][i][1] < b
    <3>1. 1 \in 1..Len(live[r]) /\ live[r][1] = l
      BY <1>1, <1>2 DEF l
    <3> QED BY <1>3, <1>10, <2>2, <2>4, <3>1 DEF c, l
  <2> QED BY <1>1, <1>4, <2>1, <2>3, <2>4 DEF Coming
<1>13. Passed'
  BY <1>2, <1>6, <1>7, <1>10, <1>12 DEF Passed, Before
<1>14. WalksOK'
  BY <1>1, <1>10, WalkKept DEF WalksOK
<1>15. \A b \in Missing' : Coming(r, b) => Coming(r, b)'
  <2> SUFFICES ASSUME NEW b \in Missing', Coming(r, b) PROVE Coming(r, b)'
    OBVIOUS
  <2>1. b # c
    BY <1>11
  <2>2. CASE InChannel(r, b)
    <3>1. PICK i \in 1..Len(live[r]) : live[r][i][1] = b
      BY <2>2 DEF InChannel
    <3>2. i - 1 \in 1..Len(live'[r]) /\ live'[r][i - 1][1] = b
      BY <1>3, <1>4, <2>1, <3>1
    <3> QED BY <3>2 DEF Coming, InChannel
  <2>3. CASE link[r] = "ended" /\ \A i \in 1..Len(live[r]) : live[r][i][1] < b
    <3>1. \A i \in 1..Len(live'[r]) : live'[r][i][1] < b
      BY <1>3, <1>4, <2>3
    <3> QED BY <1>1, <2>3, <3>1 DEF Coming
  <2> QED BY <1>1, <1>4, <2>2, <2>3 DEF Coming
<1>16. Channels'
  <2>1. Feed(live'[r], head')
    BY <1>1, <1>3, <1>4
  <2>2. RacerOK(r)'
    BY <1>1, <1>4, <2>1 DEF RacerOK
  <2>3. \A q \in Racer : q # r => RacerOK(q)'
    BY <1>1, <1>5, RacerSame DEF Channels
  <2> QED BY <1>1, <2>2, <2>3 DEF Channels
<1>17. Tracked'
  BY <1>5, <1>10, <1>15, ComingSame, TrackedKept
<1> QED BY <1>8, <1>9, <1>13, <1>14, <1>16, <1>17

-----------------------------------------------------------------------------
(* The steps of a walk *)

\* A walk that processes nothing.
LEMMA FollowQuiet ==
  ASSUME FollowInv, CursorInv', NEW w \in walks, NEW W, Becomes(w, W), given \subseteq given',
         UNCHANGED <<head, racerVars, latest, cursor, seen, since>>,
         \A b \in Missing' : WillWalk(w, b) => b \in given' \/ \E v \in W : WillWalk(v, b),
         (Missing' \subseteq Missing /\ \A b \in Missing' : b \in Owed => b \in Owed')
           => \A v \in W : WalkOK(v)'
  PROVE  FollowInv'
<1> USE DEF FollowInv, racerVars
<1>1. Bounds' /\ Following'
  BY FollowingSame DEF Bounds
<1>2. Missing' \subseteq Missing
  BY MissingShrinks
<1>3. \A b \in Missing' : b \in Owed => b \in Owed'
  BY OwedKept
<1>4. Passed'
  BY <1>2, <1>3, PassedKept
<1>5. WalksOK'
  <2>1. \A v \in walks : WalkOK(v)'
    BY <1>2, <1>3, WalkKept DEF WalksOK
  <2> QED BY <1>2, <1>3, <2>1 DEF Becomes, WalksOK
<1>6. Channels'
  BY RacerSame DEF Channels
<1>7. Tracked'
  BY <1>2, <1>3, ComingSame, TrackedKept
<1> QED BY <1>1, <1>4, <1>5, <1>6, <1>7

LEMMA FollowRead ==
  ASSUME FollowInv, CursorInv', NEW w \in walks,
         BackfillStarts(w) \/ ReadHead(w) \/ ReadCursor(w) \/ RequestFails(w)
  PROVE  FollowInv'
<1> USE DEF FollowInv
<1>1. /\ w \in Walk /\ w.next \in Nat /\ w.to \in Nat /\ head \in Nat /\ WalkOK(w)
      /\ disk \in Nat /\ cursor \in Nat /\ disk <= cursor /\ cursor <= head
  BY WalkFields DEF CursorInv, BlocksOK, SavedBehind, WalksOK, Bounds
<1>2. UNCHANGED <<head, racerVars, latest, cursor, seen, since>> /\ given \subseteq given'
  BY DEF BackfillStarts, ReadHead, ReadCursor, RequestFails, Others, racerVars, cursorVars
<1>3. \A b \in Missing' : b \in Nat /\ b <= head
  BY <1>1, <1>2, MissingShrinks, MissingRange DEF racerVars
<1>4. \A v : ~(v.kind = "gapfill") => \A b : ~WillWalk(v, b)
  BY DEF WillWalk
<1>5. CASE BackfillStarts(w)
  <2> DEFINE v == [w EXCEPT !.phase = "head"]
  <2>1. Becomes(w, {v}) /\ w.phase = "wait"
    BY <1>5 DEF BackfillStarts
  <2>2. v.kind = w.kind /\ v.next = w.next /\ v.phase = "head" /\ w.kind # "gapfill"
    BY <1>1, <2>1 DEF Walk, WalkOK
  <2> HIDE DEF v
  <2>3. ASSUME Missing' \subseteq Missing, \A b \in Missing' : b \in Owed => b \in Owed'
        PROVE  \A u \in {v} : WalkOK(u)'
    BY <1>1, <1>2, <2>2, <2>3 DEF WalkOK, Before
  <2> QED BY <1>2, <1>4, <2>1, <2>2, <2>3, FollowQuiet
<1>6. CASE ReadHead(w) /\ w.kind = "backfill"
  <2> DEFINE v == [w EXCEPT !.phase = "cursor", !.to = head]
  <2>1. Becomes(w, {v})
    BY <1>6 DEF ReadHead
  <2>2. v.kind = w.kind /\ v.next = w.next /\ v.phase = "cursor" /\ v.to = head
    BY <1>1 DEF Walk
  <2> HIDE DEF v
  <2>3. ASSUME Missing' \subseteq Missing, \A b \in Missing' : b \in Owed => b \in Owed'
        PROVE  \A u \in {v} : WalkOK(u)'
    BY <1>1, <1>2, <1>6, <2>2, <2>3 DEF WalkOK, Before
  <2> QED BY <1>2, <1>4, <1>6, <2>1, <2>2, <2>3, FollowQuiet
<1>7. CASE ReadHead(w) /\ w.kind = "gapfill"
  <2> DEFINE v == [w EXCEPT !.phase = "walk", !.to = head]
             W == IF w.next > head THEN {} ELSE {v}
  <2>1. Becomes(w, W)
    BY <1>7 DEF ReadHead
  <2>2. v.kind = w.kind /\ v.next = w.next /\ v.phase = "walk" /\ v.to = head
    BY <1>1 DEF Walk
  <2> HIDE DEF v
  <2>3. ASSUME Missing' \subseteq Missing, \A b \in Missing' : b \in Owed => b \in Owed'
        PROVE  \A u \in W : WalkOK(u)'
    BY <1>1, <1>2, <2>2, <2>3 DEF WalkOK, Before
  <2>4. \A b \in Missing' : WillWalk(w, b) => \E u \in W : WillWalk(u, b)
    BY <1>1, <1>3, <2>2 DEF WillWalk
  <2> HIDE DEF W
  <2> QED BY <1>2, <2>1, <2>3, <2>4, FollowQuiet
<1>8. CASE ReadCursor(w)
  <2> DEFINE from == IF disk > 0 THEN disk + 1 ELSE StartBlock
             v == [w EXCEPT !.phase = "walk", !.next = from]
             W == IF from > w.to THEN {} ELSE {v}
  <2>1. Becomes(w, W) /\ w.phase = "cursor"
    BY <1>8 DEF ReadCursor
  <2>2. w.kind # "gapfill" /\ w.to <= head
    BY <1>1, <2>1 DEF WalkOK
  <2>3. v.kind = w.kind /\ v.next = from /\ v.phase = "walk" /\ v.to = w.to
    BY <1>1 DEF Walk
  <2>4. from \in Nat /\ \A b \in Missing : b < from => b \in Owed
    <3>1. CASE disk > 0
      <4>1. \A b \in Missing : b < cursor + 1 => b \in Owed
        BY DEF Passed, Before
      <4>2. \A b \in Missing : b \in Nat
        BY MissingRange
      <4> QED BY <1>1, <3>1, <4>1, <4>2
    <3>2. CASE ~(disk > 0)
      <4>1. \A b \in Missing : b \in Nat /\ since < b /\ since \in Nat /\ StartHead <= since
        BY MissingRange, IngestAssumption DEF Bounds
      <4>2. from \in Nat /\ from <= StartHead + 1
        BY <3>2, IngestAssumption
      <4> HIDE DEF from
      <4> QED BY <4>1, <4>2, IngestAssumption
    <3> QED BY <3>1, <3>2
  <2> HIDE DEF v, from
  <2>5. ASSUME Missing' \subseteq Missing, \A b \in Missing' : b \in Owed => b \in Owed'
        PROVE  \A u \in W : WalkOK(u)'
    BY <1>1, <1>2, <2>2, <2>3, <2>4, <2>5 DEF WalkOK, Before
  <2> HIDE DEF W
  <2> QED BY <1>2, <1>4, <2>1, <2>2, <2>5, FollowQuiet
<1>9. CASE RequestFails(w) /\ w.kind = "backfill"
  <2> DEFINE v == [Backfill EXCEPT !.phase = "head"]
  <2>1. Becomes(w, {v})
    BY <1>9 DEF RequestFails
  <2>2. v.kind = "backfill" /\ v.next = 0 /\ v.phase = "head"
    BY DEF Backfill
  <2> HIDE DEF v
  <2>3. \A u \in {v} : WalkOK(u)'
    BY <1>1, <1>2, <1>3, <2>2 DEF WalkOK, Before
  <2> QED BY <1>2, <1>4, <1>9, <2>1, <2>3, FollowQuiet
<1>10. CASE RequestFails(w) /\ w.kind = "gapfill"
  <2>1. Becomes(w, {}) /\ given' = given \cup w.next..(IF w.phase = "head" THEN head ELSE w.to)
    BY <1>10 DEF RequestFails
  <2>2. w.phase = "head" \/ w.phase = "walk"
    BY <1>1, <1>10 DEF WalkOK
  <2>3. \A b \in Missing' : WillWalk(w, b) => b \in given'
    BY <1>1, <1>3, <2>1, <2>2 DEF WillWalk
  <2>4. \A v \in {} : WalkOK(v)'
    OBVIOUS
  <2> QED BY <1>2, <2>1, <2>3, <2>4, FollowQuiet
<1> QED BY <1>5, <1>6, <1>7, <1>8, <1>9, <1>10 DEF ReadHead, RequestFails

\* One chunk of a walk: nothing is missing below its first block but what is
\* owed, and its own blocks are processed.
LEMMA FollowBatch ==
  ASSUME FollowInv, CursorInv', NEW w \in walks, WalkBatch(w)
  PROVE  FollowInv'
<1> USE DEF FollowInv
<1> DEFINE end == MinOf(w.next + BatchBlocks - 1, w.to)
           v == [w EXCEPT !.next = end + 1]
           W == IF end = w.to THEN {} ELSE {v}
           S == LogsFrom(w.next, end)
<1>1. /\ w \in Walk /\ w.next \in Nat /\ w.to \in Nat /\ head \in Nat /\ WalkOK(w)
      /\ latest \in Nat /\ cursor \in Nat /\ latest <= head /\ cursor <= head
  BY WalkFields DEF CursorInv, BlocksOK, SavedBehind, WalksOK, Bounds
<1>2. /\ w.phase = "walk" /\ ProcessLogs(S) /\ Checkpoint(end) /\ Becomes(w, W) /\ Settle
      /\ UNCHANGED <<head, link, fresh, live, filling, given>>
  BY DEF WalkBatch, Others, racerVars
<1>3. w.next <= w.to /\ w.to <= head
  BY <1>1, <1>2 DEF WalkOK
<1>4. end \in Nat /\ w.next <= end /\ end <= w.to /\ end <= head
  BY <1>1, <1>3, IngestAssumption DEF MinOf
<1>5. v.kind = w.kind /\ v.phase = "walk" /\ v.to = w.to /\ v.next = end + 1
  BY <1>1, <1>2 DEF Walk
<1> HIDE DEF end, v
<1>6. \A l \in S : l[1] \in Nat /\ l[1] <= end
  <2>1. \A b \in 1..MaxBlock : \A l \in LogsOf(b) : l[1] = b
    BY DEF LogsOf
  <2> QED BY <1>4, <2>1 DEF LogsFrom
<1>7. /\ latest' \in Nat /\ latest' >= latest /\ (latest' = latest \/ latest' <= end)
      /\ seen \subseteq seen' /\ S \subseteq seen'
  BY <1>1, <1>2, <1>6, LatestRaised
<1>8. cursor' = cursor \/ cursor' = end
  BY <1>2 DEF Checkpoint, MaxOf
<1>9. /\ since' = since \/ since' = head
      /\ since' \in StartHead..MaxBlock /\ Following'
  BY <1>1, <1>2, <1>7, SettleKeeps
<1>10. Bounds'
  BY <1>1, <1>2, <1>4, <1>7, <1>8, <1>9 DEF Bounds
<1>11. Missing' \subseteq Missing /\ \A b \in Missing' : b \in 1..MaxBlock /\ b \in Nat
  BY <1>2, <1>7, <1>9, MissingShrinks, MissingRange
<1>12. \A b \in Missing' : b < w.next \/ b > end
  <2> SUFFICES ASSUME NEW b \in Missing', w.next <= b, b <= end PROVE FALSE
    BY <1>1, <1>4, <1>11
  <2>1. LogsOf(b) \subseteq S
    BY <1>11 DEF LogsFrom
  <2>2. LogsOf(b) # {} /\ LogsOf(b) \cap seen' = {}
    BY DEF Missing, Untouched, LogsOf
  <2> QED BY <1>7, <2>1, <2>2
<1> HIDE DEF S
<1>13. \A b \in Missing' : WillWalk(w, b) => \E u \in W : WillWalk(u, b)
  BY <1>1, <1>2, <1>4, <1>5, <1>11, <1>12 DEF WillWalk
<1> HIDE DEF W
<1>14. \A b \in Missing' : b \in Owed => b \in Owed'
  BY <1>2, <1>13, OwedKept
<1>15. \A b \in Missing' : b < end + 1 => b \in Owed'
  <2>1. \A b \in Missing : b < w.next => b \in Owed
    BY <1>1 DEF WalkOK, Before
  <2> QED BY <1>4, <1>11, <1>12, <1>14, <2>1
<1>16. Passed'
  <2>1. \A b \in Missing : (b < latest + 1 => b \in Owed) /\ (b < cursor + 1 => b \in Owed)
    BY DEF Passed, Before
  <2>2. \A b \in Missing' : b < latest' + 1 => b \in Owed'
    BY <1>4, <1>7, <1>11, <1>14, <1>15, <2>1
  <2>3. \A b \in Missing' : b < cursor' + 1 => b \in Owed'
    BY <1>8, <1>11, <1>14, <1>15, <2>1
  <2> QED BY <2>2, <2>3 DEF Passed, Before
<1>17. WalksOK'
  <2>1. \A u \in walks : WalkOK(u)'
    BY <1>2, <1>11, <1>14, WalkKept DEF WalksOK
  <2>2. ASSUME end # w.to PROVE WalkOK(v)'
    <3>1. end + 1 <= w.to /\ w.to <= head
      BY <1>1, <1>3, <1>4, <2>2
    <3>2. w.kind = "gapfill" => w.phase \in {"head", "walk"}
      BY <1>1 DEF WalkOK
    <3> QED BY <1>1, <1>2, <1>4, <1>5, <1>15, <3>1, <3>2 DEF WalkOK, Before
  <2> QED BY <1>2, <2>1, <2>2 DEF Becomes, WalksOK, W
<1>18. Channels'
  BY <1>2, RacerSame DEF Channels
<1>19. Tracked'
  BY <1>2, <1>11, <1>14, ComingSame, TrackedKept
<1> QED BY <1>9, <1>10, <1>16, <1>17, <1>18, <1>19

-----------------------------------------------------------------------------
(* The chain, the writer's flush and the next process *)

\* A block is mined: every racer has it in its channel or will ask for it.
LEMMA FollowMine ==
  ASSUME FollowInv, CursorInv', Mine
  PROVE  FollowInv'
<1> USE DEF FollowInv
<1>1. /\ head' = head + 1 /\ head < MaxBlock
      /\ live' = [q \in Racer |-> IF link[q] = "up" THEN live[q] \o LogList(head + 1) ELSE live[q]]
      /\ UNCHANGED <<link, fresh, filling, walks, latest, cursor, seen, since, given>>
  BY DEF Mine, cursorVars
<1>2. /\ head \in Nat /\ since \in Nat /\ latest \in Nat /\ cursor \in Nat
      /\ latest <= head /\ cursor <= head /\ head \in StartHead..MaxBlock
  BY IngestAssumption DEF CursorInv, BlocksOK, SavedBehind, Bounds
<1>3. Bounds' /\ Following'
  BY <1>1, <1>2, FollowingSame, IngestAssumption DEF Bounds
<1>4. Owed' = Owed
  BY <1>1, OwedSame
<1>5. \A b \in Missing' :
        b \in Nat /\ (b \in Missing \/ (b = head + 1 /\ since < MaxBlock /\ LogsOf(b) # {}))
  <2>1. \A b : Untouched(b)' <=> Untouched(b)
    BY <1>1 DEF Untouched, LogsOf
  <2>2. \A b \in (since' + 1)..head' :
          b \in Nat /\ (b \in (since + 1)..head \/ (b = head + 1 /\ since < MaxBlock))
    BY <1>1, <1>2, IngestAssumption
  <2> QED BY <2>1, <2>2 DEF Missing, Untouched
<1>6. Passed'
  BY <1>1, <1>2, <1>4, <1>5 DEF Passed, Before
<1>7. WalksOK'
  <2>1. \A w \in walks : w.next \in Nat /\ w.to \in Nat /\ WalkOK(w)
    BY WalkFields DEF CursorInv, BlocksOK, WalksOK
  <2>2. \A w \in walks : WalkOK(w)'
    BY <1>1, <1>2, <1>4, <1>5, <2>1 DEF WalkOK, Before
  <2> QED BY <1>1, <2>2 DEF WalksOK
<1>8. ASSUME NEW r \in Racer
      PROVE  RacerOK(r)' /\ \A b \in Missing' : b \in Owed' \/ Coming(r, b)'
  <2>1. /\ live[r] \in Seq(Log) /\ RacerOK(r) /\ Feed(live[r], head)
        /\ link[r] \in {"down", "up", "ended"}
        /\ \A b \in Missing : b \in Owed \/ Coming(r, b)
    BY DEF CursorInv, BlocksOK, Channels, RacerOK, Tracked
  <2>2. CASE link[r] = "up"
    <3> DEFINE a == live[r] \o LogList(head + 1)
    <3>1. live'[r] = a
      BY <1>1, <2>2
    <3>2. /\ Feed(a, head + 1)
          /\ \A i \in 1..Len(live[r]) : i \in 1..Len(a) /\ a[i] = live[r][i]
          /\ LogsOf(head + 1) # {} => \E i \in 1..Len(a) : a[i][1] = head + 1
      BY <1>1, <1>2, <2>1, FeedAppend
    <3> HIDE DEF a
    <3>3. RacerOK(r)'
      BY <1>1, <2>2, <3>1, <3>2 DEF RacerOK
    <3>4. \A b \in Missing' : b \in Missing => b \in Owed' \/ Coming(r, b)'
      <4> SUFFICES ASSUME NEW b \in Missing, Coming(r, b) PROVE Coming(r, b)'
        BY <1>4, <2>1
      <4>1. InChannel(r, b) \/ filling'[r]
        BY <1>1, <2>2 DEF Coming
      <4> QED BY <3>1, <3>2, <4>1 DEF Coming, InChannel
    <3>5. \A b \in Missing' : b \notin Missing => Coming(r, b)'
      BY <1>5, <3>1, <3>2 DEF Coming, InChannel
    <3> QED BY <3>3, <3>4, <3>5
  <2>3. CASE link[r] # "up"
    <3>1. /\ live'[r] = live[r] /\ filling'[r] = filling[r] /\ link'[r] = link[r]
          /\ fresh'[r] = fresh[r]
      BY <1>1, <2>3
    <3>2. \A i \in 1..Len(live[r]) : live[r][i][1] \in 1..head
      BY <2>1 DEF Feed
    <3>3. Feed(live'[r], head')
      BY <1>1, <1>2, <2>1, <3>1, FeedGrows
    <3>4. RacerOK(r)'
      BY <2>1, <3>1, <3>3 DEF RacerOK
    <3>5. \A b \in Missing : b \in Owed' \/ Coming(r, b)'
      BY <1>4, <2>1, <3>1, ComingSame
    <3>6. \A b \in Missing' : b \notin Missing => Coming(r, b)'
      <4> SUFFICES ASSUME NEW b \in Missing', b \notin Missing PROVE Coming(r, b)'
        OBVIOUS
      <4>1. b = head + 1 /\ since < MaxBlock
        BY <1>5
      <4>2. CASE link[r] = "ended"
        <5>1. \A i \in 1..Len(live'[r]) : live'[r][i][1] < b
          BY <1>2, <3>1, <3>2, <4>1
        <5> QED BY <3>1, <4>2, <5>1 DEF Coming
      <4>3. CASE link[r] = "down"
        <5>1. ~fresh[r]
          BY <4>1, <4>3 DEF Following
        <5> QED BY <3>1, <4>3, <5>1 DEF Coming
      <4> QED BY <2>1, <2>3, <4>2, <4>3
    <3> QED BY <3>4, <3>5, <3>6
  <2> QED BY <2>2, <2>3
<1>9. Channels' /\ Tracked'
  BY <1>1, <1>8 DEF Channels, Tracked
<1> QED BY <1>3, <1>6, <1>7, <1>9

LEMMA FollowSystem ==
  ASSUME FollowInv, CursorInv', SaveCursor \/ Reboot
  PROVE  FollowInv'
<1>1. CASE SaveCursor
  <2> USE DEF FollowInv, racerVars, cursorVars
  <2>1. UNCHANGED <<head, link, fresh, live, filling, walks, latest, cursor, seen, since, given>>
    BY <1>1 DEF SaveCursor
  <2>2. Bounds' /\ Following'
    BY <2>1, FollowingSame DEF Bounds
  <2>3. Missing' \subseteq Missing /\ Owed' = Owed
    BY <2>1, MissingShrinks, OwedSame
  <2>4. Passed' /\ WalksOK'
    BY <2>1, <2>3, PassedKept, WalkKept DEF WalksOK
  <2>5. Channels'
    BY <2>1, RacerSame DEF Channels
  <2>6. Tracked'
    BY <2>1, <2>3, ComingSame, TrackedKept
  <2> QED BY <2>2, <2>4, <2>5, <2>6
<1>2. CASE Reboot
  <2>1. disk \in Nat /\ cursor \in Nat /\ head \in Nat /\ disk <= cursor /\ cursor <= head
    BY DEF FollowInv, CursorInv, BlocksOK, SavedBehind, Bounds
  <2>2. Booted'
    BY <1>2, <2>1 DEF Reboot, Booted, FollowInv, Bounds, Backfill
  <2> QED BY <2>2, FollowBoot, PTL
<1> QED BY <1>1, <1>2

LEMMA FollowStep == FollowInv /\ [Next]_vars => FollowInv'
<1> SUFFICES ASSUME FollowInv, [Next]_vars PROVE FollowInv'
  OBVIOUS
<1>1. CursorInv'
  BY CursorStep DEF FollowInv
<1>2. CASE Next
  <2>1. ASSUME NEW r \in Racer, LiveTask(r) \/ SubscribeFails(r) \/ SocketLost(r)
        PROVE  FollowInv'
    BY <1>1, <2>1, FollowSubscribe, FollowSpawn, FollowSocket, FollowLive DEF LiveTask
  <2>2. ASSUME NEW w \in walks, RangeWalk(w) \/ RequestFails(w)
        PROVE  FollowInv'
    BY <1>1, <2>2, FollowRead, FollowBatch DEF RangeWalk
  <2>3. CASE Mine \/ SaveCursor \/ Reboot
    BY <1>1, <2>3, FollowMine, FollowSystem
  <2> QED BY <1>2, <2>1, <2>2, <2>3 DEF Next
<1>3. CASE UNCHANGED vars
  <2> USE DEF FollowInv, vars, racerVars, cursorVars
  <2>1. Bounds' /\ Following'
    BY <1>3, FollowingSame DEF Bounds
  <2>2. Missing' \subseteq Missing /\ Owed' = Owed
    BY <1>3, MissingShrinks, OwedSame
  <2>3. Passed' /\ WalksOK'
    BY <1>3, <2>2, PassedKept, WalkKept DEF WalksOK
  <2>4. Channels'
    BY <1>3, RacerSame DEF Channels
  <2>5. Tracked'
    BY <1>3, <2>2, ComingSame, TrackedKept
  <2> QED BY <1>1, <2>1, <2>3, <2>4, <2>5
<1> QED BY <1>2, <1>3

\* run_live_session's "nothing between last seen and now can slip past", for
\* any number of racers that race each other, the back-fill and gap-fills for
\* latest_block, any number of logs in a block, any sockets lost, requests failed
\* and restarts.
THEOREM NothingSlipsPastHolds == Spec => []NothingSlipsPast
<1>1. FollowInv => NothingSlipsPast
  <2> SUFFICES ASSUME FollowInv, NEW b \in (since + 1)..head, Untouched(b)
               PROVE  \/ \E r \in Racer : InChannel(r, b)
                      \/ \E w \in walks : WillWalk(w, b)
                      \/ WillRefill(b)
                      \/ b \in given
    BY DEF NothingSlipsPast
  <2>1. b \in Missing
    BY DEF Missing
  <2>2. latest \in Nat /\ b \in Nat /\ latest > 0
    BY <2>1, MissingRange, IngestAssumption DEF FollowInv, CursorInv, BlocksOK, Following
  <2>3. CASE b \in Owed
    BY <2>3 DEF Owed
  <2>4. CASE b \notin Owed
    <3>1. PICK r \in Racer : Coming(r, b)
      BY <2>1, <2>4, IngestAssumption DEF FollowInv, Tracked
    <3>2. latest < b
      BY <2>1, <2>2, <2>4 DEF FollowInv, Passed, Before
    <3> QED BY <2>2, <3>1, <3>2 DEF Coming, WillRefill
  <2> QED BY <2>3, <2>4
<1> QED BY <1>1, FollowStart, FollowStep, PTL DEF Spec
=============================================================================
