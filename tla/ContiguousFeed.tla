---------------------------- MODULE ContiguousFeed ----------------------------
(***************************************************************************)
(* What an edge promises its clients: frames are numbered 1, 2, 3, ... and *)
(* a client that joins receives a run of consecutive frames. The run starts*)
(* at a frame the ring could replay or at the next one, no frame in it is  *)
(* skipped, repeated or reordered, and the client may leave at any point.  *)
(***************************************************************************)
EXTENDS Naturals, Sequences

CONSTANT Sub    \* subscriptions

VARIABLES
  head,   \* number of the newest frame
  first,  \* first[i]: number of the first frame i is to receive, 0 before i joins
  log     \* log[i]: the frames i has received

feedVars == <<head, first, log>>

FeedInit ==
  /\ head = 0
  /\ first = [i \in Sub |-> 0]
  /\ log = [i \in Sub |-> <<>>]

Emit == head' = head + 1 /\ UNCHANGED <<first, log>>

Join(i) ==
  /\ first[i] = 0
  /\ \E f \in 1..(head + 1) : first' = [first EXCEPT ![i] = f]
  /\ UNCHANGED <<head, log>>

Receive(i) ==
  /\ first[i] > 0
  /\ first[i] + Len(log[i]) <= head
  /\ log' = [log EXCEPT ![i] = Append(@, first[i] + Len(@))]
  /\ UNCHANGED <<head, first>>

FeedNext == Emit \/ \E i \in Sub : Join(i) \/ Receive(i)
FeedSpec == FeedInit /\ [][FeedNext]_feedVars
=============================================================================
