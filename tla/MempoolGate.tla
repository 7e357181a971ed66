----------------------------- MODULE MempoolGate -----------------------------
(***************************************************************************)
(* mempool-uma: pending oracle calls pushed before they are in a block.    *)
(* decode_input (src/src/mempool/calldata.rs), the gate that decides which *)
(* calls are pushed (src/src/mempool/gate.rs), the pending feed and the    *)
(* feed of confirmed logs that teaches the gate (src/src/mempool/feed.rs), *)
(* and the minute task of src/src/bin/mempool-uma.rs.                      *)
(*                                                                         *)
(* A transaction is a model value; what its calldata holds is a constant.  *)
(* A request is a market and a round (the request's timestamp). The gate   *)
(* is behind one mutex, so a line of the pending feed, a message of the    *)
(* confirm feed and a minute are each one step.                            *)
(***************************************************************************)
EXTENDS Integers, Sequences, FiniteSets, SequencesExt, FiniteSetsExt

CONSTANTS
  Tx,            \* transactions
  Input,         \* Input[t]: [multi, items], the calldata of t
  From, Tip,     \* From[t], Tip[t]: sender and priority fee of t
  Sender, Market, Round, Price,
  Seed,          \* Seed[s]: the prior score file
  MaxCalls,      \* items of a multicall that are read
  MaxPendings,   \* pending prices remembered per request
  TrustMinN, TrustMinRate,      \* rate in thousandths
  TipQuantile, TipMinSamples,   \* quantile in hundredths
  TipWindow, StateTtl,
  MaxNow, MaxLines,             \* bounds: clock, lines read,
  MaxMined, MaxFaults           \* transactions in blocks, faults

ASSUME GateAssumption ==
  /\ TrustMinRate \in 0..1000 /\ TipQuantile \in 0..100
  /\ TrustMinN \in Nat /\ TipMinSamples \in Nat \ {0}
  /\ MaxCalls \in Nat /\ MaxPendings \in Nat
  /\ TipWindow \in Nat /\ StateTtl \in Nat
  /\ MaxNow \in Nat /\ MaxLines \in Nat /\ MaxMined \in Nat /\ MaxFaults \in Nat
  /\ Round \subseteq Nat \ {0}

NoPrice == 0   \* no price; 0 stands for None, so no price is 0

\* What the calldata of a transaction holds, its sender and its fee.
CallItem == [sel : STRING, market : Market, round : Round, price : Price]
ASSUME InputAssumption ==
  /\ NoPrice \notin Price
  /\ \A t \in Tx : /\ Input[t].items \in Seq(CallItem)
                  /\ Input[t].multi \in BOOLEAN /\ (Input[t].multi \/ Input[t].items # <<>>)
                  /\ From[t] \in Sender /\ Tip[t] \in Nat
  /\ Seed \in [Sender -> [agree : Nat, disagree : Nat]]

VARIABLES
  now,       \* the clock
  gate,      \* Gate
  link,      \* run_confirm_feed: "start", "backfill", "off" or "live"
  unread,    \* logs the feed of confirmed logs has still to read
  disk,      \* mempool_senders.json
  mined,     \* chain: the transactions in blocks
  lines,     \* lines of the pending feed read so far
  faults,
  told,      \* history: how often s was seen to offer price p for request k
  landed,    \* history: the proposals that were in a block at some time
  pushes,    \* history: proposals pushed by this process, per request
  forgot,    \* history: how often prune forgot the request
  newest     \* history: the newest round this process has seen, per market

history == <<told, landed, pushes, forgot, newest>>
vars == <<now, gate, link, unread, disk, mined, lines, faults, history>>

Key == [market : Market, round : Round]

-----------------------------------------------------------------------------
(* Calldata *)

\* An item of calldata: its selector and, for the four calls that are known,
\* the arguments. "unknown" is any other call, "torn" one that ends too early,
\* "lost" an item of a multicall whose offset or length cannot be read.
OracleCall(kind, item, price) ==
  [kind |-> kind, market |-> item.market, round |-> item.round, price |-> price]

decode_one(item) ==
  CASE item.sel \in {"proposePrice", "proposePriceFor"} -> <<OracleCall("propose", item, item.price)>>
    [] item.sel \in {"disputePrice", "disputePriceFor"} -> <<OracleCall("dispute", item, NoPrice)>>
    [] OTHER -> <<>>

\* The calls of a transaction: an item that is no call is left out, one that
\* cannot be found ends the list.
decode_input(input) ==
  LET n == Len(input.items)
      stop == {i \in 1..n : input.items[i].sel = "lost"} \cup {n + 1, MaxCalls + 1}
  IN IF input.multi
     THEN FlattenSeq([i \in 1..(Min(stop) - 1) |-> decode_one(input.items[i])])
     ELSE decode_one(input.items[1])

request_key(call) == [market |-> call.market, round |-> call.round]

-----------------------------------------------------------------------------
(* Gate *)

SenderStat(agree, disagree) == [agree |-> agree, disagree |-> disagree]
NoReq == [emitted_price |-> NoPrice, emitted_dispute |-> FALSE, proposed |-> NoPrice,
          disputed |-> FALSE, pendings |-> <<>>, touched |-> 0]

\* Gate::new, then load_senders of the scores. touched and at are 0 where the
\* map has no entry.
NewGate(scores) ==
  [reqs |-> [k \in Key |-> NoReq], latest_round |-> [m \in Market |-> 0],
   senders |-> scores, tips |-> <<>>,
   tx_tip |-> [t \in Tx |-> [at |-> 0, tip |-> 0]]]

\* Mutant: the scores of both files are added.
load_senders_Sum(a, b) ==
  [s \in Sender |-> SenderStat(a[s].agree + b[s].agree, a[s].disagree + b[s].disagree)]

\* The scores of two files.
load_senders(a, b) ==
  [s \in Sender |-> SenderStat(Max({a[s].agree, b[s].agree}), Max({a[s].disagree, b[s].disagree}))]

\* p - 1.645 sqrt(p (1 - p) / (n + 3)) >= rate, for p = (agree + 1) / (n + 2),
\* squared and multiplied out. 2706025 is 1645 squared.
trusted(g, s) ==
  LET a == g.senders[s].agree
      n == a + g.senders[s].disagree
      margin == 1000 * (a + 1) - TrustMinRate * (n + 2)
  IN /\ n >= TrustMinN
     /\ margin >= 0
     /\ margin * margin * (n + 3) >= 2706025 * (a + 1) * (n - a + 1)

NoFloor == -1

\* The tip that the quantile of the samples falls on.
Quantile(seq) ==
  LET rank == (2 * (Len(seq) - 1) * TipQuantile + 100) \div 200
      atMost(x) == Cardinality({i \in DOMAIN seq : seq[i].tip <= x})
  IN Min({x \in {seq[i].tip : i \in DOMAIN seq} : atMost(x) > rank})

\* The samples of the window.
fresh_tips(tips) == LET in(e) == now - e.at <= TipWindow IN SelectSeq(tips, in)

tip_floor(tips) == IF Len(tips) < TipMinSamples THEN NoFloor ELSE Quantile(tips)

\* Mutant: another price is pushed too.
verdict_Conflict(call, st, trust, low) ==
  IF call.kind = "propose"
  THEN IF st.disputed THEN "AlreadyDisputed"
       ELSE IF st.proposed # NoPrice THEN "AlreadyProposed"
       ELSE IF st.emitted_price = call.price THEN "Duplicate"
       ELSE IF ~trust THEN "Untrusted"
       ELSE IF low THEN "LowTip" ELSE "Emit"
  ELSE "Duplicate"

\* What becomes of a call of the newest round.
verdict(call, st, trust, low) ==
  IF call.kind = "propose"
  THEN IF st.disputed THEN "AlreadyDisputed"
       ELSE IF st.proposed # NoPrice THEN "AlreadyProposed"
       ELSE IF st.emitted_price = call.price THEN "Duplicate"
       ELSE IF st.emitted_price # NoPrice THEN "Conflict"
       ELSE IF ~trust THEN "Untrusted"
       ELSE IF low THEN "LowTip" ELSE "Emit"
  ELSE IF st.disputed THEN "AlreadyDisputed"
       ELSE IF st.emitted_dispute THEN "Duplicate"
       ELSE IF low THEN "LowTip" ELSE "Emit"

remember(st, call, s) ==
  IF call.kind = "propose" /\ Len(st.pendings) < MaxPendings
  THEN Append(st.pendings, <<s, call.price>>) ELSE st.pendings

\* Gate::check: the gate after the call, and the verdict.
check(g, call, t) ==
  LET k == request_key(call)
      g1 == [g EXCEPT !.tx_tip[t] = [at |-> now, tip |-> Tip[t]]]
      tips == fresh_tips(g.tips)
      st == [g.reqs[k] EXCEPT !.touched = now, !.pendings = remember(g.reqs[k], call, From[t])]
      v == verdict(call, st, trusted(g, From[t]), Tip[t] < tip_floor(tips))
  IN IF k.round < g.latest_round[k.market] THEN <<g1, "StaleRound">>
     ELSE <<[g1 EXCEPT !.latest_round[k.market] = k.round, !.tips = tips,
               !.reqs[k] = IF v # "Emit" THEN st
                           ELSE IF call.kind = "propose" THEN [st EXCEPT !.emitted_price = call.price]
                           ELSE [st EXCEPT !.emitted_dispute = TRUE]], v>>

Matching(pendings, s, price, same) ==
  Cardinality({i \in DOMAIN pendings : pendings[i][1] = s /\ (pendings[i][2] = price) = same})

\* Mutant: the round of the log read last.
newer_round_Last(old, new) == new

\* The newest round after a log of round new.
newer_round(old, new) == Max({old, new})

\* Gate::on_confirmed. The first proposal scores the prices remembered.
on_confirmed(g, call, t) ==
  LET k == request_key(call)
      st == [g.reqs[k] EXCEPT !.touched = now]
      first == call.kind = "propose" /\ st.proposed = NoPrice
  IN [g EXCEPT !.latest_round[k.market] = newer_round(@, k.round),
       !.tips = IF call.kind = "propose" /\ g.tx_tip[t].at > 0
                THEN Append(@, [at |-> now, tip |-> g.tx_tip[t].tip]) ELSE @,
       !.reqs[k] = IF first THEN [st EXCEPT !.proposed = call.price, !.pendings = <<>>]
                   ELSE IF call.kind = "propose" THEN st
                   ELSE [st EXCEPT !.disputed = TRUE],
       !.senders = IF ~first THEN @
                   ELSE [s \in Sender |->
                     SenderStat(@[s].agree + Matching(st.pendings, s, call.price, TRUE),
                                @[s].disagree + Matching(st.pendings, s, call.price, FALSE))]]

\* Gate::prune. The rounds stay.
prune(g) ==
  [g EXCEPT
    !.reqs = [k \in Key |-> IF now - g.reqs[k].touched < StateTtl THEN g.reqs[k] ELSE NoReq],
    !.tx_tip = [t \in Tx |-> IF now - @[t].at < TipWindow THEN @[t] ELSE [at |-> 0, tip |-> 0]]]

-----------------------------------------------------------------------------
Calls(t) == decode_input(Input[t])

Init ==
  /\ now = 1 /\ lines = 0 /\ faults = 0
  /\ disk = [s \in Sender |-> SenderStat(0, 0)]
  /\ gate = NewGate(Seed)
  /\ link = "start" /\ unread = {} /\ mined = <<>>
  /\ told = [s \in Sender |-> [kp \in Key \X Price |-> 0]]
  /\ landed = {}
  /\ pushes = [k \in Key |-> 0] /\ forgot = [k \in Key |-> 0]
  /\ newest = [m \in Market |-> 0]

\* One call of t passes the gate.
Pass(acc, call, t) ==
  LET r == check(acc.gate, call, t)
      k == request_key(call)
      propose == call.kind = "propose"
  IN [gate |-> r[1],
      told |-> IF ~propose THEN acc.told
               ELSE [acc.told EXCEPT ![From[t]][<<k, call.price>>] = @ + 1],
      pushes |-> IF propose /\ r[2] = "Emit" THEN [acc.pushes EXCEPT ![k] = @ + 1]
                 ELSE acc.pushes,
      newest |-> [acc.newest EXCEPT ![k.market] = Max({@, k.round})]]

\* The calls of t, one after the other.
Passed(t) ==
  LET f[n \in 0..Len(Calls(t))] ==
        IF n = 0 THEN [gate |-> gate, told |-> told, pushes |-> pushes, newest |-> newest]
        ELSE Pass(f[n - 1], Calls(t)[n], t)
  IN f[Len(Calls(t))]

\* A line of the pending feed.
Pending(t) ==
  LET end == Passed(t) IN
  /\ lines < MaxLines /\ lines' = lines + 1
  /\ Calls(t) # <<>>
  /\ gate' = end.gate /\ told' = end.told /\ pushes' = end.pushes
  /\ newest' = end.newest
  /\ UNCHANGED <<now, link, unread, disk, mined, faults, landed, forgot>>

-----------------------------------------------------------------------------
(* The chain: a proposal needs a request without one, a dispute a proposal *)

OnChain(kind, k) ==
  \E i \in DOMAIN mined : \E j \in DOMAIN Calls(mined[i]) :
    Calls(mined[i])[j].kind = kind /\ request_key(Calls(mined[i])[j]) = k

Mine(t) ==
  LET calls == Calls(t)
      fits(c) == IF c.kind = "propose" THEN ~OnChain("propose", request_key(c))
                 ELSE OnChain("propose", request_key(c)) /\ ~OnChain("dispute", request_key(c))
  IN
  /\ t \notin ToSet(mined) /\ Len(mined) < MaxMined
  /\ calls # <<>> /\ \A i \in DOMAIN calls : fits(calls[i])
  /\ \A i, j \in DOMAIN calls : i # j => request_key(calls[i]) # request_key(calls[j])
  /\ mined' = Append(mined, t)
  /\ landed' = landed \cup {<<request_key(c), c.price>> : c \in {calls[i] : i \in
                  {j \in DOMAIN calls : calls[j].kind = "propose"}}}
  /\ unread' = IF link = "live" THEN unread \cup {<<t, i>> : i \in DOMAIN calls} ELSE unread
  /\ UNCHANGED <<now, gate, link, disk, lines, faults, told, pushes, forgot, newest>>

\* The last block is orphaned. Its logs come again with "removed" set, which
\* apply leaves out.
Reorg ==
  /\ mined # <<>> /\ faults < MaxFaults /\ faults' = faults + 1
  /\ mined' = Front(mined)
  /\ UNCHANGED <<now, gate, link, unread, disk, lines, history>>

-----------------------------------------------------------------------------
(* run_confirm_feed *)

\* eth_blockNumber, which may fail: then nothing is read back.
ReadHead ==
  /\ link = "start"
  /\ \/ link' = "backfill" /\ UNCHANGED faults
        /\ unread' = UNION {{<<mined[i], j>> : j \in DOMAIN Calls(mined[i])} : i \in DOMAIN mined}
     \/ link' = "off" /\ UNCHANGED unread /\ faults < MaxFaults /\ faults' = faults + 1
  /\ UNCHANGED <<now, gate, disk, mined, lines, history>>

\* apply: a log of a chunk read back, or of the subscription.
Confirm(t, i) ==
  LET call == Calls(t)[i]
      g == on_confirmed(gate, call, t)
  IN
  /\ <<t, i>> \in unread /\ unread' = unread \ {<<t, i>>}
  /\ gate' = g
  /\ newest' = [newest EXCEPT ![call.market] = Max({@, call.round})]
  /\ UNCHANGED <<now, link, disk, mined, lines, faults, told, landed, pushes, forgot>>

\* A chunk that fails is left out.
ChunkFails(t, i) ==
  /\ link = "backfill" /\ faults < MaxFaults /\ faults' = faults + 1
  /\ <<t, i>> \in unread /\ unread' = unread \ {<<t, i>>}
  /\ UNCHANGED <<now, gate, link, disk, mined, lines, history>>

\* eth_subscribe. What was mined since the last chunk, or while the stream was
\* closed, is not read.
Subscribe ==
  /\ link = "off" \/ (link = "backfill" /\ unread = {})
  /\ link' = "live"
  /\ UNCHANGED <<now, gate, unread, disk, mined, lines, faults, history>>

Disconnect ==
  /\ link = "live" /\ faults < MaxFaults /\ faults' = faults + 1
  /\ link' = "off" /\ unread' = {}
  /\ UNCHANGED <<now, gate, disk, mined, lines, history>>

-----------------------------------------------------------------------------
(* The process *)

\* The minute task: prune, save_senders, whose failure is left alone, and
\* tip_floor for the log line.
Minute ==
  LET g == prune(gate)
      gone == {k \in Key : gate.reqs[k].touched > 0 /\ g.reqs[k].touched = 0} IN
  /\ gate' = [g EXCEPT !.tips = fresh_tips(g.tips)]
  /\ gate' # gate \/ disk # gate.senders
  /\ disk' \in {disk, gate.senders}
  /\ forgot' = [k \in Key |-> IF k \in gone THEN forgot[k] + 1 ELSE forgot[k]]
  /\ UNCHANGED <<now, link, unread, mined, lines, faults, told, landed, pushes, newest>>

Tick ==
  /\ now < MaxNow /\ now' = now + 1
  /\ UNCHANGED <<gate, link, unread, disk, mined, lines, faults, history>>

\* The process ends and starts again: only the scores are read back.
Restart ==
  /\ faults < MaxFaults /\ faults' = faults + 1
  /\ gate' = NewGate(load_senders(disk, Seed))
  /\ link' = "start" /\ unread' = {}
  /\ pushes' = [k \in Key |-> 0] /\ forgot' = [k \in Key |-> 0]
  /\ newest' = [m \in Market |-> 0]
  /\ UNCHANGED <<now, disk, mined, lines, told, landed>>

Next ==
  \/ \E t \in Tx : Pending(t) \/ Mine(t)
  \/ \E t \in Tx : \E i \in DOMAIN Calls(t) : Confirm(t, i) \/ ChunkFails(t, i)
  \/ Reorg \/ ReadHead \/ Subscribe \/ Disconnect
  \/ Minute \/ Tick \/ Restart

Spec == Init /\ [][Next]_vars

-----------------------------------------------------------------------------
(* Properties *)

\* A process pushes one proposal per request, whatever the order in which
\* pendings and confirmations come and however often, unless prune forgot the
\* request since (check, on_confirmed, prune).
PushedOnce == \A k \in Key : pushes[k] <= 1 + forgot[k]

\* Nothing of a round older than the newest round of its market that this
\* process had seen is pushed, also after prune forgot both (latest_round).
RoundsForward ==
  [][\A k \in Key : pushes'[k] > pushes[k] => k.round >= newest[k.market]]_vars

\* A score is never more than was earned: each agreement counts one time the
\* sender offered a price that was in a block, however often logs are read
\* again and the process restarts (on_confirmed, load_senders).
AgreeEarned ==
  \A s \in Sender :
    gate.senders[s].agree <= Seed[s].agree + SumFunctionOnSet(told[s], landed)

=============================================================================
