------------------------------- MODULE Alerts -------------------------------
(***************************************************************************)
(* The console's alerts (src/src/console/alerts.rs): the rules on what     *)
(* tinyuma and the edges report, the windows over their counters, the      *)
(* conditions that must hold before they fire and be gone before they are  *)
(* resolved, and the messages to the chat, which may fail.                 *)
(*                                                                         *)
(* Time is counted in rounds of run_alerts. Where the code keeps the time  *)
(* of something the module keeps its age, capped where no rule can tell    *)
(* the difference, so that rounds need no bound. A key is a rule and its   *)
(* subject, "" for rules about the whole system.                           *)
(***************************************************************************)
EXTENDS Integers, Sequences, FiniteSets, SequencesExt, FiniteSetsExt

CONSTANTS
  Node,          \* edge nodes
  Inputs,        \* what a round may find: snapshot, node list, feed state
  Hold,          \* AlertRules: rounds a rule must hold before it fires
  Window, Limit, \* AlertRules: window and threshold of a rule
  ResolveAfter, RepeatAfter, RetryAfter, Keep,
  MaxResolved,   \* MAX_PENDING_RESOLVED
  Watched,       \* the rules this instance follows
  Growing,       \* counters that change in this instance
  MaxCount, MaxFaults   \* bounds: growth of the counters, faults

Missing == -1      \* a field the report does not have

UpCounter == {"rpc_reconnects", "enrichment_misses", "decode_errors",
              "slow_clients", "cursor_rejected", "storage_dropped"}
UpRule == UpCounter \cup {"rpc_disconnected", "rpc_sources_degraded", "upstream_silent",
                          "enrichment_recent_low", "catalog_small"}
EdgeCounter == {"edge_churn", "edge_slow_clients", "edge_bad_frames"}
EdgeRule == EdgeCounter \cup {"edge_stale", "edge_upstream_down", "edge_sequence_lag",
                              "edge_link_lag", "edge_near_full"}
OwnRule == {"tinyuma_unreachable", "cluster_serving_low", "panel_feed_down"}
Key == {k \in ((UpRule \cup OwnRule) \X {""}) \cup (EdgeRule \X Node) : k[1] \in Watched}
\* A counter that never changes needs no samples.
CounterKey == Growing

ASSUME AlertsAssumption ==
  /\ ResolveAfter \in Nat /\ RepeatAfter \in Nat \ {0} /\ RetryAfter \in Nat
  /\ Keep \in Nat /\ MaxResolved \in Nat
  /\ MaxCount \in Nat /\ MaxFaults \in Nat
  /\ IsFiniteSet(Node) /\ Window \in [UpCounter \cup EdgeCounter -> Nat]
  /\ Growing \subseteq {k \in Key : k[1] \in UpCounter \cup EdgeCounter}

VARIABLES
  input,       \* what the last round saw
  found,       \* its findings
  series,      \* series[k]: samples of a counter, [age, value], oldest first
  conditions,  \* conditions[k], for the keys that have one
  resolved,    \* recoveries not told yet
  lastError,   \* Delivery: rounds since a push failed, Never if one succeeded since
  message,     \* the push under way: {} or {[keys, resolved]}
  count,       \* the counters, as their owners report them
  real,        \* history: how much each counter has really grown
  chat,        \* history: what this process told the chat and not yet that it is over
  doubt,       \* history: keys of a message that was shown but reported failed
  dropped,     \* history: recoveries dropped at the limit
  orphan,      \* history: the chat was told the recovery of something unknown
  faults

engine == <<series, conditions, resolved>>
delivery == <<lastError, message>>
history == <<real, chat, doubt, dropped, orphan>>
vars == <<input, found, engine, delivery, count, history, faults>>

Never == -1
Older(age, cap) == IF age = Never \/ age = cap THEN age ELSE age + 1

NoCondition == [pending |-> Never, firing |-> FALSE, notified |-> Never, absent |-> Never]

NoSeries == [k \in CounterKey |-> <<>>]
NoConditions == [k \in {} |-> NoCondition]
Condition(k) == IF k \in DOMAIN conditions THEN conditions[k] ELSE NoCondition

Init ==
  /\ series = NoSeries /\ conditions = NoConditions /\ resolved = <<>>
  /\ lastError = Never /\ message = {}
  /\ input \in Inputs /\ found = {}
  /\ count = [k \in CounterKey |-> 0] /\ real = [k \in CounterKey |-> 0]
  /\ chat = {} /\ doubt = {} /\ dropped = {} /\ orphan = FALSE
  /\ faults = 0

-----------------------------------------------------------------------------
(* Series *)

\* Mutant: the first sample counts from nothing.
increase_FromZero(s, window) ==
  LET total[i \in 0..Len(s)] ==
        IF i = 0 THEN 0
        ELSE total[i - 1] + (IF s[i].age > window THEN 0
                             ELSE IF i = 1 \/ s[i].value < s[i - 1].value THEN s[i].value
                             ELSE s[i].value - s[i - 1].value)
  IN total[Len(s)]

\* Series::increase: what the samples of the window added to the one before. A
\* smaller value is a counter that started again.
increase(s, window) ==
  LET total[i \in 0..Len(s)] ==
        IF i < 2 THEN 0
        ELSE total[i - 1] + (IF s[i].age > window THEN 0
                             ELSE IF s[i].value < s[i - 1].value THEN s[i].value
                             ELSE s[i].value - s[i - 1].value)
  IN total[Len(s)]

\* Series::push, which drops old samples from the front, and the retain at the
\* end of observe for those not pushed to.
push(s, fresh, k) ==
  LET aged == [i \in DOMAIN s |-> [s[i] EXCEPT !.age = Older(@, Keep + 1)]]
      all == Append(aged, [age |-> 0, value |-> count[k], real |-> real[k]])
      old == {n \in 0..Len(s) : \A i \in 1..n : aged[i].age > Keep}
  IN IF fresh THEN SubSeq(all, Max(old) + 1, Len(all))
     ELSE IF aged # <<>> /\ Last(aged).age > Keep THEN <<>> ELSE aged

-----------------------------------------------------------------------------
(* evaluate *)

Exceeds(s, k) == k \in CounterKey /\ increase(s[k], Window[k[1]]) >= Limit[k[1]]

\* A rule about tinyuma, on the data d of its last report.
UpHolds(r, d, s) ==
  \/ r = "rpc_disconnected" /\ ~d.rpc_connected
  \/ r = "rpc_sources_degraded" /\ d.connected # Missing /\ 0 < d.connected /\ d.connected < d.configured
  \/ r = "upstream_silent" /\ d.idle # Missing /\ d.idle >= Limit[r]
  \/ r = "enrichment_recent_low" /\ d.recent # Missing /\ d.recent < Limit[r]
  \/ r = "catalog_small" /\ d.markets # Missing /\ d.markets < Limit[r]
  \/ d.counts /\ Exceeds(s, <<r, "">>)

\* A rule about an edge. A disabled node is left out; of a stale one only the
\* silence is reported.
EdgeHolds(r, i, n, s) ==
  LET v == i.nodes[n] IN
  \/ r = "edge_stale" /\ v.status = "Stale"
  \/ /\ v.status \notin {"Disabled", "Stale"}
     /\ \/ r = "edge_upstream_down" /\ ~v.connected
        \/ /\ r = "edge_sequence_lag"
           /\ i.fresh /\ i.latest > 0 /\ v.seq > 0
           /\ i.latest - v.seq >= Limit[r]
        \/ r = "edge_link_lag" /\ v.lag >= Limit[r] /\ v.recent
        \/ r = "edge_near_full" /\ v.max > 0 /\ v.clients * 100 >= v.max * Limit[r]
        \/ Exceeds(s, <<r, n>>)

OwnHolds(r, i) ==
  \/ r = "tinyuma_unreachable" /\ ~i.fresh
  \/ r = "cluster_serving_low" /\ Cardinality({n \in Node : i.nodes[n].status = "Serving"}) < Limit[r]
  \/ r = "panel_feed_down" /\ ~i.feed

\* The findings of a round.
Findings(i, s) ==
  {k \in Key : \/ k[1] \in UpRule /\ i.fresh /\ UpHolds(k[1], i.data, s)
               \/ k[1] \in EdgeRule /\ EdgeHolds(k[1], i, k[2], s)
               \/ k[1] \in OwnRule /\ OwnHolds(k[1], i)}

\* Mutant: a round without data counts as a round without findings.
evaluated_All(i) == UpRule \cup EdgeRule \cup OwnRule

\* The rules that a round has looked at.
evaluated(i) == EdgeRule \cup OwnRule \cup (IF i.fresh THEN UpRule ELSE {})

\* The counters that a round samples.
Sampled(i) ==
  {k \in CounterKey : IF k[1] \in UpCounter THEN i.fresh /\ i.data.counts
                      ELSE i.nodes[k[2]].status \notin {"Disabled", "Stale"}}

-----------------------------------------------------------------------------
(* observe *)

\* Mutant: a condition that was gone and comes back starts anew.
observed_Anew(c, r, present, looked) ==
  LET old == IF c.absent = Never THEN c ELSE NoCondition
      held == IF old.pending = Never THEN 0 ELSE old.pending IN
  IF present
  THEN [old EXCEPT !.pending = held, !.firing = @ \/ held >= Hold[r]]
  ELSE IF ~looked THEN c
  ELSE IF ~c.firing \/ (IF c.absent = Never THEN 0 ELSE c.absent) >= ResolveAfter THEN NoCondition
  ELSE [c EXCEPT !.absent = IF @ = Never THEN 0 ELSE @]

\* A condition, its ages brought up to date, after the round looked at it.
observed(c, r, present, looked) ==
  LET held == IF c.pending = Never THEN 0 ELSE c.pending IN
  IF present
  THEN [c EXCEPT !.pending = held, !.absent = Never, !.firing = @ \/ held >= Hold[r]]
  ELSE IF ~looked THEN c
  ELSE IF ~c.firing \/ (IF c.absent = Never THEN 0 ELSE c.absent) >= ResolveAfter THEN NoCondition
  ELSE [c EXCEPT !.absent = IF @ = Never THEN 0 ELSE @]

Aged(c, r) == [c EXCEPT !.pending = IF c.firing THEN @ ELSE Older(@, Hold[r]),
                        !.absent = Older(@, ResolveAfter),
                        !.notified = Older(@, RepeatAfter)]

\* Mutant: every condition that ends is told.
told_All(c) == c.firing

\* A recovery is told when the alert was.
told(c) == c.firing /\ c.notified # Never

\* The queue of recoveries, with those of a round behind it.
Queued(queue, keys) == FoldSet(LAMBDA k, q : Append(q, k), queue, keys)

\* observe, after evaluate.
observe(i) ==
  LET seen(k) == observed(Aged(Condition(k), k[1]), k[1], k \in found', k[1] \in evaluated(i))
      live == {k \in DOMAIN conditions \cup found' : seen(k) # NoCondition}
      gone == {k \in DOMAIN conditions \ live : told(conditions[k])}
      all == Queued(resolved, gone)
      excess == Max({0, Len(all) - MaxResolved})
  IN
  /\ conditions' = [k \in live |-> seen(k)]
  /\ resolved' = SubSeq(all, excess + 1, Len(all))
  /\ dropped' = (dropped \cup {all[j] : j \in 1..excess}) \ ToSet(resolved')

-----------------------------------------------------------------------------
(* run_alerts *)

\* pending_message: what is new, what is due again, what is over.
Due(conds) == {k \in DOMAIN conds : conds[k].firing /\ conds[k].notified \in {Never, RepeatAfter}}

\* Mutant: a failed push is not forgotten before the next that succeeds.
retry_blocked_Always(error) == error # Never

\* No push for a while after one that failed.
retry_blocked(error) == error # Never /\ error < RetryAfter

\* A round: observe, and a message if there is something to tell.
Round(i) ==
  /\ message = {}
  /\ input' = i
  /\ series' = [k \in CounterKey |-> push(series[k], k \in Sampled(i), k)]
  /\ found' = Findings(i, series')
  /\ observe(i)
  /\ lastError' = Older(lastError, RetryAfter)
  /\ message' = IF retry_blocked(lastError') \/ (Due(conditions') = {} /\ resolved' = <<>>) THEN {}
                ELSE {[keys |-> Due(conditions'), resolved |-> resolved']}
  /\ UNCHANGED <<count, real, chat, doubt, orphan, faults>>

\* The chat shows the message.
Shown(m) ==
  /\ chat' = (chat \ ToSet(m.resolved)) \cup m.keys
  /\ orphan' = (orphan \/ ~(ToSet(m.resolved) \subseteq chat \cup doubt))

mark_sent(m) ==
  /\ conditions' = [k \in DOMAIN conditions |->
                      IF k \in m.keys THEN [conditions[k] EXCEPT !.notified = 0] ELSE conditions[k]]
  /\ resolved' = SubSeq(resolved, Len(m.resolved) + 1, Len(resolved))

\* send_feishu succeeds.
Sent(m) ==
  /\ m \in message /\ message' = {}
  /\ Shown(m) /\ doubt' = doubt \ (m.keys \cup ToSet(m.resolved))
  /\ mark_sent(m)
  /\ lastError' = Never
  /\ UNCHANGED <<input, found, series, count, real, dropped, faults>>

\* It fails: the chat has not got the message, or only the answer is lost.
SendFails(m) ==
  /\ m \in message /\ message' = {} /\ faults < MaxFaults /\ faults' = faults + 1
  /\ \/ UNCHANGED <<chat, orphan, doubt>>
     \/ Shown(m) /\ doubt' = doubt \cup m.keys \cup ToSet(m.resolved)
  /\ lastError' = 0
  /\ UNCHANGED <<input, found, engine, count, real, dropped>>

-----------------------------------------------------------------------------
(* What is watched *)

Grow(k) ==
  /\ k \in Growing /\ real[k] < MaxCount
  /\ count' = [count EXCEPT ![k] = @ + 1]
  /\ real' = [real EXCEPT ![k] = @ + 1]
  /\ UNCHANGED <<input, found, engine, delivery, chat, doubt, dropped, orphan, faults>>

\* The owner of a counter restarts.
PeerRestart(k) ==
  /\ k \in Growing /\ count[k] > 0 /\ faults < MaxFaults /\ faults' = faults + 1
  /\ count' = [count EXCEPT ![k] = 0]
  /\ UNCHANGED <<input, found, engine, delivery, history>>

\* The console restarts and forgets all alerts.
ConsoleRestart ==
  /\ faults < MaxFaults /\ faults' = faults + 1
  /\ series' = NoSeries /\ conditions' = NoConditions /\ resolved' = <<>>
  /\ lastError' = Never /\ message' = {}
  /\ chat' = {} /\ doubt' = {} /\ dropped' = {}
  /\ UNCHANGED <<input, found, count, real, orphan>>

Push == \E m \in message : Sent(m) \/ SendFails(m)

Next ==
  \/ \E i \in Inputs : Round(i)
  \/ Push
  \/ \E k \in Growing : Grow(k) \/ PeerRestart(k)
  \/ ConsoleRestart

\* The interval of run_alerts ticks, whatever the situation, and a push ends
\* within its timeout.
Fairness == (\A i \in Inputs : WF_vars(input = i /\ Round(i))) /\ WF_vars(Push)

Spec == Init /\ [][Next]_vars
FairSpec == Spec /\ Fairness

-----------------------------------------------------------------------------
(* Properties *)

\* The chat is never told that something is over which does not stand in it as
\* fired, but for the repetition of a message whose answer was lost (observe:
\* "no recovery out of nothing").
NoOrphanRecovery == ~orphan

\* Engine and chat agree. What counts as told was told: a failed push is tried
\* again. And what the chat was told is still held: the condition fires and
\* counts as told, or its recovery is queued, or was dropped at the limit; only
\* a message whose answer was lost is not accounted for (observe, mark_sent,
\* run_alerts).
ToldIsTracked ==
  /\ \A k \in DOMAIN conditions : conditions[k].notified # Never => k \in chat
  /\ \A k \in chat \ doubt :
       \/ Condition(k).firing /\ Condition(k).notified # Never
       \/ k \in ToSet(resolved)
       \/ k \in dropped

\* A counter alert has a reason: the counter really grew by what increase says,
\* since the last sample before the window, whoever restarted (Series).
GrowthIsReal ==
  \A k \in CounterKey :
    LET s == series[k]
        before == {i \in DOMAIN s : s[i].age > Window[k[1]]}
        base == IF before = {} THEN 1 ELSE Max(before)
    IN s # <<>> => increase(s, Window[k[1]]) <= Last(s).real - s[base].real

\* A tinyuma alert that fires does not end in a round that has no data on
\* tinyuma, short of a restart (observe: "no data is not a recovery").
NoDataNoRecovery ==
  [][\A k \in DOMAIN conditions :
       k[1] \in UpRule /\ conditions[k].firing /\ k \notin DOMAIN conditions'
       => input'.fresh \/ faults' # faults]_vars

\* While a situation lasts, the chat comes to show it and keeps to it: all that
\* is found was told, and what was told and is not found is over, but for
\* recoveries dropped at the limit, messages whose answer was lost, and rules
\* that the situation gives no data for.
ChatShows(i) ==
  /\ found \subseteq chat
  /\ \A k \in chat \ found : k \in dropped \cup doubt \/ k[1] \notin evaluated(i)
ChatSettles == \A i \in Inputs : <>[](input = i) => <>[]ChatShows(i)
=============================================================================
