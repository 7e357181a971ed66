---------------------------- MODULE MCMempoolGate ----------------------------
(* Instances of MempoolGate for TLC: one market, two rounds, two senders. *)
EXTENDS MempoolGate

Item(sel, round, price) == [sel |-> sel, market |-> "m", round |-> round, price |-> price]
One(item) == [multi |-> FALSE, items |-> <<item>>]
MCTx == 1..4
MCInput ==
  <<[multi |-> TRUE, items |-> <<Item("proposePrice", 1, 1), Item("proposePrice", 1, 1)>>],
    One(Item("proposePriceFor", 1, 2)),
    [multi |-> TRUE, items |-> <<Item("unknown", 1, 1), Item("proposePrice", 2, 1),
                                 Item("lost", 1, 1), Item("proposePrice", 1, 1)>>],
    One(Item("disputePrice", 1, 1))>>
MCFrom == <<"a", "b", "a", "b">>
MCTip == <<2, 2, 1, 1>>
MCSeed == [s \in {"a", "b"} |-> [agree |-> 1, disagree |-> 0]]
=============================================================================
