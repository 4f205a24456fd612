------------------------------ MODULE LeafSets ------------------------------
(***************************************************************************)
(* What one side of the book promises its users: two sets of orders, the   *)
(* fixed-price and the oracle-pegged ones, that share one capacity.        *)
(***************************************************************************)
EXTENDS Integers, FiniteSets, FiniteSetsExt

CONSTANTS Trees,       \* the two order trees of a side
          Capacity,    \* orders the side keeps before it drops the worst one
          MaxTs        \* bound: the last time

VARIABLES leaves,           \* the orders of each tree, with key and expiry
          order_tree_type,  \* Bids or Asks
          now_ts

vars == <<leaves, order_tree_type, now_ts>>

Better(k, l) == IF order_tree_type = "Bids" THEN k > l ELSE k < l

Keys(S) == {l.key : l \in S}

Earliest(S) == {l \in S : /\ l.expiry < now_ts
                          /\ \A m \in S : l.expiry <= m.expiry}

Worst(S) == {l \in S : \A m \in S \ {l} : Better(m.key, l.key)}

Without(orders, tree, S) ==
    [t \in Trees |-> IF t = tree THEN orders[t] \ S ELSE orders[t]]

With(orders, tree, leaf) ==
    [t \in Trees |-> IF t = tree THEN orders[t] \cup {leaf} ELSE orders[t]]

Count(orders) == MapThenSumSet(LAMBDA t : Cardinality(orders[t]), Trees)

Init == /\ leaves = [t \in Trees |-> {}]
        /\ order_tree_type \in {"Bids", "Asks"}
        /\ now_ts = 0

\* What is left after at most one expired order is dropped, from the tree
\* posted to if it has one.
Unexpired(tree) ==
    LET own == Earliest(leaves[tree])
        other == CHOOSE t \in Trees : t # tree
    IN  IF own # {} THEN {Without(leaves, tree, {l}) : l \in own}
        ELSE IF Earliest(leaves[other]) # {}
        THEN {Without(leaves, other, {l}) : l \in Earliest(leaves[other])}
        ELSE {leaves}

\* What is left after the worst order of one tree is dropped for a new one.
Booted(orders, tree, leaf) ==
    UNION {{Without(orders, t, {l}) : l \in
               {l \in Worst(orders[t]) : t = tree => Better(leaf.key, l.key)}} : t \in Trees}

\* The worst order makes room for a new one only on a side that holds at least
\* Capacity orders, and always does on one that holds more.
Post(tree, leaf) ==
    /\ leaf.key \notin Keys(leaves[tree]) /\ leaf.expiry > now_ts
    /\ \E kept \in Unexpired(tree) :
         \/ /\ Count(kept) <= Capacity
            /\ leaves' = With(kept, tree, leaf)
         \/ /\ Count(kept) >= Capacity
            /\ \E left \in Booted(kept, tree, leaf) : leaves' = With(left, tree, leaf)
    /\ UNCHANGED <<order_tree_type, now_ts>>

Remove(tree, leaf) ==
    /\ leaves' = Without(leaves, tree, {leaf})
    /\ UNCHANGED <<order_tree_type, now_ts>>

Tick == /\ now_ts < MaxTs
        /\ now_ts' = now_ts + 1
        /\ UNCHANGED <<leaves, order_tree_type>>

Next == \/ \E tree \in Trees : \/ \E leaf \in leaves'[tree] : Post(tree, leaf)
                               \/ \E leaf \in leaves[tree] : Remove(tree, leaf)
        \/ Tick

Spec == Init /\ [][Next]_vars
=============================================================================
