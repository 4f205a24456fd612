----------------------------- MODULE OrderTree ------------------------------
(***************************************************************************)
(* One side of the order book as it is stored (state/orderbook): two crit- *)
(* bit trees, for fixed-price and for oracle-pegged orders, whose nodes    *)
(* come from one array with a free list.  PerpMarket treats a side as a    *)
(* set of orders; this module shows that the trees keep that promise.      *)
(***************************************************************************)
EXTENDS Integers, Sequences, FiniteSets, SequencesExt

CONSTANTS KeyBits,     \* width of a key; 128 in the code
          MaxNodes,    \* MAX_ORDERTREE_NODES
          OrderInputs, \* the orders users post; time_in_force 0 is no expiry
          Removals,    \* bound: those of them that are filled or cancelled
          MaxTs        \* bound: the last time

ASSUME SizeAssumption == /\ KeyBits \in Nat \ {0} /\ MaxTs \in Nat
                         /\ MaxNodes \in Nat \ {0} /\ MaxNodes % 2 = 0

VARIABLES pool,             \* OrderTreeNodes: nodes and free list
          roots,            \* an OrderTreeRoot for each tree
          order_tree_type,  \* Bids or Asks
          used,             \* the keys given to orders so far
          now_ts

vars == <<pool, roots, order_tree_type, used, now_ts>>

Trees == {"Fixed", "OraclePegged"}
KeySet == 0 .. 2^KeyBits - 1
Handles == 0 .. MaxNodes - 1

ASSUME OrderInputsAssumption ==
    /\ OrderInputs \subseteq [tree : Trees, key : KeySet, time_in_force : Nat]
    /\ Removals \subseteq OrderInputs

-----------------------------------------------------------------------------
(* Nodes (nodes.rs)                                                        *)

\* u64::MAX: later than every expiry.
NoExpiry == 1000

Expiry(time_in_force) == IF time_in_force = 0 THEN NoExpiry ELSE now_ts + time_in_force

LeafNode(key, expiry) == [tag |-> "LeafNode", key |-> key, expiry |-> expiry]

Bit(key, i) == (key \div 2^(KeyBits - 1 - i)) % 2

\* leading_zeros of the xor
SharedPrefixLen(k, l) ==
    Cardinality({i \in 0 .. KeyBits - 1 : \A j \in 0 .. i : Bit(k, j) = Bit(l, j)})

IsInner(node) == node.tag = "InnerNode"

EarliestExpiry(node) ==
    IF IsInner(node)
    THEN LET e == node.child_earliest_expiry IN IF e[0] <= e[1] THEN e[0] ELSE e[1]
    ELSE node.expiry

-----------------------------------------------------------------------------
(* The node array (ordertree.rs: insert, remove, is_full)                  *)

EmptyPool == [nodes |-> [h \in Handles |-> [tag |-> "Uninitialized"]],
              bump_index |-> 0, free_list_len |-> 0, free_list_head |-> 0]

Room(p) == p.free_list_len > 0 \/ p.bump_index < MaxNodes

Handle(p) == IF p.free_list_len = 0 THEN p.bump_index ELSE p.free_list_head

InsertNode(p, node) ==
    IF p.free_list_len = 0
    THEN [p EXCEPT !.nodes[p.bump_index] = node, !.bump_index = @ + 1]
    ELSE [p EXCEPT !.nodes[p.free_list_head] = node,
                   !.free_list_head = p.nodes[p.free_list_head].next,
                   !.free_list_len = @ - 1]

RemoveNode(p, h) ==
    [p EXCEPT !.nodes[h] = [tag |-> IF p.free_list_len = 0 THEN "LastFreeNode" ELSE "FreeNode",
                            next |-> p.free_list_head],
              !.free_list_len = @ + 1,
              !.free_list_head = h]

IsFull(p) == p.free_list_len <= 1 /\ p.bump_index >= MaxNodes - 1

-----------------------------------------------------------------------------
(* The trees (ordertree.rs, ordertree_iterator.rs)                         *)

\* An insertion stops at a node whose prefix the key does not share.
GoesBelow(node, key, inserting) ==
    IsInner(node) /\ (inserting => SharedPrefixLen(node.key, key) >= node.prefix_len)

\* The walk for a key from node h: the inner nodes passed, each with the side
\* taken, and the node reached.
RECURSIVE WalkDown(_, _, _, _, _)
WalkDown(nodes, h, key, inserting, stack) ==
    LET node == nodes[h]
    IN  IF GoesBelow(node, key, inserting)
        THEN LET crit_bit == Bit(key, node.prefix_len)
             IN  WalkDown(nodes, node.children[crit_bit], key, inserting,
                          Append(stack, <<h, crit_bit>>))
        ELSE [at |-> h, stack |-> stack]

\* The handles of the leaves below h, left children first.
RECURSIVE LeafHandles(_, _, _)
LeafHandles(nodes, h, left) ==
    IF IsInner(nodes[h])
    THEN LeafHandles(nodes, nodes[h].children[left], left)
           \o LeafHandles(nodes, nodes[h].children[1 - left], left)
    ELSE <<h>>

\* OrderTreeIter: bids from the highest key, asks from the lowest.
Iter(p, root) ==
    IF root.leaf_count = 0 THEN <<>>
    ELSE LeafHandles(p.nodes, root.maybe_node, IF order_tree_type = "Bids" THEN 1 ELSE 0)

\* leaf_min_max
RECURSIVE Extreme(_, _, _)
Extreme(nodes, h, i) ==
    IF IsInner(nodes[h]) THEN Extreme(nodes, nodes[h].children[i], i) ELSE nodes[h]

\* find_worst, of a tree that is not empty
FindWorst(p, root) ==
    Extreme(p.nodes, root.maybe_node, IF order_tree_type = "Bids" THEN 0 ELSE 1)

RECURSIVE FindEarliestExpiry(_, _)
FindEarliestExpiry(nodes, h) ==
    LET e == nodes[h].child_earliest_expiry
    IN  IF IsInner(nodes[h])
        THEN FindEarliestExpiry(nodes, nodes[h].children[IF e[0] > e[1] THEN 1 ELSE 0])
        ELSE nodes[h]

RECURSIVE UpdateParentEarliestExpiry(_, _, _, _)
UpdateParentEarliestExpiry(nodes, stack, outdated, new) ==
    IF stack = <<>> THEN nodes
    ELSE LET h == Last(stack)[1]
             crit_bit == Last(stack)[2]
             parents == [nodes EXCEPT ![h].child_earliest_expiry[crit_bit] = new]
         IN  IF nodes[h].child_earliest_expiry[crit_bit] # outdated THEN nodes
             ELSE UpdateParentEarliestExpiry(parents, Front(stack),
                      EarliestExpiry(nodes[h]), EarliestExpiry(parents[h]))

\* Mutant: the removed leaf's node stays taken.
SplicedKeepLeaf(p, parent, other, leaf_handle) ==
    [RemoveNode(p, other) EXCEPT !.nodes[parent] = p.nodes[other]]

\* A leaf's parent becomes a copy of its other child, and both children are
\* freed, the other one first.
Spliced(p, parent, other, leaf_handle) ==
    RemoveNode([RemoveNode(p, other) EXCEPT !.nodes[parent] = p.nodes[other]], leaf_handle)

RemoveByKey(p, root, search_key) ==
    LET walk == WalkDown(p.nodes, root.maybe_node, search_key, FALSE, <<>>)
        leaf == p.nodes[walk.at]
        parent == Last(walk.stack)[1]
        other == p.nodes[parent].children[1 - Last(walk.stack)[2]]
    IN  IF root.leaf_count = 0 \/ leaf.key # search_key THEN [pool |-> p, root |-> root]
        ELSE IF walk.stack = <<>>
        THEN [pool |-> RemoveNode(p, walk.at), root |-> [maybe_node |-> 0, leaf_count |-> 0]]
        ELSE [root |-> [root EXCEPT !.leaf_count = @ - 1],
              pool |-> [Spliced(p, parent, other, walk.at) EXCEPT !.nodes =
                  UpdateParentEarliestExpiry(@, Front(walk.stack), leaf.expiry,
                                             EarliestExpiry(p.nodes[other]))]]

\* The inner node that replaces `old`: the common prefix of the new leaf and
\* `old`, which are its children.
NewParent(leaf, leaf_handle, old, old_handle) ==
    LET prefix_len == SharedPrefixLen(old.key, leaf.key)
        crit_bit == Bit(leaf.key, prefix_len)
    IN  [tag |-> "InnerNode", prefix_len |-> prefix_len, key |-> leaf.key,
         children |-> [b \in 0 .. 1 |-> IF b = crit_bit THEN leaf_handle ELSE old_handle],
         child_earliest_expiry |->
             [b \in 0 .. 1 |-> IF b = crit_bit THEN leaf.expiry ELSE EarliestExpiry(old)]]

\* Nodes an insertion takes: one for the leaf and, unless it is the first of
\* its tree or replaces a leaf of the same key, one for the node it displaces.
InsertLeaf(p, root, leaf) ==
    LET walk == WalkDown(p.nodes, root.maybe_node, leaf.key, TRUE, <<>>)
        old == p.nodes[walk.at]
        with_leaf == InsertNode(p, leaf)
        with_both == InsertNode(with_leaf, old)
        parent == NewParent(leaf, Handle(p), old, Handle(with_leaf))
        nodes == [with_both.nodes EXCEPT ![walk.at] = parent]
    IN  IF root.leaf_count = 0
        THEN IF Room(p) THEN [ok |-> TRUE, pool |-> with_leaf,
                              root |-> [maybe_node |-> Handle(p), leaf_count |-> 1]]
             ELSE [ok |-> FALSE, pool |-> p, root |-> root]
        ELSE IF ~IsInner(old) /\ old.key = leaf.key
        THEN [ok |-> TRUE, root |-> root,
              pool |-> [p EXCEPT !.nodes = UpdateParentEarliestExpiry(
                            [@ EXCEPT ![walk.at] = leaf], walk.stack, old.expiry, leaf.expiry)]]
        ELSE IF ~Room(p) \/ ~Room(with_leaf) THEN [ok |-> FALSE, pool |-> p, root |-> root]
        ELSE [ok |-> TRUE, root |-> [root EXCEPT !.leaf_count = @ + 1],
              pool |-> [with_both EXCEPT !.nodes =
                  IF leaf.expiry < EarliestExpiry(old)
                  THEN UpdateParentEarliestExpiry(nodes, walk.stack, EarliestExpiry(old), leaf.expiry)
                  ELSE nodes]]

-----------------------------------------------------------------------------
(* A side of the book (bookside.rs), a record of its pool and its roots    *)

BookSide == [pool |-> pool, roots |-> roots]

RemoveFrom(side, tree, key) ==
    LET removed == RemoveByKey(side.pool, side.roots[tree], key)
    IN  [pool |-> removed.pool, roots |-> [side.roots EXCEPT ![tree] = removed.root]]

\* The expired leaf remove_one_expired finds in a tree, if there is one.
ExpiredIn(side, tree) ==
    LET root == side.roots[tree]
        leaf == FindEarliestExpiry(side.pool.nodes, root.maybe_node)
    IN  IF root.leaf_count > 0 /\ leaf.expiry < now_ts THEN {leaf} ELSE {}

OtherTree(tree) == IF tree = "Fixed" THEN "OraclePegged" ELSE "Fixed"

\* Mutant: the other tree's expired order is looked up in this tree.
RemoveOneExpiredConfused(side, tree) ==
    LET first == IF ExpiredIn(side, tree) # {} THEN tree ELSE OtherTree(tree)
    IN  IF ExpiredIn(side, first) = {} THEN side
        ELSE RemoveFrom(side, tree, (CHOOSE l \in ExpiredIn(side, first) : TRUE).key)

RemoveOneExpired(side, tree) ==
    LET first == IF ExpiredIn(side, tree) # {} THEN tree ELSE OtherTree(tree)
    IN  IF ExpiredIn(side, first) = {} THEN side
        ELSE RemoveFrom(side, first, (CHOOSE l \in ExpiredIn(side, first) : TRUE).key)

\* The side without the worst order of a tree.
RemoveWorst(side, tree) ==
    RemoveFrom(side, tree, FindWorst(side.pool, side.roots[tree]).key)

Better(k, l) == IF order_tree_type = "Bids" THEN k > l ELSE k < l

\* What remove_worst may leave: which tree holds the worst order depends on the
\* oracle price, and so does whether an order of the other tree is better.
\* The new order's price is better than the dropped one's.
WorstRemoved(side, tree, key) ==
    {RemoveWorst(side, t) : t \in
        {t \in Trees : /\ side.roots[t].leaf_count > 0
                       /\ t = tree => Better(key, FindWorst(side.pool, side.roots[t]).key)}}

Inserted(side, tree, leaf) == InsertLeaf(side.pool, side.roots[tree], leaf)

-----------------------------------------------------------------------------
(* Actions                                                                 *)

Init == /\ pool = EmptyPool
        /\ roots = [t \in Trees |-> [maybe_node |-> 0, leaf_count |-> 0]]
        /\ order_tree_type \in {"Bids", "Asks"}
        /\ used = {} /\ now_ts = 0

\* The end of new_order: an order that was not matched goes on the book.  Its
\* key ends with the market's running sequence number, so no key comes twice.
\* When the insertion fails so does the transaction.
PostOrder(order) ==
    LET tree == order.tree
        key == order.key
        leaf == LeafNode(key, Expiry(order.time_in_force))
        kept == RemoveOneExpired(BookSide, tree)
        ready == IF IsFull(kept.pool) THEN WorstRemoved(kept, tree, key) ELSE {kept}
    IN  /\ key \notin used
        /\ used' = used \cup {key}
        /\ \E side \in ready :
             LET inserted == Inserted(side, tree, leaf)
             IN  /\ inserted.ok
                 /\ pool' = inserted.pool
                 /\ roots' = [side.roots EXCEPT ![tree] = inserted.root]
        /\ UNCHANGED <<order_tree_type, now_ts>>

\* A maker's order is filled, found expired, or cancelled.  A cancel may name an
\* order that has left the book.
RemoveOrder(order) ==
    LET side == RemoveFrom(BookSide, order.tree, order.key)
    IN  /\ order.key \in used
        /\ pool' = side.pool /\ roots' = side.roots
        /\ UNCHANGED <<order_tree_type, used, now_ts>>

Tick == /\ now_ts < MaxTs
        /\ now_ts' = now_ts + 1
        /\ UNCHANGED <<pool, roots, order_tree_type, used>>

Next == \/ \E order \in OrderInputs : PostOrder(order)
        \/ \E order \in Removals : RemoveOrder(order)
        \/ Tick

Spec == Init /\ [][Next]_vars

-----------------------------------------------------------------------------
(* Properties                                                              *)

Nodes ==
    [tag : {"Uninitialized"}]
      \cup [tag : {"LeafNode"}, key : KeySet, expiry : Nat]
      \cup [tag : {"InnerNode"}, prefix_len : 0 .. KeyBits - 1, key : KeySet,
            children : [0 .. 1 -> Handles], child_earliest_expiry : [0 .. 1 -> Nat]]
      \cup [tag : {"FreeNode", "LastFreeNode"}, next : Handles]

\* Nodes, handles and counters stay in range; in particular insert never writes
\* past the end of the array.
TypeOK ==
    /\ \A h \in Handles : pool.nodes[h] \in Nodes
    /\ pool.bump_index \in 0 .. MaxNodes /\ pool.free_list_len \in 0 .. MaxNodes
    /\ pool.free_list_head \in Handles
    /\ roots \in [Trees -> [maybe_node : Handles, leaf_count : 0 .. MaxNodes]]
    /\ order_tree_type \in {"Bids", "Asks"}
    /\ used \subseteq KeySet /\ now_ts \in 0 .. MaxTs

RECURSIVE Below(_)
Below(h) ==
    {h} \cup IF IsInner(pool.nodes[h])
             THEN Below(pool.nodes[h].children[0]) \cup Below(pool.nodes[h].children[1])
             ELSE {}

TreeNodes(tree) ==
    IF roots[tree].leaf_count = 0 THEN {} ELSE Below(roots[tree].maybe_node)

LeavesBelow(h) == {i \in Below(h) : ~IsInner(pool.nodes[i])}

\* The n nodes of the free list from node h on.
RECURSIVE FreeList(_, _)
FreeList(h, n) ==
    IF n = 0 \/ pool.nodes[h].tag \notin {"FreeNode", "LastFreeNode"} THEN <<>>
    ELSE <<h>> \o FreeList(pool.nodes[h].next, n - 1)

Free == FreeList(pool.free_list_head, pool.free_list_len)

\* No node of the array is lost or used twice: the nodes handed out so far are
\* those of the two trees, which share none, and those of the free list, whose
\* last one alone carries the tag insert asserts.  A tree of n orders takes
\* 2n - 1 nodes.
NodesAreAccountedFor ==
    /\ TreeNodes("Fixed") \cap TreeNodes("OraclePegged") = {}
    /\ \A t \in Trees : /\ Range(Free) \cap TreeNodes(t) = {}
                        /\ roots[t].leaf_count > 0 =>
                             Cardinality(TreeNodes(t)) = 2 * roots[t].leaf_count - 1
    /\ UNION {TreeNodes(t) : t \in Trees} \cup Range(Free) = 0 .. pool.bump_index - 1
    /\ Len(Free) = pool.free_list_len /\ IsInjective(Free)
    /\ \A i \in DOMAIN Free : pool.nodes[Free[i]].tag =
           IF i = Len(Free) THEN "LastFreeNode" ELSE "FreeNode"

\* Iterating over a tree yields each of its orders once, the best key first,
\* and walk_down finds each of them by its key: what matching, cancelling and
\* find_worst take for granted.
OrdersAreSortedAndFound ==
    \A t \in Trees :
      LET found == Iter(pool, roots[t])
          key(i) == pool.nodes[found[i]].key
      IN  /\ Len(found) = roots[t].leaf_count
          /\ \A i, j \in DOMAIN found : i < j => Better(key(i), key(j))
          /\ \A i \in DOMAIN found :
               WalkDown(pool.nodes, roots[t].maybe_node, key(i), FALSE, <<>>).at = found[i]

\* child_earliest_expiry of every inner node is the earliest expiry among the
\* orders below that child, whatever was inserted, moved or removed below it,
\* so that find_earliest_expiry reaches an order no other expires before.
EarliestExpiryIsExact ==
    \A t \in Trees : \A h \in {i \in TreeNodes(t) : IsInner(pool.nodes[i])}, b \in 0 .. 1 :
      LET expiries == {pool.nodes[i].expiry : i \in LeavesBelow(pool.nodes[h].children[b])}
          cached == pool.nodes[h].child_earliest_expiry[b]
      IN  cached \in expiries /\ \A e \in expiries : cached <= e

Fits(side, tree, key) == Inserted(side, tree, LeafNode(key, NoExpiry)).ok

\* A side that is not full has the nodes for one more order, in either tree
\* and whatever its key: insert_leaf cannot fail after is_full said no.
RoomUnlessFull ==
    ~IsFull(pool) => \A t \in Trees, key \in KeySet : Fits(BookSide, t, key)

Orders(tree) ==
    {[key |-> pool.nodes[h].key, expiry |-> pool.nodes[h].expiry] :
        h \in Range(Iter(pool, roots[tree]))}

Sets == INSTANCE LeafSets WITH
            Capacity <- MaxNodes \div 2, leaves <- [t \in Trees |-> Orders(t)]

\* The two trees behave as two sets of orders: every operation adds and removes
\* exactly the orders it should, the earliest expired one and the worst one
\* included, and a worst order is dropped only from a side that holds at least
\* half as many orders as it has nodes.
ImplementsLeafSets == Sets!Spec

\* On a full side an order that is better than the worst one takes its place:
\* "If this bid is higher than lowest bid, boot that bid and insert this one"
\* (book.rs, new_order).  The order that is dropped may be the only one of its
\* tree and then leaves one node, where an insertion into the other tree takes
\* two.
BootingMakesRoom ==
    \A order \in {o \in OrderInputs : o.key \notin used} :
      LET kept == RemoveOneExpired(BookSide, order.tree)
      IN  IsFull(kept.pool) =>
            \A side \in WorstRemoved(kept, order.tree, order.key) :
                Fits(side, order.tree, order.key)

\* The trees of a side share their node array without losing or sharing a
\* node, stay sorted and searchable, know their earliest expiry and have room
\* unless full.
TreesAreSound ==
  /\ TypeOK
  /\ NodesAreAccountedFor
  /\ OrdersAreSortedAndFound
  /\ EarliestExpiryIsExact
  /\ RoomUnlessFull

=============================================================================
