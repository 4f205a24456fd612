--------------------------- MODULE PerpInvariant ----------------------------
(***************************************************************************)
(* The inductive invariant of the perp market.                             *)
(*                                                                         *)
(* What has to be strengthened is the running instruction: matching only   *)
(* notes in tx which orders to delete or change and which events to queue, *)
(* so the invariant relates those notes to each other and to the book.     *)
(***************************************************************************)
EXTENDS PerpMarket

\* The opposing orders the matching loop has yet to visit, and has visited.
Rest == tx.fixed \cup tx.pegged
Changed == {c.leaf : c \in tx.changes}
Touched == tx.deletes \cup Changed

\* The event is about this order.
SameOrder(event, leaf) ==
    /\ event.order_id = leaf.id
    /\ event.owner = leaf.owner
    /\ event.owner_slot = leaf.owner_slot

\* Order ids are the sequence numbers used so far, and no two orders share one.
IdsInv ==
    /\ \A l \in book : l.id <= market.seq_num
    /\ \A l, m \in book : l.id = m.id => l = m
    /\ \A i \in 1 .. Len(queue) : queue[i].order_id \in 1 .. market.seq_num

\* A fixed price is one that can be divided by.
PricesInv == \A l \in book : l.tree = "Fixed" => l.price >= 1

\* What holds of the local variables of a running loop.
LoopInv ==
    /\ tx.phase # "idle" => tx.account \in Accounts
    /\ tx.phase \in {"match", "post"} => tx.price >= 1
    /\ tx.phase = "cancel" => tx.limit >= 1
    /\ tx.post => IsPostable(tx.order)
    /\ tx.phase \in {"idle", "price", "cancel"} =>
         tx.deletes = {} /\ tx.changes = {} /\ tx.events = <<>>

\* The loop visits an opposing order at most once, and notes for each order it
\* deletes or changes exactly one event, a finishing one if it deletes it.
MatchInv ==
    /\ \A l \in tx.fixed : l.tree = "Fixed"
    /\ \A l \in tx.pegged : l.tree = "OraclePegged"
    /\ Rest \subseteq OnSide(book, Opposite)
    /\ Touched \subseteq OnSide(book, Opposite)
    /\ Rest \cap Touched = {}
    /\ tx.deletes \cap Changed = {}
    /\ \A c, d \in tx.changes : c.leaf = d.leaf => c = d
    /\ \A i \in 1 .. Len(tx.events) : \E l \in Touched :
         /\ SameOrder(tx.events[i], l)
         /\ Finishes(tx.events[i]) <=> l \in tx.deletes
    /\ \A l \in tx.deletes : \E i \in 1 .. Len(tx.events) :
         SameOrder(tx.events[i], l) /\ Finishes(tx.events[i])
    /\ \A i, j \in 1 .. Len(tx.events) :
         tx.events[i].order_id = tx.events[j].order_id => i = j

TxInv == LoopInv /\ (tx.phase \in {"match", "post"} => MatchInv)

SlotsInv == BookOrdersHaveSlots /\ TakenSlotsAreFreed /\ FinishedOrdersAreGone

IInv == TypeOK /\ IdsInv /\ PricesInv /\ TxInv /\ SlotsInv
=============================================================================
