-------------------------- MODULE AccountStorage --------------------------
(***************************************************************************)
(* The dynamic part of a MangoAccount in memory: five vectors behind each  *)
(* other, each with its length in front, that instructions read and write  *)
(* in place and that resizing moves around.                                *)
(*                                                                         *)
(* `asMem` is the account's memory as cells.  A slot of kind k takes       *)
(* SlotSize[k] cells, the first of which says what it is for; a length and *)
(* the padding in front of it take one cell each.  `asCounts` is the       *)
(* header: the lengths, which loading the account parses from memory.      *)
(*                                                                         *)
(* `asBook` holds the orders of the account that rest on the perp book,    *)
(* `asPending` the events of these orders on the event queue (not those of *)
(* orders it took, which have no slot), both with the order's slot and id. *)
(* `asOverrun` is set when a copy leaves the memory.                       *)
(***************************************************************************)
EXTENDS Integers, Sequences, FiniteSets, SequencesExt, FiniteSetsExt

CONSTANTS
    AsTokens,           \* token indexes; 0 is the settle token of perps
    AsMarkets,          \* from serum3 market indexes to <<base, quote>>
    AsPerps,            \* perp market indexes
    AsSwaps,            \* from swap ids, above 0, to <<buy, sell>>
    AsFirstCounts, AsCounts, \* counts an account is made with and resized to
    AsOrders,           \* order ids, apart from every other value in memory
    AsKeep,             \* slots a migration leaves: 8 tokens, 4 perps and markets
    MaxHealthAccounts,  \* 28
    MaxOrders, MaxSwaps, \* 64 and 64
    AsMaxSteps          \* bound: instructions

VARIABLES asMem, asCounts, asBook, asPending, asOverrun, asSteps

asVars == <<asMem, asCounts, asBook, asPending, asOverrun, asSteps>>

Vectors == <<"token", "serum3", "perp", "perp_oo", "tcs">>
SlotSize == [token |-> 2, serum3 |-> 1, perp |-> 2, perp_oo |-> 4, tcs |-> 3]
Max16 == 99             \* TokenIndex::MAX and its like
ReservedCells == 1

-----------------------------------------------------------------------------
(* Layout.  Counts are functions from kinds to numbers of slots.           *)

\* dynamic_*_vec_offset: behind the version and, for every vector before,
\* its padding, length and slots.
VecOffset(counts, k) ==
    LET bytes(v) == 2 + SlotSize[v] * counts[v] IN
    2 + (IF k = "token" THEN 0 ELSE bytes("token")
      + (IF k = "serum3" THEN 0 ELSE bytes("serum3")
      + (IF k = "perp" THEN 0 ELSE bytes("perp")
      + (IF k = "perp_oo" THEN 0 ELSE bytes("perp_oo")))))

SlotOffset(counts, k, i) == VecOffset(counts, k) + 1 + i * SlotSize[k]
ReservedOffset(counts) == SlotOffset(counts, "tcs", counts["tcs"])
AccountSize(counts) == ReservedOffset(counts) + ReservedCells

Cell(mem, at) == mem[at + 1]

\* MangoAccountDynamicHeader::from_bytes: accounts of the first version end
\* before the swaps.
ParsedCounts(mem) ==
    LET behind(k, at, n) == at + 2 + SlotSize[k] * n
        t == Cell(mem, 2)
        s == Cell(mem, behind("token", 2, t))
        p == Cell(mem, behind("serum3", behind("token", 2, t), s))
        atOrders == behind("perp", behind("serum3", behind("token", 2, t), s), p)
        o == Cell(mem, atOrders)
        atSwaps == behind("perp_oo", atOrders, o) IN
    [token |-> t, serum3 |-> s, perp |-> p, perp_oo |-> o,
     tcs |-> IF Len(mem) > atSwaps + 1 THEN Cell(mem, atSwaps) ELSE 0]

\* The slots of one vector, from index 1.
SlotsAt(mem, at, size, count) ==
    [n \in 1 .. count |-> SubSeq(mem, at + (n - 1) * size + 1, at + n * size)]
SlotsOf(mem, k) == SlotsAt(mem, SlotOffset(asCounts, k, 0), SlotSize[k], asCounts[k])

DefaultSlot(k) ==
    CASE k = "tcs" -> <<0, 0, 0>>
      [] k \in {"token", "perp"} -> <<Max16, 0>>
      [] k = "serum3" -> <<Max16>>
      [] k = "perp_oo" -> <<Max16, 0, 0, 0>>

IsUsed(k, slot) == slot[1] # DefaultSlot(k)[1]

Written(mem, at, cells) ==
    IF cells = <<>> THEN mem
    ELSE SubSeq(mem, 1, at) \o cells \o SubSeq(mem, at + Len(cells) + 1, Len(mem))

WithSlot(mem, k, i, cells) == Written(mem, SlotOffset(asCounts, k, i), cells)

-----------------------------------------------------------------------------
(* Positions.  Operations give sets of none or one memory.                 *)

UsedSlots(mem, k) == LET list == SlotsOf(mem, k) IN {n - 1 : n \in {m \in DOMAIN list : IsUsed(k, list[m])}}
Unused(mem, k) == LET list == SlotsOf(mem, k) IN {n - 1 : n \in {m \in DOMAIN list : ~IsUsed(k, list[m])}}
Holding(mem, k, key) == LET list == SlotsOf(mem, k) IN {n - 1 : n \in {m \in DOMAIN list : IsUsed(k, list[m]) /\ list[m][1] = key}}

UsedBefore(mem, k, i) == Cardinality({j \in UsedSlots(mem, k) : j < i})

UseCount(mem, i) == Cell(mem, SlotOffset(asCounts, "token", i) + 1)

\* ensure_token_position: the position's slot and its place among the active
\* ones, and the memory in which it exists.
MatchOrFree(mem, t) ==
    LET free == Unused(mem, "token") IN
    IF Holding(mem, "token", t) # {} THEN Holding(mem, "token", t) ELSE IF free = {} THEN {} ELSE {Min(free)}

ActiveIndex(mem, i) == UsedBefore(mem, "token", i)

EnsureTokenPosition(mem, t) ==
    {[slot |-> i, active |-> ActiveIndex(mem, i),
      mem |-> IF Holding(mem, "token", t) # {} THEN mem ELSE WithSlot(mem, "token", i, <<t, 0>>)] :
        i \in MatchOrFree(mem, t)}

\* ensure_token_position and increment_in_use.
Locked(mems, t) ==
    UNION {{WithSlot(e.mem, "token", e.slot, <<t, UseCount(e.mem, e.slot) + 1>>) :
              e \in EnsureTokenPosition(m, t)} : m \in mems}

\* decrement_in_use, saturating.
Unlocked(mem, t) ==
    {WithSlot(mem, "token", i, <<t, IF UseCount(mem, i) = 0 THEN 0 ELSE UseCount(mem, i) - 1>>) :
       i \in Holding(mem, "token", t)}

\* deactivate_token_position changes the index only.
Deactivated(mem, i) == Written(mem, SlotOffset(asCounts, "token", i), <<Max16>>)

\* token_decrement_dust_deactivate; a position may be dust or not.
DustDeactivated(mems, t) ==
    UNION {LET left == Unlocked(m, t) IN
           IF left = {} THEN {m}
           ELSE left \cup {Deactivated(u, i) : u \in left, i \in {j \in Holding(m, "token", t) : UseCount(m, j) <= 1}}
             : m \in mems}

AsStep == asSteps < AsMaxSteps /\ asSteps' = asSteps + 1

\* A deposit opens a position.
OpenTokenPosition(t) ==
    /\ Holding(asMem, "token", t) = {}
    /\ \E e \in EnsureTokenPosition(asMem, t) : asMem' = e.mem
    /\ AsStep /\ UNCHANGED <<asCounts, asBook, asPending, asOverrun>>

\* A withdrawal of everything closes it.
DeactivateTokenPosition(t) ==
    /\ \E i \in Holding(asMem, "token", t) :
         /\ UseCount(asMem, i) = 0
         /\ asMem' = Deactivated(asMem, i)
    /\ AsStep /\ UNCHANGED <<asCounts, asBook, asPending, asOverrun>>

AsSerum3CreateOpenOrders(m) ==
    /\ Holding(asMem, "serum3", m) = {} /\ Unused(asMem, "serum3") # {}
    /\ asMem' \in Locked(Locked({WithSlot(asMem, "serum3", Min(Unused(asMem, "serum3")), <<m>>)},
                                AsMarkets[m][2]), AsMarkets[m][1])
    /\ AsStep /\ UNCHANGED <<asCounts, asBook, asPending, asOverrun>>

AsSerum3CloseOpenOrders(m) ==
    /\ \E i \in Holding(asMem, "serum3", m) :
         asMem' \in {WithSlot(u, "serum3", i, <<Max16>>) :
                       u \in UNION {Unlocked(v, AsMarkets[m][2]) : v \in Unlocked(asMem, AsMarkets[m][1])}}
    /\ AsStep /\ UNCHANGED <<asCounts, asBook, asPending, asOverrun>>

EnsurePerpPosition(m) ==
    Locked({WithSlot(asMem, "perp", Min(Unused(asMem, "perp")), <<m, 7>>)}, 0)

OpenPerpPosition(m) ==
    /\ Holding(asMem, "perp", m) = {} /\ Unused(asMem, "perp") # {}
    /\ asMem' \in EnsurePerpPosition(m)
    /\ AsStep /\ UNCHANGED <<asCounts, asBook, asPending, asOverrun>>

\* bids_base_lots or asks_base_lots is not zero: both are sums of what rests on the
\* book and of what the events of the account's orders have yet to take off.
HasMakerLots(m) == \E o \in asBook \cup ToSet(asPending) : o.market = m

\* Base, quote and the net of the orders taken have to be zero as well; they are not
\* part of this model, in which they may always be.
AsPerpDeactivatePosition(m) ==
    /\ ~HasMakerLots(m)
    /\ \E i \in Holding(asMem, "perp", m) :
         asMem' \in Unlocked(Written(asMem, SlotOffset(asCounts, "perp", i), <<Max16>>), 0)
    /\ AsStep /\ UNCHANGED <<asCounts, asBook, asPending, asOverrun>>

CreateSwap(id) ==
    /\ Holding(asMem, "tcs", id) = {}
    /\ \E mem \in Locked(Locked({asMem}, AsSwaps[id][1]), AsSwaps[id][2]) :
         /\ Unused(mem, "tcs") # {}
         /\ asMem' = WithSlot(mem, "tcs", Min(Unused(mem, "tcs")), <<id>> \o AsSwaps[id])
    /\ AsStep /\ UNCHANGED <<asCounts, asBook, asPending, asOverrun>>

CancelSwap(id) ==
    /\ \E i \in Holding(asMem, "tcs", id) :
         asMem' \in DustDeactivated(DustDeactivated({WithSlot(asMem, "tcs", i, DefaultSlot("tcs"))},
                                                    AsSwaps[id][1]), AsSwaps[id][2])
    /\ AsStep /\ UNCHANGED <<asCounts, asBook, asPending, asOverrun>>

-----------------------------------------------------------------------------
(* Orders.                                                                 *)

\* add_perp_order, in the first free slot.
PlaceOrder(m, id) ==
    /\ Holding(asMem, "perp", m) # {} /\ Unused(asMem, "perp_oo") # {}
    /\ ~\E o \in asBook \cup ToSet(asPending) : o.id = id
    /\ Holding(asMem, "perp_oo", id) = {}
    /\ asMem' = WithSlot(asMem, "perp_oo", Min(Unused(asMem, "perp_oo")), <<id, 1, 1, 1>>)
    /\ asBook' = asBook \cup {[id |-> id, market |-> m, slot |-> Min(Unused(asMem, "perp_oo"))]}
    /\ AsStep /\ UNCHANGED <<asCounts, asPending, asOverrun>>

\* A resting order is filled, in part or whole, or expires.
OrderEvent(o, out) ==
    /\ o \in asBook
    /\ asPending' = Append(asPending, [id |-> o.id, market |-> o.market, slot |-> o.slot, out |-> out])
    /\ asBook' = IF out THEN asBook \ {o} ELSE asBook
    /\ AsStep /\ UNCHANGED <<asMem, asCounts, asOverrun>>

\* cancel_order and remove_perp_order: the slot is free at once.
CancelOrder(o) ==
    /\ o \in asBook
    /\ asBook' = asBook \ {o}
    /\ asMem' = WithSlot(asMem, "perp_oo", o.slot, DefaultSlot("perp_oo"))
    /\ AsStep /\ UNCHANGED <<asCounts, asPending, asOverrun>>

\* Slots are addressed without a check against their number; only the end of
\* the memory stops an access.
Addressable(mem, i) == SlotOffset(asCounts, "perp_oo", i) + SlotSize["perp_oo"] <= Len(mem)

\* execute_perp_maker and execute_perp_out_event.
ConsumeEvent ==
    /\ asPending # <<>>
    /\ LET e == Head(asPending) IN
       /\ Addressable(asMem, e.slot)
       /\ asMem' = IF e.out /\ Cell(asMem, SlotOffset(asCounts, "perp_oo", e.slot)) = e.id
                   THEN WithSlot(asMem, "perp_oo", e.slot, DefaultSlot("perp_oo")) ELSE asMem
    /\ asPending' = Tail(asPending)
    /\ UNCHANGED <<asCounts, asBook, asOverrun, asSteps>>

-----------------------------------------------------------------------------
(* Resizing.                                                               *)

HealthAccounts(counts) == 2 * counts["token"] + counts["serum3"] + 2 * counts["perp"]

CheckResizeFrom(counts, prev) ==
    /\ HealthAccounts(counts) > HealthAccounts(prev) => HealthAccounts(counts) <= MaxHealthAccounts
    /\ counts["perp_oo"] > prev["perp_oo"] => counts["perp_oo"] <= MaxOrders
    /\ counts["tcs"] > prev["tcs"] => counts["tcs"] <= MaxSwaps

\* How much of a vector must be kept: orders stay in their slots.
Preserved(mem, k) ==
    IF k # "perp_oo" THEN Cardinality(UsedSlots(mem, k))
    ELSE IF UsedSlots(mem, k) = {} THEN 0 ELSE Max(UsedSlots(mem, k)) + 1

\* The passes of resize_dynamic_content go from vector to vector, from a set
\* of one memory to the next.

\* Used slots move to the front of their vector, over what was there.
DefraggedVector(mem, k) ==
    Written(mem, SlotOffset(asCounts, k, 0),
            FlattenSeq(SelectSeq(SlotsOf(mem, k), LAMBDA slot : IsUsed(k, slot))))

DefraggedAll(mem) == FoldLeft(LAMBDA mems, k : {DefraggedVector(m, k) : m \in mems}, {mem}, Vectors)
Defragged(mem) ==
    FoldLeft(LAMBDA mems, k : {DefraggedVector(m, k) : m \in mems}, {mem},
             <<"token", "serum3", "perp", "tcs">>)

\* sol_memmove; `over` notes a copy that leaves the memory.
MemMoved(state, dst, src, n) ==
    IF n = 0 THEN state
    ELSE IF dst + n > Len(state.mem) \/ src + n > Len(state.mem) THEN [state EXCEPT !.over = TRUE]
    ELSE [state EXCEPT !.mem = Written(@, dst, SubSeq(@, src + 1, src + n))]

\* A vector moves to its new place, if that is to the given side.
MovedVector(state, k, side, new, kept) ==
    LET src == SlotOffset(asCounts, k, 0)
        dst == SlotOffset(new, k, 0) IN
    IF (IF side = "left" THEN dst < src ELSE dst > src)
    THEN MemMoved(state, dst, src, kept[k] * SlotSize[k]) ELSE state

\* The moves in order: first to the left, from the left; then to the right,
\* from the right.
MoveOrderFromLeft ==
    <<<<"serum3", "left">>, <<"perp", "left">>, <<"perp_oo", "left">>, <<"tcs", "left">>,
      <<"serum3", "right">>, <<"perp", "right">>, <<"perp_oo", "right">>, <<"tcs", "right">>>>
MoveOrder ==
    <<<<"serum3", "left">>, <<"perp", "left">>, <<"perp_oo", "left">>, <<"tcs", "left">>,
      <<"tcs", "right">>, <<"perp_oo", "right">>, <<"perp", "right">>, <<"serum3", "right">>>>

Moves(mems, new, kept) ==
    FoldLeft(LAMBDA states, move : {MovedVector(s, move[1], move[2], new, kept) : s \in states},
             {[mem |-> m, over |-> FALSE] : m \in mems}, MoveOrder)

\* What is not kept gets its default, and the lengths are written.
DefaultedVector(mem, k, new, kept) ==
    LET defaults == [c \in 1 .. (new[k] - kept[k]) * SlotSize[k] |-> DefaultSlot(k)[((c - 1) % SlotSize[k]) + 1]] IN
    Written(Written(mem, SlotOffset(new, k, kept[k]), defaults), VecOffset(new, k) - 1, <<0, new[k]>>)

Defaulted(mem, new, kept) ==
    FoldLeft(LAMBDA mems, k : {DefaultedVector(m, k, new, kept) : m \in mems},
             {Written(mem, ReservedOffset(new), [n \in 1 .. ReservedCells |-> 0])}, Vectors)

\* resize_dynamic_content, as a set of none or one outcome.
ResizeDynamicContent(mem, new) ==
    UNION {IF CheckResizeFrom(new, asCounts) /\ \A k \in ToSet(Vectors) : new[k] >= kept[k]
           THEN UNION {{[s EXCEPT !.mem = m] : m \in Defaulted(s.mem, new, kept)} :
                         s \in Moves(Defragged(mem), new, kept)}
           ELSE {} : kept \in {[k \in ToSet(Vectors) |-> Preserved(mem, k)]}}

Realloc(mem, size) ==
    IF size <= Len(mem) THEN SubSeq(mem, 1, size) ELSE mem \o [n \in 1 .. size - Len(mem) |-> 0]

\* Memory grows before the contents move, and shrinks after.
ResizeAndRealloc(mem, new) ==
    UNION {{[s EXCEPT !.mem = Realloc(@, AccountSize(new))] : s \in ResizeDynamicContent(grown, new)} :
             grown \in {Realloc(mem, Max({Len(mem), AccountSize(new)}))}}

ResizeTo(new) ==
    /\ \E s \in ResizeAndRealloc(asMem, new) : asMem' = s.mem /\ asOverrun' = (asOverrun \/ s.over)
    /\ asCounts' = new
    /\ AsStep /\ UNCHANGED <<asBook, asPending>>

AsAccountExpand(new) == ResizeTo(new)

\* account_size_migration gives an account of an earlier version the current
\* size, with fewer of the slots it does not use.
AccountSizeMigration ==
    LET least == [k \in {"token", "serum3", "perp"} |->
                    Min({asCounts[k], Max({AsKeep[k], Cardinality(UsedSlots(asMem, k))})})] IN
    /\ Len(asMem) # AccountSize(asCounts)
    /\ ResizeTo(least @@ asCounts)

\* account_create; earlier versions of an account end before the reserved
\* bytes, or before the swaps.
AsAccountCreate(counts, version) ==
    LET new == CHOOSE m \in Defaulted([n \in 1 .. AccountSize(counts) |-> 1], counts,
                                      [k \in ToSet(Vectors) |-> 0]) : TRUE IN
    CASE version = 3 -> new
      [] version = 2 -> Realloc(new, ReservedOffset(counts))
      [] version = 1 -> Realloc(new, VecOffset(counts, "tcs") - 1)

AsInitAs(version) ==
    /\ asMem = AsAccountCreate(AsFirstCounts, version) /\ asCounts = AsFirstCounts
    /\ asBook = {} /\ asPending = <<>> /\ asOverrun = FALSE /\ asSteps = 0

AsInit == \E version \in 1 .. 3 : AsInitAs(version)

AsNext ==
    \/ \E t \in AsTokens : OpenTokenPosition(t) \/ DeactivateTokenPosition(t)
    \/ \E m \in DOMAIN AsMarkets : AsSerum3CreateOpenOrders(m) \/ AsSerum3CloseOpenOrders(m)
    \/ \E m \in AsPerps : OpenPerpPosition(m) \/ AsPerpDeactivatePosition(m)
    \/ \E id \in DOMAIN AsSwaps : CreateSwap(id) \/ CancelSwap(id)
    \/ \E m \in AsPerps, id \in AsOrders : PlaceOrder(m, id)
    \/ \E o \in asBook : CancelOrder(o)
    \/ \E o \in asBook, out \in BOOLEAN : OrderEvent(o, out)
    \/ ConsumeEvent
    \/ \E new \in AsCounts : AsAccountExpand(new)
    \/ AccountSizeMigration

AsSpec == AsInit /\ [][AsNext]_asVars

-----------------------------------------------------------------------------
(* Properties.                                                             *)

\* The next load of the account parses the header it has now, the account
\* has the size of its version, and no copy ever left the memory.
AsTypeOK ==
    /\ ParsedCounts(asMem) = asCounts
    /\ Len(asMem) \in {AccountSize(asCounts), ReservedOffset(asCounts), VecOffset(asCounts, "tcs") - 1}
    /\ ~asOverrun

\* Read as lists of slots, the memory does what the account's storage
\* promises: resizing loses and duplicates nothing, whatever moves over what.
StoredSlots ==
    [k \in ToSet(Vectors) |->
        LET list == SlotsOf(asMem, k) IN [n \in DOMAIN list |-> IF IsUsed(k, list[n]) THEN list[n] ELSE <<>>]]

Abstract == INSTANCE AccountSlots WITH slots <- StoredSlots

\* Every instruction, resizing included (resize_dynamic_content), does to the memory
\* what AccountSlots does to five lists: nothing is lost, duplicated or mixed up.
StorageIsLists == Abstract!SlotsSpec

\* A token position's use count is the number of markets, perp positions and
\* swaps that need it, so that none of them loses it and it can be closed
\* once they are gone.
UseCountsMatch ==
    \A t \in AsTokens :
      LET uses == Cardinality({m \in DOMAIN AsMarkets : t \in ToSet(AsMarkets[m]) /\ Holding(asMem, "serum3", m) # {}})
                  + Cardinality({id \in DOMAIN AsSwaps : t \in ToSet(AsSwaps[id]) /\ Holding(asMem, "tcs", id) # {}})
                  + (IF t = 0 THEN Cardinality(UsedSlots(asMem, "perp")) ELSE 0) IN
      /\ \A i \in Holding(asMem, "token", t) : UseCount(asMem, i) = uses
      /\ Holding(asMem, "token", t) = {} => uses = 0

\* Every order on the book is found in the slot its leaf names.
OrdersKeepTheirSlots ==
    \A o \in asBook : Holding(asMem, "perp_oo", o.id) = {o.slot}

\* The active index that ensure_token_position returns is where the position
\* then is among the active ones: health looks up its bank by it.
ActiveIndexFindsTheBank ==
    \A t \in AsTokens : \A e \in EnsureTokenPosition(asMem, t) :
      LET active == SelectSeq(SlotsOf(e.mem, "token"), LAMBDA s : IsUsed("token", s)) IN
      e.active < Len(active) /\ active[e.active + 1][1] = t

\* Every event on the queue can be applied, whether its order's slot is still
\* on the account or not.  This is not so in the code: the account may have
\* been made smaller than the slot of a cancelled order whose fill is pending.
EventsCanBeConsumed ==
    \A n \in DOMAIN asPending : Addressable(asMem, asPending[n].slot)

\* References into the account stay right through resizing, closing and reuse:
\* use counts, the slots that orders name, and the index of a position among
\* the active ones.
StoredReferencesHold ==
  /\ AsTypeOK
  /\ UseCountsMatch
  /\ OrdersKeepTheirSlots
  /\ ActiveIndexFindsTheBank

=============================================================================
