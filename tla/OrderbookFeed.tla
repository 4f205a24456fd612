--------------------------- MODULE OrderbookFeed ---------------------------
(***************************************************************************)
(* The orderbook service: it evaluates the bookside accounts of a market   *)
(* and sends clients checkpoints and updates, by price level (L2) or by    *)
(* order (L3).                                                             *)
(*                                                                         *)
(* `obChain` is what the chain cache serves of the market's accounts (the  *)
(* two sides and, for a perp market, the oracle, whose price the pegged    *)
(* orders follow), each with its version; `newest` is the latest version   *)
(* written and `other` what would be served had its fork lost.             *)
(* `obFilter` is the filter task: the last version it recorded of each     *)
(* account and its bookside cache.                                         *)
(* `obChannel` holds the messages on their way to the sink, `obCheckpoints`*)
(* the sink's maps, and `obPeers` the clients: their subscriptions and the *)
(* books they rebuilt from what they were sent.                            *)
(*                                                                         *)
(* An account's version stands for (slot, write_version): only its order   *)
(* matters.  Expiry of orders is left out; it changes what is valid at the *)
(* next evaluation exactly as an oracle move does, without a new version.  *)
(***************************************************************************)
EXTENDS Integers, Sequences, FiniteSets, FiniteSetsExt

CONSTANTS
    ObKinds,        \* kinds of market to consider: "perp", "serum"
    ObOrders,       \* orders that may rest: [side, owner, pegged, price, quantity],
                    \* no two of them alike once priced
    ObOraclePrices, \* with 0: no price can be read, or it is too uncertain
    ObPrices,       \* prices an order can come to
    ObPeerNames,
    ObMaxVersion,   \* bound: versions of each side; the oracle, which is there
                    \* from the start, has one more
    ObMaxWrites,    \* bound: versions of all accounts
    ObForking,      \* the accounts that fork switches concern
    ObMaxChannel,   \* bound: messages on their way when a pass begins
    ObMaxClientSteps

VARIABLES obMarket, obChain, obFilter, obChannel, obCheckpoints, obPeers, obClientSteps

obVars == <<obMarket, obChain, obFilter, obChannel, obCheckpoints, obPeers, obClientSteps>>

Sides == {"bids", "asks"}
Other(side) == IF side = "bids" THEN "asks" ELSE "bids"

-----------------------------------------------------------------------------
(* The accounts.                                                           *)

NoVersion == [version |-> 0, content |-> {}]

\* Another version of an account is served: the latest, or after a fork switch
\* an earlier one.
Write(account, content) ==
    [version |-> account.newest + 1, newest |-> account.newest + 1, content |-> content,
     other |-> [version |-> account.version, content |-> account.content]]

Switched(account) ==
    [version |-> account.other.version, newest |-> account.newest,
     content |-> account.other.content, other |-> NoVersion]

WritesLeft == obChain["bids"].newest + obChain["asks"].newest + obChain.oracle.newest < ObMaxWrites

ChainStep ==
    UNCHANGED <<obMarket, obFilter, obChannel, obCheckpoints, obPeers, obClientSteps>>

SideWritten(side) ==
    /\ WritesLeft /\ obChain[side].newest < ObMaxVersion
    /\ \E orders \in SUBSET {o \in ObOrders : o.side = side /\ (o.pegged => obMarket = "perp")} :
         /\ orders # obChain[side].content
         /\ obChain' = [obChain EXCEPT ![side] = Write(@, orders)]
    /\ ChainStep

OracleWritten ==
    /\ obMarket = "perp"
    /\ WritesLeft /\ obChain.oracle.newest <= ObMaxVersion
    /\ \E price \in ObOraclePrices \ {obChain.oracle.content} :
         obChain' = [obChain EXCEPT !.oracle = Write(@, price)]
    /\ ChainStep

\* The fork of the last write is given up.
ForkSwitched(account) ==
    /\ obChain[account].other.version > 0
    /\ obChain' = [obChain EXCEPT ![account] = Switched(@)]
    /\ ChainStep

-----------------------------------------------------------------------------
(* Publishing.                                                             *)

\* An order as the service reports it; the book is the set of its orders.
OrderOf(o, oraclePrice) ==
    [price |-> IF o.pegged THEN oraclePrice + o.price ELSE o.price,
     quantity |-> o.quantity, owner_pubkey |-> o.owner]

\* The valid orders of a side: a pegged price must be positive.
ValidOrders(side) ==
    {o \in {OrderOf(p, obChain.oracle.content) : p \in obChain[side].content} : o.price > 0}

\* Quantity by price; zero where there is no level.
Levels(orders) ==
    [p \in ObPrices |-> MapThenSumSet(LAMBDA o : o.quantity, {o \in orders : o.price = p})]

\* The levels that vanished, appeared or changed size.
LevelUpdate(prev, cur) ==
    {<<p, Levels(cur)[p]>> : p \in {q \in ObPrices : Levels(cur)[q] # Levels(prev)[q]}}

CheckpointMessages(side, cur, other) ==
    LET book(b, a) == [bids |-> b, asks |-> a]
        both == IF side = "bids" THEN book(cur, other) ELSE book(other, cur) IN
    <<[kind |-> "book_checkpoint", book |-> both],
      [kind |-> "level_checkpoint", book |-> [s \in Sides |-> Levels(both[s])]]>>

LevelMessages(side, prev, cur) ==
    IF LevelUpdate(prev, cur) = {} THEN <<>>
    ELSE <<[kind |-> "level_update", side |-> side, update |-> LevelUpdate(prev, cur)]>>

\* Sent only when orders came and orders went.
BookMessages(side, prev, cur) ==
    IF cur \ prev = {} \/ prev \ cur = {} THEN <<>>
    ELSE <<[kind |-> "book_update", side |-> side, additions |-> cur \ prev,
            removals |-> prev \ cur]>>

PublishChangesUpdatesFirst(side, cur, prev, others) ==
    LevelMessages(side, prev, cur) \o BookMessages(side, prev, cur)
    \o (IF others = {} THEN <<>> ELSE CheckpointMessages(side, cur, CHOOSE o \in others : TRUE))

\* `others`: the other side's cached book, if there is one.
PublishChanges(side, cur, prev, others) ==
    (IF others = {} THEN <<>> ELSE CheckpointMessages(side, cur, CHOOSE o \in others : TRUE))
    \o LevelMessages(side, prev, cur) \o BookMessages(side, prev, cur)

-----------------------------------------------------------------------------
(* The filter task: after something arrived, it looks at both sides of the  *)
(* market.  A state of the task is [seen, cache]: the versions recorded, by *)
(* account, and per side the cached book, as a set of none or one.          *)

\* Whether a side has to be evaluated again.
SideStalePerp(f, side) ==
    \/ obChain[side].version > f.seen[side]
    \/ obChain.oracle.version > f.seen.oracle

SideStaleSerum(f, side) == obChain[side].version > f.seen[side]

SideStale(f, side) ==
    /\ obChain[side].version > 0
    /\ IF obMarket = "perp" THEN obChain.oracle.version > 0 /\ SideStalePerp(f, side)
       ELSE SideStaleSerum(f, side)

\* The orders of a perp market can only be priced with a usable oracle.
Priceable == obMarket = "perp" => obChain.oracle.content # 0

\* Both versions are recorded; then, if the oracle is of use, the side's valid
\* orders are compared with the cached ones.
Evaluated(f, side) ==
    IF ~SideStale(f, side) THEN f
    ELSE [f EXCEPT !.seen[side] = obChain[side].version, !.seen.oracle = obChain.oracle.version,
                   !.cache[side] = IF Priceable THEN {ValidOrders(side)} ELSE @]

SideMessages(f, side) ==
    IF ~SideStale(f, side) \/ ~Priceable \/ f.cache[side] = {} THEN <<>>
    ELSE PublishChanges(side, ValidOrders(side), CHOOSE b \in f.cache[side] : TRUE,
                        f.cache[Other(side)])

\* One pass of the loop over the market: the bids, then the asks.
FilterRound ==
    /\ Len(obChannel) < ObMaxChannel
    /\ \E f \in {Evaluated(obFilter, "bids")} :
         /\ obFilter' = Evaluated(f, "asks")
         /\ obChannel' = obChannel \o SideMessages(obFilter, "bids") \o SideMessages(f, "asks")
    /\ obFilter' # obFilter
    /\ UNCHANGED <<obMarket, obChain, obCheckpoints, obPeers, obClientSteps>>

-----------------------------------------------------------------------------
(* The sink and the clients.                                               *)

ObNewPeer == [connected |-> TRUE, level |-> FALSE, book |-> FALSE,
              levels |-> {}, orders |-> {}]
ObNoPeer == [ObNewPeer EXCEPT !.connected = FALSE]

\* What a client rebuilds: `levels` and `orders` are the books it holds, as
\* sets of none or one (none before a checkpoint).
Applied(peer, m) ==
    CASE m.kind = "level_update" /\ peer.level ->
           [peer EXCEPT !.levels =
              {[b EXCEPT ![m.side] = [p \in ObPrices |->
                    IF \E u \in m.update : u[1] = p
                    THEN (CHOOSE u \in m.update : u[1] = p)[2] ELSE b[m.side][p]]] : b \in @}]
      [] m.kind = "book_update" /\ peer.book ->
           [peer EXCEPT !.orders = {[b EXCEPT ![m.side] = (@ \ m.removals) \cup m.additions] : b \in @}]
      [] OTHER -> peer

BookSink ==
    /\ obChannel # <<>>
    /\ LET m == Head(obChannel) IN
       /\ obPeers' = [p \in DOMAIN obPeers |-> Applied(obPeers[p], m)]
       /\ obCheckpoints' = CASE m.kind = "level_checkpoint" -> [obCheckpoints EXCEPT !.level = {m.book}]
                             [] m.kind = "book_checkpoint" -> [obCheckpoints EXCEPT !.book = {m.book}]
                             [] OTHER -> obCheckpoints
    /\ obChannel' = Tail(obChannel)
    /\ UNCHANGED <<obMarket, obChain, obFilter, obClientSteps>>

ObClientStep ==
    /\ obClientSteps < ObMaxClientSteps /\ obClientSteps' = obClientSteps + 1
    /\ UNCHANGED <<obMarket, obChain, obFilter, obChannel, obCheckpoints>>

ObConnect(p) ==
    /\ ~obPeers[p].connected
    /\ obPeers' = [obPeers EXCEPT ![p] = ObNewPeer]
    /\ ObClientStep

ObDisconnect(p) ==
    /\ obPeers[p].connected
    /\ obPeers' = [obPeers EXCEPT ![p] = ObNoPeer]
    /\ ObClientStep

\* A first subscription is answered with the latest checkpoint, if any.
SubscribeLevel(p) ==
    /\ obPeers[p].connected /\ ~obPeers[p].level
    /\ obPeers' = [obPeers EXCEPT ![p].level = TRUE, ![p].levels = obCheckpoints.level]
    /\ ObClientStep

SubscribeBook(p) ==
    /\ obPeers[p].connected /\ ~obPeers[p].book
    /\ obPeers' = [obPeers EXCEPT ![p].book = TRUE, ![p].orders = obCheckpoints.book]
    /\ ObClientStep

\* Ends a level subscription; there is no way to end a book subscription.
Unsubscribe(p) ==
    /\ obPeers[p].connected /\ obPeers[p].level
    /\ obPeers' = [obPeers EXCEPT ![p].level = FALSE]
    /\ ObClientStep

-----------------------------------------------------------------------------

ObInitAs(kind) ==
    /\ obMarket = kind
    /\ obChain = [a \in Sides \cup {"oracle"} |->
                    LET content == IF a = "oracle" THEN Max(ObOraclePrices) ELSE {}
                        version == IF a = "oracle" /\ kind = "perp" THEN 1 ELSE 0 IN
                    [version |-> version, newest |-> version, content |-> content,
                     other |-> NoVersion]]
    /\ obFilter = [seen |-> [a \in Sides \cup {"oracle"} |-> 0], cache |-> [s \in Sides |-> {}]]
    /\ obChannel = <<>>
    /\ obCheckpoints = [level |-> {}, book |-> {}]
    /\ obPeers = [p \in ObPeerNames |-> ObNewPeer]
    /\ obClientSteps = 0

ObInit == \E kind \in ObKinds : ObInitAs(kind)

ObNext ==
    \/ \E side \in Sides : SideWritten(side)
    \/ OracleWritten \/ FilterRound \/ BookSink
    \/ \E account \in ObForking : ForkSwitched(account)
    \/ \E p \in ObPeerNames : \/ ObConnect(p) \/ ObDisconnect(p)
                              \/ SubscribeLevel(p) \/ SubscribeBook(p) \/ Unsubscribe(p)

ObSpec == ObInit /\ [][ObNext]_obVars

-----------------------------------------------------------------------------
(* Properties.                                                             *)

LevelBook == [Sides -> [ObPrices -> Nat]]

Caught == obChannel = <<>>

\* Whether another pass of the filter would change nothing.
Settled == ~SideStale(obFilter, "bids") /\ ~SideStale(obFilter, "asks")

Recorded(account) == obFilter.seen[account] = obChain[account].version

\* The types of the state: a checkpoint exists only once both sides are cached.
ObTypeOK ==
    /\ obMarket \in ObKinds
    /\ \A a \in Sides \cup {"oracle"} : obFilter.seen[a] \in 0 .. obChain[a].newest
    /\ obCheckpoints.level \subseteq LevelBook
    /\ obCheckpoints.level # {} => \A s \in Sides : obFilter.cache[s] # {}
    /\ \A p \in ObPeerNames : obPeers[p].levels \subseteq LevelBook

\* A client that was sent a level checkpoint and every message since holds
\* the levels of the cached booksides, at whatever point between the
\* messages of a change it subscribed: the checkpoint is stored before the
\* update that leads to it is sent, and an update sets levels outright.
LevelFollowersHoldTheBook ==
    \A p \in ObPeerNames : (obPeers[p].level /\ Caught) =>
      \A b \in obPeers[p].levels : \A s \in Sides : \A c \in obFilter.cache[s] : b[s] = Levels(c)

\* When every message was handled, the two stored checkpoints show the cached
\* booksides: whichever side changed last, the other is taken from the cache.
CheckpointsAreCurrent ==
    Caught => /\ \A b \in obCheckpoints.level : \A s \in Sides : \A c \in obFilter.cache[s] :
                    b[s] = Levels(c)
              /\ \A b \in obCheckpoints.book : \A s \in Sides : \A c \in obFilter.cache[s] : b[s] = c

\* A cached side of which the served version is the recorded one shows the valid
\* orders of the accounts: for a serum market always; for the bids of a perp
\* market if the oracle served is recorded as well, can be used, and is the latest
\* written.  What is missing is missing in the code: see below.
CachedSidesAreCurrent ==
    \A s \in Sides :
      /\ Recorded(s)
      /\ obMarket = "perp" =>
           s = "bids" /\ Recorded("oracle") /\ Priceable /\ obChain.oracle.version = obChain.oracle.newest
      => \A c \in obFilter.cache[s] : c = ValidOrders(s)

\* What the comment "neither bookside nor oracle was updated" on the filter's early
\* exit says: a side it passes over is shown as it is.  It is false in three ways.
\* The pass over the bids records the oracle's version, so the pass over the asks
\* that follows takes the oracle for unchanged.  Versions are recorded before the
\* oracle is read, so a side that came with an unusable oracle is not evaluated, nor
\* tried again.  And after a fork switch the version served is lower than the
\* recorded one, so the account served now is not looked at.
SkippedSidesAreCurrent ==
    Settled => \A s \in Sides : \A c \in obFilter.cache[s] : c = ValidOrders(s)

\* What the service's README says of L3 updates ("Sent per side"), and the
\* code does not do: a client that was sent a book checkpoint and every update
\* since holds the orders.  An update with only additions or only removals is
\* never sent.
BookFollowersHoldTheBook ==
    \A p \in ObPeerNames : (obPeers[p].book /\ Caught) =>
      \A b \in obPeers[p].orders : \A s \in Sides : \A c \in obFilter.cache[s] : b[s] = c

\* Level clients, checkpoints and cached booksides agree with the accounts
\* once messages are handled.
LevelsFollowTheBook ==
  /\ ObTypeOK
  /\ LevelFollowersHoldTheBook
  /\ CheckpointsAreCurrent
  /\ CachedSidesAreCurrent

=============================================================================
