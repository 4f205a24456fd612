---------------------------- MODULE FillsFeed ----------------------------
(***************************************************************************)
(* The fills service: it watches the event queue account of a perp         *)
(* market, announces every fill on a websocket and in a database, and      *)
(* revokes the fills of a fork that was abandoned.                         *)
(*                                                                         *)
(* `ffWrites` holds every version of the queue account, on any fork, in    *)
(* the order the validator wrote them; which of them the chain cache       *)
(* serves at a given moment (its best chain) is the cache's choice and is  *)
(* left open.  `ffFilter` is what the filter task remembers of the version *)
(* it processed last, `fillChannel` the messages on their way to the sink, *)
(* `ffPeers` the connected clients and what they believe, `ffCheckpoints`  *)
(* the map the sink fills, and `pg` the database writer: its queue, the    *)
(* batch it works on and the table, rows keyed by sequence number.         *)
(*                                                                         *)
(* Serum markets publish nothing (publish_changes_serum is empty), so one  *)
(* perp market is modelled; markets do not interact.                       *)
(***************************************************************************)
EXTENDS Integers, Sequences, FiniteSets, SequencesExt

CONSTANTS
    QueueLen,        \* MAX_NUM_EVENTS
    FfMaxSeq,        \* bound: sequence numbers on any fork
    FfMaxSlot,       \* bound: slots
    FfMaxWrites,     \* bound: versions of the queue account
    FfStartSeq,      \* events pushed, and consumed, before the service starts
    FfPeerNames, FfAccounts,
    FfTrades,        \* the pairs <<maker, taker>> that trade
    FfCommands,      \* commands a client may send
    FfMaxClientSteps, \* bound: connections, commands and disconnections
    PgBatchSize, PgRetries

ASSUME FillsFeedAssumption ==
    /\ QueueLen \in Nat \ {0} /\ FfStartSeq <= FfMaxSeq /\ PgBatchSize > 0
    /\ FfTrades \subseteq FfAccounts \X FfAccounts

VARIABLES ffWrites, ffFilter, fillChannel, ffPeers, ffCheckpoints, pg, ffClientSteps

ffVars == <<ffWrites, ffFilter, fillChannel, ffPeers, ffCheckpoints, pg, ffClientSteps>>

-----------------------------------------------------------------------------
(* The event queue account.                                                *)

NoOne == <<"none", "none">>

NoEvent == [type |-> "none", seq_num |-> 0, trade |-> NoOne, write |-> 0]

Event(type, seq, trade, w) == [type |-> type, seq_num |-> seq, trade |-> trade, write |-> w]

\* An event's place in the ring.
Idx(seq) == seq % QueueLen

\* One transaction batch: `pops` events consumed, then `pushes` appended.
Pushed(q, pops, pushes, slot, w) ==
    LET seqs == q.seq_num .. q.seq_num + Len(pushes) - 1
        at(i) == CHOOSE s \in seqs : Idx(s) = i
        new(s) == LET e == pushes[s - q.seq_num + 1] IN Event(e.type, s, e.trade, w) IN
    [slot |-> slot, write_version |-> w,
     seq_num |-> q.seq_num + Len(pushes),
     head |-> (q.head + pops) % QueueLen,
     count |-> q.count - pops + Len(pushes),
     buf |-> [i \in 0 .. QueueLen - 1 |->
                  IF \E s \in seqs : Idx(s) = i THEN new(at(i)) ELSE q.buf[i]]]

FirstWrite ==
    [slot |-> 1, write_version |-> 1, seq_num |-> FfStartSeq,
     head |-> Idx(FfStartSeq), count |-> 0,
     buf |-> [i \in 0 .. QueueLen - 1 |->
                IF \E s \in 0 .. FfStartSeq - 1 : Idx(s) = i
                THEN Event("out", CHOOSE s \in 0 .. FfStartSeq - 1 :
                                     /\ Idx(s) = i /\ s + QueueLen >= FfStartSeq, NoOne, 1)
                ELSE NoEvent]]

PushChoices ==
    LET fills == {[type |-> "fill", trade |-> t] : t \in FfTrades}
        one == fills \cup {[type |-> "out", trade |-> NoOne]} IN
    {<<>>} \cup {<<x>> : x \in one} \cup {<<x, f>> : x \in one, f \in fills}

\* The market is used: a new version on top of version `p`.  On top of one
\* that is not the latest, it starts a fork, which is never longer than the
\* ring (a bound: the ring holds 488 events, a fork lasts a few slots).
QueueWritten ==
    /\ Len(ffWrites) < FfMaxWrites
    /\ \E p \in DOMAIN ffWrites, pushes \in PushChoices :
         LET q == ffWrites[p] IN
         \E pops \in 0 .. q.count, slot \in q.slot .. FfMaxSlot :
           /\ pops <= 1 /\ (pops > 0 \/ pushes # <<>>)
           /\ q.count - pops + Len(pushes) <= QueueLen
           /\ q.seq_num + Len(pushes) <= FfMaxSeq
           /\ p # Len(ffWrites) => q.seq_num + QueueLen >= FfMaxSeq
           /\ ffWrites' = Append(ffWrites, Pushed(q, pops, pushes, slot, Len(ffWrites) + 1))
    /\ UNCHANGED <<ffFilter, fillChannel, ffPeers, ffCheckpoints, pg, ffClientSteps>>

-----------------------------------------------------------------------------
(* The filter task.                                                        *)

IsFill(e) == e.type = "fill"

Announce(status, e) == IF IsFill(e) THEN <<[kind |-> "update", status |-> status, fill |-> e]>>
                       ELSE <<>>

\* The versions go forward: by slot, then by write version.
Newer(q, version) ==
    \/ q.slot > version.slot
    \/ q.slot = version.slot /\ q.write_version > version.write_version

\* seq_num = N means that events N - QUEUE_LEN until N - 1 are available.
StartSeqNum(prev, q) ==
    LET last == IF prev.seq_num > q.seq_num THEN prev.seq_num ELSE q.seq_num IN
    IF last > QueueLen THEN last - QueueLen ELSE 0

ChangedEventNewFirst(old, new) == Announce("new", new) \o Announce("revoke", old)

\* An event that differs from what the previous queue held in its place.
ChangedEvent(old, new) == Announce("revoke", old) \o Announce("new", new)

\* What is sent for one event of the queue: it is past the old sequence
\* number, it does not match the old queue, or it was published already.
EventMessages(prev, q, seq) ==
    LET old == prev.buf[Idx(seq)]  new == q.buf[Idx(seq)] IN
    CASE seq >= prev.seq_num -> Announce("new", new)
      [] seq < prev.seq_num /\ old # new -> ChangedEvent(old, new)
      [] OTHER -> <<>>

\* The queue shrank in a fork: the fills past its end are revoked.
DroppedMessages(prev, q) ==
    FlattenSeq([i \in 1 .. prev.seq_num - q.seq_num |->
                  Announce("revoke", prev.buf[Idx(q.seq_num + i - 1)])])

UpdateMessages(prev, q) ==
    LET start == StartSeqNum(prev, q) IN
    FlattenSeq([i \in 1 .. q.seq_num - start |-> EventMessages(prev, q, start + i - 1)])
        \o DroppedMessages(prev, q)

CheckpointOf(prev, q) ==
    [kind |-> "checkpoint",
     events |-> {q.buf[Idx(s)] : s \in {t \in StartSeqNum(prev, q) .. q.seq_num - 1 :
                                          IsFill(q.buf[Idx(t)])}}]

\* The sequence number the next consumed event has, read off the one
\* consumed last, just before the head.
HeadSeqNum(q) == LET e == q.buf[q.head - 1] IN IF e.type = "none" THEN 0 ELSE e.seq_num + 1

HeadMessages(prev, q) ==
    IF q.head = prev.head THEN <<>>
    ELSE <<[kind |-> "head", head_seq_num |-> HeadSeqNum(q), prev_head_seq_num |-> HeadSeqNum(prev)]>>

\* events[head - 1] is out of bounds when a head is at the start of the
\* ring: the task panics after its updates were sent.
HeadAtStart(prev, q) == q.head = 0 \/ prev.head = 0

\* The filter loop: something arrived, and the chain cache serves version
\* `v` of the queue.  The first version is only remembered.
FilterProcess ==
    /\ ffFilter.alive /\ pg.up
    /\ \E v \in DOMAIN ffWrites :
         LET q == ffWrites[v]  prev == ffFilter.queue IN
         /\ ~ffFilter.seen \/ Newer(q, prev)
         /\ IF ffFilter.seen /\ HeadAtStart(prev, q)
            THEN /\ ffFilter' = [ffFilter EXCEPT !.alive = FALSE]
                 /\ fillChannel' = fillChannel \o UpdateMessages(prev, q)
            ELSE /\ ffFilter' = [ffFilter EXCEPT !.seen = TRUE, !.queue = q,
                                     !.base = IF ffFilter.seen THEN @ ELSE q.seq_num]
                 /\ fillChannel' = IF ffFilter.seen
                                   THEN fillChannel \o UpdateMessages(prev, q)
                                        \o HeadMessages(prev, q) \o <<CheckpointOf(prev, q)>>
                                   ELSE fillChannel
    /\ UNCHANGED <<ffWrites, ffPeers, ffCheckpoints, pg, ffClientSteps>>

-----------------------------------------------------------------------------
(* The sink: it hands each message to the peers, the database queue or the  *)
(* checkpoint map.  A client believes in the fills announced to it and not  *)
(* revoked, and in the last head it was told.                               *)

\* To the market, or to an account on either side of the fill.
Subscribed(peer, fill) == peer.market \/ \E i \in 1 .. 2 : fill.trade[i] \in peer.accounts

Told(peer, m) ==
    CASE m.kind = "update" /\ Subscribed(peer, m.fill) ->
           [peer EXCEPT !.fills = IF m.status = "new" THEN @ \cup {m.fill} ELSE @ \ {m.fill}]
      [] m.kind = "head" /\ peer.market /\ peer.head_updates ->
           [peer EXCEPT !.head = m.head_seq_num]
      [] OTHER -> peer

\* The checkpoint map's key is the queue's address; clients ask for the market's.
CheckpointKey == "queue"

SinkMessage ==
    /\ fillChannel # <<>> /\ pg.up
    /\ LET m == Head(fillChannel) IN
       /\ ffPeers' = [p \in DOMAIN ffPeers |-> Told(ffPeers[p], m)]
       /\ pg' = IF m.kind = "update" THEN [pg EXCEPT !.queue = Append(@, m)] ELSE pg
       /\ ffCheckpoints' = IF m.kind = "checkpoint"
                           THEN [ffCheckpoints EXCEPT ![CheckpointKey] = {m.events}]
                           ELSE ffCheckpoints
    /\ fillChannel' = Tail(fillChannel)
    /\ UNCHANGED <<ffWrites, ffFilter, ffClientSteps>>

-----------------------------------------------------------------------------
(* Clients.                                                                *)

NewPeer == [connected |-> TRUE, market |-> FALSE, accounts |-> {}, head_updates |-> FALSE,
            fills |-> {}, head |-> -1, early |-> FALSE]
NoPeer == [NewPeer EXCEPT !.connected = FALSE]

\* A subscription to a market sends its checkpoint, when the map has one.
SentCheckpoint(peer) == UNION ffCheckpoints["market"] \cup peer.fills

\* A subscription names markets, accounts or neither (all markets).
SubscribeCommand(peer, c) ==
    LET wildcard == ~c.market /\ c.accounts = {}
        named == IF c.market /\ ~peer.market
                 THEN [peer EXCEPT !.market = TRUE, !.fills = SentCheckpoint(peer)] ELSE peer
        accounts == [named EXCEPT !.accounts = @ \cup c.accounts,
                                  !.market = @ \/ wildcard] IN
    [accounts EXCEPT !.head_updates = CASE c.head_updates = "keep" -> @
                                        [] c.head_updates = "on" -> TRUE
                                        [] OTHER -> FALSE]

UnsubscribeCommand(peer) == [peer EXCEPT !.market = FALSE]

ClientStep == pg.up /\ ffClientSteps < FfMaxClientSteps /\ ffClientSteps' = ffClientSteps + 1

\* A command under the lock on the peer map; what a client believed of a
\* market it left is its own business.
HandleCommand ==
    /\ \E p \in DOMAIN ffPeers, c \in FfCommands :
         /\ ffPeers[p].connected
         /\ LET q == IF c.command = "subscribe" THEN SubscribeCommand(ffPeers[p], c)
                     ELSE UnsubscribeCommand(ffPeers[p]) IN
            ffPeers' = [ffPeers EXCEPT ![p] =
              [q EXCEPT !.early =
                   \/ @ /\ q.market = ffPeers[p].market /\ q.accounts = ffPeers[p].accounts
                   \/ ~ffFilter.seen /\ (q.market \/ q.accounts # {})]]
    /\ ClientStep
    /\ UNCHANGED <<ffWrites, ffFilter, fillChannel, ffCheckpoints, pg>>

Connect(p) ==
    /\ ~ffPeers[p].connected
    /\ ffPeers' = [ffPeers EXCEPT ![p] = NewPeer]
    /\ ClientStep
    /\ UNCHANGED <<ffWrites, ffFilter, fillChannel, ffCheckpoints, pg>>

Disconnect(p) ==
    /\ ffPeers[p].connected
    /\ ffPeers' = [ffPeers EXCEPT ![p] = NoPeer]
    /\ ClientStep
    /\ UNCHANGED <<ffWrites, ffFilter, fillChannel, ffCheckpoints, pg>>

-----------------------------------------------------------------------------
(* The database writer, with the one connection the shipped configuration   *)
(* gives it.                                                               *)

PgTake ==
    /\ pg.batch = <<>> /\ pg.queue # <<>> /\ pg.up
    /\ \E n \in 1 .. PgBatchSize :
         /\ n <= Len(pg.queue)
         /\ pg' = [pg EXCEPT !.batch = SubSeq(pg.queue, 1, n),
                             !.queue = SubSeq(pg.queue, n + 1, Len(pg.queue))]
    /\ UNCHANGED <<ffWrites, ffFilter, fillChannel, ffPeers, ffCheckpoints, ffClientSteps>>

\* INSERT ... ON CONFLICT (market, seq_num) DO NOTHING, or DELETE by key.
ProcessUpdate(table, m) ==
    IF m.status = "new"
    THEN IF \E r \in table : r.seq_num = m.fill.seq_num THEN table ELSE table \cup {m.fill}
    ELSE {r \in table : r.seq_num # m.fill.seq_num}

\* The statements that failed are tried again.
RetriedBatch(batch, failed) ==
    FlattenSeq([i \in 1 .. Len(batch) |-> IF i \in failed THEN <<batch[i]>> ELSE <<>>])

\* The batch runs; some statements may fail (the connection, the server).
\* After too many retries the process exits.
PgRun ==
    /\ pg.batch # <<>> /\ pg.up
    /\ \E failed \in SUBSET (1 .. Len(pg.batch)) :
         LET done == RetriedBatch(pg.batch, (1 .. Len(pg.batch)) \ failed)
             rest == RetriedBatch(pg.batch, failed) IN
         pg' = [pg EXCEPT !.table = FoldLeft(ProcessUpdate, @, done),
                          !.batch = rest,
                          !.errors = IF rest = <<>> THEN 0 ELSE @ + 1,
                          !.up = rest = <<>> \/ pg.errors < PgRetries]
    /\ UNCHANGED <<ffWrites, ffFilter, fillChannel, ffPeers, ffCheckpoints, ffClientSteps>>

-----------------------------------------------------------------------------

FfInit ==
    /\ ffWrites = <<FirstWrite>>
    /\ ffFilter = [alive |-> TRUE, seen |-> FALSE, queue |-> FirstWrite, base |-> 0]
    /\ fillChannel = <<>>
    /\ ffPeers = [p \in FfPeerNames |-> NoPeer]
    /\ ffCheckpoints = [k \in {"queue", "market"} |-> {}]
    /\ pg = [queue |-> <<>>, batch |-> <<>>, table |-> {}, errors |-> 0, up |-> TRUE]
    /\ ffClientSteps = 0

FfNext ==
    \/ QueueWritten \/ FilterProcess \/ SinkMessage \/ HandleCommand
    \/ \E p \in FfPeerNames : Connect(p) \/ Disconnect(p)
    \/ PgTake \/ PgRun

FfSpec == FfInit /\ [][FfNext]_ffVars

-----------------------------------------------------------------------------
(* Properties.                                                             *)

Fills(q) == {q.buf[i] : i \in {j \in DOMAIN q.buf : IsFill(q.buf[j])}}

\* The fills of the processed queue the service is answerable for: pushed
\* since it started, and still in the ring.
CurrentFills == {e \in Fills(ffFilter.queue) :
                   /\ e.seq_num >= ffFilter.base
                   /\ e.seq_num < ffFilter.queue.seq_num
                   /\ e.seq_num + QueueLen >= ffFilter.queue.seq_num}

\* Of what a client or the table holds: the part the ring can still tell.
InRing(fills) == {e \in fills : /\ e.seq_num >= ffFilter.base
                                /\ e.seq_num + QueueLen >= ffFilter.queue.seq_num}

\* The types of the state; the queue's events sit where their number says.
FfTypeOK ==
    /\ Len(ffWrites) \in 1 .. FfMaxWrites
    /\ \A w \in DOMAIN ffWrites :
         /\ ffWrites[w].count \in 0 .. QueueLen /\ ffWrites[w].head \in 0 .. QueueLen - 1
         /\ \A i \in DOMAIN ffWrites[w].buf :
              ffWrites[w].buf[i] = NoEvent \/ Idx(ffWrites[w].buf[i].seq_num) = i
    /\ ffFilter.alive \in BOOLEAN /\ ffFilter.seen \in BOOLEAN
    /\ \A p \in FfPeerNames : ffPeers[p].accounts \subseteq FfAccounts
    /\ Cardinality({r.seq_num : r \in pg.table}) = Cardinality(pg.table)
    /\ pg.errors \in 0 .. PgRetries + 1 /\ Len(pg.batch) <= PgBatchSize

\* A client that follows the market (or an account) from before the first
\* announcement, and has been sent everything, believes exactly in the fills
\* of the queue (or those the account has a side of), whatever forks the queue went
\* through: publish_changes_perp revokes what a fork replaced or dropped and
\* announces each fill of the version it processed.
FollowersHoldTheQueue ==
    \A p \in FfPeerNames :
      (ffPeers[p].early /\ ffFilter.alive /\ fillChannel = <<>>) =>
        InRing(ffPeers[p].fills) = {e \in CurrentFills : Subscribed(ffPeers[p], e)}

\* Once its queue is drained, the table holds the fills of the processed
\* queue, one row each, although an insert gives way to an old row and a
\* statement may fail and be repeated: with one connection and batches of one
\* statement the revocation of a fill always runs before its replacement.
TableHoldsTheQueue ==
    (ffFilter.alive /\ fillChannel = <<>> /\ pg.queue = <<>> /\ pg.batch = <<>>) =>
        InRing(pg.table) = CurrentFills

\* The head told to clients is the number of the first event not consumed,
\* read off the event before the head: right as long as the ring is not full,
\* for then that place holds the newest event instead.
HeadsAreRight ==
    \A i \in DOMAIN fillChannel :
      (fillChannel[i].kind = "head" /\ i = Len(fillChannel) - 1 /\ ffFilter.alive
         /\ ffFilter.queue.count < QueueLen) =>
        fillChannel[i].head_seq_num = ffFilter.queue.seq_num - ffFilter.queue.count

\* What the module's documentation promises and the code does not keep: a
\* client that subscribes to a market by name is sent the latest checkpoint.
\* The map is filled under the queue's address and read under the market's.
SubscribersGetCheckpoints == \A k \in {"queue"} : ffCheckpoints[k] = ffCheckpoints["market"]

\* Also not kept: the filter task survives every version of the queue.
FilterSurvives == ffFilter.alive

\* Clients, the table of fills and the announced heads agree with the event
\* queue once messages are handled, whatever forks it went through.
FillsFollowTheQueue ==
  /\ FfTypeOK
  /\ FollowersHoldTheQueue
  /\ TableHoldsTheQueue
  /\ HeadsAreRight

=============================================================================
