--------------------------- MODULE PositionGuard ---------------------------
(***************************************************************************)
(* Source positions.  An adapter process (opcua-, modbus- or               *)
(* s7-data-subscriber) begins an epoch in its durable ProducerPositions    *)
(* database on each connection and stamps every observation with the epoch *)
(* and the next sequence of its node.  The decision agent (StateTracker)   *)
(* accepts an observation only if it is good, fresh and beyond the         *)
(* high-water mark that ConsumerStore.advance keeps durably.               *)
(*                                                                         *)
(* Between the two lies the telemetry pipeline and an MQTT broker with     *)
(* at-least-once delivery and a retained last message: a published         *)
(* observation may arrive late, again, out of order, or never.             *)
(*                                                                         *)
(* Several adapter processes may share one database: an old process that   *)
(* has not stopped yet and its replacement.  A node has one UNS topic, so  *)
(* the topic of an observation is represented by its node.                 *)
(***************************************************************************)
EXTENDS Integers

CONSTANTS
    Processes,    \* adapter processes sharing one position database
    Nodes,
    Polled,       \* poll loop (Modbus, S7) or subscription callbacks (OPC UA)
    Positioned,   \* observations carry positions, or timestamps only (legacy)
    MaxAge,       \* StateTracker.max_age_s
    MaxTime, MaxEpoch, SequenceLimit    \* bounds

ASSUME PositionAssumption ==
    /\ Polled \in BOOLEAN /\ Positioned \in BOOLEAN
    /\ MaxAge \in Nat /\ MaxTime \in Nat /\ MaxEpoch \in Nat
    /\ SequenceLimit \in Nat

VARIABLES
    now,          \* the wall clock
    changed,      \* source timestamp of the device's current values
    epoch,        \* producer_epoch: the current generation, 0 before the first
    sequence,     \* producer_sequence: the last sequence of each node
    own,          \* ProducerPositions.epoch of each process, 0 if none
    held,         \* observations read from the device, not yet stamped
    published,    \* stamped observations that may still arrive
    position,     \* positions: the consumer's durable high-water marks
    latest        \* StateTracker._latest: timestamps, in memory

positionVars == <<now, changed, epoch, sequence, own, held, published, position, latest>>

producerVars == <<epoch, sequence, own, held, published>>
consumerVars == <<position, latest>>

Unknown == -1     \* no value in _latest

NoPosition == [epoch |-> 0, sequence |-> 0, at |-> 0]

PositionInit ==
    /\ now = 0
    /\ changed = 0
    /\ epoch = 0
    /\ sequence = [n \in Nodes |-> 0]
    /\ own = [p \in Processes |-> 0]
    /\ held = {}
    /\ published = {}
    /\ position = [n \in Nodes |-> NoPosition]
    /\ latest = [n \in Nodes |-> Unknown]

TimePasses ==
    /\ now < MaxTime
    /\ now' = now + 1
    /\ UNCHANGED <<changed, producerVars, consumerVars>>

(* The device's values change.                                             *)
Change ==
    /\ changed' = now
    /\ UNCHANGED <<now, producerVars, consumerVars>>

(***************************************************************************)
(* Adapters.                                                               *)
(***************************************************************************)
(* Fault injection: a new generation keeps the number of the old one.      *)
BeginEpochReusing(p) ==
    /\ epoch < MaxEpoch
    /\ epoch' = IF epoch = 0 THEN 1 ELSE epoch
    /\ own' = [own EXCEPT ![p] = epoch']
    /\ sequence' = [n \in Nodes |-> 0]
    /\ held' = IF Polled THEN {h \in held : h.proc # p} ELSE held
    /\ UNCHANGED <<now, changed, published, consumerVars>>

(* (Re)connection and begin_epoch.  The poll loop that held observations   *)
(* has ended; a callback of the previous OPC UA connection may linger.     *)
BeginEpoch(p) ==
    /\ epoch < MaxEpoch
    /\ epoch' = epoch + 1
    /\ own' = [own EXCEPT ![p] = epoch + 1]
    /\ sequence' = [n \in Nodes |-> 0]
    /\ held' = IF Polled THEN {h \in held : h.proc # p} ELSE held
    /\ UNCHANGED <<now, changed, published, consumerVars>>

RestartAdapter(p) ==
    /\ own[p] # 0
    /\ own' = [own EXCEPT ![p] = 0]
    /\ held' = {h \in held : h.proc # p}
    /\ UNCHANGED <<now, changed, epoch, sequence, published, consumerVars>>

(* An observation is read: a poll stamps it with the time of the read, an  *)
(* OPC UA notification carries the source timestamp and a quality.  The    *)
(* notifications of one connection are handled in turn.                    *)
Sample(p, n, good) ==
    /\ own[p] # 0
    /\ Polled => good
    /\ \A h \in held : ~(h.proc = p /\ h.node = n /\ h.conn = own[p])
    /\ held' = held \cup {[proc |-> p, node |-> n, conn |-> own[p], good |-> good,
                           at |-> IF Polled THEN now ELSE changed]}
    /\ UNCHANGED <<now, changed, epoch, sequence, own, published, consumerVars>>

(* on_message and next: an old connection, and an old generation, is       *)
(* fenced.                                                                 *)
Current(h) == own[h.proc] = h.conn /\ epoch = own[h.proc]

(* _publish: take the next sequence and publish.                           *)
Publish(h) ==
    /\ h \in held /\ Current(h)
    /\ sequence[h.node] < SequenceLimit
    /\ sequence' = [sequence EXCEPT ![h.node] = @ + 1]
    /\ published' = published \cup
          {[node |-> h.node, epoch |-> own[h.proc],
            sequence |-> sequence[h.node] + 1, at |-> h.at, good |-> h.good]}
    /\ held' = held \ {h}
    /\ UNCHANGED <<now, changed, epoch, own, consumerVars>>

(* "producer generation fenced" or "old OPC UA connection fenced": the     *)
(* observation is dropped; a poll loop ends with all that it holds.        *)
Fenced(h) ==
    /\ h \in held /\ ~Current(h)
    /\ held' = IF Polled THEN {g \in held : g.proc # h.proc} ELSE held \ {h}
    /\ UNCHANGED <<now, changed, epoch, sequence, own, published, consumerVars>>

(***************************************************************************)
(* Consumer.                                                               *)
(***************************************************************************)
(* Position a lies before position b.                                      *)
Before(a, b) ==
    \/ a.epoch < b.epoch
    \/ a.epoch = b.epoch /\ a.sequence < b.sequence

(* Fault injection: a new epoch does not outrank the old one's sequence.   *)
AdvanceBySequence(m) ==
    LET old == position[m.node]
    IN  IF m.epoch < old.epoch THEN "old_epoch"
        ELSE IF m.sequence < old.sequence THEN "out_of_order"
        ELSE IF m.epoch # old.epoch \/ m.sequence > old.sequence THEN "accepted"
        ELSE IF m.at = old.at THEN "duplicate" ELSE "position_conflict"

(* ConsumerStore.advance, compared with the stored high-water mark.        *)
Advance(m) ==
    LET old == position[m.node]
    IN  IF Before(old, m) THEN "accepted"
        ELSE IF m.epoch < old.epoch THEN "old_epoch"
        ELSE IF m.sequence < old.sequence THEN "out_of_order"
        ELSE IF m.at = old.at THEN "duplicate" ELSE "position_conflict"

(* Without positions: only a later timestamp than the one in memory.       *)
Legacy(m) == latest[m.node] = Unknown \/ m.at > latest[m.node]

(* StateTracker.update: bad quality, a timestamp in the future and a stale *)
(* one are refused before the position is looked at.                       *)
Fresh(m) == m.good /\ 0 <= now - m.at /\ now - m.at <= MaxAge

Accept(m) ==
    /\ m \in published /\ Fresh(m)
    /\ IF Positioned
         THEN /\ Advance(m) = "accepted"
              /\ position' = [position EXCEPT ![m.node] =
                     [epoch |-> m.epoch, sequence |-> m.sequence, at |-> m.at]]
         ELSE Legacy(m) /\ UNCHANGED position
    /\ latest' = [latest EXCEPT ![m.node] = m.at]
    /\ UNCHANGED <<now, changed, producerVars>>

(* Fault injection: the high-water marks live in memory.                   *)
RestartConsumerForgetting ==
    /\ latest' = [n \in Nodes |-> Unknown]
    /\ position' = [n \in Nodes |-> NoPosition]
    /\ UNCHANGED <<now, changed, producerVars>>

(* A new decision agent: memory is lost, the store is not.                 *)
RestartConsumer ==
    /\ latest' = [n \in Nodes |-> Unknown]
    /\ UNCHANGED <<now, changed, producerVars, position>>

PositionNext ==
    \/ TimePasses \/ Change \/ RestartConsumer
    \/ \E p \in Processes :
          \/ BeginEpoch(p) \/ RestartAdapter(p)
          \/ \E n \in Nodes, good \in BOOLEAN : Sample(p, n, good)
    \/ \E h \in held : Publish(h) \/ Fenced(h)
    \/ \E m \in published : Accept(m)

PositionSpec == PositionInit /\ [][PositionNext]_positionVars

(***************************************************************************)
(* Properties.                                                             *)
(***************************************************************************)
NonZero == Nat \ {0}

Held == [proc : Processes, node : Nodes, conn : NonZero, good : BOOLEAN, at : Nat]

Message == [node : Nodes, epoch : NonZero, sequence : NonZero, at : Nat,
            good : BOOLEAN]

(* Databases, memories and messages hold what the code stores there.       *)
PositionTypeOK ==
    /\ now \in Nat
    /\ changed \in Nat
    /\ epoch \in Nat
    /\ sequence \in [Nodes -> Nat]
    /\ own \in [Processes -> Nat]
    /\ held \subseteq Held
    /\ published \subseteq Message
    /\ position \in [Nodes -> [epoch : Nat, sequence : Nat, at : Nat]]
    /\ latest \in [Nodes -> Nat \cup {Unknown}]

(* Over all processes, reconnections and restarts, a position stands for   *)
(* one observation, and positions of a node are in source order: "position *)
(* conflict" cannot arise and a later position never carries older data.   *)
PositionsFollowSource ==
    \A l, m \in published : l.node = m.node =>
        /\ (l.epoch = m.epoch /\ l.sequence = m.sequence) => l = m
        /\ Before(l, m) => l.at <= m.at

(* Whatever the transport repeats, delays or reorders, and however often   *)
(* the agent restarts, what it accepts moves forward in position and never *)
(* back in source time.                                                    *)
AcceptedInOrder ==
    [][\A n \in Nodes : position'[n] # position[n] =>
          /\ Before(position[n], position'[n])
          /\ position[n].at <= position'[n].at]_positionVars

(* The state the agent decides on is the one at its durable mark: memory   *)
(* and store never disagree, also after a restart.                         *)
LatestIsHighWater ==
    Positioned => \A n \in Nodes : latest[n] # Unknown => latest[n] = position[n].at

(* The guard locks nobody out: the newest observation of the current       *)
(* generation is accepted, or has been already.                            *)
NewestNotRefused ==
    \A m \in published :
        m.epoch = epoch /\ m.sequence = sequence[m.node] =>
            Advance(m) \in {"accepted", "duplicate"}

=============================================================================
