-------------------------------- MODULE Window --------------------------------
(***************************************************************************)
(* The stream processor's sliding window, stream_processor/aggregations:   *)
(* per entity the events of the last Duration of event time, with          *)
(* deduplication by event id and by partition offset, bounds on entities   *)
(* and events, and a sink (Redis or a map) that receives the features of   *)
(* an entity before the window commits to them.                            *)
(*                                                                         *)
(* w.mu is held during a whole call, the sink's Put included, so a call is *)
(* one step.  Times are naturals, 0 is Go's zero time; amounts are         *)
(* naturals and MaxTotal stands for the largest float64.  Entities are     *)
(* naturals in the order of their names.                                   *)
(***************************************************************************)
EXTENDS Integers, Sequences, FiniteSets, FiniteSetsExt, Functions

CONSTANTS
  Duration,              \* Window.Duration
  MaxEntities,           \* Window.maxEntities
  MaxEvents,             \* Window.maxEvents
  MaxTotal,              \* math.MaxFloat64
  MaxTrackedPartitions,
  Inputs,                \* the events callers may pass, in any order, repeated or not
  MaxUnsynced            \* bound: entities whose stored features may not be the window's

ASSUME WindowAssumption ==
  /\ Duration \in Nat \ {0} /\ MaxEntities \in Nat \ {0} /\ MaxEvents \in Nat \ {0}
  /\ MaxTotal \in Nat /\ MaxTrackedPartitions \in Nat /\ MaxUnsynced \in Nat
  /\ \A in \in Inputs : /\ in.entity \in Nat /\ in.at \in Nat
                         /\ in.amount \in Int /\ in.partition \in Int /\ in.offset \in Int

VARIABLES
  byEntity, seen, offsets, watermark, lastActive, eventCount,  \* fields of Window
  sink,       \* the features stored for each entity; nobody deletes them
  unsynced,   \* history: entities whose stored features may not be the window's
  arrived     \* history: what was committed for a tracked entity since it is tracked

windowVars == <<byEntity, seen, offsets, watermark, lastActive, eventCount>>
historyVars == <<unsynced, arrived>>
vars == <<windowVars, sink, historyVars>>

NoId == ""

\* The entry of a map, or the zero value.
Lookup(map, key, zero) == IF key \in DOMAIN map THEN map[key] ELSE zero

\* The map after map[key] = value.
With(map, key, value) ==
  [k \in DOMAIN map \cup {key} |-> IF k = key THEN value ELSE map[k]]

Ids(events) == {events[i].id : i \in DOMAIN events}

\* The sum and the largest of the amounts at the positions inside of events.
Total(events, inside) ==
  FoldFunctionOnSet(LAMBDA x, sum : x.amount + sum, 0, events, inside)
Largest(events, inside) ==
  IF inside = {} THEN 0 ELSE Max({events[i].amount : i \in inside})

InWindow(events, cutoff) == {i \in DOMAIN events : events[i].at >= cutoff}

Features(events, inside, end) ==
  [count |-> Cardinality(inside), total |-> Total(events, inside),
   max |-> Largest(events, inside), end |-> end]

Init ==
  /\ byEntity = <<>> /\ seen = {} /\ offsets = <<>>
  /\ watermark = <<>> /\ lastActive = <<>> /\ eventCount = 0
  /\ sink = <<>>
  /\ unsynced = {} /\ arrived = <<>>

TypeOK ==
  /\ DOMAIN byEntity \subseteq Nat
  /\ \A e \in DOMAIN byEntity : \A i \in DOMAIN byEntity[e] :
       byEntity[e][i] \in [id : seen, at : Nat \ {0}, amount : Nat]
  /\ \A p \in DOMAIN offsets : p \in 0..(MaxTrackedPartitions - 1) /\ offsets[p] \in Nat
  /\ DOMAIN watermark = DOMAIN byEntity /\ lastActive = watermark
  /\ \A e \in DOMAIN watermark : watermark[e] \in Nat \ {0}
  /\ \A e \in DOMAIN sink : sink[e] \in [count : Nat, total : 0..MaxTotal, max : Nat, end : Nat]
  /\ unsynced \subseteq Nat /\ DOMAIN arrived = DOMAIN byEntity

-----------------------------------------------------------------------------
(* prepareLocked: what the event in would change.                          *)

ValidEvent(in) ==
  /\ in.id # NoId
  /\ in.amount >= 0 /\ in.at # 0
  /\ in.partition \in 0..(MaxTrackedPartitions - 1) /\ in.offset >= 0

\* A fault: ids are not consulted, only offsets.
OffsetReplayed(in) == in.offset <= Lookup(offsets, in.partition, -1)

\* A duplicate id or an offset that is not above the partition's last one.
Replayed(in) == in.id \in seen \/ in.offset <= Lookup(offsets, in.partition, -1)

\* The entity with the smallest lastActive; the first by name among equals.
OldestEntity ==
  CHOOSE e \in DOMAIN lastActive : \A f \in DOMAIN lastActive :
    \/ lastActive[e] < lastActive[f]
    \/ lastActive[e] = lastActive[f] /\ e <= f

\* A new entity does not fit.
NoRoom(in) ==
  in.entity \notin DOMAIN watermark /\ Cardinality(DOMAIN watermark) >= MaxEntities

Evicted(in) == IF NoRoom(in) THEN {OldestEntity} ELSE {}

NewWatermark(in) == Max({in.at, Lookup(watermark, in.entity, 0)})

Cutoff(in) == NewWatermark(in) - Duration
Changed(in) == in.at >= Cutoff(in)

Current(in) == Lookup(byEntity, in.entity, <<>>)

\* The events sort.Search leaves out: those at the front that are too old.
First(in) ==
  Cardinality({i \in DOMAIN Current(in) : \A j \in 1..i : Current(in)[j].at < Cutoff(in)})
Expired(in) == Ids(SubSeq(Current(in), 1, First(in)))
Kept(in) == SubSeq(Current(in), First(in) + 1, Len(Current(in)))

\* A fault: the events are not sorted after the append.
AppendOnly(events, x) == Append(events, x)

\* append followed by sort.SliceStable, on a sequence that was sorted.
Insert(events, x) ==
  LET n == Cardinality({i \in DOMAIN events : events[i].at <= x.at})
  IN  SubSeq(events, 1, n) \o <<x>> \o SubSeq(events, n + 1, Len(events))

Events(in) ==
  IF Changed(in)
  THEN Insert(Kept(in), [id |-> in.id, at |-> in.at, amount |-> in.amount])
  ELSE Kept(in)

\* The events that go with the evicted entity.
Released(in) == IF NoRoom(in) THEN Len(byEntity[OldestEntity]) ELSE 0

ProjectedEventCount(in) ==
  eventCount - First(in) - Released(in) + (IF Changed(in) THEN 1 ELSE 0)

\* The errors: an invalid event, ErrStateCapacity, ErrNumericRange.
Refused(in) ==
  \/ ~ValidEvent(in)
  \/ /\ ~Replayed(in)
     /\ \/ ProjectedEventCount(in) > MaxEvents
        \/ Total(Events(in), DOMAIN Events(in)) \notin 0..MaxTotal

Ignored(in) == ValidEvent(in) /\ Replayed(in)
Accepted(in) == ~Refused(in) /\ ~Replayed(in)

\* The sink is called only if the features differ from those it has.
NeedsPut(in) == Changed(in) \/ Expired(in) # {}

Pending(in) == Features(Events(in), DOMAIN Events(in), NewWatermark(in))

-----------------------------------------------------------------------------
(* commitLocked, evictEntityLocked.                                        *)

\* The ids that leave seen.
Forgotten(in) == Expired(in) \cup UNION {Ids(byEntity[e]) : e \in Evicted(in)}

Commit(in) ==
  LET Track(map, value) == With(Restrict(map, DOMAIN map \ Evicted(in)), in.entity, value)
  IN  /\ seen' = (seen \ Forgotten(in)) \cup (IF Changed(in) THEN {in.id} ELSE {})
      /\ offsets' = With(offsets, in.partition, in.offset)
      /\ watermark' = Track(watermark, NewWatermark(in))
      /\ lastActive' = Track(lastActive, NewWatermark(in))
      /\ byEntity' = Track(byEntity, Events(in))
      /\ eventCount' = eventCount - Released(in) + Len(Events(in)) - Len(Current(in))
      /\ arrived' = Track(arrived, Lookup(arrived, in.entity, {}) \cup
                       {[id |-> in.id, at |-> in.at, amount |-> in.amount]})

-----------------------------------------------------------------------------
(* The sink.                                                               *)

\* validateMaterializedFeatures
ValidFeatures(f) == f.count >= 0 /\ f.total >= 0 /\ f.max >= 0 /\ f.max <= f.total

Store(in) == sink' = With(sink, in.entity, Pending(in))

MarkUnsynced(in) ==
  /\ unsynced' = unsynced \cup {in.entity}
  /\ Cardinality(unsynced') <= MaxUnsynced

\* Put succeeds.
Put(in) ==
  /\ ValidFeatures(Pending(in))
  /\ Store(in)
  /\ unsynced' = unsynced \ {in.entity}

\* Put fails: the write did not happen, or it did and only its answer was lost.
PutFails(in) ==
  \/ UNCHANGED <<sink, unsynced>>
  \/ /\ ValidFeatures(Pending(in))
     /\ Store(in)
     /\ MarkUnsynced(in)

-----------------------------------------------------------------------------
(* ApplyAndMaterialize by its outcomes, and Apply.                         *)

\* A replay: no change, no error.
Ignore(in) == Ignored(in) /\ UNCHANGED vars

\* A fault: the window commits even if the sink failed.
CommitAnyway(in) ==
  /\ Accepted(in) /\ NeedsPut(in)
  /\ PutFails(in) /\ Commit(in)

\* An error, from the event or from the sink: the window keeps its state.
Fail(in) ==
  \/ Refused(in) /\ UNCHANGED vars
  \/ /\ Accepted(in) /\ NeedsPut(in)
     /\ PutFails(in)
     /\ UNCHANGED <<windowVars, arrived>>

\* Success: the sink first, then the window.
Materialize(in) ==
  /\ Accepted(in)
  /\ IF NeedsPut(in) THEN Put(in) ELSE UNCHANGED <<sink, unsynced>>
  /\ Commit(in)

\* Apply, for callers without a sink.
Apply(in) ==
  /\ Accepted(in)
  /\ Commit(in)
  /\ IF NeedsPut(in) THEN MarkUnsynced(in) ELSE UNCHANGED unsynced
  /\ UNCHANGED sink

\* Snapshot of a tracked entity: its features at the later of now and its watermark.
Snapshot(e, now) ==
  LET end == Max({now, Lookup(watermark, e, 0)})
      events == Lookup(byEntity, e, <<>>)
  IN  Features(events, InWindow(events, end - Duration), end)

DedupeSize == Cardinality(seen)
EntityCount == Cardinality(DOMAIN watermark)

Next == \E in \in Inputs : Ignore(in) \/ Fail(in) \/ Materialize(in) \/ Apply(in)

Spec == Init /\ [][Next]_vars

-----------------------------------------------------------------------------
(* Properties.                                                             *)

\* The two indexes of the window agree with its events: an id is remembered
\* exactly while an event with it is held, no id is held twice, whatever was
\* redelivered, expired or evicted, and eventCount is the number of events.  Both
\* stay within STREAM_MAX_ENTITIES and STREAM_MAX_EVENTS.
IndexesAgree ==
  /\ TypeOK
  /\ seen = UNION {Ids(byEntity[e]) : e \in DOMAIN byEntity}
  /\ \A d, e \in DOMAIN byEntity : \A i \in DOMAIN byEntity[d], j \in DOMAIN byEntity[e] :
       byEntity[d][i].id = byEntity[e][j].id => d = e /\ i = j
  /\ eventCount = DedupeSize
  /\ EntityCount <= MaxEntities /\ eventCount <= MaxEvents

\* An entity's events are exactly those committed for it since it is tracked
\* that lie in the last Duration before its watermark, in the order of time that
\* sort.Search relies on, however late or out of order they came; a late event
\* does not move the watermark back.
WindowExact ==
  \A e \in DOMAIN byEntity :
    LET events == byEntity[e]
    IN  /\ watermark[e] = Max({x.at : x \in arrived[e]})
        /\ Range(events) = {x \in arrived[e] : x.at >= watermark[e] - Duration}
        /\ \A i \in 2..Len(events) : events[i - 1].at <= events[i].at

\* Unless a write is in doubt, the sink has what Snapshot computes from the
\* window: a failed Put leaves neither of the two ahead of the other.
SinkAgrees ==
  \A e \in DOMAIN byEntity \ unsynced : e \in DOMAIN sink /\ sink[e] = Snapshot(e, 0)

=============================================================================
