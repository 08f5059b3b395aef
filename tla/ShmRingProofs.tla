--------------------------- MODULE ShmRingProofs ---------------------------
(* Proofs about ShmRing: its inductive invariant and what follows from it. *)
EXTENDS ShmRingInvariant, FiniteSetTheorems, TLAPS
-----------------------------------------------------------------------------
(* Slot arithmetic.  After this section Slot stays folded: the proofs use  *)
(* only SlotType, SlotGap and SlotLap.                                     *)

\* A multiple of Capacity that is greater than another is so by a whole lap.
LEMMA LapGap ==
  ASSUME NEW k \in Nat, NEW m \in Nat, Capacity * k < Capacity * m
  PROVE  Capacity * k + Capacity <= Capacity * m
<1>1. k < m
  BY RingAssumption, SMTT(20)
<1>2. k + 1 <= m
  BY <1>1
<1>3. Capacity * (k + 1) <= Capacity * m
  BY <1>2, RingAssumption, SMTT(20)
<1> QED
  BY <1>3, RingAssumption

\* Division with remainder by Capacity.
LEMMA Division ==
  ASSUME NEW q \in Nat
  PROVE  /\ q \div Capacity \in Nat
         /\ Slot(q) \in 0 .. Capacity - 1
         /\ q = Capacity * (q \div Capacity) + Slot(q)
<1>1. q \div Capacity \in Nat
  BY RingAssumption, Z3
<1>2. q % Capacity \in 0 .. Capacity - 1
  BY RingAssumption, Z3
<1>3. q = Capacity * (q \div Capacity) + (q % Capacity)
  BY RingAssumption, Z3
<1> QED
  BY <1>1, <1>2, <1>3 DEF Slot

\* slot_at stays within the slot array.
LEMMA SlotType ==
  ASSUME NEW q \in Nat
  PROVE  Slot(q) \in Slots
BY Division DEF Slots

\* Two different positions of one slot are at least a lap apart.
LEMMA SlotGap ==
  ASSUME NEW a \in Nat, NEW b \in Nat, Slot(a) = Slot(b), a < b
  PROVE  a + Capacity <= b
<1> DEFINE k == a \div Capacity
           m == b \div Capacity
<1>1. k \in Nat /\ m \in Nat /\ a = Capacity * k + Slot(a) /\ b = Capacity * m + Slot(a)
  BY Division
<1>2. Slot(a) \in Int
  BY Division
<1>3. Capacity * k \in Int /\ Capacity * m \in Int /\ Capacity \in Int
  BY <1>1, RingAssumption
<1> HIDE DEF k, m
<1>4. Capacity * k < Capacity * m
  BY <1>1, <1>2, <1>3
<1>5. Capacity * k + Capacity <= Capacity * m
  BY <1>1, <1>4, LapGap
<1> QED
  BY <1>1, <1>2, <1>3, <1>5

\* A position and its successor one lap later share a slot.
LEMMA SlotLap ==
  ASSUME NEW q \in Nat
  PROVE  Slot(q + Capacity) = Slot(q)
<1> DEFINE d == q \div Capacity
           k == d + 1
           n == q + Capacity
           m == n \div Capacity
<1>1. Capacity \in Nat /\ n \in Nat
  BY RingAssumption
<1>2. k \in Nat /\ n = Capacity * k + Slot(q) /\ Slot(q) \in 0 .. Capacity - 1
  <2>1. d \in Nat /\ q = Capacity * d + Slot(q) /\ Slot(q) \in 0 .. Capacity - 1
    BY Division
  <2> HIDE DEF d
  <2>2. Capacity * (d + 1) = Capacity * d + Capacity /\ Capacity * d \in Int
    BY <1>1, <2>1
  <2> QED
    BY <1>1, <2>1, <2>2
<1>3. m \in Nat /\ n = Capacity * m + Slot(n) /\ Slot(n) \in 0 .. Capacity - 1
  BY <1>1, Division
<1> HIDE DEF d, k, n, m
<1>4. Capacity * k \in Int /\ Capacity * m \in Int
  BY <1>1, <1>2, <1>3
<1>5. ~(Capacity * k < Capacity * m)
  BY <1>1, <1>2, <1>3, <1>4, LapGap
<1>6. ~(Capacity * m < Capacity * k)
  BY <1>1, <1>2, <1>3, <1>4, LapGap
<1>7. Slot(n) = Slot(q)
  BY <1>1, <1>2, <1>3, <1>4, <1>5, <1>6
<1> QED
  BY <1>7 DEF n

\* Positions of one slot that are less than a lap apart are the same.
LEMMA SlotNear ==
  ASSUME NEW a \in Nat, NEW b \in Nat, Slot(a) = Slot(b), a <= b, b <= a + 3
  PROVE  a = b
BY SlotGap, RingAssumption

\* On the first lap a slot has the number of its position.
LEMMA SlotSmall ==
  ASSUME NEW i \in Slots
  PROVE  i \in Nat /\ Slot(i) = i
<1>1. i \in Nat /\ i < Capacity
  BY RingAssumption DEF Slots
<1>2. i % Capacity = i
  BY <1>1, RingAssumption, Z3
<1> QED
  BY <1>1, <1>2 DEF Slot
-----------------------------------------------------------------------------
(* The initial states.                                                     *)

\* The invariant holds in a segment that initialize_segment has just prepared.
LEMMA InitIInv == Init => IInv
<1> SUFFICES ASSUME Init PROVE IInv
  OBVIOUS
<1> USE RingAssumption DEF Init
<1>1. TypeOK
  <2>1. slot \in [Slots -> SlotFields]
    BY DEF SlotFields, RequestIds, Statuses
  <2>2. seq \in [Slots -> Nat] /\ ready \in 0 .. ReadyModulus - 1
    BY SlotSmall
  <2>3. pc \in [Producers -> Labels] /\ pos \in [Producers -> Nat] /\ dpc \in DaemonLabels
    BY DEF Labels, DaemonLabels
  <2>4. staged \in Seq(Slots) /\ plan \in Seq(PlanEntries)
    OBVIOUS
  <2> QED
    BY <2>1, <2>2, <2>3, <2>4, Zenon DEF TypeOK
<1>2. ThreadWord
  BY DEF ThreadWord, ThreadWordOf, Owning, Unpublished, Published
<1>3. Distinct /\ ReclaimWord
  BY DEF Distinct, ReclaimWord, Owning, Unpublished, Published
<1>4. SlotWord
  BY SlotSmall DEF SlotWord, Slots
<1>5. CursorWord /\ BatchShape
  BY DEF CursorWord, BatchShape, Taken
<1>6. Content
  BY DEF Content, ContentOf, InFlight
<1> QED
  BY <1>1, <1>2, <1>3, <1>4, <1>5, <1>6 DEF IInv
-----------------------------------------------------------------------------
(* The gateway's threads.                                                  *)

\* A step of one thread that touches no word of the segment keeps the invariant
\* if the thread gives up its position, or keeps a published one and has looked
\* at the word as its new label demands.
LEMMA MoveIInv ==
  ASSUME IInv, NEW p \in Producers, NEW label \in Labels, NEW n \in Nat,
         Goto(p, label), pos' = [pos EXCEPT ![p] = n], submitted' \in Nat,
         UNCHANGED <<segmentVars, reclaimVars, daemonVars>>,
         label \in Owning =>
           label \in Published /\ pc[p] \in Published /\ n = pos[p],
         label \in {"respond", "release"} => seq[Slot(n)] = n + 2,
         label \in {"loadseq", "cas"} => n <= enqueue,
         label = "cas" => seq[Slot(n)] = n,
         label \notin {"tx_count", "wait"},
         label = "respond" => pc[p] = "wait"
  PROVE  IInv'
<1> USE DEF Goto, segmentVars, reclaimVars, daemonVars
<1>1. TypeOK'
  BY DEF IInv, TypeOK
<1>2. ThreadWord'
  BY SMTT(30) DEF IInv, TypeOK, ThreadWord, ThreadWordOf, Owning, Unpublished, Published
<1>3. Distinct'
  BY DEF IInv, TypeOK, Distinct, Owning, Unpublished, Published
<1>4. ReclaimWord' /\ SlotWord' /\ CursorWord' /\ BatchShape'
  BY DEF IInv, ReclaimWord, SlotWord, CursorWord, BatchShape, Taken
<1>5. Content'
  BY SMTT(30) DEF IInv, TypeOK, Content, ContentOf, InFlight, RequestId, Owning, Unpublished, Published
<1> QED
  BY <1>1, <1>2, <1>3, <1>4, <1>5 DEF IInv

\* The calls of submit() and reserve_slot up to the compare-exchange, and the
\* looks at the slot's word while a thread waits or hands its slot off.
LEMMA ThreadMovesIInv ==
  ASSUME IInv, NEW p \in Producers,
         \/ Submit(p) \/ ReserveTimeout(p) \/ ReserveLoad(p) \/ ReserveCompare(p)
         \/ SeeResponse(p) \/ WaitTimeout(p) \/ ReadResponse(p) \/ Handoff(p)
  PROVE  IInv'
<1> USE DEF Forget, Labels, Owning, Reserving, Unpublished, Published
<1>1. TypeOK /\ ThreadWord /\ pos[p] \in Nat /\ enqueue \in Nat /\ submitted \in Nat
      /\ pos = [pos EXCEPT ![p] = pos[p]]
  BY DEF IInv, TypeOK
<1>2. CASE Submit(p)
  BY <1>1, <1>2, MoveIInv DEF Submit
<1>3. CASE ReserveTimeout(p)
  BY <1>1, <1>3, MoveIInv, Zenon DEF ReserveTimeout
<1>4. CASE ReserveLoad(p)
  BY <1>1, <1>4, MoveIInv DEF ReserveLoad
<1>5. CASE ReserveCompare(p)
  BY <1>1, <1>5, MoveIInv DEF ReserveCompare, ThreadWord, ThreadWordOf
<1>6. CASE SeeResponse(p)
  BY <1>1, <1>6, MoveIInv DEF SeeResponse, Completed
<1>7. CASE WaitTimeout(p)
  BY <1>1, <1>7, MoveIInv DEF WaitTimeout
<1>8. CASE ReadResponse(p)
  BY <1>1, <1>8, MoveIInv DEF ReadResponse, ThreadWord, ThreadWordOf
<1>9. CASE Handoff(p)
  BY <1>1, <1>9, MoveIInv DEF Handoff, Completed
<1> QED
  BY <1>2, <1>3, <1>4, <1>5, <1>6, <1>7, <1>8, <1>9

\* The word of a slot someone holds names the position that is held.
LEMMA HeldWord ==
  ASSUME IInv, NEW p \in Producers, pc[p] \in Owning
  PROVE  /\ pos[p] \in Nat /\ pos[p] < enqueue /\ Slot(pos[p]) \in Slots
         /\ seq[Slot(pos[p])] \in pos[p] .. pos[p] + 2
<1>1. pos[p] \in Nat /\ pos[p] < enqueue /\ Slot(pos[p]) \in Slots
  BY SlotType DEF IInv, TypeOK, ThreadWord, ThreadWordOf
<1>2. CASE pc[p] \in Unpublished
  BY <1>1, <1>2 DEF IInv, ThreadWord, ThreadWordOf
<1>3. CASE pc[p] \in Published
  BY <1>1, <1>3 DEF IInv, ThreadWord, ThreadWordOf
<1> QED
  BY <1>1, <1>2, <1>3 DEF Owning

\* Two threads never hold positions of the same slot ...
LEMMA OwnersApart ==
  ASSUME IInv, NEW p \in Producers, NEW r \in Producers, p # r,
         pc[p] \in Owning, pc[r] \in Owning
  PROVE  Slot(pos[p]) # Slot(pos[r])
<1>1. pos[p] # pos[r]
  BY DEF IInv, Distinct
<1>2. SUFFICES ASSUME Slot(pos[p]) = Slot(pos[r]) PROVE FALSE
  OBVIOUS
<1>3. pos[p] <= pos[r] + 2 /\ pos[r] <= pos[p] + 2
  BY <1>2, HeldWord
<1> QED
  BY <1>1, <1>2, <1>3, HeldWord, SlotNear

\* ... nor do a thread and the reclaimer ...
LEMMA ReclaimApart ==
  ASSUME IInv, NEW p \in Producers, pc[p] \in Owning, NEW q \in pending \cup outstanding
  PROVE  Slot(pos[p]) # Slot(q)
<1>1. q \in Nat /\ seq[Slot(q)] \in {q + 1, q + 2} /\ pos[p] # q
  BY DEF IInv, TypeOK, ReclaimWord, Distinct
<1>2. SUFFICES ASSUME Slot(pos[p]) = Slot(q) PROVE FALSE
  OBVIOUS
<1>3. pos[p] <= q + 2 /\ q <= pos[p] + 2
  BY <1>1, <1>2, HeldWord
<1> QED
  BY <1>1, <1>2, <1>3, HeldWord, SlotNear

\* ... and the reclaimer holds no slot twice.
LEMMA ReclaimedApart ==
  ASSUME IInv, NEW q \in pending \cup outstanding, NEW r \in pending \cup outstanding,
         Slot(q) = Slot(r)
  PROVE  q = r
<1>1. q \in Nat /\ r \in Nat
  BY DEF IInv, TypeOK
<1>2. seq[Slot(q)] \in {q + 1, q + 2} /\ seq[Slot(r)] \in {r + 1, r + 2}
  BY DEF IInv, ReclaimWord
<1>3. q <= r + 2 /\ r <= q + 2
  BY <1>1, <1>2
<1> QED
  BY <1>1, <1>3, SlotNear

\* What process_batch is about to store belongs to a position it has taken.
LEMMA PlanWord ==
  ASSUME IInv, dpc \in {"write", "store"}, NEW k \in 1 .. Len(plan)
  PROVE  /\ plan[k].position \in Nat /\ plan[k].position < dequeue
         /\ plan[k].slot = Slot(plan[k].position) /\ plan[k].slot \in Slots
         /\ seq[plan[k].slot] = plan[k].position + 1
<1>1. plan \in Seq(PlanEntries) /\ dequeue \in Nat /\ Len(plan) \in Nat
  BY DEF IInv, TypeOK
<1>2. plan[k] \in PlanEntries
  BY <1>1
<1>3. plan[k].position = dequeue - Len(plan) + k - 1 /\ plan[k].slot = Slot(plan[k].position)
  BY DEF IInv, BatchShape
<1>4. plan[k].position \in dequeue - Taken .. dequeue - 1
  BY <1>1, <1>3 DEF Taken
<1> QED
  BY <1>2, <1>3, <1>4, <1>1 DEF IInv, CursorWord, PlanEntries

\* A thread that has not published holds no slot of the batch.
LEMMA PlanApart ==
  ASSUME IInv, dpc \in {"write", "store"}, NEW k \in 1 .. Len(plan),
         NEW q \in Nat, seq[Slot(q)] = q \/ seq[Slot(q)] = q + 2
  PROVE  plan[k].slot # Slot(q)
<1>1. SUFFICES ASSUME plan[k].slot = Slot(q) PROVE FALSE
  OBVIOUS
<1>2. q = plan[k].position + 1 \/ q + 1 = plan[k].position
  BY <1>1, PlanWord
<1> QED
  BY <1>1, <1>2, PlanWord, SlotNear

\* reserve_slot's exchange: the claimed position is newer than every other one,
\* and the word seen before the exchange is still there.
LEMMA ReserveCasIInv ==
  ASSUME IInv, NEW p \in Producers, ReserveCas(p)
  PROVE  IInv'
<1>1. CASE Forget(p, "reserve") /\ UNCHANGED enqueue
  BY <1>1, MoveIInv, Zenon DEF ReserveCas, Forget, IInv, TypeOK, segmentVars, Labels, Owning,
       Reserving, Unpublished, Published
<1>2. CASE CasMatches(p) /\ enqueue' = enqueue + 1 /\ Goto(p, "held") /\ UNCHANGED pos
  <2> USE <1>2 DEF ReserveCas, CasMatches, Goto, reclaimVars, daemonVars
  <2>1. TypeOK'
    BY SMTT(30) DEF IInv, TypeOK, Labels, Owning, Unpublished
  <2>2. ThreadWord'
    <3> SUFFICES ASSUME NEW r \in Producers PROVE ThreadWordOf(r)'
      BY DEF ThreadWord, ThreadWordOf
    <3>1. CASE r = p
      BY <3>1 DEF IInv, TypeOK, ThreadWord, ThreadWordOf, Owning, Unpublished, Published
    <3>2. CASE r # p
      BY <3>2 DEF IInv, TypeOK, ThreadWord, ThreadWordOf
    <3> QED
      BY <3>1, <3>2
  <2>3. Distinct'
    BY DEF IInv, TypeOK, Distinct, ThreadWord, ThreadWordOf, ReclaimWord, Owning, Unpublished, Published
  <2>4. ReclaimWord' /\ SlotWord'
    <3>1. seq \in [Slots -> Nat] /\ enqueue \in Nat /\ pending \cup outstanding \in SUBSET Nat
      BY DEF IInv, TypeOK
    <3>2. ReclaimWord'
      BY <3>1 DEF IInv, ReclaimWord
    <3>3. SlotWord'
      BY <3>1, RingAssumption DEF IInv, SlotWord
    <3> QED
      BY <3>2, <3>3
  <2>5. CursorWord' /\ BatchShape'
    <3>1. Taken' = Taken /\ enqueue \in Nat /\ dequeue \in Nat
      BY DEF IInv, TypeOK, Taken
    <3>2. seq[Slot(enqueue)] = enqueue
      BY DEF IInv, ThreadWord, ThreadWordOf
    <3>3. CursorWord'
      BY <3>1, <3>2 DEF IInv, CursorWord
    <3>4. BatchShape'
      BY DEF IInv, BatchShape
    <3> QED
      BY <3>3, <3>4
  <2>6. Content'
    BY DEF IInv, TypeOK, Content, ContentOf, InFlight, RequestId
  <2> QED
    BY <2>1, <2>2, <2>3, <2>4, <2>5, <2>6 DEF IInv
<1> QED
  BY <1>1, <1>2 DEF ReserveCas

\* The plain fields of a request or a cancellation: only the owner's slot
\* changes, and its word says that the daemon has not taken it.
LEMMA WriteIInv ==
  ASSUME IInv, NEW p \in Producers, WriteRequest(p) \/ WriteCancel(p)
  PROVE  IInv'
<1> USE DEF WriteRequest, WriteCancel, Goto, reclaimVars, daemonVars
<1>1. TypeOK'
  <2>1. Slot(pos[p]) \in Slots /\ RequestId(p) \in RequestIds
    BY SlotType DEF IInv, TypeOK, RequestIds, RequestId
  <2>2. slot' \in [Slots -> SlotFields]
    <3>1. slot \in [Slots -> SlotFields]
      BY DEF IInv, TypeOK
    <3>2. \A e \in BOOLEAN, s \in Statuses : [empty |-> e, id |-> RequestId(p), status |-> s] \in SlotFields
      BY <2>1 DEF SlotFields
    <3>3. "incomplete" \in Statuses /\ "cancelled" \in Statuses
      BY SMTT(30) DEF Statuses
    <3> QED
      BY <2>1, <3>1, <3>2, <3>3, Zenon
  <2>3. pc' \in [Producers -> Labels]
    BY Zenon DEF IInv, TypeOK, Labels, Owning, Unpublished
  <2> QED
    BY <2>2, <2>3, Zenon DEF IInv, TypeOK
<1>2. ThreadWord'
  BY SMTT(30) DEF IInv, TypeOK, ThreadWord, ThreadWordOf, Owning, Unpublished, Published
<1>3. Distinct'
  BY ZenonT(60) DEF IInv, TypeOK, Distinct, Owning, Unpublished, Published
<1>4. ReclaimWord' /\ SlotWord' /\ CursorWord'
  BY DEF IInv, ReclaimWord, SlotWord, CursorWord, Taken
<1>5. BatchShape'
  <2>1. pos[p] \in Nat /\ seq[Slot(pos[p])] = pos[p]
    BY DEF IInv, TypeOK, ThreadWord, ThreadWordOf, Unpublished
  <2>2. ASSUME dpc \in {"write", "store"}, NEW k \in 1 .. Len(plan)
        PROVE  slot'[plan[k].slot] = slot[plan[k].slot]
    BY <2>1, <2>2, PlanApart, PlanWord, Zenon DEF IInv, TypeOK
  <2>3. dpc \in {"write", "store"} => 1 \in 1 .. Len(plan)
    BY SMTT(30) DEF IInv, TypeOK, BatchShape
  <2> QED
    BY <2>2, <2>3 DEF IInv, BatchShape
<1>6. Content'
  <2> SUFFICES ASSUME NEW r \in Producers PROVE ContentOf(r)'
    BY SMTT(30) DEF Content
  <2>1. Slot(pos[p]) \in Slots /\ pos[p] \in Nat /\ seq[Slot(pos[p])] = pos[p]
    BY SlotType, SMTT(30) DEF IInv, TypeOK, ThreadWord, ThreadWordOf, Unpublished
  <2>2. CASE r = p
    BY <2>1, <2>2, SMTT(30) DEF IInv, TypeOK, ContentOf, InFlight, RequestId
  <2>3. CASE r # p
    <3>1. ContentOf(r) /\ pc'[r] = pc[r]
      BY <2>3 DEF IInv, TypeOK, Content
    <3>2. ASSUME pc[r] \in InFlight PROVE slot'[Slot(pos[r])] = slot[Slot(pos[r])]
      <4>1. Slot(pos[r]) # Slot(pos[p])
        BY <2>3, <3>2, OwnersApart, SMTT(30) DEF InFlight, Owning, Unpublished, Published
      <4> QED
        BY <2>1, <4>1, SlotType, Zenon DEF IInv, TypeOK
    <3> QED
      BY <3>1, <3>2, SMTT(30) DEF ContentOf, RequestId
  <2> QED
    BY <2>2, <2>3
<1> QED
  BY <1>1, <1>2, <1>3, <1>4, <1>5, <1>6 DEF IInv

\* The increment of ready_count.
LEMMA CountReadyIInv ==
  ASSUME IInv, NEW p \in Producers, CountReady(p)
  PROVE  IInv'
<1> USE DEF CountReady, Goto, reclaimVars, daemonVars
<1>1. TypeOK'
  BY RingAssumption, SMTT(30) DEF IInv, TypeOK, Labels, Owning, Published
<1>2. ThreadWord'
  BY SMTT(30) DEF IInv, TypeOK, ThreadWord, ThreadWordOf, Owning, Unpublished, Published
<1>3. Distinct'
  BY DEF IInv, TypeOK, Distinct, Owning, Unpublished, Published
<1>4. ReclaimWord' /\ SlotWord' /\ CursorWord' /\ BatchShape'
  BY SMTT(30) DEF IInv, ReclaimWord, SlotWord, CursorWord, BatchShape, Taken
<1>5. Content'
  BY SMTT(30) DEF IInv, TypeOK, Content, ContentOf, InFlight, RequestId
<1> QED
  BY <1>1, <1>2, <1>3, <1>4, <1>5 DEF IInv

\* Handing a position to the reclaimer.
LEMMA PushIInv ==
  ASSUME IInv, NEW p \in Producers, Push(p)
  PROVE  IInv'
<1> USE DEF Push, Forget, Goto, segmentVars, daemonVars
<1>1. TypeOK'
  BY Zenon DEF IInv, TypeOK, Labels
<1>2. ThreadWord'
  BY DEF IInv, TypeOK, ThreadWord, ThreadWordOf, Owning, Unpublished, Published
<1>3. Distinct'
  BY Zenon DEF IInv, TypeOK, Distinct, Owning, Unpublished, Published
<1>4. ReclaimWord'
  BY Zenon DEF IInv, TypeOK, ReclaimWord, ThreadWord, ThreadWordOf, Owning, Unpublished, Published
<1>5. SlotWord' /\ CursorWord' /\ BatchShape'
  BY SMTT(30) DEF IInv, SlotWord, CursorWord, BatchShape, Taken
<1>6. Content'
  BY SMTT(30) DEF IInv, TypeOK, Content, ContentOf, InFlight, RequestId
<1> QED
  BY <1>1, <1>2, <1>3, <1>4, <1>5, <1>6 DEF IInv
-----------------------------------------------------------------------------
(* The steps that advance a slot's word: publication, release, completion. *)

\* The word of a slot in use tells which position the slot serves.
LEMMA WordNames ==
  ASSUME NEW q \in Nat, NEW r \in Nat, Slot(q) = Slot(r),
         NEW w \in Int, w \in q .. q + 2, w \in r .. r + 2
  PROVE  q = r
BY SlotNear

\* The number of positions the daemon has taken and not completed is a natural.
LEMMA TakenType ==
  ASSUME TypeOK
  PROVE  Taken \in Nat
BY DEF TypeOK, Taken

\* What an advance of the word of position q's slot means for everyone else: a
\* holder of another position finds the word of its own slot as it was.
LEMMA AdvanceOthers ==
  ASSUME IInv, NEW q \in Nat, q < enqueue, seq[Slot(q)] \in q .. q + 2,
         NEW n \in Nat, n >= seq[Slot(q)], seq' = [seq EXCEPT ![Slot(q)] = n],
         enqueue' = enqueue, n <= q + Capacity, n <= q + 1 \/ q < dequeue
  PROVE  /\ \A r \in Producers :
              /\ pc'[r] = pc[r] /\ pos'[r] = pos[r]
              /\ pc[r] \in Owning => pos[r] # q
              => /\ ThreadWordOf(r)'
                 /\ slot' = slot => ContentOf(r)'
         /\ \A r \in pending \cup outstanding : r # q => seq'[Slot(r)] = seq[Slot(r)]
         /\ \A r \in 0 .. dequeue - Taken - 1 : seq'[Slot(r)] > r + 1
         /\ \A r \in dequeue - Taken .. dequeue - 1 : r # q => seq'[Slot(r)] = r + 1
         /\ \A r \in dequeue .. enqueue - 1 : seq'[Slot(r)] <= r + 1
<1>1. seq \in [Slots -> Nat] /\ enqueue \in Nat /\ dequeue \in Nat /\ Taken \in Nat
  BY TakenType, SMTT(30) DEF IInv, TypeOK
<1>2. ASSUME NEW r \in Nat, r # q, seq[Slot(r)] \in r .. r + 2
      PROVE  seq'[Slot(r)] = seq[Slot(r)]
  <2>1. Slot(r) \in Slots /\ Slot(q) \in Slots /\ seq[Slot(r)] \in Int
    BY <1>1, SlotType
  <2>2. Slot(r) # Slot(q)
    BY <1>2, <2>1, WordNames
  <2> QED
    BY <1>1, <2>1, <2>2
<1>3. ASSUME NEW r \in Producers, pc'[r] = pc[r], pos'[r] = pos[r],
             pc[r] \in Owning => pos[r] # q
      PROVE  ThreadWordOf(r)' /\ (slot' = slot => ContentOf(r)')
  <2>1. pos[r] \in Nat /\ ThreadWordOf(r) /\ ContentOf(r)
    BY DEF IInv, TypeOK, ThreadWord, Content
  <2>2. ASSUME pc[r] \in Owning PROVE seq'[Slot(pos[r])] = seq[Slot(pos[r])]
    BY <1>2, <1>3, <2>1, <2>2, HeldWord
  <2>3. ASSUME pc[r] = "cas", enqueue = pos[r] PROVE seq'[Slot(pos[r])] = seq[Slot(pos[r])]
    <3>1. seq[Slot(pos[r])] \in pos[r] .. pos[r] + 2 /\ pos[r] # q
      BY <2>1, <2>3 DEF ThreadWordOf
    <3> QED
      BY <1>2, <2>1, <3>1
  <2>4. ThreadWordOf(r)'
    BY <1>3, <2>1, <2>2, <2>3, SMTT(30) DEF ThreadWordOf, Owning, Unpublished, Published
  <2>5. pc[r] \in InFlight => pc[r] \in Owning
    BY DEF InFlight, Owning, Unpublished, Published
  <2>6. slot' = slot => ContentOf(r)'
    BY <1>3, <2>1, <2>2, <2>5, SMTT(30) DEF ContentOf, RequestId
  <2> QED
    BY <2>4, <2>6
<1>4. ASSUME NEW r \in pending \cup outstanding, r # q
      PROVE  seq'[Slot(r)] = seq[Slot(r)]
  <2>1. r \in Nat /\ seq[Slot(r)] \in {r + 1, r + 2}
    BY DEF IInv, TypeOK, ReclaimWord
  <2>2. seq[Slot(r)] \in r .. r + 2
    BY <2>1
  <2> QED
    BY <1>4, <1>2, <2>1, <2>2
<1>5. ASSUME NEW r \in 0 .. dequeue - Taken - 1 PROVE seq'[Slot(r)] > r + 1
  BY <1>1, SlotType DEF IInv, CursorWord
<1>6. ASSUME NEW r \in dequeue - Taken .. dequeue - 1, r # q PROVE seq'[Slot(r)] = r + 1
  <2>1. r \in Nat /\ seq[Slot(r)] = r + 1
    BY <1>1 DEF IInv, CursorWord
  <2>2. seq[Slot(r)] \in r .. r + 2
    BY <2>1
  <2> QED
    BY <1>6, <1>2, <2>1, <2>2
<1>7. ASSUME NEW r \in dequeue .. enqueue - 1 PROVE seq'[Slot(r)] <= r + 1
  <2>1. /\ r \in Nat /\ r >= dequeue /\ seq[Slot(r)] <= r + 1
        /\ Slot(r) \in Slots /\ Slot(q) \in Slots
    BY <1>1, SlotType DEF IInv, CursorWord
  <2>2. CASE Slot(r) # Slot(q)
    BY <1>1, <2>1, <2>2
  <2>3. CASE Slot(r) = Slot(q)
    <3>1. seq'[Slot(r)] = n
      BY <1>1, <2>1, <2>3
    <3>2. ~(r < q)
      BY <2>1, <2>3, SlotGap, RingAssumption
    <3>3. q < r => q + Capacity <= r
      BY <2>1, <2>3, SlotGap
    <3>4. r = q => n <= r + 1
      BY <1>1, <2>1
    <3> QED
      BY <2>1, <3>1, <3>2, <3>3, <3>4, RingAssumption
  <2> QED
    BY <2>2, <2>3
<1> QED
  BY <1>3, <1>4, <1>5, <1>6, <1>7

\* publish_success and publish_cancel: position p, held, becomes p + 1.
LEMMA StoreSequenceIInv ==
  ASSUME IInv, NEW p \in Producers, StoreSequence(p)
  PROVE  IInv'
<1> DEFINE q == pos[p]
<1> USE DEF StoreSequence, Goto, reclaimVars, daemonVars
<1>1. /\ q \in Nat /\ q < enqueue /\ Slot(q) \in Slots /\ seq[Slot(q)] = q
      /\ seq \in [Slots -> Nat] /\ seq' = [seq EXCEPT ![Slot(q)] = q + 1]
      /\ pc[p] \in Owning
  BY SlotType, Zenon DEF IInv, TypeOK, ThreadWord, ThreadWordOf, Owning, Unpublished
<1>2. /\ seq[Slot(q)] \in q .. q + 2 /\ q + 1 \in Nat /\ q + 1 >= seq[Slot(q)]
      /\ q + 1 <= q + 1 /\ q + 1 <= q + Capacity
      /\ Taken' = Taken /\ Taken \in Nat /\ enqueue' = enqueue
  BY <1>1, TakenType, RingAssumption, SMTT(30) DEF IInv, Taken
<1>3. TypeOK'
  BY <1>1, SMTT(30) DEF IInv, TypeOK, Labels, Owning, Published
<1>4. ThreadWordOf(p)' /\ ContentOf(p)'
  BY <1>1, SMTT(30) DEF IInv, TypeOK, ThreadWordOf, Owning, Unpublished, Published,
       Content, ContentOf, InFlight, RequestId
<1>5. ThreadWord' /\ Content'
  <2> SUFFICES ASSUME NEW r \in Producers, r # p PROVE ThreadWordOf(r)' /\ ContentOf(r)'
    BY <1>4, SMTT(30) DEF ThreadWord, Content
  <2>1. pc'[r] = pc[r] /\ pos'[r] = pos[r] /\ (pc[r] \in Owning => pos[r] # q) /\ slot' = slot
    BY <1>1 DEF IInv, TypeOK, Distinct
  <2> QED
    BY <1>1, <1>2, <2>1, AdvanceOthers, Zenon
<1>6. Distinct'
  BY SMTT(30) DEF IInv, TypeOK, Distinct, Owning, Unpublished, Published
<1>7. ReclaimWord'
  <2>1. q \notin pending \cup outstanding
    BY <1>1 DEF IInv, Distinct
  <2>2. ASSUME NEW r \in pending \cup outstanding PROVE seq'[Slot(r)] = seq[Slot(r)]
    BY <1>1, <1>2, <2>1, AdvanceOthers, Zenon
  <2> QED
    BY <2>2, SMTT(30) DEF IInv, ReclaimWord
<1>8. SlotWord'
  BY <1>1, SMTT(30) DEF IInv, SlotWord
<1>9. CursorWord'
  <2>1. q \notin dequeue - Taken .. dequeue - 1
    BY <1>1, <1>2, SMTT(30) DEF IInv, CursorWord, TypeOK
  <2> QED
    BY <1>1, <1>2, <2>1, AdvanceOthers, Zenon DEF IInv, CursorWord
<1>10. BatchShape'
  BY SMTT(30) DEF IInv, BatchShape
<1> QED
  BY <1>3, <1>5, <1>6, <1>7, <1>8, <1>9, <1>10, SMTT(30) DEF IInv

\* SlotReservation::release: a completed position becomes a lap later.
LEMMA ReleaseIInv ==
  ASSUME IInv, NEW p \in Producers, Release(p)
  PROVE  IInv'
<1> DEFINE q == pos[p]
<1> USE DEF Release, Forget, Goto, reclaimVars, daemonVars
<1>1. /\ q \in Nat /\ q < enqueue /\ Slot(q) \in Slots /\ seq[Slot(q)] = q + 2
      /\ seq \in [Slots -> Nat] /\ seq' = [seq EXCEPT ![Slot(q)] = q + Capacity]
      /\ pc[p] \in Owning
  BY SlotType, SMTT(30) DEF IInv, TypeOK, ThreadWord, ThreadWordOf, Owning, Published
<1>2. /\ seq[Slot(q)] \in q .. q + 2 /\ q + Capacity \in Nat
      /\ q + Capacity >= seq[Slot(q)] /\ Taken' = Taken /\ Taken \in Nat /\ enqueue' = enqueue
      /\ q < dequeue /\ q + Capacity <= q + Capacity
  <2>1. q < dequeue
    BY <1>1 DEF IInv, TypeOK, CursorWord
  <2>2. Taken' = Taken /\ Taken \in Nat
    BY TakenType DEF IInv, Taken
  <2> QED
    BY <1>1, <2>1, <2>2, RingAssumption
<1>3. TypeOK'
  BY <1>1, <1>2, SMTT(30) DEF IInv, TypeOK, Labels
<1>4. ThreadWordOf(p)' /\ ContentOf(p)'
  BY <1>1, SMTT(30) DEF IInv, TypeOK, ThreadWordOf, Owning, Unpublished, Published, ContentOf, InFlight
<1>5. ThreadWord' /\ Content'
  <2> SUFFICES ASSUME NEW r \in Producers, r # p PROVE ThreadWordOf(r)' /\ ContentOf(r)'
    BY <1>4 DEF ThreadWord, Content
  <2>1. pc'[r] = pc[r] /\ pos'[r] = pos[r] /\ (pc[r] \in Owning => pos[r] # q) /\ slot' = slot
    BY <1>1 DEF IInv, TypeOK, Distinct
  <2> QED
    BY <1>1, <1>2, <2>1, AdvanceOthers, Zenon
<1>6. Distinct'
  BY SMTT(30) DEF IInv, TypeOK, Distinct, Owning, Unpublished, Published
<1>7. ReclaimWord'
  <2>1. q \notin pending \cup outstanding
    BY <1>1 DEF IInv, Distinct
  <2>2. ASSUME NEW r \in pending \cup outstanding PROVE seq'[Slot(r)] = seq[Slot(r)]
    BY <1>1, <1>2, <2>1, AdvanceOthers, Zenon
  <2> QED
    BY <2>2 DEF IInv, ReclaimWord
<1>8. SlotWord'
  <2>1. Slot(q + Capacity) = Slot(q)
    BY <1>1, SlotLap
  <2>2. q + Capacity < enqueue + Capacity
    BY <1>1, RingAssumption DEF IInv, TypeOK
  <2> QED
    BY <1>1, <2>1, <2>2 DEF IInv, SlotWord
<1>9. CursorWord'
  <2>1. q \notin dequeue - Taken .. dequeue - 1
    BY <1>1, <1>2, SMTT(30) DEF IInv, CursorWord, TypeOK
  <2> QED
    BY <1>1, <1>2, <2>1, AdvanceOthers, ZenonT(60) DEF IInv, CursorWord
<1>10. BatchShape'
  BY SMTT(30) DEF IInv, BatchShape
<1> QED
  BY <1>3, <1>5, <1>6, <1>7, <1>8, <1>9, <1>10 DEF IInv
-----------------------------------------------------------------------------
(* The reclaimer.                                                          *)

\* The swap that starts a tick of run_reclaimer.
LEMMA ReclaimSwapIInv ==
  ASSUME IInv, ReclaimSwap
  PROVE  IInv'
<1> USE DEF ReclaimSwap, segmentVars, producerVars, daemonVars
<1>1. TypeOK'
  BY DEF IInv, TypeOK
<1>2. ThreadWord' /\ Content'
  BY SMTT(30) DEF IInv, ThreadWord, ThreadWordOf, Content, ContentOf, RequestId
<1>3. Distinct' /\ ReclaimWord'
  BY SMTT(30) DEF IInv, Distinct, ReclaimWord
<1>4. SlotWord' /\ CursorWord' /\ BatchShape'
  BY SMTT(30) DEF IInv, SlotWord, CursorWord, BatchShape, Taken
<1> QED
  BY <1>1, <1>2, <1>3, <1>4 DEF IInv

\* A completed position is released, any other one is kept.
LEMMA ReclaimScanIInv ==
  ASSUME IInv, NEW q \in scan, ReclaimScan(q)
  PROVE  IInv'
<1> USE DEF ReclaimScan, producerVars, daemonVars
<1>1. q \in outstanding /\ q \in Nat /\ scan' \subseteq outstanding' /\ scan' \in SUBSET Nat
  BY SMTT(30) DEF IInv, TypeOK, Distinct
<1>2. CASE UNCHANGED <<seq, outstanding>>
  <2> USE <1>2
  <2>1. TypeOK' /\ Distinct'
    BY <1>1, SMTT(30) DEF IInv, TypeOK, Distinct
  <2>2. ThreadWord' /\ Content' /\ ReclaimWord'
    BY SMTT(30) DEF IInv, ThreadWord, ThreadWordOf, Content, ContentOf, RequestId, ReclaimWord
  <2>3. SlotWord' /\ CursorWord' /\ BatchShape'
    BY SMTT(30) DEF IInv, SlotWord, CursorWord, BatchShape, Taken
  <2> QED
    BY <2>1, <2>2, <2>3 DEF IInv
<1>3. CASE /\ Completed(q)
           /\ seq' = [seq EXCEPT ![Slot(q)] = q + Capacity]
           /\ outstanding' = outstanding \ {q}
  <2>1. /\ q < enqueue /\ Slot(q) \in Slots /\ seq[Slot(q)] = q + 2 /\ seq \in [Slots -> Nat]
    BY <1>1, <1>3, SlotType, SMTT(30) DEF IInv, TypeOK, ReclaimWord, Completed
  <2>2. /\ seq[Slot(q)] \in q .. q + 2 /\ q + Capacity \in Nat
        /\ q + Capacity >= seq[Slot(q)] /\ Taken' = Taken /\ Taken \in Nat /\ enqueue' = enqueue
        /\ q < dequeue /\ q + Capacity <= q + Capacity
    <3>1. q < dequeue
      BY <1>1, <2>1, SMTT(30) DEF IInv, TypeOK, CursorWord
    <3>2. Taken' = Taken /\ Taken \in Nat
      BY TakenType DEF IInv, Taken
    <3> QED
      BY <1>1, <2>1, <3>1, <3>2, RingAssumption, SMTT(30)
  <2>3. TypeOK'
    BY <1>1, <1>3, <2>1, <2>2, SMTT(30) DEF IInv, TypeOK
  <2>4. ThreadWord' /\ Content'
    <3> SUFFICES ASSUME NEW r \in Producers PROVE ThreadWordOf(r)' /\ ContentOf(r)'
      BY DEF ThreadWord, Content
    <3>1. pc'[r] = pc[r] /\ pos'[r] = pos[r] /\ (pc[r] \in Owning => pos[r] # q) /\ slot' = slot
      BY <1>1, SMTT(30) DEF IInv, Distinct
    <3> QED
      BY <1>1, <1>3, <2>1, <2>2, <3>1, AdvanceOthers, Zenon
  <2>5. Distinct'
    BY <1>1, <1>3, SMTT(30) DEF IInv, Distinct
  <2>6. ReclaimWord'
    <3>1. ASSUME NEW r \in (pending \cup outstanding)' PROVE seq'[Slot(r)] = seq[Slot(r)]
      <4>1. r \in pending \cup outstanding /\ r # q
        BY <1>1, <1>3, SMTT(30) DEF IInv, Distinct
      <4> QED
        BY <1>1, <1>3, <2>1, <2>2, <4>1, AdvanceOthers, Zenon
    <3> QED
      BY <1>3, <3>1 DEF IInv, ReclaimWord
  <2>7. SlotWord'
    <3>1. Slot(q + Capacity) = Slot(q)
      BY <1>1, SlotLap
    <3>2. q + Capacity < enqueue + Capacity
      BY <1>1, <2>1, RingAssumption, SMTT(30) DEF IInv, TypeOK
    <3> QED
      BY <1>3, <2>1, <3>1, <3>2, SMTT(30) DEF IInv, SlotWord
  <2>8. CursorWord'
    <3>1. q \notin dequeue - Taken .. dequeue - 1
      BY <1>1, <2>1, <2>2, SMTT(30) DEF IInv, CursorWord, TypeOK
    <3> QED
      BY <1>1, <1>3, <2>1, <2>2, <3>1, AdvanceOthers, Zenon DEF IInv, CursorWord
  <2>9. BatchShape'
    BY SMTT(30) DEF IInv, BatchShape
  <2> QED
    BY <2>3, <2>4, <2>5, <2>6, <2>7, <2>8, <2>9 DEF IInv
<1> QED
  BY <1>2, <1>3
-----------------------------------------------------------------------------
(* The daemon.                                                             *)

\* Steps that move the daemon, or the requests to stop it, without touching a
\* slot, the batch or the plan.
LEMMA DaemonMovesIInv ==
  ASSUME IInv,
         \/ Signal \/ RequestShutdown \/ DaemonPoll \/ DaemonStop \/ DecrementReady
         \/ PollAgain \/ RunFullBatch \/ RunOverdueBatch
  PROVE  IInv'
<1> USE DEF Signal, RequestShutdown, DaemonPoll, DaemonStop, DecrementReady, PollAgain,
        RunFullBatch, RunOverdueBatch, segmentVars, producerVars, reclaimVars, daemonVars
<1>1. /\ UNCHANGED <<enqueue, dequeue, seq, slot, pc, pos, submitted, pending, outstanding,
                     scan, staged, plan>>
      /\ dpc' \notin {"write", "store"} \/ dpc' = dpc
      /\ dpc \notin {"write", "store"} \/ dpc' = dpc
  BY SMTT(30)
<1>2. TypeOK'
  <2>1. ready' \in 0 .. ReadyModulus - 1
    BY RingAssumption, SMTT(30) DEF IInv, TypeOK, SubtractOne
  <2>2. dpc' \in DaemonLabels /\ stop' \in BOOLEAN /\ shutdown' \in BOOLEAN /\ draining' \in BOOLEAN
    BY Zenon DEF IInv, TypeOK, DaemonLabels
  <2> QED
    BY <1>1, <2>1, <2>2, ZenonT(60) DEF IInv, TypeOK
<1>3. ThreadWord' /\ Content' /\ Distinct' /\ ReclaimWord' /\ SlotWord'
  BY <1>1, ZenonT(60) DEF IInv, ThreadWord, ThreadWordOf, Content, ContentOf, RequestId, Distinct,
       ReclaimWord, SlotWord
<1>4. Taken' = Taken
  BY <1>1, SMTT(30) DEF Taken
<1>5. CursorWord'
  <2>1. CursorWord
    BY Zenon DEF IInv
  <2> HIDE DEF Signal, RequestShutdown, DaemonPoll, DaemonStop, DecrementReady, PollAgain,
           RunFullBatch, RunOverdueBatch
  <2> QED
    BY <1>1, <1>4, <2>1, Zenon DEF CursorWord
<1>6. BatchShape'
  <2>1. dpc' = "process" => staged # << >>
    BY RingAssumption, ZenonT(60) DEF IInv, TypeOK, BatchShape
  <2>2. dpc' = "exited" => staged = << >>
    BY ZenonT(60) DEF IInv, BatchShape
  <2> QED
    BY <1>1, <2>1, <2>2, Zenon DEF IInv, BatchShape
<1> QED
  BY <1>2, <1>3, <1>5, <1>6, SMTT(30) DEF IInv

\* A word one past the cursor belongs to the cursor's own position, claimed.
LEMMA NextReadyClaimed ==
  ASSUME IInv, NextReady
  PROVE  dequeue < enqueue
<1> DEFINE i == Slot(dequeue)
<1>1. dequeue \in Nat /\ enqueue \in Nat /\ i \in Slots /\ seq[i] = dequeue + 1
  BY SlotType DEF IInv, TypeOK, NextReady
<1>2. CASE Slot(seq[i]) = i
  BY <1>1, <1>2, SlotNear
<1>3. CASE \E d \in {1, 2} : d <= seq[i] /\ seq[i] - d < enqueue /\ Slot(seq[i] - d) = i
  <2>1. PICK d \in {1, 2} : d <= seq[i] /\ seq[i] - d < enqueue /\ Slot(seq[i] - d) = i
    BY <1>3
  <2>2. CASE d = 1
    BY <1>1, <2>1, <2>2
  <2>3. CASE d = 2
    <3>1. seq[i] - d = dequeue - 1 /\ dequeue - 1 \in Nat
      BY <1>1, <2>1, <2>3
    <3>2. Slot(dequeue - 1) = Slot(dequeue)
      BY <2>1, <3>1
    <3> QED
      BY <1>1, <3>1, <3>2, SlotNear
  <2> QED
    BY <2>2, <2>3
<1> QED
  BY <1>1, <1>2, <1>3 DEF IInv, SlotWord

\* try_consume: the position taken joins the end of the batch.
LEMMA ConsumeIInv ==
  ASSUME IInv, Consume
  PROVE  IInv'
<1> USE DEF Consume, producerVars, reclaimVars
<1>1. /\ dequeue \in Nat /\ enqueue \in Nat /\ dequeue < enqueue /\ Slot(dequeue) \in Slots
      /\ staged \in Seq(Slots) /\ Len(staged) \in Nat
  <2>1. dequeue < enqueue
    BY NextReadyClaimed
  <2> QED
    BY <2>1, SlotType, SMTT(30) DEF IInv, TypeOK
<1>2. /\ staged' \in Seq(Slots) /\ Len(staged') = Len(staged) + 1
      /\ \A k \in 1 .. Len(staged') :
           staged'[k] = IF k = Len(staged) + 1 THEN Slot(dequeue) ELSE staged[k]
  BY <1>1
<1>3. TypeOK'
  BY <1>1, <1>2, SMTT(30) DEF IInv, TypeOK, DaemonLabels
<1>4. ThreadWord' /\ Content' /\ Distinct' /\ ReclaimWord' /\ SlotWord'
  BY ZenonT(60) DEF IInv, ThreadWord, ThreadWordOf, Content, ContentOf, RequestId, Distinct,
       ReclaimWord, SlotWord
<1>5. CursorWord'
  <2>1. Taken = Len(staged) /\ Taken' = Taken + 1
    BY <1>2, Zenon DEF Taken
  <2>2. dequeue' - Taken' = dequeue - Taken
    BY <1>1, <2>1
  <2>3. ASSUME NEW r \in dequeue - Taken .. dequeue PROVE seq[Slot(r)] = r + 1
    BY <1>1, <2>1, SMTT(30) DEF IInv, CursorWord, NextReady
  <2> QED
    BY <1>1, <2>1, <2>2, <2>3, SMTT(30) DEF IInv, CursorWord
<1>6. BatchShape'
  <2>1. ASSUME NEW k \in 1 .. Len(staged') PROVE staged'[k] = Slot(dequeue' - Len(staged') + k - 1)
    <3>1. dequeue' - Len(staged') + k - 1 = dequeue - Len(staged) + k - 1
      BY <1>1, <1>2
    <3>2. CASE k = Len(staged) + 1
      BY <1>1, <1>2, <3>1, <3>2
    <3>3. CASE k # Len(staged) + 1
      BY <1>1, <1>2, <3>1, <3>3, SMTT(30) DEF IInv, BatchShape
    <3> QED
      BY <3>2, <3>3
  <2>2. Len(staged') <= MaxBatch
    BY <1>1, <1>2, RingAssumption, SMTT(30)
  <2> QED
    BY <2>1, <2>2, SMTT(30) DEF BatchShape
<1> QED
  BY <1>3, <1>4, <1>5, <1>6 DEF IInv

\* process_batch: each word read back is one past the position that was taken.
LEMMA ProcessBatchIInv ==
  ASSUME IInv, ProcessBatch
  PROVE  IInv'
<1> USE DEF ProcessBatch, segmentVars, producerVars, reclaimVars
<1>1. /\ dequeue \in Nat /\ staged \in Seq(Slots) /\ Len(staged) \in Nat /\ Len(staged) > 0
      /\ Taken = Len(staged) /\ Len(staged) <= dequeue
  <2>1. dpc = "process" /\ TypeOK /\ BatchShape /\ CursorWord
    BY Zenon DEF IInv
  <2> HIDE DEF ProcessBatch
  <2> QED
    BY <2>1, SMTT(30) DEF TypeOK, BatchShape, CursorWord, Taken
<1>2. ASSUME NEW k \in 1 .. Len(staged)
      PROVE  LET q == dequeue - Len(staged) + k - 1
             IN q \in Nat /\ staged[k] = Slot(q) /\ staged[k] \in Slots /\ seq[staged[k]] - 1 = q
  <2> DEFINE q == dequeue - Len(staged) + k - 1
  <2>1. q \in Nat /\ q \in dequeue - Taken .. dequeue - 1 /\ staged[k] = Slot(q)
    BY <1>1, SMTT(30) DEF IInv, BatchShape
  <2>2. seq[Slot(q)] = q + 1
    BY <2>1, SMTT(30) DEF IInv, CursorWord
  <2> HIDE DEF ProcessBatch
  <2> QED
    BY <2>1, <2>2, SlotType, SMTT(30)
<1>3. Len(plan') = Len(staged) /\ plan' \in Seq(PlanEntries)
  BY <1>1, <1>2, SMTT(30) DEF PlanEntries, Statuses
<1>4. ASSUME NEW k \in 1 .. Len(plan')
      PROVE  /\ plan'[k].position = dequeue - Len(plan') + k - 1
             /\ plan'[k].slot = Slot(plan'[k].position)
             /\ plan'[k].status = IF slot[plan'[k].slot].empty THEN "invalid" ELSE "answered"
  BY <1>1, <1>2, <1>3, Zenon DEF Decodes
<1>5. TypeOK'
  BY <1>3, SMTT(30) DEF IInv, TypeOK, DaemonLabels
<1>6. ThreadWord' /\ Content' /\ Distinct' /\ ReclaimWord' /\ SlotWord'
  BY Zenon DEF IInv, ThreadWord, ThreadWordOf, Content, ContentOf, RequestId, Distinct,
       ReclaimWord, SlotWord
<1>7. CursorWord'
  <2>1. Taken' = Taken
    BY <1>1, <1>3 DEF Taken
  <2>2. enqueue' = enqueue /\ dequeue' = dequeue /\ seq' = seq /\ CursorWord
    BY DEF IInv
  <2> HIDE DEF ProcessBatch
  <2> QED
    BY <2>1, <2>2, Zenon DEF CursorWord
<1>8. BatchShape'
  <2>1. plan' # << >>
    BY <1>1, <1>3, SMTT(30)
  <2>2. dpc' = "write" /\ Len(staged') <= MaxBatch /\ dequeue' = dequeue /\ slot' = slot
    BY SMTT(30) DEF IInv, BatchShape
  <2> HIDE DEF ProcessBatch
  <2> QED
    BY <1>4, <2>1, <2>2, SMTT(30) DEF BatchShape
<1> QED
  BY <1>5, <1>6, <1>7, <1>8, Zenon DEF IInv

\* SharedRing::complete, the response fields: the slot of the first planned
\* position, whose owner has published and not yet seen it completed.
LEMMA CompleteWriteIInv ==
  ASSUME IInv, CompleteWrite
  PROVE  IInv'
<1> USE DEF CompleteWrite, producerVars, reclaimVars
<1> DEFINE q == plan[1].position
<1>1. plan \in Seq(PlanEntries) /\ plan # << >> /\ 1 \in 1 .. Len(plan) /\ Len(plan) \in Nat
  BY DEF IInv, TypeOK, BatchShape
<1>2. /\ q \in Nat /\ plan[1].slot = Slot(q) /\ plan[1].slot \in Slots
      /\ seq[Slot(q)] = q + 1 /\ plan[1].status \in Statuses
  <2>1. plan[1] \in PlanEntries
    BY <1>1
  <2>2. plan[1].status \in Statuses
    BY <2>1 DEF PlanEntries
  <2> QED
    BY <1>1, <2>2, PlanWord
<1>3. slot \in [Slots -> SlotFields] /\ slot' \in [Slots -> SlotFields]
  BY <1>2, Zenon DEF IInv, TypeOK, SlotFields
<1>4. \A i \in Slots : /\ slot'[i].empty = slot[i].empty /\ slot'[i].id = slot[i].id
                       /\ i # Slot(q) => slot'[i] = slot[i]
  BY <1>2, <1>3 DEF SlotFields
<1>5. TypeOK'
  BY <1>3 DEF IInv, TypeOK, DaemonLabels
<1>6. ThreadWord' /\ Distinct' /\ ReclaimWord' /\ SlotWord' /\ CursorWord'
  BY DEF IInv, ThreadWord, ThreadWordOf, Distinct, ReclaimWord, SlotWord, CursorWord, Taken
<1>7. BatchShape'
  <2>1. slot'[plan[1].slot].status = plan[1].status
    BY <1>2, <1>3 DEF SlotFields
  <2>2. ASSUME NEW k \in 1 .. Len(plan)
        PROVE  plan[k].status = IF slot'[plan[k].slot].empty THEN "invalid" ELSE "answered"
    <3>1. plan[k].slot \in Slots
      BY PlanWord
    <3> QED
      BY <1>4, <3>1 DEF IInv, BatchShape
  <2> QED
    BY <1>1, <2>1, <2>2 DEF IInv, BatchShape
<1>8. Content'
  <2> SUFFICES ASSUME NEW r \in Producers, pc[r] \in InFlight PROVE ContentOf(r)'
    BY DEF Content, ContentOf
  <2>1. Slot(pos[r]) \in Slots /\ ContentOf(r)
    BY HeldWord DEF IInv, Content, InFlight, Owning, Unpublished, Published
  <2>2. seq[Slot(pos[r])] = pos[r] + 2 => Slot(pos[r]) # Slot(q)
    <3>1. pos[r] \in Nat
      BY DEF IInv, TypeOK
    <3> QED
      BY <1>1, <1>2, <3>1, PlanApart
  <2> QED
    BY <1>4, <2>1, <2>2, Zenon DEF ContentOf, RequestId
<1> QED
  BY <1>5, <1>6, <1>7, <1>8 DEF IInv

\* SharedRing::complete, the store: the first planned position p, published,
\* becomes p + 2, and its owner finds the daemon's answer there.
LEMMA CompleteStoreIInv ==
  ASSUME IInv, CompleteStore
  PROVE  IInv'
<1> USE DEF CompleteStore, producerVars, reclaimVars
<1> DEFINE q == plan[1].position
<1>1. /\ plan \in Seq(PlanEntries) /\ plan # << >> /\ 1 \in 1 .. Len(plan) /\ Len(plan) \in Nat
      /\ dequeue \in Nat /\ enqueue \in Nat /\ dequeue <= enqueue /\ seq \in [Slots -> Nat]
  BY SMTT(30) DEF IInv, TypeOK, BatchShape, CursorWord
<1>2. /\ q \in Nat /\ q < dequeue /\ plan[1].slot = Slot(q) /\ plan[1].slot \in Slots
      /\ seq[Slot(q)] = q + 1
  BY <1>1, PlanWord, SMTT(30)
<1>3. /\ seq' = [seq EXCEPT ![Slot(q)] = q + 2] /\ q + 2 \in Nat /\ q < enqueue
      /\ seq[Slot(q)] \in q .. q + 2 /\ q + 2 >= seq[Slot(q)] /\ enqueue' = enqueue
      /\ q + 2 <= q + Capacity
  BY <1>1, <1>2, RingAssumption, SMTT(30)
<1>4. /\ plan' \in Seq(PlanEntries) /\ Len(plan') = Len(plan) - 1
      /\ \A k \in 1 .. Len(plan') : plan'[k] = plan[k + 1] /\ k + 1 \in 1 .. Len(plan)
  BY <1>1, SMTT(30)
<1>5. q = dequeue - Len(plan) /\ Taken = Len(plan) /\ Taken' = Len(plan) - 1
  <2>1. q = dequeue - Len(plan) + 1 - 1
    BY <1>1, SMTT(30) DEF IInv, BatchShape
  <2>2. CASE Len(plan) > 1
    <3>1. dpc' = "write"
      BY <1>1, <2>2, SMTT(30)
    <3>2. Taken' = Len(plan') /\ Taken = Len(plan)
      BY <3>1 DEF Taken
    <3> QED
      BY <1>1, <1>4, <2>1, <3>2, SMTT(30)
  <2>3. CASE Len(plan) = 1
    <3>1. staged' = << >> /\ dpc' \notin {"write", "store"}
      BY <2>3
    <3> QED
      BY <1>1, <2>1, <2>3, <3>1 DEF Taken
  <2> QED
    BY <2>2, <2>3, SMTT(30)
<1>6. TypeOK'
  <2>1. seq' \in [Slots -> Nat]
    BY <1>1, <1>2, <1>3, SMTT(30)
  <2>2. staged' \in Seq(Slots) /\ dpc' \in DaemonLabels
    BY SMTT(30) DEF IInv, TypeOK, DaemonLabels
  <2> QED
    BY <1>4, <2>1, <2>2, SMTT(30) DEF IInv, TypeOK
<1>7. Distinct'
  BY SMTT(30) DEF IInv, Distinct
<1>8. SlotWord'
  BY <1>2, <1>3, SMTT(30) DEF IInv, SlotWord
<1>9. CursorWord'
  <2>1. Taken' = Taken - 1 /\ dequeue' = dequeue /\ Taken \in Nat /\ Taken' \in Nat
    BY <1>1, <1>4, <1>5, SMTT(30)
  <2>2. ASSUME NEW r \in 0 .. dequeue - Taken' - 1 PROVE seq'[Slot(r)] > r + 1
    <3>1. CASE r = q
      BY <1>1, <1>2, <1>3, <3>1, SMTT(30)
    <3>2. CASE r # q
      <4>1. r \in 0 .. dequeue - Taken - 1
        <5> HIDE DEF q, CompleteStore
        <5> QED
          BY <1>1, <1>5, <2>1, <3>2
      <4> QED
        BY <1>2, <1>3, <4>1, AdvanceOthers, Zenon
    <3> QED
      BY <3>1, <3>2
  <2>3. ASSUME NEW r \in dequeue - Taken' .. dequeue - 1 PROVE seq'[Slot(r)] = r + 1
    <3>1. r # q /\ r \in dequeue - Taken .. dequeue - 1
      BY <1>1, <1>2, <1>5, <2>1, SMTT(30)
    <3> QED
      BY <1>2, <1>3, <3>1, AdvanceOthers, Zenon
  <2>4. dequeue' <= enqueue' /\ Taken' <= dequeue'
    BY <1>1, <1>2, <1>5, <2>1, SMTT(30)
  <2>5. \A r \in dequeue .. enqueue - 1 : seq'[Slot(r)] <= r + 1
    BY <1>2, <1>3, AdvanceOthers, Zenon
  <2>6. enqueue' = enqueue
    OBVIOUS
  <2> HIDE DEF CompleteStore
  <2> QED
    BY <2>1, <2>2, <2>3, <2>4, <2>5, <2>6 DEF CursorWord
<1>10. BatchShape'
  <2>1. CASE Len(plan) > 1
    <3>1. /\ dpc' = "write" /\ staged' = staged /\ plan' # << >>
          /\ dequeue' = dequeue /\ slot' = slot
      <4>1. Len(plan') > 0
        BY <1>1, <1>4, <2>1
      <4>2. plan' # << >>
        <5> HIDE DEF CompleteStore
        <5> QED
          BY <4>1
      <4>3. dpc' = "write" /\ staged' = staged
        BY <1>1, <2>1
      <4> QED
        BY <4>2, <4>3
    <3>2. ASSUME NEW k \in 1 .. Len(plan')
          PROVE  /\ plan'[k].position = dequeue - Len(plan') + k - 1
                 /\ plan'[k].slot = Slot(plan'[k].position)
                 /\ plan'[k].status = IF slot[plan'[k].slot].empty THEN "invalid" ELSE "answered"
      BY <1>1, <1>4, SMTT(30) DEF IInv, BatchShape
    <3>3. Len(staged) <= MaxBatch
      BY SMTT(30) DEF IInv, BatchShape
    <3> HIDE DEF CompleteStore
    <3> QED
      BY <3>1, <3>2, <3>3, SMTT(30) DEF BatchShape
  <2>2. CASE Len(plan) = 1
    <3>1. dpc' \in {"exited", "loop"} /\ staged' = << >>
      BY <2>2
    <3> HIDE DEF CompleteStore
    <3> QED
      BY <3>1, RingAssumption DEF BatchShape
  <2> QED
    BY <1>1, <2>1, <2>2
<1>11. ReclaimWord'
  <2> SUFFICES ASSUME NEW r \in pending \cup outstanding
               PROVE  r < enqueue /\ seq'[Slot(r)] \in {r + 1, r + 2}
    BY DEF ReclaimWord
  <2>1. CASE r = q
    BY <1>2, <1>3, <2>1, <1>1, SMTT(30)
  <2>2. CASE r # q
    BY <1>2, <1>3, <2>2, AdvanceOthers, Zenon DEF IInv, ReclaimWord
  <2> QED
    BY <2>1, <2>2, SMTT(30)
<1>12. ThreadWord' /\ Content'
  <2> SUFFICES ASSUME NEW r \in Producers PROVE ThreadWordOf(r)' /\ ContentOf(r)'
    BY SMTT(30) DEF ThreadWord, Content
  <2>1. pc'[r] = pc[r] /\ pos'[r] = pos[r] /\ slot' = slot /\ pos[r] \in Nat
        /\ ThreadWordOf(r) /\ ContentOf(r)
    BY SMTT(30) DEF IInv, TypeOK, ThreadWord, Content
  <2>2. CASE pc[r] \in Owning => pos[r] # q
    BY <1>2, <1>3, <2>1, <2>2, AdvanceOthers, Zenon
  <2>3. CASE pc[r] \in Owning /\ pos[r] = q
    <3>1. seq'[Slot(pos[r])] = pos[r] + 2 /\ pc[r] \notin Unpublished
          /\ pc[r] \notin {"respond", "release", "loadseq", "cas"}
      <4> HIDE DEF CompleteStore, q
      <4>1. seq[Slot(q)] = q + 1 /\ seq'[Slot(q)] = q + 2 /\ q \in Nat
        BY <1>1, <1>2, <1>3
      <4>2. seq[Slot(pos[r])] # pos[r] /\ seq[Slot(pos[r])] # pos[r] + 2
        BY <4>1, <2>3, SMTT(30)
      <4>3. pc[r] \notin Unpublished /\ pc[r] \notin {"respond", "release"}
        BY <2>1, <4>2, SMTT(30) DEF ThreadWordOf
      <4>4. pc[r] \notin {"loadseq", "cas"}
        BY <2>3 DEF Owning, Unpublished, Published
      <4> QED
        BY <4>1, <4>3, <4>4, <2>3, SMTT(30)
    <3>2. ThreadWordOf(r)'
      BY <1>3, <2>1, <2>3, <3>1, Zenon DEF ThreadWordOf
    <3>3. slot[Slot(q)].status = IF slot[Slot(q)].empty THEN "invalid" ELSE "answered"
      BY <1>1, <1>2, Zenon DEF IInv, BatchShape
    <3>4. ContentOf(r)'
      <4> HIDE DEF CompleteStore, q
      <4>1. RequestId(r)' = RequestId(r)
        BY <2>1 DEF RequestId
      <4> QED
        BY <2>1, <2>3, <3>3, <4>1, Zenon DEF ContentOf
    <3> QED
      BY <3>2, <3>4, Zenon
  <2> QED
    BY <2>2, <2>3, SMTT(30)
<1> QED
  BY <1>6, <1>7, <1>8, <1>9, <1>10, <1>11, <1>12 DEF IInv
-----------------------------------------------------------------------------
(* The theorems.                                                           *)

\* Every step of the system preserves the invariant, action by action.
LEMMA NextIInv == IInv /\ [Next]_vars => IInv'
<1> SUFFICES ASSUME IInv, [Next]_vars PROVE IInv'
  OBVIOUS
<1>1. CASE \E p \in Producers : Submit(p) \/ Thread(p)
  <2>1. PICK p \in Producers : Submit(p) \/ Thread(p)
    BY <1>1
  <2> QED
    BY <2>1, ThreadMovesIInv, ReserveCasIInv, WriteIInv, StoreSequenceIInv, CountReadyIInv,
       ReleaseIInv, PushIInv
       DEF Thread
<1>2. CASE Reclaimer
  BY <1>2, ReclaimSwapIInv, ReclaimScanIInv DEF Reclaimer
<1>3. CASE Daemon
  BY <1>3, DaemonMovesIInv, ConsumeIInv, ProcessBatchIInv, CompleteWriteIInv, CompleteStoreIInv
     DEF Daemon
<1>4. CASE Signal \/ RequestShutdown
  BY <1>4, DaemonMovesIInv
<1>5. CASE UNCHANGED vars
  <2> USE <1>5 DEF vars, segmentVars, producerVars, reclaimVars, daemonVars, IInv
  <2>1. TypeOK'
    BY SMTT(30) DEF TypeOK
  <2>2. ThreadWord'
    BY Zenon DEF ThreadWord, ThreadWordOf
  <2>3. Distinct' /\ ReclaimWord' /\ SlotWord'
    BY SMTT(30) DEF Distinct, ReclaimWord, SlotWord
  <2>4. CursorWord'
    BY SMTT(30) DEF CursorWord, Taken
  <2>5. BatchShape'
    BY SMTT(30) DEF BatchShape
  <2>6. Content'
    BY Zenon DEF Content, ContentOf, RequestId
  <2> QED
    BY <2>1, <2>2, <2>3, <2>4, <2>5, <2>6
<1> QED
  BY <1>1, <1>2, <1>3, <1>4, <1>5 DEF Next

\* The inductive invariant holds in every reachable state, for any number of
\* threads, any capacity of at least four slots and any batch size.
THEOREM Invariance == Spec => []IInv
BY InitIInv, NextIInv, PTL DEF Spec

\* Every word and local of the gateway and the daemon keeps its type.
THEOREM TypeCorrect == Spec => []TypeOK
<1>1. IInv => TypeOK
  BY DEF IInv
<1> QED
  BY <1>1, Invariance, PTL

\* No slot ever has two owners on the gateway's side: reserve_slot never hands
\* out a slot that a thread or the reclaimer still holds.
THEOREM OwnershipIsExclusive == Spec => []OneOwner
<1>1. IInv => OneOwner
  <2> SUFFICES ASSUME IInv PROVE OneOwner
    OBVIOUS
  <2>1. \A p, r \in Producers : pc[p] \in Owning /\ pc[r] \in Owning
          /\ Slot(pos[p]) = Slot(pos[r]) => <<p, pos[p]>> = <<r, pos[r]>>
    BY OwnersApart, SMTT(30)
  <2>2. \A p \in Producers, q \in pending \cup outstanding :
          pc[p] \in Owning => Slot(pos[p]) # Slot(q)
    BY ReclaimApart
  <2>3. \A q, r \in pending \cup outstanding : Slot(q) = Slot(r) => q = r
    BY ReclaimedApart
  <2>4. pending \cap outstanding = {}
    BY DEF IInv, Distinct
  <2> DEFINE Held == {<<p, pos[p]>> : p \in {r \in Producers : pc[r] \in Owning}}
  <2>5. ASSUME NEW a \in Held
        PROVE  \E p \in Producers : pc[p] \in Owning /\ a = <<p, pos[p]>> /\ a[2] = pos[p]
    BY SMTT(30)
  <2>6. \A a, b \in Held : Slot(a[2]) = Slot(b[2]) => a = b
    BY <2>1, <2>5, SMTT(30)
  <2>7. \A a \in Held, q \in pending \cup outstanding : Slot(a[2]) # Slot(q)
    BY <2>2, <2>5, SMTT(30)
  <2> QED
    BY <2>3, <2>4, <2>6, <2>7, Zenon DEF OneOwner
<1> QED
  BY <1>1, Invariance, PTL

\* A thread that reads a response reads the daemon's answer to its own request.
THEOREM ResponsesAreOwn == Spec => []ResponseIsOwn
<1>1. IInv => ResponseIsOwn
  <2> SUFFICES ASSUME IInv, NEW p \in Producers, pc[p] = "respond"
               PROVE  /\ slot[Slot(pos[p])].id = RequestId(p)
                      /\ slot[Slot(pos[p])].status = "answered"
    BY SMTT(30) DEF ResponseIsOwn
  <2>1. ContentOf(p) /\ ThreadWordOf(p)
    BY DEF IInv, Content, ThreadWord
  <2> QED
    BY <2>1, SMTT(30) DEF ContentOf, InFlight, ThreadWordOf
<1> QED
  BY <1>1, Invariance, PTL

\* try_consume's cursor never passes a claim, nor meets a word ahead of it.
THEOREM CursorNotOvertaken == Spec => []ConsumerNotOvertaken
<1>1. IInv => ConsumerNotOvertaken
  <2> SUFFICES ASSUME IInv PROVE ConsumerNotOvertaken
    OBVIOUS
  <2> DEFINE i == Slot(dequeue)
  <2>1. dequeue \in Nat /\ enqueue \in Nat /\ dequeue <= enqueue /\ i \in Slots /\ seq[i] \in Nat
    BY SlotType, SMTT(30) DEF IInv, TypeOK, CursorWord
  <2>2. CASE dequeue < enqueue
    BY <2>1, <2>2 DEF IInv, CursorWord, ConsumerNotOvertaken
  <2>3. CASE dequeue = enqueue
    <3>1. CASE Slot(seq[i]) = i /\ seq[i] < enqueue + Capacity
      BY <2>1, <2>3, <3>1, SlotGap, RingAssumption DEF ConsumerNotOvertaken
    <3>2. CASE \E d \in {1, 2} : seq[i] - d < enqueue
      BY <2>1, <2>3, <3>2 DEF ConsumerNotOvertaken
    <3> QED
      BY <2>1, <3>1, <3>2 DEF IInv, SlotWord
  <2> QED
    BY <2>1, <2>2, <2>3
<1> QED
  BY <1>1, Invariance, PTL

\* The positions process_batch reads back are those that try_consume took.
THEOREM StagedPositionsKept == Spec => []StagedPositionsHold
<1>1. IInv => StagedPositionsHold
  <2> SUFFICES ASSUME IInv, dpc \notin {"write", "store"}, NEW k \in DOMAIN staged
               PROVE  LET q == dequeue - Len(staged) + k - 1
                      IN staged[k] = Slot(q) /\ seq[staged[k]] = q + 1
    BY DEF StagedPositionsHold
  <2> DEFINE q == dequeue - Len(staged) + k - 1
  <2>1. dequeue \in Nat /\ k \in 1 .. Len(staged) /\ Len(staged) \in Nat /\ Taken = Len(staged)
    BY DEF IInv, TypeOK, Taken
  <2>2. staged[k] = Slot(q) /\ q \in dequeue - Taken .. dequeue - 1
    BY <2>1 DEF IInv, BatchShape
  <2>3. seq[Slot(q)] = q + 1
    BY <2>2 DEF IInv, CursorWord
  <2> QED
    BY <2>2, <2>3
<1> QED
  BY <1>1, Invariance, PTL

\* A daemon that has exited has completed every position it took.
THEOREM ExitStrandsNothing == Spec => []NothingStagedAtExit
<1>1. IInv => NothingStagedAtExit
  <2> SUFFICES ASSUME IInv, dpc = "exited", NEW q \in 0 .. dequeue - 1
               PROVE  seq[Slot(q)] # q + 1
    BY DEF NothingStagedAtExit
  <2>1. Taken = 0 /\ dequeue \in Nat
    BY SMTT(30) DEF IInv, BatchShape, Taken, TypeOK
  <2>2. seq[Slot(q)] > q + 1 /\ seq[Slot(q)] \in Nat
    BY <2>1, SlotType, SMTT(30) DEF IInv, CursorWord, TypeOK
  <2> QED
    BY <2>2
<1> QED
  BY <1>1, Invariance, PTL

-----------------------------------------------------------------------------
(* Counting: the reclaimer's vectors and ready_count.                       *)

\* Positions whose slots' words name them are no more than there are slots.
LEMMA NoMoreThanSlots ==
  ASSUME NEW T \in SUBSET Nat, seq \in [Slots -> Nat],
         \A q \in T : seq[Slot(q)] \in {q + 1, q + 2}
  PROVE  IsFiniteSet(T) /\ Cardinality(T) \in Nat /\ Cardinality(T) <= Capacity
<1> DEFINE f == [q \in T |-> Slot(q)]
<1>1. f \in [T -> Slots]
  BY SlotType
<1>2. ASSUME NEW q \in T, NEW r \in T, f[q] = f[r] PROVE q = r
  <2>1. q \in Nat /\ r \in Nat /\ Slot(q) = Slot(r)
    BY <1>2
  <2>2. seq[Slot(q)] \in {q + 1, q + 2} /\ seq[Slot(q)] \in {r + 1, r + 2}
    BY <2>1
  <2> QED
    BY <2>1, <2>2, SlotNear
<1> HIDE DEF f
<1>3. f \in Injection(T, Slots)
  BY <1>1, <1>2, Zenon DEF Injection, IsInjective
<1>4. IsFiniteSet(Slots) /\ Cardinality(Slots) = Capacity
  BY RingAssumption, FS_Interval DEF Slots
<1>5. IsFiniteSet(T) /\ Cardinality(T) <= Capacity
  BY <1>3, <1>4, FS_Injection, Zenon
<1> QED
  BY <1>5, FS_CardinalityType

\* The reclaimer's vectors fit in what was allocated for them.
LEMMA InvReclaimBounded == IInv => ReclaimBounded
<1> SUFFICES ASSUME IInv PROVE ReclaimBounded
  OBVIOUS
<1> DEFINE all == pending \cup outstanding
<1>1. /\ seq \in [Slots -> Nat] /\ all \in SUBSET Nat
      /\ \A q \in all : seq[Slot(q)] \in {q + 1, q + 2}
  BY DEF IInv, TypeOK, ReclaimWord
<1>2. IsFiniteSet(all) /\ Cardinality(all) \in Nat /\ Cardinality(all) <= Capacity
  BY <1>1, NoMoreThanSlots, Zenon
<1>3. /\ IsFiniteSet(pending) /\ IsFiniteSet(outstanding)
      /\ Cardinality(pending) \in Nat /\ Cardinality(outstanding) \in Nat
  BY <1>2, FS_Subset, FS_CardinalityType
<1>4. Cardinality(pending) + Cardinality(outstanding) <= Capacity
  <2>1. Cardinality(pending \cap outstanding) = 0
    BY FS_EmptySet, Zenon DEF IInv, Distinct
  <2>2. Cardinality(all) = Cardinality(pending) + Cardinality(outstanding)
                             - Cardinality(pending \cap outstanding)
    BY <1>3, FS_Union, Zenon
  <2> HIDE DEF all
  <2> QED
    BY <1>2, <1>3, <2>1, <2>2, RingAssumption
<1>5. ASSUME NEW p \in Producers, pc[p] = "push" PROVE Cardinality(pending) < Capacity
  <2> DEFINE more == pending \cup {pos[p]}
  <2>1. /\ pos[p] \in Nat /\ pos[p] \notin pending
        /\ seq[Slot(pos[p])] \in {pos[p] + 1, pos[p] + 2}
    BY <1>5 DEF IInv, TypeOK, Distinct, ThreadWord, ThreadWordOf, Owning, Published
  <2>2. more \in SUBSET Nat /\ \A q \in more : seq[Slot(q)] \in {q + 1, q + 2}
    BY <1>1, <2>1
  <2> HIDE DEF more
  <2>3. Cardinality(more) <= Capacity
    BY <1>1, <2>2, NoMoreThanSlots, Zenon
  <2>4. Cardinality(more) = Cardinality(pending) + 1
    BY <1>3, <2>1, FS_AddElement, Zenon DEF more
  <2> QED
    BY <1>3, <2>3, <2>4, RingAssumption
<1> QED
  BY <1>4, <1>5 DEF ReclaimBounded

\* The reclaimer's two vectors never outgrow slot_count, and no thread that hands
\* its slot off is made to spin.
THEOREM ReclaimerBounded == Spec => []ReclaimBounded
BY InvReclaimBounded, Invariance, PTL

\* One more, or one fewer, modulo the width of the word.
LEMMA ModStep ==
  ASSUME NEW M \in Nat \ {0}, NEW a \in Int
  PROVE  /\ ((a % M) + 1) % M = (a + 1) % M
         /\ ((a % M) - 1) % M = (a - 1) % M
<1> DEFINE k == a \div M
           r == a % M
<1>1. r \in 0 .. M - 1
  BY Z3
<1>2. k \in Int
  BY Z3
<1>3. a = M * k + r
  BY Z3
<1> HIDE DEF k, r
<1>4. ASSUME NEW j \in Int, NEW n \in 0 .. M - 1 PROVE (M * j + n) % M = n
  BY Z3
<1>5. M * k \in Int /\ M * (k + 1) = M * k + M /\ M * (k - 1) = M * k - M
  BY <1>2
<1>6. M * 0 = 0 /\ M * 1 = M /\ M * (-1) = -M
  OBVIOUS
<1>7. (r + 1) % M = (a + 1) % M
  <2>1. CASE r + 1 < M
    <3>1. r + 1 \in 0 .. M - 1 /\ a + 1 = M * k + (r + 1) /\ r + 1 = M * 0 + (r + 1)
      BY <1>1, <1>3, <1>5, <1>6, <2>1
    <3>2. (M * k + (r + 1)) % M = r + 1 /\ (M * 0 + (r + 1)) % M = r + 1
      BY <1>2, <1>4, <3>1
    <3> QED
      BY <3>1, <3>2, Zenon
  <2>2. CASE r + 1 = M
    <3>1. /\ 0 \in 0 .. M - 1 /\ a + 1 = M * (k + 1) + 0
          /\ r + 1 = M * 1 + 0 /\ k + 1 \in Int /\ 1 \in Int
      BY <1>1, <1>2, <1>3, <1>5, <1>6, <2>2
    <3>2. (M * (k + 1) + 0) % M = 0 /\ (M * 1 + 0) % M = 0
      BY <1>4, <3>1, Zenon
    <3> QED
      BY <3>1, <3>2, Zenon
  <2> QED
    BY <1>1, <2>1, <2>2
<1>8. (r - 1) % M = (a - 1) % M
  <2>1. CASE r > 0
    <3>1. r - 1 \in 0 .. M - 1 /\ a - 1 = M * k + (r - 1) /\ r - 1 = M * 0 + (r - 1)
      BY <1>1, <1>3, <1>5, <1>6, <2>1
    <3>2. (M * k + (r - 1)) % M = r - 1 /\ (M * 0 + (r - 1)) % M = r - 1
      BY <1>2, <1>4, <3>1
    <3> QED
      BY <3>1, <3>2, Zenon
  <2>2. CASE r = 0
    <3>1. /\ M - 1 \in 0 .. M - 1 /\ a - 1 = M * (k - 1) + (M - 1)
          /\ r - 1 = M * (-1) + (M - 1) /\ k - 1 \in Int
      BY <1>1, <1>2, <1>3, <1>5, <1>6, <2>2
    <3>2. (M * (k - 1) + (M - 1)) % M = M - 1 /\ (M * (-1) + (M - 1)) % M = M - 1
      BY <1>4, <3>1
    <3> QED
      BY <3>1, <3>2, Zenon
  <2> QED
    BY <1>1, <2>1, <2>2
<1> QED
  BY <1>7, <1>8 DEF r

\* The published positions that wait for the daemon, the threads that have yet to
\* count theirs, and the decrement the daemon has yet to make.
Queued == {q \in dequeue .. enqueue - 1 : seq[Slot(q)] = q + 1}
Uncounted == {p \in Producers : pc[p] \in {"tx_count", "cx_count"}}
Undecremented == IF dpc = "decrement" THEN 1 ELSE 0
Net == Cardinality(Queued) - Cardinality(Uncounted) + Undecremented

\* Both are finite, however many threads there are: those have positions of their own.
LEMMA CountsFinite ==
  ASSUME IInv
  PROVE  /\ IsFiniteSet(Queued) /\ Cardinality(Queued) \in Nat
         /\ IsFiniteSet(Uncounted) /\ Cardinality(Uncounted) \in Nat
         /\ Net \in Int
<1>1. dequeue \in Nat /\ enqueue \in Nat
  BY DEF IInv, TypeOK
<1>2. IsFiniteSet(Queued) /\ Cardinality(Queued) \in Nat
  <2>1. IsFiniteSet(dequeue .. enqueue - 1)
    BY <1>1, FS_Interval
  <2>2. Queued \in SUBSET (dequeue .. enqueue - 1)
    BY DEF Queued
  <2> QED
    BY <2>1, <2>2, FS_Subset, FS_CardinalityType, Zenon
<1>3. IsFiniteSet(Uncounted) /\ Cardinality(Uncounted) \in Nat
  <2> DEFINE f == [p \in Uncounted |-> pos[p]]
  <2>1. \A p \in Uncounted : p \in Producers /\ pc[p] \in Owning
    BY DEF Uncounted, Owning, Published
  <2>2. f \in [Uncounted -> 0 .. enqueue - 1]
    BY <1>1, <2>1, HeldWord
  <2>3. \A p, r \in Uncounted : f[p] = f[r] => p = r
    BY <2>1 DEF IInv, Distinct
  <2> HIDE DEF f
  <2>4. f \in Injection(Uncounted, 0 .. enqueue - 1)
    BY <2>2, <2>3, Zenon DEF Injection, IsInjective
  <2>5. IsFiniteSet(0 .. enqueue - 1)
    BY <1>1, FS_Interval
  <2> QED
    BY <2>4, <2>5, FS_Injection, FS_CardinalityType, Zenon
<1> QED
  BY <1>2, <1>3 DEF Net, Undecremented

\* An advance of the word of position q's slot is no news of any other position.
LEMMA QueuedOthers ==
  ASSUME IInv, NEW q \in Nat, q < enqueue, seq[Slot(q)] \in q .. q + 2,
         NEW n \in {q + 1, q + 2, q + Capacity}, seq' = [seq EXCEPT ![Slot(q)] = n],
         NEW x \in Nat, x # q
  PROVE  seq'[Slot(x)] = x + 1 <=> seq[Slot(x)] = x + 1
<1>1. seq \in [Slots -> Nat] /\ Slot(x) \in Slots /\ Slot(q) \in Slots /\ Capacity \in Nat
      /\ Capacity >= 4
  BY SlotType, RingAssumption, Zenon DEF IInv, TypeOK
<1>2. CASE Slot(x) # Slot(q)
  BY <1>1, <1>2
<1>3. CASE Slot(x) = Slot(q)
  <2>1. x + Capacity <= q \/ q + Capacity <= x
    BY <1>3, SlotGap
  <2>2. seq[Slot(x)] \in q .. q + 2 /\ seq'[Slot(x)] = n
    BY <1>1, <1>3
  <2> QED
    BY <1>1, <2>1, <2>2
<1> QED
  BY <1>2, <1>3

\* The count stays true when nothing it counts changes.
LEMMA SameCount ==
  ASSUME ready = Net % ReadyModulus, ready' = ready,
         Queued' = Queued, Uncounted' = Uncounted, Undecremented' = Undecremented
  PROVE  ready' = Net' % ReadyModulus
BY Zenon DEF Net

\* A thread's step that changes no word of the segment but enqueue.
LEMMA ThreadCount ==
  ASSUME IInv, ready = Net % ReadyModulus, NEW p \in Producers,
         \/ Submit(p) \/ ReserveTimeout(p) \/ ReserveLoad(p) \/ ReserveCompare(p) \/ ReserveCas(p)
         \/ WriteRequest(p) \/ WriteCancel(p) \/ SeeResponse(p) \/ WaitTimeout(p)
         \/ ReadResponse(p) \/ Handoff(p) \/ Push(p)
  PROVE  ready' = Net' % ReadyModulus
<1> USE DEF segmentVars, daemonVars
<1>1. /\ UNCHANGED <<dequeue, ready, seq, dpc>>
      /\ \/ enqueue' = enqueue
         \/ /\ enqueue' = enqueue + 1
            /\ pc[p] = "cas" /\ enqueue = pos[p]
  BY Zenon DEF Submit, ReserveTimeout, ReserveLoad, ReserveCompare, ReserveCas, WriteRequest,
    WriteCancel, SeeResponse, WaitTimeout, ReadResponse, Handoff, Push, CasMatches
<1>2. pc[p] \notin {"tx_count", "cx_count"}
  BY Zenon DEF Submit, ReserveTimeout, ReserveLoad, ReserveCompare, ReserveCas, WriteRequest,
    WriteCancel, SeeResponse, WaitTimeout, ReadResponse, Handoff, Push
<1>3. \E label \in Labels \ {"tx_count", "cx_count"} : pc' = [pc EXCEPT ![p] = label]
  <2> USE DEF Labels, Owning, Unpublished, Published, Reserving, Goto, Forget
  <2>1. CASE Submit(p) \/ ReserveTimeout(p) \/ ReserveLoad(p) \/ ReserveCompare(p) \/ ReserveCas(p)
    BY <2>1, Zenon DEF Submit, ReserveTimeout, ReserveLoad, ReserveCompare, ReserveCas
  <2>2. CASE WriteRequest(p) \/ WriteCancel(p) \/ SeeResponse(p) \/ WaitTimeout(p)
    BY <2>2, Zenon DEF WriteRequest, WriteCancel, SeeResponse, WaitTimeout
  <2>3. CASE ReadResponse(p) \/ Handoff(p) \/ Push(p)
    BY <2>3, Zenon DEF ReadResponse, Handoff, Push
  <2> QED
    BY <2>1, <2>2, <2>3, Zenon
<1>4. Uncounted' = Uncounted
  <2>1. pc \in [Producers -> Labels]
    BY DEF IInv, TypeOK
  <2> QED
    BY <1>2, <1>3, <2>1 DEF Uncounted
<1>5. Queued' = Queued
  <2>1. dequeue \in Nat /\ enqueue \in Nat /\ dequeue <= enqueue
    BY DEF IInv, TypeOK, CursorWord
  <2>2. CASE enqueue' = enqueue
    BY <1>1, <2>2, Zenon DEF Queued
  <2>3. CASE enqueue' = enqueue + 1 /\ pc[p] = "cas" /\ enqueue = pos[p]
    <3>1. seq[Slot(enqueue)] = enqueue
      BY <2>3, Zenon DEF IInv, ThreadWord, ThreadWordOf
    <3>2. \A q : q \in dequeue .. enqueue' - 1 <=> q \in dequeue .. enqueue - 1 \/ q = enqueue
      <4>1. \A n, k \in Nat : k <= n =>
              \A q : q \in k .. (n + 1) - 1 <=> q \in k .. n - 1 \/ q = n
        OBVIOUS
      <4> QED
        BY <2>1, <2>3, <4>1, Zenon
    <3>3. seq[Slot(enqueue)] # enqueue + 1
      BY <2>1, <3>1
    <3> QED
      BY <1>1, <3>2, <3>3, Zenon DEF Queued
  <2> QED
    BY <1>1, <2>2, <2>3, Zenon
<1> QED
  BY <1>1, <1>4, <1>5, SameCount, Zenon DEF Undecremented

\* Publication adds a position and a thread that has yet to count it.
LEMMA StoreCount ==
  ASSUME IInv, ready = Net % ReadyModulus, NEW p \in Producers, StoreSequence(p)
  PROVE  ready' = Net' % ReadyModulus
<1> DEFINE q == pos[p]
<1>1. /\ q \in Nat /\ q < enqueue /\ seq[Slot(q)] = q /\ Slot(q) \in Slots
      /\ dequeue \in Nat /\ enqueue \in Nat /\ seq \in [Slots -> Nat]
      /\ pc[p] \in {"tx_store", "cx_store"} /\ pc \in [Producers -> Labels]
  BY SlotType, Zenon DEF IInv, TypeOK, ThreadWord, ThreadWordOf, StoreSequence, Owning, Unpublished
<1>2. dequeue <= q
  <2>1. CASE q \in 0 .. dequeue - Taken - 1
    BY <1>1, <2>1 DEF IInv, CursorWord
  <2>2. CASE q \in dequeue - Taken .. dequeue - 1
    BY <1>1, <2>2 DEF IInv, CursorWord
  <2>3. Taken \in Nat
    BY TakenType DEF IInv
  <2> QED
    BY <1>1, <2>1, <2>2, <2>3
<1>3. /\ seq' = [seq EXCEPT ![Slot(q)] = q + 1] /\ UNCHANGED <<dequeue, enqueue, ready, dpc>>
      /\ pc' = [pc EXCEPT ![p] = IF pc[p] = "tx_store" THEN "tx_count" ELSE "cx_count"]
  BY Zenon DEF StoreSequence, Goto, daemonVars
<1>4. Queued' = Queued \cup {q} /\ q \notin Queued
  <2>1. \A x \in dequeue .. enqueue - 1 : x # q =>
          (seq'[Slot(x)] = x + 1 <=> seq[Slot(x)] = x + 1)
    <3>1. \A x \in dequeue .. enqueue - 1 : x \in Nat
      BY <1>1
    <3>2. seq[Slot(q)] \in q .. q + 2 /\ q + 1 \in {q + 1, q + 2, q + Capacity}
      BY <1>1
    <3> QED
      BY <1>1, <1>3, <3>1, <3>2, QueuedOthers, Zenon
  <2>2. seq'[Slot(q)] = q + 1 /\ q \in dequeue .. enqueue - 1 /\ seq[Slot(q)] # q + 1
    BY <1>1, <1>2, <1>3
  <2> HIDE DEF q
  <2> QED
    BY <1>3, <2>1, <2>2, Zenon DEF Queued
<1>5. Uncounted' = Uncounted \cup {p} /\ p \notin Uncounted
  BY <1>1, <1>3 DEF Uncounted
<1>6. Cardinality(Queued') = Cardinality(Queued) + 1
  BY <1>4, CountsFinite, FS_AddElement, Zenon
<1>7. Cardinality(Uncounted') = Cardinality(Uncounted) + 1
  BY <1>5, CountsFinite, FS_AddElement, Zenon
<1>8. Undecremented' = Undecremented /\ Undecremented \in Nat
  BY <1>3 DEF Undecremented
<1>9. Net' = Net
  BY <1>6, <1>7, <1>8, CountsFinite DEF Net
<1> QED
  BY <1>3, <1>9, Zenon

\* The thread counts it.
LEMMA CountCount ==
  ASSUME IInv, ready = Net % ReadyModulus, NEW p \in Producers, CountReady(p)
  PROVE  ready' = Net' % ReadyModulus
<1>1. /\ UNCHANGED <<dequeue, enqueue, seq, dpc>> /\ ready' = (ready + 1) % ReadyModulus
      /\ pc' = [pc EXCEPT ![p] = IF pc[p] = "tx_count" THEN "wait" ELSE "handoff"]
      /\ pc[p] \in {"tx_count", "cx_count"}
  BY Zenon DEF CountReady, Goto, daemonVars
<1>2. pc \in [Producers -> Labels]
  BY DEF IInv, TypeOK
<1>3. Uncounted' = Uncounted \ {p} /\ p \in Uncounted
  BY <1>1, <1>2 DEF Uncounted
<1>4. Cardinality(Uncounted') = Cardinality(Uncounted) - 1
  BY <1>3, CountsFinite, FS_RemoveElement, Zenon
<1>5. Queued' = Queued /\ Undecremented' = Undecremented /\ Undecremented \in Nat
  BY <1>1 DEF Queued, Undecremented
<1>6. Net' = Net + 1
  BY <1>4, <1>5, CountsFinite DEF Net
<1>7. ReadyModulus \in Nat \ {0} /\ Net \in Int
  BY RingAssumption, CountsFinite
<1> QED
  BY <1>1, <1>6, <1>7, ModStep, Zenon

\* A release by a thread or by the reclaimer, and a completion, are of positions the
\* daemon has taken.
LEMMA TakenCount ==
  ASSUME IInv, ready = Net % ReadyModulus,
         (\E p \in Producers : Release(p)) \/ (\E q \in scan : ReclaimScan(q)) \/ CompleteStore
  PROVE  ready' = Net' % ReadyModulus
<1>1. dequeue \in Nat /\ enqueue \in Nat /\ dequeue <= enqueue /\ pc \in [Producers -> Labels]
  BY DEF IInv, TypeOK, CursorWord
<1>2. /\ UNCHANGED <<dequeue, enqueue, ready>>
      /\ dpc' = "decrement" <=> dpc = "decrement"
  BY Zenon DEF Release, ReclaimScan, CompleteStore, daemonVars
<1>3. Uncounted' = Uncounted
  <2>1. CASE \E p \in Producers : Release(p)
    BY <1>1, <2>1 DEF Release, Forget, Goto, Uncounted
  <2>2. CASE UNCHANGED pc
    BY <2>2, Zenon DEF Uncounted
  <2> QED
    BY <2>1, <2>2, Zenon DEF ReclaimScan, CompleteStore, producerVars
<1>4. \/ seq' = seq
      \/ \E q \in Nat, n \in Nat :
           /\ q < dequeue /\ seq[Slot(q)] \in q .. q + 2
           /\ n \in {q + 1, q + 2, q + Capacity} /\ seq' = [seq EXCEPT ![Slot(q)] = n]
  <2>1. ASSUME NEW q \in Nat, q < enqueue, seq[Slot(q)] = q + 2
        PROVE  q < dequeue /\ seq[Slot(q)] \in q .. q + 2 /\ q + Capacity \in Nat
    BY <1>1, <2>1, RingAssumption DEF IInv, CursorWord
  <2>2. CASE \E p \in Producers : Release(p)
    <3>1. PICK p \in Producers : Release(p)
      BY <2>2
    <3>2. pos[p] \in Nat /\ pos[p] < enqueue /\ seq[Slot(pos[p])] = pos[p] + 2
      BY <3>1, Zenon DEF Release, IInv, TypeOK, ThreadWord, ThreadWordOf, Owning, Published
    <3> QED
      BY <2>1, <3>1, <3>2, Zenon DEF Release
  <2>3. CASE \E q \in scan : ReclaimScan(q)
    <3>1. PICK q \in scan : ReclaimScan(q)
      BY <2>3
    <3>2. q \in Nat /\ q < enqueue
      BY DEF IInv, TypeOK, Distinct, ReclaimWord
    <3> QED
      BY <2>1, <3>1, <3>2, Zenon DEF ReclaimScan, Completed
  <2>4. CASE CompleteStore
    <3>1. 1 \in 1 .. Len(plan) /\ dpc \in {"write", "store"}
      <4>1. plan \in Seq(PlanEntries) /\ plan # << >> /\ dpc = "store"
        BY <2>4, Zenon DEF CompleteStore, IInv, TypeOK, BatchShape
      <4> QED
        BY <4>1
    <3>2. /\ plan[1].position \in Nat /\ plan[1].position < dequeue
          /\ plan[1].slot = Slot(plan[1].position)
          /\ seq[plan[1].slot] = plan[1].position + 1
      BY <3>1, PlanWord, Zenon
    <3>3. /\ plan[1].position + 2 \in Nat
          /\ seq[plan[1].slot] \in plan[1].position .. plan[1].position + 2
      BY <3>2
    <3>4. seq' = [seq EXCEPT ![Slot(plan[1].position)] = plan[1].position + 2]
      BY <2>4, <3>2, Zenon DEF CompleteStore
    <3> QED
      BY <3>2, <3>3, <3>4, Zenon
  <2> QED
    BY <2>2, <2>3, <2>4
<1>5. Queued' = Queued
  <2>1. CASE seq' = seq
    BY <1>2, <2>1, Zenon DEF Queued
  <2>2. ASSUME NEW q \in Nat, NEW n \in Nat, q < dequeue, seq[Slot(q)] \in q .. q + 2,
               n \in {q + 1, q + 2, q + Capacity}, seq' = [seq EXCEPT ![Slot(q)] = n]
        PROVE  Queued' = Queued
    <3>1. q < enqueue /\ \A x \in dequeue .. enqueue - 1 : x \in Nat /\ x # q
      BY <1>1, <2>2
    <3>2. \A x \in dequeue .. enqueue - 1 : seq'[Slot(x)] = x + 1 <=> seq[Slot(x)] = x + 1
      BY <2>2, <3>1, QueuedOthers, Zenon
    <3> QED
      BY <1>2, <3>2, Zenon DEF Queued
  <2> QED
    BY <1>4, <2>1, <2>2, Zenon
<1> QED
  BY <1>2, <1>3, <1>5, SameCount, Zenon DEF Undecremented

\* The daemon takes a position, and then decrements the count.
LEMMA ConsumeCount ==
  ASSUME IInv, ready = Net % ReadyModulus, Consume \/ DecrementReady
  PROVE  ready' = Net' % ReadyModulus
<1>1. Uncounted' = Uncounted /\ seq' = seq /\ enqueue' = enqueue
  BY Zenon DEF Consume, DecrementReady, producerVars, Uncounted
<1>2. CASE Consume
  <2>1. /\ dequeue < enqueue /\ dequeue \in Nat /\ enqueue \in Nat
        /\ seq[Slot(dequeue)] = dequeue + 1
    BY <1>2, NextReadyClaimed DEF Consume, NextReady, IInv, TypeOK
  <2>2. /\ \A x : x \in dequeue + 1 .. enqueue - 1 <=> x \in dequeue .. enqueue - 1 /\ x # dequeue
        /\ dequeue \in dequeue .. enqueue - 1
    BY <2>1
  <2>3. dequeue' = dequeue + 1 /\ ready' = ready /\ dpc = "consume" /\ dpc' = "decrement"
    BY <1>2, Zenon DEF Consume
  <2>4. Queued' = Queued \ {dequeue} /\ dequeue \in Queued
    BY <1>1, <2>1, <2>2, <2>3, Zenon DEF Queued
  <2>5. Cardinality(Queued') = Cardinality(Queued) - 1
    BY <2>4, CountsFinite, FS_RemoveElement, Zenon
  <2>6. Undecremented = 0 /\ Undecremented' = 1
    BY <2>3 DEF Undecremented
  <2>7. Net' = Net
    BY <1>1, <2>5, <2>6, CountsFinite DEF Net
  <2> QED
    BY <2>3, <2>7, Zenon
<1>3. CASE DecrementReady
  <2>1. /\ dequeue' = dequeue /\ ready' = (ready - 1) % ReadyModulus
        /\ dpc = "decrement" /\ dpc' = "consume"
    BY <1>3, Zenon DEF DecrementReady, SubtractOne
  <2>2. Undecremented = 1 /\ Undecremented' = 0 /\ Queued' = Queued
    BY <1>1, <2>1 DEF Undecremented, Queued
  <2>3. Net' = Net - 1
    BY <1>1, <2>2, CountsFinite DEF Net
  <2>4. ReadyModulus \in Nat \ {0} /\ Net \in Int
    BY RingAssumption, CountsFinite
  <2> QED
    BY <2>1, <2>3, <2>4, ModStep, Zenon
<1> QED
  BY <1>2, <1>3

\* Nothing else is counted.
LEMMA OtherCount ==
  ASSUME IInv, ready = Net % ReadyModulus,
         \/ ReclaimSwap \/ Signal \/ RequestShutdown \/ DaemonPoll \/ DaemonStop \/ PollAgain
         \/ RunFullBatch \/ RunOverdueBatch \/ ProcessBatch \/ CompleteWrite \/ UNCHANGED vars
  PROVE  ready' = Net' % ReadyModulus
<1>1. UNCHANGED <<dequeue, enqueue, ready, seq, pc>>
  BY Zenon DEF ReclaimSwap, Signal, RequestShutdown, DaemonPoll, DaemonStop, PollAgain,
    RunFullBatch, RunOverdueBatch, ProcessBatch, CompleteWrite, vars, segmentVars, producerVars
<1>2. dpc' = "decrement" <=> dpc = "decrement"
  BY DEF ReclaimSwap, Signal, RequestShutdown, DaemonPoll, DaemonStop, PollAgain,
    RunFullBatch, RunOverdueBatch, ProcessBatch, CompleteWrite, vars, daemonVars
<1> QED
  BY <1>1, <1>2, SameCount, Zenon DEF Queued, Uncounted, Undecremented

\* ready_count is accurate up to the updates still to be made, whatever the number of
\* threads and the width of the word: it never drifts.
THEOREM ReadyCountNeverDrifts == Spec => []ReadyCountAccurate
<1> DEFINE Accurate == ready = Net % ReadyModulus
<1>1. Init => Accurate
  <2> SUFFICES ASSUME Init PROVE Accurate
    OBVIOUS
  <2>1. Queued = {} /\ Uncounted = {} /\ Undecremented = 0 /\ ready = 0
    BY DEF Init, Queued, Uncounted, Undecremented
  <2>2. Net = 0
    BY <2>1, FS_EmptySet DEF Net
  <2>3. 0 % ReadyModulus = 0
    BY RingAssumption, Z3
  <2> QED
    BY <2>1, <2>2, <2>3, Zenon
<1>2. IInv /\ Accurate /\ [Next]_vars => Accurate'
  BY ThreadCount, StoreCount, CountCount, TakenCount, ConsumeCount, OtherCount, Zenon
  DEF Next, Thread, Reclaimer, Daemon
<1>3. Accurate => ReadyCountAccurate
  BY Zenon DEF ReadyCountAccurate, Net, Queued, Uncounted, Undecremented
<1> QED
  BY <1>1, <1>2, <1>3, Invariance, PTL DEF Spec

-----------------------------------------------------------------------------
(* The ring implements RingLifecycle.                                      *)

phases == [q \in 0 .. MaxRequests - 1 |-> Phase(q)]

\* The phase of a position, case by case.
LEMMA PhaseCases ==
  ASSUME TypeOK, NEW q \in Nat
  PROVE  /\ q >= enqueue => Phase(q) = "unclaimed"
         /\ q < enqueue /\ seq[Slot(q)] <= q => Phase(q) = "held"
         /\ q < enqueue /\ seq[Slot(q)] = q + 1 /\ dequeue <= q => Phase(q) = "queued"
         /\ q < enqueue /\ seq[Slot(q)] = q + 1 /\ dequeue > q => Phase(q) = "staged"
         /\ q < enqueue /\ seq[Slot(q)] = q + 2 => Phase(q) = "done"
         /\ q < enqueue /\ seq[Slot(q)] > q + 2 => Phase(q) = "released"
<1>1. enqueue \in Nat /\ dequeue \in Nat /\ seq[Slot(q)] \in Nat
  BY SlotType DEF TypeOK
<1> QED
  BY <1>1 DEF Phase

\* An advance of position q's word leaves the phase of every other position.
LEMMA OtherPhases ==
  ASSUME IInv, TypeOK', NEW q \in Nat, q < enqueue, seq[Slot(q)] \in q .. q + 2,
         NEW n \in Nat, n >= q, n <= q + Capacity, seq' = [seq EXCEPT ![Slot(q)] = n],
         UNCHANGED <<enqueue, dequeue>>,
         NEW r \in Nat, r # q
  PROVE  Phase(r)' = Phase(r)
<1>1. /\ TypeOK /\ enqueue \in Nat /\ dequeue \in Nat /\ seq \in [Slots -> Nat]
      /\ Slot(r) \in Slots /\ Slot(q) \in Slots
  BY SlotType, Zenon DEF IInv, TypeOK
<1>2. CASE Slot(r) # Slot(q)
  <2>1. seq'[Slot(r)] = seq[Slot(r)]
    BY <1>1, <1>2
  <2> QED
    BY <2>1 DEF Phase
<1>3. CASE Slot(r) = Slot(q)
  <2>1. seq[Slot(r)] \in q .. q + 2 /\ seq'[Slot(r)] = n
    BY <1>1, <1>3
  <2>2. CASE r < q
    <3>1. r + Capacity <= q
      BY <1>3, <2>2, SlotGap
    <3>2. seq[Slot(r)] > r + 2 /\ seq'[Slot(r)] > r + 2 /\ r < enqueue
      BY <1>1, <2>1, <3>1, RingAssumption
    <3> QED
      BY <1>1, <3>2, PhaseCases DEF Phase
  <2>3. CASE r > q
    <3>1. q + Capacity <= r
      BY <1>3, <2>3, SlotGap
    <3>2. seq[Slot(r)] <= r /\ seq'[Slot(r)] <= r
      BY <1>1, <2>1, <3>1, RingAssumption
    <3> QED
      BY <1>1, <3>2 DEF Phase
  <2> QED
    BY <2>2, <2>3
<1> QED
  BY <1>2, <1>3

\* A step that changes the phase of q alone is q's advance, or a stutter when q
\* is beyond the positions that are watched.
LEMMA OneAdvances ==
  ASSUME NEW q \in Nat, NEW a, NEW b, Phase(q) = a, Phase(q)' = b,
         \A r \in Nat : r # q => Phase(r)' = Phase(r)
  PROVE  \/ q \in 0 .. MaxRequests - 1 /\ Lifecycle!Advance(q, a, b)
         \/ phases' = phases
<1>1. CASE q \in 0 .. MaxRequests - 1
  <2>1. \A r \in 0 .. MaxRequests - 1 : Phase(r)' = IF r = q THEN b ELSE Phase(r)
    BY <1>1, RingAssumption
  <2>2. phases' = [r \in 0 .. MaxRequests - 1 |-> IF r = q THEN b ELSE Phase(r)]
    BY <2>1 DEF phases
  <2>3. phases' = [phases EXCEPT ![q] = b]
    BY <2>2, Zenon DEF phases
  <2> QED
    BY <1>1, <2>3 DEF phases, Lifecycle!Advance
<1>2. CASE q \notin 0 .. MaxRequests - 1
  BY <1>2, RingAssumption DEF phases
<1> QED
  BY <1>1, <1>2

\* A step that leaves the cursors and the sequence words leaves every phase.
LEMMA SamePhases ==
  ASSUME UNCHANGED <<enqueue, dequeue, seq>>
  PROVE  phases' = phases
BY DEF phases, Phase

\* reserve_slot's exchange claims the next position, whose slot was released.
LEMMA CasStep ==
  ASSUME IInv, IInv', NEW p \in Producers, ReserveCas(p)
  PROVE  Lifecycle!Next \/ phases' = phases
<1>1. CASE UNCHANGED enqueue
  BY <1>1, SamePhases DEF ReserveCas
<1>2. CASE CasMatches(p) /\ enqueue' = enqueue + 1
  <2> PICK q \in Nat : q = enqueue
    BY DEF IInv, TypeOK
  <2>1. /\ TypeOK /\ TypeOK' /\ seq[Slot(q)] = q /\ UNCHANGED <<seq, dequeue>>
        /\ enqueue' = q + 1 /\ dequeue \in Nat /\ dequeue <= q
    BY <1>2, Zenon DEF IInv, TypeOK, ThreadWord, ThreadWordOf, CursorWord, CasMatches, ReserveCas
  <2>2. Phase(q) = "unclaimed" /\ Phase(q)' = "held"
    BY <2>1, PhaseCases DEF Phase
  <2>3. \A r \in Nat : r # q => Phase(r)' = Phase(r)
    BY <2>1 DEF Phase
  <2>4. \A r \in 0 .. q - 1 : Phase(r) # "unclaimed"
    BY <2>1 DEF Phase
  <2>5. q >= Capacity => Phase(q - Capacity) = "released"
    <3> SUFFICES ASSUME q >= Capacity PROVE Phase(q - Capacity) = "released"
      OBVIOUS
    <3>1. q - Capacity \in Nat /\ (q - Capacity) + Capacity = q
      BY <2>1, RingAssumption
    <3>2. Slot(q - Capacity) = Slot(q)
      BY <3>1, SlotLap
    <3>3. q > (q - Capacity) + 2 /\ q - Capacity < enqueue
      BY <2>1, RingAssumption
    <3> QED
      BY <2>1, <3>1, <3>2, <3>3, PhaseCases
  <2>6. ASSUME q \in 0 .. MaxRequests - 1, Lifecycle!Advance(q, "unclaimed", "held")
        PROVE  Lifecycle!Next
    <3>1. \A r \in 0 .. q - 1 : phases[r] # "unclaimed"
      BY <2>4, <2>6, RingAssumption DEF phases
    <3>2. q >= Capacity => phases[q - Capacity] = "released"
      BY <2>5, <2>6, RingAssumption DEF phases
    <3>3. Lifecycle!Claim(q)
      BY <2>6, <3>1, <3>2 DEF Lifecycle!Claim, phases
    <3> QED
      BY <2>6, <3>3 DEF Lifecycle!Next, Lifecycle!Position
  <2> QED
    BY <2>1, <2>2, <2>3, <2>6, OneAdvances
<1> QED
  BY <1>1, <1>2 DEF ReserveCas

\* publish_success and publish_cancel publish a held position.
LEMMA PublishStep ==
  ASSUME IInv, IInv', NEW p \in Producers, StoreSequence(p)
  PROVE  Lifecycle!Next \/ phases' = phases
<1> PICK q \in Nat : q = pos[p]
  BY DEF IInv, TypeOK
<1>1. /\ TypeOK /\ TypeOK' /\ q < enqueue /\ seq[Slot(q)] = q /\ Slot(q) \in Slots
      /\ seq \in [Slots -> Nat] /\ dequeue \in Nat /\ enqueue \in Nat
  BY SlotType, Zenon DEF IInv, TypeOK, ThreadWord, ThreadWordOf, StoreSequence, Owning, Unpublished
<1>2. seq' = [seq EXCEPT ![Slot(q)] = q + 1] /\ UNCHANGED <<enqueue, dequeue>>
  BY DEF StoreSequence
<1>3. dequeue <= q
  <2>1. Taken \in Nat
    BY <1>1, TakenType
  <2> QED
    BY <1>1, <2>1 DEF IInv, CursorWord
<1>4. Phase(q) = "held" /\ Phase(q)' = "queued"
  BY <1>1, <1>2, <1>3 DEF Phase
<1>5. \A r \in Nat : r # q => Phase(r)' = Phase(r)
  <2>1. q + 1 <= q + Capacity /\ q + 1 \in Nat /\ q + 1 >= q /\ seq[Slot(q)] \in q .. q + 2
    BY <1>1, RingAssumption
  <2> QED
    BY <1>1, <1>2, <2>1, OtherPhases, Zenon
<1>6. q \in 0 .. MaxRequests - 1 /\ Lifecycle!Advance(q, "held", "queued") => Lifecycle!Next
  BY DEF Lifecycle!Next, Lifecycle!Publish, Lifecycle!Position
<1> QED
  BY <1>1, <1>4, <1>5, <1>6, OneAdvances

\* A release, by the thread or by the reclaimer, frees a completed position.
LEMMA ReleaseStep ==
  ASSUME IInv, IInv', NEW q \in Nat, q < enqueue, seq[Slot(q)] = q + 2,
         seq' = [seq EXCEPT ![Slot(q)] = q + Capacity], UNCHANGED <<enqueue, dequeue>>
  PROVE  Lifecycle!Next \/ phases' = phases
<1>1. /\ TypeOK /\ TypeOK' /\ Slot(q) \in Slots /\ seq \in [Slots -> Nat]
      /\ enqueue \in Nat /\ dequeue \in Nat
  BY SlotType, Zenon DEF IInv, TypeOK
<1>2. q + Capacity > q + 2 /\ q + Capacity \in Nat /\ q + Capacity <= q + Capacity
      /\ q + Capacity >= q /\ seq[Slot(q)] \in q .. q + 2
  BY <1>1, RingAssumption
<1>3. Phase(q) = "done" /\ Phase(q)' = "released"
  BY <1>1, <1>2 DEF Phase
<1>4. \A r \in Nat : r # q => Phase(r)' = Phase(r)
  BY <1>1, <1>2, OtherPhases, Zenon
<1>5. q \in 0 .. MaxRequests - 1 /\ Lifecycle!Advance(q, "done", "released") => Lifecycle!Next
  BY DEF Lifecycle!Next, Lifecycle!Release, Lifecycle!Position
<1> QED
  BY <1>3, <1>4, <1>5, OneAdvances

\* try_consume takes the oldest position not yet taken.
LEMMA TakeStep ==
  ASSUME IInv, IInv', Consume
  PROVE  Lifecycle!Next \/ phases' = phases
<1> PICK q \in Nat : q = dequeue
  BY DEF IInv, TypeOK
<1>1. /\ TypeOK /\ enqueue \in Nat /\ q < enqueue /\ seq[Slot(q)] = q + 1
      /\ dequeue' = q + 1 /\ UNCHANGED <<enqueue, seq>> /\ seq \in [Slots -> Nat]
  <2>1. q < enqueue
    BY NextReadyClaimed DEF Consume
  <2> QED
    BY <2>1 DEF IInv, TypeOK, Consume, NextReady
<1>2. Phase(q) = "queued" /\ Phase(q)' = "staged"
  BY <1>1 DEF Phase
<1>3. \A r \in Nat : r # q => Phase(r)' = Phase(r)
  BY <1>1 DEF Phase
<1>4. ASSUME NEW r \in 0 .. q - 1 PROVE Phase(r) \in {"staged", "done", "released"}
  <2>1. Taken \in Nat /\ r \in Nat /\ seq[Slot(r)] \in Nat
    BY <1>1, TakenType, SlotType
  <2>2. seq[Slot(r)] > r
    BY <1>1, <2>1 DEF IInv, CursorWord
  <2>3. r < enqueue /\ r < dequeue
    BY <1>1
  <2>4. seq[Slot(r)] = r + 1 \/ seq[Slot(r)] = r + 2 \/ seq[Slot(r)] > r + 2
    BY <2>1, <2>2
  <2> QED
    BY <1>1, <2>1, <2>3, <2>4, PhaseCases
<1>5. ASSUME q \in 0 .. MaxRequests - 1, Lifecycle!Advance(q, "queued", "staged")
      PROVE  Lifecycle!Next
  <2>1. \A r \in 0 .. q - 1 : phases[r] \in Lifecycle!Consumed
    BY <1>4, <1>5, RingAssumption DEF phases, Lifecycle!Consumed
  <2>2. Lifecycle!Take(q)
    BY <1>5, <2>1 DEF Lifecycle!Take, phases
  <2> QED
    BY <1>5, <2>2 DEF Lifecycle!Next, Lifecycle!Position
<1> QED
  BY <1>1, <1>2, <1>3, <1>5, OneAdvances

\* SharedRing::complete completes a position of the batch.
LEMMA CompleteStep ==
  ASSUME IInv, IInv', CompleteStore
  PROVE  Lifecycle!Next \/ phases' = phases
<1>1. dpc \in {"write", "store"} /\ 1 \in 1 .. Len(plan)
  <2>1. dpc = "store" /\ TypeOK /\ BatchShape
    BY Zenon DEF CompleteStore, IInv
  <2> QED
    BY <2>1 DEF TypeOK, BatchShape
<1> PICK q \in Nat : q = plan[1].position
  BY <1>1, PlanWord
<1>2. /\ q < dequeue /\ plan[1].slot = Slot(q) /\ Slot(q) \in Slots
      /\ seq[Slot(q)] = q + 1
  BY <1>1, PlanWord
<1>3. /\ TypeOK /\ TypeOK' /\ dequeue \in Nat /\ enqueue \in Nat /\ q < enqueue
      /\ seq \in [Slots -> Nat]
  <2>1. TypeOK /\ CursorWord
    BY Zenon DEF IInv
  <2>2. TypeOK'
    BY Zenon DEF IInv
  <2>3. /\ dequeue \in Nat /\ enqueue \in Nat /\ dequeue <= enqueue
        /\ seq \in [Slots -> Nat]
    BY <2>1, Zenon DEF TypeOK, CursorWord
  <2> QED
    BY <1>2, <2>1, <2>2, <2>3
<1>4. seq' = [seq EXCEPT ![Slot(q)] = q + 2] /\ UNCHANGED <<enqueue, dequeue>>
  BY <1>2 DEF CompleteStore
<1>5. Phase(q) = "staged" /\ Phase(q)' = "done"
  BY <1>2, <1>3, <1>4 DEF Phase
<1>6. \A r \in Nat : r # q => Phase(r)' = Phase(r)
  <2>1. q + 2 <= q + Capacity /\ q + 2 \in Nat /\ q + 2 >= q /\ seq[Slot(q)] \in q .. q + 2
    BY <1>2, RingAssumption
  <2> QED
    BY <1>2, <1>3, <1>4, <2>1, OtherPhases, Zenon
<1>7. q \in 0 .. MaxRequests - 1 /\ Lifecycle!Advance(q, "staged", "done") => Lifecycle!Next
  BY DEF Lifecycle!Next, Lifecycle!Complete, Lifecycle!Position
<1> QED
  BY <1>2, <1>5, <1>6, <1>7, OneAdvances
-----------------------------------------------------------------------------

\* In a fresh segment no position is claimed.
LEMMA LifecycleInit == Init => Lifecycle!Init
<1> SUFFICES ASSUME Init PROVE Lifecycle!Init
  OBVIOUS
<1>1. \A q \in 0 .. MaxRequests - 1 : Phase(q) = "unclaimed"
  BY RingAssumption DEF Init, Phase
<1> QED
  BY <1>1 DEF Lifecycle!Init, Lifecycle!Position

\* Every step of the ring is a step of the life cycle or leaves it unchanged.
LEMMA LifecycleStep ==
  ASSUME IInv, IInv', [Next]_vars
  PROVE  Lifecycle!Next \/ phases' = phases
<1>1. ASSUME NEW p \in Producers, Submit(p) \/ Thread(p)
      PROVE  Lifecycle!Next \/ phases' = phases
  <2>1. CASE ReserveCas(p)
    BY <2>1, CasStep
  <2>2. CASE StoreSequence(p)
    BY <2>2, PublishStep
  <2>3. CASE Release(p)
    <3>1. pos[p] \in Nat /\ pos[p] < enqueue /\ seq[Slot(pos[p])] = pos[p] + 2
      BY <2>3, Zenon DEF Release, IInv, TypeOK, ThreadWord, ThreadWordOf, Owning, Published
    <3> QED
      BY <2>3, <3>1, ReleaseStep, Zenon DEF Release
  <2>4. CASE \/ Submit(p) \/ ReserveTimeout(p) \/ ReserveLoad(p) \/ ReserveCompare(p)
             \/ WriteRequest(p) \/ WriteCancel(p) \/ CountReady(p) \/ SeeResponse(p)
             \/ WaitTimeout(p) \/ ReadResponse(p) \/ Handoff(p) \/ Push(p)
    BY <2>4, SamePhases, Zenon
       DEF Submit, ReserveTimeout, ReserveLoad, ReserveCompare, WriteRequest, WriteCancel,
           CountReady, SeeResponse, WaitTimeout, ReadResponse, Handoff, Push, segmentVars
  <2> QED
    BY <1>1, <2>1, <2>2, <2>3, <2>4 DEF Thread
<1>2. CASE ReclaimSwap
  BY <1>2, SamePhases DEF ReclaimSwap, segmentVars
<1>3. ASSUME NEW q \in scan, ReclaimScan(q) PROVE Lifecycle!Next \/ phases' = phases
  <2>1. CASE Completed(q) /\ seq' = [seq EXCEPT ![Slot(q)] = q + Capacity]
    <3>1. q \in Nat /\ q < enqueue /\ seq[Slot(q)] = q + 2
      BY <2>1 DEF IInv, TypeOK, Distinct, ReclaimWord, Completed
    <3> QED
      BY <1>3, <2>1, <3>1, ReleaseStep, Zenon DEF ReclaimScan
  <2>2. CASE UNCHANGED seq
    BY <1>3, <2>2, SamePhases DEF ReclaimScan
  <2> QED
    BY <1>3, <2>1, <2>2 DEF ReclaimScan
<1>4. CASE Daemon
  <2>1. CASE Consume
    BY <2>1, TakeStep
  <2>2. CASE CompleteStore
    BY <2>2, CompleteStep
  <2>3. CASE \/ DaemonPoll \/ DaemonStop \/ DecrementReady \/ PollAgain \/ RunFullBatch
             \/ RunOverdueBatch \/ ProcessBatch \/ CompleteWrite
    BY <2>3, SamePhases
       DEF DaemonPoll, DaemonStop, DecrementReady, PollAgain, RunFullBatch, RunOverdueBatch,
           ProcessBatch, CompleteWrite, segmentVars
  <2> QED
    BY <1>4, <2>1, <2>2, <2>3 DEF Daemon
<1>5. CASE Signal \/ RequestShutdown \/ UNCHANGED vars
  BY <1>5, SamePhases DEF Signal, RequestShutdown, vars, segmentVars
<1> QED
  BY <1>1, <1>2, <1>3, <1>4, <1>5 DEF Next, Reclaimer

\* The ring of the gateway and the daemon implements the life cycle, for any
\* number of threads, capacity, batch size and number of watched positions.
THEOREM Refinement == Spec => ImplementsLifecycle
<1>1. IInv /\ IInv' /\ [Next]_vars => [Lifecycle!Next]_phases
  BY LifecycleStep
<1>2. IInv /\ IInv' /\ [Next]_vars => [Lifecycle!Next]_[q \in 0 .. MaxRequests - 1 |-> Phase(q)]
  BY <1>1 DEF phases
<1> QED
  BY <1>2, LifecycleInit, Invariance, PTL DEF Spec, ImplementsLifecycle, Lifecycle!Spec

-----------------------------------------------------------------------------
(* What the life cycle promises holds of the ring: it follows from         *)
(* ImplementsLifecycle alone, and Phase stays folded.                      *)

\* Claims and takes are in order, and a claim waits for the previous lap.
ClaimsInOrder ==
  \A q, r \in Lifecycle!Position :
    q < r /\ phases[r] # "unclaimed" => phases[q] # "unclaimed"
TakesInOrder ==
  \A q, r \in Lifecycle!Position :
    q < r /\ phases[r] \in Lifecycle!Consumed => phases[q] \in Lifecycle!Consumed
LapOver ==
  \A q \in Lifecycle!Position :
    q >= Capacity /\ phases[q] # "unclaimed" => phases[q - Capacity] = "released"

InOrder == ClaimsInOrder /\ TakesInOrder /\ LapOver

PhasesTyped == phases \in [Lifecycle!Position -> Lifecycle!Phases]

\* A step of the life cycle, in terms of phases.
LEMMA LifecycleMoves ==
  ASSUME Lifecycle!Next
  PROVE  \E q \in Lifecycle!Position, b \in Lifecycle!Phases :
           /\ phases' = [phases EXCEPT ![q] = b]
           /\ \/ /\ phases[q] = "unclaimed" /\ b = "held"
                 /\ \A r \in 0 .. q - 1 : phases[r] # "unclaimed"
                 /\ q >= Capacity => phases[q - Capacity] = "released"
              \/ /\ phases[q] = "queued" /\ b = "staged"
                 /\ \A r \in 0 .. q - 1 : phases[r] \in Lifecycle!Consumed
              \/ phases[q] = "held" /\ b = "queued"
              \/ phases[q] = "staged" /\ b = "done"
              \/ phases[q] = "done" /\ b = "released"
BY Zenon DEF Lifecycle!Next, Lifecycle!Claim, Lifecycle!Publish, Lifecycle!Take,
   Lifecycle!Complete, Lifecycle!Release, Lifecycle!Advance, Lifecycle!Phases, phases

\* Every step of the life cycle keeps the positions in order.
LEMMA AdvanceOrder ==
  ASSUME PhasesTyped, InOrder, Lifecycle!Next
  PROVE  PhasesTyped' /\ InOrder'
<1>1. PICK q \in Lifecycle!Position, b \in Lifecycle!Phases :
        /\ phases' = [phases EXCEPT ![q] = b]
        /\ \/ /\ phases[q] = "unclaimed" /\ b = "held"
              /\ \A r \in 0 .. q - 1 : phases[r] # "unclaimed"
              /\ q >= Capacity => phases[q - Capacity] = "released"
           \/ /\ phases[q] = "queued" /\ b = "staged"
              /\ \A r \in 0 .. q - 1 : phases[r] \in Lifecycle!Consumed
           \/ phases[q] = "held" /\ b = "queued"
           \/ phases[q] = "staged" /\ b = "done"
           \/ phases[q] = "done" /\ b = "released"
  BY LifecycleMoves, Zenon
<1>2. q \in Nat /\ Lifecycle!Position \subseteq Nat /\ Capacity \in Nat \ {0}
  BY RingAssumption DEF Lifecycle!Position
<1>3. PhasesTyped'
  BY <1>1 DEF PhasesTyped, Lifecycle!Position, Lifecycle!Phases
<1>4. /\ phases'[q] = b
      /\ \A r \in Lifecycle!Position : r # q => phases'[r] = phases[r]
  BY <1>1 DEF PhasesTyped
<1>5. /\ phases[q] # "released" /\ b # "unclaimed"
      /\ phases[q] \in Lifecycle!Consumed => b \in Lifecycle!Consumed
  BY <1>1 DEF Lifecycle!Consumed
<1>6. ClaimsInOrder'
  <2> SUFFICES ASSUME NEW k \in Lifecycle!Position, NEW r \in Lifecycle!Position, k < r,
                      phases'[r] # "unclaimed"
               PROVE  phases'[k] # "unclaimed"
    BY Zenon DEF ClaimsInOrder, Lifecycle!Position
  <2>1. phases[r] # "unclaimed" => phases[k] # "unclaimed"
    BY Zenon DEF InOrder, ClaimsInOrder
  <2>2. phases[r] = "unclaimed" => r = q
    BY <1>4, Zenon
  <2>3. r = q /\ phases[q] = "unclaimed" => phases[k] # "unclaimed"
    <3>1. r = q => k \in 0 .. q - 1
      BY <1>2
    <3> QED
      BY <1>1, <3>1, Zenon
  <2> QED
    BY <1>4, <1>5, <2>1, <2>2, <2>3, Zenon
<1>7. TakesInOrder'
  <2> SUFFICES ASSUME NEW k \in Lifecycle!Position, NEW r \in Lifecycle!Position, k < r,
                      phases'[r] \in Lifecycle!Consumed
               PROVE  phases'[k] \in Lifecycle!Consumed
    BY Zenon DEF TakesInOrder, Lifecycle!Position, Lifecycle!Consumed
  <2>1. phases[r] \in Lifecycle!Consumed => phases[k] \in Lifecycle!Consumed
    BY Zenon DEF InOrder, TakesInOrder
  <2>2. r = q /\ phases[q] \notin Lifecycle!Consumed => phases[k] \in Lifecycle!Consumed
    <3> SUFFICES ASSUME r = q, phases[q] \notin Lifecycle!Consumed
                 PROVE  phases[k] \in Lifecycle!Consumed
      OBVIOUS
    <3>1. b \in Lifecycle!Consumed
      BY <1>4, Zenon
    <3> QED
      BY <1>1, <1>2, <3>1 DEF Lifecycle!Consumed
  <2> QED
    BY <1>4, <1>5, <2>1, <2>2, Zenon
<1>8. LapOver'
  <2> SUFFICES ASSUME NEW r \in Lifecycle!Position, r >= Capacity, phases'[r] # "unclaimed"
               PROVE  phases'[r - Capacity] = "released"
    BY Zenon DEF LapOver, Lifecycle!Position
  <2>1. r - Capacity \in Lifecycle!Position
    BY <1>2, RingAssumption DEF Lifecycle!Position
  <2>2. phases[r - Capacity] = "released"
    <3>1. CASE phases[r] # "unclaimed"
      BY <3>1 DEF InOrder, LapOver
    <3>2. CASE phases[r] = "unclaimed"
      <4>1. r = q
        BY <1>4, <3>2, Zenon
      <4> QED
        BY <1>1, <3>2, <4>1
    <3> QED
      BY <3>1, <3>2, Zenon
  <2> QED
    BY <1>4, <1>5, <2>1, <2>2, Zenon
<1> QED
  BY <1>3, <1>6, <1>7, <1>8, Zenon DEF InOrder

\* Positions are claimed in order (reserve_slot), taken in order (try_consume), and
\* claimed only when the previous lap's position of the slot is released.
THEOREM OrderInvariant == ImplementsLifecycle => [](PhasesTyped /\ InOrder)
<1>1. Lifecycle!Init => PhasesTyped /\ InOrder
  BY RingAssumption DEF Lifecycle!Init, PhasesTyped, InOrder, ClaimsInOrder, TakesInOrder, LapOver, Lifecycle!Phases,
     Lifecycle!Consumed, Lifecycle!Position, phases
<1>2. PhasesTyped /\ InOrder /\ [Lifecycle!Next]_[q \in 0 .. MaxRequests - 1 |-> Phase(q)]
        => (PhasesTyped /\ InOrder)'
  <2> SUFFICES ASSUME PhasesTyped, InOrder,
                      [Lifecycle!Next]_[q \in 0 .. MaxRequests - 1 |-> Phase(q)]
               PROVE  (PhasesTyped /\ InOrder)'
    OBVIOUS
  <2>1. CASE Lifecycle!Next
    BY <2>1, AdvanceOrder
  <2>2. CASE phases' = phases
    BY <2>2 DEF PhasesTyped, InOrder, ClaimsInOrder, TakesInOrder, LapOver, Lifecycle!Position, Lifecycle!Consumed, Lifecycle!Phases
  <2> QED
    BY <2>1, <2>2 DEF phases
<1> QED
  BY <1>1, <1>2, PTL DEF ImplementsLifecycle, Lifecycle!Spec

\* While a position of the ring is in use, nothing a lap or more ahead of it is claimed:
\* a slot never serves two positions at once (reserve_slot).
THEOREM LapBound == Spec => []Lifecycle!WithinOneLap
<1>1. PhasesTyped /\ InOrder => Lifecycle!WithinOneLap
  <2> SUFFICES ASSUME PhasesTyped, InOrder, NEW q \in Lifecycle!Position, NEW r \in Lifecycle!Position,
                      phases[q] \in Lifecycle!InUse, r >= q + Capacity, phases[r] # "unclaimed"
               PROVE  FALSE
    BY Zenon DEF Lifecycle!WithinOneLap, phases
  <2>1. Capacity \in Nat /\ q \in Nat /\ r \in Nat /\ q + Capacity \in Lifecycle!Position
    BY RingAssumption DEF Lifecycle!Position
  <2>2. phases[q + Capacity] # "unclaimed"
    <3>1. CASE r = q + Capacity
      BY <3>1
    <3>2. CASE r # q + Capacity
      <4>1. q + Capacity < r
        BY <2>1, <3>2
      <4> QED
        BY <2>1, <4>1 DEF InOrder, ClaimsInOrder
    <3> QED
      BY <3>1, <3>2
  <2>3. q + Capacity >= Capacity /\ (q + Capacity) - Capacity = q
    BY <2>1
  <2>4. phases[q] = "released"
    BY <2>1, <2>2, <2>3 DEF InOrder, LapOver
  <2> QED
    BY <2>4 DEF Lifecycle!InUse
<1> QED
  BY <1>1, Refinement, OrderInvariant, PTL

\* Nothing behind a position not taken yet, an unpublished reservation included, is
\* taken by the daemon (try_consume).
THEOREM HeadOfLine == Spec => []Lifecycle!NothingOvertakesHole
<1>1. PhasesTyped /\ InOrder => Lifecycle!NothingOvertakesHole
  BY Zenon DEF InOrder, TakesInOrder, Lifecycle!NothingOvertakesHole, Lifecycle!Consumed, phases
<1> QED
  BY <1>1, Refinement, OrderInvariant, PTL
=============================================================================
