---------------------------- MODULE Fifo_proofs ----------------------------
(***************************************************************************)
(* The FIFO's invariants, and that it implements BoundedQueue, for every   *)
(* depth and every set of words.                                           *)
(***************************************************************************)
EXTENDS Fifo, SequenceTheorems, TLAPS

\* The invariant that is inductive: pointers and level agree.
IInv == TypeOK /\ PointersAgree

-----------------------------------------------------------------------------
(* A pointer that advances stays inside the ring.                            *)
LEMMA AdvanceInSlots ==
  ASSUME NEW p \in Slots
  PROVE  Advance(p) \in Slots
  BY FifoAssumption DEF Slots, Advance

(* The initial ring is empty, its pointers together.                         *)
LEMMA InitIInv == Init => IInv
  BY FifoAssumption DEF Init, IInv, TypeOK, PointersAgree, SlotOf, Wrapped, Slots

(* One clock keeps level and pointers together, with a put, a get, both or   *)
(* neither taking effect.                                                    *)
LEMMA ClockIInv ==
  ASSUME IInv, NEW put \in BOOLEAN, NEW get \in BOOLEAN, NEW d \in Values,
         Clock(put, get, d)
  PROVE  IInv'
<1> DEFINE puts == put /\ full_bar
           gets == get /\ empty_bar
<1> USE FifoAssumption DEF IInv
<1>1. CASE puts /\ gets
  <2>1. /\ mem' = [mem EXCEPT ![wr_ptr] = d] /\ wr_ptr' = Advance(wr_ptr)
        /\ data_out' = mem[rd_ptr] /\ rd_ptr' = Advance(rd_ptr)
        /\ count' = count
    BY <1>1 DEF Clock, Write, Read, CountAfter
  <2>2. TypeOK'
    BY <2>1, AdvanceInSlots DEF TypeOK
  <2>3. PointersAgree'
    BY <2>1 DEF TypeOK, PointersAgree, SlotOf, Wrapped, Slots, Advance
  <2> QED BY <2>2, <2>3
<1>2. CASE puts /\ ~gets
  <2>1. /\ mem' = [mem EXCEPT ![wr_ptr] = d] /\ wr_ptr' = Advance(wr_ptr)
        /\ UNCHANGED <<data_out, rd_ptr>> /\ count' = count + 1
    BY <1>2 DEF Clock, Write, CountAfter
  <2>2. count # DEPTH
    BY <1>2 DEF full_bar
  <2>3. TypeOK'
    BY <2>1, <2>2, AdvanceInSlots DEF TypeOK
  <2>4. PointersAgree'
    BY <2>1, <2>2 DEF TypeOK, PointersAgree, SlotOf, Wrapped, Slots, Advance
  <2> QED BY <2>3, <2>4
<1>3. CASE ~puts /\ gets
  <2>1. /\ UNCHANGED <<mem, wr_ptr>> /\ data_out' = mem[rd_ptr]
        /\ rd_ptr' = Advance(rd_ptr) /\ count' = count - 1
    BY <1>3 DEF Clock, Read, CountAfter
  <2>2. count # 0
    BY <1>3 DEF empty_bar
  <2>3. TypeOK'
    BY <2>1, <2>2, AdvanceInSlots DEF TypeOK
  <2>4. PointersAgree'
    BY <2>1, <2>2 DEF TypeOK, PointersAgree, SlotOf, Wrapped, Slots, Advance
  <2> QED BY <2>3, <2>4
<1>4. CASE ~puts /\ ~gets
  <2>1. UNCHANGED vars
    BY <1>4 DEF Clock, CountAfter, vars
  <2> QED BY <2>1 DEF vars, TypeOK, PointersAgree, SlotOf, Wrapped
<1> QED BY <1>1, <1>2, <1>3, <1>4

(* A step of the specification preserves the invariant.                      *)
LEMMA NextIInv == IInv /\ [Next]_vars => IInv'
<1> SUFFICES ASSUME IInv, [Next]_vars PROVE IInv'
  OBVIOUS
<1>1. ASSUME NEW put \in BOOLEAN, NEW get \in BOOLEAN, NEW d \in Values,
             Clock(put, get, d)
      PROVE  IInv'
  BY <1>1, ClockIInv
<1>2. CASE Reset
  BY <1>2, FifoAssumption DEF Reset, IInv, TypeOK, PointersAgree, SlotOf, Wrapped, Slots
<1>3. CASE UNCHANGED vars
  BY <1>3 DEF vars, IInv, TypeOK, PointersAgree, SlotOf, Wrapped
<1> QED BY <1>1, <1>2, <1>3 DEF Next

(* fifo.v keeps its pointers inside the ring and its level within DEPTH.     *)
THEOREM TypeCorrect == Spec => []TypeOK
<1>1. IInv => TypeOK
  BY DEF IInv
<1> QED BY InitIInv, NextIInv, <1>1, PTL DEF Spec

(* The level that fillcount, full and empty report is the distance between   *)
(* the pointers of fifo.v.                                                   *)
THEOREM LevelIsDistance == Spec => []PointersAgree
<1>1. IInv => PointersAgree
  BY DEF IInv
<1> QED BY InitIInv, NextIInv, <1>1, PTL DEF Spec

-----------------------------------------------------------------------------
\* The words in the n slots of memory m that start at slot r.
Ring(m, r, n) == [i \in 1..n |-> m[Wrapped(r + i - 1)]]

(* The slots of a ring, read in order, are a sequence of words.              *)
LEMMA RingIsSequence ==
  ASSUME NEW m \in [Slots -> Values], NEW r \in Slots, NEW n \in 0..DEPTH
  PROVE  /\ Ring(m, r, n) \in Seq(Values)
         /\ Len(Ring(m, r, n)) = n
         /\ \A i \in 1..n : Ring(m, r, n)[i] = m[Wrapped(r + i - 1)]
<1>1. \A i \in 1..n : Wrapped(r + i - 1) \in Slots
  BY FifoAssumption DEF Slots, Wrapped
<1>2. Ring(m, r, n) \in [1..n -> Values]
  BY <1>1 DEF Ring
<1>3. n \in Nat
  BY FifoAssumption
<1>4. Ring(m, r, n) \in Seq(Values)
  BY <1>2, <1>3, SeqDef
<1>5. Len(Ring(m, r, n)) = n
  BY <1>2, <1>3, <1>4, LenProperties
<1> QED BY <1>4, <1>5 DEF Ring

(* The contents before and after a step are rings over the registers.        *)
LEMMA ContentsAreRings ==
  /\ contents = Ring(mem, rd_ptr, count)
  /\ contents' = Ring(mem', rd_ptr', count')
  BY Zenon DEF contents, SlotOf, Ring

(* A write into a ring that is not full appends a word.                      *)
LEMMA WriteAppends ==
  ASSUME IInv, count # DEPTH, NEW d \in Values
  PROVE  Ring([mem EXCEPT ![wr_ptr] = d], rd_ptr, count + 1)
           = Append(Ring(mem, rd_ptr, count), d)
<1> DEFINE old == Ring(mem, rd_ptr, count)
           written == [mem EXCEPT ![wr_ptr] = d]
           new == Ring(written, rd_ptr, count + 1)
<1>1. /\ mem \in [Slots -> Values] /\ written \in [Slots -> Values]
      /\ rd_ptr \in Slots /\ wr_ptr \in Slots
      /\ count \in 0..DEPTH /\ count + 1 \in 0..DEPTH
      /\ wr_ptr = Wrapped(rd_ptr + count)
  BY FifoAssumption DEF IInv, TypeOK, PointersAgree, SlotOf, Wrapped, Slots
<1>2. /\ new \in Seq(Values) /\ Len(new) = count + 1
      /\ \A i \in 1..count + 1 : new[i] = written[Wrapped(rd_ptr + i - 1)]
  BY <1>1, RingIsSequence, ZenonT(60)
<1>3. /\ old \in Seq(Values) /\ Len(old) = count
      /\ \A i \in 1..count : old[i] = mem[Wrapped(rd_ptr + i - 1)]
  BY <1>1, RingIsSequence
<1> HIDE DEF old, new
<1>4. /\ Append(old, d) \in Seq(Values) /\ Len(Append(old, d)) = count + 1
      /\ \A i \in 1..count : Append(old, d)[i] = old[i]
      /\ Append(old, d)[count + 1] = d
  BY <1>1, <1>3, AppendProperties
<1>5. ASSUME NEW i \in 1..count + 1
      PROVE  new[i] = Append(old, d)[i]
  <2>1. CASE i = count + 1
    <3>1. rd_ptr + i - 1 = rd_ptr + count
      BY <2>1, <1>1 DEF Slots
    <3> QED BY <2>1, <3>1, <1>1, <1>2, <1>4
  <2>2. CASE i # count + 1
    <3>1. i \in 1..count
      BY <2>2, <1>1
    <3>2. Wrapped(rd_ptr + i - 1) # wr_ptr /\ Wrapped(rd_ptr + i - 1) \in Slots
      BY <3>1, <1>1, FifoAssumption DEF Wrapped, Slots
    <3>3. new[i] = mem[Wrapped(rd_ptr + i - 1)]
      BY <3>2, <1>1, <1>2
    <3> QED BY <3>1, <3>3, <1>3, <1>4
  <2> QED BY <2>1, <2>2
<1>6. new = Append(old, d)
  BY <1>2, <1>4, <1>5, SeqEqual
<1> QED BY <1>6 DEF old, new

(* A read of a ring that is not empty takes its head.                        *)
LEMMA ReadTakesHead ==
  ASSUME NEW m \in [Slots -> Values], NEW r \in Slots, NEW n \in 1..DEPTH
  PROVE  /\ Ring(m, r, n) # <<>>
         /\ Head(Ring(m, r, n)) = m[r]
         /\ Ring(m, Advance(r), n - 1) = Tail(Ring(m, r, n))
<1> DEFINE old == Ring(m, r, n)
           new == Ring(m, Advance(r), n - 1)
<1>1. n \in 0..DEPTH /\ n - 1 \in 0..DEPTH /\ Advance(r) \in Slots
  BY FifoAssumption, AdvanceInSlots
<1>2. /\ old \in Seq(Values) /\ Len(old) = n
      /\ \A i \in 1..n : old[i] = m[Wrapped(r + i - 1)]
  BY <1>1, RingIsSequence
<1>3. /\ new \in Seq(Values) /\ Len(new) = n - 1
      /\ \A i \in 1..n - 1 : new[i] = m[Wrapped(Advance(r) + i - 1)]
  BY <1>1, RingIsSequence
<1> HIDE DEF old, new
<1>4. old # <<>>
  BY <1>2, EmptySeq
<1>5. Head(old) = m[r]
  <2>1. Head(old) = old[1] /\ 1 \in 1..n
    BY <1>2, <1>4
  <2>2. Wrapped(r + 1 - 1) = r
    BY FifoAssumption DEF Wrapped, Slots
  <2> QED BY <2>1, <2>2, <1>2
<1>6. /\ Tail(old) \in Seq(Values) /\ Len(Tail(old)) = n - 1
      /\ \A i \in 1..n - 1 : Tail(old)[i] = old[i + 1]
  BY <1>2, <1>4, HeadTailProperties
<1>7. ASSUME NEW i \in 1..n - 1
      PROVE  new[i] = Tail(old)[i]
  <2>1. i + 1 \in 1..n
    OBVIOUS
  <2>2. Wrapped(Advance(r) + i - 1) = Wrapped(r + (i + 1) - 1)
    BY FifoAssumption DEF Wrapped, Advance, Slots
  <2> QED BY <2>1, <2>2, <1>2, <1>3, <1>6
<1>8. new = Tail(old)
  BY <1>3, <1>6, <1>7, SeqEqual
<1> QED BY <1>4, <1>5, <1>8 DEF old, new

(* The initial ring is the empty queue.                                      *)
LEMMA InitRefines == Init => Queue!Init
<1> SUFFICES ASSUME Init PROVE Queue!Init
  OBVIOUS
<1>1. contents = <<>>
  BY DEF Init, contents
<1> QED BY <1>1, FifoAssumption DEF Init, Queue!Init

(* A clock of the ring is a put, a get, both at once or a stutter of the     *)
(* queue.                                                                    *)
LEMMA ClockRefines ==
  ASSUME IInv, IInv', NEW put \in BOOLEAN, NEW get \in BOOLEAN, NEW d \in Values,
         Clock(put, get, d)
  PROVE  Queue!Next \/ UNCHANGED <<contents, data_out>>
<1> DEFINE puts == put /\ full_bar
           gets == get /\ empty_bar
<1>1. /\ mem \in [Slots -> Values] /\ rd_ptr \in Slots /\ wr_ptr \in Slots
      /\ count \in 0..DEPTH /\ DEPTH \in Nat
  BY FifoAssumption DEF IInv, TypeOK
<1>2. Len(contents) = count
  BY <1>1, RingIsSequence, ContentsAreRings
<1>3. CASE puts /\ gets
  <2>1. /\ mem' = [mem EXCEPT ![wr_ptr] = d] /\ data_out' = mem[rd_ptr]
        /\ rd_ptr' = Advance(rd_ptr) /\ count' = count
    BY <1>3 DEF Clock, Write, Read, CountAfter
  <2>2. count # DEPTH /\ count # 0
    BY <1>3 DEF full_bar, empty_bar
  <2>3. count \in 1..DEPTH /\ count + 1 \in 1..DEPTH
    BY <1>1, <2>2
  <2>4. mem' \in [Slots -> Values]
    BY DEF IInv, TypeOK
  <2>5. contents # <<>> /\ Head(contents) = mem[rd_ptr]
    BY <1>1, <2>3, ReadTakesHead, ContentsAreRings
  <2>6. Ring(mem', rd_ptr, count + 1) = Append(contents, d)
    BY <2>1, <2>2, WriteAppends, ContentsAreRings
  <2>7. contents' = Tail(Append(contents, d))
    <3>1. Ring(mem', Advance(rd_ptr), (count + 1) - 1) = Tail(Ring(mem', rd_ptr, count + 1))
      BY <1>1, <2>3, <2>4, ReadTakesHead
    <3>2. (count + 1) - 1 = count
      BY <1>1
    <3> QED BY <3>1, <3>2, <2>1, <2>6, ContentsAreRings
  <2>8. contents \in Seq(Values)
    BY <1>1, RingIsSequence, ContentsAreRings
  <2>9. Tail(Append(contents, d)) = Append(Tail(contents), d)
    BY <2>5, <2>8
  <2> QED BY <1>2, <2>1, <2>2, <1>1, <2>5, <2>7, <2>9
          DEF Queue!Next, Queue!PutAndGet
<1>4. CASE puts /\ ~gets
  <2>1. /\ mem' = [mem EXCEPT ![wr_ptr] = d]
        /\ data_out' = data_out /\ rd_ptr' = rd_ptr /\ count' = count + 1
    BY <1>4 DEF Clock, Write, CountAfter
  <2>2. count # DEPTH
    BY <1>4 DEF full_bar
  <2>3. contents' = Append(contents, d)
    BY <2>1, <2>2, WriteAppends, ContentsAreRings
  <2>4. Len(contents) < DEPTH
    BY <1>1, <1>2, <2>2
  <2> QED BY <2>1, <2>3, <2>4 DEF Queue!Next, Queue!Put
<1>5. CASE ~puts /\ gets
  <2>1. /\ mem' = mem /\ data_out' = mem[rd_ptr]
        /\ rd_ptr' = Advance(rd_ptr) /\ count' = count - 1
    BY <1>5 DEF Clock, Read, CountAfter
  <2>2. count \in 1..DEPTH
    BY <1>5, <1>1 DEF empty_bar
  <2>3. contents # <<>> /\ Head(contents) = mem[rd_ptr] /\ contents' = Tail(contents)
    BY <1>1, <2>1, <2>2, ReadTakesHead, ContentsAreRings
  <2> QED BY <2>1, <2>3 DEF Queue!Next, Queue!Get
<1>6. CASE ~puts /\ ~gets
  BY <1>6 DEF Clock, CountAfter, contents, SlotOf, Wrapped
<1> QED BY <1>3, <1>4, <1>5, <1>6

(* Every step of the ring maps to a step of the queue or a stutter.          *)
LEMMA NextRefines ==
  IInv /\ IInv' /\ [Next]_vars => [Queue!Next]_<<contents, data_out>>
<1> SUFFICES ASSUME IInv, IInv', [Next]_vars
             PROVE  Queue!Next \/ UNCHANGED <<contents, data_out>>
  OBVIOUS
<1>1. ASSUME NEW put \in BOOLEAN, NEW get \in BOOLEAN, NEW d \in Values,
             Clock(put, get, d)
      PROVE  Queue!Next \/ UNCHANGED <<contents, data_out>>
  BY <1>1, ClockRefines
<1>2. CASE Reset
  <2>1. contents' = <<>>
    BY <1>2 DEF Reset, contents
  <2> QED BY <1>2, <2>1, FifoAssumption DEF Reset, Queue!Next, Queue!Clear
<1>3. CASE UNCHANGED vars
  BY <1>3 DEF vars, contents, SlotOf, Wrapped
<1> QED BY <1>1, <1>2, <1>3 DEF Next

(* fifo.v is a first-in first-out queue of DEPTH words: for every depth and  *)
(* every sequence of puts, gets and resets no word is lost, repeated or      *)
(* reordered.                                                                *)
THEOREM RefinesQueue == Spec => ImplementsQueue
<1>1. Spec => []IInv
  BY InitIInv, NextIInv, PTL DEF Spec
<1> QED BY <1>1, InitRefines, NextRefines, PTL DEF Spec, ImplementsQueue, Queue!Spec
=============================================================================
