--------------------------- MODULE SpscRing_proofs ---------------------------
(***************************************************************************)
(* Proofs about SpscRing for every ring size, every type of value and      *)
(* every set of batches.                                                   *)
(*                                                                         *)
(* Seen from any index the ring is a line: Distance(r, .) numbers the      *)
(* slots from r.  On that line the inductive invariant puts the indices in *)
(* the order                                                               *)
(*      seenRead <= read <= drain <= seenWrite <= write <= fill            *)
(* with the whole span from seenRead to the end of the transfer in flight  *)
(* shorter than N.  Everything else follows from that order.               *)
(***************************************************************************)
EXTENDS SpscRing, SequenceTheorems, TLAPS

(* The producer's view: the slots it means to fill are ahead of write and  *)
(* behind every read it has not seen yet.                                  *)
ProducerOrder ==
  /\ Distance(seenRead, read) <= Distance(seenRead, write)
  /\ Distance(seenRead, write) + Len(offered) <= Capacity
  /\ Distance(write, fill) <= Len(offered)
  /\ room <= Capacity - Distance(seenRead, write)

(* The consumer's view: what it means to take has been published.          *)
ConsumerOrder ==
  /\ count <= Distance(read, seenWrite)
  /\ Distance(read, seenWrite) <= Distance(read, write)
  /\ Len(taken) <= count
  /\ Distance(read, drain) = Len(taken)

IInv == TypeOK /\ ProducerOrder /\ ConsumerOrder

-----------------------------------------------------------------------------
(* Arithmetic of the ring.                                                 *)

LEMMA ModOnce ==
  ASSUME NEW n \in Nat \ {0}, NEW x \in 0..(2 * n - 1)
  PROVE  x % n = IF x < n THEN x ELSE x - n
  OBVIOUS

(* The remainder of `distance` is the two-case distance a reader draws.    *)
LEMMA DistanceValue ==
  ASSUME NEW r \in Index, NEW w \in Index
  PROVE  Distance(r, w) = IF r <= w THEN w - r ELSE w + N - r
  <1> DEFINE x == w + N - r
  <1>1. N \in Nat \ {0} /\ r \in 0..(N - 1) /\ w \in 0..(N - 1)
    BY RingAssumption DEF Index
  <1>2. x \in 0..(2 * N - 1)  BY <1>1
  <1>3. Distance(r, w) = x % N  BY DEF Distance
  <1>4. x = w + N - r  OBVIOUS
  <1> HIDE DEF x
  <1>5. x % N = IF x < N THEN x ELSE x - N  BY <1>1, <1>2, ModOnce
  <1> QED  BY <1>1, <1>3, <1>4, <1>5

LEMMA DistanceRange ==
  ASSUME NEW r \in Index, NEW w \in Index
  PROVE  Distance(r, w) \in 0..Capacity
  <1>1. Distance(r, w) = IF r <= w THEN w - r ELSE w + N - r
    BY DistanceValue
  <1> QED  BY <1>1, RingAssumption DEF Index, Capacity

(* Distances add up along the line that starts at r.                       *)
LEMMA DistanceSplit ==
  ASSUME NEW r \in Index, NEW m \in Index, NEW w \in Index,
         Distance(r, m) <= Distance(r, w)
  PROVE  Distance(r, w) = Distance(r, m) + Distance(m, w)
  <1>1. /\ Distance(r, w) = IF r <= w THEN w - r ELSE w + N - r
        /\ Distance(r, m) = IF r <= m THEN m - r ELSE m + N - r
        /\ Distance(m, w) = IF m <= w THEN w - m ELSE w + N - m
    BY DistanceValue
  <1> QED  BY <1>1, RingAssumption DEF Index

LEMMA DistanceJoin ==
  ASSUME NEW r \in Index, NEW m \in Index, NEW w \in Index,
         Distance(r, m) + Distance(m, w) <= Capacity
  PROVE  Distance(r, w) = Distance(r, m) + Distance(m, w)
  <1>1. /\ Distance(r, w) = IF r <= w THEN w - r ELSE w + N - r
        /\ Distance(r, m) = IF r <= m THEN m - r ELSE m + N - r
        /\ Distance(m, w) = IF m <= w THEN w - m ELSE w + N - m
    BY DistanceValue
  <1> QED  BY <1>1, RingAssumption DEF Index, Capacity

LEMMA DistanceInjective ==
  ASSUME NEW r \in Index, NEW i \in Index, NEW j \in Index,
         Distance(r, i) = Distance(r, j)
  PROVE  i = j
  <1>1. /\ Distance(r, i) = IF r <= i THEN i - r ELSE i + N - r
        /\ Distance(r, j) = IF r <= j THEN j - r ELSE j + N - r
    BY DistanceValue
  <1>2. /\ r \in 0..(N - 1) /\ i \in 0..(N - 1) /\ j \in 0..(N - 1)
        /\ N \in Nat
    BY RingAssumption DEF Index
  <1>3. (IF r <= i THEN i - r ELSE i + N - r) = (IF r <= j THEN j - r ELSE j + N - r)
    BY <1>1
  <1> QED  BY <1>2, <1>3

LEMMA DistanceSelf ==
  ASSUME NEW r \in Index
  PROVE  Distance(r, r) = 0
  <1>1. Distance(r, r) = IF r <= r THEN r - r ELSE r + N - r
    BY DistanceValue
  <1> QED  BY <1>1, RingAssumption DEF Index

LEMMA AdvanceStep ==
  ASSUME NEW r \in Index, NEW i \in Index, Distance(r, i) < Capacity
  PROVE  /\ Advance(i) \in Index
         /\ Distance(r, Advance(i)) = Distance(r, i) + 1
  <1>1. Advance(i) \in Index
    BY RingAssumption DEF Index, Advance
  <1>2. Distance(r, i) = IF r <= i THEN i - r ELSE i + N - r
    BY DistanceValue
  <1>3. Distance(r, Advance(i)) =
          IF r <= Advance(i) THEN Advance(i) - r ELSE Advance(i) + N - r
    BY <1>1, DistanceValue
  <1> QED  BY <1>1, <1>2, <1>3, RingAssumption DEF Index, Advance, Capacity
-----------------------------------------------------------------------------
LEMMA InitIInv == Init => IInv
  <1> SUFFICES ASSUME Init PROVE IInv
    OBVIOUS
  <1>1. 0 \in Index /\ Capacity \in Nat
    BY RingAssumption DEF Index, Capacity
  <1>2. Distance(0, 0) = 0
    BY <1>1, DistanceSelf
  <1>3. TypeOK
    BY <1>1, RingAssumption DEF Init, TypeOK
  <1>4. ProducerOrder /\ ConsumerOrder
    BY <1>1, <1>2 DEF Init, ProducerOrder, ConsumerOrder
  <1> QED  BY <1>3, <1>4 DEF IInv

(* Every step keeps the indices in order.  What a step does not touch is   *)
(* carried over; what it moves, it moves along the line.                   *)
LEMMA NextIInv == IInv /\ [Next]_vars => IInv'
  <1> SUFFICES ASSUME IInv, [Next]_vars PROVE IInv'
    OBVIOUS
  <1> USE DEF IInv, vars, producer, consumer
  <1>0. /\ N \in Nat \ {0} /\ Capacity = N - 1
        /\ Index = 0..(N - 1)
        /\ TypeOK /\ ProducerOrder /\ ConsumerOrder
    BY RingAssumption DEF Index, Capacity
  <1>d. /\ Distance(seenRead, read) \in 0..Capacity
        /\ Distance(seenRead, write) \in 0..Capacity
        /\ Distance(read, write) \in 0..Capacity
        /\ Distance(write, fill) \in 0..Capacity
        /\ Distance(read, seenWrite) \in 0..Capacity
        /\ Distance(seenWrite, write) \in 0..Capacity
        /\ Distance(read, drain) \in 0..Capacity
    BY <1>0, DistanceRange DEF TypeOK
  <1>e. Len(offered) \in Nat /\ Len(taken) \in Nat
    BY <1>0 DEF TypeOK
  <1>p. Distance(seenRead, write) + Len(offered) <= Capacity
    BY <1>0 DEF ProducerOrder
  (* A fresh look at read shortens what lies between it and write. *)
  <1>r. ASSUME NEW r \in VisibleReads
        PROVE  /\ r \in Index
               /\ Distance(r, write) \in 0..Capacity
               /\ Distance(r, write) <= Distance(seenRead, write)
               /\ Distance(r, read) <= Distance(r, write)
    <2>1. r \in Index /\ Distance(seenRead, r) <= Distance(seenRead, read)
      BY DEF VisibleReads
    <2>2. /\ Distance(seenRead, r) \in 0..Capacity
          /\ Distance(r, write) \in 0..Capacity
          /\ Distance(r, read) \in 0..Capacity
      BY <2>1, <1>0, DistanceRange DEF TypeOK
    <2>3. Distance(seenRead, read) = Distance(seenRead, r) + Distance(r, read)
      BY <2>1, <1>0, DistanceSplit DEF TypeOK
    <2>4. Distance(seenRead, r) <= Distance(seenRead, write)
      BY <2>1, <2>2, <1>d, <1>0 DEF ProducerOrder
    <2>5. Distance(seenRead, write) = Distance(seenRead, r) + Distance(r, write)
      BY <2>1, <2>4, <1>0, DistanceSplit DEF TypeOK
    <2> QED  BY <2>1, <2>2, <2>3, <2>5, <1>0, <1>d DEF ProducerOrder
  (* A fresh look at write lies between the last look and write itself. *)
  <1>w. ASSUME NEW w \in VisibleWrites
        PROVE  /\ w \in Index
               /\ Distance(read, w) \in 0..Capacity
               /\ Distance(read, seenWrite) <= Distance(read, w)
               /\ Distance(read, w) <= Distance(read, write)
               /\ Distance(read, write) = Distance(read, w) + Distance(w, write)
    <2>1. w \in Index /\ Distance(seenWrite, w) <= Distance(seenWrite, write)
      BY DEF VisibleWrites
    <2>2. /\ Distance(seenWrite, w) \in 0..Capacity
          /\ Distance(w, write) \in 0..Capacity
          /\ Distance(read, w) \in 0..Capacity
      BY <2>1, <1>0, DistanceRange DEF TypeOK
    <2>3. Distance(seenWrite, write) = Distance(seenWrite, w) + Distance(w, write)
      BY <2>1, <1>0, DistanceSplit DEF TypeOK
    <2>4. Distance(read, write) = Distance(read, seenWrite) + Distance(seenWrite, write)
      BY <1>0, DistanceSplit DEF TypeOK, ConsumerOrder
    <2>5. Distance(read, w) = Distance(read, seenWrite) + Distance(seenWrite, w)
      <3>1. Distance(read, seenWrite) + Distance(seenWrite, w) <= Capacity
        BY <2>1, <2>2, <2>4, <1>d, <1>0
      <3> QED  BY <3>1, <2>1, <1>0, DistanceJoin DEF TypeOK
    <2> QED  BY <2>1, <2>2, <2>3, <2>4, <2>5, <1>d, <1>0
  <1>1. ASSUME Vacancy PROVE IInv'
    <2>1. PICK r \in VisibleReads :
            seenRead' = r /\ room' = Capacity - Distance(r, write)
      BY <1>1 DEF Vacancy
    <2>2. /\ UNCHANGED <<slots, read, write, fill, offered, consumer>>
          /\ offered = <<>>
      BY <1>1 DEF Vacancy, ProducerIdle
    <2>3. TypeOK'
      BY <2>1, <2>2, <1>r, <1>0 DEF TypeOK
    <2>4. ProducerOrder'
      BY <2>1, <2>2, <1>r, <1>0, <1>d DEF ProducerOrder, TypeOK
    <2>5. ConsumerOrder'
      BY <2>2, <1>0 DEF ConsumerOrder
    <2> QED  BY <2>3, <2>4, <2>5
  <1>2. ASSUME NEW v \in Value, Push(v) PROVE IInv'
    <2>1. PICK r \in VisibleReads :
            seenRead' = r /\ offered' = IF Advance(write) = r THEN <<>> ELSE <<v>>
      BY <1>2 DEF Push
    <2>2. /\ UNCHANGED <<slots, read, write, room, consumer>>
          /\ fill' = write /\ offered = <<>>
      BY <1>2 DEF Push, ProducerIdle
    <2>3. /\ offered' \in Seq(Value)
          /\ Distance(r, write) + Len(offered') <= Capacity
      <3>1. CASE Advance(write) = r
        BY <3>1, <2>1, <1>r, <1>0
      <3>2. CASE Advance(write) # r
        <4>1. offered' = <<v>> /\ Len(offered') = 1 /\ offered' \in Seq(Value)
          BY <3>2, <2>1
        <4>2. Distance(r, write) # Capacity
          <5> SUFFICES ASSUME Distance(r, write) = Capacity PROVE FALSE
            OBVIOUS
          <5>1. Distance(r, write) = IF r <= write THEN write - r ELSE write + N - r
            BY <2>1, <1>r, <1>0, DistanceValue DEF TypeOK
          <5>2. r \in 0..(N - 1) /\ write \in 0..(N - 1)
            BY <2>1, <1>r, <1>0 DEF TypeOK
          <5>3. (IF r <= write THEN write - r ELSE write + N - r) = N - 1
            BY <5>1, <1>0
          <5> QED  BY <5>2, <5>3, <3>2, <1>0 DEF Advance
        <4> QED  BY <4>1, <4>2, <2>1, <1>r, <1>0
      <3> QED  BY <3>1, <3>2
    <2>4. Distance(write, write) = 0
      BY <1>0, DistanceSelf DEF TypeOK
    <2>5. TypeOK'
      BY <2>1, <2>2, <2>3, <1>r, <1>0 DEF TypeOK
    <2>6. ProducerOrder'
      BY <2>1, <2>2, <2>3, <2>4, <1>r, <1>0, <1>d DEF ProducerOrder, TypeOK
    <2>7. ConsumerOrder'
      BY <2>2, <1>0 DEF ConsumerOrder
    <2> QED  BY <2>5, <2>6, <2>7
  <1>3. ASSUME NEW values \in Slices, PushSlice(values) PROVE IInv'
    <2>1. PICK r \in VisibleReads :
            /\ seenRead' = r
            /\ offered' = SubSeq(values, 1,
                            Smaller(Len(values), Capacity - Distance(r, write)))
      BY <1>3 DEF PushSlice
    <2>2. /\ UNCHANGED <<slots, read, write, room, consumer>>
          /\ fill' = write /\ offered = <<>>
      BY <1>3 DEF PushSlice, ProducerIdle
    <2>3. /\ offered' \in Seq(Value) /\ Len(offered') \in Nat
          /\ Distance(r, write) + Len(offered') <= Capacity
      <3> DEFINE k == Smaller(Len(values), Capacity - Distance(r, write))
      <3>1. values \in Seq(Value) /\ Len(values) \in Nat
        BY RingAssumption
      <3>2. k \in 0..Len(values) /\ k <= Capacity - Distance(r, write)
        BY <3>1, <2>1, <1>r, <1>0 DEF Smaller
      <3>3. offered' = SubSeq(values, 1, k)
        BY <2>1
      <3> HIDE DEF k
      <3>4. offered' \in Seq(Value) /\ Len(offered') = k
        BY <3>1, <3>2, <3>3
      <3> QED  BY <3>1, <3>2, <3>4, <2>1, <1>r, <1>0
    <2>4. Distance(write, write) = 0
      BY <1>0, DistanceSelf DEF TypeOK
    <2>5. TypeOK'
      BY <2>1, <2>2, <2>3, <1>r, <1>0 DEF TypeOK
    <2>6. ProducerOrder'
      <3>0. /\ Distance(r, write) \in 0..Capacity
            /\ Distance(r, write) <= Distance(seenRead, write)
        BY <1>r
      <3>1. room <= Capacity - Distance(r, write)
        <4>1. room \in 0..Capacity /\ room <= Capacity - Distance(seenRead, write)
          BY <1>0 DEF TypeOK, ProducerOrder
        <4> QED  BY <4>1, <3>0, <1>d, <1>0
      <3>2. /\ seenRead' = r /\ read' = read /\ write' = write
            /\ fill' = write /\ room' = room
        BY <2>1, <2>2
      <3>3. Distance(write, fill') <= Len(offered')
        BY <3>2, <2>3, <2>4
      <3>4. Distance(r, read) <= Distance(r, write)
        BY <2>1, <1>r
      <3> QED  BY <3>1, <3>2, <3>3, <3>4, <2>3 DEF ProducerOrder
    <2>7. ConsumerOrder'
      BY <2>2, <1>0 DEF ConsumerOrder
    <2> QED  BY <2>5, <2>6, <2>7
  <1>4. ASSUME FillSlot PROVE IInv'
    <2>1. /\ Distance(write, fill) < Len(offered)
          /\ slots' = [slots EXCEPT ![fill] = offered[Distance(write, fill) + 1]]
          /\ fill' = Advance(fill)
          /\ UNCHANGED <<read, write, seenRead, offered, room, consumer>>
      BY <1>4 DEF FillSlot, Filling
    <2>2. Distance(write, fill) < Capacity
      BY <2>1, <1>0, <1>d DEF ProducerOrder, TypeOK
    <2>3. /\ fill' \in Index
          /\ Distance(write, fill') = Distance(write, fill) + 1
      BY <2>1, <2>2, <1>0, AdvanceStep DEF TypeOK
    <2>4. slots' \in [Index -> Value]
      BY <2>1, <1>0, <1>d DEF TypeOK
    <2>5. TypeOK'
      BY <2>1, <2>3, <2>4, <1>0 DEF TypeOK
    <2>6. ProducerOrder'
      BY <2>1, <2>3, <1>0, <1>d DEF ProducerOrder, TypeOK
    <2>7. ConsumerOrder'
      BY <2>1, <1>0 DEF ConsumerOrder
    <2> QED  BY <2>5, <2>6, <2>7
  <1>5. ASSUME Publish PROVE IInv'
    <2>1. /\ ~(Distance(write, fill) < Len(offered))
          /\ write' = fill /\ offered' = <<>> /\ room' = 0
          /\ UNCHANGED <<slots, read, seenRead, fill, consumer>>
      BY <1>5 DEF Publish, Filling
    <2>2. Distance(write, fill) = Len(offered)
      BY <2>1, <1>0, <1>d DEF ProducerOrder, TypeOK
    <2>3. Distance(seenRead, fill) = Distance(seenRead, write) + Distance(write, fill)
      <3>1. Distance(seenRead, write) + Distance(write, fill) <= Capacity
        BY <2>2, <1>p
      <3> QED  BY <3>1, <1>0, DistanceJoin DEF TypeOK
    <2>4. Distance(read, fill) = Distance(read, write) + Distance(write, fill)
      <3>1. Distance(seenRead, write) = Distance(seenRead, read) + Distance(read, write)
        BY <1>0, DistanceSplit DEF TypeOK, ProducerOrder
      <3>2. Distance(read, write) + Distance(write, fill) <= Capacity
        BY <3>1, <2>2, <1>p, <1>d, <1>e, <1>0
      <3> QED  BY <3>2, <1>0, DistanceJoin DEF TypeOK
    <2>5. Distance(fill, fill) = 0
      BY <1>0, DistanceSelf DEF TypeOK
    <2>6. TypeOK'
      BY <2>1, <1>0 DEF TypeOK
    <2>7. ProducerOrder'
      <3>1. Distance(seenRead, fill) = Distance(seenRead, write) + Len(offered)
        BY <2>2, <2>3
      <3>2. /\ Distance(seenRead, read) <= Distance(seenRead, fill)
            /\ Distance(seenRead, fill) <= Capacity
        BY <3>1, <1>p, <1>d, <1>e, <1>0 DEF ProducerOrder
      <3>3. Distance(seenRead, fill) \in 0..Capacity
        BY <1>0, DistanceRange DEF TypeOK
      <3>4. Len(offered') = 0
        BY <2>1
      <3> QED  BY <2>1, <2>5, <3>2, <3>3, <3>4, <1>0 DEF ProducerOrder
    <2>8. ConsumerOrder'
      BY <2>1, <2>4, <1>0, <1>d DEF ConsumerOrder, TypeOK
    <2> QED  BY <2>6, <2>7, <2>8
  <1>6. ASSUME NEW n \in 1..N, PopSlice(n) PROVE IInv'
    <2>1. PICK w \in VisibleWrites :
            /\ seenWrite' = w
            /\ count' = Smaller(n, Distance(read, w))
            /\ out' = IF count' = 0 THEN <<>> ELSE out
      BY <1>6 DEF PopSlice
    <2>2. /\ UNCHANGED <<slots, read, write, taken, producer>>
          /\ drain' = read /\ count = 0
      BY <1>6 DEF PopSlice, ConsumerIdle
    <2>3. count' \in 0..Capacity /\ count' <= Distance(read, w)
      BY <2>1, <1>w, <1>0 DEF Smaller
    <2>4. Distance(read, read) = 0 /\ Len(taken) = 0
      BY <2>2, <1>0, DistanceSelf DEF TypeOK, ConsumerOrder
    <2>5. TypeOK'
      BY <2>1, <2>2, <2>3, <1>w, <1>0 DEF TypeOK
    <2>6. ProducerOrder'
      BY <2>2, <1>0 DEF ProducerOrder
    <2>7. ConsumerOrder'
      BY <2>1, <2>2, <2>3, <2>4, <1>w, <1>0 DEF ConsumerOrder
    <2> QED  BY <2>5, <2>6, <2>7
  <1>7. ASSUME DrainSlot PROVE IInv'
    <2>1. /\ Len(taken) < count
          /\ taken' = Append(taken, slots[drain])
          /\ drain' = Advance(drain)
          /\ UNCHANGED <<slots, read, write, seenWrite, count, out, producer>>
      BY <1>7 DEF DrainSlot, Draining
    <2>2. Distance(read, drain) < Capacity
      BY <2>1, <1>0, <1>d DEF ConsumerOrder, TypeOK
    <2>3. drain' \in Index /\ Distance(read, drain') = Distance(read, drain) + 1
      BY <2>1, <2>2, <1>0, AdvanceStep DEF TypeOK
    <2>4. taken' \in Seq(Value) /\ Len(taken') = Len(taken) + 1
      BY <2>1, <1>0 DEF TypeOK
    <2>5. TypeOK'
      BY <2>1, <2>3, <2>4, <1>0 DEF TypeOK
    <2>6. ProducerOrder'
      BY <2>1, <1>0 DEF ProducerOrder
    <2>7. ConsumerOrder'
      BY <2>1, <2>3, <2>4, <1>0, <1>d DEF ConsumerOrder, TypeOK
    <2> QED  BY <2>5, <2>6, <2>7
  <1>8. ASSUME Release PROVE IInv'
    <2>1. /\ ~(Len(taken) < count)
          /\ read' = drain /\ out' = taken /\ taken' = <<>> /\ count' = 0
          /\ UNCHANGED <<slots, write, seenWrite, drain, producer>>
      BY <1>8 DEF Release, Draining
    <2>2. Distance(read, drain) = count
      BY <2>1, <1>0, <1>d DEF ConsumerOrder, TypeOK
    <2>3. /\ Distance(read, seenWrite) = Distance(read, drain) + Distance(drain, seenWrite)
          /\ Distance(read, write) = Distance(read, drain) + Distance(drain, write)
      BY <2>2, <1>0, <1>d, DistanceSplit DEF TypeOK, ConsumerOrder
    <2>4. /\ Distance(seenRead, drain) <= Distance(seenRead, write)
          /\ Distance(drain, drain) = 0
          /\ Distance(drain, seenWrite) \in 0..Capacity
          /\ Distance(drain, write) \in 0..Capacity
      <3>1. Distance(seenRead, write) = Distance(seenRead, read) + Distance(read, write)
        BY <1>0, DistanceSplit DEF TypeOK, ProducerOrder
      <3>2. Distance(read, drain) <= Distance(read, write)
        BY <2>2, <1>0, <1>d DEF ConsumerOrder, TypeOK
      <3>3. Distance(seenRead, read) + Distance(read, drain) <= Capacity
        BY <3>1, <3>2, <1>0, <1>d
      <3>4. Distance(seenRead, drain) = Distance(seenRead, read) + Distance(read, drain)
        BY <3>3, <1>0, DistanceJoin DEF TypeOK
      <3>5. Distance(drain, drain) = 0
        BY <1>0, DistanceSelf DEF TypeOK
      <3>6. /\ Distance(drain, seenWrite) \in 0..Capacity
            /\ Distance(drain, write) \in 0..Capacity
        BY <1>0, DistanceRange DEF TypeOK
      <3> QED  BY <3>1, <3>2, <3>4, <3>5, <3>6, <1>0, <1>d
    <2>5. TypeOK'
      BY <2>1, <1>0 DEF TypeOK
    <2>6. ProducerOrder'
      BY <2>1, <2>4, <1>0 DEF ProducerOrder
    <2>7. ConsumerOrder'
      BY <2>1, <2>3, <2>4, <1>0, <1>d DEF ConsumerOrder
    <2> QED  BY <2>5, <2>6, <2>7
  <1>9. ASSUME Clear PROVE IInv'
    <2>1. PICK w \in VisibleWrites : seenWrite' = w /\ read' = w /\ drain' = w
      BY <1>9 DEF Clear
    <2>2. /\ UNCHANGED <<slots, write, count, taken, out, producer>>
          /\ count = 0
      BY <1>9 DEF Clear, ConsumerIdle
    <2>3. Distance(w, w) = 0 /\ Distance(w, write) \in 0..Capacity
      BY <2>1, <1>w, <1>0, DistanceSelf, DistanceRange DEF TypeOK
    <2>4. Distance(seenRead, w) <= Distance(seenRead, write)
      <3>1. Distance(seenRead, write) = Distance(seenRead, read) + Distance(read, write)
        BY <1>0, DistanceSplit DEF TypeOK, ProducerOrder
      <3>2. Distance(seenRead, read) + Distance(read, w) <= Capacity
        BY <3>1, <2>1, <1>w, <1>0, <1>d
      <3>3. Distance(seenRead, w) = Distance(seenRead, read) + Distance(read, w)
        BY <3>2, <2>1, <1>w, <1>0, DistanceJoin DEF TypeOK
      <3> QED  BY <3>1, <3>3, <2>1, <1>w, <1>0, <1>d
    <2>5. TypeOK'
      BY <2>1, <2>2, <1>w, <1>0 DEF TypeOK
    <2>6. ProducerOrder'
      BY <2>1, <2>2, <2>4, <1>0 DEF ProducerOrder
    <2>7. ConsumerOrder'
      BY <2>1, <2>2, <2>3, <1>0 DEF ConsumerOrder, TypeOK
    <2> QED  BY <2>5, <2>6, <2>7
  <1>10. CASE UNCHANGED vars
    BY <1>10, <1>0 DEF TypeOK, ProducerOrder, ConsumerOrder
  <1> QED
    BY <1>1, <1>2, <1>3, <1>4, <1>5, <1>6, <1>7, <1>8, <1>9, <1>10
    DEF Next, ProducerNext, ConsumerNext

(* The order of the indices holds in every reachable state. *)
LEMMA Ordered == Spec => []IInv
  BY InitIInv, NextIInv, PTL DEF Spec
-----------------------------------------------------------------------------
(* Every variable keeps its type: in particular no index ever leaves the   *)
(* array of slots, whatever the ring's size (spsc.rs indexes the array     *)
(* with no mask and no bound but `advance`).                               *)
THEOREM TypeCorrect == Spec => []TypeOK
  <1>1. IInv => TypeOK  BY DEF IInv
  <1> QED  BY Ordered, <1>1, PTL

(* The safety comment above `unsafe impl Sync`: the producer's next store  *)
(* and the consumer's next load never fall on the same slot, even when     *)
(* each side works from an index it read long ago.                         *)
THEOREM SlotsAreNeverShared == Spec => []NoSharedSlot
  <1>1. IInv => NoSharedSlot
    <2> SUFFICES ASSUME IInv, Filling, Draining, fill = drain PROVE FALSE
      BY DEF NoSharedSlot
    <2>0. /\ TypeOK /\ ProducerOrder /\ ConsumerOrder
          /\ N \in Nat \ {0} /\ Capacity = N - 1
      BY RingAssumption DEF IInv, Capacity
    <2>1. /\ Distance(seenRead, read) \in 0..Capacity
          /\ Distance(seenRead, write) \in 0..Capacity
          /\ Distance(read, write) \in 0..Capacity
          /\ Distance(write, fill) \in 0..Capacity
          /\ Distance(read, drain) \in 0..Capacity
      BY <2>0, DistanceRange DEF TypeOK
    <2>2. Len(offered) \in Nat /\ Len(taken) \in Nat /\ count \in Nat
      BY <2>0 DEF TypeOK
    (* drain is before write on the line from read ... *)
    <2>3. Distance(read, drain) < Distance(read, write)
      <3>1. /\ Distance(read, drain) = Len(taken) /\ Len(taken) < count
            /\ count <= Distance(read, seenWrite)
            /\ Distance(read, seenWrite) <= Distance(read, write)
        BY <2>0 DEF ConsumerOrder, Draining
      <3>2. Distance(read, seenWrite) \in 0..Capacity
        BY <2>0, DistanceRange DEF TypeOK
      <3> QED  BY <3>1, <3>2, <2>1, <2>2
    (* ... and fill is at write or beyond it, short of coming round. *)
    <2>4. Distance(read, fill) = Distance(read, write) + Distance(write, fill)
      <3>1. Distance(seenRead, write) = Distance(seenRead, read) + Distance(read, write)
        BY <2>0, DistanceSplit DEF TypeOK, ProducerOrder
      <3>2. /\ Distance(seenRead, write) + Len(offered) <= Capacity
            /\ Distance(write, fill) < Len(offered)
        BY <2>0 DEF ProducerOrder, Filling
      <3>3. Distance(read, write) + Distance(write, fill) <= Capacity
        BY <3>1, <3>2, <2>0, <2>1, <2>2
      <3> QED  BY <3>3, <2>0, DistanceJoin DEF TypeOK
    <2> QED  BY <2>1, <2>3, <2>4
  <1> QED  BY Ordered, <1>1, PTL

(* vacancy() is a promise: streamer.rs sizes its disk read by it.          *)
THEOREM ReportedRoomIsKept == Spec => []RoomIsKept
  <1>1. IInv => RoomIsKept
    <2> SUFFICES ASSUME IInv PROVE RoomIsKept
      OBVIOUS
    <2>1. /\ Distance(seenRead, read) \in 0..Capacity
          /\ Distance(seenRead, write) \in 0..Capacity
          /\ Distance(read, write) \in 0..Capacity
          /\ Capacity \in Nat /\ room \in 0..Capacity
      BY DistanceRange, RingAssumption DEF IInv, TypeOK, Capacity
    <2>2. Distance(seenRead, write) = Distance(seenRead, read) + Distance(read, write)
      BY DistanceSplit DEF IInv, TypeOK, ProducerOrder
    <2>3. room <= Capacity - Distance(seenRead, write)
      BY DEF IInv, ProducerOrder
    <2> QED  BY <2>1, <2>2, <2>3 DEF RoomIsKept
  <1> QED  BY Ordered, <1>1, PTL
-----------------------------------------------------------------------------
(***************************************************************************)
(* The ring implements the bounded queue of BoundedFifo, for every ring    *)
(* size, value type and batch.                                             *)
(*                                                                         *)
(* The order of the indices (IInv) says which slots a step may touch.  The *)
(* proof adds what those slots hold: the part of a transfer that is under  *)
(* way has been copied faithfully.                                         *)
(***************************************************************************)
(* The i-th slot of the line that starts at r, counted from 1. *)
Nth(r, i) == (r + i - 1) % N

(* The values in the slots from r up to w; Contents is Line of the ring. *)
Line(sl, r, w) == [i \in 1..Distance(r, w) |-> sl[Nth(r, i)]]

(* What push_slice has stored so far is the beginning of its batch. *)
Written == \A i \in 1..Distance(write, fill) : slots[Nth(write, i)] = offered[i]

(* What pop_slice has copied so far is the beginning of the contents. *)
Copied == \A i \in 1..Len(taken) : taken[i] = slots[Nth(read, i)]

DataInv == Written /\ Copied

-----------------------------------------------------------------------------
LEMMA NthOnLine ==
  ASSUME NEW r \in Index, NEW i \in 1..N
  PROVE  /\ Nth(r, i) \in Index
         /\ Distance(r, Nth(r, i)) = i - 1
  <1> DEFINE x == r + i - 1
  <1>1. N \in Nat \ {0} /\ r \in 0..(N - 1) /\ i \in 1..N
    BY RingAssumption DEF Index
  <1>2. x \in 0..(2 * N - 1)  BY <1>1
  <1>3. Nth(r, i) = x % N  BY DEF Nth
  <1>4. x = r + i - 1  OBVIOUS
  <1> HIDE DEF x
  <1>5. x % N = IF x < N THEN x ELSE x - N  BY <1>1, <1>2, ModOnce
  <1>6. Nth(r, i) \in Index
    BY <1>1, <1>2, <1>3, <1>4, <1>5 DEF Index
  <1>7. Distance(r, Nth(r, i)) =
          IF r <= Nth(r, i) THEN Nth(r, i) - r ELSE Nth(r, i) + N - r
    BY <1>6, DistanceValue
  <1> QED  BY <1>1, <1>3, <1>4, <1>5, <1>6, <1>7

(* An index is the slot its distance numbers. *)
LEMMA NthOfDistance ==
  ASSUME NEW r \in Index, NEW m \in Index
  PROVE  Nth(r, Distance(r, m) + 1) = m
  <1> DEFINE k == Distance(r, m) + 1
  <1>1. Distance(r, m) \in 0..Capacity /\ N \in Nat /\ Capacity = N - 1
    BY DistanceRange, RingAssumption DEF Capacity
  <1>2. k \in 1..N /\ k - 1 = Distance(r, m)
    BY <1>1
  <1> HIDE DEF k
  <1>3. Nth(r, k) \in Index /\ Distance(r, Nth(r, k)) = Distance(r, m)
    BY <1>2, NthOnLine
  <1>4. Nth(r, k) = m
    BY <1>3, DistanceInjective
  <1> QED  BY <1>4 DEF k

(* The line from m is the line from r, further on. *)
LEMMA NthShift ==
  ASSUME NEW r \in Index, NEW m \in Index, NEW i \in 1..N,
         Distance(r, m) + i <= N
  PROVE  Nth(m, i) = Nth(r, Distance(r, m) + i)
  <1> DEFINE k == Distance(r, m) + i
  <1>1. Distance(r, m) \in 0..Capacity /\ N \in Nat /\ Capacity = N - 1
    BY DistanceRange, RingAssumption DEF Capacity
  <1>2. k \in 1..N /\ k - 1 = Distance(r, m) + (i - 1) /\ k - 1 <= Capacity
    BY <1>1
  <1> HIDE DEF k
  <1>3. /\ Nth(m, i) \in Index /\ Distance(m, Nth(m, i)) = i - 1
        /\ Nth(r, k) \in Index /\ Distance(r, Nth(r, k)) = k - 1
    BY <1>2, NthOnLine
  <1>4. Distance(r, m) + Distance(m, Nth(m, i)) <= Capacity
    BY <1>2, <1>3
  <1>5. Distance(r, Nth(m, i)) = Distance(r, m) + Distance(m, Nth(m, i))
    BY <1>3, <1>4, DistanceJoin
  <1>6. Distance(r, Nth(m, i)) = Distance(r, Nth(r, k))
    BY <1>2, <1>3, <1>5
  <1>7. Nth(m, i) = Nth(r, k)
    BY <1>3, <1>6, DistanceInjective
  <1> QED  BY <1>7 DEF k

(* A span of slots is a sequence of values. *)
LEMMA LineSeq ==
  ASSUME NEW sl \in [Index -> Value], NEW r \in Index, NEW w \in Index
  PROVE  /\ Line(sl, r, w) \in Seq(Value)
         /\ Len(Line(sl, r, w)) = Distance(r, w)
         /\ \A i \in 1..Distance(r, w) : Line(sl, r, w)[i] = sl[Nth(r, i)]
  <1>1. Distance(r, w) \in Nat /\ Distance(r, w) <= N
    <2>1. Distance(r, w) \in 0..Capacity
      BY DistanceRange
    <2> QED  BY <2>1, RingAssumption DEF Capacity
  <1>2. \A i \in 1..Distance(r, w) : sl[Nth(r, i)] \in Value
    <2> TAKE i \in 1..Distance(r, w)
    <2>1. i \in 1..N  BY <1>1, RingAssumption
    <2> QED  BY <2>1, NthOnLine
  <1>3. Line(sl, r, w) \in [1..Distance(r, w) -> Value]
    BY <1>2 DEF Line
  <1>4. Line(sl, r, w) \in Seq(Value) /\ Len(Line(sl, r, w)) = Distance(r, w)
    BY <1>1, <1>3
  <1> QED  BY <1>4 DEF Line
-----------------------------------------------------------------------------
(* Where the indices stand, in the form the steps below use it. *)
LEMMA Positions ==
  ASSUME IInv
  PROVE  /\ N \in Nat \ {0} /\ Capacity = N - 1
         /\ Distance(read, write) \in 0..Capacity
         /\ Distance(write, fill) \in 0..Capacity
         /\ Distance(read, drain) \in 0..Capacity
         /\ Len(offered) \in Nat /\ Len(taken) \in Nat
         /\ Distance(write, fill) <= Len(offered)
         /\ Distance(read, write) + Len(offered) <= Capacity
         /\ Distance(read, drain) = Len(taken)
         /\ Len(taken) <= count /\ count <= Distance(read, write)
         /\ count \in Nat
  <1>1. /\ N \in Nat \ {0} /\ Capacity = N - 1
        /\ TypeOK /\ ProducerOrder /\ ConsumerOrder
    BY RingAssumption DEF IInv, Capacity
  <1>2. /\ Distance(read, write) \in 0..Capacity
        /\ Distance(write, fill) \in 0..Capacity
        /\ Distance(read, drain) \in 0..Capacity
        /\ Distance(seenRead, read) \in 0..Capacity
        /\ Distance(seenRead, write) \in 0..Capacity
        /\ Distance(read, seenWrite) \in 0..Capacity
    BY <1>1, DistanceRange DEF TypeOK
  <1>3. Len(offered) \in Nat /\ Len(taken) \in Nat /\ count \in Nat
    BY <1>1 DEF TypeOK
  <1>4. Distance(seenRead, write) = Distance(seenRead, read) + Distance(read, write)
    BY <1>1, DistanceSplit DEF TypeOK, ProducerOrder
  <1>5. Distance(seenRead, write) + Len(offered) <= Capacity
    BY <1>1 DEF ProducerOrder
  <1>6. Distance(read, write) + Len(offered) <= Capacity
    BY <1>1, <1>2, <1>3, <1>4, <1>5
  <1>7. count <= Distance(read, write)
    BY <1>1, <1>2, <1>3 DEF ConsumerOrder
  <1> QED  BY <1>1, <1>2, <1>3, <1>6, <1>7 DEF ProducerOrder, ConsumerOrder

(* A store into slots[fill] touches no published slot and no slot the      *)
(* transfer has already filled.                                            *)
LEMMA FillTouchesNothing ==
  ASSUME IInv, Filling
  PROVE  /\ \A i \in 1..Distance(read, write) : Nth(read, i) # fill
         /\ \A i \in 1..Distance(write, fill) : Nth(write, i) # fill
  <1>1. \A i \in 1..Distance(read, write) : Nth(read, i) # fill
    <2> SUFFICES ASSUME NEW i \in 1..Distance(read, write), Nth(read, i) = fill
                 PROVE FALSE
      OBVIOUS
    <2>1. i \in 1..N  BY Positions
    <2>2. Distance(read, fill) = i - 1
      BY <2>1, NthOnLine DEF IInv, TypeOK
    <2>3. Distance(read, write) + Distance(write, fill) <= Capacity
      BY Positions
    <2>4. Distance(read, fill) = Distance(read, write) + Distance(write, fill)
      BY <2>3, DistanceJoin DEF IInv, TypeOK
    <2> QED  BY <2>2, <2>4, Positions
  <1>2. \A i \in 1..Distance(write, fill) : Nth(write, i) # fill
    <2> SUFFICES ASSUME NEW i \in 1..Distance(write, fill), Nth(write, i) = fill
                 PROVE FALSE
      OBVIOUS
    <2>1. i \in 1..N  BY Positions
    <2>2. Distance(write, fill) = i - 1
      BY <2>1, NthOnLine DEF IInv, TypeOK
    <2> QED  BY <2>2, Positions
  <1> QED  BY <1>1, <1>2
-----------------------------------------------------------------------------
LEMMA ContentsIsLine ==
  /\ Contents = Line(slots, read, write)
  /\ Contents' = Line(slots', read', write')
  BY DEF Contents, Line, Nth

(* A step that leaves the published slots, the batch and the result alone  *)
(* is a stutter of the queue.                                              *)
LEMMA Stutter ==
  ASSUME Contents' = Contents, offered' = offered, out' = out
  PROVE  [Fifo!Next]_(Fifo!vars)
  BY DEF Fifo!vars

(* The batch a transfer accepts fits behind what is published. *)
LEMMA Offering ==
  ASSUME IInv, IInv', offered = <<>>, UNCHANGED <<slots, read, write, out>>
  PROVE  [Fifo!Next]_(Fifo!vars)
  <1>1. Contents' = Contents
    BY ContentsIsLine
  <1>2. offered' \in Seq(Value)
    BY DEF IInv, TypeOK
  <1>3. Len(Contents) + Len(offered') <= Capacity
    <2>1. Len(Contents) = Distance(read, write)
      BY LineSeq, ContentsIsLine DEF IInv, TypeOK
    <2>2. /\ Distance(seenRead', read') \in 0..Capacity
          /\ Distance(seenRead', write') \in 0..Capacity
          /\ Distance(read', write') \in 0..Capacity
      BY DistanceRange DEF IInv, TypeOK
    <2>3. Distance(seenRead', write')
            = Distance(seenRead', read') + Distance(read', write')
      BY DistanceSplit DEF IInv, TypeOK, ProducerOrder
    <2>4. Distance(seenRead', write') + Len(offered') <= Capacity
      BY DEF IInv, ProducerOrder
    <2>5. Len(offered') \in Nat /\ Capacity \in Nat
      BY <1>2, RingAssumption DEF Capacity
    <2> QED  BY <2>1, <2>2, <2>3, <2>4, <2>5
  <1>4. Fifo!Offer
    BY <1>1, <1>2, <1>3 DEF Fifo!Offer
  <1> QED  BY <1>4 DEF Fifo!Next

(* Dropping the k oldest slots leaves the rest of the sequence. *)
LEMMA LineSuffix ==
  ASSUME NEW sl \in [Index -> Value], NEW r \in Index, NEW m \in Index,
         NEW w \in Index, Distance(r, m) <= Distance(r, w)
  PROVE  Line(sl, m, w) = SubSeq(Line(sl, r, w), Distance(r, m) + 1, Len(Line(sl, r, w)))
  <1> DEFINE k == Distance(r, m)
             n == Distance(r, w)
             s == Line(sl, r, w)
             t == Line(sl, m, w)
  <1>1. k \in 0..n /\ n \in Nat /\ n < N /\ Distance(m, w) = n - k
    <2>1. k \in 0..Capacity /\ n \in 0..Capacity /\ Distance(m, w) \in 0..Capacity
      BY DistanceRange
    <2>2. n = k + Distance(m, w)
      BY DistanceSplit
    <2> HIDE DEF k, n
    <2> QED  BY <2>1, <2>2, RingAssumption DEF Capacity
  <1>2. /\ s \in Seq(Value) /\ Len(s) = n
        /\ \A i \in 1..n : s[i] = sl[Nth(r, i)]
        /\ t \in Seq(Value) /\ Len(t) = n - k
        /\ \A i \in 1..(n - k) : t[i] = sl[Nth(m, i)]
    BY <1>1, LineSeq
  <1>3. \A i \in 1..(n - k) : Nth(m, i) = Nth(r, k + i)
    <2> TAKE i \in 1..(n - k)
    <2>1. i \in 1..N /\ k + i <= N
      BY <1>1, RingAssumption
    <2> QED  BY <2>1, NthShift
  <1> HIDE DEF k, n, s, t
  <1>4. \A i \in 1..(n - k) : t[i] = s[k + i]
    <2> TAKE i \in 1..(n - k)
    <2>1. PICK j \in 1..n : j = k + i
      BY <1>1
    <2>2. s[j] = sl[Nth(r, j)] /\ t[i] = sl[Nth(m, i)] /\ Nth(m, i) = Nth(r, k + i)
      BY <1>2, <1>3
    <2> QED  BY <2>1, <2>2
  <1>5. t = SubSeq(s, k + 1, n)
    <2>1. \A i \in (k + 1)..n : s[i] \in Value
      BY <1>1, <1>2
    <2>2. /\ SubSeq(s, k + 1, n) \in Seq(Value)
          /\ Len(SubSeq(s, k + 1, n)) = n - k
          /\ \A i \in 1..(n - k) : SubSeq(s, k + 1, n)[i] = s[k + i]
      BY <1>1, <1>2, <2>1, SubSeqProperties
    <2> QED  BY <1>1, <1>2, <1>4, <2>2, SeqEqual
  <1> QED  BY <1>2, <1>5 DEF k, n, s, t
-----------------------------------------------------------------------------
(* One lemma per kind of step: it keeps DataInv and is a step of the queue.*)

LEMMA VacancyStep ==
  ASSUME IInv, IInv', DataInv, Vacancy
  PROVE  DataInv' /\ [Fifo!Next]_(Fifo!vars)
  <1>1. UNCHANGED <<slots, read, write, fill, offered, consumer>>
    BY DEF Vacancy
  <1>2. DataInv'
    BY <1>1 DEF DataInv, Written, Copied, consumer
  <1>3. Contents' = Contents
    BY <1>1, ContentsIsLine
  <1> QED  BY <1>1, <1>2, <1>3, Stutter DEF consumer

LEMMA PushStep ==
  ASSUME IInv, IInv', DataInv,
         (\E v \in Value : Push(v)) \/ (\E values \in Slices : PushSlice(values))
  PROVE  DataInv' /\ [Fifo!Next]_(Fifo!vars)
  <1>1. /\ UNCHANGED <<slots, read, write, consumer>>
        /\ fill' = write /\ offered = <<>>
    BY DEF Push, PushSlice, ProducerIdle
  <1>2. Written'
    <2>1. Distance(write', fill') = 0
      BY <1>1, DistanceSelf DEF IInv, TypeOK
    <2> QED  BY <2>1 DEF Written
  <1>3. Copied'
    BY <1>1 DEF DataInv, Copied, consumer
  <1>4. [Fifo!Next]_(Fifo!vars)
    BY <1>1, Offering DEF consumer
  <1> QED  BY <1>2, <1>3, <1>4 DEF DataInv

LEMMA FillStep ==
  ASSUME IInv, IInv', DataInv, FillSlot
  PROVE  DataInv' /\ [Fifo!Next]_(Fifo!vars)
  <1> DEFINE n == Distance(write, fill)
  <1>1. /\ Filling
        /\ slots' = [slots EXCEPT ![fill] = offered[n + 1]]
        /\ fill' = Advance(fill)
        /\ UNCHANGED <<read, write, seenRead, offered, room, consumer>>
    BY DEF FillSlot
  <1>2. slots \in [Index -> Value] /\ fill \in Index
    BY DEF IInv, TypeOK
  <1>3. /\ n \in 0..Capacity /\ n + 1 \in 1..N /\ n < Capacity
        /\ Distance(write, fill') = n + 1
    <2>1. n \in 0..Capacity /\ n < Len(offered) /\ Len(offered) <= Capacity
      BY <1>1, Positions DEF Filling
    <2>2. n < Capacity /\ n + 1 \in 1..N
      BY <2>1, Positions
    <2>3. Distance(write, fill') = n + 1
      BY <1>1, <2>2, AdvanceStep DEF IInv, TypeOK
    <2> QED  BY <2>1, <2>2, <2>3
  <1>4. /\ \A i \in 1..Distance(read, write) : slots'[Nth(read, i)] = slots[Nth(read, i)]
        /\ \A i \in 1..n : slots'[Nth(write, i)] = slots[Nth(write, i)]
    <2>1. ASSUME NEW i \in 1..Distance(read, write)
          PROVE  slots'[Nth(read, i)] = slots[Nth(read, i)]
      <3>1. i \in 1..N  BY Positions
      <3>2. Nth(read, i) \in Index  BY <3>1, NthOnLine DEF IInv, TypeOK
      <3>3. Nth(read, i) # fill  BY <1>1, FillTouchesNothing
      <3> QED  BY <1>1, <1>2, <3>2, <3>3
    <2>2. ASSUME NEW i \in 1..n
          PROVE  slots'[Nth(write, i)] = slots[Nth(write, i)]
      <3>1. i \in 1..N  BY <1>3, Positions
      <3>2. Nth(write, i) \in Index  BY <3>1, NthOnLine DEF IInv, TypeOK
      <3>3. Nth(write, i) # fill  BY <1>1, FillTouchesNothing
      <3> QED  BY <1>1, <1>2, <3>2, <3>3
    <2> QED  BY <2>1, <2>2
  <1>5. Written'
    <2>1. Nth(write, n + 1) = fill
      BY NthOfDistance DEF IInv, TypeOK
    <2>2. slots'[fill] = offered[n + 1]
      BY <1>1, <1>2
    <2> SUFFICES ASSUME NEW i \in 1..(n + 1)
                 PROVE  slots'[Nth(write, i)] = offered[i]
      BY <1>1, <1>3 DEF Written
    <2>3. CASE i = n + 1
      BY <2>1, <2>2, <2>3
    <2>4. CASE i # n + 1
      <3>1. i \in 1..n  BY <2>4, <1>3
      <3>2. slots[Nth(write, i)] = offered[i]
        BY <3>1 DEF DataInv, Written
      <3> QED  BY <1>4, <3>1, <3>2
    <2> QED  BY <2>3, <2>4
  <1>6. Copied'
    <2> SUFFICES ASSUME NEW i \in 1..Len(taken)
                 PROVE  taken[i] = slots'[Nth(read, i)]
      BY <1>1 DEF Copied, consumer
    <2>1. i \in 1..Distance(read, write)
      BY Positions
    <2>2. taken[i] = slots[Nth(read, i)]
      BY DEF DataInv, Copied
    <2> QED  BY <1>4, <2>1, <2>2
  <1>7. Contents' = Contents
    BY <1>1, <1>4, ContentsIsLine DEF Line
  <1> QED  BY <1>1, <1>5, <1>6, <1>7, Stutter DEF DataInv, consumer

LEMMA PublishStep ==
  ASSUME IInv, IInv', DataInv, Publish
  PROVE  DataInv' /\ [Fifo!Next]_(Fifo!vars)
  <1> DEFINE d == Distance(read, write)
             m == Len(offered)
  <1>1. /\ ~Filling /\ write' = fill /\ offered' = <<>>
        /\ UNCHANGED <<slots, read, seenRead, fill, consumer>>
    BY DEF Publish
  <1>2. /\ read \in Index /\ write \in Index /\ fill \in Index
        /\ slots \in [Index -> Value] /\ offered \in Seq(Value)
    BY DEF IInv, TypeOK
  <1>3. d \in Nat /\ m \in Nat /\ d + m <= Capacity /\ Capacity = N - 1 /\ N \in Nat
    BY Positions
  <1>4. Distance(write, fill) = m
    BY <1>1, Positions DEF Filling
  <1>5. Distance(read, fill) = d + m
    <2>1. Distance(read, write) + Distance(write, fill) <= Capacity
      BY <1>3, <1>4
    <2> QED  BY <1>2, <1>4, <2>1, DistanceJoin
  <1>6. /\ Contents \in Seq(Value) /\ Len(Contents) = d
        /\ \A i \in 1..d : Contents[i] = slots[Nth(read, i)]
    BY <1>2, LineSeq, ContentsIsLine
  <1>7. /\ Contents' \in Seq(Value) /\ Len(Contents') = d + m
        /\ \A i \in 1..(d + m) : Contents'[i] = slots[Nth(read, i)]
    <2>1. Contents' = Line(slots, read, fill)
      BY <1>1, ContentsIsLine
    <2> QED  BY <2>1, <1>2, <1>5, LineSeq
  <1>8. \A i \in 1..m : slots[Nth(read, d + i)] = offered[i]
    <2> TAKE i \in 1..m
    <2>1. i \in 1..N /\ d + i <= N
      BY <1>3
    <2>2. Nth(write, i) = Nth(read, d + i)
      BY <2>1, <1>2, NthShift
    <2>3. slots[Nth(write, i)] = offered[i]
      BY <1>4 DEF DataInv, Written
    <2> QED  BY <2>2, <2>3
  <1> HIDE DEF d, m
  <1>9. Contents' = Contents \o offered
    <2>1. /\ Contents \o offered \in Seq(Value)
          /\ Len(Contents \o offered) = d + m
          /\ \A i \in 1..(d + m) : (Contents \o offered)[i] =
               IF i <= d THEN Contents[i] ELSE offered[i - d]
      BY <1>2, <1>6, ConcatProperties DEF m
    <2>2. ASSUME NEW i \in 1..(d + m)
          PROVE  Contents'[i] = (Contents \o offered)[i]
      <3>1. CASE i <= d
        <4>1. i \in 1..d  BY <3>1, <1>3
        <4> QED  BY <3>1, <4>1, <2>1, <1>6, <1>7
      <3>2. CASE ~(i <= d)
        <4>1. PICK j \in 1..m : j = i - d /\ i = d + j
          BY <3>2, <1>3
        <4>2. Contents'[i] = slots[Nth(read, d + j)]
          BY <4>1, <1>7
        <4> QED  BY <3>2, <4>1, <4>2, <2>1, <1>8
      <3> QED  BY <3>1, <3>2
    <2> QED  BY <1>7, <2>1, <2>2, SeqEqual
  <1>10. Fifo!Accept
    BY <1>1, <1>9 DEF Fifo!Accept, consumer
  <1>11. Written'
    <2>1. Distance(write', fill') = 0
      BY <1>1, <1>2, DistanceSelf
    <2> QED  BY <2>1 DEF Written
  <1>12. Copied'
    BY <1>1 DEF DataInv, Copied, consumer
  <1> QED  BY <1>10, <1>11, <1>12 DEF DataInv, Fifo!Next

LEMMA PopStep ==
  ASSUME IInv, IInv', DataInv, NEW n \in 1..N, PopSlice(n)
  PROVE  DataInv' /\ [Fifo!Next]_(Fifo!vars)
  <1>1. /\ UNCHANGED <<slots, read, write, taken, producer>>
        /\ out' = IF count' = 0 THEN <<>> ELSE out
    BY DEF PopSlice
  <1>2. DataInv'
    BY <1>1 DEF DataInv, Written, Copied, producer
  <1>3. Contents' = Contents
    BY <1>1, ContentsIsLine
  <1>4. CASE count' # 0
    BY <1>1, <1>2, <1>3, <1>4, Stutter DEF producer
  <1>5. CASE count' = 0
    <2>0. slots \in [Index -> Value] /\ read \in Index /\ write \in Index
      BY DEF IInv, TypeOK
    <2>1. Contents \in Seq(Value) /\ Len(Contents) \in Nat
      BY <2>0, LineSeq, LenProperties, ContentsIsLine
    <2>2. SubSeq(Contents, 1, 0) = <<>>
      BY SubSeqEmpty
    <2>3. SubSeq(Contents, 0 + 1, Len(Contents)) = Contents
      BY <2>1, SubSeqFull
    <2>4. Fifo!Take(0)
      BY <1>1, <1>3, <1>5, <2>2, <2>3 DEF Fifo!Take, producer
    <2> QED  BY <1>2, <2>1, <2>4 DEF Fifo!Next
  <1> QED  BY <1>4, <1>5

LEMMA DrainStep ==
  ASSUME IInv, IInv', DataInv, DrainSlot
  PROVE  DataInv' /\ [Fifo!Next]_(Fifo!vars)
  <1>1. /\ taken' = Append(taken, slots[drain])
        /\ UNCHANGED <<slots, read, write, seenWrite, count, out, producer>>
    BY DEF DrainSlot
  <1>2. taken \in Seq(Value) /\ Len(taken) \in Nat
    BY DEF IInv, TypeOK
  <1>3. Nth(read, Len(taken) + 1) = drain
    BY NthOfDistance, Positions DEF IInv, TypeOK
  <1>4. Copied'
    <2>1. /\ Len(taken') = Len(taken) + 1
          /\ taken'[Len(taken) + 1] = slots[drain]
          /\ \A i \in 1..Len(taken) : taken'[i] = taken[i]
      BY <1>1, <1>2
    <2> SUFFICES ASSUME NEW i \in 1..(Len(taken) + 1)
                 PROVE  taken'[i] = slots[Nth(read, i)]
      BY <1>1, <2>1 DEF Copied
    <2>2. CASE i = Len(taken) + 1
      BY <2>1, <2>2, <1>3
    <2>3. CASE i # Len(taken) + 1
      <3>1. i \in 1..Len(taken)  BY <2>3, <1>2
      <3> QED  BY <3>1, <2>1 DEF DataInv, Copied
    <2> QED  BY <2>2, <2>3
  <1>5. Written'
    BY <1>1 DEF DataInv, Written, producer
  <1>6. Contents' = Contents
    BY <1>1, ContentsIsLine
  <1> QED  BY <1>1, <1>4, <1>5, <1>6, Stutter DEF DataInv, producer

LEMMA ReleaseStep ==
  ASSUME IInv, IInv', DataInv, Release
  PROVE  DataInv' /\ [Fifo!Next]_(Fifo!vars)
  <1> DEFINE d == Distance(read, write)
  <1>1. /\ ~Draining /\ read' = drain /\ out' = taken /\ taken' = <<>>
        /\ UNCHANGED <<slots, write, seenWrite, drain, producer>>
    BY DEF Release
  <1>2. /\ read \in Index /\ write \in Index /\ drain \in Index
        /\ slots \in [Index -> Value] /\ taken \in Seq(Value)
    BY DEF IInv, TypeOK
  <1>3. Len(taken) = count /\ Distance(read, drain) = count /\ count \in 0..d /\ d \in Nat
    BY <1>1, Positions DEF Draining
  <1>4. /\ Contents \in Seq(Value) /\ Len(Contents) = d
        /\ \A i \in 1..d : Contents[i] = slots[Nth(read, i)]
    BY <1>2, LineSeq, ContentsIsLine
  <1>5. Contents' = SubSeq(Contents, count + 1, Len(Contents))
    <2>1. Contents' = Line(slots, drain, write) /\ Contents = Line(slots, read, write)
      BY <1>1, ContentsIsLine
    <2>2. Distance(read, drain) <= Distance(read, write)
      BY <1>3
    <2>3. Line(slots, drain, write)
            = SubSeq(Line(slots, read, write), Distance(read, drain) + 1,
                     Len(Line(slots, read, write)))
      BY <2>2, <1>2, LineSuffix
    <2> QED  BY <2>1, <2>3, <1>3
  <1> HIDE DEF d
  <1>6. taken = SubSeq(Contents, 1, count)
    <2>1. /\ SubSeq(Contents, 1, count) \in Seq(Value)
          /\ Len(SubSeq(Contents, 1, count)) = count
          /\ \A i \in 1..count : SubSeq(Contents, 1, count)[i] = Contents[i]
      BY <1>3, <1>4
    <2>2. \A i \in 1..count : taken[i] = Contents[i]
      BY <1>3, <1>4 DEF DataInv, Copied
    <2> QED  BY <1>2, <1>3, <2>1, <2>2, SeqEqual
  <1>7. Fifo!Take(count)
    BY <1>1, <1>5, <1>6 DEF Fifo!Take, producer
  <1>8. Written' /\ Copied'
    BY <1>1 DEF DataInv, Written, Copied, producer
  <1> QED  BY <1>3, <1>4, <1>7, <1>8 DEF DataInv, Fifo!Next

LEMMA ClearStep ==
  ASSUME IInv, IInv', DataInv, Clear
  PROVE  DataInv' /\ [Fifo!Next]_(Fifo!vars)
  <1> DEFINE k == Distance(read, read')
  <1>1. /\ count = 0 /\ read' = seenWrite'
        /\ UNCHANGED <<slots, write, count, taken, out, producer>>
    BY DEF Clear, ConsumerIdle
  <1>2. /\ read \in Index /\ write \in Index /\ read' \in Index
        /\ slots \in [Index -> Value]
    BY DEF IInv, TypeOK
  <1>3. Len(taken) = 0
    BY <1>1, Positions
  <1>4. Distance(read, read') <= Distance(read, write)
    <2>1. PICK w \in VisibleWrites : read' = w
      BY DEF Clear
    <2>2. w \in Index /\ Distance(seenWrite, w) <= Distance(seenWrite, write)
      BY <2>1 DEF VisibleWrites
    <2>3. /\ seenWrite \in Index
          /\ Distance(read, seenWrite) <= Distance(read, write)
      BY DEF IInv, TypeOK, ConsumerOrder
    <2>4. Distance(read, write) = Distance(read, seenWrite) + Distance(seenWrite, write)
      BY <1>2, <2>3, DistanceSplit
    <2>5. /\ Distance(read, seenWrite) \in 0..Capacity
          /\ Distance(seenWrite, w) \in 0..Capacity
          /\ Distance(seenWrite, write) \in 0..Capacity
          /\ Distance(read, write) \in 0..Capacity
      BY <1>2, <2>2, <2>3, DistanceRange
    <2>6. Distance(read, seenWrite) + Distance(seenWrite, w) <= Capacity
      BY <2>2, <2>4, <2>5, Positions
    <2>7. Distance(read, w) = Distance(read, seenWrite) + Distance(seenWrite, w)
      BY <1>2, <2>2, <2>3, <2>6, DistanceJoin
    <2> QED  BY <2>1, <2>2, <2>4, <2>5, <2>7, Positions
  <1>5. /\ Contents \in Seq(Value) /\ Len(Contents) = Distance(read, write)
        /\ k \in 0..Len(Contents)
    BY <1>2, <1>4, LineSeq, ContentsIsLine, DistanceRange, Positions
  <1>6. Contents' = SubSeq(Contents, k + 1, Len(Contents))
    <2>1. Contents' = Line(slots, read', write) /\ Contents = Line(slots, read, write)
      BY <1>1, ContentsIsLine
    <2> QED  BY <2>1, <1>2, <1>4, LineSuffix
  <1> HIDE DEF k
  <1>7. Fifo!Discard(k)
    BY <1>1, <1>6 DEF Fifo!Discard, producer
  <1>8. Written' /\ Copied'
    BY <1>1, <1>3 DEF DataInv, Written, Copied, producer
  <1> QED  BY <1>5, <1>7, <1>8 DEF DataInv, Fifo!Next
-----------------------------------------------------------------------------
LEMMA InitDataInv == Init => DataInv /\ Fifo!Init
  <1> SUFFICES ASSUME Init PROVE DataInv /\ Fifo!Init
    OBVIOUS
  <1>1. 0 \in Index /\ Distance(0, 0) = 0
    <2>1. 0 \in Index  BY RingAssumption DEF Index
    <2> QED  BY <2>1, DistanceSelf
  <1>2. DataInv
    BY <1>1 DEF Init, DataInv, Written, Copied
  <1>3. Contents = <<>>
    BY <1>1 DEF Init, Contents
  <1> QED  BY <1>2, <1>3 DEF Init, Fifo!Init

LEMMA EveryStep ==
  IInv /\ IInv' /\ DataInv /\ [Next]_vars => DataInv' /\ [Fifo!Next]_(Fifo!vars)
  <1> SUFFICES ASSUME IInv, IInv', DataInv, [Next]_vars
               PROVE  DataInv' /\ [Fifo!Next]_(Fifo!vars)
    OBVIOUS
  <1>1. CASE UNCHANGED vars
    <2>1. Contents' = Contents
      BY <1>1, ContentsIsLine DEF vars
    <2>2. DataInv'
      BY <1>1 DEF vars, producer, consumer, DataInv, Written, Copied
    <2> QED  BY <1>1, <2>1, <2>2, Stutter DEF vars, producer, consumer
  <1>2. CASE ProducerNext
    BY <1>2, VacancyStep, PushStep, FillStep, PublishStep DEF ProducerNext
  <1>3. CASE ConsumerNext
    BY <1>3, PopStep, DrainStep, ReleaseStep, ClearStep DEF ConsumerNext
  <1> QED  BY <1>1, <1>2, <1>3 DEF Next

(* The ring is a bounded first-in first-out queue: nothing pushed is lost, *)
(* repeated, reordered or altered, and a batch becomes visible whole       *)
(* (push, push_slice, pop, pop_slice and clear of spsc.rs, interleaved     *)
(* access by access).                                                      *)
THEOREM RingImplementsFifo == Spec => ImplementsFifo
  <1>1. Init => DataInv /\ Fifo!Init
    BY InitDataInv
  <1>2. IInv /\ IInv' /\ DataInv /\ [Next]_vars
          => DataInv' /\ [Fifo!Next]_(Fifo!vars)
    BY EveryStep
  <1>3. Spec => Fifo!Init /\ [][Fifo!Next]_(Fifo!vars)
    BY <1>1, <1>2, Ordered, PTL DEF Spec
  <1> QED  BY <1>3 DEF ImplementsFifo, Fifo!Spec
=============================================================================
