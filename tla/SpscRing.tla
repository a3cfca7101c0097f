------------------------------ MODULE SpscRing ------------------------------
(***************************************************************************)
(* crates/rf-soundfonts-engine/src/spsc.rs: a lock-free ring shared by one *)
(* producer thread and one consumer thread, at the grain of its memory     *)
(* accesses.  Every atomic load, every plain access to a slot and every    *)
(* atomic store of a transfer is a step of its own, so the two threads     *)
(* interleave wherever the hardware lets them.                             *)
(*                                                                         *)
(* Weak memory: an acquire load of the other side's index may return any   *)
(* value that index has held since the last value this side saw; seenRead  *)
(* and seenWrite remember that last value.  Each side reads its own index  *)
(* exactly, since it is the index's only writer.                           *)
(***************************************************************************)
EXTENDS Integers, Sequences

CONSTANTS N,       \* slots.len(): the capacity and the slot kept empty
          Value,   \* the Copy type the ring carries
          Zero,    \* T::default()
          Slices   \* the batches that callers hand to push_slice

ASSUME RingAssumption ==
  /\ N \in Nat \ {0}
  /\ Zero \in Value
  /\ Slices \subseteq Seq(Value)

VARIABLES
  slots,      \* shared, plain memory
  read,       \* shared, stored by the consumer
  write,      \* shared, stored by the producer
  seenRead,   \* producer: the value of read its last acquire load returned
  fill,       \* producer: the local `cursor` of the transfer in flight
  offered,    \* producer: the values the transfer accepted, <<>> between calls
  room,       \* producer: what vacancy() reported since its last transfer
  seenWrite,  \* consumer: the value of write its last acquire load returned
  drain,      \* consumer: the local `cursor` of the transfer in flight
  count,      \* consumer: how many values the transfer takes, 0 between calls
  taken,      \* consumer: the values the transfer has copied out so far
  out         \* consumer: what its last finished call returned

producer == <<seenRead, fill, offered, room>>
consumer == <<seenWrite, drain, count, taken, out>>
vars == <<slots, read, write, producer, consumer>>

-----------------------------------------------------------------------------
Index == 0..(N - 1)
Smaller(a, b) == IF a < b THEN a ELSE b

Capacity == N - 1

(* The next slot index; NoWrap forgets the end of the array. *)
NoWrap(i) == i + 1
Advance(i) == IF i + 1 = N THEN 0 ELSE i + 1

(* Forward distance around the ring.  WrappingDistance is what the doc     *)
(* comment of `distance` warns of: a subtraction that wraps in the machine *)
(* word (16 values here) and only then takes the remainder.                *)
WrappingDistance(r, w) == ((16 + w - r) % 16) % N
Distance(r, w) == (w + N - r) % N

(* What an acquire load may return, given what was last seen. *)
VisibleReads == {r \in Index : Distance(seenRead, r) <= Distance(seenRead, read)}
VisibleWrites == {w \in Index : Distance(seenWrite, w) <= Distance(seenWrite, write)}

ProducerIdle == offered = <<>>
ConsumerIdle == count = 0
-----------------------------------------------------------------------------
Init ==
  /\ slots = [i \in Index |-> Zero]
  /\ read = 0 /\ write = 0
  /\ seenRead = 0 /\ fill = 0 /\ offered = <<>> /\ room = 0
  /\ seenWrite = 0 /\ drain = 0 /\ count = 0 /\ taken = <<>> /\ out = <<>>

(* vacancy() on the producer's side.  SwappedVacancy measures the ring from *)
(* the wrong end.                                                           *)
SwappedVacancy ==
  /\ ProducerIdle
  /\ \E r \in VisibleReads :
       /\ seenRead' = r
       /\ room' = Capacity - Distance(write, r)
  /\ UNCHANGED <<slots, read, write, fill, offered, consumer>>

Vacancy ==
  /\ ProducerIdle
  /\ \E r \in VisibleReads :
       /\ seenRead' = r
       /\ room' = Capacity - Distance(r, write)
  /\ UNCHANGED <<slots, read, write, fill, offered, consumer>>

(* push(v) up to its test: full returns false, otherwise the slot is next. *)
Push(v) ==
  /\ ProducerIdle
  /\ \E r \in VisibleReads :
       /\ seenRead' = r
       /\ offered' = IF Advance(write) = r THEN <<>> ELSE <<v>>
  /\ fill' = write
  /\ UNCHANGED <<slots, read, write, room, consumer>>

(* push_slice(values) up to its loop: the prefix that fits. *)
PushSlice(values) ==
  /\ ProducerIdle
  /\ \E r \in VisibleReads :
       LET vacancy == Capacity - Distance(r, write)
       IN /\ seenRead' = r
          /\ offered' = SubSeq(values, 1, Smaller(Len(values), vacancy))
  /\ fill' = write
  /\ UNCHANGED <<slots, read, write, room, consumer>>

Filling == Distance(write, fill) < Len(offered)

(* One plain store into a slot. *)
FillSlot ==
  /\ Filling
  /\ slots' = [slots EXCEPT ![fill] = offered[Distance(write, fill) + 1]]
  /\ fill' = Advance(fill)
  /\ UNCHANGED <<read, write, seenRead, offered, room, consumer>>

(* The release store that ends push and push_slice. *)
Publish ==
  /\ ~ProducerIdle /\ ~Filling
  /\ write' = fill
  /\ offered' = <<>>
  /\ room' = 0
  /\ UNCHANGED <<slots, read, seenRead, fill, consumer>>
-----------------------------------------------------------------------------
(* pop_slice(out) for an `out` of n values, up to its loop; pop() is the   *)
(* case n = 1.  With nothing available the call returns at once.           *)
(* HastyPopSlice gives the slots back before it has copied them.           *)
HastyPopSlice(n) ==
  /\ ConsumerIdle
  /\ \E w \in VisibleWrites :
       /\ seenWrite' = w
       /\ count' = Smaller(n, Distance(read, w))
       /\ read' = (read + count') % N
       /\ out' = IF count' = 0 THEN <<>> ELSE out
  /\ drain' = read
  /\ UNCHANGED <<slots, write, taken, producer>>

PopSlice(n) ==
  /\ ConsumerIdle
  /\ \E w \in VisibleWrites :
       /\ seenWrite' = w
       /\ count' = Smaller(n, Distance(read, w))
       /\ out' = IF count' = 0 THEN <<>> ELSE out
  /\ drain' = read
  /\ UNCHANGED <<slots, read, write, taken, producer>>

Draining == Len(taken) < count

(* One plain load from a slot. *)
DrainSlot ==
  /\ Draining
  /\ taken' = Append(taken, slots[drain])
  /\ drain' = Advance(drain)
  /\ UNCHANGED <<slots, read, write, seenWrite, count, out, producer>>

(* The release store that ends pop and pop_slice. *)
Release ==
  /\ ~ConsumerIdle /\ ~Draining
  /\ read' = drain
  /\ out' = taken
  /\ taken' = <<>>
  /\ count' = 0
  /\ UNCHANGED <<slots, write, seenWrite, drain, producer>>

(* clear(): the consumer skips to the write index it sees. *)
Clear ==
  /\ ConsumerIdle
  /\ \E w \in VisibleWrites : seenWrite' = w /\ read' = w /\ drain' = w
  /\ UNCHANGED <<slots, write, count, taken, out, producer>>
-----------------------------------------------------------------------------
ProducerNext ==
  \/ Vacancy
  \/ \E v \in Value : Push(v)
  \/ \E values \in Slices : PushSlice(values)
  \/ FillSlot
  \/ Publish

ConsumerNext ==
  \/ \E n \in 1..N : PopSlice(n)
  \/ DrainSlot
  \/ Release
  \/ Clear

Next == ProducerNext \/ ConsumerNext

Spec == Init /\ [][Next]_vars
-----------------------------------------------------------------------------
TypeOK ==
  /\ slots \in [Index -> Value]
  /\ read \in Index /\ write \in Index
  /\ seenRead \in Index /\ fill \in Index
  /\ offered \in Seq(Value) /\ room \in 0..Capacity
  /\ seenWrite \in Index /\ drain \in Index
  /\ count \in 0..Capacity /\ taken \in Seq(Value) /\ out \in Seq(Value)

(* The safety comment of spsc.rs: "no slot is ever accessed by both        *)
(* threads at once".  The producer is at a store into slots[fill] while    *)
(* the consumer is at a load from slots[drain].                            *)
NoSharedSlot == Filling /\ Draining => fill # drain

(* What vacancy() reported can be pushed in full, whatever the consumer    *)
(* did since: the streamer reads that many frames from disk and would lose *)
(* half a frame if push_slice then took an odd number of samples.          *)
RoomIsKept == room <= Capacity - Distance(read, write)

(* The ring is the bounded queue of BoundedFifo: the published slots in    *)
(* order, from read to write.                                              *)
Contents ==
  [i \in 1..Distance(read, write) |-> slots[(read + i - 1) % N]]

Fifo == INSTANCE BoundedFifo
          WITH queue <- Contents, input <- offered, output <- out

(* Nothing pushed is lost, repeated, reordered or altered, a full ring     *)
(* refuses and a batch appears whole or not at all.                        *)
ImplementsFifo == Fifo!Spec
=============================================================================
