------------------------- MODULE Streamer_refinement -------------------------
(***************************************************************************)
(* What the voices hear.  The slots' owners (IInv) say who may touch a     *)
(* ring; the proof adds what the rings hold: frames of the slot's open     *)
(* file, consecutive, up to where the file stands.  Without early drops    *)
(* and failing reads the two threads together are the pool of StreamPool.  *)
(***************************************************************************)
EXTENDS Streamer_proofs

(* The frames q of a file are consecutive and end where the file stands. *)
Upto(q, file) ==
  q # <<>> =>
    /\ file # None
    /\ FirstFrame + Len(q) <= file.next
    /\ \A i \in 1..Len(q) : q[i] = <<file.sample, file.next - Len(q) + i - 1>>

(* A slot keeps neither file nor frames until it is active, and the reader *)
(* never loses sight of the slot it works on. *)
Unopened(s) == open[s] = None /\ ring[s] = <<>>

FileOrder ==
  /\ \A s \in Slots : open[s] # None => open[s].next \in FirstFrame..FrameCount
  /\ \A s \in Slots : state[s] \in {"free", "claimed"} =>
       /\ ring[s] = <<>>
       /\ open[s] # None => rpc = "activate" /\ s = Here
  /\ rpc \in {"take", "nofile", "release"} => Unopened(Here)
  /\ rpc \in {"take", "nofile", "activate"} => state[Here] \in {"claimed", "releasing"}
  /\ rpc = "activate" => ring[Here] = <<>>
  /\ rpc \in {"refill", "finish"} => state[Here] \in {"active", "releasing"}

(* What a voice has heard and what waits for it in the ring are one run.   *)
Heard ==
  /\ \A s \in Slots : Upto(ring[s], open[s])
  /\ \A v \in Voices : voice[v] # None =>
       /\ Upto(voice[v].got \o ring[voice[v].slot], open[voice[v].slot])
       /\ state[voice[v].slot] = "claimed" => voice[v].got = <<>>

DInv == FileOrder /\ Heard
-----------------------------------------------------------------------------
(* Runs of frames.                                                         *)

LEMMA UptoEmpty ==
  ASSUME NEW file PROVE Upto(<<>>, file)
  BY DEF Upto

(* The rest of a run is a run. *)
LEMMA UptoRest ==
  ASSUME NEW p \in FrameSeqs, NEW q \in FrameSeqs, NEW file \in Files \cup {None},
         Upto(p \o q, file)
  PROVE  Upto(q, file)
  <1> DEFINE F == Samples \X Nat
  <1>1. p \in Seq(F) /\ q \in Seq(F)
    BY DEF FrameSeqs
  <1> HIDE DEF F
  <1>2. /\ Len(p \o q) = Len(p) + Len(q)
        /\ \A i \in 1..Len(q) : (p \o q)[Len(p) + i] = q[i]
        /\ Len(p) \in Nat /\ Len(q) \in Nat
    BY <1>1
  <1>3. SUFFICES ASSUME q # <<>>
        PROVE  /\ file # None
               /\ FirstFrame + Len(q) <= file.next
               /\ \A i \in 1..Len(q) :
                    q[i] = <<file.sample, file.next - Len(q) + i - 1>>
    BY DEF Upto
  <1>4. p \o q # <<>>
    <2>1. Len(q) # 0
      BY <1>1, <1>3, EmptySeq
    <2> QED  BY <1>2, <2>1
  <1>5. /\ file # None /\ FirstFrame + Len(p \o q) <= file.next
        /\ \A i \in 1..Len(p \o q) :
             (p \o q)[i] = <<file.sample, file.next - Len(p \o q) + i - 1>>
    BY <1>4 DEF Upto
  <1>6. file.next \in Nat /\ FirstFrame \in Nat
    BY <1>5, StreamerAssumption DEF Files
  <1>7. FirstFrame + Len(q) <= file.next
    BY <1>2, <1>5, <1>6
  <1>8. ASSUME NEW i \in 1..Len(q)
        PROVE  q[i] = <<file.sample, file.next - Len(q) + i - 1>>
    <2>1. Len(p) + i \in 1..Len(p \o q)
      BY <1>2
    <2>2. q[i] = <<file.sample, file.next - Len(p \o q) + (Len(p) + i) - 1>>
      BY <1>2, <1>5, <2>1
    <2>3. file.next - Len(p \o q) + (Len(p) + i) - 1 = file.next - Len(q) + i - 1
      BY <1>2, <1>6
    <2> QED  BY <2>2, <2>3
  <1> QED  BY <1>5, <1>7, <1>8

LEMMA FrameAt ==
  ASSUME NEW sample, NEW from \in Nat, NEW n \in Nat, NEW i \in 1..n
  PROVE  Frames(sample, from, from + n)[i] = <<sample, from + i - 1>>
  <1>1. i \in 1..(from + n - from)
    OBVIOUS
  <1> QED  BY <1>1 DEF Frames

LEMMA RunIsFrames ==
  ASSUME NEW q \in FrameSeqs, NEW sample \in Samples, NEW from \in Nat,
         \A i \in 1..Len(q) : q[i] = <<sample, from + i - 1>>
  PROVE  q = Frames(sample, from, from + Len(q))
  <1> DEFINE F == Samples \X Nat
             run == Frames(sample, from, from + Len(q))
  <1>1. q \in Seq(F)
    BY DEF FrameSeqs
  <1> HIDE DEF F
  <1>2. Len(q) \in Nat
    BY <1>1
  <1>3. \A i \in 1..Len(q) : q[i] = run[i]
    BY <1>2, FrameAt
  <1>4. run \in Seq(F) /\ Len(run) = Len(q)
    BY <1>2, FramesType DEF FrameSeqs, F
  <1> HIDE DEF run
  <1>5. q = run
    BY <1>1, <1>3, <1>4, SeqEqual
  <1> QED  BY <1>5 DEF run

LEMMA EmptyRun ==
  ASSUME NEW q \in FrameSeqs, q = <<>>, NEW sample \in Samples, NEW from \in Nat
  PROVE  q = Frames(sample, from, from + Len(q))
  <1>1. Len(q) = 0
    OBVIOUS
  <1>2. \A i \in 1..Len(q) : q[i] = <<sample, from + i - 1>>
    BY <1>1
  <1> QED  BY <1>2, RunIsFrames, Zenon

(* A run and the frames the file delivers next are a run up to where it    *)
(* then stands. *)
LEMMA UptoGrows ==
  ASSUME NEW q \in FrameSeqs, NEW file \in Files, NEW n \in Nat,
         FirstFrame <= file.next, Upto(q, file)
  PROVE  Upto(q \o Frames(file.sample, file.next, file.next + n),
              [file EXCEPT !.next = file.next + n])
  <1> DEFINE F == Samples \X Nat
             added == Frames(file.sample, file.next, file.next + n)
             later == [file EXCEPT !.next = file.next + n]
  <1>1. /\ file.next \in Nat /\ file.sample \in Samples /\ FirstFrame \in Nat
        /\ later # None /\ later.next = file.next + n /\ later.sample = file.sample
    BY StreamerAssumption, NoneAssumption DEF Files
  <1>2. added \in FrameSeqs /\ Len(added) = n
    BY <1>1, FramesType
  <1>3. \A i \in 1..n : added[i] = <<file.sample, file.next + i - 1>>
    BY <1>1, FrameAt
  <1>4. q \in Seq(F) /\ added \in Seq(F)
    BY <1>2 DEF FrameSeqs
  <1> HIDE DEF F, added, later
  <1>5. /\ Len(q \o added) = Len(q) + n /\ Len(q) \in Nat
        /\ \A i \in 1..Len(q) : (q \o added)[i] = q[i]
        /\ \A i \in 1..n : (q \o added)[Len(q) + i] = added[i]
    BY <1>2, <1>4
  <1>6. /\ FirstFrame + Len(q) <= file.next
        /\ \A i \in 1..Len(q) : q[i] = <<file.sample, file.next - Len(q) + i - 1>>
    <2>1. CASE q = <<>>
      BY <1>1, <2>1
    <2>2. CASE q # <<>>
      BY <2>2 DEF Upto
    <2> QED  BY <2>1, <2>2
  <1>7. FirstFrame + Len(q \o added) <= later.next
    BY <1>1, <1>5, <1>6
  <1>8. ASSUME NEW i \in 1..Len(q \o added)
        PROVE  (q \o added)[i] =
                 <<later.sample, later.next - Len(q \o added) + i - 1>>
    <2>1. later.next - Len(q \o added) + i - 1 = file.next - Len(q) + i - 1
      BY <1>1, <1>5
    <2>2. CASE i \in 1..Len(q)
      BY <1>1, <1>5, <1>6, <2>1, <2>2
    <2>3. CASE i \notin 1..Len(q)
      <3>1. PICK k \in 1..n : i = Len(q) + k
        <4>1. i - Len(q) \in 1..n /\ i = Len(q) + (i - Len(q))
          BY <1>5, <2>3
        <4> QED  BY <4>1
      <3>2. (q \o added)[i] = <<file.sample, file.next + k - 1>>
        BY <1>3, <1>5, <3>1
      <3>3. later.next - Len(q \o added) + i - 1 = file.next + k - 1
        BY <1>1, <1>5, <2>1, <3>1
      <3> QED  BY <1>1, <3>2, <3>3
    <2> QED  BY <2>2, <2>3
  <1>9. Upto(q \o added, later)
    BY <1>1, <1>7, <1>8 DEF Upto
  <1> QED  BY <1>9 DEF added, later
-----------------------------------------------------------------------------
(* Every step keeps the runs whole.                                        *)

(* A slot the claim under way has taken has no stream's voice yet. *)
LEMMA ClaimIsNew ==
  ASSUME IInv, claim # None, NEW v \in Voices, voice[v] # None
  PROVE  voice[v].slot # claim.slot
  <1>1. claim \in Claims /\ OwnSlot /\ ClaimOrder
    BY DEF IInv, TypeOK
  <1>2. claim.slot \in Slots /\ claim.voice \in Voices /\ voice[claim.voice] = None
    BY <1>1 DEF Claims, ClaimOrder
  <1>3. Holds(claim.voice, claim.slot)
    BY DEF Holds
  <1>4. voice[v].slot = claim.slot => Holds(v, claim.slot)
    BY DEF Holds
  <1> QED  BY <1>1, <1>2, <1>3, <1>4, OwnSlotMeans

(* A voice's slot is claimed or active. *)
LEMMA HeldSlot ==
  ASSUME IInv, NEW v \in Voices, voice[v] # None
  PROVE  /\ voice[v] \in Streams /\ voice[v].slot \in Slots
         /\ state[voice[v].slot] \in {"claimed", "active"}
  <1>1. voice[v] \in Streams /\ OwnSlot
    BY DEF IInv, TypeOK
  <1>2. voice[v].slot \in Slots /\ Holds(v, voice[v].slot)
    BY <1>1 DEF Streams, Holds
  <1> QED  BY <1>1, <1>2, OwnSlotMeans

LEMMA SameRuns ==
  ASSUME Heard, UNCHANGED <<ring, open, voice>>,
         \A v \in Voices : voice[v] # None =>
           (state'[voice[v].slot] = "claimed" => state[voice[v].slot] = "claimed")
  PROVE  Heard'
  BY DEF Heard

LEMMA SameFiles ==
  ASSUME FileOrder, rpc # "activate", rpc' \in {"scan", "stopped"},
         UNCHANGED <<state, ring, open>>
  PROVE  FileOrder'
  BY DEF FileOrder

LEMMA InitDInv ==
  ASSUME Init PROVE DInv
  BY UptoEmpty DEF Init, DInv, FileOrder, Heard

LEMMA ClaimSlotKeepsRuns ==
  ASSUME IInv, DInv, NEW v \in Voices, NEW s \in Slots, NEW sample \in Samples,
         ClaimSlot(v, s, sample)
  PROVE  DInv'
  <1>1. /\ state[s] = "free" /\ state' = [state EXCEPT ![s] = "claimed"]
        /\ UNCHANGED <<ring, request, exhausted, voice, running, readerVars>>
    BY DEF ClaimSlot
  <1>2. /\ TypeOK /\ FileOrder /\ Heard /\ Here \in Slots
        /\ UNCHANGED <<rpc, open, Here>>
    BY <1>1, HereIsSlot DEF IInv, DInv, readerVars, Here
  <1>3. \A r \in Slots : state'[r] = IF r = s THEN "claimed" ELSE state[r]
    BY <1>1, <1>2 DEF TypeOK
  <1>4. FileOrder'
    BY <1>1, <1>2, <1>3 DEF FileOrder, Unopened
  <1>5. Heard'
    <2>1. ASSUME NEW w \in Voices, voice[w] # None PROVE voice[w].slot # s
      BY <1>1, <2>1, HeldSlot
    <2> QED  BY <1>1, <1>2, <1>3, <2>1, HeldSlot, SameRuns
  <1> QED  BY <1>4, <1>5 DEF DInv

LEMMA ClaimClearKeepsRuns ==
  ASSUME IInv, DInv, ClaimClear
  PROVE  DInv'
  <1>1. /\ claim # None /\ ring' = [ring EXCEPT ![claim.slot] = <<>>]
        /\ UNCHANGED <<state, request, exhausted, voice, running, readerVars>>
    BY DEF ClaimClear
  <1>2. /\ TypeOK /\ FileOrder /\ Heard /\ Here \in Slots
        /\ UNCHANGED <<rpc, open, Here>>
    BY <1>1, HereIsSlot DEF IInv, DInv, readerVars, Here
  <1>3. \A r \in Slots : ring'[r] = IF r = claim.slot THEN <<>> ELSE ring[r]
    BY <1>1, <1>2 DEF TypeOK
  <1>4. FileOrder'
    BY <1>1, <1>2, <1>3 DEF FileOrder, Unopened
  <1>5. Heard'
    <2>1. \A r \in Slots : Upto(ring'[r], open[r])
      BY <1>2, <1>3, UptoEmpty DEF Heard
    <2>2. ASSUME NEW w \in Voices, voice[w] # None
          PROVE  voice[w].slot \in Slots /\ ring'[voice[w].slot] = ring[voice[w].slot]
      BY <1>1, <1>3, <2>2, ClaimIsNew, HeldSlot
    <2> QED  BY <1>1, <1>2, <2>1, <2>2 DEF Heard
  <1> QED  BY <1>4, <1>5 DEF DInv

LEMMA AudioElsewhereKeepsRuns ==
  ASSUME DInv, UNCHANGED <<state, ring, voice, readerVars>>
  PROVE  DInv'
  BY DEF DInv, FileOrder, Heard, Unopened, Here, readerVars

(* The new voice has heard nothing; what may wait in its ring is a run. *)
LEMMA ClaimRequestKeepsRuns ==
  ASSUME IInv, DInv, ClaimRequest
  PROVE  DInv'
  <1> DEFINE new == [slot |-> claim.slot, sample |-> claim.sample, got |-> <<>>]
  <1>1. /\ claim # None
        /\ voice' = [voice EXCEPT ![claim.voice] = new]
        /\ UNCHANGED <<state, ring, exhausted, running, readerVars>>
    BY DEF ClaimRequest
  <1>2. /\ TypeOK /\ FileOrder /\ Heard /\ claim \in Claims
        /\ UNCHANGED <<rpc, open, Here>>
    BY <1>1 DEF IInv, TypeOK, DInv, readerVars, Here
  <1>3. claim.slot \in Slots /\ ring[claim.slot] \in FrameSeqs
    BY <1>2 DEF TypeOK, Claims
  <1>4. new.got \o ring[new.slot] = ring[new.slot] /\ new.got = <<>>
        /\ new.slot \in Slots
    BY <1>3, ConcatEmptySeq DEF FrameSeqs
  <1> HIDE DEF new
  <1>5. \A v \in Voices : voice'[v] = IF v = claim.voice THEN new ELSE voice[v]
    BY <1>1, <1>2 DEF TypeOK
  <1>6. FileOrder'
    BY <1>1, <1>2 DEF FileOrder, Unopened
  <1>7. Heard'
    <2>1. Upto(new.got \o ring[new.slot], open[new.slot])
      BY <1>2, <1>4 DEF Heard
    <2> QED  BY <1>1, <1>2, <1>4, <1>5, <2>1 DEF Heard
  <1> QED  BY <1>6, <1>7 DEF DInv

LEMMA Regroup ==
  ASSUME NEW x \in FrameSeqs, NEW y \in FrameSeqs, NEW z \in FrameSeqs
  PROVE  /\ (x \o y) \o z = x \o (y \o z)
         /\ x \o y \in FrameSeqs /\ Len(x \o y) = Len(x) + Len(y)
  <1> DEFINE F == Samples \X Nat
  <1>1. x \in Seq(F) /\ y \in Seq(F) /\ z \in Seq(F)
    BY DEF FrameSeqs
  <1> HIDE DEF F
  <1>2. (x \o y) \o z = x \o (y \o z)
    BY <1>1, ConcatAssociative
  <1>3. x \o y \in Seq(F) /\ Len(x \o y) = Len(x) + Len(y)
    BY <1>1, ConcatProperties
  <1> QED  BY <1>2, <1>3 DEF FrameSeqs, F

(* What moves from the ring to the voice does not change their run. *)
LEMMA ReadMoves ==
  ASSUME IInv, NEW v \in Voices, NEW n \in 1..RingFrames, Read(v, n)
  PROVE  LET s == voice[v].slot IN
         /\ s \in Slots /\ Len(ring[s]) \in Nat /\ n <= Len(ring[s])
         /\ voice[v] \in Streams
         /\ voice'[v] = [voice[v] EXCEPT !.got = voice'[v].got]
         /\ voice'[v].got \in FrameSeqs
         /\ voice'[v].got \o ring'[s] = voice[v].got \o ring[s]
         /\ Len(voice'[v].got) = Len(voice[v].got) + n
         /\ Len(ring'[s]) = Len(ring[s]) - n
         /\ \A w \in Voices : w # v => voice'[w] = voice[w]
         /\ \A r \in Slots : r # s => ring'[r] = ring[r]
  <1> DEFINE s == voice[v].slot
             q == ring[s]
             got == voice[v].got
             heard == got \o SubSeq(q, 1, n)
             left == SubSeq(q, n + 1, Len(q))
             F == Samples \X Nat
  <1>1. /\ voice[v] # None /\ n <= Len(q)
        /\ voice' = [voice EXCEPT ![v].got = heard]
        /\ ring' = [ring EXCEPT ![s] = left]
    BY DEF Read
  <1>2. TypeOK /\ voice[v] \in Streams /\ s \in Slots /\ n \in Nat /\ 1 <= n
    BY <1>1, HeldSlot, StreamerAssumption DEF IInv
  <1>3. q \in Seq(F) /\ got \in Seq(F)
    BY <1>2 DEF TypeOK, Streams, FrameSeqs
  <1>4. /\ voice'[v] = [voice[v] EXCEPT !.got = heard]
        /\ \A w \in Voices : w # v => voice'[w] = voice[w]
        /\ ring'[s] = left
        /\ \A r \in Slots : r # s => ring'[r] = ring[r]
    BY <1>1, <1>2 DEF TypeOK
  <1>5. voice'[v].got = heard
    BY <1>2, <1>4 DEF Streams
  <1> HIDE DEF q, got, F
  <1>6. Len(q) \in Nat /\ n <= Len(q)
    BY <1>1, <1>3, LenProperties
  <1>7. /\ SubSeq(q, 1, n) \in Seq(F) /\ Len(SubSeq(q, 1, n)) = n
        /\ left \in Seq(F) /\ Len(left) = Len(q) - n
    BY <1>2, <1>3, <1>6
  <1>8. SubSeq(q, 1, n) \o left = q
    <2>1. /\ 1 \in 1..Len(q) + 1 /\ n \in (1 - 1)..Len(q) /\ Len(q) \in n..Len(q)
      BY <1>2, <1>6
    <2>2. SubSeq(q, 1, n) \o SubSeq(q, n + 1, Len(q)) = SubSeq(q, 1, Len(q))
      BY <1>3, <2>1, ConcatAdjacentSubSeq
    <2> QED  BY <1>3, <2>2, SubSeqFull
  <1> HIDE DEF left
  <1>9. heard \o left = got \o q /\ heard \in Seq(F) /\ Len(heard) = Len(got) + n
    <2> DEFINE a == SubSeq(q, 1, n)
    <2>1. /\ a \in FrameSeqs /\ left \in FrameSeqs /\ got \in FrameSeqs
          /\ a \o left = q /\ Len(a) = n
      BY <1>3, <1>7, <1>8 DEF FrameSeqs, F
    <2> HIDE DEF a
    <2>2. /\ (got \o a) \o left = got \o (a \o left)
          /\ got \o a \in FrameSeqs /\ Len(got \o a) = Len(got) + Len(a)
      BY <2>1, Regroup
    <2> QED  BY <2>1, <2>2 DEF a, FrameSeqs, F
  <1> HIDE DEF heard
  <1>10. /\ voice'[v] = [voice[v] EXCEPT !.got = voice'[v].got]
         /\ voice'[v].got \in FrameSeqs
         /\ voice'[v].got \o ring'[s] = got \o q
         /\ Len(voice'[v].got) = Len(got) + n
         /\ Len(ring'[s]) = Len(q) - n
    BY <1>4, <1>5, <1>7, <1>9 DEF FrameSeqs, F
  <1> QED  BY <1>2, <1>4, <1>6, <1>10 DEF q, got

LEMMA ReadKeepsRuns ==
  ASSUME IInv, DInv, NEW v \in Voices, NEW n \in 1..RingFrames, Read(v, n)
  PROVE  DInv'
  <1> DEFINE s == voice[v].slot
  <1>1. /\ s \in Slots /\ Len(ring[s]) \in Nat /\ n <= Len(ring[s])
        /\ voice[v] \in Streams
        /\ voice'[v] = [voice[v] EXCEPT !.got = voice'[v].got]
        /\ voice'[v].got \in FrameSeqs
        /\ voice'[v].got \o ring'[s] = voice[v].got \o ring[s]
        /\ \A w \in Voices : w # v => voice'[w] = voice[w]
        /\ \A r \in Slots : r # s => ring'[r] = ring[r]
    BY ReadMoves
  <1>2. /\ voice[v] # None
        /\ UNCHANGED <<state, request, exhausted, claim, running, readerVars>>
    BY DEF Read
  <1>3. /\ TypeOK /\ TypeOK' /\ OwnSlot /\ FileOrder /\ Heard /\ Here \in Slots
        /\ UNCHANGED <<rpc, open, Here>>
    BY <1>2, ReadKeeps, HereIsSlot DEF IInv, DInv, readerVars, Here
  <1>4. ring[s] # <<>>
    <2>1. n >= 1 /\ n \in Nat
      BY StreamerAssumption
    <2>2. Len(ring[s]) # 0
      BY <1>1, <2>1
    <2> QED  BY <1>1, <2>2
  <1>5. state[s] # "claimed" /\ voice'[v].slot = s
    BY <1>1, <1>3, <1>4 DEF FileOrder, Streams
  <1>6. FileOrder'
    BY <1>1, <1>2, <1>3, <1>4, <1>5, HeldSlot DEF FileOrder, Unopened
  <1>7. Heard'
    <2>1. Upto(voice'[v].got \o ring'[s], open[s])
      BY <1>1, <1>2, <1>3 DEF Heard
    <2>2. open[s] \in Files \cup {None} /\ ring'[s] \in FrameSeqs
      BY <1>1, <1>3 DEF TypeOK
    <2>3. Upto(ring'[s], open[s])
      BY <1>1, <2>1, <2>2, UptoRest
    <2>4. ASSUME NEW w \in Voices, w # v, voice[w] # None
          PROVE  voice[w].slot # s /\ voice[w].slot \in Slots
      <3>1. Holds(v, s) /\ (voice[w].slot = s => Holds(w, s))
        BY <1>2, <2>4 DEF Holds
      <3> QED  BY <1>1, <1>3, <2>4, <3>1, HeldSlot, OwnSlotMeans
    <2> HIDE DEF s
    <2>5. \A r \in Slots : Upto(ring'[r], open[r])
      BY <1>1, <1>3, <2>3 DEF Heard
    <2>6. ASSUME NEW w \in Voices, voice'[w] # None
          PROVE  /\ Upto(voice'[w].got \o ring'[voice'[w].slot], open[voice'[w].slot])
                 /\ state[voice'[w].slot] = "claimed" => voice'[w].got = <<>>
      <3>1. CASE w = v
        BY <1>5, <2>1, <3>1
      <3>2. CASE w # v
        BY <1>1, <1>3, <2>4, <2>6, <3>2 DEF Heard
      <3> QED  BY <3>1, <3>2
    <2> QED  BY <1>2, <1>3, <2>5, <2>6 DEF Heard
  <1> QED  BY <1>6, <1>7 DEF DInv

LEMMA DropKeepsRuns ==
  ASSUME IInv, DInv, NEW v \in Voices, Drop(v)
  PROVE  DInv'
  <1>1. /\ voice[v] # None
        /\ state' = [state EXCEPT ![voice[v].slot] = "releasing"]
        /\ voice' = [voice EXCEPT ![v] = None]
        /\ UNCHANGED <<ring, request, exhausted, claim, running, readerVars>>
    BY DEF Drop
  <1>2. /\ TypeOK /\ FileOrder /\ Heard /\ Here \in Slots
        /\ UNCHANGED <<rpc, open, Here>>
    BY <1>1, HereIsSlot DEF IInv, DInv, readerVars, Here
  <1>3. \A w \in Voices : voice'[w] = IF w = v THEN None ELSE voice[w]
    BY <1>1, <1>2 DEF TypeOK
  <1>4. \A r \in Slots : state'[r] = state[r] \/ state'[r] = "releasing"
    BY <1>1, <1>2 DEF TypeOK
  <1>5. FileOrder'
    BY <1>1, <1>2, <1>4 DEF FileOrder, Unopened
  <1>6. Heard'
    BY <1>1, <1>2, <1>3, <1>4, HeldSlot DEF Heard
  <1> QED  BY <1>5, <1>6 DEF DInv
-----------------------------------------------------------------------------
LEMMA VisitKeepsRuns ==
  ASSUME IInv, DInv, Visit
  PROVE  DInv'
  <1>1. /\ UNCHANGED <<slotVars, audioVars, cursor, step, served, open>>
        /\ rpc = "scan" /\ rpc' \in {"take", "close", "refill"}
        /\ rpc' = "take" => state[Here] = "claimed"
        /\ rpc' = "refill" => state[Here] = "active"
    BY DEF Visit, Scanning
  <1>2. FileOrder /\ Heard /\ Here \in Slots /\ Here' = Here
    BY <1>1, HereIsSlot DEF IInv, DInv, Here
  <1>3. FileOrder'
    BY <1>1, <1>2 DEF FileOrder, Unopened, slotVars
  <1> QED  BY <1>1, <1>2, <1>3, SameRuns DEF DInv, slotVars, audioVars

LEMMA QuietKeepsRuns ==
  ASSUME DInv, Pass \/ TakeNothing \/ Finish \/ NothingRead \/ Stop
  PROVE  DInv'
  <1>1. /\ rpc # "activate" /\ rpc' \in {"scan", "stopped"}
        /\ UNCHANGED <<state, ring, open, voice>>
    BY DEF Pass, TakeNothing, Finish, NothingRead, Stop, Scanning, NextVisit,
       slotVars, audioVars
  <1> QED  BY <1>1, SameFiles, SameRuns DEF DInv

(* The file opens while its slot holds no frames and its voice, if it is   *)
(* still there, has heard none. *)
LEMMA TakeRequestKeepsRuns ==
  ASSUME IInv, DInv, TakeRequest
  PROVE  DInv'
  <1>1. /\ rpc = "take" /\ rpc' \in {"activate", "nofile"}
        /\ \/ /\ open' = [open EXCEPT ![Here] =
                            [sample |-> request[Here], next |-> FirstFrame]]
              /\ rpc' = "activate"
           \/ open' = open
        /\ UNCHANGED <<state, ring, exhausted, audioVars, cursor, step, served, wanted>>
    BY DEF TakeRequest
  <1>2. TypeOK /\ FileOrder /\ Heard /\ Here \in Slots /\ Here' = Here
    BY <1>1, HereIsSlot DEF IInv, DInv, Here
  <1>3. /\ open[Here] = None /\ ring[Here] = <<>>
        /\ state[Here] \in {"claimed", "releasing"}
    BY <1>1, <1>2 DEF FileOrder, Unopened
  <1> DEFINE h == Here
             file == [sample |-> request[h], next |-> FirstFrame]
  <1>4. \/ open' = [open EXCEPT ![h] = file] /\ rpc' = "activate"
        \/ open' = open
    BY <1>1
  <1>5. /\ h \in Slots /\ h' = h /\ ring[h] = <<>> /\ open[h] = None
        /\ state[h] \in {"claimed", "releasing"}
        /\ file.next \in FirstFrame..FrameCount
    BY <1>2, <1>3, StreamerAssumption
  <1> HIDE DEF file
  <1>6. \A r \in Slots : \/ open'[r] = open[r]
                         \/ r = h /\ open'[r] = file /\ rpc' = "activate"
    BY <1>2, <1>4 DEF TypeOK
  <1>7. FileOrder'
    <2>1. rpc' = "nofile" => open' = open
      BY <1>4
    <2> QED  BY <1>1, <1>2, <1>3, <1>5, <1>6, <2>1 DEF FileOrder, Unopened
  <1>8. Heard'
    <2>1. \A r \in Slots : Upto(ring[r], open'[r])
      BY <1>2, <1>5, <1>6, UptoEmpty DEF Heard
    <2>2. ASSUME NEW v \in Voices, voice[v] # None
          PROVE  Upto(voice[v].got \o ring[voice[v].slot], open'[voice[v].slot])
      <3>1. voice[v].slot \in Slots /\ state[voice[v].slot] \in {"claimed", "active"}
        BY <2>2, HeldSlot
      <3>2. CASE voice[v].slot = h
        <4>1. voice[v].got = <<>>
          BY <1>2, <1>5, <2>2, <3>1, <3>2 DEF Heard
        <4>2. voice[v].got \o ring[voice[v].slot] = <<>>
          BY <1>5, <3>2, <4>1
        <4> QED  BY <4>2, UptoEmpty
      <3>3. CASE voice[v].slot # h
        BY <1>2, <1>6, <2>2, <3>1, <3>3 DEF Heard
      <3> QED  BY <3>2, <3>3
    <2> QED  BY <1>1, <1>2, <2>1, <2>2 DEF Heard, audioVars
  <1> QED  BY <1>7, <1>8 DEF DInv

LEMMA NoFileKeepsRuns ==
  ASSUME IInv, DInv, NoFile
  PROVE  DInv'
  <1>1. /\ rpc = "nofile" /\ rpc' = "activate" /\ Here' = Here
        /\ UNCHANGED <<state, ring, open, voice>>
    BY DEF NoFile, audioVars, Here
  <1>2. FileOrder'
    BY <1>1 DEF DInv, FileOrder, Unopened
  <1> QED  BY <1>1, <1>2, SameRuns DEF DInv

LEMMA ActivateKeepsRuns ==
  ASSUME IInv, DInv, Activate
  PROVE  DInv'
  <1>1. /\ rpc = "activate" /\ rpc' = "scan"
        /\ state' = [state EXCEPT ![Here] = "active"]
        /\ UNCHANGED <<ring, request, exhausted, audioVars, open, wanted>>
    BY DEF Activate, NextVisit
  <1>2. TypeOK /\ FileOrder /\ Heard /\ Here \in Slots
    BY HereIsSlot DEF IInv, DInv
  <1>3. \A r \in Slots : state'[r] = IF r = Here THEN "active" ELSE state[r]
    BY <1>1, <1>2 DEF TypeOK
  <1>4. FileOrder'
    BY <1>1, <1>2, <1>3 DEF FileOrder
  <1>5. Heard'
    BY <1>1, <1>2, <1>3, HeldSlot, SameRuns DEF audioVars
  <1> QED  BY <1>4, <1>5 DEF DInv

LEMMA CloseFileKeepsRuns ==
  ASSUME IInv, DInv, CloseFile
  PROVE  DInv'
  <1>1. /\ rpc = "close" /\ rpc' = "release" /\ Here' = Here
        /\ open' = [open EXCEPT ![Here] = None]
        /\ ring' = [ring EXCEPT ![Here] = <<>>]
        /\ UNCHANGED <<state, voice>>
    BY DEF CloseFile, audioVars, Here
  <1>2. TypeOK /\ FileOrder /\ Heard /\ Here \in Slots /\ state[Here] = "releasing"
    BY <1>1, HereIsSlot DEF IInv, DInv, ReaderOrder
  <1>3. \A r \in Slots : /\ open'[r] = IF r = Here THEN None ELSE open[r]
                         /\ ring'[r] = IF r = Here THEN <<>> ELSE ring[r]
    BY <1>1, <1>2 DEF TypeOK
  <1>4. FileOrder'
    BY <1>1, <1>2, <1>3 DEF FileOrder, Unopened
  <1>5. Heard'
    <2>1. \A r \in Slots : Upto(ring'[r], open'[r])
      BY <1>2, <1>3, UptoEmpty DEF Heard
    <2>2. ASSUME NEW v \in Voices, voice[v] # None
          PROVE  voice[v].slot \in Slots /\ voice[v].slot # Here
      BY <1>2, <2>2, HeldSlot
    <2> QED  BY <1>1, <1>2, <1>3, <2>1, <2>2 DEF Heard
  <1> QED  BY <1>4, <1>5 DEF DInv

LEMMA FreeSlotKeepsRuns ==
  ASSUME IInv, DInv, FreeSlot
  PROVE  DInv'
  <1>1. /\ rpc = "release" /\ rpc' = "scan"
        /\ state' = [state EXCEPT ![Here] = "free"]
        /\ UNCHANGED <<ring, request, exhausted, audioVars, open, wanted>>
    BY DEF FreeSlot, NextVisit
  <1>2. TypeOK /\ FileOrder /\ Heard /\ Here \in Slots /\ Unopened(Here)
    BY <1>1, HereIsSlot DEF IInv, DInv, FileOrder
  <1>3. \A r \in Slots : state'[r] = IF r = Here THEN "free" ELSE state[r]
    BY <1>1, <1>2 DEF TypeOK
  <1>4. FileOrder'
    BY <1>1, <1>2, <1>3 DEF FileOrder, Unopened
  <1>5. Heard'
    BY <1>1, <1>2, <1>3, HeldSlot, SameRuns DEF audioVars
  <1> QED  BY <1>4, <1>5 DEF DInv

(* What a refill adds, and how far the file moves. *)
LEMMA RefillAdds ==
  ASSUME IInv, Refill
  PROVE  \E n \in Nat :
           /\ open[Here] \in Files /\ open[Here] # None
           /\ open[Here].next < FrameCount /\ open[Here].next + n <= FrameCount
           /\ ring'[Here] = ring[Here] \o Frames(open[Here].sample, open[Here].next,
                                                 open[Here].next + n)
           /\ open'[Here] = [open[Here] EXCEPT !.next = open[Here].next + n]
           /\ \A r \in Slots : r # Here => ring'[r] = ring[r] /\ open'[r] = open[r]
           /\ rpc' \in {"finish", "scan"}
           /\ rpc' = "finish" => /\ Here' = Here
                                 /\ open[Here].next + n >= FrameCount
  <1>1. TypeOK /\ rpc = "refill" /\ Here \in Slots /\ open[Here] # None
    BY HereIsSlot DEF IInv, ReaderOrder, Refill
  <1>2. PICK h \in Slots : h = Here
    BY <1>1
  <1> DEFINE file == open[h]
             room == RingFrames - Len(ring[h])
             pushed == Smaller(Available, room)
             added == Frames(file.sample, file.next, file.next + pushed)
             moved == [file EXCEPT !.next = file.next + pushed]
  <1>3. /\ Available > 0
        /\ ring' = [ring EXCEPT ![h] = ring[h] \o added]
        /\ open' = [open EXCEPT ![h] = moved]
        /\ \/ /\ rpc' = "finish" /\ UNCHANGED <<cursor, step, served>>
              /\ file.next + pushed >= FrameCount
           \/ rpc' = "scan"
    BY <1>2 DEF Refill, NextVisit
  <1>4. file \in Files /\ Len(ring[h]) \in Nat /\ room \in Nat
    <2>1. file \in Files /\ Len(ring[h]) \in Nat /\ Len(ring[h]) <= RingFrames
      BY <1>1, <1>2 DEF TypeOK, FrameSeqs
    <2> QED  BY <2>1, StreamerAssumption
  <1>5. file.next \in Nat /\ FrameCount \in Nat /\ wanted \in Nat
    BY <1>1, <1>4, StreamerAssumption DEF Files, TypeOK
  <1>6. Available \in Int /\ Available <= FrameCount - file.next
    BY <1>2, <1>5 DEF Available, Smaller
  <1> HIDE DEF room
  <1>7. /\ pushed \in Nat /\ file.next < FrameCount
        /\ file.next + pushed <= FrameCount
    BY <1>3, <1>4, <1>5, <1>6 DEF Smaller
  <1> HIDE DEF pushed, added, moved
  <1>8. /\ ring'[h] = ring[h] \o added /\ open'[h] = moved
        /\ \A r \in Slots : r # h => ring'[r] = ring[r] /\ open'[r] = open[r]
    BY <1>1, <1>3 DEF TypeOK
  <1>9. rpc' = "finish" => Here' = h /\ file.next + pushed >= FrameCount
    BY <1>2, <1>3 DEF Here
  <1> QED  BY <1>1, <1>2, <1>3, <1>4, <1>7, <1>8, <1>9 DEF added, moved

LEMMA RefillKeepsRuns ==
  ASSUME IInv, DInv, Refill
  PROVE  DInv'
  <1>1. /\ TypeOK /\ FileOrder /\ Heard /\ Here \in Slots /\ rpc = "refill"
        /\ state[Here] \in {"active", "releasing"}
        /\ UNCHANGED <<state, voice>>
    BY HereIsSlot DEF IInv, DInv, FileOrder, Refill, audioVars
  <1>2. PICK h \in Slots : h = Here
    BY <1>1
  <1> DEFINE file == open[h]
  <1>3. PICK n \in Nat :
          /\ file \in Files /\ file # None
          /\ file.next < FrameCount /\ file.next + n <= FrameCount
          /\ ring'[h] = ring[h] \o Frames(file.sample, file.next, file.next + n)
          /\ open'[h] = [file EXCEPT !.next = file.next + n]
          /\ \A r \in Slots : r # h => ring'[r] = ring[r] /\ open'[r] = open[r]
          /\ rpc' \in {"finish", "scan"}
          /\ rpc' = "finish" => Here' = h
    BY <1>2, RefillAdds
  <1> DEFINE added == Frames(file.sample, file.next, file.next + n)
             moved == [file EXCEPT !.next = file.next + n]
  <1>4. /\ file.next \in Nat /\ file.sample \in Samples /\ FirstFrame \in Nat
        /\ FirstFrame <= file.next
    BY <1>1, <1>3, StreamerAssumption DEF Files, FileOrder
  <1>5. moved.next \in FirstFrame..FrameCount /\ ring[h] \in FrameSeqs
    BY <1>1, <1>3, <1>4, StreamerAssumption DEF Files, TypeOK
  <1>6. FileOrder'
    <2> HIDE DEF file, added, moved
    <2>1. /\ ring'[h] = ring[h] \o added /\ open'[h] = moved
          /\ \A r \in Slots : r # h => ring'[r] = ring[r] /\ open'[r] = open[r]
      BY <1>3 DEF file, added, moved
    <2> QED  BY <1>1, <1>2, <1>3, <1>5, <2>1 DEF FileOrder
  <1>7. added \in FrameSeqs
    BY <1>4, FramesType
  <1>8. Heard'
    <2>1. \A r \in Slots : Upto(ring'[r], open'[r])
      <3>1. Upto(ring[h] \o added, moved)
        BY <1>1, <1>3, <1>4, <1>5, UptoGrows DEF Heard
      <3> QED  BY <1>1, <1>3, <3>1 DEF Heard
    <2>2. ASSUME NEW v \in Voices, voice[v] # None
          PROVE  Upto(voice[v].got \o ring'[voice[v].slot], open'[voice[v].slot])
      <3>1. voice[v].slot \in Slots /\ voice[v].got \in FrameSeqs
        BY <2>2, HeldSlot DEF Streams
      <3>2. CASE voice[v].slot = h
        <4>1. Upto(voice[v].got \o ring[h], file)
          BY <1>1, <2>2, <3>2 DEF Heard
        <4>2. /\ voice[v].got \o ring[h] \in FrameSeqs
              /\ (voice[v].got \o ring[h]) \o added = voice[v].got \o (ring[h] \o added)
          BY <1>5, <1>7, <3>1, Regroup
        <4>3. Upto((voice[v].got \o ring[h]) \o added, moved)
          BY <1>3, <1>4, <4>1, <4>2, UptoGrows
        <4> QED  BY <1>3, <3>2, <4>2, <4>3
      <3>3. CASE voice[v].slot # h
        BY <1>1, <1>3, <2>2, <3>1, <3>3 DEF Heard
      <3> QED  BY <3>2, <3>3
    <2> QED  BY <1>1, <2>1, <2>2 DEF Heard
  <1> QED  BY <1>6, <1>8 DEF DInv
-----------------------------------------------------------------------------
LEMMA StepDInv ==
  ASSUME IInv, DInv, [Next]_vars
  PROVE  DInv'
  <1>1. CASE AudioNext
    <2>1. CASE \E v \in Voices, s \in Slots, sample \in Samples : ClaimSlot(v, s, sample)
      BY <2>1, ClaimSlotKeepsRuns
    <2>2. CASE ClaimReset \/ Shutdown
      BY <2>2, AudioElsewhereKeepsRuns DEF ClaimReset, Shutdown, slotVars
    <2>3. CASE ClaimClear \/ ClaimRequest
      BY <2>3, ClaimClearKeepsRuns, ClaimRequestKeepsRuns
    <2>4. CASE \E v \in Voices, n \in 1..RingFrames : Read(v, n)
      BY <2>4, ReadKeepsRuns
    <2>5. CASE \E v \in Voices : Drop(v)
      BY <2>5, DropKeepsRuns
    <2> QED  BY <1>1, <2>1, <2>2, <2>3, <2>4, <2>5 DEF AudioNext, ClaimNext
  <1>2. CASE ReaderNext
    BY <1>2, VisitKeepsRuns, QuietKeepsRuns, TakeRequestKeepsRuns, NoFileKeepsRuns,
       ActivateKeepsRuns, CloseFileKeepsRuns, FreeSlotKeepsRuns, RefillKeepsRuns
       DEF ReaderNext
  <1>3. CASE UNCHANGED vars
    BY <1>3 DEF DInv, FileOrder, Heard, Unopened, Here, vars, slotVars, audioVars,
       readerVars
  <1> QED  BY <1>1, <1>2, <1>3 DEF Next

LEMMA RunsInvariance == Spec => [](IInv /\ DInv)
  <1>1. Init => IInv /\ DInv  BY InitIInv, InitDInv
  <1>2. IInv /\ DInv /\ [Next]_vars => (IInv /\ DInv)'  BY StepIInv, StepDInv
  <1> QED  BY <1>1, <1>2, PTL DEF Spec

(* What was heard is the beginning of one run. *)
LEMMA HeardIsUnbroken ==
  ASSUME IInv, DInv
  PROVE  Unbroken
  <1>1. SUFFICES ASSUME NEW v \in Voices, voice[v] # None
        PROVE  \E sample \in Samples, first \in FirstFrame..FrameCount :
                 voice[v].got = Frames(sample, first, first + Len(voice[v].got))
    BY DEF Unbroken
  <1> DEFINE s == voice[v].slot
             got == voice[v].got
             file == open[s]
  <1>2. /\ voice[v] \in Streams /\ s \in Slots /\ got \in FrameSeqs
        /\ ring[s] \in FrameSeqs /\ file \in Files \cup {None}
        /\ voice[v].sample \in Samples
    BY <1>1, HeldSlot DEF IInv, TypeOK, Streams
  <1>3. /\ FirstFrame \in Nat /\ FrameCount \in Nat /\ FirstFrame <= FrameCount
        /\ file # None => file.next \in FirstFrame..FrameCount
        /\ Upto(got \o ring[s], file)
    BY <1>1, <1>2, StreamerAssumption DEF DInv, FileOrder, Heard
  <1> HIDE DEF s, got, file
  <1> DEFINE F == Samples \X Nat
             whole == got \o ring[s]
  <1>4. /\ got \in Seq(F) /\ ring[s] \in Seq(F)
    BY <1>2 DEF FrameSeqs
  <1> HIDE DEF F
  <1>5. /\ Len(got) \in Nat /\ Len(ring[s]) \in Nat
        /\ Len(whole) = Len(got) + Len(ring[s])
        /\ \A i \in 1..Len(got) : whole[i] = got[i]
    BY <1>4
  <1>6. CASE got = <<>>
    <2>4. got = Frames(voice[v].sample, FirstFrame, FirstFrame + Len(got))
      BY <1>2, <1>3, <1>6, EmptyRun, Zenon
    <2>5. FirstFrame \in FirstFrame..FrameCount
      BY <1>3
    <2> QED  BY <1>2, <2>4, <2>5, Zenon DEF got
  <1>7. CASE got # <<>>
    <2>1. whole # <<>>
      BY <1>4, <1>7, ConcatEqualIffEmpty
    <2> HIDE DEF whole
    <2>2. /\ file \in Files /\ FirstFrame + Len(whole) <= file.next
          /\ \A i \in 1..Len(whole) :
               whole[i] = <<file.sample, file.next - Len(whole) + i - 1>>
      BY <1>2, <1>3, <2>1 DEF Upto, whole
    <2> DEFINE first == file.next - Len(whole)
    <2>3. file.next \in Nat /\ file.sample \in Samples /\ file # None
      BY <2>2, NoneAssumption DEF Files
    <2>4. first \in FirstFrame..FrameCount /\ first \in Nat
      BY <1>3, <1>5, <2>2, <2>3
    <2>5. \A i \in 1..Len(got) : got[i] = <<file.sample, first + i - 1>>
      BY <1>5, <2>2
    <2> HIDE DEF first
    <2>8. got = Frames(file.sample, first, first + Len(got))
      BY <1>2, <2>3, <2>4, <2>5, RunIsFrames
    <2> QED  BY <2>3, <2>4, <2>8 DEF got
  <1> QED  BY <1>6, <1>7

(* Whatever is dropped, whatever fails and whoever's request the slot      *)
(* answers: a voice hears consecutive frames of one sample. *)
THEOREM StreamsAreUnbroken == Spec => []Unbroken
  <1>1. IInv /\ DInv => Unbroken  BY HeardIsUnbroken
  <1> QED  BY <1>1, RunsInvariance, PTL
-----------------------------------------------------------------------------
(* Without early drops and failing reads: a request is picked up by the    *)
(* voice that made it, so a slot's file is its voice's sample, opened at   *)
(* the first frame after the head, and all of it is in the voice or the    *)
(* ring.                                                                   *)

Reliable == ~EarlyDrop /\ "read" \notin Faults

(* The reader is between the request and the store of ACTIVE. *)
OpeningHere(s) == s = Here /\ rpc \in {"nofile", "activate"}

Asked == \A s \in Slots : request[s] # None => state[s] = "claimed" /\ open[s] = None

Served(v) ==
  LET s == voice[v].slot IN
  /\ request[s] # None => request[s] = voice[v].sample /\ ~exhausted[s]
  /\ state[s] = "claimed" /\ request[s] = None => OpeningHere(s)
  /\ open[s] = None => voice[v].got = <<>>
  /\ open[s] # None =>
       /\ open[s].sample = voice[v].sample
       /\ open[s].next = FirstFrame + Len(voice[v].got) + Len(ring[s])
       /\ exhausted[s] => open[s].next = FrameCount

ClaimUnseen ==
  claim # None =>
    /\ state[claim.slot] = "claimed" /\ request[claim.slot] = None
    /\ ~OpeningHere(claim.slot)
    /\ claim.at = "request" => ~exhausted[claim.slot]

ReaderAnswers ==
  /\ rpc \in {"take", "nofile", "activate"} => state[Here] = "claimed"
  /\ rpc \in {"nofile", "activate"} => request[Here] = None
  /\ rpc = "finish" => open[Here] # None /\ open[Here].next = FrameCount
  /\ rpc = "refill" => wanted > 0

Answered ==
  /\ Asked
  /\ \A v \in Voices : voice[v] # None => Served(v)
  /\ ClaimUnseen
  /\ ReaderAnswers

PInv == IInv /\ DInv /\ Answered

(* Two voices never look at the same slot. *)
LEMMA SlotsDiffer ==
  ASSUME IInv, NEW v \in Voices, NEW w \in Voices, v # w,
         voice[v] # None, voice[w] # None
  PROVE  voice[v].slot # voice[w].slot
  <1>1. voice[v].slot \in Slots /\ OwnSlot
    BY HeldSlot DEF IInv
  <1>2. Holds(v, voice[v].slot) /\ (voice[w].slot = voice[v].slot => Holds(w, voice[v].slot))
    BY DEF Holds
  <1> QED  BY <1>1, <1>2, OwnSlotMeans

LEMMA InitAnswered ==
  ASSUME Init PROVE Answered
  BY DEF Init, Answered, Asked, ClaimUnseen, ReaderAnswers

LEMMA ClaimSlotAnswers ==
  ASSUME PInv, NEW v \in Voices, NEW s \in Slots, NEW sample \in Samples,
         ClaimSlot(v, s, sample)
  PROVE  Answered'
  <1>1. /\ state[s] = "free" /\ state' = [state EXCEPT ![s] = "claimed"]
        /\ claim' = [at |-> "clear", voice |-> v, slot |-> s, sample |-> sample]
        /\ UNCHANGED <<ring, request, exhausted, voice, running, readerVars>>
    BY DEF ClaimSlot
  <1>2. /\ IInv /\ TypeOK /\ Answered /\ Here \in Slots
        /\ UNCHANGED <<rpc, open, wanted, Here>>
    BY <1>1, HereIsSlot DEF PInv, IInv, readerVars, Here
  <1>3. \A r \in Slots : state'[r] = IF r = s THEN "claimed" ELSE state[r]
    BY <1>1, <1>2 DEF TypeOK
  <1>4. Asked' /\ ReaderAnswers'
    BY <1>1, <1>2, <1>3 DEF Answered, Asked, ReaderAnswers
  <1>5. ASSUME NEW w \in Voices, voice[w] # None PROVE Served(w)'
    <2>1. voice[w].slot \in Slots /\ voice[w].slot # s
      BY <1>1, <1>2, <1>5, HeldSlot
    <2> QED  BY <1>1, <1>2, <1>3, <1>5, <2>1 DEF Answered, Served, OpeningHere
  <1>6. ClaimUnseen'
    BY <1>1, <1>2, <1>3 DEF Answered, Asked, ReaderAnswers, ClaimUnseen, OpeningHere
  <1> QED  BY <1>1, <1>4, <1>5, <1>6 DEF Answered

LEMMA ClaimClearAnswers ==
  ASSUME PInv, ClaimClear
  PROVE  Answered'
  <1>1. /\ claim # None /\ ring' = [ring EXCEPT ![claim.slot] = <<>>]
        /\ claim' = [claim EXCEPT !.at = "exhausted"]
        /\ UNCHANGED <<state, request, exhausted, voice, running, readerVars>>
    BY DEF ClaimClear
  <1>2. /\ IInv /\ TypeOK /\ Answered /\ claim \in Claims
        /\ UNCHANGED <<rpc, open, wanted, Here>>
    BY <1>1 DEF PInv, IInv, TypeOK, readerVars, Here
  <1>3. claim'.slot = claim.slot /\ claim'.at = "exhausted"
    BY <1>1, <1>2 DEF Claims
  <1>4. Asked' /\ ReaderAnswers' /\ ClaimUnseen'
    BY <1>1, <1>2, <1>3 DEF Answered, Asked, ReaderAnswers, ClaimUnseen, OpeningHere
  <1>5. ASSUME NEW w \in Voices, voice[w] # None PROVE Served(w)'
    <2>1. voice[w].slot \in Slots /\ voice[w].slot # claim.slot
      BY <1>1, <1>2, <1>5, HeldSlot, ClaimIsNew
    <2>2. ring'[voice[w].slot] = ring[voice[w].slot]
      BY <1>1, <1>2, <2>1 DEF TypeOK
    <2> QED  BY <1>1, <1>2, <1>5, <2>2 DEF Answered, Served, OpeningHere
  <1> QED  BY <1>1, <1>4, <1>5 DEF Answered

LEMMA ClaimResetAnswers ==
  ASSUME PInv, ClaimReset
  PROVE  Answered'
  <1>1. /\ claim # None /\ exhausted' = [exhausted EXCEPT ![claim.slot] = FALSE]
        /\ claim' = [claim EXCEPT !.at = "request"]
        /\ UNCHANGED <<state, ring, request, voice, running, readerVars>>
    BY DEF ClaimReset
  <1>2. /\ IInv /\ TypeOK /\ Answered /\ claim \in Claims
        /\ UNCHANGED <<rpc, open, wanted, Here>>
    BY <1>1 DEF PInv, IInv, TypeOK, readerVars, Here
  <1>3. claim'.slot = claim.slot /\ ~exhausted'[claim.slot]
    BY <1>1, <1>2 DEF Claims, TypeOK
  <1>4. Asked' /\ ReaderAnswers' /\ ClaimUnseen'
    BY <1>1, <1>2, <1>3 DEF Answered, Asked, ReaderAnswers, ClaimUnseen, OpeningHere
  <1>5. ASSUME NEW w \in Voices, voice[w] # None PROVE Served(w)'
    <2>1. voice[w].slot \in Slots /\ voice[w].slot # claim.slot
      BY <1>1, <1>2, <1>5, HeldSlot, ClaimIsNew
    <2>2. exhausted'[voice[w].slot] = exhausted[voice[w].slot]
      BY <1>1, <1>2, <2>1 DEF TypeOK
    <2> QED  BY <1>1, <1>2, <1>5, <2>2 DEF Answered, Served, OpeningHere
  <1> QED  BY <1>1, <1>4, <1>5 DEF Answered

(* The request is stored in a slot that has no file, no frames and no end. *)
LEMMA ClaimRequestAnswers ==
  ASSUME PInv, ClaimRequest
  PROVE  Answered'
  <1> DEFINE new == [slot |-> claim.slot, sample |-> claim.sample, got |-> <<>>]
  <1>1. /\ claim # None /\ claim.at = "request" /\ claim' = None
        /\ request' = [request EXCEPT ![claim.slot] = claim.sample]
        /\ voice' = [voice EXCEPT ![claim.voice] = new]
        /\ UNCHANGED <<state, ring, exhausted, running, readerVars>>
    BY DEF ClaimRequest
  <1>2. /\ IInv /\ TypeOK /\ FileOrder /\ Answered /\ claim \in Claims
        /\ UNCHANGED <<rpc, open, wanted, Here>>
    BY <1>1 DEF PInv, IInv, DInv, TypeOK, readerVars, Here
  <1>3. /\ claim.slot \in Slots /\ claim.voice \in Voices
        /\ state[claim.slot] = "claimed" /\ ~exhausted[claim.slot]
        /\ ~OpeningHere(claim.slot) /\ claim.sample # None
    BY <1>1, <1>2, StreamerAssumption DEF Answered, ClaimUnseen, Claims
  <1>4. open[claim.slot] = None
    BY <1>2, <1>3 DEF FileOrder, OpeningHere
  <1>5. /\ new.slot = claim.slot /\ new.sample = claim.sample /\ new.got = <<>>
    OBVIOUS
  <1> HIDE DEF new
  <1>6. /\ \A v \in Voices : voice'[v] = IF v = claim.voice THEN new ELSE voice[v]
        /\ \A r \in Slots : request'[r] = IF r = claim.slot THEN claim.sample
                                          ELSE request[r]
    BY <1>1, <1>2 DEF TypeOK
  <1>7. Asked' /\ ClaimUnseen'
    BY <1>1, <1>2, <1>3, <1>4, <1>6 DEF Answered, Asked, ClaimUnseen
  <1>8. ReaderAnswers'
    <2>1. rpc \in {"nofile", "activate"} => claim.slot # Here
      BY <1>3 DEF OpeningHere
    <2> QED  BY <1>1, <1>2, <1>6, <2>1, HereIsSlot DEF Answered, ReaderAnswers
  <1>9. ASSUME NEW w \in Voices, voice'[w] # None PROVE Served(w)'
    <2>1. CASE w = claim.voice
      BY <1>1, <1>2, <1>3, <1>4, <1>5, <1>6, <2>1 DEF Served
    <2>2. CASE w # claim.voice
      <3>1. voice[w].slot \in Slots /\ voice[w].slot # claim.slot /\ voice[w] # None
        BY <1>1, <1>2, <1>6, <1>9, <2>2, HeldSlot, ClaimIsNew
      <3> QED  BY <1>1, <1>2, <1>6, <2>2, <3>1 DEF Answered, Served, OpeningHere
    <2> QED  BY <2>1, <2>2
  <1> QED  BY <1>7, <1>8, <1>9 DEF Answered

LEMMA ReadAnswers ==
  ASSUME PInv, NEW v \in Voices, NEW n \in 1..RingFrames, Read(v, n)
  PROVE  Answered'
  <1> DEFINE s == voice[v].slot
  <1>1. /\ s \in Slots /\ Len(ring[s]) \in Nat /\ n <= Len(ring[s])
        /\ voice[v] \in Streams
        /\ voice'[v] = [voice[v] EXCEPT !.got = voice'[v].got]
        /\ Len(voice'[v].got) = Len(voice[v].got) + n
        /\ Len(ring'[s]) = Len(ring[s]) - n
        /\ \A w \in Voices : w # v => voice'[w] = voice[w]
        /\ \A r \in Slots : r # s => ring'[r] = ring[r]
    BY ReadMoves DEF PInv
  <1>2. /\ voice[v] # None
        /\ UNCHANGED <<state, request, exhausted, claim, running, readerVars>>
    BY DEF Read
  <1>3. /\ IInv /\ TypeOK /\ Heard /\ Answered
        /\ UNCHANGED <<rpc, open, wanted, Here>>
    BY <1>2 DEF PInv, IInv, DInv, readerVars, Here
  <1>4. voice'[v].slot = s /\ voice'[v].sample = voice[v].sample
        /\ Len(voice[v].got) \in Nat /\ n \in Nat /\ n >= 1
    <2>1. voice'[v].slot = s /\ voice'[v].sample = voice[v].sample
      BY <1>1 DEF Streams
    <2>2. Len(voice[v].got) \in Nat
      BY <1>1 DEF Streams, FrameSeqs
    <2> QED  BY <2>1, <2>2, StreamerAssumption
  <1>5. open[s] # None
    <2>1. ring[s] # <<>>
      BY <1>1, <1>4
    <2> QED  BY <1>1, <1>3, <2>1 DEF Heard, Upto
  <1>6. Asked' /\ ClaimUnseen' /\ ReaderAnswers'
    BY <1>2, <1>3 DEF Answered, Asked, ClaimUnseen, ReaderAnswers, OpeningHere
  <1>7. Served(v)'
    <2>1. /\ open[s].next = FirstFrame + Len(voice[v].got) + Len(ring[s])
          /\ FirstFrame \in Nat
      BY <1>2, <1>3, <1>5, StreamerAssumption DEF Answered, Served
    <2>2. open[s].next = FirstFrame + Len(voice'[v].got) + Len(ring'[s])
      BY <1>1, <1>4, <2>1
    <2> QED  BY <1>2, <1>3, <1>4, <1>5, <2>2 DEF Answered, Served, OpeningHere
  <1>8. ASSUME NEW w \in Voices, w # v, voice[w] # None PROVE Served(w)'
    <2>1. voice[w].slot \in Slots /\ voice[w].slot # s
      BY <1>2, <1>3, <1>8, HeldSlot, SlotsDiffer
    <2>2. voice'[w] = voice[w] /\ ring'[voice[w].slot] = ring[voice[w].slot]
      BY <1>1, <1>8, <2>1
    <2>3. Served(w)
      BY <1>3, <1>8 DEF Answered
    <2> QED  BY <1>2, <1>3, <2>2, <2>3 DEF Served, OpeningHere
  <1> QED  BY <1>1, <1>6, <1>7, <1>8 DEF Answered

(* A voice that is dropped was picked up before. *)
LEMMA DropAnswers ==
  ASSUME Reliable, PInv, NEW v \in Voices, Drop(v)
  PROVE  Answered'
  <1> DEFINE s == voice[v].slot
  <1>1. /\ voice[v] # None /\ state[s] = "active" /\ claim = None
        /\ state' = [state EXCEPT ![s] = "releasing"]
        /\ voice' = [voice EXCEPT ![v] = None]
        /\ UNCHANGED <<ring, request, exhausted, claim, running, readerVars>>
    BY DEF Drop, Reliable
  <1>2. /\ IInv /\ TypeOK /\ Answered /\ s \in Slots /\ Here \in Slots
        /\ UNCHANGED <<rpc, open, wanted, Here>>
    BY <1>1, HeldSlot, HereIsSlot DEF PInv, IInv, readerVars, Here
  <1>3. /\ \A w \in Voices : voice'[w] = IF w = v THEN None ELSE voice[w]
        /\ \A r \in Slots : state'[r] = IF r = s THEN "releasing" ELSE state[r]
    BY <1>1, <1>2 DEF TypeOK
  <1>4. Asked' /\ ClaimUnseen'
    BY <1>1, <1>2, <1>3 DEF Answered, Asked, ClaimUnseen
  <1>5. ReaderAnswers'
    <2>1. rpc \in {"take", "nofile", "activate"} => Here # s
      BY <1>1, <1>2 DEF Answered, ReaderAnswers
    <2> QED  BY <1>1, <1>2, <1>3, <2>1 DEF Answered, ReaderAnswers
  <1>6. ASSUME NEW w \in Voices, voice'[w] # None PROVE Served(w)'
    <2>1. w # v /\ voice[w] # None
      BY <1>3, <1>6
    <2>2. voice[w].slot \in Slots /\ voice[w].slot # s
      BY <1>1, <1>2, <2>1, HeldSlot, SlotsDiffer
    <2> QED  BY <1>1, <1>2, <1>3, <2>1, <2>2 DEF Answered, Served, OpeningHere
  <1> QED  BY <1>4, <1>5, <1>6 DEF Answered

LEMMA ShutdownAnswers ==
  ASSUME PInv, Shutdown
  PROVE  Answered'
  BY DEF PInv, Shutdown, Answered, Asked, Served, ClaimUnseen, ReaderAnswers, OpeningHere,
     Here, slotVars, readerVars
-----------------------------------------------------------------------------
LEMMA VisitAnswers ==
  ASSUME PInv, Visit
  PROVE  Answered'
  <1>1. /\ UNCHANGED <<slotVars, audioVars, cursor, step, served, open>>
        /\ rpc = "scan" /\ rpc' \in {"take", "close", "refill"}
        /\ rpc' = "take" => state[Here] = "claimed"
        /\ rpc' = "refill" => Due(Here)
        /\ rpc' = "refill" => wanted' = Smaller(RingFrames - Len(ring[Here]), MaxRefill)
    BY DEF Visit, Scanning
  <1>2. TypeOK /\ Answered /\ Here \in Slots /\ Here' = Here
    BY <1>1, HereIsSlot DEF PInv, IInv, Here
  <1>3. rpc' = "refill" => wanted' > 0
    <2>1. /\ RefillThreshold \in 1..RingFrames /\ RingFrames \in Nat
          /\ MaxRefill \in Nat \ {0}
      BY StreamerAssumption
    <2>2. Len(ring[Here]) \in Nat
      BY <1>2 DEF TypeOK, FrameSeqs
    <2>3. rpc' = "refill" => RingFrames - Len(ring[Here]) >= RefillThreshold
      BY <1>1 DEF Due
    <2> QED  BY <1>1, <2>1, <2>2, <2>3 DEF Smaller
  <1>4. Asked' /\ ClaimUnseen' /\ ReaderAnswers'
    BY <1>1, <1>2, <1>3 DEF Answered, Asked, ClaimUnseen, ReaderAnswers, OpeningHere,
       slotVars, audioVars
  <1>5. ASSUME NEW v \in Voices, voice[v] # None PROVE Served(v)'
    BY <1>1, <1>2, <1>5 DEF Answered, Served, OpeningHere, slotVars, audioVars
  <1> QED  BY <1>1, <1>4, <1>5 DEF Answered, audioVars

(* A visit that ends without an opening changes nothing a voice waits for. *)
LEMMA QuietAnswers ==
  ASSUME PInv, Pass \/ TakeNothing \/ Stop
  PROVE  Answered'
  <1>1. /\ rpc \in {"scan", "take"} /\ rpc' \in {"scan", "stopped"}
        /\ UNCHANGED <<slotVars, audioVars, open>>
    BY DEF Pass, TakeNothing, Stop, Scanning, NextVisit
  <1>2. Answered
    BY DEF PInv
  <1>3. Asked' /\ ClaimUnseen' /\ ReaderAnswers'
    BY <1>1, <1>2 DEF Answered, Asked, ClaimUnseen, ReaderAnswers, OpeningHere,
       slotVars, audioVars
  <1>4. ASSUME NEW v \in Voices, voice[v] # None PROVE Served(v)'
    BY <1>1, <1>2, <1>4 DEF Answered, Served, OpeningHere, slotVars, audioVars
  <1> QED  BY <1>1, <1>3, <1>4 DEF Answered, audioVars

(* A reader that ends a stream has read all of it. *)
LEMMA EndsAtTheEnd ==
  ASSUME Reliable, PInv, Finish \/ NothingRead
  PROVE  /\ open[Here] # None /\ open[Here].next = FrameCount
         /\ state[Here] \in {"active", "releasing"}
  <1>1. TypeOK /\ FileOrder /\ ReaderOrder /\ ReaderAnswers /\ Here \in Slots
    BY HereIsSlot DEF PInv, IInv, DInv, Answered
  <1>2. rpc \in {"refill", "finish"}
    BY DEF Finish, NothingRead
  <1>3. CASE Finish
    BY <1>1, <1>3 DEF Finish, FileOrder, ReaderAnswers
  <1>4. CASE NothingRead
    <2>1. rpc = "refill" /\ Available = 0 /\ open[Here] # None /\ wanted > 0
      BY <1>1, <1>4 DEF NothingRead, Reliable, ReaderOrder, ReaderAnswers
    <2>2. /\ open[Here].next \in FirstFrame..FrameCount /\ wanted \in Nat
          /\ FirstFrame \in Nat /\ FrameCount \in Nat
      BY <1>1, <2>1, StreamerAssumption DEF FileOrder, TypeOK
    <2>3. open[Here].next = FrameCount
      BY <2>1, <2>2 DEF Available, Smaller
    <2> QED  BY <1>1, <2>1, <2>3 DEF FileOrder
  <1> QED  BY <1>3, <1>4

LEMMA EndAnswers ==
  ASSUME Reliable, PInv, Finish \/ NothingRead
  PROVE  Answered'
  <1>1. /\ exhausted' = [exhausted EXCEPT ![Here] = TRUE]
        /\ rpc \in {"refill", "finish"} /\ rpc' = "scan"
        /\ UNCHANGED <<state, ring, request, audioVars, open, wanted>>
    BY DEF Finish, NothingRead, NextVisit
  <1>2. /\ TypeOK /\ Answered /\ Here \in Slots
        /\ open[Here].next = FrameCount /\ open[Here] # None
        /\ state[Here] \in {"active", "releasing"}
    BY HereIsSlot, EndsAtTheEnd DEF PInv, IInv
  <1>3. \A r \in Slots : exhausted'[r] = IF r = Here THEN TRUE ELSE exhausted[r]
    BY <1>1, <1>2 DEF TypeOK
  <1>4. Asked' /\ ReaderAnswers'
    BY <1>1, <1>2 DEF Answered, Asked, ReaderAnswers
  <1>5. ClaimUnseen'
    <2>1. claim # None => claim.slot \in Slots /\ claim.slot # Here
      BY <1>2 DEF Answered, ClaimUnseen, TypeOK, Claims
    <2> QED  BY <1>1, <1>2, <1>3, <2>1 DEF Answered, ClaimUnseen, OpeningHere, audioVars
  <1>6. ASSUME NEW v \in Voices, voice[v] # None PROVE Served(v)'
    <2>1. voice[v].slot \in Slots /\ Served(v)
      BY <1>2, <1>6, HeldSlot DEF PInv, Answered
    <2>2. request[voice[v].slot] # None => voice[v].slot # Here
      BY <1>2, <2>1 DEF Answered, Asked
    <2> QED  BY <1>1, <1>2, <1>3, <2>1, <2>2 DEF Served, OpeningHere, audioVars
  <1> QED  BY <1>1, <1>4, <1>5, <1>6 DEF Answered, audioVars

(* The file that is opened is the one the slot's voice asked for. *)
LEMMA TakeRequestAnswers ==
  ASSUME PInv, TakeRequest
  PROVE  Answered'
  <1> DEFINE file == [sample |-> request[Here], next |-> FirstFrame]
  <1>1. /\ rpc = "take" /\ request[Here] # None
        /\ request' = [request EXCEPT ![Here] = None]
        /\ rpc' \in {"activate", "nofile"}
        /\ \/ open' = [open EXCEPT ![Here] = file]
           \/ open' = open
        /\ UNCHANGED <<state, ring, exhausted, audioVars, cursor, step, served, wanted>>
    BY DEF TakeRequest
  <1>2. /\ IInv /\ TypeOK /\ FileOrder /\ Heard /\ Answered /\ Here \in Slots
        /\ Here' = Here
    BY <1>1, HereIsSlot DEF PInv, IInv, DInv, Here
  <1>3. /\ state[Here] = "claimed" /\ open[Here] = None /\ ring[Here] = <<>>
    BY <1>1, <1>2 DEF FileOrder, Unopened, Answered, ReaderAnswers
  <1>4. file.sample = request[Here] /\ file.next = FirstFrame
    OBVIOUS
  <1> HIDE DEF file
  <1>5. /\ \A r \in Slots : request'[r] = IF r = Here THEN None ELSE request[r]
        /\ \A r \in Slots : r # Here => open'[r] = open[r]
        /\ open'[Here] \in {file, None}
    BY <1>1, <1>2, <1>3 DEF TypeOK
  <1>6. Asked' /\ ReaderAnswers'
    BY <1>1, <1>2, <1>3, <1>5 DEF Answered, Asked, ReaderAnswers
  <1>7. ClaimUnseen'
    <2>1. claim # None => claim.slot \in Slots /\ claim.slot # Here
      BY <1>1, <1>2 DEF Answered, ClaimUnseen, TypeOK, Claims
    <2> QED  BY <1>1, <1>2, <1>5, <2>1 DEF Answered, ClaimUnseen, OpeningHere, audioVars
  <1>8. ASSUME NEW v \in Voices, voice[v] # None PROVE Served(v)'
    <2>1. voice[v].slot \in Slots /\ Served(v) /\ voice[v] \in Streams
      BY <1>2, <1>8, HeldSlot DEF Answered
    <2>2. CASE voice[v].slot = Here
      <3>1. voice[v].got = <<>>
        BY <1>2, <1>3, <1>8, <2>2 DEF Heard
      <3>2. Len(voice[v].got) = 0 /\ Len(ring[Here]) = 0 /\ FirstFrame \in Nat
        BY <1>3, <3>1, StreamerAssumption
      <3>3. request[Here] = voice[v].sample /\ ~exhausted[Here]
        BY <1>1, <2>1, <2>2 DEF Served
      <3> QED  BY <1>1, <1>2, <1>4, <1>5, <2>2, <3>1, <3>2, <3>3
               DEF Served, OpeningHere, audioVars
    <2>3. CASE voice[v].slot # Here
      BY <1>1, <1>2, <1>5, <2>1, <2>3 DEF Served, OpeningHere, audioVars
    <2> QED  BY <2>2, <2>3
  <1> QED  BY <1>1, <1>6, <1>7, <1>8 DEF Answered, audioVars

LEMMA NoFileAnswers ==
  ASSUME PInv, NoFile
  PROVE  Answered'
  <1>1. /\ rpc = "nofile" /\ rpc' = "activate" /\ Here' = Here
        /\ exhausted' = [exhausted EXCEPT ![Here] = TRUE]
        /\ UNCHANGED <<state, ring, request, audioVars, open, wanted>>
    BY DEF NoFile, Here
  <1>2. /\ IInv /\ TypeOK /\ FileOrder /\ Answered /\ Here \in Slots
        /\ open[Here] = None /\ request[Here] = None
    BY <1>1, HereIsSlot DEF PInv, IInv, DInv, FileOrder, Unopened, Answered, ReaderAnswers
  <1>3. \A r \in Slots : exhausted'[r] = IF r = Here THEN TRUE ELSE exhausted[r]
    BY <1>1, <1>2 DEF TypeOK
  <1>4. Asked' /\ ReaderAnswers'
    BY <1>1, <1>2 DEF Answered, Asked, ReaderAnswers
  <1>5. ClaimUnseen'
    <2>1. claim # None => claim.slot \in Slots /\ claim.slot # Here
      BY <1>1, <1>2 DEF Answered, ClaimUnseen, OpeningHere, TypeOK, Claims
    <2> QED  BY <1>1, <1>2, <1>3, <2>1 DEF Answered, ClaimUnseen, OpeningHere, audioVars
  <1>6. ASSUME NEW v \in Voices, voice[v] # None PROVE Served(v)'
    <2>1. voice[v].slot \in Slots /\ Served(v)
      BY <1>2, <1>6, HeldSlot DEF Answered
    <2> QED  BY <1>1, <1>2, <1>3, <2>1 DEF Served, OpeningHere, audioVars
  <1> QED  BY <1>1, <1>4, <1>5, <1>6 DEF Answered, audioVars

LEMMA ActivateAnswers ==
  ASSUME PInv, Activate
  PROVE  Answered'
  <1>1. /\ rpc = "activate" /\ rpc' = "scan"
        /\ state' = [state EXCEPT ![Here] = "active"]
        /\ UNCHANGED <<ring, request, exhausted, audioVars, open, wanted>>
    BY DEF Activate, NextVisit
  <1>2. /\ IInv /\ TypeOK /\ Answered /\ Here \in Slots /\ request[Here] = None
    BY <1>1, HereIsSlot DEF PInv, IInv, Answered, ReaderAnswers
  <1>3. \A r \in Slots : state'[r] = IF r = Here THEN "active" ELSE state[r]
    BY <1>1, <1>2 DEF TypeOK
  <1>4. Asked' /\ ReaderAnswers'
    BY <1>1, <1>2, <1>3 DEF Answered, Asked, ReaderAnswers
  <1>5. ClaimUnseen'
    <2>1. claim # None => claim.slot \in Slots /\ claim.slot # Here
      BY <1>1, <1>2 DEF Answered, ClaimUnseen, OpeningHere, TypeOK, Claims
    <2> QED  BY <1>1, <1>2, <1>3, <2>1 DEF Answered, ClaimUnseen, OpeningHere, audioVars
  <1>6. ASSUME NEW v \in Voices, voice[v] # None PROVE Served(v)'
    <2>1. voice[v].slot \in Slots /\ Served(v)
      BY <1>2, <1>6, HeldSlot DEF Answered
    <2> QED  BY <1>1, <1>2, <1>3, <2>1 DEF Served, OpeningHere, audioVars
  <1> QED  BY <1>1, <1>4, <1>5, <1>6 DEF Answered, audioVars

(* Reclaiming touches no voice's slot and no claim's. *)
LEMMA ReclaimAnswers ==
  ASSUME PInv, CloseFile \/ FreeSlot
  PROVE  Answered'
  <1>1. /\ rpc \in {"close", "release"} /\ rpc' \in {"release", "scan"}
        /\ state' = state \/ state' = [state EXCEPT ![Here] = "free"]
        /\ open' = open \/ open' = [open EXCEPT ![Here] = None]
        /\ ring' = ring \/ ring' = [ring EXCEPT ![Here] = <<>>]
        /\ UNCHANGED <<request, exhausted, audioVars, wanted>>
    BY DEF CloseFile, FreeSlot, NextVisit
  <1>2. /\ IInv /\ TypeOK /\ Answered /\ Here \in Slots /\ state[Here] = "releasing"
    BY <1>1, HereIsSlot DEF PInv, IInv, ReaderOrder
  <1>3. /\ \A r \in Slots : r # Here => /\ state'[r] = state[r] /\ open'[r] = open[r]
                                        /\ ring'[r] = ring[r]
        /\ request[Here] = None
    BY <1>1, <1>2 DEF TypeOK, Answered, Asked
  <1>4. Asked' /\ ReaderAnswers'
    BY <1>1, <1>2, <1>3 DEF Answered, Asked, ReaderAnswers
  <1>5. ClaimUnseen'
    <2>1. claim # None => claim.slot \in Slots /\ claim.slot # Here
      BY <1>2 DEF Answered, ClaimUnseen, TypeOK, Claims
    <2> QED  BY <1>1, <1>2, <1>3, <2>1 DEF Answered, ClaimUnseen, OpeningHere, audioVars
  <1>6. ASSUME NEW v \in Voices, voice[v] # None PROVE Served(v)'
    <2>1. voice[v].slot \in Slots /\ Served(v) /\ voice[v].slot # Here
      BY <1>2, <1>6, HeldSlot DEF Answered
    <2> QED  BY <1>1, <1>3, <2>1 DEF Served, OpeningHere, audioVars
  <1> QED  BY <1>1, <1>4, <1>5, <1>6 DEF Answered, audioVars

LEMMA RefillAnswers ==
  ASSUME PInv, Refill
  PROVE  Answered'
  <1>1. /\ IInv /\ TypeOK /\ FileOrder /\ Answered /\ Here \in Slots /\ rpc = "refill"
        /\ state[Here] \in {"active", "releasing"}
        /\ UNCHANGED <<state, request, exhausted, audioVars, wanted>>
    BY HereIsSlot DEF PInv, IInv, DInv, FileOrder, Refill
  <1>2. PICK h \in Slots : h = Here
    BY <1>1
  <1> DEFINE file == open[h]
             added(n) == Frames(file.sample, file.next, file.next + n)
  <1>3. PICK n \in Nat :
          /\ file \in Files /\ file # None
          /\ file.next < FrameCount /\ file.next + n <= FrameCount
          /\ ring'[h] = ring[h] \o added(n)
          /\ open'[h] = [file EXCEPT !.next = file.next + n]
          /\ \A r \in Slots : r # h => ring'[r] = ring[r] /\ open'[r] = open[r]
          /\ rpc' \in {"finish", "scan"}
          /\ rpc' = "finish" => Here' = h /\ file.next + n >= FrameCount
    BY <1>1, <1>2, RefillAdds
  <1>4. /\ file.next \in Nat /\ file.sample \in Samples /\ FrameCount \in Nat
        /\ open'[h] \in Files /\ open'[h] # None
        /\ open'[h].next = file.next + n /\ open'[h].sample = file.sample
    BY <1>3, StreamerAssumption, NoneAssumption DEF Files
  <1>5. Len(ring[h]) \in Nat /\ Len(ring'[h]) = Len(ring[h]) + n
    <2> DEFINE F == Samples \X Nat
               more == added(n)
    <2>1. ring[h] \in Seq(F) /\ more \in Seq(F) /\ Len(more) = n
      BY <1>1, <1>4, FramesType DEF TypeOK, FrameSeqs
    <2> HIDE DEF F, more
    <2>2. Len(ring[h] \o more) = Len(ring[h]) + Len(more) /\ Len(ring[h]) \in Nat
      BY <2>1
    <2> QED  BY <1>3, <2>1, <2>2 DEF more
  <1> HIDE DEF file, added
  <1>6. Asked' /\ ReaderAnswers'
    <2>1. rpc' = "finish" => open'[h].next = FrameCount
      BY <1>3, <1>4
    <2>2. request[h] = None
      BY <1>1, <1>2 DEF Answered, Asked
    <2>3. Asked'
      BY <1>1, <1>2, <1>3, <2>2 DEF Answered, Asked
    <2>4. ReaderAnswers'
      BY <1>3, <1>4, <2>1 DEF ReaderAnswers
    <2> QED  BY <2>3, <2>4
  <1>7. ClaimUnseen'
    BY <1>1, <1>3 DEF Answered, ClaimUnseen, OpeningHere, audioVars
  <1>8. ASSUME NEW v \in Voices, voice[v] # None PROVE Served(v)'
    <2>1. /\ voice[v].slot \in Slots /\ Served(v) /\ voice[v].got \in FrameSeqs
          /\ state[voice[v].slot] \in {"claimed", "active"}
      BY <1>1, <1>8, HeldSlot DEF Answered, Streams
    <2>2. CASE voice[v].slot = h
      <3>1. Len(voice[v].got) \in Nat /\ FirstFrame \in Nat
        BY <2>1, StreamerAssumption DEF FrameSeqs
      <3>2. /\ file.sample = voice[v].sample
            /\ file.next = FirstFrame + Len(voice[v].got) + Len(ring[h])
            /\ ~exhausted[h] /\ request[h] = None
        BY <1>1, <1>2, <1>3, <1>4, <2>1, <2>2 DEF Served, Answered, Asked, file
      <3>3. open'[h].next = FirstFrame + Len(voice[v].got) + Len(ring'[h])
        BY <1>4, <1>5, <3>1, <3>2
      <3> QED  BY <1>1, <1>2, <1>4, <2>1, <2>2, <3>2, <3>3
               DEF Served, OpeningHere, audioVars
    <2>3. CASE voice[v].slot # h
      BY <1>1, <1>2, <1>3, <2>1, <2>3 DEF Served, OpeningHere, audioVars
    <2> QED  BY <2>2, <2>3
  <1> QED  BY <1>1, <1>6, <1>7, <1>8 DEF Answered, audioVars
-----------------------------------------------------------------------------
LEMMA StepAnswered ==
  ASSUME Reliable, PInv, [Next]_vars
  PROVE  Answered'
  <1>1. CASE AudioNext
    <2>1. CASE \E v \in Voices, s \in Slots, sample \in Samples : ClaimSlot(v, s, sample)
      BY <2>1, ClaimSlotAnswers
    <2>2. CASE ClaimNext
      BY <2>2, ClaimClearAnswers, ClaimResetAnswers, ClaimRequestAnswers DEF ClaimNext
    <2>3. CASE \E v \in Voices, n \in 1..RingFrames : Read(v, n)
      BY <2>3, ReadAnswers
    <2>4. CASE \E v \in Voices : Drop(v)
      BY <2>4, DropAnswers
    <2>5. CASE Shutdown
      BY <2>5, ShutdownAnswers
    <2> QED  BY <1>1, <2>1, <2>2, <2>3, <2>4, <2>5 DEF AudioNext
  <1>2. CASE ReaderNext
    BY <1>2, VisitAnswers, QuietAnswers, EndAnswers, TakeRequestAnswers, NoFileAnswers,
       ActivateAnswers, ReclaimAnswers, RefillAnswers DEF ReaderNext
  <1>3. CASE UNCHANGED vars
    BY <1>3 DEF PInv, Answered, Asked, Served, ClaimUnseen, ReaderAnswers, OpeningHere,
       Here, vars, slotVars, audioVars, readerVars
  <1> QED  BY <1>1, <1>2, <1>3 DEF Next
-----------------------------------------------------------------------------
(* The pool as the voices see it.                                          *)

(* A step that changes what one voice sees. *)
LEMMA OneViewMoves ==
  ASSUME NEW v \in Voices, \A w \in Voices : w # v => View(w)' = View(w)
  PROVE  Play' = [Play EXCEPT ![v] = View(v)']
  <1>1. ASSUME NEW w \in Voices PROVE Play'[w] = [Play EXCEPT ![v] = View(v)'][w]
    BY DEF Play
  <1>2. /\ Play' = [w \in Voices |-> Play'[w]]
        /\ [Play EXCEPT ![v] = View(v)'] =
             [w \in Voices |-> [Play EXCEPT ![v] = View(v)'][w]]
    BY DEF Play
  <1> QED  BY <1>1, <1>2

LEMMA NoViewMoves ==
  ASSUME \A v \in Voices : View(v)' = View(v)
  PROVE  Play' = Play
  BY DEF Play

LEMMA ViewKept ==
  ASSUME NEW v \in Voices, voice'[v] = voice[v],
         voice[v] # None =>
           (exhausted'[voice[v].slot] /\ ring'[voice[v].slot] = <<>>)
             = (exhausted[voice[v].slot] /\ ring[voice[v].slot] = <<>>)
  PROVE  View(v)' = View(v)
  BY DEF View

LEMMA PlayAt ==
  ASSUME NEW v \in Voices PROVE Play[v] = View(v)
  BY DEF Play

(* What was heard is the opening of the voice's own sample. *)
LEMMA HeardIsOpening ==
  ASSUME PInv, NEW v \in Voices, voice[v] # None
  PROVE  /\ voice[v].got = Pool!Opening(voice[v].sample, Len(voice[v].got))
         /\ Len(voice[v].got) \in Nat
         /\ FirstFrame + Len(voice[v].got) + Len(ring[voice[v].slot]) <= FrameCount
         /\ exhausted[voice[v].slot] =>
              \/ voice[v].got = <<>> /\ open[voice[v].slot] = None
              \/ FirstFrame + Len(voice[v].got) + Len(ring[voice[v].slot]) = FrameCount
         /\ open[voice[v].slot] = None => ring[voice[v].slot] = <<>>
  <1> DEFINE s == voice[v].slot
             got == voice[v].got
             file == open[s]
  <1>1. /\ voice[v] \in Streams /\ s \in Slots /\ got \in FrameSeqs
        /\ ring[s] \in FrameSeqs /\ file \in Files \cup {None}
        /\ voice[v].sample \in Samples
    BY HeldSlot DEF PInv, IInv, TypeOK, Streams
  <1>2. /\ FirstFrame \in Nat /\ FrameCount \in Nat /\ FirstFrame <= FrameCount
        /\ file # None => file.next \in FirstFrame..FrameCount
        /\ Upto(got \o ring[s], file) /\ Upto(ring[s], file)
    BY <1>1, StreamerAssumption DEF PInv, DInv, FileOrder, Heard
  <1>3. Served(v)
    BY DEF PInv, Answered
  <1>4. SUFFICES
          /\ got = Frames(voice[v].sample, FirstFrame, FirstFrame + Len(got))
          /\ Len(got) \in Nat
          /\ FirstFrame + Len(got) + Len(ring[s]) <= FrameCount
          /\ exhausted[s] => \/ got = <<>> /\ file = None
                             \/ FirstFrame + Len(got) + Len(ring[s]) = FrameCount
          /\ file = None => ring[s] = <<>>
    BY DEF Pool!Opening, Pool!Frames, Frames
  <1> HIDE DEF s, got
  <1>5. Len(got) \in Nat /\ Len(ring[s]) \in Nat
    BY <1>1 DEF FrameSeqs
  <1>6. CASE file = None
    <2>1. got = <<>> /\ ring[s] = <<>>
      BY <1>2, <1>3, <1>6 DEF Served, Upto, got, s
    <2>2. Len(got) = 0 /\ Len(ring[s]) = 0
      BY <2>1
    <2>3. got = Frames(voice[v].sample, FirstFrame, FirstFrame + Len(got))
      BY <1>1, <1>2, <2>1, EmptyRun, Zenon
    <2> QED  BY <1>2, <1>6, <2>1, <2>2, <2>3
  <1>7. CASE file # None
    <2>1. /\ file.sample = voice[v].sample
          /\ file.next = FirstFrame + Len(got) + Len(ring[s])
          /\ exhausted[s] => file.next = FrameCount
      BY <1>3, <1>7 DEF Served, got, s
    <2> DEFINE whole == got \o ring[s]
               F == Samples \X Nat
    <2>2. /\ Len(whole) = Len(got) + Len(ring[s])
          /\ \A i \in 1..Len(got) : whole[i] = got[i]
      <3>1. got \in Seq(F) /\ ring[s] \in Seq(F)
        BY <1>1 DEF FrameSeqs
      <3> HIDE DEF F
      <3> QED  BY <3>1
    <2> HIDE DEF whole
    <2>3. ASSUME NEW i \in 1..Len(got)
          PROVE  got[i] = <<voice[v].sample, FirstFrame + i - 1>>
      <3>1. whole # <<>> /\ i \in 1..Len(whole)
        BY <1>5, <2>2
      <3>2. whole[i] = <<file.sample, file.next - Len(whole) + i - 1>>
        BY <1>2, <3>1 DEF Upto, whole
      <3>3. file.next - Len(whole) + i - 1 = FirstFrame + i - 1
        BY <1>2, <1>5, <2>1, <2>2
      <3> QED  BY <2>1, <2>2, <3>2, <3>3
    <2>4. got = Frames(voice[v].sample, FirstFrame, FirstFrame + Len(got))
      BY <1>1, <1>2, <2>3, RunIsFrames
    <2>5. /\ FirstFrame + Len(got) + Len(ring[s]) <= FrameCount
          /\ exhausted[s] => FirstFrame + Len(got) + Len(ring[s]) = FrameCount
      <3>1. FrameCount \in Nat /\ file.next <= FrameCount
        BY <1>2, <1>7
      <3> HIDE DEF file
      <3> QED  BY <2>1, <3>1
    <2> HIDE DEF file
    <2> QED  BY <1>5, <1>7, <2>4, <2>5, Zenon
  <1> QED  BY <1>6, <1>7

LEMMA ViewRecord ==
  ASSUME NEW s \in Samples, NEW g \in FrameSeqs, NEW e \in BOOLEAN
  PROVE  [sample |-> s, got |-> g, ended |-> e] \in Views \ {None}
  <1>1. [sample |-> s, got |-> g, ended |-> e] \in Views
    BY DEF Views
  <1> QED  BY <1>1, NoneAssumption

LEMMA EndedView ==
  ASSUME NEW s, NEW g, NEW e \in BOOLEAN
  PROVE  [[sample |-> s, got |-> g, ended |-> e] EXCEPT !.ended = TRUE]
           = [sample |-> s, got |-> g, ended |-> TRUE]
  <1> DEFINE r == [sample |-> s, got |-> g, ended |-> e]
             R == [sample : {s}, got : {g}, ended : BOOLEAN]
             over == [r EXCEPT !.ended = TRUE]
             done == [sample |-> s, got |-> g, ended |-> TRUE]
  <1>1. r \in R
    OBVIOUS
  <1>2. /\ over \in R /\ over.ended = TRUE
    BY <1>1
  <1>3. /\ done \in R /\ done.ended = TRUE
    OBVIOUS
  <1> HIDE DEF over, done
  <1>4. over = done
    BY <1>2, <1>3
  <1> QED  BY <1>4 DEF over, done

(* The steps of the pool, one view at a time. *)
LEMMA DeliverStep ==
  ASSUME NEW v \in Voices, NEW n \in 0..FrameCount, TypeOK, TypeOK',
         \A w \in Voices : w # v => View(w)' = View(w),
         voice[v] # None, voice'[v] # None,
         voice'[v].sample = voice[v].sample,
         voice'[v].got = Pool!Opening(voice[v].sample, Len(voice[v].got) + n),
         FirstFrame + Len(voice[v].got) + n <= FrameCount,
         ~View(v).ended,
         View(v)'.ended => FirstFrame + Len(voice[v].got) + n = FrameCount
  PROVE  Pool!Next
  <1> DEFINE now == Pool!Opening(voice[v].sample, Len(voice[v].got) + n)
             new == View(v)'
  <1>1. Play' = [Play EXCEPT ![v] = new]
    BY OneViewMoves
  <1>2. /\ Play[v] = View(v) /\ Play[v] \in Views /\ Play[v] # None
        /\ ~Play[v].ended
        /\ Play[v].sample = voice[v].sample /\ Play[v].got = voice[v].got
    <2> DEFINE e == exhausted[voice[v].slot] /\ ring[voice[v].slot] = <<>>
    <2>1. /\ voice[v].sample \in Samples /\ voice[v].got \in FrameSeqs
          /\ e \in BOOLEAN
      BY DEF TypeOK, Streams
    <2>2. View(v) = [sample |-> voice[v].sample, got |-> voice[v].got, ended |-> e]
      BY DEF View
    <2> HIDE DEF e
    <2> QED  BY <2>1, <2>2, ViewRecord, PlayAt
  <1>3. /\ new \in Views /\ new.sample = voice[v].sample /\ new.got = now
        /\ new.ended => FirstFrame + Len(voice[v].got) + n = FrameCount
    <2> DEFINE e == exhausted'[voice'[v].slot] /\ ring'[voice'[v].slot] = <<>>
    <2>1. /\ voice'[v].sample \in Samples /\ voice'[v].got \in FrameSeqs
          /\ e \in BOOLEAN
      BY DEF TypeOK, Streams, FrameSeqs
    <2>2. View(v)' = [sample |-> voice'[v].sample, got |-> voice'[v].got, ended |-> e]
      BY DEF View
    <2> HIDE DEF e
    <2> QED  BY <2>1, <2>2, ViewRecord
  <1> HIDE DEF new
  <1>4. new.ended \in BOOLEAN
    BY <1>3 DEF Views
  <1>5. new = [Play[v] EXCEPT !.got = now, !.ended = new.ended]
    BY <1>2, <1>3 DEF Views
  <1>6. Play' = [Play EXCEPT ![v].got = now, ![v].ended = new.ended]
    BY <1>1, <1>5, <1>2 DEF Play
  <1>7. Pool!Deliver(v, n)
    <2> HIDE DEF now
    <2>1. now = Pool!Opening(Play[v].sample, Len(Play[v].got) + n)
      BY <1>2 DEF now
    <2> QED  BY <1>2, <1>3, <1>4, <1>6, <2>1 DEF Pool!Deliver
  <1> QED  BY <1>7 DEF Pool!Next

LEMMA OpenStep ==
  ASSUME NEW v \in Voices, NEW sample \in Samples,
         \A w \in Voices : w # v => View(w)' = View(w),
         voice[v] = None,
         View(v)' = [sample |-> sample, got |-> <<>>, ended |-> FALSE]
  PROVE  Pool!Next
  <1>1. Play' = [Play EXCEPT ![v] = [sample |-> sample, got |-> <<>>, ended |-> FALSE]]
    BY OneViewMoves
  <1>2. Play[v] = None
    BY PlayAt DEF View
  <1>3. Pool!Open(v)
    BY <1>1, <1>2 DEF Pool!Open
  <1> QED  BY <1>3 DEF Pool!Next

LEMMA CloseStep ==
  ASSUME NEW v \in Voices, TypeOK,
         \A w \in Voices : w # v => View(w)' = View(w),
         voice[v] # None, voice'[v] = None
  PROVE  Pool!Next
  <1>1. Play' = [Play EXCEPT ![v] = View(v)']
    BY OneViewMoves
  <1>2. View(v)' = None
    BY DEF View
  <1>3. Play[v] # None
    <2> DEFINE e == exhausted[voice[v].slot] /\ ring[voice[v].slot] = <<>>
    <2>1. /\ voice[v].sample \in Samples /\ voice[v].got \in FrameSeqs
          /\ e \in BOOLEAN
      BY DEF TypeOK, Streams
    <2>2. View(v) = [sample |-> voice[v].sample, got |-> voice[v].got, ended |-> e]
      BY DEF View
    <2> HIDE DEF e
    <2> QED  BY <2>1, <2>2, ViewRecord, PlayAt
  <1>4. Pool!Close(v)
    BY <1>1, <1>2, <1>3 DEF Pool!Close
  <1> QED  BY <1>4 DEF Pool!Next

LEMMA FailStep ==
  ASSUME NEW v \in Voices, TypeOK,
         \A w \in Voices : w # v => View(w)' = View(w),
         voice[v] # None, voice'[v] = voice[v], voice[v].got = <<>>,
         exhausted'[voice[v].slot], ring'[voice[v].slot] = <<>>
  PROVE  Pool!Next
  <1>1. Play' = [Play EXCEPT ![v] = View(v)']
    BY OneViewMoves
  <1>2. View(v)' = [sample |-> voice[v].sample, got |-> voice[v].got, ended |-> TRUE]
    BY DEF View
  <1>3. /\ Play[v] # None /\ Play[v].got = <<>>
        /\ [Play[v] EXCEPT !.ended = TRUE]
             = [sample |-> voice[v].sample, got |-> voice[v].got, ended |-> TRUE]
    <2> DEFINE e == exhausted[voice[v].slot] /\ ring[voice[v].slot] = <<>>
    <2>1. /\ voice[v].sample \in Samples /\ voice[v].got \in FrameSeqs
          /\ e \in BOOLEAN
      BY DEF TypeOK, Streams
    <2>2. View(v) = [sample |-> voice[v].sample, got |-> voice[v].got, ended |-> e]
      BY DEF View
    <2> HIDE DEF e
    <2> DEFINE seen == [sample |-> voice[v].sample, got |-> voice[v].got, ended |-> e]
    <2>3. [seen EXCEPT !.ended = TRUE]
            = [sample |-> voice[v].sample, got |-> voice[v].got, ended |-> TRUE]
      BY <2>1, EndedView
    <2>4. seen.got = voice[v].got
      OBVIOUS
    <2>5. Play[v] = seen /\ seen # None
      BY <2>1, <2>2, ViewRecord, PlayAt
    <2> HIDE DEF seen
    <2> QED  BY <2>3, <2>4, <2>5
  <1>4. Play' = [Play EXCEPT ![v].ended = TRUE]
    BY <1>1, <1>2, <1>3 DEF Play
  <1>5. Pool!Fail(v)
    BY <1>3, <1>4 DEF Pool!Fail
  <1> QED  BY <1>5 DEF Pool!Next
-----------------------------------------------------------------------------
Openings ==
  \A v \in Voices : voice[v] # None =>
    /\ voice[v].got = Pool!Opening(voice[v].sample, Len(voice[v].got))
    /\ FirstFrame + Len(voice[v].got) <= FrameCount
    /\ exhausted[voice[v].slot] /\ ring[voice[v].slot] = <<>> =>
         voice[v].got = <<>> \/ FirstFrame + Len(voice[v].got) = FrameCount

LEMMA OpeningsHeard == PInv => Openings
  <1>1. SUFFICES ASSUME PInv, NEW v \in Voices, voice[v] # None
        PROVE /\ voice[v].got = Pool!Opening(voice[v].sample, Len(voice[v].got))
              /\ FirstFrame + Len(voice[v].got) <= FrameCount
              /\ exhausted[voice[v].slot] /\ ring[voice[v].slot] = <<>> =>
                   voice[v].got = <<>> \/ FirstFrame + Len(voice[v].got) = FrameCount
    BY DEF Openings
  <1> DEFINE buffered == Len(ring[voice[v].slot])
             had == Len(voice[v].got)
  <1>2. /\ voice[v].got = Pool!Opening(voice[v].sample, had) /\ had \in Nat
        /\ FirstFrame + had + buffered <= FrameCount
        /\ exhausted[voice[v].slot] =>
             voice[v].got = <<>> \/ FirstFrame + had + buffered = FrameCount
    BY <1>1, HeardIsOpening
  <1>3. /\ buffered \in Nat /\ FirstFrame \in Nat /\ FrameCount \in Nat
        /\ ring[voice[v].slot] = <<>> => buffered = 0
    BY <1>1, HeldSlot, StreamerAssumption DEF PInv, IInv, TypeOK, FrameSeqs
  <1> HIDE DEF buffered
  <1> QED  BY <1>2, <1>3

LEMMA OpeningsStay == PInv' => Openings'
  BY OpeningsHeard, PTL

LEMMA ClaimRequestPlays ==
  ASSUME PInv, ClaimRequest
  PROVE  Pool!Next
  <1>1. /\ claim # None /\ claim.at = "request" /\ UNCHANGED <<ring, exhausted>>
        /\ voice' = [voice EXCEPT ![claim.voice] =
                       [slot |-> claim.slot, sample |-> claim.sample, got |-> <<>>]]
    BY DEF ClaimRequest
  <1>2. /\ TypeOK /\ claim \in Claims /\ voice[claim.voice] = None
        /\ ~exhausted[claim.slot]
    BY <1>1 DEF PInv, IInv, TypeOK, ClaimOrder, Answered, ClaimUnseen
  <1>3. PICK c \in Voices, sample \in Samples, s \in Slots :
          c = claim.voice /\ sample = claim.sample /\ s = claim.slot
    BY <1>2 DEF Claims
  <1> DEFINE new == [slot |-> s, sample |-> sample, got |-> <<>>]
  <1>4. voice'[c] = new /\ \A w \in Voices : w # c => voice'[w] = voice[w]
    BY <1>1, <1>2, <1>3 DEF TypeOK
  <1>5. new # None
    <2>1. <<>> \in FrameSeqs
      BY EmptySeq DEF FrameSeqs
    <2>2. new \in Streams
      BY <2>1 DEF Streams
    <2> QED  BY <2>2, NoneAssumption
  <1>6. View(c)' = [sample |-> sample, got |-> <<>>, ended |-> FALSE]
    <2> DEFINE e == exhausted'[s] /\ ring'[s] = <<>>
    <2>1. e = FALSE
      BY <1>1, <1>2, <1>3
    <2>2. View(c)' = [sample |-> sample, got |-> <<>>, ended |-> e]
      BY <1>4, <1>5 DEF View
    <2> HIDE DEF e
    <2> QED  BY <2>1, <2>2
  <1>7. \A w \in Voices : w # c => View(w)' = View(w)
    BY <1>1, <1>4, ViewKept
  <1> QED  BY <1>2, <1>3, <1>6, <1>7, OpenStep

LEMMA ReadPlays ==
  ASSUME PInv, PInv', NEW v \in Voices, NEW n \in 1..RingFrames, Read(v, n)
  PROVE  Pool!Next
  <1> DEFINE s == voice[v].slot
             had == Len(voice[v].got)
  <1>1. /\ s \in Slots /\ Len(ring[s]) \in Nat /\ n <= Len(ring[s])
        /\ voice[v] \in Streams
        /\ voice'[v] = [voice[v] EXCEPT !.got = voice'[v].got]
        /\ voice'[v].got \in FrameSeqs
        /\ Len(voice'[v].got) = had + n
        /\ \A w \in Voices : w # v => voice'[w] = voice[w]
        /\ \A r \in Slots : r # s => ring'[r] = ring[r]
    BY ReadMoves DEF PInv
  <1>2. voice[v] # None /\ UNCHANGED exhausted
    BY DEF Read
  <1>3. /\ TypeOK /\ TypeOK' /\ n \in Nat /\ n >= 1 /\ had \in Nat
        /\ FirstFrame \in Nat /\ FrameCount \in Nat
    <2>1. had \in Nat
      BY <1>1 DEF Streams, FrameSeqs
    <2> QED  BY <2>1, StreamerAssumption DEF PInv, IInv
  <1>4. /\ voice'[v] \in Streams /\ voice'[v].slot = s
        /\ voice'[v].sample = voice[v].sample
    BY <1>1 DEF Streams
  <1>5. voice'[v] # None
    BY <1>4, NoneAssumption
  <1>6. /\ voice'[v].got = Pool!Opening(voice[v].sample, had + n)
        /\ FirstFrame + (had + n) <= FrameCount
        /\ exhausted'[s] /\ ring'[s] = <<>> =>
             voice'[v].got = <<>> \/ FirstFrame + (had + n) = FrameCount
    BY <1>1, <1>4, <1>5, OpeningsStay DEF Openings
  <1>7. voice'[v].got # <<>> /\ ring[s] # <<>>
    BY <1>1, <1>3
  <1>8. ~View(v).ended
    BY <1>2, <1>7 DEF View
  <1>9. View(v)'.ended => FirstFrame + had + n = FrameCount
    <2>1. View(v)'.ended = (exhausted'[s] /\ ring'[s] = <<>>)
      BY <1>4, <1>5 DEF View
    <2>2. View(v)'.ended => FirstFrame + (had + n) = FrameCount
      BY <1>6, <1>7, <2>1, Zenon
    <2>3. FirstFrame + (had + n) = FirstFrame + had + n
      BY <1>3
    <2> QED  BY <2>2, <2>3, Zenon
  <1>10. ASSUME NEW w \in Voices, w # v PROVE View(w)' = View(w)
    <2>1. voice[w] # None => voice[w].slot \in Slots /\ voice[w].slot # s
      BY <1>2, <1>10, HeldSlot, SlotsDiffer DEF PInv
    <2> QED  BY <1>1, <1>2, <1>10, <2>1, ViewKept
  <1>11. n \in 0..FrameCount /\ FirstFrame + had + n <= FrameCount
    BY <1>3, <1>6
  <1> HIDE DEF s
  <1> QED  BY <1>2, <1>3, <1>4, <1>5, <1>6, <1>8, <1>9, <1>10, <1>11, DeliverStep

LEMMA DropPlays ==
  ASSUME PInv, NEW v \in Voices, Drop(v)
  PROVE  Pool!Next
  <1>1. /\ voice[v] # None /\ voice' = [voice EXCEPT ![v] = None]
        /\ UNCHANGED <<ring, exhausted>>
    BY DEF Drop
  <1>2. TypeOK /\ voice'[v] = None /\ \A w \in Voices : w # v => voice'[w] = voice[w]
    BY <1>1 DEF PInv, IInv, TypeOK
  <1>3. \A w \in Voices : w # v => View(w)' = View(w)
    BY <1>1, <1>2, ViewKept
  <1> QED  BY <1>1, <1>2, <1>3, CloseStep

(* The end a voice sees is the end of its sample: nothing is left to       *)
(* deliver but the end itself. *)
LEMMA EndPlays ==
  ASSUME Reliable, PInv, Finish \/ NothingRead
  PROVE  Pool!Next \/ Play' = Play
  <1>1. /\ exhausted' = [exhausted EXCEPT ![Here] = TRUE]
        /\ UNCHANGED <<ring, voice>>
    BY DEF Finish, NothingRead, audioVars
  <1>2. TypeOK /\ TypeOK' /\ Here \in Slots /\ open[Here] # None
        /\ open[Here].next = FrameCount
    BY HereIsSlot, EndsAtTheEnd, FinishKeeps, NothingReadKeeps DEF PInv, IInv
  <1>3. \A r \in Slots : exhausted'[r] = IF r = Here THEN TRUE ELSE exhausted[r]
    BY <1>1, <1>2 DEF TypeOK
  <1>4. ASSUME NEW w \in Voices, voice[w] # None => voice[w].slot # Here
        PROVE  View(w)' = View(w)
    BY <1>1, <1>3, <1>4, HeldSlot, ViewKept DEF PInv
  <1>5. CASE \A v \in Voices : voice[v] # None => voice[v].slot # Here
    BY <1>4, <1>5, NoViewMoves
  <1>6. CASE \E v \in Voices : voice[v] # None /\ voice[v].slot = Here
    <2>1. PICK v \in Voices : voice[v] # None /\ voice[v].slot = Here
      BY <1>6
    <2>2. \A w \in Voices : w # v => View(w)' = View(w)
      BY <1>4, <2>1, SlotsDiffer DEF PInv
    <2>3. CASE exhausted[Here] \/ ring[Here] # <<>>
      <3>1. View(v)' = View(v)
        BY <1>1, <1>2, <1>3, <2>1, <2>3, ViewKept DEF TypeOK
      <3> QED  BY <2>2, <3>1, NoViewMoves
    <2>4. CASE ~exhausted[Here] /\ ring[Here] = <<>>
      <3> DEFINE had == Len(voice[v].got)
      <3>1. /\ had \in Nat /\ FirstFrame \in Nat /\ FrameCount \in Nat
            /\ voice[v].got = Pool!Opening(voice[v].sample, had)
        BY <2>1, HeardIsOpening, StreamerAssumption
      <3>2. FirstFrame + had = FrameCount
        <4>1. Served(v)
          BY <2>1 DEF PInv, Answered
        <4>2. Len(ring[Here]) = 0
          BY <2>4
        <4> QED  BY <1>2, <2>1, <3>1, <4>1, <4>2 DEF Served
      <3>3. had + 0 = had /\ FirstFrame + had + 0 = FrameCount /\ 0 \in 0..FrameCount
        BY <3>1, <3>2
      <3>4. ~View(v).ended
        BY <2>1, <2>4 DEF View
      <3>5. /\ voice[v].got = Pool!Opening(voice[v].sample, had + 0)
            /\ FirstFrame + had + 0 <= FrameCount
        BY <3>1, <3>3
      <3> HIDE DEF had
      <3>6. Pool!Next
        BY <1>1, <1>2, <2>1, <2>2, <3>3, <3>4, <3>5, DeliverStep DEF had
      <3> QED  BY <3>6
    <2> QED  BY <2>3, <2>4
  <1> QED  BY <1>5, <1>6

LEMMA NoFilePlays ==
  ASSUME PInv, NoFile
  PROVE  Pool!Next \/ Play' = Play
  <1>1. /\ rpc = "nofile" /\ exhausted' = [exhausted EXCEPT ![Here] = TRUE]
        /\ UNCHANGED <<ring, voice>>
    BY DEF NoFile, audioVars
  <1>2. /\ TypeOK /\ Here \in Slots /\ open[Here] = None /\ ring[Here] = <<>>
    BY <1>1, HereIsSlot DEF PInv, IInv, DInv, FileOrder, Unopened
  <1>3. \A r \in Slots : exhausted'[r] = IF r = Here THEN TRUE ELSE exhausted[r]
    BY <1>1, <1>2 DEF TypeOK
  <1>4. ASSUME NEW w \in Voices, voice[w] # None => voice[w].slot # Here
        PROVE  View(w)' = View(w)
    BY <1>1, <1>3, <1>4, HeldSlot, ViewKept DEF PInv
  <1>5. CASE \A v \in Voices : voice[v] # None => voice[v].slot # Here
    BY <1>4, <1>5, NoViewMoves
  <1>6. CASE \E v \in Voices : voice[v] # None /\ voice[v].slot = Here
    <2>1. PICK v \in Voices : voice[v] # None /\ voice[v].slot = Here
      BY <1>6
    <2>2. \A w \in Voices : w # v => View(w)' = View(w)
      BY <1>4, <2>1, SlotsDiffer DEF PInv
    <2>3. voice[v].got = <<>>
      BY <1>2, <2>1 DEF PInv, Answered, Served
    <2> QED  BY <1>1, <1>2, <1>3, <2>1, <2>2, <2>3, FailStep
  <1> QED  BY <1>5, <1>6

(* The rest of the two threads' work is not seen. *)
LEMMA UnseenPlays ==
  ASSUME PInv, UNCHANGED <<ring, exhausted, voice>>
  PROVE  Play' = Play
  BY DEF Play, View

LEMMA ClaimPlays ==
  ASSUME PInv, ClaimClear \/ ClaimReset
  PROVE  Play' = Play
  <1>1. /\ claim # None /\ UNCHANGED voice
        /\ ring' = ring \/ ring' = [ring EXCEPT ![claim.slot] = <<>>]
        /\ exhausted' = exhausted \/ exhausted' = [exhausted EXCEPT ![claim.slot] = FALSE]
    BY DEF ClaimClear, ClaimReset
  <1>2. ASSUME NEW v \in Voices PROVE View(v)' = View(v)
    <2>1. voice[v] # None => voice[v].slot \in Slots /\ voice[v].slot # claim.slot
      BY <1>1, HeldSlot, ClaimIsNew DEF PInv
    <2> QED  BY <1>1, <2>1, ViewKept DEF PInv, IInv, TypeOK
  <1> QED  BY <1>2, NoViewMoves

LEMMA CloseFilePlays ==
  ASSUME PInv, CloseFile
  PROVE  Play' = Play
  <1>1. /\ rpc = "close" /\ ring' = [ring EXCEPT ![Here] = <<>>]
        /\ UNCHANGED <<voice, exhausted>>
    BY DEF CloseFile, audioVars
  <1>2. TypeOK /\ Here \in Slots /\ state[Here] = "releasing"
    BY <1>1, HereIsSlot DEF PInv, IInv, ReaderOrder
  <1>3. ASSUME NEW v \in Voices PROVE View(v)' = View(v)
    <2>1. voice[v] # None => voice[v].slot \in Slots /\ voice[v].slot # Here
      BY <1>2, HeldSlot DEF PInv
    <2> QED  BY <1>1, <1>2, <2>1, ViewKept DEF TypeOK
  <1> QED  BY <1>3, NoViewMoves

LEMMA RefillPlays ==
  ASSUME PInv, Refill
  PROVE  Play' = Play
  <1>1. /\ UNCHANGED <<voice, exhausted>> /\ Here \in Slots
    BY HereIsSlot DEF PInv, IInv, Refill, audioVars
  <1>2. /\ open[Here].next < FrameCount /\ open[Here] # None
        /\ open[Here] \in Files
        /\ \A r \in Slots : r # Here => ring'[r] = ring[r]
    BY RefillAdds DEF PInv
  <1>3. ASSUME NEW v \in Voices PROVE View(v)' = View(v)
    <2>1. CASE voice[v] # None /\ voice[v].slot = Here
      <3>1. ~exhausted[Here]
        <4>1. Served(v)
          BY <2>1 DEF PInv, Answered
        <4> QED  BY <1>2, <2>1, <4>1, StreamerAssumption DEF Served, Files
      <3> QED  BY <1>1, <2>1, <3>1, ViewKept
    <2>2. CASE voice[v] # None /\ voice[v].slot # Here
      BY <1>1, <1>2, <2>2, HeldSlot, ViewKept DEF PInv
    <2>3. CASE voice[v] = None
      BY <1>1, <2>3, ViewKept
    <2> QED  BY <2>1, <2>2, <2>3
  <1> QED  BY <1>3, NoViewMoves
-----------------------------------------------------------------------------
LEMMA InitPlays ==
  ASSUME Init PROVE Pool!Init
  BY DEF Init, Pool!Init, Play, View

LEMMA StepPlays ==
  ASSUME Reliable, PInv, PInv', [Next]_vars
  PROVE  [Pool!Next]_Play
  <1>1. CASE AudioNext
    <2>1. CASE \E v \in Voices, s \in Slots, sample \in Samples : ClaimSlot(v, s, sample)
      BY <2>1, UnseenPlays DEF ClaimSlot
    <2>2. CASE ClaimNext
      BY <2>2, ClaimPlays, ClaimRequestPlays DEF ClaimNext
    <2>3. CASE \E v \in Voices, n \in 1..RingFrames : Read(v, n)
      BY <2>3, ReadPlays
    <2>4. CASE \E v \in Voices : Drop(v)
      BY <2>4, DropPlays
    <2>5. CASE Shutdown
      BY <2>5, UnseenPlays DEF Shutdown, slotVars
    <2> QED  BY <1>1, <2>1, <2>2, <2>3, <2>4, <2>5 DEF AudioNext
  <1>2. CASE ReaderNext
    <2>1. CASE Visit \/ Pass \/ TakeNothing \/ TakeRequest \/ Activate \/ FreeSlot \/ Stop
      BY <2>1, UnseenPlays DEF Visit, Pass, TakeNothing, TakeRequest, Activate, FreeSlot,
         Stop, slotVars, audioVars
    <2>2. CASE NoFile \/ Finish \/ NothingRead
      BY <2>2, NoFilePlays, EndPlays
    <2>3. CASE CloseFile \/ Refill
      BY <2>3, CloseFilePlays, RefillPlays
    <2> QED  BY <1>2, <2>1, <2>2, <2>3 DEF ReaderNext
  <1>3. CASE UNCHANGED vars
    BY <1>3, UnseenPlays DEF vars, slotVars, audioVars
  <1> QED  BY <1>1, <1>2, <1>3 DEF Next

(* Voices that outlive their pick-up, and files that can be read once they *)
(* are open, see the pool of StreamPool: their sample's frames, each once  *)
(* and in order, and the end only after the last of them or after a file   *)
(* that would not open. *)
THEOREM StreamerImplementsPool ==
  ASSUME EarlyDrop = FALSE, "read" \notin Faults
  PROVE  Spec => ImplementsPool
  <1>1. Reliable
    BY DEF Reliable
  <1>2. Init => PInv /\ Pool!Init
    BY InitIInv, InitDInv, InitAnswered, InitPlays DEF PInv
  <1>3. PInv /\ [Next]_vars => PInv'
    BY <1>1, StepIInv, StepDInv, StepAnswered DEF PInv
  <1>4. PInv /\ PInv' /\ [Next]_vars => [Pool!Next]_Play
    BY <1>1, StepPlays
  <1>5. Spec => Pool!Init /\ [][Pool!Next]_Play
    BY <1>2, <1>3, <1>4, PTL DEF Spec
  <1> QED  BY <1>5 DEF ImplementsPool, Pool!Spec
=============================================================================
