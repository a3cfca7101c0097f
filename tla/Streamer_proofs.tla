--------------------------- MODULE Streamer_proofs ---------------------------
(***************************************************************************)
(* Proofs about Streamer for every pool, every number of voices, every     *)
(* sample length, with or without early drops and failing files.           *)
(*                                                                         *)
(* A slot changes hands through its state alone.  A voice's slot is        *)
(* claimed or active: only the voice's own drop moves it to releasing, and *)
(* the reader frees a slot only from there.  So what the reader does while *)
(* it reclaims a slot meets no voice, and a free slot has no owner to      *)
(* dispute the next claim.                                                 *)
(***************************************************************************)
EXTENDS Streamer, SequenceTheorems, TLAPS

(* The voice of a claim under way holds no other stream. *)
ClaimOrder == claim # None => voice[claim.voice] = None

(* What the reader saw of a slot still holds where the rest of its visit   *)
(* relies on it. *)
ReaderOrder ==
  /\ rpc \in {"close", "release"} => state[Here] = "releasing"
  /\ rpc \in {"refill", "finish"} => served < RefillStreamsPerRun
  /\ rpc = "refill" => open[Here] # None

IInv == TypeOK /\ OwnSlot /\ ClaimOrder /\ ReaderOrder
-----------------------------------------------------------------------------
LEMMA Remainder ==
  ASSUME NEW n \in Nat \ {0}, NEW x \in Nat
  PROVE  x % n \in 0..(n - 1)
  OBVIOUS

LEMMA HereIsSlot ==
  ASSUME TypeOK
  PROVE  Here \in Slots
  <1>1. MaxStreams \in Nat \ {0} /\ cursor + step \in Nat
    BY StreamerAssumption DEF TypeOK, Slots
  <1> QED  BY <1>1, Remainder DEF Here, Slots

LEMMA FramesType ==
  ASSUME NEW sample \in Samples, NEW from \in Nat, NEW n \in Nat
  PROVE  /\ Frames(sample, from, from + n) \in FrameSeqs
         /\ Len(Frames(sample, from, from + n)) = n
  <1> DEFINE F == Samples \X Nat
             q == Frames(sample, from, from + n)
  <1>1. from + n - from = n
    OBVIOUS
  <1>2. q \in [1..n -> F]
    BY <1>1 DEF Frames
  <1> HIDE DEF q, F
  <1>3. q \in Seq(F) /\ Len(q) = n
    BY <1>2
  <1> QED  BY <1>3 DEF FrameSeqs, q, F

(* The end of a visit keeps the reader's counters in range. *)
LEMMA NextVisitType ==
  ASSUME TypeOK, NEW n \in 0..RefillStreamsPerRun, NextVisit(n)
  PROVE  /\ rpc' = "scan" /\ cursor' \in Slots /\ step' \in Slots
         /\ served' \in 0..RefillStreamsPerRun
  <1>1. /\ MaxStreams \in Nat \ {0} /\ RefillStreamsPerRun \in Nat \ {0}
        /\ cursor \in 0..(MaxStreams - 1) /\ step \in 0..(MaxStreams - 1)
    BY StreamerAssumption DEF TypeOK, Slots
  <1>2. (cursor + RefillStreamsPerRun) % MaxStreams \in 0..(MaxStreams - 1)
    BY <1>1, Remainder
  <1> QED  BY <1>1, <1>2 DEF NextVisit, Slots
-----------------------------------------------------------------------------
(* Ownership is a matter of `voice` and `claim`.                           *)

Holds(v, s) ==
  \/ voice[v] # None /\ voice[v].slot = s
  \/ claim # None /\ claim.voice = v /\ claim.slot = s

LEMMA OwnSlotMeans ==
  OwnSlot <=> \A s \in Slots :
    /\ \A v, w \in Voices : Holds(v, s) /\ Holds(w, s) => v = w
    /\ \A v \in Voices : Holds(v, s) => state[s] \in {"claimed", "active"}
  BY DEF OwnSlot, Holders, Holds

(* A step of the reader that takes no slot out of an owner's hands. *)
LEMMA ReaderKeepsOwners ==
  ASSUME IInv, UNCHANGED <<voice, claim>>, ClaimOrder, state' = state
  PROVE  OwnSlot' /\ ClaimOrder'
  <1>1. OwnSlot' <=> OwnSlot
    BY DEF OwnSlot, Holders
  <1> QED  BY <1>1 DEF IInv, ClaimOrder

(* The reader's contract with the consumer follows from the invariant. *)
LEMMA ReclaimsAlone ==
  ASSUME IInv
  PROVE  OneConsumer
  <1>1. ASSUME rpc \in {"close", "release"} PROVE Holders(Here) = {}
    <2>1. Here \in Slots /\ state[Here] = "releasing"
      BY <1>1, HereIsSlot DEF IInv, ReaderOrder
    <2> QED  BY <2>1 DEF IInv, OwnSlot
  <1> QED  BY <1>1 DEF OneConsumer
-----------------------------------------------------------------------------
LEMMA InitIInv ==
  ASSUME Init PROVE IInv
  <1>1. MaxStreams \in Nat \ {0} /\ RefillStreamsPerRun \in Nat \ {0}
        /\ MaxRefill \in Nat \ {0}
    BY StreamerAssumption
  <1>2. <<>> \in FrameSeqs /\ Len(<<>>) <= RingFrames
    BY StreamerAssumption DEF FrameSeqs
  <1>3. 0 \in Slots
    BY <1>1 DEF Slots
  <1>4. TypeOK
    BY <1>1, <1>2, <1>3 DEF Init, TypeOK
  <1>5. OwnSlot /\ ClaimOrder /\ ReaderOrder
    BY DEF Init, OwnSlot, Holders, ClaimOrder, ReaderOrder
  <1> QED  BY <1>4, <1>5 DEF IInv
-----------------------------------------------------------------------------
(* The audio thread's steps.                                               *)

LEMMA ClaimSlotKeeps ==
  ASSUME IInv, NEW v \in Voices, NEW s \in Slots, NEW sample \in Samples,
         ClaimSlot(v, s, sample)
  PROVE  IInv'
  <1>1. /\ claim = None /\ voice[v] = None /\ state[s] = "free"
        /\ state' = [state EXCEPT ![s] = "claimed"]
        /\ claim' = [at |-> "clear", voice |-> v, slot |-> s, sample |-> sample]
        /\ UNCHANGED <<ring, request, exhausted, voice, running, readerVars>>
    BY DEF ClaimSlot
  <1>2. TypeOK /\ OwnSlot /\ ReaderOrder /\ Here \in Slots
    BY HereIsSlot DEF IInv
  <1>3. TypeOK'
    BY <1>1, <1>2 DEF TypeOK, Claims, readerVars
  <1>4. OwnSlot'
    <2>1. \A x \in Voices : ~Holds(x, s)
      BY <1>1, <1>2, OwnSlotMeans
    <2>2. \A x \in Voices, r \in Slots :
            Holds(x, r)' => Holds(x, r) \/ (x = v /\ r = s)
      BY <1>1 DEF Holds
    <2>3. state'[s] = "claimed" /\ \A r \in Slots : r # s => state'[r] = state[r]
      BY <1>1, <1>2 DEF TypeOK, Claims
    <2>4. \A r \in Slots :
            /\ \A x, y \in Voices : Holds(x, r)' /\ Holds(y, r)' => x = y
            /\ \A x \in Voices : Holds(x, r)' => state'[r] \in {"claimed", "active"}
      BY <1>2, <2>1, <2>2, <2>3, OwnSlotMeans
    <2> QED  BY <2>4 DEF OwnSlot, Holders, Holds
  <1>5. ClaimOrder'
    BY <1>1 DEF ClaimOrder
  <1>6. ReaderOrder'
    <2>1. Here' = Here /\ UNCHANGED <<rpc, served, open>>
      BY <1>1 DEF Here, readerVars
    <2>2. rpc \in {"close", "release"} => state'[Here] = "releasing"
      BY <1>1, <1>2 DEF ReaderOrder, TypeOK
    <2> QED  BY <1>2, <2>1, <2>2 DEF ReaderOrder
  <1> QED  BY <1>3, <1>4, <1>5, <1>6 DEF IInv

(* A step of the audio thread that leaves the slots' states alone. *)
LEMMA ReaderOrderKept ==
  ASSUME IInv, UNCHANGED <<state, readerVars>>
  PROVE  ReaderOrder'
  BY DEF IInv, ReaderOrder, Here, readerVars

LEMMA ClaimClearKeeps ==
  ASSUME IInv, ClaimClear
  PROVE  IInv'
  <1>1. /\ claim # None
        /\ ring' = [ring EXCEPT ![claim.slot] = <<>>]
        /\ claim' = [claim EXCEPT !.at = "exhausted"]
        /\ UNCHANGED <<state, request, exhausted, voice, running, readerVars>>
    BY DEF ClaimClear
  <1>2. TypeOK /\ OwnSlot /\ ClaimOrder
        /\ claim \in Claims
    BY <1>1 DEF IInv, TypeOK
  <1>3. TypeOK'
    <2>1. <<>> \in FrameSeqs /\ Len(<<>>) <= RingFrames
      BY StreamerAssumption DEF FrameSeqs
    <2> QED  BY <1>1, <1>2, <2>1 DEF TypeOK, Claims, readerVars
  <1>4. claim'.voice = claim.voice /\ claim'.slot = claim.slot
    BY <1>1, <1>2 DEF Claims
  <1>5. OwnSlot' /\ ClaimOrder'
    BY <1>1, <1>2, <1>4 DEF OwnSlot, Holders, ClaimOrder, Claims
  <1> QED  BY <1>1, <1>3, <1>5, ReaderOrderKept DEF IInv

LEMMA ClaimResetKeeps ==
  ASSUME IInv, ClaimReset
  PROVE  IInv'
  <1>1. /\ claim # None
        /\ exhausted' = [exhausted EXCEPT ![claim.slot] = FALSE]
        /\ claim' = [claim EXCEPT !.at = "request"]
        /\ UNCHANGED <<state, ring, request, voice, running, readerVars>>
    BY DEF ClaimReset
  <1>2. TypeOK /\ OwnSlot /\ ClaimOrder
        /\ claim \in Claims
    BY <1>1 DEF IInv, TypeOK
  <1>3. TypeOK'
    BY <1>1, <1>2 DEF TypeOK, Claims, readerVars
  <1>4. claim'.voice = claim.voice /\ claim'.slot = claim.slot
    BY <1>1, <1>2 DEF Claims
  <1>5. OwnSlot' /\ ClaimOrder'
    BY <1>1, <1>2, <1>4 DEF OwnSlot, Holders, ClaimOrder, Claims
  <1> QED  BY <1>1, <1>3, <1>5, ReaderOrderKept DEF IInv

(* The claim's owner becomes the stream's holder. *)
LEMMA ClaimRequestKeeps ==
  ASSUME IInv, ClaimRequest
  PROVE  IInv'
  <1>1. /\ claim # None
        /\ request' = [request EXCEPT ![claim.slot] = claim.sample]
        /\ voice' = [voice EXCEPT ![claim.voice] =
                       [slot |-> claim.slot, sample |-> claim.sample, got |-> <<>>]]
        /\ claim' = None
        /\ UNCHANGED <<state, ring, exhausted, running, readerVars>>
    BY DEF ClaimRequest
  <1>2. TypeOK /\ OwnSlot /\ ClaimOrder
        /\ claim \in Claims
    BY <1>1 DEF IInv, TypeOK
  <1>3. \A v \in Voices : v # claim.voice => voice'[v] = voice[v]
    BY <1>1, <1>2 DEF TypeOK, Claims
  <1>4. voice'[claim.voice] =
          [slot |-> claim.slot, sample |-> claim.sample, got |-> <<>>]
    BY <1>1, <1>2 DEF TypeOK, Claims
  <1>5. TypeOK'
    <2>1. [slot |-> claim.slot, sample |-> claim.sample, got |-> <<>>] \in Streams
      BY <1>2 DEF FrameSeqs, Streams, Claims
    <2>2. voice' \in [Voices -> Streams \cup {None}]
      BY <1>1, <1>2, <2>1 DEF TypeOK, Claims
    <2> QED  BY <1>1, <1>2, <2>2 DEF TypeOK, Claims, readerVars
  <1>6. \A v \in Voices, s \in Slots : Holds(v, s)' => Holds(v, s)
    BY <1>1, <1>2, <1>3, <1>4 DEF Holds, Claims
  <1>7. OwnSlot'
    <2>1. \A s \in Slots :
            /\ \A v, w \in Voices : Holds(v, s)' /\ Holds(w, s)' => v = w
            /\ \A v \in Voices : Holds(v, s)' => state'[s] \in {"claimed", "active"}
      BY <1>1, <1>2, <1>6, OwnSlotMeans DEF Claims
    <2> QED  BY <2>1 DEF OwnSlot, Holders, Holds
  <1>8. ClaimOrder'
    BY <1>1 DEF ClaimOrder
  <1> QED  BY <1>1, <1>5, <1>7, <1>8, ReaderOrderKept DEF IInv

LEMMA ReadKeeps ==
  ASSUME IInv, NEW v \in Voices, NEW n \in 1..RingFrames, Read(v, n)
  PROVE  IInv'
  <1> DEFINE s == voice[v].slot
             heard == voice[v].got \o SubSeq(ring[s], 1, n)
             left == SubSeq(ring[s], n + 1, Len(ring[s]))
  <1>1. /\ claim = None /\ voice[v] # None /\ n <= Len(ring[s])
        /\ voice' = [voice EXCEPT ![v].got = heard]
        /\ ring' = [ring EXCEPT ![s] = left]
        /\ UNCHANGED <<state, request, exhausted, claim, running, readerVars>>
    BY DEF Read
  <1>2. TypeOK /\ OwnSlot /\ ClaimOrder /\ voice[v] \in Streams /\ n \in Nat
    BY <1>1, StreamerAssumption DEF IInv, TypeOK
  <1>3. s \in Slots /\ voice[v].got \in FrameSeqs /\ ring[s] \in FrameSeqs
    BY <1>2 DEF TypeOK, Streams
  <1>4. heard \in FrameSeqs /\ left \in FrameSeqs /\ Len(left) <= RingFrames
    <2> DEFINE q == ring[s]
               F == Samples \X Nat
    <2>1. q \in Seq(F) /\ voice[v].got \in Seq(F)
      BY <1>3 DEF FrameSeqs
    <2> HIDE DEF q, F
    <2>2. n <= Len(q) /\ Len(q) \in Nat
      BY <1>1, <2>1 DEF q
    <2>3. SubSeq(q, 1, n) \in Seq(F)
      BY <1>2, <2>1, <2>2
    <2>4. SubSeq(q, n + 1, Len(q)) \in Seq(F)
          /\ Len(SubSeq(q, n + 1, Len(q))) = Len(q) - n
      BY <1>2, <2>1, <2>2
    <2>5. Len(q) <= RingFrames /\ RingFrames \in Nat
      BY <1>2, <1>3, StreamerAssumption DEF TypeOK, q
    <2>6. Len(q) - n <= RingFrames
      BY <1>2, <2>2, <2>5
    <2> QED  BY <2>1, <2>3, <2>4, <2>6 DEF FrameSeqs, q, F
  <1> HIDE DEF heard, left
  <1>5. /\ voice'[v] = [voice[v] EXCEPT !.got = heard]
        /\ \A x \in Voices : x # v => voice'[x] = voice[x]
    BY <1>1, <1>2 DEF TypeOK
  <1>6. voice'[v] \in Streams /\ voice'[v].slot = s
    BY <1>2, <1>4, <1>5 DEF Streams
  <1>7. TypeOK'
    <2>1. voice' \in [Voices -> Streams \cup {None}]
      BY <1>1, <1>2, <1>5, <1>6 DEF TypeOK
    <2>2. ring' \in [Slots -> FrameSeqs] /\ \A r \in Slots : Len(ring'[r]) <= RingFrames
      BY <1>1, <1>2, <1>3, <1>4 DEF TypeOK
    <2> QED  BY <1>1, <1>2, <2>1, <2>2 DEF TypeOK, readerVars
  <1>8. OwnSlot'
    <2>1. \A x \in Voices, r \in Slots : Holds(x, r)' => Holds(x, r)
      BY <1>1, <1>5, <1>6 DEF Holds
    <2>2. \A r \in Slots :
            /\ \A x, y \in Voices : Holds(x, r)' /\ Holds(y, r)' => x = y
            /\ \A x \in Voices : Holds(x, r)' => state'[r] \in {"claimed", "active"}
      BY <1>1, <1>2, <2>1, OwnSlotMeans
    <2> QED  BY <2>2 DEF OwnSlot, Holders, Holds
  <1>9. ClaimOrder'
    BY <1>1 DEF ClaimOrder
  <1> QED  BY <1>1, <1>7, <1>8, <1>9, ReaderOrderKept DEF IInv

(* The slot leaves its owner's hands and its owner leaves the slot. *)
LEMMA DropKeeps ==
  ASSUME IInv, NEW v \in Voices, Drop(v)
  PROVE  IInv'
  <1>1. /\ claim = None /\ voice[v] # None
        /\ state' = [state EXCEPT ![voice[v].slot] = "releasing"]
        /\ voice' = [voice EXCEPT ![v] = None]
        /\ UNCHANGED <<ring, request, exhausted, claim, running, readerVars>>
    BY DEF Drop
  <1>2. TypeOK /\ OwnSlot /\ ReaderOrder /\ Here \in Slots /\ voice[v] \in Streams
    BY <1>1, HereIsSlot DEF IInv, TypeOK
  <1>3. PICK s \in Slots : s = voice[v].slot
    BY <1>2 DEF Streams
  <1>4. TypeOK'
    BY <1>1, <1>2, <1>3 DEF TypeOK, readerVars
  <1>5. voice'[v] = None /\ \A x \in Voices : x # v => voice'[x] = voice[x]
    BY <1>1, <1>2 DEF TypeOK
  <1>6. OwnSlot'
    <2>1. \A x \in Voices, r \in Slots : Holds(x, r)' => Holds(x, r) /\ x # v
      BY <1>1, <1>5 DEF Holds
    <2>2. Holds(v, s)
      BY <1>1, <1>3 DEF Holds
    <2>3. \A x \in Voices : ~Holds(x, s)'
      <3> SUFFICES ASSUME NEW x \in Voices, Holds(x, s)' PROVE FALSE
        OBVIOUS
      <3>1. Holds(x, s) /\ x # v
        BY <1>3, <2>1
      <3> QED  BY <1>2, <1>3, <2>2, <3>1, OwnSlotMeans
    <2>4. \A r \in Slots : r # s => state'[r] = state[r]
      BY <1>1, <1>2, <1>3 DEF TypeOK
    <2>5. \A r \in Slots :
            /\ \A x, y \in Voices : Holds(x, r)' /\ Holds(y, r)' => x = y
            /\ \A x \in Voices : Holds(x, r)' => state'[r] \in {"claimed", "active"}
      <3> TAKE r \in Slots
      <3>1. CASE r = s
        BY <2>3, <3>1
      <3>2. CASE r # s
        BY <1>2, <2>1, <2>4, <3>2, OwnSlotMeans
      <3> QED  BY <3>1, <3>2
    <2> QED  BY <2>5 DEF OwnSlot, Holders, Holds
  <1>7. ClaimOrder'
    BY <1>1 DEF ClaimOrder
  <1>8. ReaderOrder'
    <2>1. Here' = Here /\ UNCHANGED <<rpc, served, open>>
      BY <1>1 DEF Here, readerVars
    <2>2. rpc \in {"close", "release"} => state'[Here] = "releasing"
      BY <1>1, <1>2, <1>3 DEF ReaderOrder, TypeOK
    <2> QED  BY <1>2, <2>1, <2>2 DEF ReaderOrder
  <1> QED  BY <1>4, <1>6, <1>7, <1>8 DEF IInv

LEMMA ShutdownKeeps ==
  ASSUME IInv, Shutdown
  PROVE  IInv'
  <1>1. UNCHANGED <<slotVars, voice, claim, readerVars>> /\ running' = FALSE
    BY DEF Shutdown
  <1>2. TypeOK'
    BY <1>1 DEF IInv, TypeOK, slotVars, readerVars
  <1>3. OwnSlot' /\ ClaimOrder'
    BY <1>1, ReaderKeepsOwners DEF IInv, slotVars
  <1> QED  BY <1>1, <1>2, <1>3, ReaderOrderKept DEF IInv, slotVars
-----------------------------------------------------------------------------
(* The reader's steps.                                                     *)

(* Once a visit is over nothing the reader saw matters any more. *)
LEMMA ScanNeedsNothing ==
  ASSUME rpc' = "scan" PROVE ReaderOrder'
  BY DEF ReaderOrder

LEMMA VisitKeeps ==
  ASSUME IInv, Visit
  PROVE  IInv'
  <1>1. /\ UNCHANGED <<slotVars, audioVars, cursor, step, served, open>>
        /\ rpc' \in {"take", "close", "refill"}
        /\ rpc' = "close" => state[Here] = "releasing"
        /\ rpc' = "refill" => Due(Here)
        /\ wanted' = IF rpc' = "refill"
                       THEN Smaller(RingFrames - Len(ring[Here]), MaxRefill) ELSE 0
    BY DEF Visit
  <1>2. TypeOK /\ Here \in Slots
    BY HereIsSlot DEF IInv
  <1>3. rpc' = "refill" => served < RefillStreamsPerRun /\ open[Here] # None
                           /\ RingFrames - Len(ring[Here]) >= RefillThreshold
    BY <1>1 DEF Due
  <1>4. wanted' \in 0..MaxRefill
    <2>1. /\ RefillThreshold \in 1..RingFrames /\ RingFrames \in Nat
          /\ MaxRefill \in Nat \ {0}
      BY StreamerAssumption
    <2>2. Len(ring[Here]) \in Nat
      BY <1>2 DEF TypeOK, FrameSeqs
    <2> QED  BY <1>1, <1>3, <2>1, <2>2 DEF Smaller
  <1>5. TypeOK'
    BY <1>1, <1>2, <1>4 DEF TypeOK, slotVars, audioVars
  <1>6. OwnSlot' /\ ClaimOrder'
    BY <1>1, ReaderKeepsOwners DEF IInv, slotVars, audioVars
  <1>7. Here' = Here
    BY <1>1 DEF Here
  <1>8. ReaderOrder'
    BY <1>1, <1>3, <1>7 DEF ReaderOrder, slotVars
  <1> QED  BY <1>5, <1>6, <1>8 DEF IInv

LEMMA PassKeeps ==
  ASSUME IInv, Pass \/ TakeNothing
  PROVE  IInv'
  <1>1. UNCHANGED <<slotVars, audioVars, open, wanted>> /\ NextVisit(served)
    BY DEF Pass, TakeNothing
  <1>2. TypeOK /\ served \in 0..RefillStreamsPerRun
    BY DEF IInv, TypeOK
  <1>3. /\ rpc' = "scan" /\ cursor' \in Slots /\ step' \in Slots
        /\ served' \in 0..RefillStreamsPerRun
    BY <1>1, <1>2, NextVisitType
  <1>4. TypeOK'
    BY <1>1, <1>2, <1>3 DEF TypeOK, slotVars, audioVars
  <1>5. OwnSlot' /\ ClaimOrder'
    BY <1>1, ReaderKeepsOwners DEF IInv, slotVars, audioVars
  <1> QED  BY <1>3, <1>4, <1>5, ScanNeedsNothing DEF IInv

LEMMA TakeRequestKeeps ==
  ASSUME IInv, TakeRequest
  PROVE  IInv'
  <1> DEFINE file == [sample |-> request[Here], next |-> FirstFrame]
  <1>1. /\ request[Here] # None
        /\ request' = [request EXCEPT ![Here] = None]
        /\ \/ open' = [open EXCEPT ![Here] = file]
           \/ open' = open
        /\ rpc' \in {"activate", "nofile"}
        /\ UNCHANGED <<state, ring, exhausted, audioVars, cursor, step, served, wanted>>
    BY DEF TakeRequest
  <1>2. TypeOK /\ Here \in Slots
    BY HereIsSlot DEF IInv
  <1>3. file \in Files
    BY <1>1, <1>2, StreamerAssumption DEF TypeOK, Files
  <1> HIDE DEF file
  <1>4. open' \in [Slots -> Files \cup {None}]
    BY <1>1, <1>2, <1>3 DEF TypeOK
  <1>5. TypeOK'
    BY <1>1, <1>2, <1>4 DEF TypeOK, audioVars
  <1>6. OwnSlot' /\ ClaimOrder'
    BY <1>1, ReaderKeepsOwners DEF IInv, audioVars
  <1>7. ReaderOrder'
    BY <1>1 DEF ReaderOrder
  <1> QED  BY <1>5, <1>6, <1>7 DEF IInv

LEMMA NoFileKeeps ==
  ASSUME IInv, NoFile
  PROVE  IInv'
  <1>1. /\ exhausted' = [exhausted EXCEPT ![Here] = TRUE] /\ rpc' = "activate"
        /\ UNCHANGED <<state, ring, request, audioVars, cursor, step, served, open, wanted>>
    BY DEF NoFile
  <1>2. TypeOK /\ Here \in Slots
    BY HereIsSlot DEF IInv
  <1>3. TypeOK'
    BY <1>1, <1>2 DEF TypeOK, audioVars
  <1>4. OwnSlot' /\ ClaimOrder'
    BY <1>1, ReaderKeepsOwners DEF IInv, audioVars
  <1>5. ReaderOrder'
    BY <1>1 DEF ReaderOrder
  <1> QED  BY <1>3, <1>4, <1>5 DEF IInv

(* The unconditional store of ACTIVE may revive a slot that was dropped    *)
(* meanwhile, but it never takes one from its owner. *)
LEMMA ActivateKeeps ==
  ASSUME IInv, Activate
  PROVE  IInv'
  <1>1. /\ state' = [state EXCEPT ![Here] = "active"] /\ NextVisit(served)
        /\ UNCHANGED <<ring, request, exhausted, audioVars, open, wanted>>
    BY DEF Activate
  <1>2. TypeOK /\ OwnSlot /\ Here \in Slots /\ served \in 0..RefillStreamsPerRun
    BY HereIsSlot DEF IInv, TypeOK
  <1>3. /\ rpc' = "scan" /\ cursor' \in Slots /\ step' \in Slots
        /\ served' \in 0..RefillStreamsPerRun
    BY <1>1, <1>2, NextVisitType
  <1> DEFINE h == Here
  <1>4. h \in Slots /\ state' = [state EXCEPT ![h] = "active"]
    BY <1>1, <1>2
  <1> HIDE DEF h
  <1>5. TypeOK'
    BY <1>1, <1>2, <1>3, <1>4 DEF TypeOK, audioVars
  <1>6. \A s \in Slots : state'[s] = state[s] \/ state'[s] = "active"
    BY <1>2, <1>4 DEF TypeOK
  <1>7. OwnSlot' /\ ClaimOrder'
    BY <1>1, <1>2, <1>6 DEF IInv, OwnSlot, Holders, ClaimOrder, audioVars
  <1> QED  BY <1>3, <1>5, <1>7, ScanNeedsNothing DEF IInv

LEMMA CloseFileKeeps ==
  ASSUME IInv, CloseFile
  PROVE  IInv'
  <1>1. /\ rpc = "close" /\ rpc' = "release"
        /\ open' = [open EXCEPT ![Here] = None]
        /\ ring' = [ring EXCEPT ![Here] = <<>>]
        /\ UNCHANGED <<state, request, exhausted, audioVars, cursor, step, served, wanted>>
    BY DEF CloseFile
  <1>2. TypeOK /\ Here \in Slots /\ <<>> \in FrameSeqs /\ Len(<<>>) <= RingFrames
    BY HereIsSlot, StreamerAssumption DEF IInv, FrameSeqs
  <1>3. TypeOK'
    BY <1>1, <1>2 DEF TypeOK, audioVars
  <1>4. OwnSlot' /\ ClaimOrder'
    BY <1>1, ReaderKeepsOwners DEF IInv, audioVars
  <1>5. Here' = Here
    BY <1>1 DEF Here
  <1>6. ReaderOrder'
    BY <1>1, <1>5 DEF IInv, ReaderOrder
  <1> QED  BY <1>3, <1>4, <1>6 DEF IInv

(* A slot is freed from `releasing`, where it has no owner. *)
LEMMA FreeSlotKeeps ==
  ASSUME IInv, FreeSlot
  PROVE  IInv'
  <1>1. /\ rpc = "release"
        /\ state' = [state EXCEPT ![Here] = "free"] /\ NextVisit(served)
        /\ UNCHANGED <<ring, request, exhausted, audioVars, open, wanted>>
    BY DEF FreeSlot
  <1>2. TypeOK /\ OwnSlot /\ Here \in Slots /\ served \in 0..RefillStreamsPerRun
    BY HereIsSlot DEF IInv, TypeOK
  <1>3. /\ rpc' = "scan" /\ cursor' \in Slots /\ step' \in Slots
        /\ served' \in 0..RefillStreamsPerRun
    BY <1>1, <1>2, NextVisitType
  <1>4. Holders(Here) = {}
    BY <1>1, ReclaimsAlone DEF OneConsumer
  <1> DEFINE h == Here
  <1>5. h \in Slots /\ state' = [state EXCEPT ![h] = "free"] /\ Holders(h) = {}
    BY <1>1, <1>2, <1>4
  <1> HIDE DEF h
  <1>6. TypeOK'
    BY <1>1, <1>2, <1>3, <1>5 DEF TypeOK, audioVars
  <1>7. \A s \in Slots : s # h => state'[s] = state[s]
    BY <1>2, <1>5 DEF TypeOK
  <1>8. OwnSlot' /\ ClaimOrder'
    BY <1>1, <1>2, <1>5, <1>7 DEF IInv, OwnSlot, Holders, ClaimOrder, audioVars
  <1> QED  BY <1>3, <1>6, <1>8, ScanNeedsNothing DEF IInv

(* Frames go into the ring, no more than it has room for, and the file     *)
(* moves on. *)
LEMMA RefillKeeps ==
  ASSUME IInv, Refill
  PROVE  IInv'
  <1>1. TypeOK /\ rpc = "refill" /\ Here \in Slots /\ open[Here] # None
        /\ served \in Nat /\ served < RefillStreamsPerRun
    BY HereIsSlot DEF IInv, TypeOK, ReaderOrder, Refill
  <1>2. PICK h \in Slots : h = Here
    BY <1>1
  <1> DEFINE file == open[h]
             room == RingFrames - Len(ring[h])
             pushed == Smaller(Available, room)
             added == Frames(file.sample, file.next, file.next + pushed)
             moved == [file EXCEPT !.next = file.next + pushed]
  <1>3. /\ Available > 0
        /\ ring' = [ring EXCEPT ![h] = ring[h] \o added]
        /\ open' = [open EXCEPT ![h] = moved]
        /\ \/ rpc' = "finish" /\ UNCHANGED <<cursor, step, served>>
           \/ NextVisit(served + 1)
        /\ UNCHANGED <<state, request, exhausted, audioVars, wanted>>
    BY <1>2 DEF Refill
  <1>4. file \in Files /\ ring[h] \in FrameSeqs /\ Len(ring[h]) <= RingFrames
    BY <1>1, <1>2 DEF TypeOK
  <1>5. file.sample \in Samples /\ file.next \in Nat
    BY <1>4 DEF Files
  <1>6. room \in Nat /\ Len(ring[h]) \in Nat /\ Len(ring[h]) + room = RingFrames
    BY <1>4, StreamerAssumption DEF FrameSeqs
  <1>7. pushed \in Nat /\ pushed <= room
    <2>1. Available \in Int
      BY <1>1, <1>2, <1>5, StreamerAssumption DEF Available, Smaller, TypeOK
    <2> HIDE DEF room
    <2> QED  BY <1>3, <1>6, <2>1 DEF Smaller
  <1> HIDE DEF pushed, room
  <1>8. /\ added \in FrameSeqs /\ Len(added) = pushed
    BY <1>5, <1>7, FramesType
  <1>9. moved \in Files
    BY <1>4, <1>5, <1>7 DEF Files
  <1> HIDE DEF added, moved
  <1>10. /\ ring[h] \o added \in FrameSeqs
         /\ Len(ring[h] \o added) = Len(ring[h]) + pushed
    <2> DEFINE F == Samples \X Nat
               q == ring[h]
    <2>1. q \in Seq(F) /\ added \in Seq(F) /\ Len(added) = pushed
      BY <1>4, <1>8 DEF FrameSeqs
    <2> HIDE DEF F, q
    <2>2. q \o added \in Seq(F) /\ Len(q \o added) = Len(q) + pushed
      BY <2>1
    <2> QED  BY <2>2 DEF FrameSeqs, F, q
  <1>11. Len(ring[h] \o added) <= RingFrames
    BY <1>6, <1>7, <1>10
  <1>12. /\ rpc' \in {"finish", "scan"} /\ cursor' \in Slots /\ step' \in Slots
         /\ served' \in 0..RefillStreamsPerRun
         /\ rpc' = "finish" => UNCHANGED <<cursor, step, served>>
    <2>1. served + 1 \in 0..RefillStreamsPerRun
      BY <1>1, StreamerAssumption
    <2>2. CASE rpc' = "finish" /\ UNCHANGED <<cursor, step, served>>
      BY <1>1, <2>2 DEF TypeOK
    <2>3. CASE NextVisit(served + 1)
      BY <1>1, <2>1, <2>3, NextVisitType
    <2> QED  BY <1>3, <2>2, <2>3
  <1>13. TypeOK'
    <2>1. ring' \in [Slots -> FrameSeqs] /\ \A s \in Slots : Len(ring'[s]) <= RingFrames
      BY <1>1, <1>3, <1>10, <1>11 DEF TypeOK
    <2>2. open' \in [Slots -> Files \cup {None}]
      BY <1>1, <1>3, <1>9 DEF TypeOK
    <2> QED  BY <1>1, <1>3, <1>12, <2>1, <2>2 DEF TypeOK, audioVars
  <1>14. OwnSlot' /\ ClaimOrder'
    BY <1>3, ReaderKeepsOwners DEF IInv, audioVars
  <1>15. ReaderOrder'
    <2>1. CASE rpc' = "finish"
      BY <1>1, <1>12, <2>1 DEF ReaderOrder
    <2>2. CASE rpc' = "scan"
      BY <2>2 DEF ReaderOrder
    <2> QED  BY <1>12, <2>1, <2>2
  <1> QED  BY <1>13, <1>14, <1>15 DEF IInv

LEMMA FinishKeeps ==
  ASSUME IInv, Finish
  PROVE  IInv'
  <1>1. /\ exhausted' = [exhausted EXCEPT ![Here] = TRUE] /\ NextVisit(served + 1)
        /\ UNCHANGED <<state, ring, request, audioVars, open, wanted>>
    BY DEF Finish
  <1>2. TypeOK /\ Here \in Slots /\ served + 1 \in 0..RefillStreamsPerRun
    BY HereIsSlot, StreamerAssumption DEF IInv, TypeOK, ReaderOrder, Finish
  <1>3. /\ rpc' = "scan" /\ cursor' \in Slots /\ step' \in Slots
        /\ served' \in 0..RefillStreamsPerRun
    BY <1>1, <1>2, NextVisitType
  <1>4. TypeOK'
    BY <1>1, <1>2, <1>3 DEF TypeOK, audioVars
  <1>5. OwnSlot' /\ ClaimOrder'
    BY <1>1, ReaderKeepsOwners DEF IInv, audioVars
  <1> QED  BY <1>3, <1>4, <1>5, ScanNeedsNothing DEF IInv

LEMMA NothingReadKeeps ==
  ASSUME IInv, NothingRead
  PROVE  IInv'
  <1>1. /\ exhausted' = [exhausted EXCEPT ![Here] = TRUE] /\ NextVisit(served)
        /\ UNCHANGED <<state, ring, request, audioVars, open, wanted>>
    BY DEF NothingRead
  <1>2. TypeOK /\ Here \in Slots /\ served \in 0..RefillStreamsPerRun
    BY HereIsSlot DEF IInv, TypeOK
  <1>3. /\ rpc' = "scan" /\ cursor' \in Slots /\ step' \in Slots
        /\ served' \in 0..RefillStreamsPerRun
    BY <1>1, <1>2, NextVisitType
  <1>4. TypeOK'
    BY <1>1, <1>2, <1>3 DEF TypeOK, audioVars
  <1>5. OwnSlot' /\ ClaimOrder'
    BY <1>1, ReaderKeepsOwners DEF IInv, audioVars
  <1> QED  BY <1>3, <1>4, <1>5, ScanNeedsNothing DEF IInv

LEMMA StopKeeps ==
  ASSUME IInv, Stop
  PROVE  IInv'
  <1>1. /\ rpc' = "stopped"
        /\ UNCHANGED <<slotVars, audioVars, cursor, step, served, open, wanted>>
    BY DEF Stop
  <1>2. TypeOK'
    BY <1>1 DEF IInv, TypeOK, slotVars, audioVars
  <1>3. OwnSlot' /\ ClaimOrder'
    BY <1>1, ReaderKeepsOwners DEF IInv, slotVars, audioVars
  <1>4. ReaderOrder'
    BY <1>1 DEF ReaderOrder
  <1> QED  BY <1>2, <1>3, <1>4 DEF IInv
-----------------------------------------------------------------------------
LEMMA StepIInv ==
  ASSUME IInv, [Next]_vars
  PROVE  IInv'
  <1>1. CASE AudioNext
    <2>1. CASE \E v \in Voices, s \in Slots, sample \in Samples : ClaimSlot(v, s, sample)
      BY <2>1, ClaimSlotKeeps
    <2>2. CASE ClaimNext
      BY <2>2, ClaimClearKeeps, ClaimResetKeeps, ClaimRequestKeeps DEF ClaimNext
    <2>3. CASE \E v \in Voices, n \in 1..RingFrames : Read(v, n)
      BY <2>3, ReadKeeps
    <2>4. CASE \E v \in Voices : Drop(v)
      BY <2>4, DropKeeps
    <2>5. CASE Shutdown
      BY <2>5, ShutdownKeeps
    <2> QED  BY <1>1, <2>1, <2>2, <2>3, <2>4, <2>5 DEF AudioNext
  <1>2. CASE ReaderNext
    BY <1>2, VisitKeeps, PassKeeps, TakeRequestKeeps, NoFileKeeps, ActivateKeeps,
       CloseFileKeeps, FreeSlotKeeps, RefillKeeps, FinishKeeps, NothingReadKeeps,
       StopKeeps DEF ReaderNext
  <1>3. CASE UNCHANGED vars
    BY <1>3 DEF IInv, TypeOK, OwnSlot, Holders, ClaimOrder, ReaderOrder, Here,
       vars, slotVars, audioVars, readerVars
  <1> QED  BY <1>1, <1>2, <1>3 DEF Next

LEMMA Invariance == Spec => []IInv
  <1>1. Init => IInv  BY InitIInv
  <1>2. IInv /\ [Next]_vars => IInv'  BY StepIInv
  <1> QED  BY <1>1, <1>2, PTL DEF Spec
-----------------------------------------------------------------------------
(* Types, the capacity of every ring and the share of a pass, for every    *)
(* pool and any interleaving of the two threads. *)
THEOREM TypeCorrect == Spec => []TypeOK
  <1>1. IInv => TypeOK  BY DEF IInv
  <1> QED  BY <1>1, Invariance, PTL

(* No two voices ever hold the same slot, and a held slot is never free    *)
(* for a claim or being reclaimed. *)
THEOREM SlotsHaveOneOwner == Spec => []OwnSlot
  <1>1. IInv => OwnSlot  BY DEF IInv
  <1> QED  BY <1>1, Invariance, PTL

(* The reader only clears a ring nobody else pops. *)
THEOREM RingsHaveOneConsumer == Spec => []OneConsumer
  <1>1. IInv => OneConsumer  BY ReclaimsAlone
  <1> QED  BY <1>1, Invariance, PTL
=============================================================================
