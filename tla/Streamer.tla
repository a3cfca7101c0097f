------------------------------ MODULE Streamer ------------------------------
(***************************************************************************)
(* crates/rf-soundfonts-engine/src/streamer.rs: the pool of streams that   *)
(* the audio thread claims, reads and drops, and the background thread     *)
(* that opens, refills and reclaims them.                                  *)
(*                                                                         *)
(* Two threads.  The audio thread runs claim, read and drop, one at a      *)
(* time; the reader runs `run`, slot after slot.  Each atomic store, each  *)
(* take under the request's lock and each ring transfer is a step, so the  *)
(* threads interleave between any two of them.  A ring transfer is one     *)
(* step because SpscRing implements BoundedFifo; a frame is one value      *)
(* because the reader only pushes whole frames into room it was promised   *)
(* (RoomIsKept of SpscRing).                                               *)
(*                                                                         *)
(* The condition variable is not modelled: the reader naps with a timeout  *)
(* and never tests `pending`, so a wake, lost or not, only shortens a nap. *)
(***************************************************************************)
EXTENDS Integers, Sequences

CONSTANTS
  MaxStreams,           \* slots in the pool
  RefillStreamsPerRun,  \* streams topped up per pass
  RingFrames,           \* frames a ring holds
  RefillThreshold,      \* free frames below which a stream is left alone
  MaxRefill,            \* frames moved into one stream in one pass
  Voices,               \* voices that may ask for a stream
  Samples,              \* samples with a cache file
  FirstFrame,           \* first_frame: the length of the resident head
  FrameCount,           \* frames in a sample
  EarlyDrop,            \* may a voice end before its request is picked up?
  Faults,               \* what may fail: "open", "read"
  None                  \* no voice, no request, no file, no claim

ASSUME StreamerAssumption ==
  /\ MaxStreams \in Nat \ {0} /\ RefillStreamsPerRun \in Nat \ {0}
  /\ RingFrames \in Nat \ {0} /\ MaxRefill \in Nat \ {0}
  /\ RefillThreshold \in 1..RingFrames
  /\ FirstFrame \in Nat /\ FrameCount \in Nat /\ FirstFrame <= FrameCount
  /\ EarlyDrop \in BOOLEAN
  /\ Faults \subseteq {"open", "read"}
  /\ None \notin Samples

VARIABLES
  state,      \* Slot.state: "free", "claimed", "active", "releasing"
  ring,       \* Slot.ring: the frames buffered
  request,    \* Slot.request: the sample asked for, or None
  exhausted,  \* Slot.exhausted
  voice,      \* audio thread: each voice's StreamReader, or None
  claim,      \* audio thread: the claim under way, or None
  running,    \* Shared.running
  rpc,        \* reader: where `run` stands
  cursor,     \* reader: the slot its pass starts at
  step,       \* reader: slots already visited in this pass
  served,     \* reader: streams refilled in this pass
  open,       \* reader: the open file of each slot, or None
  wanted      \* reader: frames it is about to read

slotVars == <<state, ring, request, exhausted>>
audioVars == <<voice, claim, running>>
readerVars == <<rpc, cursor, step, served, open, wanted>>
vars == <<slotVars, audioVars, readerVars>>

Slots == 0..(MaxStreams - 1)
Smaller(a, b) == IF a < b THEN a ELSE b
Frames(sample, from, to) == [i \in 1..(to - from) |-> <<sample, from + i - 1>>]

Init ==
  /\ state = [s \in Slots |-> "free"]
  /\ ring = [s \in Slots |-> <<>>]
  /\ request = [s \in Slots |-> None]
  /\ exhausted = [s \in Slots |-> FALSE]
  /\ voice = [v \in Voices |-> None]
  /\ claim = None
  /\ running = TRUE
  /\ rpc = "scan" /\ cursor = 0 /\ step = 0 /\ served = 0
  /\ open = [s \in Slots |-> None]
  /\ wanted = 0
-----------------------------------------------------------------------------
(* The audio thread.                                                       *)

(* A claim that takes any slot the reader is not filling. *)
ClaimInactive(v, s, sample) ==
  /\ running /\ claim = None /\ voice[v] = None
  /\ state[s] \in {"free", "releasing"}
  /\ state' = [state EXCEPT ![s] = "claimed"]
  /\ claim' = [at |-> "clear", voice |-> v, slot |-> s, sample |-> sample]
  /\ UNCHANGED <<ring, request, exhausted, voice, running, readerVars>>

(* Streamer::claim, the compare_exchange.  The loop takes the first slot   *)
(* it finds free; as slots may come free behind it, any free slot will do. *)
ClaimSlot(v, s, sample) ==
  /\ running /\ claim = None /\ voice[v] = None
  /\ state[s] = "free"
  /\ state' = [state EXCEPT ![s] = "claimed"]
  /\ claim' = [at |-> "clear", voice |-> v, slot |-> s, sample |-> sample]
  /\ UNCHANGED <<ring, request, exhausted, voice, running, readerVars>>

(* slot.ring.clear() *)
ClaimClear ==
  /\ claim # None /\ claim.at = "clear"
  /\ ring' = [ring EXCEPT ![claim.slot] = <<>>]
  /\ claim' = [claim EXCEPT !.at = "exhausted"]
  /\ UNCHANGED <<state, request, exhausted, voice, running, readerVars>>

(* A claim that forgets the flag of the slot's previous stream. *)
ForgetReset ==
  /\ claim # None /\ claim.at = "exhausted"
  /\ claim' = [claim EXCEPT !.at = "request"]
  /\ UNCHANGED <<state, ring, request, exhausted, voice, running, readerVars>>

(* slot.exhausted.store(false) *)
ClaimReset ==
  /\ claim # None /\ claim.at = "exhausted"
  /\ exhausted' = [exhausted EXCEPT ![claim.slot] = FALSE]
  /\ claim' = [claim EXCEPT !.at = "request"]
  /\ UNCHANGED <<state, ring, request, voice, running, readerVars>>

(* *request = Some(..) under its lock; the voice now holds the stream. *)
ClaimRequest ==
  /\ claim # None /\ claim.at = "request"
  /\ request' = [request EXCEPT ![claim.slot] = claim.sample]
  /\ voice' = [voice EXCEPT ![claim.voice] =
                 [slot |-> claim.slot, sample |-> claim.sample, got |-> <<>>]]
  /\ claim' = None
  /\ UNCHANGED <<state, ring, exhausted, running, readerVars>>

(* StreamReader::read.  A short read changes nothing but the diagnostics;  *)
(* a pop that sees an older write index takes fewer frames than there are. *)
Read(v, n) ==
  /\ claim = None /\ voice[v] # None
  /\ LET s == voice[v].slot
     IN /\ n <= Len(ring[s])
        /\ voice' = [voice EXCEPT ![v].got = @ \o SubSeq(ring[s], 1, n)]
        /\ ring' = [ring EXCEPT ![s] = SubSeq(@, n + 1, Len(@))]
  /\ UNCHANGED <<state, request, exhausted, claim, running, readerVars>>

(* A drop that frees the slot itself, past the reader. *)
DropFree(v) ==
  /\ claim = None /\ voice[v] # None
  /\ state' = [state EXCEPT ![voice[v].slot] = "free"]
  /\ voice' = [voice EXCEPT ![v] = None]
  /\ UNCHANGED <<ring, request, exhausted, claim, running, readerVars>>

(* impl Drop for StreamReader.  A voice can end at any moment: a fade, a   *)
(* stolen voice, an error in the rest of its note. *)
Drop(v) ==
  /\ claim = None /\ voice[v] # None
  /\ EarlyDrop \/ state[voice[v].slot] = "active"
  /\ state' = [state EXCEPT ![voice[v].slot] = "releasing"]
  /\ voice' = [voice EXCEPT ![v] = None]
  /\ UNCHANGED <<ring, request, exhausted, claim, running, readerVars>>

(* impl Drop for Streamer: the flag; the join is the reader's Stop. *)
Shutdown ==
  /\ running /\ claim = None
  /\ running' = FALSE
  /\ UNCHANGED <<slotVars, voice, claim, readerVars>>
-----------------------------------------------------------------------------
(* The reader thread.                                                      *)

Here == (cursor + step) % MaxStreams

(* A cursor that runs past the pool. *)
UnwrappedVisit(servedNow) ==
  /\ rpc' = "scan"
  /\ IF step + 1 < MaxStreams
       THEN /\ step' = step + 1 /\ served' = servedNow
            /\ UNCHANGED cursor
       ELSE /\ step' = 0 /\ served' = 0
            /\ cursor' = cursor + RefillStreamsPerRun

(* On to the next slot; after the last one the cursor moves on, so that    *)
(* the next pass starts with other streams. *)
NextVisit(servedNow) ==
  /\ rpc' = "scan"
  /\ IF step + 1 < MaxStreams
       THEN /\ step' = step + 1 /\ served' = servedNow
            /\ UNCHANGED cursor
       ELSE /\ step' = 0 /\ served' = 0
            /\ cursor' = (cursor + RefillStreamsPerRun) % MaxStreams

Scanning == rpc = "scan" /\ (step = 0 => running)

(* Whether an active slot is refilled in this visit. *)
Due(s) ==
  /\ served < RefillStreamsPerRun
  /\ open[s] # None
  /\ RingFrames - Len(ring[s]) >= RefillThreshold

(* The load of Slot.state and the match on it. *)
Visit ==
  /\ Scanning
  /\ CASE state[Here] = "claimed" -> rpc' = "take"
       [] state[Here] = "releasing" -> rpc' = "close"
       [] state[Here] = "active" /\ Due(Here) -> rpc' = "refill"
       [] OTHER -> FALSE
  /\ wanted' = IF rpc' = "refill"
                 THEN Smaller(RingFrames - Len(ring[Here]), MaxRefill) ELSE 0
  /\ UNCHANGED <<slotVars, audioVars, cursor, step, served, open>>

Pass ==
  /\ Scanning
  /\ \/ state[Here] = "free"
     \/ state[Here] = "active" /\ ~Due(Here)
  /\ NextVisit(served)
  /\ UNCHANGED <<slotVars, audioVars, open, wanted>>

(* Slot.request.lock().take(): a claim still on its way has not filled it. *)
TakeNothing ==
  /\ rpc = "take" /\ request[Here] = None
  /\ NextVisit(served)
  /\ UNCHANGED <<slotVars, audioVars, open, wanted>>

TakeRequest ==
  /\ rpc = "take" /\ request[Here] # None
  /\ request' = [request EXCEPT ![Here] = None]
  /\ \/ /\ open' = [open EXCEPT ![Here] =
                      [sample |-> request[Here], next |-> FirstFrame]]
        /\ rpc' = "activate"
     \/ /\ "open" \in Faults
        /\ rpc' = "nofile"
        /\ UNCHANGED open
  /\ UNCHANGED <<state, ring, exhausted, audioVars, cursor, step, served, wanted>>

(* A missing file that leaves the voice waiting. *)
SilentNoFile ==
  /\ rpc = "nofile"
  /\ rpc' = "activate"
  /\ UNCHANGED <<slotVars, audioVars, cursor, step, served, open, wanted>>

(* Nothing can be delivered: marked finished so the voice stops. *)
NoFile ==
  /\ rpc = "nofile"
  /\ exhausted' = [exhausted EXCEPT ![Here] = TRUE]
  /\ rpc' = "activate"
  /\ UNCHANGED <<state, ring, request, audioVars, cursor, step, served, open, wanted>>

(* The unconditional state.store(ACTIVE). *)
Activate ==
  /\ rpc = "activate"
  /\ state' = [state EXCEPT ![Here] = "active"]
  /\ NextVisit(served)
  /\ UNCHANGED <<ring, request, exhausted, audioVars, open, wanted>>

(* A slot freed before its file is closed and its ring cleared. *)
FreeFirst ==
  /\ rpc = "close"
  /\ state' = [state EXCEPT ![Here] = "free"]
  /\ open' = [open EXCEPT ![Here] = None]
  /\ rpc' = "release"
  /\ UNCHANGED <<ring, request, exhausted, audioVars, cursor, step, served, wanted>>

(* RELEASING: open.remove and ring.clear, then the slot is free. *)
CloseFile ==
  /\ rpc = "close"
  /\ open' = [open EXCEPT ![Here] = None]
  /\ ring' = [ring EXCEPT ![Here] = <<>>]
  /\ rpc' = "release"
  /\ UNCHANGED <<state, request, exhausted, audioVars, cursor, step, served, wanted>>

(* A slot that is closed and never given back. *)
KeepSlot ==
  /\ rpc = "release"
  /\ NextVisit(served)
  /\ UNCHANGED <<slotVars, audioVars, open, wanted>>

(* The store of FREE. *)
FreeSlot ==
  /\ rpc = "release"
  /\ state' = [state EXCEPT ![Here] = "free"]
  /\ NextVisit(served)
  /\ UNCHANGED <<ring, request, exhausted, audioVars, open, wanted>>

(* read_frames and push_slice.  Nothing left to read, or a failed read,    *)
(* ends the stream and does not count as service. *)
Available == Smaller(wanted, FrameCount - open[Here].next)

Refill ==
  /\ rpc = "refill" /\ Available > 0
  /\ LET file == open[Here]
         pushed == Smaller(Available, RingFrames - Len(ring[Here]))
     IN /\ ring' = [ring EXCEPT ![Here] =
                      @ \o Frames(file.sample, file.next, file.next + pushed)]
        /\ open' = [open EXCEPT ![Here].next = @ + pushed]
        /\ IF file.next + pushed >= FrameCount
             THEN rpc' = "finish" /\ UNCHANGED <<cursor, step, served>>
             ELSE NextVisit(served + 1)
  /\ UNCHANGED <<state, request, exhausted, audioVars, wanted>>

(* The last frame is in the ring: exhausted.store(true) after the push. *)
Finish ==
  /\ rpc = "finish"
  /\ exhausted' = [exhausted EXCEPT ![Here] = TRUE]
  /\ NextVisit(served + 1)
  /\ UNCHANGED <<state, ring, request, audioVars, open, wanted>>

NothingRead ==
  /\ rpc = "refill"
  /\ Available = 0 \/ "read" \in Faults
  /\ exhausted' = [exhausted EXCEPT ![Here] = TRUE]
  /\ NextVisit(served)
  /\ UNCHANGED <<state, ring, request, audioVars, open, wanted>>

(* A reader that waits for its streams before it stops. *)
DrainThenStop ==
  /\ rpc = "scan" /\ step = 0 /\ ~running
  /\ \A s \in Slots : state[s] = "free"
  /\ rpc' = "stopped"
  /\ UNCHANGED <<slotVars, audioVars, cursor, step, served, open, wanted>>

(* The test of Shared.running at the head of the loop. *)
Stop ==
  /\ rpc = "scan" /\ step = 0 /\ ~running
  /\ rpc' = "stopped"
  /\ UNCHANGED <<slotVars, audioVars, cursor, step, served, open, wanted>>
-----------------------------------------------------------------------------
ClaimNext == ClaimClear \/ ClaimReset \/ ClaimRequest

AudioNext ==
  \/ \E v \in Voices, s \in Slots, sample \in Samples : ClaimSlot(v, s, sample)
  \/ ClaimNext
  \/ \E v \in Voices, n \in 1..RingFrames : Read(v, n)
  \/ \E v \in Voices : Drop(v)
  \/ Shutdown

ReaderNext ==
  \/ Visit \/ Pass
  \/ TakeNothing \/ TakeRequest \/ NoFile \/ Activate
  \/ CloseFile \/ FreeSlot
  \/ Refill \/ Finish \/ NothingRead
  \/ Stop

Next == AudioNext \/ ReaderNext

(* Both threads run.  Strong fairness for reads: the audio thread is       *)
(* sometimes busy with a claim, but every block it renders reads every     *)
(* sounding voice. *)
Fairness ==
  /\ WF_vars(ReaderNext)
  /\ WF_vars(ClaimNext)
  /\ \A v \in Voices : SF_vars(\E n \in 1..RingFrames : Read(v, n))

Spec == Init /\ [][Next]_vars
FairSpec == Spec /\ Fairness
-----------------------------------------------------------------------------
(* Properties.                                                             *)

(* Every variable has its type: a ring never holds more than it can, and a *)
(* pass never refills more streams than its share. *)
FrameSeqs == Seq(Samples \X Nat)
Streams == [slot : Slots, sample : Samples, got : FrameSeqs]
Claims == [at : {"clear", "exhausted", "request"},
           voice : Voices, slot : Slots, sample : Samples]
Files == [sample : Samples, next : Nat]
Views == [sample : Samples, got : FrameSeqs, ended : BOOLEAN]

\* Option's None is no stream, nor a claim, nor an open file.
ASSUME NoneAssumption == None \notin Streams \cup Claims \cup Files \cup Views

TypeOK ==
  /\ state \in [Slots -> {"free", "claimed", "active", "releasing"}]
  /\ ring \in [Slots -> FrameSeqs]
  /\ \A s \in Slots : Len(ring[s]) <= RingFrames
  /\ request \in [Slots -> Samples \cup {None}]
  /\ exhausted \in [Slots -> BOOLEAN]
  /\ voice \in [Voices -> Streams \cup {None}]
  /\ claim \in Claims \cup {None}
  /\ running \in BOOLEAN
  /\ rpc \in {"scan", "take", "nofile", "activate", "close", "release",
              "refill", "finish", "stopped"}
  /\ cursor \in Slots /\ step \in Slots
  /\ served \in 0..RefillStreamsPerRun
  /\ open \in [Slots -> Files \cup {None}]
  /\ wanted \in 0..MaxRefill

(* The voices whose stream, held or on its way, is slot s. *)
Holders(s) ==
  {v \in Voices : \/ voice[v] # None /\ voice[v].slot = s
                  \/ claim # None /\ claim.voice = v /\ claim.slot = s}

(* A slot has one owner: two voices never hold the same slot, whatever the *)
(* reader is doing, and a slot a voice holds is neither free for another   *)
(* claim nor being reclaimed. *)
OwnSlot ==
  \A s \in Slots :
    /\ \A v, w \in Holders(s) : v = w
    /\ Holders(s) # {} => state[s] \in {"claimed", "active"}

(* The ring's single-consumer contract: when the reader clears a ring to   *)
(* reclaim its slot, no voice and no claim pops or clears it. *)
OneConsumer == rpc \in {"close", "release"} => Holders(Here) = {}

(* What a voice has heard from its stream is one sample's consecutive      *)
(* frames, none repeated, skipped or out of order, even when an early drop *)
(* has left the slot with another voice's request. *)
Unbroken ==
  \A v \in Voices : voice[v] # None =>
    \E sample \in Samples, first \in FirstFrame..FrameCount :
      voice[v].got = Frames(sample, first, first + Len(voice[v].got))

(* A voice only ever hears the sample it asked for. *)
OwnAudio ==
  \A v \in Voices : voice[v] # None =>
    \A i \in DOMAIN voice[v].got : voice[v].got[i][1] = voice[v].sample

(* A slot that is in use has an owner: a stream is never leaked. *)
NoOrphan == \A s \in Slots : state[s] = "active" => Holders(s) # {}

(* The pool as the voices see it: StreamReader::is_exhausted is the end.   *)
View(v) ==
  IF voice[v] = None THEN None
  ELSE [sample |-> voice[v].sample, got |-> voice[v].got,
        ended |-> exhausted[voice[v].slot] /\ ring[voice[v].slot] = <<>>]

(* A stream that has ended has ended: a read that fails "ends the note".   *)
EndIsTheEnd ==
  [][\A v \in Voices : voice[v] # None /\ voice'[v] # None /\ View(v).ended => View(v)'.ended]_vars

Play == [v \in Voices |-> View(v)]

Pool == INSTANCE StreamPool WITH NoVoice <- None, play <- Play

(* With voices that outlive their pick-up, the two threads together are    *)
(* the pool of StreamPool: every frame once and in order, and the end only *)
(* after the last frame or after a file that would not open. *)
ImplementsPool == Pool!Spec

(* A stream is served to its end: a voice that claimed one drains it to    *)
(* exhaustion unless it is dropped or the streamer shuts down first; no    *)
(* stream is starved by the others, none waits for a file that is gone. *)
Ended(v) ==
  \/ voice[v] = None
  \/ ~running
  \/ exhausted[voice[v].slot] /\ ring[voice[v].slot] = <<>>

EveryStreamEnds == \A v \in Voices : voice[v] # None ~> Ended(v)

(* A dropped stream's slot becomes free again while the reader runs. *)
EverySlotReturns ==
  \A s \in Slots : state[s] = "releasing" ~> state[s] = "free" \/ ~running

(* Streamer's drop joins the reader, so the reader must leave its loop. *)
ShutdownJoins == ~running ~> rpc = "stopped"
=============================================================================
