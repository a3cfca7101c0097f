------------------------------- MODULE Voice -------------------------------
(***************************************************************************)
(* crates/rf-soundfonts-engine/src/lib.rs: one voice, from the key press   *)
(* to its end, frame by frame.                                             *)
(*                                                                         *)
(* The playback cursor is counted in parts of a frame, so that it falls    *)
(* between frames as it does in the code.  Bend, pitch envelope and LFO    *)
(* are an increment chosen for each frame.  A level is not a number: the   *)
(* amplitude envelope is its phase and the frames left in it, a fade is    *)
(* the frames it has left (fade_level / fade_step), and a release takes    *)
(* any time up to its longest, as the level it starts from decides.        *)
(* A fade loses one step of its level with each frame; what the float's    *)
(* rounding makes of many small steps (a rest of far less than a step, for *)
(* one frame more) is left out.                                            *)
(***************************************************************************)
EXTENDS Naturals, Sequences

CONSTANTS
  Parts,          \* cursor positions per frame
  Increments,     \* increments after bend, envelope and LFO
  Fades,          \* frames of the fades that may be asked for
  DeclickParts    \* END_DECLICK_SECONDS at the output rate, in parts of a frame

ASSUME VoiceAssumption ==
  /\ Parts \in Nat \ {0} /\ DeclickParts \in Nat
  /\ Increments \subseteq Nat \ {0} /\ Fades \subseteq Nat \ {0}

VARIABLES
  wave,                   \* [frames, head, stream, loop]: head is what is in memory,
                          \* stream "none", "busy" or "open", loop <<start, end>> or <<>>
  base,                   \* base_increment
  envelope,               \* [attack, decay, full, release]: frames, and whether it
                          \* sustains at the full level
  position,
  phase, left,            \* amplitude envelope: phase and frames left in it
  fade,                   \* frames the forced fade has left, 0 if there is none
  finished,
  read,                   \* the frame last read: index, next and what was heard
  ranOut,                 \* history: the sample ended before the voice was silent
  hurried,                \* history: the pitch was raised
  cutShort                \* history: a fade was asked for, or the sample is shorter than one

voiceVars == <<wave, base, envelope, position, phase, left, fade, finished, read, ranOut,
               hurried, cutShort>>

NoWave == [frames |-> 0, head |-> 0, stream |-> "none", loop |-> <<>>]
NoEnvelope == [attack |-> 0, decay |-> 0, full |-> TRUE, release |-> 0]
Nothing == [index |-> 0, next |-> 0, heard |-> "nothing"]
Looped == wave.loop # <<>>
End == IF Looped THEN wave.loop[2] ELSE wave.frames
Started == wave # NoWave
Over == finished \/ phase = "finished"
Sounding == Started /\ ~Over
-----------------------------------------------------------------------------
VoiceInit ==
  /\ wave = NoWave /\ base = 1 /\ envelope = NoEnvelope
  /\ position = 0 /\ phase = "attack" /\ left = 0 /\ fade = 0 /\ finished = FALSE
  /\ read = Nothing /\ ranOut = FALSE /\ hurried = FALSE /\ cutShort = FALSE

\* enter_decay: a decay of no frames, or to the full level, is a sustain.
EnterDecay(e) ==
  IF e.decay = 0 \/ e.full THEN phase' = "sustain" /\ left' = 0
  ELSE phase' = "decay" /\ left' = e.decay

\* A bug to catch: a loop is accepted that runs past what the voice can read.
AnyLoop(w) == w.loop # <<>> => w.loop[1] < w.loop[2]

\* from_wave: a loop lies within the audio in memory, the head if the rest is streamed.
ValidLoop(w) == w.loop # <<>> => w.loop[1] < w.loop[2] /\ w.loop[2] <= w.head

\* fade_out's round and max: 220.5 frames are 221, and no fade takes less than one.
DeclickFrames ==
  LET rounded == (2 * DeclickParts + Parts) \div (2 * Parts)
  IN IF rounded = 0 THEN 1 ELSE rounded

\* from_wave or from_streamed, then start_at_frame.
StartVoice(w, b, e, start) ==
  /\ ~Started
  /\ wave' = w /\ base' = b /\ envelope' = e /\ position' = start * Parts
  /\ IF e.attack = 0 THEN EnterDecay(e) ELSE phase' = "attack" /\ left' = e.attack
  /\ cutShort' = (w.frames * Parts < start * Parts + DeclickFrames * b)
  /\ UNCHANGED <<fade, finished, read, ranOut, hurried>>

NoteOff ==
  /\ Started /\ phase \notin {"release", "finished"}
  /\ \E frames \in 0..envelope.release :
       IF frames = 0 THEN phase' = "finished" /\ left' = 0
       ELSE phase' = "release" /\ left' = frames
  /\ UNCHANGED <<wave, base, envelope, position, fade, finished, read, ranOut, hurried,
                 cutShort>>

\* A bug to catch: every request starts the fade over.
RestartedFade(now, frames) == frames

\* fade_out: a fade under way is never made slower.
FadeOut(now, frames) == IF now = 0 \/ frames < now THEN frames ELSE now

AskToFade(frames) ==
  /\ Sounding
  /\ fade' = FadeOut(fade, frames) /\ cutShort' = TRUE
  /\ UNCHANGED <<wave, base, envelope, position, phase, left, finished, read, ranOut, hurried>>
-----------------------------------------------------------------------------
(* next_frame_modulated                                                       *)

\* frames_left <= END_DECLICK_SECONDS * output_rate, or so many frames later: the frames
\* left at the base increment, against the time as it is, before fade_out rounds it.
NearEnd(later) == (End * Parts + later * base) * Parts <= position * Parts + DeclickParts * base

\* A bug to catch: the fade starts one frame late.
LateDeclick ==
  IF ~Looped /\ fade = 0 /\ NearEnd(1)
  THEN FadeOut(fade, DeclickFrames) ELSE fade

\* The fade that softens the end of a sample that does not loop.
Declick ==
  IF ~Looped /\ fade = 0 /\ NearEnd(0)
  THEN FadeOut(fade, DeclickFrames) ELSE fade

\* Where the cursor is read: past the loop's end, the remainder of its length.
Cursor ==
  IF Looped /\ position >= End * Parts
  THEN wave.loop[1] * Parts
         + ((position - End * Parts) % ((wave.loop[2] - wave.loop[1]) * Parts))
  ELSE position

RunsOut == ~Looped /\ position >= End * Parts

\* frame_at: from memory, or from the stream, which may not have it yet.
FrameAt(frame) ==
  IF frame < wave.head THEN {"audio"}
  ELSE IF wave.stream = "open" THEN {"audio", "silence"} ELSE {"silence"}

\* The envelope advances once per frame.
AdvanceEnvelope ==
  CASE phase = "attack" /\ left = 1 -> EnterDecay(envelope)
    [] phase = "decay" /\ left = 1 -> phase' = "sustain" /\ left' = 0
    [] phase = "release" /\ left = 1 -> phase' = "finished" /\ left' = 0
    [] phase = "sustain" -> UNCHANGED <<phase, left>>
    [] OTHER -> left' = left - 1 /\ UNCHANGED phase

Render(increment) ==
  /\ Sounding /\ ~RunsOut
  /\ LET index == Cursor \div Parts IN
     \E heard \in FrameAt(index) :
       read' = [index |-> index, heard |-> heard,
                next |-> IF index + 1 < End THEN index + 1
                         ELSE IF Looped THEN wave.loop[1] ELSE index]
  /\ position' = Cursor + increment
  /\ fade' = IF Declick = 0 THEN 0 ELSE Declick - 1
  /\ finished' = (Declick = 1)
  /\ hurried' = (hurried \/ increment > base)
  /\ AdvanceEnvelope
  /\ UNCHANGED <<wave, base, envelope, ranOut, cutShort>>

RunOut ==
  /\ Sounding /\ RunsOut
  /\ finished' = TRUE /\ ranOut' = TRUE /\ fade' = Declick
  /\ UNCHANGED <<wave, base, envelope, position, phase, left, read, hurried, cutShort>>

NextFrame == RunOut \/ \E increment \in Increments : Render(increment)

\* The pool drops the voice that is over; its place is another's.
Discard ==
  /\ Started /\ Over
  /\ wave' = NoWave /\ base' = 1
  /\ envelope' = NoEnvelope
  /\ position' = 0 /\ phase' = "attack" /\ left' = 0 /\ fade' = 0 /\ finished' = FALSE
  /\ read' = Nothing /\ ranOut' = FALSE /\ hurried' = FALSE /\ cutShort' = FALSE

\* What a voice is started with: a sample of which all or the head is in memory.
Samples ==
  [frames : Nat \ {0}, head : Nat, stream : {"none", "busy", "open"},
   loop : {<<>>} \cup (Nat \X Nat)]

\* Key presses start voices where their sample has audio.
Begin ==
  /\ wave' \in Samples /\ ValidLoop(wave') /\ wave'.head <= wave'.frames /\ base' \in Nat
  /\ \E start \in 0..wave'.frames - 1 : StartVoice(wave', base', envelope', start)

VoiceNext == NoteOff \/ (\E frames \in Fades : AskToFade(frames)) \/ NextFrame \/ Discard

\* A voice on its own, whatever instrument starts it.
VoiceSpec == VoiceInit /\ [][VoiceNext \/ Begin]_voiceVars
-----------------------------------------------------------------------------
(* Correctness.                                                               *)

\* A voice reads its own sample only: the frame and its neighbour are in it, in a loop
\* never past the loop's end and always in memory, and silence is heard in place of
\* audio only beyond the head.
VoiceReadsItsSample ==
  read # Nothing =>
    /\ read.index < End /\ read.next < End
    /\ read.next # read.index + 1 /\ Looped => read.next = wave.loop[1]
    /\ Looped => read.heard = "audio"
    /\ read.heard = "silence" => read.index >= wave.head

\* How many steps of its level the end fade can lack: one if fade_out has made it longer
\* than END_DECLICK_SECONDS, by rounding up, else none.
Shortfall == IF DeclickFrames * Parts > DeclickParts THEN 1 ELSE 0

\* A sample that runs out is all but faded by its own end fade: of the steps of its level
\* at most the last is cut off, and that only where the fade is longer than its time - unless
\* the pitch was raised, another fade was asked for, or the sample is shorter than it.
RunsOutFaded == ranOut => hurried \/ cutShort \/ fade <= Shortfall

\* The doc of END_DECLICK_SECONDS: a fade as a sample runs out, "so its final frame is
\* never a step".  The voice is silent before the sample ends.
RunsOutSilently == ranOut => hurried \/ cutShort

\* The same of a voice whose pitch was raised, all but for that last step: the sample
\* "must not cut mid-waveform" (next_frame_modulated).
RunsOutFadedAtAnyPitch == ranOut => cutShort \/ fade <= 1

\* A voice that is released, fades or does not loop comes to its end, however often it
\* is asked to fade again, because the pool renders every voice it holds.
VoiceEnds ==
  (Started /\ (phase = "release" \/ fade > 0 \/ ~Looped)) ~> (~Started \/ Over)

\* Whatever instrument it is struck on, a voice is one that StartVoice accepts, moves as a
\* voice on its own does, and comes to its end.
VoiceRunsItsCourse == VoiceSpec /\ VoiceEnds
=============================================================================
