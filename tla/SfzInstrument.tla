--------------------------- MODULE SfzInstrument ---------------------------
(***************************************************************************)
(* crates/rf-soundfonts-engine/src/sfz/instrument.rs: an SFZ document made *)
(* an instrument, and the voices a key starts on it.                       *)
(*                                                                         *)
(* Levels, stereo places and the curves that shape them are left out: they *)
(* scale what a voice plays and decide nothing about which voice plays or  *)
(* what it reads.  A controller holds its value in steps of 1/127.         *)
(***************************************************************************)
EXTENDS SfzDocument, Integers

CONSTANTS
  Numbers,        \* text -> the number it parses as
  NoteNames,      \* text -> [step, accidental, octave] of a note name
  AudioFiles,     \* text -> [frames, loop] of the sample there, loop as its smpl chunk
  Controllers,
  PreloadFrames,  \* PRELOAD_FRAMES
  MaxResident,    \* MAX_LOOPED_RESIDENT_BYTES, in frames
  Forever         \* the decay of 1000 seconds a region without one has, in frames

\* A decoder gives no sample without a frame.
ASSUME SampleAssumption ==
  /\ \A text \in DOMAIN Numbers : Numbers[text] \in Int
  /\ \A text \in DOMAIN NoteNames :
       {NoteNames[text].step, NoteNames[text].accidental, NoteNames[text].octave} \subseteq Int
  /\ \A text \in DOMAIN AudioFiles :
       /\ AudioFiles[text].frames \in Nat \ {0}
       /\ AudioFiles[text].loop \in {<<>>} \cup (Nat \X Nat)
  /\ PreloadFrames \in Nat \ {0} /\ MaxResident \in Nat

\* CcState::set: a value outside the range is brought to its end.
Clamp(low, value, high) == IF value < low THEN low ELSE IF value > high THEN high ELSE value

\* The opcode parses as a number; an opcode that does not is as good as absent.
HasNumber(opcodes, name) == name \in DOMAIN opcodes /\ opcodes[name] \in DOMAIN Numbers
NumberOr(opcodes, name, fallback) ==
  IF HasNumber(opcodes, name) THEN Numbers[opcodes[name]] ELSE fallback

\* parse_note: a MIDI number or a note name; middle C is C4 = 60.
IsKey(text) == text \in DOMAIN Numbers \cup DOMAIN NoteNames
ParseNote(text) ==
  IF text \in DOMAIN Numbers THEN Clamp(0, Numbers[text], 127)
  ELSE LET n == NoteNames[text] IN Clamp(0, (n.octave + 1) * 12 + n.step + n.accidental, 127)
HasKey(opcodes, name) == name \in DOMAIN opcodes /\ IsKey(opcodes[name])
KeyOr(opcodes, name, fallback) ==
  IF HasKey(opcodes, name) THEN ParseNote(opcodes[name]) ELSE fallback

\* control_defaults: names are visited in order, so set_hdcc has the last word.
ControlDefaults(control) ==
  [c \in Controllers |->
     LET coarse == "set_cc" \o ToString(c) fine == "set_hdcc" \o ToString(c) IN
     IF HasNumber(control, fine) THEN Clamp(0, Numbers[control[fine]] * 127, 127)
     ELSE Clamp(0, NumberOr(control, coarse, 0), 127)]

\* gates_from: the window each gated controller has to be in.
Gates(opcodes) ==
  [c \in Controllers |-> NumberOr(opcodes, "locc" \o ToString(c), 0)
                           ..NumberOr(opcodes, "hicc" \o ToString(c), 127)]

\* envelope_from; the level sustained is only told from the full one.
EnvelopeFrom(opcodes) ==
  [attack |-> NumberOr(opcodes, "ampeg_attack", 0),
   decay |-> NumberOr(opcodes, "ampeg_decay", Forever),
   full |-> NumberOr(opcodes, "ampeg_sustain", 100) >= 100,
   release |-> NumberOr(opcodes, "ampeg_release", 0)]
-----------------------------------------------------------------------------
(* Samples: what build asks the store for and what it gets.                   *)

\* build: a sample some region gives a loop_end is to be held whole.
NeedsResidency(document, text) ==
  \E n \in DOMAIN document.regions :
    LET opcodes == document.regions[n] IN
    "sample" \in DOMAIN opcodes /\ opcodes["sample"] = text /\ "loop_end" \in DOMAIN opcodes

\* load_one (sample_store.rs): a sample that loops is held whole unless it is too long.
Preloaded(needed, audio) ==
  IF /\ needed \/ audio.loop # <<>>
     /\ audio.frames <= MaxResident
  THEN audio.frames
  ELSE IF audio.frames < PreloadFrames THEN audio.frames ELSE PreloadFrames

\* A bug to catch: a loop is kept whose sample is not in memory.
LoopAnywhere(points, frames, resident) ==
  IF points # <<>> /\ points[1] < points[2] /\ points[2] <= frames THEN points ELSE <<>>

\* The last step of loop_from: the loop is dropped unless playback can reach it.
ReachableLoop(points, frames, resident) ==
  IF points # <<>> /\ points[1] < points[2] /\ points[2] <= frames /\ resident
  THEN points ELSE <<>>

\* parse::<usize>: a place in a sample is not negative.
HasFrame(opcodes, name) == HasNumber(opcodes, name) /\ Numbers[opcodes[name]] >= 0

\* loop_from: the region's own points, under either spelling, or with a mode alone the
\* sample's.  loop_end names the last frame inside the loop.
LoopFrom(opcodes, audio, resident) ==
  LET mode == IF "loop_mode" \in DOMAIN opcodes THEN opcodes["loop_mode"] ELSE <<>>
      Stated(name, other) == HasFrame(opcodes, name) \/ HasFrame(opcodes, other)
      Frame(name, other) == Numbers[opcodes[IF HasFrame(opcodes, name) THEN name ELSE other]]
      points ==
        IF Stated("loop_start", "loopstart") /\ Stated("loop_end", "loopend")
        THEN <<Frame("loop_start", "loopstart"), Frame("loop_end", "loopend") + 1>>
        ELSE IF mode # <<>> THEN audio.loop ELSE <<>>
  IN IF mode \in {<<"no_loop">>, <<"one_shot">>} THEN <<>>
     ELSE ReachableLoop(points, audio.frames, resident)

\* region_from_sample
RegionFrom(document, opcodes) ==
  LET text == opcodes["sample"]
      audio == AudioFiles[text]
      head == Preloaded(NeedsResidency(document, text), audio)
      low == KeyOr(opcodes, "key", KeyOr(opcodes, "lokey", 0))
  IN [keys |-> low..KeyOr(opcodes, "key", KeyOr(opcodes, "hikey", 127)),
      velocities |-> NumberOr(opcodes, "lovel", 0)..Clamp(0, NumberOr(opcodes, "hivel", 127), 127),
      center |-> KeyOr(opcodes, "pitch_keycenter", low),
      lowest |-> low, highest |-> KeyOr(opcodes, "key", KeyOr(opcodes, "hikey", 127)),
      sample |-> text, frames |-> audio.frames, head |-> head,
      loop |-> LoopFrom(opcodes, audio, head >= audio.frames),
      envelope |-> EnvelopeFrom(opcodes), gates |-> Gates(opcodes), start |-> 0]

HasSample(opcodes) == "sample" \in DOMAIN opcodes

\* A region that names no sample is left out; the others keep their places.
Playable(document) == {n \in DOMAIN document.regions : HasSample(document.regions[n])}
SampleText(document, n) == document.regions[n]["sample"]

\* open and build: every sample the document names has to load.
NoInstrument == [kind |-> "none"]
OpenSfz(path) ==
  LET read == Document(path)
      document == read.document
  IN IF /\ read.ok /\ Playable(document) # {}
        /\ \A n \in Playable(document) : SampleText(document, n) \in DOMAIN AudioFiles
     THEN [kind |-> "sampled", defaults |-> ControlDefaults(document.control),
           regions |-> [n \in Playable(document) |-> RegionFrom(document, document.regions[n])]]
     ELSE NoInstrument

\* summary
Summary(instrument) ==
  LET regions == ToSet(instrument.regions)
      low == Min({r.lowest : r \in regions}) high == Max({r.highest : r \in regions})
      root == {r.center : r \in regions}
  IN [lowest |-> IF low < high THEN low ELSE high, highest |-> high,
      rootLow |-> Min(root), rootHigh |-> Max(root),
      regions |-> Cardinality(DOMAIN instrument.regions), samples |-> Cardinality({r.sample : r \in regions}),
      looping |-> \E r \in regions : r.loop # <<>>]
-----------------------------------------------------------------------------
\* accepts: a region silenced by a controller now can sound when the controller moves.
Accepts(region, note, velocity, cc) ==
  /\ note \in region.keys /\ velocity \in region.velocities
  /\ \A c \in Controllers : cc[c] \in region.gates[c]

\* voices_for_note: the sample as each voice of a key gets it.  Only a sample with a
\* tail asks for a stream, which may not be had.
SfzWaves(region) ==
  {[frames |-> region.frames, head |-> region.head, stream |-> stream, loop |-> region.loop] :
     stream \in IF region.head >= region.frames THEN {"none"} ELSE {"open", "busy"}}

SfzRegions(instrument, note, velocity, cc) ==
  {r \in ToSet(instrument.regions) : Accepts(r, note, velocity, cc)}
=============================================================================
