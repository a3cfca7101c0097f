---------------------------- MODULE NativePlugin ----------------------------
(***************************************************************************)
(* plugin/src/lib.rs: one instance of the native plugin, from `create` to  *)
(* `destroy`, as the host drives it.                                       *)
(*                                                                         *)
(* The host calls from one thread at a time.  Each call is one action,     *)
(* except `process`, whose block is begun, advanced event by event and     *)
(* frame by frame, and returned; nothing else happens while a block is     *)
(* open.  The content of an event is chosen when it is applied.            *)
(*                                                                         *)
(* Sound is abstracted: a voice is the note it plays, whether it has been  *)
(* released and whether it fades; it may end at any frame.  Of the         *)
(* controllers an SFZ instrument records only the damper is kept; bend and *)
(* wheel are left out.                                                     *)
(***************************************************************************)
EXTENDS SfzLibrary

CONSTANTS
  Banks,        \* the DLS banks that may be installed: sequences of instruments
  Roots,        \* the SFZ library folders that may be installed
  MaxVoices,    \* MAX_VOICES
  MaxLayers,    \* most voices one key press starts
  Notes,
  Gains,        \* valid master gains
  DefaultGain,  \* DEFAULT_MASTER_GAIN
  Invalid,      \* a gain that is not finite or not in 0..1
  MaxFrames,    \* maximum_frames
  FrameLists,   \* the frames of the events a host may list for one block
  States        \* saved states a host may hold

ASSUME NativeAssumption ==
  /\ MaxVoices \in Nat \ {0} /\ MaxLayers \in Nat /\ MaxFrames \in Nat \ {0}
  /\ DefaultGain \in Gains /\ Invalid \notin Gains
  /\ FrameLists \subseteq Seq(Nat)

VARIABLES
  created,   \* is there an instance?
  bank,      \* bank.instruments
  library,   \* sfz: the instruments, none if no library is attached
  catalog,   \* preset identifiers last published to the host
  damper,    \* controllers of each SFZ instrument: is controller 64 down?
  active, voices, sustain,
  held,      \* held_notes, as a set
  gain,      \* master_gain
  selected,  \* <<selected_bank, selected_program>>
  presetId,  \* selected_preset_id
  selectedSfz, \* index into library, 0 for None
  block,     \* the block under process: frame reached, frames, events left
  strayed    \* history: what parted the preset's name from its sound since it was selected

playing == <<voices, held, sustain>>
selection == <<selected, presetId, selectedSfz, strayed>>
installed == <<created, bank, library, catalog>>
vars == <<installed, damper, active, playing, gain, selection, block>>

(* Preset identifiers: <<"dls", bank, program>>, <<"sfz", id>>, <<"gm.piano-1">>
   and others the plugin does not know.                                       *)
DynamicPresetId(pair) == <<"dls", pair[1], pair[2]>>
SfzPresetId(id) == <<"sfz", id>>
IsSfz(id) == id[1] = "sfz"
IsDls(id) == id[1] = "dls" \/ id = <<"gm.piano-1">>
Pair(id) == IF id[1] = "dls" THEN <<id[2], id[3]>> ELSE <<0, 0>>

\* A bank is a sequence, a folder's instruments are a list, each with a damper that is
\* up or down and words for a name, and numerals tell them apart; a saved SFZ preset is
\* named as the plugin names it.
ASSUME NamesAssumption ==
  /\ \A b \in Banks : b \in Seq(ToSet(b))
  /\ \A root \in Roots :
       /\ Len(Load(root)) \in Nat /\ DOMAIN Load(root) = 1..Len(Load(root))
       /\ \A i \in DOMAIN Load(root) :
            /\ Load(root)[i].damper \in BOOLEAN
            /\ Load(root)[i].name \in Seq(ToSet(Load(root)[i].name))
       /\ \A m, n \in DOMAIN Load(root) : ToString(m) = ToString(n) => m = n
  /\ \A s \in States : IsSfz(s.id) => s.id = SfzPresetId(s.id[2])

InBank(b, pair) == \E i \in DOMAIN b : <<b[i].bank, b[i].program>> = pair

HasPreset(id) ==
  \/ IsSfz(id) /\ IndexOf(library, id[2]) # 0
  \/ IsDls(id) /\ InBank(bank, Pair(id))

\* Everything the host is told it may ask for: the bank's instruments, then the library's.
DynamicCatalog(b, l) ==
  {DynamicPresetId(<<b[i].bank, b[i].program>>) : i \in DOMAIN b}
    \cup {SfzPresetId(l[i].id) : i \in DOMAIN l}

\* The instrument chosen first: (0, 0), else one that is no drum kit, else any.
DefaultSelection(b) ==
  LET melodic == {i \in DOMAIN b : ~b[i].drum}
      First(S) == CHOOSE i \in S : \A j \in S : i <= j
      chosen == First(IF melodic # {} THEN melodic ELSE DOMAIN b)
  IN  IF b = <<>> \/ InBank(b, <<0, 0>>) THEN <<0, 0>>
      ELSE <<b[chosen].bank, b[chosen].program>>

Idle == [open |-> FALSE, frame |-> 0, frames |-> 0, midi |-> <<>>, parameters |-> <<>>]
-----------------------------------------------------------------------------
AtRest == voices' = <<>> /\ held' = {} /\ sustain' = FALSE

Init ==
  /\ created = FALSE /\ bank = <<>> /\ library = <<>> /\ catalog = {} /\ damper = <<>>
  /\ active = FALSE /\ voices = <<>> /\ held = {} /\ sustain = FALSE
  /\ gain = DefaultGain /\ selected = <<0, 0>> /\ presetId = DynamicPresetId(<<0, 0>>)
  /\ selectedSfz = 0 /\ strayed = "no" /\ block = Idle

(* create: either resource may be missing (an empty bank, an empty library).
   The first catalog must be accepted; the second one, with the library, is
   published and its refusal ignored.                                        *)
Create ==
  /\ ~created /\ created' = TRUE
  /\ \E b \in Banks \cup {<<>>}, root \in Roots, accepted \in BOOLEAN :
       LET l == Load(root) IN
       /\ bank' = b /\ library' = l
       /\ damper' = [i \in DOMAIN l |-> l[i].damper]
       /\ catalog' = DynamicCatalog(b, IF accepted THEN l ELSE <<>>)
       /\ selected' = DefaultSelection(b)
       /\ presetId' = DynamicPresetId(DefaultSelection(b))
  /\ UNCHANGED <<active, playing, gain, selectedSfz, strayed, block>>

Destroy ==
  /\ created /\ ~block.open
  /\ created' = FALSE /\ bank' = <<>> /\ library' = <<>> /\ catalog' = {} /\ damper' = <<>>
  /\ active' = FALSE /\ gain' = DefaultGain /\ selected' = <<0, 0>>
  /\ presetId' = DynamicPresetId(<<0, 0>>) /\ selectedSfz' = 0 /\ strayed' = "no"
  /\ AtRest /\ UNCHANGED block

Called == created /\ ~block.open

Activate ==
  /\ Called /\ active' = TRUE /\ AtRest
  /\ UNCHANGED <<installed, damper, gain, selection, block>>

Deactivate ==
  /\ Called /\ active' = FALSE /\ AtRest
  /\ UNCHANGED <<installed, damper, gain, selection, block>>

Reset ==
  /\ Called /\ AtRest
  /\ UNCHANGED <<installed, damper, active, gain, selection, block>>

SetParameter(value) ==
  /\ Called /\ value \in Gains /\ gain' = value
  /\ UNCHANGED <<installed, damper, active, playing, selection, block>>
-----------------------------------------------------------------------------
(* Selection.                                                                 *)
SelectSfz(id) ==
  /\ selectedSfz' = IndexOf(library, id[2]) /\ presetId' = id
  /\ strayed' = "no" /\ AtRest /\ UNCHANGED selected

\* The pair, its name and a reset; the choice of SFZ instrument is the caller's.
SelectInstrument(pair) ==
  /\ selected' = pair /\ presetId' = DynamicPresetId(pair) /\ AtRest

\* A bug to catch: the SFZ instrument keeps the keyboard.
StaySfz(id) ==
  /\ IF IsSfz(id) THEN SelectSfz(id)
     ELSE SelectInstrument(Pair(id)) /\ strayed' = "no" /\ UNCHANGED selectedSfz

\* select_preset of a preset that exists.
SelectPreset(id) ==
  IF IsSfz(id) THEN SelectSfz(id)
  ELSE SelectInstrument(Pair(id)) /\ selectedSfz' = 0 /\ strayed' = "no"

\* select_preset of one that does not: only a name of the DLS kind gives up the SFZ instrument.
RefusePreset(id) ==
  /\ IF IsSfz(id) \/ selectedSfz = 0 THEN UNCHANGED <<selectedSfz, strayed>>
     ELSE selectedSfz' = 0 /\ strayed' = IF IsSfz(presetId) THEN "refused" ELSE "no"
  /\ UNCHANGED <<selected, presetId, playing>>

LoadPreset(id) ==
  /\ Called
  /\ IF HasPreset(id) THEN SelectPreset(id) /\ gain' = DefaultGain
     ELSE RefusePreset(id) /\ UNCHANGED gain
  /\ UNCHANGED <<installed, damper, active, block>>

Snapshot == [version |-> 4, gain |-> gain, id |-> presetId, layer |-> <<>>]

\* Versions 1, 2 and 4: the preset is looked up, the gain is set, the preset is selected.
LoadState(s) ==
  /\ Called /\ s.version # 3
  /\ HasPreset(s.id) /\ s.gain \in Gains
  /\ gain' = s.gain /\ SelectPreset(s.id)
  /\ UNCHANGED <<installed, damper, active, block>>

(* Version 3: the gain is set first; a preset that is gone is replaced by the
   first enabled layer's instrument, which does not touch the SFZ choice.     *)
LoadLegacyState(s) ==
  /\ Called /\ s.version = 3 /\ s.gain \in Gains /\ gain' = s.gain
  /\ IF HasPreset(s.id) THEN SelectPreset(s.id)
     ELSE IF s.layer # <<>> /\ InBank(bank, s.layer)
     THEN /\ SelectInstrument(s.layer) /\ UNCHANGED selectedSfz
          /\ strayed' = IF selectedSfz = 0 THEN "no" ELSE "layer"
     ELSE UNCHANGED <<selection, playing>>
  /\ UNCHANGED <<installed, damper, active, block>>
-----------------------------------------------------------------------------
(* MIDI.                                                                      *)
\* A bug to catch: room is made one voice late.
NewestAndOne(s) == IF Len(s) <= MaxVoices + 1 THEN s
                   ELSE SubSeq(s, Len(s) - MaxVoices, Len(s))

Newest(s) == IF Len(s) <= MaxVoices THEN s
             ELSE SubSeq(s, Len(s) - MaxVoices + 1, Len(s))

CanSound == selectedSfz # 0 \/ InBank(bank, selected)

\* Voices of the same note fade; the pool makes room from its front.
NoteOn(n) ==
  /\ \E count \in IF CanSound THEN 0..MaxLayers ELSE {0} :
       voices' = Newest([i \in DOMAIN voices |->
                           [voices[i] EXCEPT !.fading = @ \/ voices[i].note = n]]
                   \o [i \in 1..count |->
                         [note |-> n, released |-> FALSE, fading |-> FALSE]])
  /\ held' = held \cup {n}
  /\ UNCHANGED <<sustain, damper>>

\* Voices whose note is in S get their note off.
Released(S) == [i \in DOMAIN voices |->
                  [voices[i] EXCEPT !.released = @ \/ voices[i].note \in S]]

NoteOff(n) ==
  /\ held' = held \ {n}
  /\ voices' = IF sustain THEN voices ELSE Released({n})
  /\ UNCHANGED <<sustain, damper>>

\* A bug to catch: lifting the pedal releases nothing.
LiftOnly(down) == sustain' = down /\ UNCHANGED <<voices, held>>

\* set_sustain: lifting the pedal releases what is no longer held.
SetSustain(down) ==
  /\ sustain' = down
  /\ voices' = IF sustain /\ ~down THEN Released(Notes \ held) ELSE voices
  /\ UNCHANGED held

\* Controller 64 reaches every instrument of the library, then the plugin.
Damper(down) ==
  /\ damper' = [i \in DOMAIN library |-> down]
  /\ SetSustain(down)

AllSoundOff == AtRest /\ UNCHANGED damper

ResetControllers == SetSustain(FALSE) /\ UNCHANGED damper

AllNotesOff ==
  /\ held' = {}
  /\ voices' = IF sustain THEN voices ELSE Released(Notes)
  /\ UNCHANGED <<sustain, damper>>

\* handle_midi; bend, wheel and other controllers only shape the sound, short and
\* unknown messages do nothing.
HandleMidi ==
  \/ \E n \in Notes : NoteOn(n) \/ NoteOff(n)
  \/ \E down \in BOOLEAN : Damper(down)
  \/ AllSoundOff \/ ResetControllers \/ AllNotesOff
  \/ UNCHANGED <<playing, damper>>
-----------------------------------------------------------------------------
(* process.                                                                   *)

\* A bug to catch: the order is not looked at.
BoundedEvents(frames, events) == \A i \in DOMAIN events : events[i] < frames

\* event_slice: events lie inside the block, in order of their frames.
ValidEvents(frames, events) ==
  /\ \A i \in DOMAIN events : events[i] < frames
  /\ \A i \in 1..Len(events) - 1 : events[i] <= events[i + 1]

\* A block that is not valid is refused before anything is applied.
BeginBlock ==
  /\ Called /\ active
  /\ \E frames \in 1..MaxFrames, midi \in FrameLists, parameters \in FrameLists :
       /\ ValidEvents(frames, midi) /\ ValidEvents(frames, parameters)
       /\ block' = [open |-> TRUE, frame |-> 0, frames |-> frames,
                    midi |-> midi, parameters |-> parameters]
  /\ UNCHANGED <<installed, damper, active, playing, gain, selection>>

Due(events) == events # <<>> /\ Head(events) = block.frame
Rendering == block.open /\ block.frame < block.frames

\* A parameter that is refused ends the block where it stands.
BlockParameter ==
  /\ Rendering /\ Due(block.parameters)
  /\ \/ /\ gain' \in Gains
        /\ block' = [block EXCEPT !.parameters = Tail(@)]
     \/ block' = Idle /\ UNCHANGED gain
  /\ UNCHANGED <<installed, damper, active, playing, selection>>

BlockMidi ==
  /\ Rendering /\ ~Due(block.parameters) /\ Due(block.midi)
  /\ HandleMidi
  /\ block' = [block EXCEPT !.midi = Tail(@)]
  /\ UNCHANGED <<installed, active, gain, selection>>

(* render_frame visits the voices in order and swap_removes each that ends, so
   that survivors from the back fill the gaps, the last one the first gap.     *)
SwapRemove(s, ended) ==
  LET left == Len(s) - Cardinality(ended)
      gaps == {i \in ended : i <= left}
      movers == {i \in DOMAIN s \ ended : i > left}
      Filler(gap) == CHOOSE j \in movers :
        Cardinality({k \in movers : k >= j}) = Cardinality({k \in gaps : k <= gap})
  IN  [i \in 1..left |-> IF i \in gaps THEN s[Filler(i)] ELSE s[i]]

RenderFrame ==
  /\ Rendering /\ ~Due(block.parameters) /\ ~Due(block.midi)
  /\ \E ended \in SUBSET DOMAIN voices : voices' = SwapRemove(voices, ended)
  /\ block' = [block EXCEPT !.frame = @ + 1]
  /\ UNCHANGED <<installed, damper, active, held, sustain, gain, selection>>

Return ==
  /\ block.open /\ block.frame = block.frames
  /\ block' = Idle
  /\ UNCHANGED <<installed, damper, active, playing, gain, selection>>

Next ==
  \/ Create \/ Destroy \/ Activate \/ Deactivate \/ Reset
  \/ \E value \in Gains : SetParameter(value)
  \/ \E id \in (UNION {DynamicCatalog(b, <<>>) : b \in Banks})
             \cup (UNION {DynamicCatalog(<<>>, Load(r)) : r \in Roots})
             \cup {<<"gm.piano-1">>, <<"unknown">>} : LoadPreset(id)
  \/ \E s \in States : LoadState(s) \/ LoadLegacyState(s)
  \/ BeginBlock \/ BlockParameter \/ BlockMidi \/ RenderFrame \/ Return

Spec == Init /\ [][Next]_vars
-----------------------------------------------------------------------------
(* Correctness.                                                               *)

TypeOK ==
  /\ created \in BOOLEAN /\ active \in BOOLEAN /\ (active => created)
  /\ catalog \subseteq DynamicCatalog(bank, library)
  /\ damper \in [DOMAIN library -> BOOLEAN]
  /\ voices \in Seq([note : Notes, released : BOOLEAN, fading : BOOLEAN])
  /\ Len(voices) <= MaxVoices
  /\ held \subseteq Notes /\ sustain \in BOOLEAN
  /\ gain \in Gains /\ selectedSfz \in 0..Len(library)
  /\ strayed \in {"no", "refused", "layer"}
  /\ block.open \in BOOLEAN /\ block.frame \in 0..block.frames
  /\ block.frames \in 0..MaxFrames
  /\ block.midi \in Seq(Nat) /\ block.parameters \in Seq(Nat)

\* No note hangs: a voice that is neither released nor fading has its key down or
\* the pedal under it, whatever keys, pedals, presets and states came before.
NoStuckNote ==
  \A i \in DOMAIN voices :
    voices[i].released \/ voices[i].fading \/ voices[i].note \in held \/ sustain

\* A key struck again takes over from itself: the voices of one note that do not
\* fade are those of one strike, though the pool displaces and reorders voices.
OneStrikePerNote ==
  \A n \in Notes :
    Cardinality({i \in DOMAIN voices : voices[i].note = n /\ ~voices[i].fading}) <= MaxLayers

\* While the plugin holds the pedal, every instrument of the library knows it, also
\* those that were not selected when it went down.
HeldPedalIsKnown == sustain => \A i \in DOMAIN library : damper[i]

\* Keys and pedals decide what sounds: no note hangs, a note struck again replaces
\* itself, and the pedal is known to every instrument that may sound under it.
NotesFollowTheKeys == NoStuckNote /\ OneStrikePerNote /\ HeldPedalIsKnown

\* The preset the plugin names is the one that gets the notes, unless since it was
\* selected a preset was refused or a version 3 state fell back on its layer.
SelectionAgrees ==
  /\ selectedSfz = 0 /\ IsSfz(presetId) => strayed = "refused"
  /\ selectedSfz # 0 => presetId = SfzPresetId(library[selectedSfz].id) \/ strayed = "layer"
  /\ ~IsSfz(presetId) => presetId = DynamicPresetId(selected)

\* What the plugin saves it accepts again and understands as the same selection;
\* only a plugin without a bank, on which nothing was selected yet, saves a name
\* it would refuse.  What the host was told it may ask for exists.
SavedStateReloads ==
  created =>
    /\ \A id \in catalog : HasPreset(id)
    /\ HasPreset(Snapshot.id) \/ (bank = <<>> /\ presetId = DynamicPresetId(<<0, 0>>))
    /\ Snapshot.gain \in Gains
    /\ IsSfz(Snapshot.id) /\ strayed = "no" => IndexOf(library, Snapshot.id[2]) = selectedSfz

\* Each instrument is reached under its own identifier, however alike the names
\* are, unless a name that ends in a number meets a numbered repeat.
InstrumentsAreReachable ==
  LET numbered(i) == /\ library[i].name # <<>>
                     /\ Last(library[i].name) \in {ToString(n) : n \in 2..Len(library)}
  IN  \A i, j \in DOMAIN library :
        i # j /\ library[i].id = library[j].id => numbered(i) \/ numbered(j)

\* The names the plugin gives out - in its catalog, in a saved state, for each
\* instrument of a library - lead back to what they named.
NamesResolve == SavedStateReloads /\ InstrumentsAreReachable

\* No event is overtaken: those left are due now or later and before the block
\* ends, so a block that returns has applied them all.
NoEventIsLate ==
  block.open =>
    /\ \A i \in DOMAIN block.midi : block.midi[i] \in block.frame .. block.frames - 1
    /\ \A i \in DOMAIN block.parameters :
         block.parameters[i] \in block.frame .. block.frames - 1
=============================================================================
