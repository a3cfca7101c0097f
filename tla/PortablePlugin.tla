--------------------------- MODULE PortablePlugin ---------------------------
(***************************************************************************)
(* portable-plugin/src/lib.rs: the portable plugin, from its first         *)
(* `prepare` on, as the host drives it.                                    *)
(*                                                                         *)
(* A bank arrives as a transfer: begun, written in pieces and ended.  The  *)
(* host sends the pieces of the file it began with, but a piece may be     *)
(* lost, repeated or late, and it may end early.  Each call is one action; *)
(* `process` is begun, advanced and returned, and nothing else happens     *)
(* while a block is open.                                                  *)
(*                                                                         *)
(* The SoundFont synthesizer is a library: it is the volume it was given   *)
(* and, per channel, the bank and patch last sent to it.  Creating it      *)
(* fails for no rate that `prepare` accepts.  Effects are one control.     *)
(***************************************************************************)
EXTENDS BankPlayer

CONSTANTS
  Files,       \* the files a host may send, by name
  Percussion,  \* the channel to which the synthesizer adds the drum offset
  MaxPresets,  \* MAX_CATALOG_PRESETS
  MaxBytes,    \* MAX_SELECTED_SAMPLE_BYTES
  Rates, DefaultRate,
  Controls,    \* values of one effect control
  DefaultControl,
  Volumes, DefaultVolume,
  MaxFrames,
  FrameLists,  \* the frames of the events a host may list for one block
  None

ASSUME PortableAssumption ==
  /\ MaxVoices \in Nat \ {0} /\ MaxPresets \in Nat \ {0} /\ Percussion \in Channels
  /\ DefaultRate \in Rates /\ DefaultControl \in Controls /\ DefaultVolume \in Volumes
  /\ FrameLists \subseteq Seq(Nat) /\ MaxFrames \in Nat \ {0}
  /\ None \notin DOMAIN Files \cup {"bank", "soundfont"}
  /\ None \notin [file : DOMAIN Files, pieces : Seq(Nat)]
  /\ None \notin [volume : Volumes, programs : [Channels -> Nat \X Nat]]

VARIABLES
  pending,    \* the transfer: source, file, pieces written; None if there is none
  soundFont,  \* name of the SoundFont file installed last, with the pieces it came in
  player,     \* instrument bank: file, pieces, library, selected, loaded, control, rate
  synth,      \* volume and per channel <<bank, patch>>
  format,     \* active_format
  rate, selected, volume, control,
  changed,    \* history: channels whose program a MIDI message set since the last selection
  block

settings == <<rate, volume, control>>
vars == <<regions, sounding, pending, soundFont, player, synth, format, rate, selected,
          volume, control, changed, block>>

Drum == 128
Idle == [open |-> FALSE]
Pieces(file) == 1..Files[file].size
Whole(pieces, file) == Len(pieces) = Files[file].size

(* The catalog of a SoundFont.                                                *)
Before(a, b) == a[1] < b[1] \/ (a[1] = b[1] /\ a[2] < b[2])

\* normalize_entries: sorted, without repeats, capped.
CatalogEntries(file) ==
  LET sorted == SetToSortSeq(Files[file].presets, Before)
  IN  SubSeq(sorted, 1, Min({Len(sorted), MaxPresets}))

\* A preset is a bank and a patch, and a catalog lists presets of its file.
ASSUME PresetsAssumption ==
  \A f \in DOMAIN Files : /\ Files[f].presets \subseteq Nat \X Nat
                          /\ CatalogEntries(f) \in Seq(Files[f].presets)

\* fit_catalog: halved until it fits; room is the number of entries that do.
FitCatalog(entries, room) ==
  LET fit[n \in Nat] == IF n <= room THEN n ELSE fit[n \div 2]
  IN  SubSeq(entries, 1, fit[Len(entries)])

\* apply_selection: every channel gets the selection, percussion without its offset.
ApplySelection(programs, choice) ==
  IF choice = None THEN programs
  ELSE [c \in Channels |->
          IF c = Percussion /\ choice[1] >= Drum THEN <<choice[1] - Drum, choice[2]>>
          ELSE choice]

Fresh == [c \in Channels |-> <<0, 0>>]

\* rebuild_synth: an instrument bank, or no SoundFont, needs none.
Rebuilt(kind, file, choice, level) ==
  IF kind = "bank" \/ file = None THEN None
  ELSE [volume |-> level, programs |-> ApplySelection(Fresh, choice)]

FileOf(p) == IF p = None THEN None ELSE p.file

(* The player of an instrument bank.                                          *)
Ids(library) == {library[i].id : i \in DOMAIN library}
Banks == {f \in DOMAIN Files : Files[f].kind = "bank"}

\* The maps in the order of names are a list of the maps, a map's regions and the words
\* of its name are sequences, and no two numerals are alike.
ASSUME MapsAssumption ==
  \A f \in Banks :
    /\ InOrder(MapEntries(Files[f])) \in Seq(MapEntries(Files[f]))
    /\ \A map \in MapEntries(Files[f]) : /\ map.regions \in Seq(ToSet(map.regions))
                                       /\ map.slug \in Seq(ToSet(map.slug))
    /\ \A m, n \in 1..Len(InOrder(MapEntries(Files[f]))) + 1 :
         ToString(m) = ToString(n) => m = n

ASSUME PlayersAssumption ==
  None \notin [file : Banks, pieces : Seq(Nat), library : {Parse(Files[f]) : f \in Banks},
               selected : UNION {Ids(Parse(Files[f])) : f \in Banks},
               loaded : BOOLEAN, control : Controls, rate : Rates]

Entry(library, id) == library[CHOOSE i \in DOMAIN library : library[i].id = id]
CanLoad(p, id, r) ==
  /\ id \in Ids(p.library)
  /\ Loads(Files[p.file], Entry(p.library, id).map, r, MaxBytes)
RegionsOf(p) == IF p = None \/ ~p.loaded THEN <<>>
                ELSE LoadedRegions(Files[p.file], Entry(p.library, p.selected).map)

\* A bug to catch: a newly loaded instrument keeps its own effect settings.
LoadKeepingEffects(p, id) ==
  [p EXCEPT !.selected = id, !.loaded = TRUE, !.control = DefaultControl]

\* Player::load_preset, then the plugin's effect controls.
LoadWithEffects(p, id) ==
  [p EXCEPT !.selected = id, !.loaded = TRUE, !.control = control]
-----------------------------------------------------------------------------
Init ==
  /\ regions = <<>> /\ voices = <<>> /\ held = {} /\ sustain = {}
  /\ pending = None /\ soundFont = None /\ player = None /\ synth = None /\ format = None
  /\ rate = DefaultRate /\ selected = None /\ volume = DefaultVolume
  /\ control = DefaultControl /\ changed = {} /\ block = Idle

Called == ~block.open

\* prepare with valid arguments; others are refused.  A player whose rate stays
\* keeps its instrument; one whose rate changes loads it anew, or loses it.
Prepare ==
  /\ Called
  /\ rate' \in Rates
  /\ IF player = None \/ player.rate = rate' THEN
       /\ player' = IF player = None THEN None
                    ELSE [player EXCEPT !.control = IF player.loaded THEN control ELSE @]
       /\ UNCHANGED <<sounding, regions>>
     ELSE /\ player' = [player EXCEPT !.rate = rate', !.control = control,
                                      !.loaded = CanLoad(player, player.selected, rate')]
          /\ regions' = RegionsOf(player') /\ Silent
  /\ synth' = Rebuilt(format, FileOf(soundFont), selected, volume)
  /\ changed' = {}
  /\ UNCHANGED <<pending, soundFont, format, selected, volume, control, block>>

\* The parameters reach what sounds.
ApplyVolume(value) ==
  /\ volume' = value
  /\ synth' = IF synth = None THEN None ELSE [synth EXCEPT !.volume = value]
  /\ UNCHANGED <<control, player>>

ApplyControl(value) ==
  /\ control' = value
  /\ player' = IF player = None \/ ~player.loaded THEN player
               ELSE [player EXCEPT !.control = value]
  /\ UNCHANGED <<volume, synth>>

SetParameter ==
  /\ Called
  /\ (\E value \in Volumes : ApplyVolume(value)) \/ (\E value \in Controls : ApplyControl(value))
  /\ UNCHANGED <<regions, sounding, pending, soundFont, format, rate, selected, changed, block>>

\* reset: the instrument falls silent, the synthesizer is told again what it plays.
Reset ==
  /\ Called /\ Silent
  /\ synth' = IF synth = None THEN None
              ELSE [volume |-> volume, programs |-> ApplySelection(Fresh, selected)]
  /\ changed' = {}
  /\ UNCHANGED <<regions, pending, soundFont, player, format, settings, selected, block>>
-----------------------------------------------------------------------------
(* Transfers.                                                                 *)

BeginResource ==
  /\ Called /\ pending = None
  /\ \E source \in {"factory", "user"}, file \in DOMAIN Files :
       pending' = [source |-> source, file |-> file, pieces |-> <<>>]
  /\ UNCHANGED <<regions, sounding, soundFont, player, synth, format, settings, selected,
                 changed, block>>

\* A bug to catch: a piece is appended wherever it belongs.
WriteAnywhere(piece) ==
  /\ Called /\ pending # None
  /\ Len(pending.pieces) < Files[pending.file].size
  /\ pending' = [pending EXCEPT !.pieces = Append(@, piece)]
  /\ UNCHANGED <<regions, sounding, soundFont, player, synth, format, settings, selected,
                 changed, block>>

\* write_resource: the piece has to start where the last one ended.
WriteResource(piece) ==
  /\ Called /\ pending # None
  /\ piece = Len(pending.pieces) + 1 /\ piece <= Files[pending.file].size
  /\ pending' = [pending EXCEPT !.pieces = Append(@, piece)]
  /\ UNCHANGED <<regions, sounding, soundFont, player, synth, format, settings, selected,
                 changed, block>>

\* end_resource of an instrument bank: the instrument selected in the bank before, if
\* it loads, else the first one.
FreshPlayer(file, pieces) ==
  [file |-> file, pieces |-> pieces, library |-> Parse(Files[file]), selected |-> None,
   loaded |-> FALSE, control |-> DefaultControl, rate |-> rate]

FirstChoice(fresh) ==
  IF player # None /\ CanLoad(fresh, player.selected, rate) THEN player.selected
  ELSE fresh.library[1].id

InstallBank(file, pieces) ==
  LET fresh == FreshPlayer(file, pieces) IN
  /\ player' = LoadWithEffects(fresh, FirstChoice(fresh))
  /\ regions' = RegionsOf(player') /\ Silent
  /\ format' = "bank" /\ synth' = None /\ changed' = {}
  /\ UNCHANGED <<soundFont, selected>>

\* A bug to catch: the selection outlives the bank it was made in.
InstallKeepingSelection(file, pieces) ==
  /\ soundFont' = [file |-> file, pieces |-> pieces]
  /\ format' = "soundfont" /\ player' = None /\ regions' = <<>> /\ Silent
  /\ synth' = Rebuilt("soundfont", file, selected, volume) /\ changed' = {}
  /\ UNCHANGED selected

\* end_resource of a SoundFont: a selection it does not have is dropped.
InstallSoundFont(file, pieces) ==
  /\ soundFont' = [file |-> file, pieces |-> pieces]
  /\ selected' = IF selected \in ToSet(CatalogEntries(file)) THEN selected ELSE None
  /\ format' = "soundfont" /\ player' = None /\ regions' = <<>> /\ Silent
  /\ synth' = Rebuilt("soundfont", file, selected', volume) /\ changed' = {}

\* An instrument bank is the user's, is readable and has an instrument that loads.
Acceptable(file) ==
  IF Files[file].kind = "bank"
  THEN LET fresh == FreshPlayer(file, <<>>) IN
       /\ pending.source = "user" /\ fresh.library # Failed
       /\ CanLoad(fresh, FirstChoice(fresh), rate)
  ELSE Files[file].parses

\* end_resource: whatever comes of it, the transfer is over; one that is short or
\* refused leaves everything else as it was.
EndResource ==
  /\ Called /\ pending # None /\ pending' = None
  /\ LET file == pending.file IN
     IF ~Whole(pending.pieces, file) \/ ~Acceptable(file)
     THEN UNCHANGED <<regions, sounding, soundFont, player, synth, format, selected, changed>>
     ELSE IF Files[file].kind = "bank" THEN InstallBank(file, pending.pieces)
     ELSE InstallSoundFont(file, pending.pieces)
  /\ UNCHANGED <<settings, block>>
-----------------------------------------------------------------------------
(* Presets.                                                                   *)

\* What write_preset_catalog publishes into a buffer with room for that many presets.
Catalog(room) ==
  IF format = "bank" THEN IF Len(player.library) <= room THEN Ids(player.library) ELSE {}
  ELSE IF soundFont = None THEN {}
  ELSE ToSet(FitCatalog(CatalogEntries(soundFont.file), room))

LoadBankPreset(id) ==
  /\ format = "bank" /\ CanLoad(player, id, rate)
  /\ player' = LoadWithEffects(player, id)
  /\ regions' = RegionsOf(player') /\ Silent
  /\ UNCHANGED <<synth, selected, changed>>

LoadSoundFontPreset(choice) ==
  /\ format = "soundfont" /\ choice \in ToSet(CatalogEntries(soundFont.file))
  /\ selected' = choice
  /\ synth' = [synth EXCEPT !.programs = ApplySelection(@, choice)]
  /\ changed' = {}
  /\ UNCHANGED <<player, regions, sounding>>

\* The identifier of early releases stands for the first preset there is.
LoadLegacyPreset ==
  /\ format = "soundfont" /\ CatalogEntries(soundFont.file) # <<>>
  /\ LoadSoundFontPreset(CatalogEntries(soundFont.file)[1])

LoadPreset ==
  /\ Called
  /\ \/ \E id \in UNION {Files[f].ids : f \in DOMAIN Files} : LoadBankPreset(id)
     \/ \E id \in UNION {Files[f].presets : f \in DOMAIN Files} : LoadSoundFontPreset(id)
     \/ LoadLegacyPreset
  /\ UNCHANGED <<pending, soundFont, format, settings, block>>
-----------------------------------------------------------------------------
(* process.  The bank's path and the synthesizer's are the same loop.         *)

BeginBlock ==
  /\ Called
  /\ \E frames \in 0..MaxFrames, midi \in FrameLists, parameters \in FrameLists :
       block' = [open |-> TRUE, step |-> "render", position |-> 0, frames |-> frames,
                 midi |-> midi, parameters |-> parameters, dispatched |-> TRUE]
  /\ UNCHANGED <<regions, sounding, pending, soundFont, player, synth, format, settings,
                 selected, changed>>

\* A frame beyond the block counts as its end.
Clamped(frame) == Min({frame, block.frames})
Boundary == Min({block.frames} \cup {Clamped(e[1]) : e \in {block.midi, block.parameters} \ {<<>>}})

\* A bug to catch: the frame of an event is taken as it is.
DueUnclamped(events) == events # <<>> /\ Head(events) <= block.position

Due(events) == events # <<>> /\ Clamped(Head(events)) <= block.position

\* Without a bank only the parameters are listened to.
NoInstrument == format = None

\* Render up to the next event; after a round that dispatched nothing the block is over.
Render ==
  /\ block.open /\ block.step = "render" /\ block.dispatched /\ ~NoInstrument
  /\ block' = [block EXCEPT !.step = "midi", !.position = Boundary, !.dispatched = FALSE]
  /\ IF format = "bank" THEN RenderBank ELSE UNCHANGED sounding
  /\ UNCHANGED <<regions, pending, soundFont, player, synth, format, settings, selected, changed>>

\* A program change makes its channel play what the message says.
SynthMidi ==
  \/ \E c \in Channels : /\ synth' = [synth EXCEPT !.programs[c] = <<0, 1>>]
                         /\ changed' = changed \cup {c}
  \/ UNCHANGED <<synth, changed>>

Midi ==
  /\ block.open /\ block.step = "midi"
  /\ IF Due(block.midi) THEN
       /\ block' = [block EXCEPT !.midi = Tail(@), !.dispatched = TRUE]
       /\ \/ format = "bank" /\ player.loaded /\ DispatchMidi /\ UNCHANGED <<synth, changed>>
          \/ format = "bank" /\ ~player.loaded /\ UNCHANGED <<sounding, synth, changed>>
          \/ format = "soundfont" /\ SynthMidi /\ UNCHANGED sounding
     ELSE /\ block' = [block EXCEPT !.step = "parameters"]
          /\ UNCHANGED <<sounding, synth, changed>>
  /\ UNCHANGED <<regions, pending, soundFont, player, format, settings, selected>>

\* A parameter that is no number is passed over.
Parameter ==
  /\ block.open /\ block.step = "parameters"
  /\ IF Due(block.parameters) THEN
       /\ block' = [block EXCEPT !.parameters = Tail(@), !.dispatched = TRUE]
       /\ \/ \E value \in Volumes : ApplyVolume(value)
          \/ \E value \in Controls : ApplyControl(value)
          \/ UNCHANGED <<volume, control, player, synth>>
     ELSE /\ block' = [block EXCEPT !.step = "render"]
          /\ UNCHANGED <<volume, control, player, synth>>
  /\ UNCHANGED <<regions, sounding, pending, soundFont, format, rate, selected, changed>>

ParametersOnly ==
  /\ block.open /\ NoInstrument
  /\ \/ \E value \in Volumes : ApplyVolume(value)
     \/ \E value \in Controls : ApplyControl(value)
     \/ UNCHANGED <<volume, control, player, synth>>
  /\ block' = Idle
  /\ UNCHANGED <<regions, sounding, pending, soundFont, format, rate, selected, changed>>

Return ==
  /\ block.open /\ block.step = "render" /\ ~block.dispatched
  /\ block' = Idle
  /\ UNCHANGED <<regions, sounding, pending, soundFont, player, synth, format, settings,
                 selected, changed>>

Next ==
  \/ Prepare \/ SetParameter \/ Reset
  \/ BeginResource \/ (pending # None /\ \E piece \in Pieces(pending.file) : WriteResource(piece))
  \/ EndResource \/ LoadPreset
  \/ BeginBlock \/ Render \/ Midi \/ Parameter \/ ParametersOnly \/ Return

Spec == Init /\ [][Next]_vars
-----------------------------------------------------------------------------
(* Correctness.                                                               *)

TypeOK ==
  /\ VoicesTypeOK
  /\ format \in {None, "bank", "soundfont"}
  /\ format = "bank" <=> player # None
  /\ synth # None <=> format = "soundfont"
  /\ format = "soundfont" => soundFont # None
  /\ rate \in Rates /\ volume \in Volumes /\ control \in Controls
  /\ changed \subseteq Channels /\ block.open \in BOOLEAN
  /\ player # None => player.rate = rate /\ player.selected \in Ids(player.library)

\* What is installed is a file as it was sent: every piece, once, in order, however
\* many pieces were lost, repeated or late.
InstalledBanksAreWhole ==
  \A bank \in {soundFont, player} \ {None} :
    bank.pieces = [i \in Pieces(bank.file) |-> i]

\* What the host may ask for exists: the presets published, however little room there
\* was, and the selection, also after the bank it was made in has been replaced.
SelectionIsInTheBank ==
  /\ selected # None => soundFont # None /\ selected \in ToSet(CatalogEntries(soundFont.file))
  /\ format = "soundfont" => \A room \in 0..MaxPresets :
       Catalog(room) \subseteq ToSet(CatalogEntries(soundFont.file))

\* No two instruments of a bank share an identifier, and one that was accepted loads
\* with all its regions.
BanksLoadWhole ==
  player # None =>
    /\ \A i, j \in DOMAIN player.library :
         player.library[i].id = player.library[j].id => i = j
    /\ player.loaded => regions = Entry(player.library, player.selected).map.regions

\* Whatever preset the plugin offers or has selected, it has.
OfferedPresetsExist == SelectionIsInTheBank /\ BanksLoadWhole

\* What is heard of channel c: the synthesizer adds the drum offset for percussion.
Heard(c) == IF c = Percussion
            THEN <<synth.programs[c][1] + Drum, synth.programs[c][2]>>
            ELSE synth.programs[c]

\* The settings the plugin shows are those that sound: the volume and the preset in
\* the synthesizer, the effect control in the loaded instrument, through every rebuild,
\* reset and reload.  A drum kit is also what percussion plays.
SettingsAreHeard ==
  /\ synth # None => synth.volume = volume
  /\ player # None /\ player.loaded => player.control = control
  /\ synth # None /\ selected # None =>
       \A c \in Channels \ changed :
         c # Percussion \/ selected[1] >= Drum => Heard(c) = selected

\* A block that returns has rendered every frame and applied every event, also those
\* that are out of order or beyond its end.
BlocksAreComplete ==
  block.open /\ block.step = "render" /\ ~block.dispatched =>
    block.midi = <<>> /\ block.parameters = <<>> /\ block.position = block.frames
=============================================================================
