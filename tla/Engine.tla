------------------------------- MODULE Engine -------------------------------
(***************************************************************************)
(* The engine from a file to a sounding voice: a source is opened (an SFZ  *)
(* document, a DLS collection, a Kontakt instrument, or an instrument of   *)
(* an archive, which is held whole in memory), keys are pressed on it, and *)
(* one of the voices a key starts is followed to its end, as the pool that *)
(* holds it renders it frame by frame.                                     *)
(***************************************************************************)
EXTENDS Voice, ResidentInstrument, DlsBank

CONSTANTS
  Collections,   \* DLS files, as cells
  NkiDocuments,  \* Kontakt documents, as the events of a reader
  RfInstruments, \* RF instruments
  Followed,      \* the sources whose voices are followed
  Notes, Velocities, Settings,   \* keys, velocities and controller values played
  Bases          \* increments the pitch of a key can give

ASSUME EngineAssumption ==
  /\ \A n \in DOMAIN Collections : Collections[n] \in Seq([code : STRING, value : Nat])
  /\ \A n \in DOMAIN NkiDocuments :
       /\ Len(NkiDocuments[n]) \in Nat
       /\ \A i \in 1..Len(NkiDocuments[n]) : NkiDocuments[n][i].event \in {"start", "empty", "end"}
  /\ \A n \in DOMAIN RfInstruments :
       /\ Len(RfInstruments[n].zones) \in Nat
       /\ \A i \in 1..Len(RfInstruments[n].zones) :
            LET zone == RfInstruments[n].zones[i] IN
            /\ zone.layers \in Seq(RfLayers)
            /\ zone.override = <<>> \/ zone.override = <<zone.override[1]>>
  /\ Bases \subseteq Nat

VARIABLES
  source,        \* what was opened last, <<kind, which>>
  instrument,    \* what it loaded as
  cc,            \* controllers
  refused        \* a key whose voice could not be built, in this instrument

engineVars == <<source, instrument, cc, refused>>
vars == <<source, instrument, cc, refused, voiceVars>>

Init ==
  /\ source = <<"none">> /\ instrument = NoInstrument /\ cc = Resting /\ refused = FALSE
  /\ VoiceInit

\* A source is opened, and stays; controllers start at its defaults.
Install(from, loaded) ==
  /\ source = <<"none">>
  /\ source' = from /\ instrument' = loaded /\ UNCHANGED refused
  /\ cc' = IF loaded.kind = "sampled" THEN loaded.defaults ELSE Resting
  /\ UNCHANGED voiceVars

\* SampledInstrument::open
OpenDocument == \E path \in DOMAIN Files : Install(<<"sfz", path>>, OpenSfz(path))

\* DlsBank::open
OpenBank ==
  \E n \in DOMAIN Collections :
    LET bank == ParseBank(Collections[n], Forever) IN
    Install(<<"dls", n>>, IF bank.ok THEN [kind |-> "dls", bank |-> bank] ELSE NoInstrument)

\* nki::instrument::open
OpenMap == \E n \in DOMAIN NkiDocuments : Install(<<"nki", n>>, OpenNki(NkiDocuments[n]))

\* The instruments of an archive, loaded by the portable player.
LoadMapped ==
  \/ \E n \in DOMAIN NkiDocuments : Install(<<"resident", n>>, OpenMapped(NkiMap(NkiDocuments[n])))
  \/ \E n \in DOMAIN RfInstruments : Install(<<"rf", n>>, OpenMapped(RfMap(RfInstruments[n])))
LoadSfz == \E path \in DOMAIN Files : Install(<<"archive", path>>, OpenArchivedSfz(path))

\* set_midi: a controller moves.
Control ==
  /\ ~Started
  /\ \E c \in Controllers, value \in Settings : cc' = [cc EXCEPT ![c] = value]
  /\ UNCHANGED <<source, instrument, refused, voiceVars>>

\* A bug to catch: where the voice starts is taken unchecked.
StrikeAnywhere(waves, shape, start) ==
  IF waves = {} \/ \E w \in waves : ~ValidLoop(w)
  THEN refused' = TRUE /\ UNCHANGED voiceVars
  ELSE /\ \E w \in waves, b \in Bases : StartVoice(w, b, shape, start)
       /\ UNCHANGED refused

\* from_wave: the voice of a region, or its refusal.
Strike(waves, shape, start) ==
  IF waves = {} \/ \E w \in waves : ~ValidLoop(w) \/ start >= w.frames
  THEN refused' = TRUE /\ UNCHANGED voiceVars
  ELSE /\ \E w \in waves, b \in Bases : StartVoice(w, b, shape, start)
       /\ UNCHANGED refused

\* voices_for_note, of a sampled instrument and of a collection's.
KeyDown ==
  /\ ~Started /\ ~refused /\ source \in Followed
  /\ \E note \in Notes, velocity \in Velocities :
       \/ /\ instrument.kind = "sampled"
          /\ \E r \in SfzRegions(instrument, note, velocity, cc) :
               Strike(SfzWaves(r), r.envelope, r.start)
       \/ /\ instrument.kind = "dls"
          /\ \E n \in DOMAIN instrument.bank.instruments :
               LET played == instrument.bank.instruments[n] IN
               \E r \in Matching(played, note, velocity) :
                 Strike(DlsWaves(instrument.bank, r), played.envelope, 0)
  /\ UNCHANGED <<source, instrument, cc>>

Play == VoiceNext /\ UNCHANGED engineVars

Next ==
  \/ OpenDocument \/ OpenBank \/ OpenMap \/ LoadMapped \/ LoadSfz
  \/ Control \/ KeyDown \/ Play

\* The host asks for block after block, and each block renders every voice held.
Spec == Init /\ [][Next]_vars /\ WF_vars(NextFrame /\ UNCHANGED engineVars)
-----------------------------------------------------------------------------
\* What loads can be played: a collection is whole however its file was damaged, and no
\* key of a loaded instrument is refused its voice.  The parameters of a DLS region are
\* the exception, which are not checked before its note is played, and so is a zone of
\* an archive that starts past its audio.
LoadedInstrumentsPlay ==
  /\ instrument.kind = "dls" /\ ~Started => WholeBank(instrument.bank)
  /\ refused /\ source[1] # "dls" =>
       \E r \in ToSet(instrument.regions) : r.start >= r.frames

\* The keys the surface is told a document spans: summary's of an instrument on disk, and
\* catalog_json's of one in an archive.
Told ==
  IF source[1] = "sfz" THEN Summary(instrument).lowest..Summary(instrument).highest
  ELSE ToldKeys(Document(source[2]).document)

\* No key that sounds is outside the range the surface is told, whatever the controllers,
\* if every region of an archive's document states its keys where catalog_json looks.
KeysSoundWhereTold ==
  /\ source[1] \in {"sfz", "archive"} /\ instrument.kind = "sampled"
  /\ source[1] = "archive" =>
       \A r \in ToSet(Document(source[2]).document.regions) : States(r, "lokey") /\ States(r, "hikey")
  => \A note \in Notes, velocity \in Velocities :
       SfzRegions(instrument, note, velocity, cc) # {} => note \in Told

\* How a region sounds, and how a layer of an RF instrument is to: under its zone's own
\* envelope if that has one, else under the instrument's, released no faster than a voice
\* ever is.
Heard(r) == <<r.sample, r.keys, r.velocities, r.start, r.envelope>>
HeardAs(rf, zone, layer) ==
  LET e == Staged(IF zone.override = <<>> THEN rf.envelope ELSE zone.override[1])
  IN <<Shelf[SampleOf(layer.sample)], zone.low..zone.high, layer.low..layer.high, layer.start,
       [e EXCEPT !.release = Max({@, MinimumRelease})]>>
LayersOfZone(rf, zone) == {HeardAs(rf, zone, zone.layers[j]) : j \in DOMAIN zone.layers}

\* An RF instrument plays its layers and nothing else: however many zones add an envelope
\* to the groups, no layer gets another zone's.
LayersSoundAsSaid ==
  source[1] = "rf" /\ instrument.kind = "sampled" =>
    LET rf == RfInstruments[source[2]] IN
    {Heard(r) : r \in ToSet(instrument.regions)}
      = UNION {LayersOfZone(rf, rf.zones[i]) : i \in 1..Len(rf.zones)}
=============================================================================
