------------------------- MODULE ResidentInstrument -------------------------
(***************************************************************************)
(* portable-plugin/src/nki_bank.rs: the instruments of an archive, whose   *)
(* samples are all held whole in memory: Kontakt maps, RF instruments and  *)
(* SFZ documents, from what their files say to the regions that are played.*)
(*                                                                         *)
(* An RF instrument is a record [schema, envelope, zones].  The files of   *)
(* an archive are those of SfzDocument and of the Shelf; how paths are     *)
(* normalised and which archive is refused as a whole is the subject of    *)
(* InstrumentArchive.  Levels, tunings and filters are left out.           *)
(***************************************************************************)
EXTENDS NkiInstrument

CONSTANTS
  LongestStage,     \* the 30 seconds an RF envelope's stage may last, in frames
  MaxSfzRegions,    \* MAX_SFZ_REGIONS
  MaxSelected       \* MAX_SELECTED_SAMPLE_BYTES, in frames

Resting == [c \in Controllers |-> 0]
-----------------------------------------------------------------------------
(* RF instruments.                                                            *)

\* What a zone's layer says.
RfLayers == [sample : Texts, low : Nat, high : Nat, start : Nat, levelled : BOOLEAN]

\* RfEnvelope::validate; the sustained level is a percentage.
ValidEnvelope(e) ==
  /\ {e.attack, e.decay, e.release} \subseteq 0..LongestStage
  /\ e.sustain \in 0..100

\* Anything amiss in a zone or a layer of it refuses the instrument.
ValidZone(zone) ==
  /\ zone.low <= zone.high /\ zone.high <= 127 /\ zone.root \in zone.low..zone.high
  /\ \A n \in DOMAIN zone.override : ValidEnvelope(zone.override[n])
  /\ zone.layers # <<>>
  /\ \A n \in DOMAIN zone.layers :
       LET layer == zone.layers[n] IN
       /\ layer.sample # <<>> /\ layer.levelled
       /\ layer.low > 0 /\ layer.low <= layer.high /\ layer.high <= 127

Staged(e) == [attack |-> e.attack, decay |-> e.decay, full |-> e.sustain >= 100,
              release |-> e.release]

\* One zone to a layer, in the instrument's group or in one of its own, which is added
\* at the end of the groups there are.
LayersOf(groups, zone) ==
  [n \in DOMAIN zone.layers |->
     [sample |-> zone.layers[n].sample, root |-> zone.root, keys |-> zone.low..zone.high,
      velocities |-> zone.layers[n].low..zone.layers[n].high,
      start |-> zone.layers[n].start, loop |-> <<>>,
      group |-> IF zone.override = <<>> THEN 0 ELSE Len(groups)]]

\* into_document: zone by zone.
TakeZone(done, zone) ==
  [zones |-> done.zones \o LayersOf(done.groups, zone),
   groups |-> done.groups \o [n \in DOMAIN zone.override |-> <<Staged(zone.override[n])>>]]
ReadZones(rf) ==
  LET taken[n \in 0..Len(rf.zones)] ==
        IF n = 0 THEN [zones |-> <<>>, groups |-> <<<<Staged(rf.envelope)>>>>]
        ELSE TakeZone(taken[n - 1], rf.zones[n])
  IN taken[Len(rf.zones)]
RfMap(rf) ==
  LET read == ReadZones(rf)
  IN [ok |-> /\ rf.schema <= 1 /\ ValidEnvelope(rf.envelope)
             /\ \A n \in DOMAIN rf.zones : ValidZone(rf.zones[n])
             /\ read.zones # <<>>,
      zones |-> read.zones, groups |-> read.groups]
-----------------------------------------------------------------------------
(* Kontakt and RF maps loaded.                                                *)

\* Samples are found by their file name, at any depth, the shallowest first.
Archived(name) == {path \in DOMAIN Shelf : <<path[Len(path)]>> = name}
SampleOf(name) == CHOOSE p \in Archived(name) : \A q \in Archived(name) : Len(p) <= Len(q)

\* Everything an instrument needs is decoded before it plays; each sample counts once.
Fits(lengths) == MapThenSumSet(LAMBDA s : lengths[s], DOMAIN lengths) <= MaxSelected

\* load_mapped's region and note_on's view of it: a zone's loop, or the sample's own,
\* is kept if it is in the audio, and the zone's start is asked of the voice.
ResidentRegion(map, zone) ==
  LET text == Shelf[SampleOf(zone.sample)]
      audio == AudioFiles[text]
      loop == IF zone.loop # <<>> THEN zone.loop ELSE audio.loop
  IN [keys |-> zone.keys, velocities |-> zone.velocities, center |-> zone.root,
      lowest |-> Min(zone.keys), highest |-> Max(zone.keys),
      sample |-> text, frames |-> audio.frames, head |-> audio.frames,
      loop |-> ReachableLoop(loop, audio.frames, TRUE),
      envelope |-> ZoneEnvelope(map, zone), gates |-> NoGates, start |-> zone.start]

\* load_mapped, of a map that was read and misses no sample.
OpenMapped(map) ==
  IF ~map.ok \/ (\E z \in ToSet(map.zones) : Archived(z.sample) = {}) THEN NoInstrument
  ELSE IF ~Fits([p \in {SampleOf(z.sample) : z \in ToSet(map.zones)} |-> AudioFiles[Shelf[p]].frames])
       THEN NoInstrument
  ELSE [kind |-> "sampled", defaults |-> Resting,
        regions |-> [n \in DOMAIN map.zones |-> ResidentRegion(map, map.zones[n])]]
-----------------------------------------------------------------------------
(* SFZ documents of an archive.                                               *)

\* parse_sfz_map: a document whose every sample is in the archive, and that has one.
ArchivedDocument(path) ==
  LET read == Document(path)
      document == read.document
  IN [ok |-> /\ read.ok /\ Len(document.regions) <= MaxSfzRegions /\ Playable(document) # {}
             /\ \A n \in Playable(document) : SampleText(document, n) \in DOMAIN AudioFiles,
      document |-> document]

\* load_sfz: resident_region of each region that names a sample.
Resident(document, opcodes) ==
  LET audio == AudioFiles[opcodes["sample"]] IN
  [RegionFrom(document, opcodes) EXCEPT
     !.head = audio.frames, !.loop = LoopFrom(opcodes, audio, TRUE)]
OpenArchivedSfz(path) ==
  LET read == ArchivedDocument(path) document == read.document
      needed == {SampleText(document, n) : n \in Playable(document)}
  IN IF ~read.ok THEN NoInstrument
     ELSE IF ~Fits([text \in needed |-> AudioFiles[text].frames]) THEN NoInstrument
     ELSE [kind |-> "sampled", defaults |-> ControlDefaults(document.control),
           regions |-> [n \in Playable(document) |-> Resident(document, document.regions[n])]]

\* catalog_json: the keys a document is said to span, of those its regions state.  A
\* region that has a key is asked for no other.
KeyName(region, name) == IF "key" \in DOMAIN region THEN "key" ELSE name
States(region, name) == HasKey(region, KeyName(region, name))
StatedKeys(document, name) ==
  {ParseNote(r[KeyName(r, name)]) : r \in {r \in ToSet(document.regions) : States(r, name)}}
ToldKeys(document) ==
  LET low == StatedKeys(document, "lokey") high == StatedKeys(document, "hikey") IN
  (IF low = {} THEN 0 ELSE Min(low))..(IF high = {} THEN 127 ELSE Max(high))
=============================================================================
