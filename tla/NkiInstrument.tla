--------------------------- MODULE NkiInstrument ---------------------------
(***************************************************************************)
(* crates/rf-soundfonts-engine/src/nki/document.rs and nki/instrument.rs:  *)
(* a Kontakt instrument's XML document read into a map of zones, group     *)
(* envelopes, vibrato and effects, and the map made an instrument.         *)
(*                                                                         *)
(* The code sees a document as the events of an XML reader, three times    *)
(* over, and keeps its place in flags: a start has a tag and attributes,   *)
(* an end its tag, and an empty element is a <V>, a name and a value.      *)
(* Values are texts, as in SFZ; inflating the document and taking a file   *)
(* name out of Kontakt's path encoding are left out, and so are levels,    *)
(* tunings and effect settings.                                            *)
(***************************************************************************)
EXTENDS SfzInstrument

CONSTANTS
  Shelf,           \* path, a sequence of words -> text of AudioFiles: what lies beside
  SearchDepth,     \* SEARCH_DEPTH
  MinimumRelease   \* MINIMUM_RELEASE_SECONDS, in frames

\* What lies beside is audio that decodes.
ASSUME ShelfAssumption ==
  \A path \in DOMAIN Shelf : Len(path) \in Nat /\ Shelf[path] \in DOMAIN AudioFiles

Attribute(attrs, name) == IF name \in DOMAIN attrs THEN attrs[name] ELSE <<>>

\* entry(name).or_insert(value): the first writer wins.
Keep(map, name, value) == IF name \in DOMAIN map THEN map ELSE Insert(map, name, value)
-----------------------------------------------------------------------------
(* parse: zones and group envelopes.                                          *)

\* zone_from: the zone of the values gathered, <<>> if it cannot be played.
ZoneFrom(values) ==
  LET file == Attribute(values, IF "file_ex2" \in DOMAIN values THEN "file_ex2" ELSE "file")
      Key(name, fallback) == Clamp(0, NumberOr(values, name, fallback), 127)
      Frame(name) == Max({0, NumberOr(values, name, 0)})
      low == Key("lowVelocity", 1)
  IN IF file = <<>> \/ Key("lowKey", 0) > Key("highKey", 127) THEN <<>>
     ELSE <<[sample |-> file, group |-> Frame("groupIdx"), root |-> Key("rootKey", 60),
             keys |-> Key("lowKey", 0)..Key("highKey", 127),
             velocities |-> low..Max({low, Key("highVelocity", 127)}),
             start |-> Frame("sampleStart"),
             loop |-> IF Frame("loopLength") = 0 THEN <<>>
                      ELSE <<Frame("loopStart"), Frame("loopStart") + Frame("loopLength")>>]>>

\* envelope_from: without a release there is no envelope worth taking.
GroupEnvelope(stages) ==
  LET Time(name) == IF NumberOr(stages, name, 0) < 0 THEN 0 ELSE NumberOr(stages, name, 0)
  IN IF NumberOr(stages, "release", -1) < 0 THEN <<>>
     ELSE <<[attack |-> Time("attack"), decay |-> Time("decay"),
             full |-> NumberOr(stages, "sustain", 1) >= 1, release |-> Time("release")]>>

\* What parse holds between two events.
Unread ==
  [zones |-> <<>>, skipped |-> 0, groups |-> <<>>, current |-> <<>>, zoneDepth |-> 0,
   depth |-> 0, envelope |-> <<>>, inGroup |-> FALSE, inModulator |-> FALSE, kind |-> <<>>,
   target |-> <<>>, inEnvelope |-> FALSE, stages |-> <<>>]

MapStart(s, e) ==
  LET t == [s EXCEPT !.depth = @ + 1] group == Attribute(e.attrs, "groupIdx") IN
  CASE e.tag = "K2_Zone" ->
         [t EXCEPT !.zoneDepth = t.depth,
                   !.current = <<IF group = <<>> THEN <<>> ELSE ("groupIdx" :> group)>>]
    [] e.tag = "K2_Group" -> [t EXCEPT !.inGroup = TRUE, !.envelope = <<>>]
    [] e.tag = "K2_IntMod" ->
         [t EXCEPT !.inModulator = TRUE, !.kind = <<>>, !.target = <<>>, !.stages = <<>>]
    [] e.tag = "Envelope" ->
         [t EXCEPT !.inEnvelope = TRUE,
                   !.kind = IF "type" \in DOMAIN e.attrs THEN e.attrs["type"] ELSE @]
    [] OTHER -> t

MapValue(s, e) ==
  CASE s.inEnvelope -> [s EXCEPT !.stages = Keep(@, e.name, e.value)]
    [] ~s.inEnvelope /\ s.inModulator ->
         IF e.name = "target" /\ s.target = <<>> THEN [s EXCEPT !.target = e.value] ELSE s
    [] ~s.inEnvelope /\ ~s.inModulator /\ s.current # <<>> ->
         [s EXCEPT !.current = <<Keep(@[1], e.name, e.value)>>]
    [] OTHER -> s

MapEnd(s, e) ==
  LET t ==
        CASE e.tag = "K2_Zone" /\ s.depth = s.zoneDepth /\ s.current # <<>> ->
               LET zone == ZoneFrom(s.current[1]) IN
               [s EXCEPT !.current = <<>>, !.zones = @ \o zone,
                         !.skipped = @ + (IF zone = <<>> THEN 1 ELSE 0)]
          [] e.tag = "Envelope" -> [s EXCEPT !.inEnvelope = FALSE]
          [] e.tag = "K2_IntMod" ->
               [s EXCEPT !.envelope =
                           IF s.kind = <<"ahdsr">> /\ s.target = <<"volume">> /\ s.inGroup /\ @ = <<>>
                           THEN GroupEnvelope(s.stages) ELSE @,
                         !.inModulator = FALSE, !.kind = <<>>, !.target = <<>>, !.stages = <<>>]
          [] e.tag = "K2_Group" ->
               [s EXCEPT !.groups = Append(@, s.envelope), !.envelope = <<>>, !.inGroup = FALSE]
          [] OTHER -> s
  IN [t EXCEPT !.depth = IF @ = 0 THEN 0 ELSE @ - 1]

MapEvent(s, e) ==
  CASE e.event = "start" -> MapStart(s, e)
    [] e.event = "empty" -> MapValue(s, e)
    [] e.event = "end" -> MapEnd(s, e)
-----------------------------------------------------------------------------
(* parse_group_lfos: the first triangle LFO on the pitch of each group, and   *)
(* the controller that sets how deep it goes.                                 *)

\* The index a group states, or the one after the largest seen.
GroupIndex(e, next) ==
  IF HasNumber(e.attrs, "index") THEN Numbers[e.attrs["index"]] ELSE next

EnterGroup(s, e) ==
  LET index == GroupIndex(e, s.next) IN
  [s EXCEPT !.group = <<index>>, !.next = Max({@, index + 1})]

Unmodulated ==
  [group |-> <<>>, next |-> 0, internal |-> <<>>, external |-> <<>>, inTarget |-> FALSE,
   inLfo |-> FALSE, lfos |-> <<>>, controllers |-> <<>>]

LfoStart(s, e) ==
  CASE e.tag = "K2_Group" -> EnterGroup(s, e)
    [] e.tag = "K2_IntMod" ->
         [s EXCEPT !.internal = IF s.group = <<>> THEN <<>>
                                ELSE <<[at |-> <<s.group[1], NumberOr(e.attrs, "index", 0)>>,
                                        wave |-> <<>>, values |-> <<>>]>>]
    [] e.tag = "K2_ExtMod" ->
         [s EXCEPT !.external = IF s.group = <<>> THEN <<>>
                                ELSE <<[group |-> s.group[1], values |-> <<>>]>>]
    [] e.tag = "Target" /\ s.internal \o s.external # <<>> -> [s EXCEPT !.inTarget = TRUE]
    [] e.tag = "LFO" /\ s.internal # <<>> ->
         [s EXCEPT !.inLfo = TRUE, !.internal[1].wave = Attribute(e.attrs, "type")]
    [] OTHER -> s

\* Which of a modulator's values the code takes, by where they stand.
LfoTakes(s, name) ==
  IF s.internal # <<>>
  THEN name \in (IF s.inLfo THEN {"frequency"} ELSE IF s.inTarget THEN {"target"} ELSE {"bypass"})
  ELSE name \in (IF s.inTarget THEN {"target", "targetObjIdx"} ELSE {"source", "ccNumber", "bypass"})

LfoValue(s, e) ==
  CASE ~LfoTakes(s, e.name) -> s
    [] LfoTakes(s, e.name) /\ s.internal # <<>> ->
         [s EXCEPT !.internal[1].values = Insert(@, e.name, e.value)]
    [] LfoTakes(s, e.name) /\ s.internal = <<>> /\ s.external # <<>> ->
         [s EXCEPT !.external[1].values = Insert(@, e.name, e.value)]
    [] OTHER -> s

LfoEnd(s, e) ==
  CASE e.tag = "Target" -> [s EXCEPT !.inTarget = FALSE]
    [] e.tag = "LFO" -> [s EXCEPT !.inLfo = FALSE]
    [] e.tag = "K2_IntMod" ->
         LET t == [s EXCEPT !.internal = <<>>, !.inTarget = FALSE, !.inLfo = FALSE] IN
         IF s.internal = <<>> THEN t
         ELSE LET draft == s.internal[1] values == draft.values IN
              IF /\ Attribute(values, "bypass") # <<"yes">> /\ draft.wave = <<"triangle">>
                 /\ Attribute(values, "target") = <<"pitch">> /\ HasNumber(values, "frequency")
              THEN [t EXCEPT !.lfos = Keep(@, draft.at, [controller |-> <<>>])]
              ELSE t
    [] e.tag = "K2_ExtMod" ->
         [s EXCEPT !.controllers = @ \o s.external, !.external = <<>>, !.inTarget = FALSE]
    [] e.tag = "K2_Group" -> [s EXCEPT !.group = <<>>]
    [] OTHER -> s

LfoEvent(s, e) ==
  CASE e.event = "start" -> LfoStart(s, e)
    [] e.event = "empty" -> LfoValue(s, e)
    [] e.event = "end" -> LfoEnd(s, e)

\* A controller is given to the LFO it names; the first one stays.
GiveController(lfos, draft) ==
  LET values == draft.values
      at == <<draft.group, NumberOr(values, "targetObjIdx", 0)>>
  IN IF /\ Attribute(values, "bypass") # <<"yes">>
        /\ Attribute(values, "source") = <<"midiCC">>
        /\ Attribute(values, "target") = <<"intensity">>
        /\ HasNumber(values, "targetObjIdx")
        /\ NumberOr(values, "ccNumber", 128) <= 127
        /\ at \in DOMAIN lfos
     THEN [lfos EXCEPT ![at].controller = IF @ = <<>> THEN <<Numbers[values["ccNumber"]]>> ELSE @]
     ELSE lfos

\* Of the LFOs of a group the one with the least index is the group's.
GroupLfos(events) ==
  LET end == FoldLeft(LfoEvent, Unmodulated, events)
      lfos == FoldLeft(GiveController, end.lfos, end.controllers)
      FirstOf(group) == Min({at[2] : at \in {a \in DOMAIN lfos : a[1] = group}})
  IN [group \in {at[1] : at \in DOMAIN lfos} |-> lfos[<<group, FirstOf(group)>>]]
-----------------------------------------------------------------------------
(* parse_effects                                                              *)

Untreated == [group |-> <<>>, next |-> 0, scope |-> <<>>, draft |-> <<>>,
              filters |-> <<>>, program |-> <<>>]

EffectStart(s, e) ==
  CASE e.tag = "K2_Group" -> EnterGroup(s, e)
    [] e.tag \in {"ProgramInsertFX", "ProgramSendFX"} -> [s EXCEPT !.scope = <<e.tag>>]
    [] e.tag = "GroupInsertFX" ->
         [s EXCEPT !.scope = IF s.group = <<>> THEN <<>> ELSE <<e.tag, s.group[1]>>]
    [] e.tag = "K2_Effect" ->
         [s EXCEPT !.draft = IF s.scope = <<>> THEN <<>>
                             ELSE <<[scope |-> s.scope, kind |-> "", type |-> <<>>, values |-> <<>>]>>]
    [] e.tag \in {"Reverb", "Delay", "Filter"} /\ s.draft # <<>> ->
         [s EXCEPT !.draft[1].kind = e.tag,
                   !.draft[1].type = IF "type" \in DOMAIN e.attrs THEN e.attrs["type"] ELSE @]
    [] OTHER -> s

\* append_effect: an insert of a kind the player has, not bypassed.  A send only
\* declares where levels elsewhere may lead, and is not an insert.
AppendEffect(s, draft) ==
  LET group == draft.scope[2]
      chain == IF group \in DOMAIN s.filters THEN s.filters[group] ELSE <<>>
  IN CASE Attribute(draft.values, "bypass") = <<"yes">> -> s
       [] draft.scope[1] = "ProgramInsertFX" /\ draft.kind \in {"Reverb", "Delay"} ->
            [s EXCEPT !.program = Append(@, draft.kind)]
       [] /\ draft.scope[1] = "GroupInsertFX" /\ draft.kind = "Filter"
          /\ draft.type \in {<<"lp2pole">>, <<"hp2pole">>, <<"eq1band">>} ->
            [s EXCEPT !.filters = Insert(@, group, Append(chain, draft.type[1]))]
       [] OTHER -> s

EffectEvent(s, e) ==
  CASE e.event = "start" -> EffectStart(s, e)
    [] e.event = "empty" ->
         IF s.draft = <<>> THEN s ELSE [s EXCEPT !.draft[1].values = Keep(@, e.name, e.value)]
    [] e.event = "end" ->
         CASE e.tag = "K2_Effect" /\ s.draft # <<>> ->
                [AppendEffect(s, s.draft[1]) EXCEPT !.draft = <<>>]
           [] e.tag \in {"ProgramInsertFX", "ProgramSendFX", "GroupInsertFX"} -> [s EXCEPT !.scope = <<>>]
           [] e.tag = "K2_Group" -> [s EXCEPT !.group = <<>>]
           [] OTHER -> s

\* parse: what the first reading holds after the first n events.
ReadMap(events) ==
  LET read[n \in 0..Len(events)] == IF n = 0 THEN Unread ELSE MapEvent(read[n - 1], events[n])
  IN read[Len(events)]

\* The three readings of one document, which has to have a zone.
NkiMap(events) ==
  LET map == ReadMap(events)
      effects == FoldLeft(EffectEvent, Untreated, events)
  IN [ok |-> map.zones # <<>>, zones |-> map.zones, groups |-> map.groups,
      skipped |-> map.skipped, lfos |-> GroupLfos(events),
      filters |-> effects.filters, program |-> effects.program]
-----------------------------------------------------------------------------
(* nki/instrument.rs                                                          *)

\* index_audio_files: the file a name stands for, the shallowest within reach.
Reach(name) == {path \in DOMAIN Shelf : <<path[Len(path)]>> = name /\ Len(path) - 1 <= SearchDepth}
Available(name) == CHOOSE p \in Reach(name) : \A q \in Reach(name) : Len(p) <= Len(q)

\* The envelope of a zone's group, or the default; a note never stops on an edge.
ZoneEnvelope(map, zone) ==
  LET stated == IF zone.group + 1 \in DOMAIN map.groups THEN map.groups[zone.group + 1] ELSE <<>>
      e == IF stated = <<>> THEN [attack |-> 0, decay |-> Forever, full |-> TRUE, release |-> 0]
           ELSE stated[1]
  IN [e EXCEPT !.release = Max({@, MinimumRelease})]

NoGates == [c \in Controllers |-> 0..127]

\* region_from
NkiRegion(map, zone, needed) ==
  LET audio == AudioFiles[Shelf[Available(zone.sample)]]
      head == Preloaded(zone.sample \in needed, audio)
  IN [keys |-> zone.keys, velocities |-> zone.velocities, center |-> zone.root,
      lowest |-> Min(zone.keys), highest |-> Max(zone.keys),
      sample |-> Shelf[Available(zone.sample)], frames |-> audio.frames, head |-> head,
      loop |-> ReachableLoop(zone.loop, audio.frames, head >= audio.frames),
      envelope |-> ZoneEnvelope(map, zone), gates |-> NoGates, start |-> 0]

\* open: zones whose sample is out of reach are reported and left out; a region keeps its
\* zone's place.
OpenNki(events) ==
  LET map == NkiMap(events)
      placed == {n \in DOMAIN map.zones : Reach(map.zones[n].sample) # {}}
      needed == {map.zones[n].sample : n \in {n \in placed : map.zones[n].loop # <<>>}}
  IN IF ~map.ok \/ placed = {} THEN NoInstrument
     ELSE [kind |-> "sampled", defaults |-> [c \in Controllers |-> 0],
           regions |-> [n \in placed |-> NkiRegion(map, map.zones[n], needed)]]
=============================================================================
