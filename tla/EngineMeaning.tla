---------------------------- MODULE EngineMeaning ----------------------------
(***************************************************************************)
(* What the documents mean that the engine reads, stated apart from the    *)
(* walks that read them: an SFZ file from its whole nesting, a Kontakt     *)
(* document from its tree of elements, an RF instrument from its layers.   *)
(*                                                                         *)
(* An element of a Kontakt document is [tag, attrs, body]; a <V> element   *)
(* has only a name and a value.                                            *)
(***************************************************************************)
EXTENDS Engine

CONSTANTS
  Trees   \* the Kontakt documents the reader's events come from

Element(tag, attrs, body) == [tag |-> tag, attrs |-> attrs, body |-> body]
V(name, value) == Element("V", [name |-> name, value |-> value], <<>>)

RECURSIVE Events(_)
\* What the reader reports: an empty element's event, or its start, its body and its end.
Events(element) ==
  IF element.tag = "V"
  THEN <<[event |-> "empty", name |-> element.attrs.name, value |-> element.attrs.value]>>
  ELSE <<[event |-> "start", tag |-> element.tag, attrs |-> element.attrs]>>
         \o FlattenSeq([n \in DOMAIN element.body |-> Events(element.body[n])])
         \o <<[event |-> "end", tag |-> element.tag]>>

ASSUME TreesAssumption == NkiDocuments = [n \in DOMAIN Trees |-> Events(Trees[n])]
-----------------------------------------------------------------------------
(* What an SFZ file means, read from the whole file at once instead of in one *)
(* pass.                                                                      *)

\* The file with its includes in place, macros not yet replaced: the positions before
\* one are what its macros can come from.
RECURSIVE Spliced(_)
Spliced(path) ==
  FlattenSeq([i \in DOMAIN Files[path] |->
    IF Files[path][i].kind = "include"
    THEN Spliced(SubSeq(path, 1, Len(path) - 1) \o Files[path][i].text)
    ELSE <<Files[path][i]>>])

RECURSIVE Meaning(_, _, _)
\* A text at a place: at each word the longest macro defined before the place
\* that begins there, with the meaning its last definition had.
Meaning(tokens, place, text) ==
  IF text = <<>> THEN <<>>
  ELSE LET defined == {i \in 1..(place - 1) :
                         /\ tokens[i].kind = "define" /\ IsPrefix(tokens[i].name, text)}
           longest == {i \in defined : \A j \in defined : Len(tokens[j].name) <= Len(tokens[i].name)}
       IN IF defined = {} THEN <<Head(text)>> \o Meaning(tokens, place, Tail(text))
          ELSE LET last == CHOOSE i \in longest : \A j \in longest : j <= i
                   name == tokens[last].name IN
               Meaning(tokens, last, tokens[last].text)
                 \o Meaning(tokens, place, SubSeq(text, Len(name) + 1, Len(text)))

IsHeader(tokens, i) == tokens[i].kind = "header"

\* The header a token stands under, 0 before the first: an implied global.
Under(tokens, i) ==
  LET headers == {h \in 1..i : IsHeader(tokens, h)}
  IN IF headers = {} THEN 0 ELSE CHOOSE h \in headers : \A j \in headers : j <= h
ScopeAt(tokens, h) == IF h = 0 THEN "global" ELSE ScopeOf(tokens[h].name)

Enclosing == <<"region", "group", "master", "global">>
Outside(level) == {Enclosing[i] : i \in level..4}

\* The opcodes of one level in force for the region whose header is h: those under
\* headers of that level with no header of the level or of an outer one between.
InForce(tokens, h, level) ==
  {i \in DOMAIN tokens :
     /\ tokens[i].kind = "opcode"
     /\ LET own == Under(tokens, i) IN
        IF level = 1 THEN own = h
        ELSE /\ own < h /\ ScopeAt(tokens, own) = Enclosing[level]
             /\ \A k \in (own + 1)..h :
                  IsHeader(tokens, k) => ScopeAt(tokens, k) \notin (Outside(level) \ {"region"})}

\* What a region says of an opcode: the innermost level that has it, its last value.
Said(tokens, h, name) ==
  LET Of(level) == {i \in InForce(tokens, h, level) : tokens[i].name = name}
      inner == CHOOSE level \in 1..4 :
                 Of(level) # {} /\ \A other \in 1..(level - 1) : Of(other) = {}
      last == CHOOSE i \in Of(inner) : \A j \in Of(inner) : j <= i
  IN Meaning(tokens, last, tokens[last].text)

\* The regions of a file, leaving out those that state nothing of their own.
Regions(path) ==
  LET tokens == Spliced(path)
      headers == SetToSortSeq({h \in DOMAIN tokens :
                   IsHeader(tokens, h) /\ ScopeAt(tokens, h) = "region"
                   /\ InForce(tokens, h, 1) # {}}, <)
      names(h) == {tokens[i].name : i \in UNION {InForce(tokens, h, level) : level \in 1..4}}
  IN [n \in DOMAIN headers |-> [name \in names(headers[n]) |-> Said(tokens, headers[n], name)]]

\* The files a file includes, over so many levels.
RECURSIVE IncludedAt(_, _)
IncludedAt(path, level) ==
  IF level = 0 THEN {path}
  ELSE UNION {{SubSeq(p, 1, Len(p) - 1) \o t.text : t \in {t \in ToSet(Files[p]) : t.kind = "include"}} :
                p \in IncludedAt(path, level - 1) \cap DOMAIN Files}

\* What a document may be: nothing it includes is missing, its includes come to an end
\* within the levels allowed, what they give is no longer than allowed, and it has a region.
Acceptable(path) ==
  /\ IncludedAt(path, MaxIncludeDepth + 1) = {}
  /\ \A level \in 0..MaxIncludeDepth : IncludedAt(path, level) \subseteq DOMAIN Files
  /\ Len(SelectSeq(Spliced(path), LAMBDA t : t.kind # "define")) <= MaxExpanded
  /\ Regions(path) # <<>>
-----------------------------------------------------------------------------
(* What a document says, read from the tree.                                  *)

RECURSIVE Within(_)
\* An element and everything in it, in document order.
Within(element) ==
  <<element>> \o FlattenSeq([n \in DOMAIN element.body |-> Within(element.body[n])])

Tagged(element, tag) == SelectSeq(Within(element), LAMBDA e : e.tag = tag)
Inside(element, tag) == FlattenSeq([n \in DOMAIN element.body |-> Tagged(element.body[n], tag)])
IsValue(e) == e.tag = "V"
OwnValues(element) == SelectSeq(element.body, IsValue)

\* The first value of a name.
Stated(values, name) ==
  LET named == SelectSeq(values, LAMBDA v : v.attrs.name = name) IN
  IF named = <<>> THEN <<>> ELSE named[1].attrs.value
Number0(text) == IF text \in DOMAIN Numbers THEN Numbers[text] ELSE 0

RECURSIVE ValuesApart(_, _)
\* The values in an element, but for those in elements of some tags.
ValuesApart(element, tags) ==
  FlattenSeq([n \in DOMAIN element.body |->
    LET e == element.body[n] IN
    IF e.tag \in tags THEN <<>> ELSE IF IsValue(e) THEN <<e>> ELSE ValuesApart(e, tags)])

\* A zone's own values are those outside its modulators.
ZoneSays(element) ==
  LET own == ValuesApart(element, {"K2_IntMod", "Envelope"}) IN
  [sample |-> Stated(own, "file"), start |-> Number0(Stated(own, "sampleStart")),
   group |-> Number0(Attribute(element.attrs, "groupIdx")),
   loopLength |-> Number0(Stated(own, "loopLength"))]

\* A group's envelope: the release of its first modulator that shapes the volume.
ShapesVolume(modulator) ==
  /\ Inside(modulator, "Envelope") # <<>>
  /\ Attribute(Inside(modulator, "Envelope")[1].attrs, "type") = <<"ahdsr">>
  /\ Stated(ValuesApart(modulator, {"Envelope"}), "target") = <<"volume">>
  /\ Stated(ValuesApart(Inside(modulator, "Envelope")[1], {}), "release") \in DOMAIN Numbers
GroupSays(element) ==
  LET shapes == SelectSeq(Inside(element, "K2_IntMod"), ShapesVolume) IN
  IF shapes = <<>> THEN <<>>
  ELSE <<Number0(Stated(ValuesApart(Inside(shapes[1], "Envelope")[1], {}), "release"))>>

\* A group's filters, and the program's effects: what stands in its inserts.
Bypassed(effect) == Stated(ValuesApart(effect, {}), "bypass") = <<"yes">>
InsertsOf(element, tag) ==
  SelectSeq(FlattenSeq([n \in DOMAIN Inside(element, tag) |-> Inside(Inside(element, tag)[n], "K2_Effect")]),
            LAMBDA e : ~Bypassed(e))
FilterTypes(element) ==
  LET filters == FlattenSeq([n \in DOMAIN InsertsOf(element, "GroupInsertFX") |->
                   Inside(InsertsOf(element, "GroupInsertFX")[n], "Filter")])
  IN [n \in DOMAIN filters |-> filters[n].attrs["type"][1]]
ProgramKinds(tree) ==
  LET inserts == InsertsOf(tree, "ProgramInsertFX") IN
  [n \in DOMAIN inserts |-> (Inside(inserts[n], "Reverb") \o Inside(inserts[n], "Delay"))[1].tag]

\* The controllers that set the depth of an LFO of the group: only those not bypassed.
LfoSays(element) ==
  LET Plays(m) == /\ Inside(m, "LFO") # <<>> /\ Stated(OwnValues(m), "bypass") # <<"yes">>
                  /\ Attribute(Inside(m, "LFO")[1].attrs, "type") = <<"triangle">>
                  /\ Stated(ValuesApart(m, {"LFO"}), "target") = <<"pitch">>
      lfos == SelectSeq(Inside(element, "K2_IntMod"), Plays)
      least == Min({Number0(Attribute(lfos[n].attrs, "index")) : n \in DOMAIN lfos})
      Drives(m) == /\ Stated(OwnValues(m), "bypass") # <<"yes">>
                   /\ Stated(ValuesApart(m, {}), "target") = <<"intensity">>
                   /\ Number0(Stated(ValuesApart(m, {}), "targetObjIdx")) = least
                   /\ Stated(OwnValues(m), "source") = <<"midiCC">>
      drivers == SelectSeq(Inside(element, "K2_ExtMod"), Drives)
  IN IF lfos = <<>> THEN "none"
     ELSE IF drivers = <<>> THEN "alone" ELSE ToString(Number0(Stated(OwnValues(drivers[1]), "ccNumber")))

\* The map read in three passes is what the tree says: zones from their own values,
\* each group's envelope, vibrato and filters by its place, the program's inserts in
\* order.  Groups here state no index of their own other than their place.
SaysWhatTheTreeSays(map, tree) ==
  LET groups == Tagged(tree, "K2_Group")
      zones == SelectSeq(Tagged(tree, "K2_Zone"), LAMBDA z : ZoneSays(z).sample # <<>>)
  IN /\ [n \in DOMAIN map.zones |->
           [sample |-> map.zones[n].sample, start |-> map.zones[n].start, group |-> map.zones[n].group,
            loopLength |-> IF map.zones[n].loop = <<>> THEN 0 ELSE map.zones[n].loop[2] - map.zones[n].loop[1]]]
          = [n \in DOMAIN zones |-> ZoneSays(zones[n])]
     /\ [n \in DOMAIN map.groups |-> IF map.groups[n] = <<>> THEN <<>> ELSE <<map.groups[n][1].release>>]
          = [n \in DOMAIN groups |-> GroupSays(groups[n])]
     /\ map.program = ProgramKinds(tree)
     /\ \A n \in DOMAIN groups :
          /\ (IF n - 1 \in DOMAIN map.filters THEN map.filters[n - 1] ELSE <<>>) = FilterTypes(groups[n])
          /\ (IF n - 1 \notin DOMAIN map.lfos THEN "none"
              ELSE IF map.lfos[n - 1].controller = <<>> THEN "alone"
              ELSE ToString(map.lfos[n - 1].controller[1])) = LfoSays(groups[n])
MapSaysWhatTheTreeSays(tree) == SaysWhatTheTreeSays(NkiMap(Events(tree)), tree)
-----------------------------------------------------------------------------
\* What an RF instrument says is what is played: each layer of each zone in its order,
\* under the zone's own envelope if it has one, else under the instrument's.
MapSaysWhatTheInstrumentSays(rf) ==
  LET map == RfMap(rf)
      Layers(zone) == [n \in DOMAIN zone.layers |->
        <<zone.layers[n].sample, zone.low..zone.high, zone.layers[n].low..zone.layers[n].high,
          Staged(IF zone.override = <<>> THEN rf.envelope ELSE zone.override[1])>>]
  IN map.ok =>
       [n \in DOMAIN map.zones |->
          <<map.zones[n].sample, map.zones[n].keys, map.zones[n].velocities,
            map.groups[map.zones[n].group + 1][1]>>]
         = FlattenSeq([n \in DOMAIN rf.zones |-> Layers(rf.zones[n])])
-----------------------------------------------------------------------------
\* What a file means is what is played: an SFZ document is refused for its includes, its
\* size or its want of regions and for nothing else, every region of an SFZ document has for each
\* opcode the innermost value in force with the macros as they stood there
\* (preprocess.rs and parse.rs do it in one pass, in document order), no key sounds
\* outside the range told, every zone, envelope, vibrato and effect of a Kontakt map is
\* the tree's, and every layer of an RF instrument has its own envelope.
DocumentsMeanWhatTheySay ==
  ~Started =>
    CASE source[1] \in {"sfz", "archive"} ->
           /\ Document(source[2]).ok = Acceptable(source[2])
           /\ Acceptable(source[2]) =>
                /\ Document(source[2]).document.regions = Regions(source[2])
                /\ KeysSoundWhereTold
      [] source[1] \in {"nki", "resident"} -> MapSaysWhatTheTreeSays(Trees[source[2]])
      [] source[1] = "rf" ->
           MapSaysWhatTheInstrumentSays(RfInstruments[source[2]]) /\ LayersSoundAsSaid
      [] OTHER -> TRUE
=============================================================================
