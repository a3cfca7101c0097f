------------------------------ MODULE DlsBank ------------------------------
(***************************************************************************)
(* crates/rf-soundfonts-engine/src/lib.rs: a DLS collection read from its  *)
(* file.                                                                   *)
(*                                                                         *)
(* A file is a sequence of cells.  A cell is a four-letter code or a       *)
(* number, each standing for one field of the format; a chunk's size       *)
(* counts cells, an odd size is followed by a cell of padding, and audio   *)
(* is as many cells as it has samples.  Names, levels and tunings are left *)
(* out.                                                                    *)
(***************************************************************************)
EXTENDS Integers, SequencesExt

CONSTANTS
  MaxNesting   \* 12 levels

\* Four letters, read as a number, are larger than any file.
Code(id) == [code |-> id, value |-> 1000000]
Number(n) == [code |-> "", value |-> n]

Field(data, n) == data[n + 1].value
From(data, n) == SubSeq(data, n + 1, Len(data))
Error == [ok |-> FALSE]

\* collect::<Result<Vec<_>, _>>: all of them, or the error.
AllOk(results) == \A n \in DOMAIN results : results[n].ok
-----------------------------------------------------------------------------
\* A chunk at a place, with what its container, if it is one, holds.
IsContainer(id) == id \in {"RIFF", "LIST"}
ChunkAt(file, start, children) ==
  LET id == file[start + 1].code
      payload == IF IsContainer(id) THEN start + 3 ELSE start + 2
  IN [id |-> id, kind |-> IF IsContainer(id) THEN file[start + 3].code ELSE "",
      start |-> payload, data |-> SubSeq(file, payload + 1, start + 2 + file[start + 2].value),
      children |-> children]

\* parse_chunks: the chunks between two places of the file, each within its container;
\* parsed is what it gives for the places inside and behind.
Span(start, end, depth) == [start |-> start, end |-> end, depth |-> depth]
ChunksIn(file, parsed, at) ==
  LET container == IsContainer(file[at.start + 1].code)
      size == file[at.start + 2].value
      to == at.start + 2 + size
      next == to + (size % 2)
      inside == IF container THEN parsed[Span(at.start + 3, to, at.depth + 1)]
                ELSE [ok |-> TRUE, chunks |-> <<>>]
      others == parsed[Span(next, at.end, at.depth)]
  IN IF at.depth > MaxNesting THEN Error
     ELSE IF at.start >= at.end THEN [ok |-> TRUE, chunks |-> <<>>]
     ELSE IF at.end - at.start < 2 THEN Error
     ELSE IF to > at.end \/ (container /\ size < 1) THEN Error
     ELSE IF ~inside.ok \/ next > at.end THEN Error
     ELSE IF ~others.ok THEN Error
     ELSE [ok |-> TRUE,
           chunks |-> <<ChunkAt(file, at.start, inside.chunks)>> \o others.chunks]
Spans(file) == [start : 0..Len(file), end : 0..Len(file), depth : Nat]
ParseChunks(file) ==
  LET parsed[at \in Spans(file)] == ChunksIn(file, parsed, at) IN parsed[Span(0, Len(file), 0)]

\* Chunk::child and Chunk::list: the first of the children, as a sequence of at most one.
FirstOf(chunks, places) == IF places = {} THEN <<>> ELSE <<chunks[Min(places)]>>
Child(chunk, id) == FirstOf(chunk.children, {n \in DOMAIN chunk.children : chunk.children[n].id = id})
Listed(chunk, kinds) == {n \in DOMAIN chunk.children : chunk.children[n].kind \in kinds}
List(chunk, kind) == FirstOf(chunk.children, Listed(chunk, {kind}))

\* The data of a child that has to be there, of a least size; <<>> if it is not.
Required(chunk, id, size) ==
  LET child == Child(chunk, id) IN
  IF child # <<>> /\ Len(child[1].data) >= size THEN child[1].data ELSE <<>>
-----------------------------------------------------------------------------
\* parse_wsmp: header size, unity note, three fields left out, loop count; then the
\* loop's size, type, start and length.
ParseWsmp(data) ==
  LET header == Field(data, 0)
      loops == Field(data, 5)
      looped == From(data, header)
  IN IF Len(data) < 6 \/ header \notin 6..Len(data) THEN Error
     ELSE IF loops = 0 THEN [ok |-> TRUE, unity |-> Field(data, 1), loop |-> <<>>]
     ELSE IF Len(looped) < 4 \/ Field(looped, 0) < 4 \/ header + Field(looped, 0) > Len(data)
     THEN Error
     ELSE IF Field(looped, 1) > 1 THEN Error
     ELSE [ok |-> TRUE, unity |-> Field(data, 1),
           loop |-> <<Field(looped, 2), Field(looped, 2) + Field(looped, 3)>>]

\* The optional wsmp of a wave or of a region.
NoParams == [ok |-> TRUE, unity |-> 0, loop |-> <<>>]
Params(chunk) ==
  LET wsmp == Child(chunk, "wsmp") IN
  IF wsmp = <<>> THEN [given |-> FALSE, params |-> NoParams]
  ELSE [given |-> TRUE, params |-> ParseWsmp(wsmp[1].data)]

\* parse_wave: fmt is tag, channels, rate, align and bits; data is whole frames.
ParseWave(chunk) ==
  LET format == Required(chunk, "fmt ", 5)
      audio == Required(chunk, "data", 1)
      channels == Field(format, 1)
      frames == Len(audio) \div channels
      wsmp == Params(chunk)
      loop == wsmp.params.loop
  IN IF format = <<>> THEN Error
     ELSE IF Field(format, 0) # 1 \/ channels \notin 1..2 \/ Field(format, 4) # 16 THEN Error
     ELSE IF Field(format, 3) # channels * 2 \/ Field(format, 2) = 0 THEN Error
     ELSE IF audio = <<>> \/ Len(audio) % channels # 0 \/ ~wsmp.params.ok THEN Error
     ELSE IF loop # <<>> /\ (loop[1] >= loop[2] \/ loop[2] > frames) THEN Error
     ELSE [ok |-> TRUE, frames |-> frames, given |-> wsmp.given, params |-> wsmp.params]

\* parse_region: rgnh is key and velocity ranges, options and group; wlnk names a wave that
\* has to be in the collection.
ParseRegion(chunk, waves) ==
  LET header == Required(chunk, "rgnh", 6)
      link == Required(chunk, "wlnk", 4)
      wsmp == Params(chunk)
  IN IF header = <<>> \/ link = <<>> THEN Error
     ELSE IF Field(link, 3) >= waves \/ ~wsmp.params.ok THEN Error
     ELSE [ok |-> TRUE, keys |-> Field(header, 0)..Field(header, 1),
           velocities |-> Field(header, 2)..Field(header, 3),
           wave |-> Field(link, 3), given |-> wsmp.given, params |-> wsmp.params]

\* apply_articulation_connection, for the amplitude envelope: a connection is source,
\* control, destination and scale, the scale in frames; the last of a kind counts.
Connect(envelope, connection) ==
  IF connection[1].value # 0 \/ connection[2].value # 0 THEN envelope
  ELSE CASE connection[3].code = "attack" -> [envelope EXCEPT !.attack = connection[4].value]
         [] connection[3].code = "decay" -> [envelope EXCEPT !.decay = connection[4].value]
         [] connection[3].code = "release" -> [envelope EXCEPT !.release = connection[4].value]
         [] connection[3].code = "sustain" ->
              [envelope EXCEPT !.full = connection[4].value >= 1000]
         [] OTHER -> envelope

\* parse_articulation, with what an instrument without one gets.
ParseArticulation(chunk, forever) ==
  LET plain == [ok |-> TRUE,
                envelope |-> [attack |-> 0, decay |-> forever, full |-> TRUE, release |-> 0]]
      articulators == List(chunk, "lar2") \o List(chunk, "lart")
      art == IF articulators = <<>> THEN <<>>
             ELSE Child(articulators[1], "art2") \o Child(articulators[1], "art1")
      data == art[1].data
      header == Field(data, 0)
      count == Field(data, 1)
      Connection(n) == SubSeq(data, header + 4 * n + 1, header + 4 * n + 4)
  IN IF art = <<>> THEN plain
     ELSE IF Len(data) < 2 THEN Error
     ELSE IF header < 2 \/ header + 4 * count > Len(data) THEN Error
     ELSE [plain EXCEPT !.envelope =
             FoldLeft(Connect, @, [n \in 1..count |-> Connection(n - 1)])]

\* parse_instrument: insh is the number of regions, bank and program.  Each region keeps
\* its place in the list.
ParseInstrument(chunk, waves, forever) ==
  LET header == Required(chunk, "insh", 3)
      list == List(chunk, "lrgn")
      regions == Listed(list[1], {"rgn ", "rgn2"})
      parsed == [n \in regions |-> ParseRegion(list[1].children[n], waves)]
      articulation == ParseArticulation(chunk, forever)
  IN IF header = <<>> \/ list = <<>> THEN Error
     ELSE IF ~AllOk(parsed) THEN Error
     ELSE IF Cardinality(regions) # Field(header, 0) \/ ~articulation.ok THEN Error
     ELSE [ok |-> TRUE, regions |-> parsed, envelope |-> articulation.envelope,
           bank |-> Field(header, 1), program |-> Field(header, 2)]

\* DlsBank::parse, the waves: ptbl is its header size, the number of cues and the cues,
\* which select waves by where their LIST chunk begins in the pool.
ParseWaves(root) ==
  LET pool == Required(root, "ptbl", 2)
      header == Field(pool, 0)
      count == Field(pool, 1)
      list == List(root, "wvpl")
      chunks == Listed(list[1], {"wave"})
      parsed == [n \in chunks |-> ParseWave(list[1].children[n])]
      Selected(cue) == {n \in chunks : list[1].children[n].start - 3 - list[1].start = cue}
      places == [n \in 1..count |-> Selected(Field(pool, header + n - 1))]
  IN IF pool = <<>> THEN Error
     ELSE IF header < 2 \/ header + count > Len(pool) \/ list = <<>> THEN Error
     ELSE IF ~AllOk(parsed) \/ (\E n \in 1..count : places[n] = {}) THEN Error
     ELSE [ok |-> TRUE, waves |-> [n \in 1..count |-> parsed[Max(places[n])]]]

\* DlsBank::parse: one RIFF DLS, its waves, and instruments that play them.
ParseBank(file, forever) ==
  LET tree == ParseChunks(file)
      root == tree.chunks[1]
      read == ParseWaves(root)
      list == List(root, "lins")
      loaded == [n \in Listed(list[1], {"ins "}) |->
                   ParseInstrument(list[1].children[n], Len(read.waves), forever)]
  IN IF ~tree.ok THEN Error
     ELSE IF Len(tree.chunks) # 1 THEN Error
     ELSE IF root.id # "RIFF" \/ root.kind # "DLS " \/ ~read.ok THEN Error
     ELSE IF list = <<>> THEN Error
     ELSE IF ~AllOk(loaded) \/ DOMAIN loaded = {} \/ read.waves = <<>> THEN Error
     ELSE [ok |-> TRUE, instruments |-> loaded, waves |-> read.waves]
-----------------------------------------------------------------------------
\* matching_regions
Matching(instrument, note, velocity) ==
  {r \in ToSet(instrument.regions) : note \in r.keys /\ velocity \in r.velocities}

\* new_with_config: a region's own parameters before its wave's, and one of them has to
\* be there; the rest is from_wave's check, <<>> if the voice is refused.
DlsWaves(bank, region) ==
  LET wave == bank.waves[region.wave + 1]
      params == IF region.given THEN region.params ELSE wave.params
  IN IF ~(region.given \/ wave.given) \/ params.unity > 127 THEN {}
     ELSE {[frames |-> wave.frames, head |-> wave.frames, stream |-> "none", loop |-> params.loop]}

\* A collection is whole: every wave of it has audio, a wave's own loop is in its audio,
\* and every region plays a wave that is there.
WholeBank(bank) ==
  /\ \A n \in DOMAIN bank.waves :
       LET w == bank.waves[n] IN
       w.frames > 0 /\ (w.params.loop # <<>> => w.params.loop[1] < w.params.loop[2]
                                                /\ w.params.loop[2] <= w.frames)
  /\ \A n \in DOMAIN bank.instruments : \A r \in ToSet(bank.instruments[n].regions) :
       r.wave + 1 \in DOMAIN bank.waves
=============================================================================
