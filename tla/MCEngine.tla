------------------------------ MODULE MCEngine ------------------------------
(* Small files of each kind, and damaged copies of a collection. *)
EXTENDS EngineMeaning

T(word) == <<word>>

\* The templates of a real library: a body included once for each key, with the macros
\* redefined before it; masters and groups that come and go; an include in a folder.
MCFiles ==
  (<<"template.sfz">> :>
     <<Header("control"), Opcode("set_cc1", T("64")),
       Header("global"), Opcode("lovel", T("1")), Opcode("ampeg_release", T("2")),
       Header("master"), Opcode("hivel", T("100")),
       Header("group"), Opcode("locc1", T("64")),
       Define(<<"$K">>, T("60")), Define(<<"$K", "T">>, T("64")),
       Header("region"), Include(<<"data", "body">>),
       Header("region"), Opcode("key", <<"$K", "T">>), Opcode("sample", T("long")),
       Header("master"), Opcode("hicc1", T("100")),
       Define(<<"$K">>, T("c4")),
       Header("region"), Include(<<"data", "body">>)>>)
  @@ (<<"data", "body">> :>
     <<Opcode("key", <<"$K">>), Include(<<"rest">>)>>)
  @@ (<<"data", "rest">> :>
     <<Opcode("sample", T("ring")), Opcode("loop_mode", T("loop_continuous"))>>)
  @@ (<<"loops.sfz">> :>
     <<Opcode("hikey", T("64")), Define(<<"$S">>, T("long")),
       Header("group"), Opcode("sample", <<"$S">>),
       Header("region"), Opcode("loop_start", T("1")), Opcode("loopend", T("4")),
       Header("curve"), Opcode("curve_index", T("1")), Opcode("v000", T("0")),
       Header("effect"), Opcode("sample", T("ring")),
       Header("group"), Opcode("lokey", T("60")),
       Header("region"), Opcode("sample", T("short")),
       Opcode("loop_start", T("1")), Opcode("loop_end", T("2")), Opcode("ampeg_release", T("1")),
       Header("region"), Opcode("sample", T("long")), Opcode("ampeg_attack", T("1")),
       Opcode("ampeg_decay", T("2")), Opcode("ampeg_sustain", T("0")),
       Header("region"),
       Header("global"), Opcode("lokey", T("64")),
       Header("region"), Opcode("sample", T("short")), Opcode("key", T("60"))>>)
  @@ (<<"data", "three">> :>
     <<Opcode("lokey", T("60")), Opcode("hikey", T("60")), Opcode("sample", T("ring"))>>)
  @@ (<<"data", "fifteen">> :> [n \in 1..5 |-> Include(<<"three">>)])
  @@ (<<"data", "full">> :> <<Include(<<"fifteen">>), Include(<<"fifteen">>)>>)
  @@ (<<"full.sfz">> :> <<Header("region"), Include(<<"data", "full">>)>>)
  @@ (<<"over.sfz">> :> <<Header("region"), Include(<<"data", "full">>), Opcode("hikey", T("64"))>>)
  @@ (<<"deep.sfz">> :> <<Header("region"), Include(<<"data", "deep">>)>>)
  @@ (<<"data", "deep">> :> <<Include(<<"full">>)>>)
  @@ (<<"gone.sfz">> :>
     <<Header("region"), Opcode("sample", T("ring")), Include(<<"data", "none">>)>>)
  @@ (<<"cycle.sfz">> :> <<Header("region"), Opcode("key", T("60")), Include(<<"cycle.sfz">>)>>)
  @@ (<<"lost.sfz">> :> <<Header("region"), Opcode("sample", T("lost"))>>)
  @@ (<<"empty.sfz">> :> <<Header("global"), Opcode("key", T("60"))>>)

MCNumbers ==
  [t \in {T("0"), T("1"), T("2"), T("3"), T("4"), T("5"), T("8"), T("60"), T("64"), T("100")} |->
     CASE t = T("0") -> 0 [] t = T("1") -> 1 [] t = T("2") -> 2 [] t = T("3") -> 3
       [] t = T("4") -> 4 [] t = T("5") -> 5 [] t = T("8") -> 8
       [] t = T("60") -> 60 [] t = T("64") -> 64 [] t = T("100") -> 100]
MCNoteNames == T("c4") :> [step |-> 0, accidental |-> 0, octave |-> 4]

\* ring loops and says so in its file, short and long are without a loop.
MCAudioFiles ==
  (T("ring") :> [frames |-> 5, loop |-> <<2, 5>>])
  @@ (T("short") :> [frames |-> 3, loop |-> <<>>])
  @@ (T("long") :> [frames |-> 6, loop |-> <<>>])

MCShelf ==
  (<<"a.wav">> :> T("short")) @@ (<<"Samples", "a.wav">> :> T("long"))
  @@ (<<"Samples", "b.wav">> :> T("long")) @@ (<<"x", "y", "z", "far.wav">> :> T("short"))
  @@ (<<"Samples", "ring.wav">> :> T("ring"))

Zone(attrs, body) == Element("K2_Zone", attrs, body)
Modulator(index, body) == Element("K2_IntMod", [index |-> index], body)
Shape(type, body) == Element("Envelope", [type |-> type], body)
Effect(kind, type, body) ==
  Element("K2_Effect", <<>>, body \o <<Element(kind, [type |-> type], <<V("cutoff", T("1"))>>)>>)

Program(body) == Element("K2_Program", <<>>, body)
Group(attrs, body) == Element("K2_Group", attrs, body)
Target(to) == Element("Target", <<>>, <<V("target", T(to))>>)
Lfo(frequency) == Element("LFO", [type |-> T("triangle")], <<V("frequency", T(frequency))>>)
Driver(controller, more) ==
  Element("K2_ExtMod", <<>>, <<V("source", T("midiCC")), V("ccNumber", T(controller))>> \o more
    \o <<Element("Target", <<>>, <<V("target", T("intensity")), V("targetObjIdx", T("3"))>>)>>)
PlainZone == Zone([groupIdx |-> T("0")], <<V("file", T("b.wav"))>>)

\* Envelopes after and before their targets, and values of modulators that have the
\* names of a zone's; vibrato under two controllers; inserts and sends; zones.
MCTrees == <<
  Program(<<
    Group([index |-> T("0")], <<
      V("volume", T("1")),
      Modulator(T("1"), <<Shape(T("ad"), <<V("release", T("5"))>>), Target("volume")>>),
      Modulator(T("2"), <<Target("volume"), Shape(T("ahdsr"), <<V("attack", T("1")), V("release", T("3"))>>),
                          V("release", T("8"))>>)>>),
    Group(<<>>, <<>>),
    Zone([groupIdx |-> T("0")], <<V("file", T("a.wav")), V("sampleStart", T("2")), V("rootKey", T("60")),
      Modulator(T("0"), <<Shape(T("ahdsr"), <<V("release", T("1")), V("sampleStart", T("1"))>>),
                          Element("Target", <<>>, <<V("target", T("volume")), V("loopLength", T("3"))>>)>>),
      V("sampleStart", T("1"))>>),
    Zone([groupIdx |-> T("1")], <<V("file", T("b.wav")), V("lowKey", T("64")),
                                  V("loopStart", T("1")), V("loopLength", T("2")), V("sampleStart", T("4"))>>)>>),
  Program(<<
    Group([index |-> T("0")], <<
      Modulator(T("4"), <<Lfo("5"), Target("pitch")>>), Modulator(T("3"), <<Lfo("4"), Target("pitch")>>),
      Driver("2", <<V("bypass", T("yes"))>>), Driver("1", <<>>)>>),
    PlainZone>>),
  Program(<<
    Group(<<>>, <<Element("GroupInsertFX", <<>>, <<
      Effect("Filter", T("lp2pole"), <<>>), Effect("Filter", T("hp2pole"), <<V("bypass", T("yes"))>>),
      Effect("Filter", T("eq1band"), <<>>)>>)>>),
    Group(<<>>, <<Element("GroupInsertFX", <<>>, <<Effect("Filter", T("hp2pole"), <<>>)>>)>>),
    Element("ProgramSendFX", <<>>, <<Effect("Reverb", <<>>, <<>>)>>),
    Element("ProgramInsertFX", <<>>, <<Effect("Delay", <<>>, <<>>), Effect("Reverb", <<>>, <<>>)>>),
    PlainZone>>),
  Program(<<
    Zone(<<>>, <<V("file", T("ring.wav")), V("highKey", T("60")), V("sampleStart", T("8"))>>),
    Zone(<<>>, <<V("file", T("a.wav")), V("loopStart", T("1")), V("loopLength", T("8"))>>),
    Zone(<<>>, <<V("file", <<>>)>>), Zone(<<>>, <<V("file", T("far.wav"))>>)>>)>>

MCNkiDocuments == [n \in DOMAIN MCTrees |-> Events(MCTrees[n])]

\* Zones with and without an envelope of their own, and layers of them; an instrument
\* whose schema is newer, and one whose root is outside its zone.
Times(release) == [attack |-> 1, decay |-> 2, sustain |-> 0, release |-> release]
Layer(sample, low, start) ==
  [sample |-> T(sample), low |-> low, high |-> 127, start |-> start, levelled |-> TRUE]
RfZone(low, override, layers) ==
  [low |-> low, high |-> 64, root |-> 64, override |-> override, layers |-> layers]
TheRf ==
  [schema |-> 1, envelope |-> Times(2),
   zones |-> <<RfZone(60, <<>>, <<Layer("a.wav", 1, 2), Layer("b.wav", 100, 0)>>),
               RfZone(60, <<Times(3)>>, <<Layer("far.wav", 1, 0), Layer("ring.wav", 101, 0)>>),
               RfZone(64, <<>>, <<Layer("ring.wav", 1, 5)>>),
               RfZone(64, <<Times(0)>>, <<Layer("b.wav", 1, 0)>>)>>]
MCRfInstruments == <<TheRf, [TheRf EXCEPT !.schema = 2], [TheRf EXCEPT !.zones[3].root = 60],
                     [TheRf EXCEPT !.zones[2].override = <<Times(9)>>]>>

\* A collection of two waves and two instruments, as cells.
Cells(numbers) == [n \in DOMAIN numbers |-> Number(numbers[n])]
Chunk(id, body) ==
  <<Code(id), Number(Len(body))>> \o body \o (IF Len(body) % 2 = 1 THEN Cells(<<0>>) ELSE <<>>)
ListOf(kind, body) == Chunk("LIST", <<Code(kind)>> \o body)
Connection(to, scale) == Cells(<<0, 0>>) \o <<Code(to), Number(scale)>>

FirstWave == ListOf("wave", Chunk("fmt ", Cells(<<1, 1, 2, 2, 16>>))
  \o Chunk("wsmp", Cells(<<6, 60, 0, 0, 0, 1, 4, 0, 1, 2>>)) \o Chunk("data", Cells(<<0, 0, 0, 0>>)))
SecondWave == ListOf("wave", Chunk("fmt ", Cells(<<1, 2, 2, 4, 16>>)) \o Chunk("data", Cells(<<0, 0, 0, 0>>)))
RegionOf(selected, wsmp) ==
  ListOf("rgn ", Chunk("rgnh", Cells(<<60, 64, 0, 127, 0, 0>>)) \o Chunk("wlnk", Cells(<<0, 0, 0, selected>>)) \o wsmp)
Good ==
  LET waves == FirstWave \o SecondWave
      instruments ==
        ListOf("ins ", Chunk("insh", Cells(<<1, 0, 0>>)) \o ListOf("lrgn", RegionOf(0, <<>>))
          \o ListOf("lart", Chunk("art1", Cells(<<2, 3>>) \o Connection("decay", 1)
                                            \o Connection("sustain", 0) \o Connection("release", 2))))
        \o ListOf("ins ", Chunk("insh", Cells(<<1, 0, 1>>))
                          \o ListOf("lrgn", RegionOf(1, Chunk("wsmp", Cells(<<6, 60, 0, 0, 0, 1, 4, 0, 1, 2>>)))))
  IN Chunk("RIFF", <<Code("DLS ")>>
             \o Chunk("ptbl", Cells(<<2, 2, 0, Len(FirstWave)>>)) \o ListOf("wvpl", waves)
             \o ListOf("lins", instruments))

\* Every cell overwritten with each of four values, and every shorter file.
Damaged ==
  [k \in 1..(4 * Len(Good)) |-> [Good EXCEPT ![(k - 1) \div 4 + 1] = Number((k - 1) % 4)]]
    \o [n \in DOMAIN Good |-> SubSeq(Good, 1, n)]
MCCollections == <<Good>> \o Damaged
MCFollowed == {<<"sfz", <<"template.sfz">>>>, <<"sfz", <<"loops.sfz">>>>, <<"dls", 1>>,
               <<"archive", <<"loops.sfz">>>>, <<"nki", 1>>, <<"nki", 4>>,
               <<"resident", 1>>, <<"resident", 4>>, <<"rf", 1>>}
=============================================================================
