-------------------------- MODULE MCPortablePlugin --------------------------
(***************************************************************************)
(* PortablePlugin with two channels, two notes, two voices and five files: *)
(* two SoundFonts, two instrument banks and a file that is neither.        *)
(* Notes are played in one plain setting only (Explored); every other      *)
(* state is reached in silence.                                            *)
(***************************************************************************)
EXTENDS PortablePlugin

R(sample, notes, group, offBy, sounds) ==
  [sample |-> sample, notes |-> notes, group |-> group, offBy |-> offBy, sounds |-> sounds]
S(index, path, bytes, decodes) ==
  [index |-> index, order |-> index, path |-> path, kind |-> "sample", bytes |-> bytes,
   decodes |-> decodes]
M(order, kind, path, slug, list) ==
  [index |-> order + 10, order |-> order, path |-> path, kind |-> kind, slug |-> slug,
   defaultPath |-> <<"..">>, reads |-> TRUE, rates |-> {44, 48}, regions |-> list]
Archive(size, entries, selects) ==
  [kind |-> "bank", size |-> size, entries |-> entries, selects |-> selects,
   readable |-> TRUE, presets |-> {}, ids |-> {}]
SF(size, parses, presets) ==
  [kind |-> "soundfont", size |-> size, parses |-> parses, presets |-> presets, ids |-> {}]

Hats == <<R(<<"open.wav">>, {"a"}, "open", "none", TRUE),
          R(<<"wav", "closed.wav">>, {"b"}, "closed", "open", TRUE),
          R(<<"wav", "closed.wav">>, {"a"}, "layer", "none", TRUE)>>
Pads == <<R(<<"pad.wav">>, {"a"}, "pad", "none", FALSE),
          R(<<"open.wav">>, {"a", "b"}, "pad", "pad", TRUE)>>

\* A kit and repeated names; the second map named "hat" meets one named "hat 2".
Kit == Archive(2,
  {S(1, <<"wav", "open.wav">>, 2, TRUE), S(2, <<"open.wav">>, 1, TRUE),
   S(3, <<"wav", "closed.wav">>, 1, TRUE), S(4, <<"wav", "pad.wav">>, 1, TRUE),
   M(1, "sfz", <<"maps", "hat.sfz">>, <<"hat">>, Hats),
   M(2, "nki", <<"maps", "hat2.nki">>, <<"hat", "2">>, Pads),
   [M(3, "nki", <<"hat.nki">>, <<"hat">>, Hats) EXCEPT !.rates = {48}]}, <<>>)

\* An SFZ map that names its sample by the file name alone: refused, unless the
\* manifest selects the other map.
Stray(selects) == Archive(1,
  {S(1, <<"wav", "pad.wav">>, 1, TRUE), S(2, <<"wav", "open.wav">>, 1, TRUE),
   M(1, "sfz", <<"maps", "pad.sfz">>, <<"pad">>, <<Pads[1]>>),
   M(2, "rf", <<"maps", "hat.rf">>, <<"hat">>, Pads)}, selects)

TheFiles ==
  [kit |-> [Kit EXCEPT !.ids = {<<"sfz", "hat">>, <<"nki", "hat", "2">>, <<"nki", "hat", "3">>}],
   stray |-> Stray(<<>>),
   chosen |-> [Stray(<<"maps", ".", "hat.rf">>) EXCEPT !.ids = {<<"rf", "hat">>}],
   grand |-> SF(2, TRUE, {<<0, 0>>, <<0, 1>>, <<128, 0>>}),
   drums |-> SF(1, TRUE, {<<128, 0>>}),
   junk |-> SF(1, FALSE, {})]

TheFrameLists == {<<>>, <<0>>, <<2, 0>>}

Quiet == voices = <<>> /\ held = {} /\ sustain = {}
Plain == /\ pending = None /\ soundFont = None /\ rate = DefaultRate
         /\ volume = DefaultVolume /\ control = DefaultControl
Explored == Quiet \/ Plain
=============================================================================
