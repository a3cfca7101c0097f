----------------------- MODULE PortablePlugin_proofs -----------------------
(***************************************************************************)
(* Proofs about PortablePlugin, for every set of files, every list of      *)
(* events and every block: what is installed is what was sent, a block     *)
(* that returns is complete, the settings shown are those heard, the       *)
(* voices of an instrument bank answer to keys, pedals and choke groups,   *)
(* and what is offered or selected exists.                                 *)
(***************************************************************************)
EXTENDS PortablePlugin, SequenceTheorems, FiniteSetTheorems, WellFoundedInduction, TLAPS

(* Transfers.                                                                 *)

\* Pieces numbered from one, none missing and none twice.
Numbered(pieces) == pieces \in Seq(Nat) /\ \A i \in DOMAIN pieces : pieces[i] = i

PlayerFields == {"file", "pieces", "library", "selected", "loaded", "control", "rate"}

AsSent(bank) == bank.pieces = [i \in Pieces(bank.file) |-> i]

TransferInv ==
  /\ pending # None => /\ pending \in [source : {"factory", "user"}, file : DOMAIN Files,
                                       pieces : Seq(Nat)]
                       /\ Numbered(pending.pieces)
  /\ soundFont # None => AsSent(soundFont)
  /\ player # None \/ format = "bank" => AsSent(player) /\ DOMAIN player = PlayerFields

\* A transfer of full length has every piece at its place.
LEMMA WholeTransfers ==
  ASSUME NEW pieces, NEW file, Numbered(pieces), Whole(pieces, file)
  PROVE  pieces = [i \in Pieces(file) |-> i]
BY DEF Numbered, Whole, Pieces

\* Settings and reloads leave a player's file and its pieces alone.
LEMMA PlayerChanges ==
  ASSUME NEW p, DOMAIN p = PlayerFields, NEW q, DOMAIN q = PlayerFields,
         q.file = p.file, q.pieces = p.pieces, AsSent(p)
  PROVE  AsSent(q)
BY DEF AsSent, Pieces

LEMMA TransferStep == TransferInv /\ [Next]_vars => TransferInv'
<1> SUFFICES ASSUME TransferInv, [Next]_vars PROVE TransferInv'
  OBVIOUS
<1>1. UNCHANGED <<pending, soundFont, player, format>> => TransferInv'
  BY DEF TransferInv, AsSent, Pieces
<1>2. ASSUME NEW value, ApplyControl(value), UNCHANGED <<pending, soundFont, format>>
      PROVE  TransferInv'
  <2>1. CASE player' = player BY <1>1, <1>2, <2>1
  <2>2. CASE player # None /\ player' = [player EXCEPT !.control = value]
    <3>1. DOMAIN player = PlayerFields /\ AsSent(player) BY <2>2 DEF TransferInv
    <3>2. DOMAIN player' = PlayerFields /\ player'.file = player.file
          /\ player'.pieces = player.pieces
      BY <2>2, <3>1 DEF PlayerFields
    <3>3. AsSent(player') BY <3>1, <3>2, PlayerChanges
    <3> QED BY <1>2, <3>2, <3>3 DEF TransferInv, AsSent, Pieces
  <2> QED BY <1>2, <2>1, <2>2 DEF ApplyControl
<1>3. ASSUME Prepare PROVE TransferInv'
  <2>0. UNCHANGED <<pending, soundFont, format>> BY <1>3 DEF Prepare
  <2>1. CASE player' = player BY <2>0, <2>1 DEF TransferInv, AsSent, Pieces
  <2>2. CASE player # None
    <3>1. DOMAIN player = PlayerFields /\ AsSent(player) BY <2>2 DEF TransferInv
    <3>2. PICK level, loaded, speed :
            player' = [player EXCEPT !.rate = speed, !.control = level, !.loaded = loaded]
      <4>1. CASE player.rate = rate'
        <5>1. PICK level : player' = [player EXCEPT !.control = level]
          BY <1>3, <2>2, <4>1 DEF Prepare
        <5>2. player' = [player EXCEPT !.rate = player.rate, !.control = level,
                                       !.loaded = player.loaded]
          BY <3>1, <5>1 DEF PlayerFields
        <5> QED BY <5>2
      <4>2. CASE player.rate # rate' BY <1>3, <2>2, <4>2 DEF Prepare
      <4> QED BY <4>1, <4>2
    <3>3. DOMAIN player' = PlayerFields /\ player'.file = player.file
          /\ player'.pieces = player.pieces
      BY <3>1, <3>2 DEF PlayerFields
    <3>4. AsSent(player') BY <3>1, <3>3, PlayerChanges
    <3> QED BY <2>0, <3>3, <3>4 DEF TransferInv, AsSent, Pieces
  <2>3. CASE player = None BY <1>3, <2>1, <2>3 DEF Prepare
  <2> QED BY <2>2, <2>3
<1>4. ASSUME BeginResource PROVE TransferInv'
  <2>1. PICK source \in {"factory", "user"}, file \in DOMAIN Files :
          pending' = [source |-> source, file |-> file, pieces |-> <<>>]
    BY <1>4 DEF BeginResource
  <2>2. Numbered(<<>>) BY DEF Numbered
  <2>3. UNCHANGED <<soundFont, player, format>> BY <1>4 DEF BeginResource
  <2> QED BY <2>1, <2>2, <2>3 DEF TransferInv, AsSent, Pieces
<1>5. ASSUME NEW piece, WriteResource(piece) PROVE TransferInv'
  <2>1. /\ pending' = [pending EXCEPT !.pieces = Append(@, piece)] /\ pending # None
        /\ piece = Len(pending.pieces) + 1 /\ UNCHANGED <<soundFont, player, format>>
    BY <1>5 DEF WriteResource
  <2>2. /\ pending \in [source : {"factory", "user"}, file : DOMAIN Files, pieces : Seq(Nat)]
        /\ Numbered(pending.pieces)
    BY <2>1 DEF TransferInv
  <2>3. Numbered(Append(pending.pieces, piece)) BY <2>1, <2>2 DEF Numbered
  <2>4. /\ pending' \in [source : {"factory", "user"}, file : DOMAIN Files, pieces : Seq(Nat)]
        /\ pending'.pieces = Append(pending.pieces, piece)
    BY <2>1, <2>2, <2>3 DEF Numbered
  <2> QED BY <2>1, <2>3, <2>4 DEF TransferInv, AsSent, Pieces
<1>6. ASSUME EndResource PROVE TransferInv'
  <2> DEFINE file == pending.file
  <2>1. pending # None /\ pending' = None BY <1>6 DEF EndResource
  <2>2. CASE UNCHANGED <<soundFont, player, format>>
    BY <2>1, <2>2 DEF TransferInv, AsSent, Pieces
  <2>3. CASE Whole(pending.pieces, file) /\ InstallBank(file, pending.pieces)
    <3>1. pending.pieces = [i \in Pieces(file) |-> i]
      BY <2>1, <2>3, WholeTransfers DEF TransferInv
    <3>2. soundFont' = soundFont /\ player' = LoadWithEffects(
            FreshPlayer(file, pending.pieces), FirstChoice(FreshPlayer(file, pending.pieces)))
      BY <2>3 DEF InstallBank
    <3>3. DOMAIN player' = PlayerFields /\ player'.file = file /\ player'.pieces = pending.pieces
      BY <3>2 DEF LoadWithEffects, FreshPlayer, PlayerFields
    <3> QED BY <2>1, <3>1, <3>2, <3>3 DEF TransferInv, AsSent, Pieces
  <2>4. CASE Whole(pending.pieces, file) /\ InstallSoundFont(file, pending.pieces)
    <3>1. pending.pieces = [i \in Pieces(file) |-> i]
      BY <2>1, <2>4, WholeTransfers DEF TransferInv
    <3>2. soundFont' = [file |-> file, pieces |-> pending.pieces] /\ player' = None
          /\ format' = "soundfont"
      BY <2>4 DEF InstallSoundFont
    <3> QED BY <2>1, <3>1, <3>2 DEF TransferInv, AsSent, Pieces
  <2> QED BY <1>6, <2>2, <2>3, <2>4 DEF EndResource
<1>7. ASSUME NEW id, LoadBankPreset(id), UNCHANGED <<pending, soundFont, format>>
      PROVE  TransferInv'
  <2>1. player' = [player EXCEPT !.selected = id, !.loaded = TRUE, !.control = control]
    BY <1>7 DEF LoadBankPreset, LoadWithEffects
  <2>2. DOMAIN player = PlayerFields /\ AsSent(player)
    BY <1>7 DEF LoadBankPreset, TransferInv
  <2>3. DOMAIN player' = PlayerFields /\ player'.file = player.file
        /\ player'.pieces = player.pieces
    BY <2>1, <2>2 DEF PlayerFields
  <2>4. AsSent(player') BY <2>2, <2>3, PlayerChanges
  <2> QED BY <1>7, <2>3, <2>4 DEF TransferInv, AsSent, Pieces
<1>8. ASSUME LoadPreset PROVE TransferInv'
  <2>1. UNCHANGED <<pending, soundFont, format>> BY <1>8 DEF LoadPreset
  <2>2. CASE UNCHANGED player BY <1>1, <2>1, <2>2
  <2>3. CASE \E id : LoadBankPreset(id) BY <1>7, <2>1, <2>3
  <2> QED BY <1>8, <2>2, <2>3 DEF LoadPreset, LoadSoundFontPreset, LoadLegacyPreset
<1>9. ASSUME SetParameter \/ Parameter \/ ParametersOnly PROVE TransferInv'
  <2>1. UNCHANGED <<pending, soundFont, format>> BY <1>9 DEF SetParameter, Parameter, ParametersOnly
  <2>2. CASE UNCHANGED player BY <1>1, <2>1, <2>2
  <2>3. CASE \E value : ApplyControl(value) BY <1>2, <2>1, <2>3
  <2> QED BY <1>9, <2>2, <2>3 DEF SetParameter, Parameter, ParametersOnly, ApplyVolume
<1>10. ASSUME Reset \/ BeginBlock \/ Render \/ Midi \/ Return PROVE TransferInv'
  BY <1>1, <1>10 DEF Reset, BeginBlock, Render, Midi, Return
<1>11. ASSUME UNCHANGED vars PROVE TransferInv' BY <1>1, <1>11 DEF vars
<1> QED BY <1>3, <1>4, <1>5, <1>6, <1>8, <1>9, <1>10, <1>11 DEF Next

\* What is installed is the file as it was sent (InstalledBanksAreWhole), however many
\* pieces write_resource refuses, because it takes only the next one and end_resource
\* only as many as were announced.
THEOREM TransfersAreWhole == Spec => []InstalledBanksAreWhole
<1>1. Init => TransferInv
  BY PortableAssumption DEF Init, TransferInv, PortableAssumption
<1>2. TransferInv => InstalledBanksAreWhole
  BY DEF TransferInv, InstalledBanksAreWhole, AsSent
<1> QED BY <1>1, <1>2, TransferStep, PTL DEF Spec
-----------------------------------------------------------------------------
(* Blocks.                                                                    *)

LEMMA LeastNatural ==
  ASSUME NEW S \in SUBSET Nat, S # {}
  PROVE  Min(S) \in S /\ \A k \in S : Min(S) <= k
<1>1. PICK m \in S : \A k \in S : ~ (<<k, m>> \in OpToRel(<, Nat))
  BY NatLessThanWellFounded, WFMin, Zenon
<1>2. ASSUME NEW k \in S PROVE m <= k
  <2>1. ~ (<<k, m>> \in OpToRel(<, Nat)) BY <1>1
  <2>2. <<k, m>> \in Nat \X Nat BY <1>1
  <2>3. ~ (k < m) BY <2>1, <2>2 DEF OpToRel
  <2>4. k \in Nat /\ m \in Nat OBVIOUS
  <2> QED BY <2>3, <2>4, SMT
<1>3. \E m1 \in S : \A k \in S : m1 <= k BY <1>1, <1>2
<1> QED BY <1>3 DEF Min

Blocks == [open : {TRUE}, step : {"render", "midi", "parameters"}, position : Nat,
           frames : Nat, midi : Seq(Nat), parameters : Seq(Nat), dispatched : BOOLEAN]

\* A round that has dispatched nothing is still at the boundary it rendered to, and
\* the lists it has been through have nothing due there.
BlockInv ==
  block.open =>
    /\ block \in Blocks
    /\ ~ block.dispatched =>
         /\ block.position = Boundary
         /\ block.step # "midi" => ~ Due(block.midi)
         /\ block.step = "render" => ~ Due(block.parameters)

LEMMA ClampedIs ==
  ASSUME block \in Blocks, NEW frame \in Nat
  PROVE  Clamped(frame) \in Nat /\ Clamped(frame) <= block.frames
<1>1. block.frames \in Nat BY DEF Blocks
<1>2. {frame, block.frames} \in SUBSET Nat /\ {frame, block.frames} # {} BY <1>1
<1> QED BY <1>1, <1>2, LeastNatural DEF Clamped

LEMMA BoundaryIs ==
  ASSUME block \in Blocks
  PROVE  /\ Boundary \in Nat
         /\ \/ Boundary = block.frames
            \/ \E e \in {block.midi, block.parameters} \ {<<>>} : Boundary = Clamped(Head(e))
<1> DEFINE Left == {block.midi, block.parameters} \ {<<>>}
           Candidates == {block.frames} \cup {Clamped(e[1]) : e \in Left}
<1>1. \A e \in Left : e[1] \in Nat /\ Head(e) = e[1] BY DEF Blocks
<1>2. block.frames \in Nat BY DEF Blocks
<1>3. Candidates \in SUBSET Nat BY <1>1, <1>2, ClampedIs
<1>4. Min(Candidates) \in Candidates BY <1>3, LeastNatural
<1>5. Boundary = Min(Candidates) BY DEF Boundary
<1> QED BY <1>1, <1>3, <1>4, <1>5

\* At a boundary where nothing is due there is nothing left, and it is the end.
LEMMA NothingIsLeft ==
  ASSUME block \in Blocks, block.position = Boundary, ~ Due(block.midi), ~ Due(block.parameters)
  PROVE  block.midi = <<>> /\ block.parameters = <<>> /\ block.position = block.frames
<1>1. ASSUME NEW e \in {block.midi, block.parameters}, e # <<>>, ~ Due(e) PROVE FALSE
  <2>1. Head(e) \in Nat BY <1>1 DEF Blocks
  <2>2. Clamped(Head(e)) \in Nat /\ Clamped(Head(e)) <= block.frames BY <2>1, ClampedIs
  <2>3. ~ (Clamped(Head(e)) <= Boundary) BY <1>1 DEF Due
  <2>4. block.frames \in Nat /\ Boundary \in Nat BY BoundaryIs DEF Blocks
  <2>5. Boundary # block.frames BY <2>2, <2>3, <2>4
  <2>6. PICK f \in {block.midi, block.parameters} \ {<<>>} : Boundary = Clamped(Head(f))
    BY <2>5, BoundaryIs
  <2>7. Due(f) BY <2>4, <2>6 DEF Due
  <2> QED BY <2>6, <2>7
<1>2. block.midi = <<>> /\ block.parameters = <<>> BY <1>1
<1>3. {block.midi, block.parameters} \ {<<>>} = {} BY <1>2
<1> QED BY <1>2, <1>3, BoundaryIs

LEMMA BlockStep == BlockInv /\ [Next]_vars => BlockInv'
<1> SUFFICES ASSUME BlockInv, [Next]_vars PROVE BlockInv'
  OBVIOUS
<1>1. block' = block => BlockInv' BY DEF BlockInv, Boundary, Clamped, Due
<1>2. block' = Idle => BlockInv' BY DEF BlockInv, Idle
<1>3. ASSUME BeginBlock PROVE BlockInv'
  <2>1. PICK frames \in 0..MaxFrames, midi \in FrameLists, parameters \in FrameLists :
          block' = [open |-> TRUE, step |-> "render", position |-> 0, frames |-> frames,
                    midi |-> midi, parameters |-> parameters, dispatched |-> TRUE]
    BY <1>3 DEF BeginBlock
  <2>2. midi \in Seq(Nat) /\ parameters \in Seq(Nat) /\ frames \in Nat
    BY PortableAssumption DEF PortableAssumption
  <2> QED BY <2>1, <2>2 DEF BlockInv, Blocks
<1>4. ASSUME Render PROVE BlockInv'
  <2>1. block \in Blocks BY <1>4 DEF Render, BlockInv
  <2>2. block' = [block EXCEPT !.step = "midi", !.position = Boundary, !.dispatched = FALSE]
    BY <1>4 DEF Render
  <2>3. block' \in Blocks BY <2>1, <2>2, BoundaryIs DEF Blocks
  <2>4. /\ block'.midi = block.midi /\ block'.parameters = block.parameters
        /\ block'.frames = block.frames /\ block'.position = Boundary /\ block'.step = "midi"
    BY <2>1, <2>2 DEF Blocks
  <2>5. Boundary' = Boundary BY <2>4 DEF Boundary, Clamped
  <2> QED BY <2>3, <2>4, <2>5 DEF BlockInv
<1>5. ASSUME NEW events \in {"midi", "parameters"}, NEW next \in {"parameters", "render"},
             block.open, block.step = events, events = "midi" <=> next = "parameters",
             \/ /\ Due(block[events])
                /\ block' = [block EXCEPT ![events] = Tail(@), !.dispatched = TRUE]
             \/ ~ Due(block[events]) /\ block' = [block EXCEPT !.step = next]
      PROVE  BlockInv'
  <2>1. block \in Blocks BY <1>5 DEF BlockInv
  <2>2. CASE Due(block[events])
    <3>1. block[events] \in Seq(Nat) /\ block[events] # <<>> BY <1>5, <2>1, <2>2 DEF Blocks, Due
    <3>2. Tail(block[events]) \in Seq(Nat) BY <3>1
    <3>3. block' = [block EXCEPT ![events] = Tail(block[events]), !.dispatched = TRUE]
      BY <1>5, <2>2
    <3>4. block' \in Blocks /\ block'.dispatched
      <4>1. CASE events = "midi" BY <2>1, <3>2, <3>3, <4>1 DEF Blocks
      <4>2. CASE events = "parameters" BY <2>1, <3>2, <3>3, <4>2 DEF Blocks
      <4> QED BY <4>1, <4>2
    <3> QED BY <3>4 DEF BlockInv
  <2>3. CASE ~ Due(block[events])
    <3>1. block' = [block EXCEPT !.step = next] BY <1>5, <2>3
    <3>2. /\ block' \in Blocks /\ block'.midi = block.midi /\ block'.parameters = block.parameters
          /\ block'.frames = block.frames /\ block'.position = block.position
          /\ block'.dispatched = block.dispatched /\ block'.step = next
      BY <2>1, <3>1 DEF Blocks
    <3>3. Boundary' = Boundary BY <3>2 DEF Boundary, Clamped
    <3>4. Due(block.midi)' = Due(block.midi) /\ Due(block.parameters)' = Due(block.parameters)
      BY <3>2 DEF Due, Clamped
    <3>5. CASE events = "midi" /\ next = "parameters"
      BY <1>5, <2>3, <3>2, <3>3, <3>4, <3>5 DEF BlockInv
    <3>6. CASE events = "parameters" /\ next = "render"
      BY <1>5, <2>3, <3>2, <3>3, <3>4, <3>6 DEF BlockInv
    <3> QED BY <1>5, <3>5, <3>6
  <2> QED BY <2>2, <2>3
<1>6. ASSUME Midi PROVE BlockInv'
  <2>1. block.open /\ block.step = "midi" BY <1>6 DEF Midi
  <2>2. \/ Due(block.midi) /\ block' = [block EXCEPT !.midi = Tail(@), !.dispatched = TRUE]
        \/ ~ Due(block.midi) /\ block' = [block EXCEPT !.step = "parameters"]
    BY <1>6 DEF Midi
  <2> QED BY <1>5, <2>1, <2>2
<1>7. ASSUME Parameter PROVE BlockInv'
  <2>1. block.open /\ block.step = "parameters" BY <1>7 DEF Parameter
  <2>2. \/ Due(block.parameters)
           /\ block' = [block EXCEPT !.parameters = Tail(@), !.dispatched = TRUE]
        \/ ~ Due(block.parameters) /\ block' = [block EXCEPT !.step = "render"]
    BY <1>7 DEF Parameter
  <2> QED BY <1>5, <2>1, <2>2
<1>8. ASSUME ParametersOnly \/ Return PROVE BlockInv' BY <1>2, <1>8 DEF ParametersOnly, Return
<1>9. ASSUME Next PROVE BeginBlock \/ Render \/ Midi \/ Parameter \/ ParametersOnly \/ Return
                        \/ block' = block
  BY <1>9 DEF Next, Prepare, SetParameter, Reset, BeginResource, WriteResource, EndResource,
              LoadPreset
<1> QED BY <1>1, <1>3, <1>4, <1>6, <1>7, <1>8, <1>9 DEF vars

\* A block that returns is complete (BlocksAreComplete): process stops after a round in
\* which nothing was due, and at a boundary that can only be when nothing is left.
THEOREM BlocksReturnComplete == Spec => []BlocksAreComplete
<1>1. Init => BlockInv BY DEF Init, BlockInv, Idle
<1>2. BlockInv => BlocksAreComplete BY NothingIsLeft DEF BlockInv, BlocksAreComplete
<1> QED BY <1>1, <1>2, BlockStep, PTL DEF Spec
-----------------------------------------------------------------------------
(* Settings.                                                                  *)

Synths == [volume : Volumes, programs : [Channels -> Nat \X Nat]]

\* Every channel that no message changed plays that preset, percussion through its offset.
Plays(programs, choice, altered) ==
  choice # None => \A c \in Channels \ altered :
    /\ c # Percussion => programs[c] = choice
    /\ c = Percussion /\ choice[1] >= Drum =>
         <<programs[c][1] + Drum, programs[c][2]>> = choice

HeardInv ==
  /\ volume \in Volumes /\ (selected = None \/ selected \in Nat \X Nat)
  /\ format = "soundfont" =>
       soundFont # None /\ soundFont.file \in DOMAIN Files /\ synth # None
  /\ synth # None => /\ synth \in Synths /\ synth.volume = volume
                     /\ Plays(synth.programs, selected, changed)
  /\ player # None /\ player.loaded => player.control = control

\* apply_selection, whatever the channels played before.
LEMMA SelectionPlays ==
  ASSUME NEW programs \in [Channels -> Nat \X Nat],
         NEW choice, choice = None \/ choice \in Nat \X Nat
  PROVE  /\ ApplySelection(programs, choice) \in [Channels -> Nat \X Nat]
         /\ Plays(ApplySelection(programs, choice), choice, {})
<1>1. CASE choice = None BY <1>1 DEF Plays, ApplySelection
<1>2. CASE choice # None /\ choice \in Nat \X Nat
  <2> DEFINE told == ApplySelection(programs, choice)
  <2>1. told = [c \in Channels |-> IF c = Percussion /\ choice[1] >= Drum
                                   THEN <<choice[1] - Drum, choice[2]>> ELSE choice]
    BY <1>2 DEF ApplySelection
  <2>2. choice = <<choice[1], choice[2]>> /\ choice[1] \in Nat /\ choice[2] \in Nat BY <1>2
  <2>3. choice[1] >= Drum => choice[1] - Drum \in Nat /\ choice[1] - Drum + Drum = choice[1]
    BY <2>2 DEF Drum
  <2>4. told \in [Channels -> Nat \X Nat] BY <1>2, <2>1, <2>2, <2>3
  <2>5. Plays(told, choice, {})
    <3> SUFFICES ASSUME NEW c \in Channels
                 PROVE  /\ c # Percussion => told[c] = choice
                        /\ c = Percussion /\ choice[1] >= Drum =>
                             <<told[c][1] + Drum, told[c][2]>> = choice
      BY DEF Plays
    <3>1. CASE c # Percussion BY <2>1, <3>1
    <3>2. CASE c = Percussion /\ choice[1] >= Drum
      <4>1. told[c] = <<choice[1] - Drum, choice[2]>> BY <2>1, <3>2
      <4>2. told[c][1] = choice[1] - Drum /\ told[c][2] = choice[2] BY <4>1
      <4> QED BY <2>2, <2>3, <3>2, <4>2
    <3> QED BY <3>1, <3>2
  <2> QED BY <2>4, <2>5
<1> QED BY <1>1, <1>2

\* A synthesizer that was just told the settings has them.
LEMMA ToldSynth ==
  ASSUME NEW level \in Volumes, NEW programs \in [Channels -> Nat \X Nat],
         NEW choice, choice = None \/ choice \in Nat \X Nat,
         NEW s, s = [volume |-> level, programs |-> ApplySelection(programs, choice)]
  PROVE  s \in Synths /\ s # None /\ s.volume = level /\ Plays(s.programs, choice, {})
<1>1. s \in Synths BY SelectionPlays DEF Synths
<1>2. s # None BY <1>1, PortableAssumption DEF PortableAssumption, Synths
<1>3. s.programs = ApplySelection(programs, choice) /\ s.volume = level OBVIOUS
<1>4. Plays(s.programs, choice, {}) BY <1>3, SelectionPlays
<1> QED BY <1>1, <1>2, <1>3, <1>4

LEMMA FreshPrograms == Fresh \in [Channels -> Nat \X Nat]
BY DEF Fresh

\* The presets that can be asked for are pairs of numbers.
LEMMA ChoicesArePairs ==
  ASSUME NEW file \in DOMAIN Files, NEW choice \in ToSet(CatalogEntries(file))
  PROVE  choice \in Nat \X Nat
<1>1. /\ Files[file].presets \subseteq Nat \X Nat
      /\ CatalogEntries(file) \in Seq(Files[file].presets)
  BY PresetsAssumption DEF PresetsAssumption
<1>2. ASSUME NEW S, NEW s \in Seq(S), NEW x \in ToSet(s) PROVE x \in S
  BY <1>2 DEF ToSet
<1> QED BY <1>1, <1>2

LEMMA HeardStep == TransferInv /\ HeardInv /\ [Next]_vars => HeardInv'
<1> SUFFICES ASSUME TransferInv, HeardInv, [Next]_vars PROVE HeardInv'
  OBVIOUS
<1> DEFINE Kept == UNCHANGED <<soundFont, format, selected, changed>>
<1>1. ASSUME Kept, UNCHANGED <<synth, volume, player, control>> PROVE HeardInv'
  BY <1>1 DEF HeardInv, Plays
<1>2. ASSUME NEW value \in Volumes, ApplyVolume(value), Kept PROVE HeardInv'
  <2>1. UNCHANGED <<player, control>> /\ volume' = value BY <1>2 DEF ApplyVolume
  <2>2. CASE synth = None
    <3>1. synth' = None BY <1>2, <2>2 DEF ApplyVolume
    <3> QED BY <1>2, <2>1, <2>2, <3>1 DEF HeardInv
  <2>3. CASE synth # None
    <3>1. synth \in Synths /\ synth' = [synth EXCEPT !.volume = value]
      BY <1>2, <2>3 DEF ApplyVolume, HeardInv
    <3>2. synth' \in Synths /\ synth'.volume = value /\ synth'.programs = synth.programs
      BY <3>1 DEF Synths
    <3>3. synth' # None BY <3>2, PortableAssumption DEF PortableAssumption, Synths
    <3> QED BY <1>2, <2>1, <2>3, <3>2, <3>3 DEF HeardInv, Plays
  <2> QED BY <2>2, <2>3
<1>3. ASSUME NEW value, ApplyControl(value), Kept PROVE HeardInv'
  <2>1. UNCHANGED <<volume, synth>> /\ control' = value BY <1>3 DEF ApplyControl
  <2>2. player' # None /\ player'.loaded => player'.control = control'
    <3>1. CASE player = None \/ ~ player.loaded BY <1>3, <3>1 DEF ApplyControl
    <3>2. CASE player # None /\ player.loaded
      <4>1. DOMAIN player = PlayerFields BY <3>2 DEF TransferInv
      <4>2. player' = [player EXCEPT !.control = value] BY <1>3, <3>2 DEF ApplyControl
      <4> QED BY <2>1, <4>1, <4>2 DEF PlayerFields
    <3> QED BY <3>1, <3>2
  <2> QED BY <1>3, <2>1, <2>2 DEF HeardInv, Plays
<1>4. ASSUME Prepare PROVE HeardInv'
  <2>1. /\ UNCHANGED <<soundFont, format, selected, volume, control>> /\ changed' = {}
        /\ synth' = Rebuilt(format, FileOf(soundFont), selected, volume)
    BY <1>4 DEF Prepare
  <2>2. player' # None /\ player'.loaded => player'.control = control'
    <3>1. CASE player = None
      BY <1>4, <3>1 DEF Prepare
    <3>2. CASE player # None
      <4>1. DOMAIN player = PlayerFields BY <3>2 DEF TransferInv
      <4>2. CASE player.rate = rate' /\ player.loaded
        <5>1. player' = [player EXCEPT !.control = control] BY <1>4, <3>2, <4>2 DEF Prepare
        <5> QED BY <2>1, <4>1, <5>1 DEF PlayerFields
      <4>3. CASE player.rate = rate' /\ ~ player.loaded
        <5>1. player' = [player EXCEPT !.control = player.control]
          BY <1>4, <3>2, <4>3 DEF Prepare
        <5>2. player'.loaded = player.loaded BY <4>1, <5>1 DEF PlayerFields
        <5> QED BY <4>3, <5>2
      <4>4. CASE player.rate # rate'
        <5>1. PICK loaded :
                player' = [player EXCEPT !.rate = rate', !.control = control, !.loaded = loaded]
          BY <1>4, <3>2, <4>4 DEF Prepare
        <5> QED BY <2>1, <4>1, <5>1 DEF PlayerFields
      <4> QED BY <4>2, <4>3, <4>4
    <3> QED BY <3>1, <3>2
  <2>3. CASE synth' = None
    <3>1. format # "soundfont"
      <4> SUFFICES ASSUME format = "soundfont" PROVE FALSE OBVIOUS
      <4>1. soundFont # None /\ soundFont.file \in DOMAIN Files BY DEF HeardInv
      <4>2. FileOf(soundFont) # None BY <4>1, PortableAssumption DEF PortableAssumption, FileOf
      <4>3. synth' = [volume |-> volume, programs |-> ApplySelection(Fresh, selected)]
        BY <2>1, <4>2 DEF Rebuilt
      <4> QED BY <2>3, <4>3, ToldSynth, FreshPrograms DEF HeardInv
    <3> QED BY <2>1, <2>2, <2>3, <3>1 DEF HeardInv
  <2>4. CASE synth' # None
    <3>1. synth' = [volume |-> volume, programs |-> ApplySelection(Fresh, selected)]
      BY <2>1, <2>4 DEF Rebuilt
    <3>2. synth' \in Synths /\ synth'.volume = volume /\ Plays(synth'.programs, selected, {})
      BY <3>1, ToldSynth, FreshPrograms DEF HeardInv
    <3> QED BY <2>1, <2>2, <2>4, <3>2 DEF HeardInv, Plays
  <2> QED BY <2>3, <2>4
<1>5. ASSUME Reset PROVE HeardInv'
  <2>1. /\ UNCHANGED <<soundFont, format, selected, volume, control, player>> /\ changed' = {}
        /\ synth' = IF synth = None THEN None
                    ELSE [volume |-> volume, programs |-> ApplySelection(Fresh, selected)]
    BY <1>5 DEF Reset, settings
  <2>2. CASE synth = None BY <2>1, <2>2 DEF HeardInv
  <2>3. CASE synth # None
    <3>1. synth' \in Synths /\ synth' # None /\ synth'.volume = volume
          /\ Plays(synth'.programs, selected, {})
      BY <2>1, <2>3, ToldSynth, FreshPrograms DEF HeardInv
    <3> QED BY <2>1, <3>1 DEF HeardInv, Plays
  <2> QED BY <2>2, <2>3
<1>6. ASSUME EndResource PROVE HeardInv'
  <2> DEFINE file == pending.file
  <2>1. /\ UNCHANGED <<volume, control>>
        /\ file \in DOMAIN Files /\ pending.pieces \in Seq(Nat)
    BY <1>6 DEF EndResource, settings, TransferInv
  <2>2. CASE Kept /\ UNCHANGED <<synth, player>> BY <1>1, <2>1, <2>2
  <2>3. CASE InstallBank(file, pending.pieces)
    <3>1. synth' = None /\ format' = "bank" /\ UNCHANGED <<soundFont, selected>>
      BY <2>3 DEF InstallBank
    <3>2. player' = LoadWithEffects(FreshPlayer(file, pending.pieces),
                                    FirstChoice(FreshPlayer(file, pending.pieces)))
      BY <2>3 DEF InstallBank
    <3>3. player'.control = control BY <3>2 DEF LoadWithEffects, FreshPlayer
    <3> QED BY <2>1, <3>1, <3>3 DEF HeardInv
  <2>4. CASE InstallSoundFont(file, pending.pieces)
    <3>1. /\ soundFont' = [file |-> file, pieces |-> pending.pieces] /\ format' = "soundfont"
          /\ player' = None /\ changed' = {} /\ (selected' = selected \/ selected' = None)
          /\ synth' = Rebuilt("soundfont", file, selected', volume)
      BY <2>4 DEF InstallSoundFont
    <3>2. soundFont' # None /\ soundFont'.file \in DOMAIN Files /\ file # None
      BY <2>1, <3>1, PortableAssumption DEF PortableAssumption
    <3>3. synth' = [volume |-> volume, programs |-> ApplySelection(Fresh, selected')]
      BY <3>1, <3>2 DEF Rebuilt
    <3>4. selected' = None \/ selected' \in Nat \X Nat BY <3>1 DEF HeardInv
    <3>5. volume \in Volumes BY DEF HeardInv
    <3>6. synth' \in Synths /\ synth' # None /\ synth'.volume = volume
          /\ Plays(synth'.programs, selected', {})
      BY <3>3, <3>4, <3>5, ToldSynth, FreshPrograms
    <3> QED BY <2>1, <3>1, <3>2, <3>4, <3>5, <3>6 DEF HeardInv, Plays
  <2> QED BY <1>6, <2>2, <2>3, <2>4 DEF EndResource
<1>7. ASSUME NEW choice, LoadSoundFontPreset(choice),
             UNCHANGED <<soundFont, format, volume, control>>
      PROVE  HeardInv'
  <2>1. /\ format = "soundfont" /\ choice \in ToSet(CatalogEntries(soundFont.file))
        /\ selected' = choice /\ changed' = {} /\ UNCHANGED player
        /\ synth' = [synth EXCEPT !.programs = ApplySelection(@, choice)]
    BY <1>7 DEF LoadSoundFontPreset
  <2>2. synth \in Synths /\ synth.volume = volume /\ soundFont.file \in DOMAIN Files
        /\ volume \in Volumes
    BY <2>1 DEF HeardInv
  <2>3. choice \in Nat \X Nat BY <2>1, <2>2, ChoicesArePairs
  <2>4. synth.programs \in [Channels -> Nat \X Nat] BY <2>2 DEF Synths
  <2>5. synth' = [volume |-> volume, programs |-> ApplySelection(synth.programs, choice)]
    BY <2>1, <2>2 DEF Synths
  <2>6. synth' \in Synths /\ synth' # None /\ synth'.volume = volume
        /\ Plays(synth'.programs, choice, {})
    BY <2>2, <2>3, <2>4, <2>5, ToldSynth
  <2> QED BY <1>7, <2>1, <2>2, <2>3, <2>6 DEF HeardInv, Plays
<1>8. ASSUME LoadPreset PROVE HeardInv'
  <2>1. UNCHANGED <<soundFont, format, volume, control>> BY <1>8 DEF LoadPreset, settings
  <2>2. CASE \E id : LoadBankPreset(id)
    <3>1. PICK id : LoadBankPreset(id) BY <2>2
    <3>2. format = "bank" /\ UNCHANGED <<synth, selected, changed>>
          /\ player' = [player EXCEPT !.selected = id, !.loaded = TRUE, !.control = control]
      BY <3>1 DEF LoadBankPreset, LoadWithEffects
    <3>3. DOMAIN player = PlayerFields BY <3>2 DEF TransferInv
    <3>4. player'.control = control BY <3>2, <3>3 DEF PlayerFields
    <3> QED BY <2>1, <3>2, <3>4 DEF HeardInv, Plays
  <2>3. CASE \E id : LoadSoundFontPreset(id) BY <1>7, <2>1, <2>3
  <2>4. CASE LoadLegacyPreset BY <1>7, <2>1, <2>4 DEF LoadLegacyPreset
  <2> QED BY <1>8, <2>2, <2>3, <2>4 DEF LoadPreset
<1>9. ASSUME Midi PROVE HeardInv'
  <2>1. UNCHANGED <<soundFont, format, selected, volume, control, player>>
    BY <1>9 DEF Midi, settings
  <2>2. CASE UNCHANGED <<synth, changed>> BY <1>1, <2>1, <2>2
  <2>3. CASE format = "soundfont" /\ SynthMidi
    <3>1. CASE UNCHANGED <<synth, changed>> BY <2>2, <3>1
    <3>2. CASE \E c \in Channels : synth' = [synth EXCEPT !.programs[c] = <<0, 1>>]
                                   /\ changed' = changed \cup {c}
      <4>1. PICK c \in Channels : synth' = [synth EXCEPT !.programs[c] = <<0, 1>>]
                                  /\ changed' = changed \cup {c}
        BY <3>2
      <4>2. synth \in Synths /\ synth # None /\ synth.volume = volume
            /\ Plays(synth.programs, selected, changed)
        BY <2>3 DEF HeardInv
      <4>3. synth' \in Synths /\ synth'.volume = volume
            /\ synth'.programs = [synth.programs EXCEPT ![c] = <<0, 1>>]
        <5>1. synth.programs \in [Channels -> Nat \X Nat] BY <4>2 DEF Synths
        <5>2. [synth.programs EXCEPT ![c] = <<0, 1>>] \in [Channels -> Nat \X Nat] BY <5>1
        <5> QED BY <4>1, <4>2, <5>2 DEF Synths
      <4>4. synth' # None BY <4>3, PortableAssumption DEF PortableAssumption, Synths
      <4>5. \A d \in Channels \ changed' : synth'.programs[d] = synth.programs[d]
        BY <4>1, <4>2, <4>3 DEF Synths
      <4>6. Plays(synth'.programs, selected, changed') BY <4>1, <4>2, <4>5 DEF Plays
      <4> QED BY <2>1, <4>3, <4>4, <4>6 DEF HeardInv, Plays
    <3> QED BY <2>3, <3>1, <3>2 DEF SynthMidi
  <2> QED BY <1>9, <2>2, <2>3 DEF Midi
<1>10. ASSUME SetParameter \/ Parameter \/ ParametersOnly PROVE HeardInv'
  <2>1. Kept BY <1>10 DEF SetParameter, Parameter, ParametersOnly
  <2>2. \/ \E value \in Volumes : ApplyVolume(value)
        \/ \E value \in Controls : ApplyControl(value)
        \/ UNCHANGED <<volume, control, player, synth>>
    BY <1>10 DEF SetParameter, Parameter, ParametersOnly
  <2> QED BY <1>1, <1>2, <1>3, <2>1, <2>2
<1>11. ASSUME Next PROVE \/ Prepare \/ Reset \/ EndResource \/ LoadPreset \/ Midi
                         \/ SetParameter \/ Parameter \/ ParametersOnly
                         \/ Kept /\ UNCHANGED <<synth, volume, player, control>>
  BY <1>11 DEF Next, BeginResource, WriteResource, BeginBlock, Render, Return, settings
<1>12. CASE UNCHANGED vars BY <1>1, <1>12 DEF vars
<1> QED BY <1>1, <1>4, <1>5, <1>6, <1>8, <1>9, <1>10, <1>11, <1>12

\* The settings shown are those that sound (SettingsAreHeard), through every rebuild,
\* reset, reload and preset: each path that makes a synthesizer or loads an instrument
\* tells it the settings again, and each change of a setting is passed on.
THEOREM SettingsSound == Spec => []SettingsAreHeard
<1>1. Init => TransferInv /\ HeardInv
  BY PortableAssumption DEF Init, TransferInv, HeardInv, PortableAssumption
<1>2. HeardInv => SettingsAreHeard
  BY DEF HeardInv, SettingsAreHeard, Plays, Heard
<1>3. TransferInv /\ HeardInv /\ [Next]_vars => TransferInv' /\ HeardInv'
  BY TransferStep, HeardStep
<1> QED BY <1>1, <1>2, <1>3, PTL DEF Spec
-----------------------------------------------------------------------------
-----------------------------------------------------------------------------
(***************************************************************************)
(* The voices of the bank player, for every bank, keyboard and pool.       *)
(*                                                                         *)
(* Making room and dropping voices that have ended both leave voices of    *)
(* the pool in their order (Keeps), and what keys, pedals and choke groups *)
(* promise of a pool they promise of that part of it (KeptPool).  The      *)
(* order is that of the places left, each found by its rank (NthInOrder).  *)
(***************************************************************************)
(* The places left.                                                           *)

LEMMA Interval ==
  ASSUME NEW n \in Nat
  PROVE  IsFiniteSet(1..n) /\ Cardinality(1..n) = n
BY FS_Interval

\* How many of S are not after i.
Rank(S, i) == Cardinality({j \in S : j <= i})

LEMMA RanksGrow ==
  ASSUME NEW S \in SUBSET Nat, IsFiniteSet(S)
  PROVE  /\ \A i \in S : Rank(S, i) \in 1..Cardinality(S)
         /\ \A i, j \in S : i < j => Rank(S, i) < Rank(S, j)
<1>1. ASSUME NEW i \in S PROVE Rank(S, i) \in 1..Cardinality(S)
  <2>1. IsFiniteSet({j \in S : j <= i}) /\ Rank(S, i) <= Cardinality(S) BY FS_Subset DEF Rank
  <2>2. Rank(S, i) \in Nat /\ Cardinality(S) \in Nat BY <2>1, FS_CardinalityType DEF Rank
  <2>3. i \in {j \in S : j <= i} OBVIOUS
  <2>4. Rank(S, i) # 0 BY <2>1, <2>3, FS_EmptySet DEF Rank
  <2> QED BY <2>1, <2>2, <2>4
<1>2. ASSUME NEW i \in S, NEW j \in S, i < j PROVE Rank(S, i) < Rank(S, j)
  <2> DEFINE before == {k \in S : k <= i}
             until == {k \in S : k <= j}
  <2>0. i \in Nat /\ j \in Nat OBVIOUS
  <2>1. j \in until /\ j \notin before BY <1>2, <2>0
  <2>2. before \in SUBSET until
    <3>1. \A k \in S : k \in Nat /\ (k <= i => k <= j) BY <1>2, <2>0
    <3> QED BY <3>1
  <2>3. IsFiniteSet(until) BY FS_Subset
  <2> HIDE DEF before, until
  <2>4. IsFiniteSet(before) /\ Cardinality(before) <= Cardinality(until)
        /\ Cardinality(before) # Cardinality(until)
    BY <2>1, <2>2, <2>3, FS_Subset
  <2>5. Cardinality(before) \in Nat /\ Cardinality(until) \in Nat
    BY <2>3, <2>4, FS_CardinalityType
  <2>6. Cardinality(before) < Cardinality(until) BY <2>4, <2>5
  <2> QED BY <2>6 DEF Rank, before, until
<1> QED BY <1>1, <1>2

\* Every rank is taken, and Nth finds the place that has it.
LEMMA NthHasRank ==
  ASSUME NEW S \in SUBSET Nat, IsFiniteSet(S), NEW k \in 1..Cardinality(S)
  PROVE  Nth(S, k) \in S /\ Rank(S, Nth(S, k)) = k
<1> DEFINE rank == [i \in S |-> Rank(S, i)]
<1>1. Cardinality(S) \in Nat BY FS_CardinalityType
<1>2. IsFiniteSet(1..Cardinality(S)) /\ Cardinality(1..Cardinality(S)) = Cardinality(S)
  BY <1>1, Interval
<1>3. rank \in [S -> 1..Cardinality(S)] BY RanksGrow
<1>4. ASSUME NEW i \in S, NEW j \in S, rank[i] = rank[j] PROVE i = j
  <2>1. Rank(S, i) = Rank(S, j) BY <1>4
  <2>2. ~(i < j) /\ ~(j < i)
    <3>1. \A a, b \in S : a < b => Rank(S, a) < Rank(S, b) BY RanksGrow
    <3>2. Rank(S, i) \in Nat /\ Rank(S, j) \in Nat BY <1>1, RanksGrow
    <3> QED BY <2>1, <3>1, <3>2
  <2> QED BY <2>2
<1>5. rank \in Injection(S, 1..Cardinality(S)) BY <1>3, <1>4 DEF Injection, IsInjective
<1> HIDE DEF rank
<1>6. rank \in Surjection(S, 1..Cardinality(S)) BY <1>2, <1>5, FS_Injection
<1>7. \E i \in S : rank[i] = k BY <1>6 DEF Surjection
<1>8. \E i \in S : Rank(S, i) = k BY <1>7 DEF rank
<1> QED BY <1>8 DEF Nth, Rank

LEMMA NthInOrder ==
  ASSUME NEW S \in SUBSET Nat, IsFiniteSet(S),
         NEW k \in 1..Cardinality(S), NEW m \in 1..Cardinality(S), k < m
  PROVE  Nth(S, k) < Nth(S, m)
<1>1. /\ Nth(S, k) \in S /\ Nth(S, m) \in S
      /\ Rank(S, Nth(S, k)) = k /\ Rank(S, Nth(S, m)) = m
  BY NthHasRank
<1>2. \A i, j \in S : i < j => Rank(S, i) < Rank(S, j) BY RanksGrow
<1>3. Cardinality(S) \in Nat BY FS_CardinalityType
<1>4. ASSUME NEW i \in S, NEW j \in S, Rank(S, i) = k, Rank(S, j) = m PROVE i < j
  <2>1. i # j /\ ~(j < i) BY <1>2, <1>3, <1>4
  <2> QED BY <2>1
<1> QED BY <1>1, <1>4
-----------------------------------------------------------------------------
(* Sequences of voices.                                                       *)

IsSeq(s) == Len(s) \in Nat /\ s = [i \in 1..Len(s) |-> s[i]]

LEMMA Listed ==
  ASSUME NEW n \in Nat, NEW s, s = [i \in 1..n |-> s[i]]
  PROVE  IsSeq(s) /\ Len(s) = n
BY DEF IsSeq

LEMMA Joined ==
  ASSUME NEW s, NEW t, IsSeq(s), IsSeq(t)
  PROVE  /\ IsSeq(s \o t) /\ Len(s \o t) = Len(s) + Len(t)
         /\ \A i \in 1..Len(s) : (s \o t)[i] = s[i]
         /\ \A i \in 1..Len(s) + Len(t) : i > Len(s) => (s \o t)[i] = t[i - Len(s)]
<1> DEFINE V == {s[i] : i \in 1..Len(s)} \cup {t[i] : i \in 1..Len(t)}
<1>1. s \in [1..Len(s) -> V] /\ t \in [1..Len(t) -> V] BY DEF IsSeq
<1> HIDE DEF V
<1>2. s \in Seq(V) /\ t \in Seq(V) BY <1>1 DEF IsSeq
<1>3. /\ s \o t \in Seq(V) /\ Len(s \o t) = Len(s) + Len(t) /\ Len(s \o t) \in Nat
      /\ \A i \in 1..Len(s) : (s \o t)[i] = s[i]
      /\ \A i \in 1..Len(s) + Len(t) : i > Len(s) => (s \o t)[i] = t[i - Len(s)]
  BY <1>2
<1>4. \A q \in Seq(V) : q = [i \in 1..Len(q) |-> q[i]] OBVIOUS
<1> QED BY <1>3, <1>4 DEF IsSeq

\* t has elements of s, in their order.
Keeps(t, s) ==
  /\ IsSeq(s) /\ IsSeq(t)
  /\ \E from \in [1..Len(t) -> 1..Len(s)] :
       /\ \A i, j \in 1..Len(t) : i < j => from[i] < from[j]
       /\ \A i \in 1..Len(t) : t[i] = s[from[i]]

LEMMA WithoutKeeps ==
  ASSUME NEW s, IsSeq(s), NEW S
  PROVE  /\ Keeps(Without(s, S), s) /\ Len(Without(s, S)) <= Len(s)
         /\ Len(Without(s, S)) = Cardinality(DOMAIN s \ S)
<1> DEFINE left == DOMAIN s \ S
           n == Cardinality(left)
           t == Without(s, S)
           from == [k \in 1..n |-> Nth(left, k)]
<1>1. DOMAIN s = 1..Len(s) /\ Len(s) \in Nat BY DEF IsSeq
<1>2. IsFiniteSet(1..Len(s)) /\ Cardinality(1..Len(s)) = Len(s) BY <1>1, Interval
<1>3. left \in SUBSET (1..Len(s)) BY <1>1
<1> HIDE DEF left
<1>4. IsFiniteSet(left) /\ n \in Nat /\ n <= Len(s)
  <2>1. IsFiniteSet(left) /\ Cardinality(left) <= Cardinality(1..Len(s)) BY <1>2, <1>3, FS_Subset
  <2> QED BY <1>2, <2>1, FS_CardinalityType
<1>5. left \in SUBSET Nat BY <1>3
<1>6. \A k \in 1..n : Nth(left, k) \in 1..Len(s) BY <1>3, <1>4, <1>5, NthHasRank
<1>7. \A k, m \in 1..n : k < m => Nth(left, k) < Nth(left, m) BY <1>4, <1>5, NthInOrder
<1>8. t = [k \in 1..n |-> s[Nth(left, k)]] BY DEF Without, left
<1> HIDE DEF t, n
<1>9. t = [k \in 1..n |-> t[k]] /\ \A k \in 1..n : t[k] = s[Nth(left, k)] BY <1>8
<1>10. IsSeq(t) /\ Len(t) = n BY <1>4, <1>9, Listed
<1>11. from \in [1..Len(t) -> 1..Len(s)] BY <1>6, <1>10
<1>12. \A i, j \in 1..Len(t) : i < j => from[i] < from[j] BY <1>7, <1>10
<1>13. \A i \in 1..Len(t) : t[i] = s[from[i]] BY <1>9, <1>10
<1> HIDE DEF from
<1>14. Keeps(t, s) BY <1>10, <1>11, <1>12, <1>13 DEF Keeps
<1> QED BY <1>4, <1>10, <1>14 DEF t, n, left

LEMMA NewestKeeps ==
  ASSUME NEW s, IsSeq(s)
  PROVE  Keeps(Newest(s), s) /\ Len(Newest(s)) <= MaxVoices
<1>0. Len(s) \in Nat /\ DOMAIN s = 1..Len(s) /\ MaxVoices \in Nat \ {0}
  BY PortableAssumption DEF PortableAssumption, IsSeq
<1>1. CASE Len(s) <= MaxVoices
  <2> DEFINE from == [i \in 1..Len(s) |-> i]
  <2>1. Newest(s) = s BY <1>1 DEF Newest
  <2>2. /\ from \in [1..Len(s) -> 1..Len(s)]
        /\ \A i, j \in 1..Len(s) : i < j => from[i] < from[j]
        /\ \A i \in 1..Len(s) : s[i] = s[from[i]]
    BY <1>0
  <2> HIDE DEF from
  <2>3. Keeps(s, s) BY <2>2 DEF Keeps
  <2> QED BY <1>1, <2>1, <2>3
<1>2. CASE Len(s) > MaxVoices
  <2> DEFINE gone == Len(s) - MaxVoices
             t == Newest(s)
             from == [i \in 1..MaxVoices |-> i + gone]
  <2>1. gone \in Nat BY <1>0, <1>2
  <2>2. t = SubSeq(s, gone + 1, Len(s)) BY <1>0, <1>2 DEF Newest
  <2>3. t = [i \in 1..MaxVoices |-> s[i + gone]]
    <3>1. SubSeq(s, gone + 1, Len(s)) = [i \in 1..(Len(s) - gone) |-> s[i + gone]]
      BY <1>0, <2>1
    <3>2. Len(s) - gone = MaxVoices BY <1>0
    <3> QED BY <2>2, <3>1, <3>2
  <2> HIDE DEF t
  <2>4. IsSeq(t) /\ Len(t) = MaxVoices BY <1>0, <2>3, Listed
  <2>5. from \in [1..MaxVoices -> 1..Len(s)]
        /\ \A i, j \in 1..MaxVoices : i < j => from[i] < from[j]
    BY <1>0, <1>2
  <2>6. \A i \in 1..MaxVoices : t[i] = s[from[i]] BY <2>3
  <2> HIDE DEF from
  <2>7. Keeps(t, s) BY <2>4, <2>5, <2>6 DEF Keeps
  <2> QED BY <1>0, <2>4, <2>7 DEF t
<1> QED BY <1>0, <1>1, <1>2
-----------------------------------------------------------------------------
(* What keys, pedals and groups promise of a pool.                            *)

VoiceFields == {"channel", "note", "group", "offBy", "released", "fading"}

IsVoice(v) ==
  /\ DOMAIN v = VoiceFields /\ v.channel \in Channels /\ v.note \in Notes
  /\ v.released \in BOOLEAN /\ v.fading \in BOOLEAN

Follows(v, down, pedals) ==
  \/ v.fading
  \/ /\ <<v.channel, v.note>> \in down => ~v.released
     /\ <<v.channel, v.note>> \notin down => v.released \/ v.channel \in pedals

\* w is of a region that v's group is off by.
Shuts(w, v) == v.channel = w.channel /\ w.offBy # "none" /\ w.offBy = v.group

Shut(s) == \A i, j \in 1..Len(s) : i < j /\ Shuts(s[j], s[i]) => s[i].fading

Pool(s, down, pedals) ==
  /\ IsSeq(s)
  /\ \A i \in 1..Len(s) : IsVoice(s[i]) /\ Follows(s[i], down, pedals)
  /\ Shut(s)

LEMMA KeptPool ==
  ASSUME NEW s, NEW t, NEW down, NEW pedals, Pool(s, down, pedals), Keeps(t, s)
  PROVE  Pool(t, down, pedals)
<1>1. PICK from \in [1..Len(t) -> 1..Len(s)] :
        /\ \A i, j \in 1..Len(t) : i < j => from[i] < from[j]
        /\ \A i \in 1..Len(t) : t[i] = s[from[i]]
  BY DEF Keeps
<1>2. \A i \in 1..Len(t) : from[i] \in 1..Len(s) /\ t[i] = s[from[i]] BY <1>1
<1>3. \A i \in 1..Len(t) : IsVoice(t[i]) /\ Follows(t[i], down, pedals) BY <1>2 DEF Pool
<1>4. ASSUME NEW i \in 1..Len(t), NEW j \in 1..Len(t), i < j, Shuts(t[j], t[i])
      PROVE  t[i].fading
  <2>1. from[i] < from[j] BY <1>1, <1>4
  <2>2. Shuts(s[from[j]], s[from[i]]) BY <1>2, <1>4
  <2>3. s[from[i]].fading BY <1>2, <2>1, <2>2 DEF Pool, Shut
  <2> QED BY <1>2, <2>3
<1>5. IsSeq(t) BY DEF Keeps
<1> QED BY <1>3, <1>4, <1>5 DEF Pool, Shut

LEMMA JoinedPools ==
  ASSUME NEW s, NEW t, NEW down, NEW pedals, Pool(s, down, pedals), Pool(t, down, pedals),
         \A i \in 1..Len(s), j \in 1..Len(t) : Shuts(t[j], s[i]) => s[i].fading
  PROVE  Pool(s \o t, down, pedals)
<1> DEFINE q == s \o t
           m == Len(s)
           n == Len(t)
<1>1. IsSeq(s) /\ IsSeq(t) BY DEF Pool
<1>2. /\ IsSeq(q) /\ Len(q) = m + n
      /\ \A i \in 1..m : q[i] = s[i]
      /\ \A i \in 1..m + n : i > m => q[i] = t[i - m]
  BY <1>1, Joined
<1>3. m \in Nat /\ n \in Nat BY <1>1 DEF IsSeq
<1> HIDE DEF q, m, n
<1>4. \A i \in 1..Len(q) : \/ i \in 1..m /\ q[i] = s[i]
                           \/ i > m /\ i - m \in 1..n /\ q[i] = t[i - m]
  BY <1>2, <1>3
<1>5. \A i \in 1..Len(q) : IsVoice(q[i]) /\ Follows(q[i], down, pedals)
  BY <1>4 DEF Pool, m, n
<1>6. ASSUME NEW i \in 1..Len(q), NEW j \in 1..Len(q), i < j, Shuts(q[j], q[i])
      PROVE  q[i].fading
  <2>1. CASE i \in 1..m /\ j \in 1..m /\ q[i] = s[i] /\ q[j] = s[j]
    BY <1>6, <2>1 DEF Pool, Shut, m
  <2>2. CASE /\ i \in 1..m /\ q[i] = s[i]
             /\ j - m \in 1..n /\ q[j] = t[j - m]
    BY <1>6, <2>2 DEF m, n
  <2>3. CASE /\ i - m \in 1..n /\ q[i] = t[i - m]
             /\ j - m \in 1..n /\ q[j] = t[j - m]
    <3>1. i - m < j - m BY <1>2, <1>3, <1>6
    <3> QED BY <1>6, <2>3, <3>1 DEF Pool, Shut, n
  <2>4. ~(i > m /\ j \in 1..m) BY <1>2, <1>3, <1>6
  <2> QED BY <1>4, <2>1, <2>2, <2>3, <2>4
<1> QED BY <1>2, <1>5, <1>6 DEF Pool, Shut, q

\* Fading and releasing change nothing else of a voice.
Alike(v, w) ==
  v.channel = w.channel /\ v.note = w.note /\ v.group = w.group /\ v.offBy = w.offBy

LEMMA FadedVoices ==
  ASSUME IsSeq(voices), \A i \in 1..Len(voices) : IsVoice(voices[i]), NEW S
  PROVE  /\ IsSeq(Fade(S)) /\ Len(Fade(S)) = Len(voices)
         /\ \A i \in 1..Len(voices) :
              /\ IsVoice(Fade(S)[i]) /\ Alike(Fade(S)[i], voices[i])
              /\ Fade(S)[i].released = voices[i].released
              /\ Fade(S)[i].fading <=> voices[i].fading \/ i \in S
<1>1. DOMAIN voices = 1..Len(voices) /\ Len(voices) \in Nat BY DEF IsSeq
<1> DEFINE t == Fade(S)
<1>2. t = [i \in 1..Len(voices) |-> [voices[i] EXCEPT !.fading = @ \/ i \in S]]
  BY <1>1 DEF Fade
<1> HIDE DEF t
<1>3. IsSeq(t) /\ Len(t) = Len(voices)
  <2>1. t = [i \in 1..Len(voices) |-> t[i]] BY <1>2
  <2> QED BY <1>1, <2>1, Listed
<1>4. ASSUME NEW i \in 1..Len(voices)
      PROVE  /\ IsVoice(t[i]) /\ Alike(t[i], voices[i])
             /\ t[i].released = voices[i].released
             /\ t[i].fading <=> voices[i].fading \/ i \in S
  <2> DEFINE v == voices[i]
             mark == v.fading \/ i \in S
  <2>1. t[i] = [v EXCEPT !.fading = v.fading \/ i \in S] BY <1>2
  <2>2. DOMAIN v = VoiceFields BY DEF IsVoice
  <2>3. /\ DOMAIN t[i] = VoiceFields /\ Alike(t[i], v) /\ t[i].released = v.released
        /\ t[i].fading = (v.fading \/ i \in S)
    BY <2>1, <2>2 DEF VoiceFields, Alike
  <2>4. t[i].fading \in BOOLEAN /\ (t[i].fading <=> v.fading \/ i \in S) BY <2>3
  <2>5. IsVoice(t[i]) BY <2>3, <2>4 DEF IsVoice, Alike
  <2> QED BY <2>3, <2>4, <2>5
<1> QED BY <1>3, <1>4 DEF t

LEMMA ReleasedVoices ==
  ASSUME IsSeq(voices), \A i \in 1..Len(voices) : IsVoice(voices[i]), NEW S
  PROVE  /\ IsSeq(Release(S)) /\ Len(Release(S)) = Len(voices)
         /\ \A i \in 1..Len(voices) :
              /\ IsVoice(Release(S)[i]) /\ Alike(Release(S)[i], voices[i])
              /\ Release(S)[i].fading = voices[i].fading
              /\ Release(S)[i].released <=> voices[i].released \/ i \in S
<1>1. DOMAIN voices = 1..Len(voices) /\ Len(voices) \in Nat BY DEF IsSeq
<1> DEFINE t == Release(S)
<1>2. t = [i \in 1..Len(voices) |-> [voices[i] EXCEPT !.released = @ \/ i \in S]]
  BY <1>1 DEF Release
<1> HIDE DEF t
<1>3. IsSeq(t) /\ Len(t) = Len(voices)
  <2>1. t = [i \in 1..Len(voices) |-> t[i]] BY <1>2
  <2> QED BY <1>1, <2>1, Listed
<1>4. ASSUME NEW i \in 1..Len(voices)
      PROVE  /\ IsVoice(t[i]) /\ Alike(t[i], voices[i])
             /\ t[i].fading = voices[i].fading
             /\ t[i].released <=> voices[i].released \/ i \in S
  <2> DEFINE v == voices[i]
  <2>1. t[i] = [v EXCEPT !.released = v.released \/ i \in S] BY <1>2
  <2>2. DOMAIN v = VoiceFields BY DEF IsVoice
  <2>3. /\ DOMAIN t[i] = VoiceFields /\ Alike(t[i], v) /\ t[i].fading = v.fading
        /\ t[i].released = (v.released \/ i \in S)
    BY <2>1, <2>2 DEF VoiceFields, Alike
  <2>4. t[i].released \in BOOLEAN /\ (t[i].released <=> v.released \/ i \in S) BY <2>3
  <2>5. IsVoice(t[i]) BY <2>3, <2>4 DEF IsVoice, Alike
  <2> QED BY <2>3, <2>4, <2>5
<1> QED BY <1>3, <1>4 DEF t

\* Voices may fade whenever their keys stay as they are, or whatever their keys do.
LEMMA FadePool ==
  ASSUME Pool(voices, held, sustain), NEW S, NEW down,
         \A i \in 1..Len(voices) :
           i \in S \/ (<<voices[i].channel, voices[i].note>> \in down
                        <=> <<voices[i].channel, voices[i].note>> \in held)
  PROVE  Pool(Fade(S), down, sustain) /\ Len(Fade(S)) = Len(voices)
<1>1. IsSeq(voices) /\ \A i \in 1..Len(voices) : IsVoice(voices[i]) BY DEF Pool
<1>2. /\ IsSeq(Fade(S)) /\ Len(Fade(S)) = Len(voices)
      /\ \A i \in 1..Len(voices) :
           /\ IsVoice(Fade(S)[i]) /\ Alike(Fade(S)[i], voices[i])
           /\ Fade(S)[i].released = voices[i].released
           /\ Fade(S)[i].fading <=> voices[i].fading \/ i \in S
  BY <1>1, FadedVoices
<1> DEFINE t == Fade(S)
<1> HIDE DEF t
<1>3. ASSUME NEW i \in 1..Len(voices) PROVE Follows(t[i], down, sustain)
  <2>1. /\ Alike(t[i], voices[i]) /\ t[i].released = voices[i].released
        /\ t[i].fading <=> voices[i].fading \/ i \in S
    BY <1>2 DEF t
  <2>2. CASE i \in S \/ voices[i].fading BY <2>1, <2>2 DEF Follows
  <2>3. CASE i \notin S /\ ~voices[i].fading
    <3>1. Follows(voices[i], held, sustain) BY DEF Pool
    <3> QED BY <2>1, <2>3, <3>1 DEF Follows, Alike
  <2> QED BY <2>2, <2>3
<1>4. ASSUME NEW i \in 1..Len(voices), NEW j \in 1..Len(voices), i < j, Shuts(t[j], t[i])
      PROVE  t[i].fading
  <2>1. Shuts(voices[j], voices[i]) BY <1>2, <1>4 DEF Shuts, Alike, t
  <2>2. voices[i].fading BY <1>4, <2>1 DEF Pool, Shut
  <2> QED BY <1>2, <2>2 DEF t
<1> QED BY <1>2, <1>3, <1>4 DEF Pool, Shut, t

\* Voices may be released whose keys are up, and have to be where no pedal is down.
LEMMA ReleasePool ==
  ASSUME Pool(voices, held, sustain), NEW S, NEW down, NEW pedals,
         \A i \in 1..Len(voices) :
           /\ <<voices[i].channel, voices[i].note>> \in down =>
                i \notin S /\ <<voices[i].channel, voices[i].note>> \in held
           /\ <<voices[i].channel, voices[i].note>> \notin down =>
                \/ i \in S \/ voices[i].channel \in pedals
                \/ /\ <<voices[i].channel, voices[i].note>> \notin held
                   /\ voices[i].channel \notin sustain
  PROVE  Pool(Release(S), down, pedals) /\ Len(Release(S)) = Len(voices)
<1>1. IsSeq(voices) /\ \A i \in 1..Len(voices) : IsVoice(voices[i]) BY DEF Pool
<1>2. /\ IsSeq(Release(S)) /\ Len(Release(S)) = Len(voices)
      /\ \A i \in 1..Len(voices) :
           /\ IsVoice(Release(S)[i]) /\ Alike(Release(S)[i], voices[i])
           /\ Release(S)[i].fading = voices[i].fading
           /\ Release(S)[i].released <=> voices[i].released \/ i \in S
  BY <1>1, ReleasedVoices
<1> DEFINE t == Release(S)
<1> HIDE DEF t
<1>3. ASSUME NEW i \in 1..Len(voices) PROVE Follows(t[i], down, pedals)
  <2>1. /\ Alike(t[i], voices[i]) /\ t[i].fading = voices[i].fading
        /\ t[i].released <=> voices[i].released \/ i \in S
    BY <1>2 DEF t
  <2>2. Follows(voices[i], held, sustain) BY DEF Pool
  <2>3. CASE voices[i].fading BY <2>1, <2>3 DEF Follows
  <2>4. CASE ~voices[i].fading
    <3> DEFINE key == <<voices[i].channel, voices[i].note>>
    <3>1. key = <<t[i].channel, t[i].note>> /\ t[i].channel = voices[i].channel
      BY <2>1 DEF Alike
    <3>2. key \in down => ~t[i].released
      <4>1. key \in down => i \notin S /\ key \in held OBVIOUS
      <4>2. key \in held => ~voices[i].released BY <2>2, <2>4 DEF Follows
      <4> QED BY <2>1, <4>1, <4>2
    <3>3. key \notin down => t[i].released \/ t[i].channel \in pedals
      <4>1. key \notin held => voices[i].released \/ voices[i].channel \in sustain
        BY <2>2, <2>4 DEF Follows
      <4>2. key \notin down => \/ i \in S \/ voices[i].channel \in pedals
                               \/ key \notin held /\ voices[i].channel \notin sustain
        OBVIOUS
      <4> QED BY <2>1, <3>1, <4>1, <4>2
    <3> QED BY <3>1, <3>2, <3>3 DEF Follows
  <2> QED BY <2>3, <2>4
<1>4. ASSUME NEW i \in 1..Len(voices), NEW j \in 1..Len(voices), i < j, Shuts(t[j], t[i])
      PROVE  t[i].fading
  <2>1. Shuts(voices[j], voices[i]) BY <1>2, <1>4 DEF Shuts, Alike, t
  <2>2. voices[i].fading BY <1>4, <2>1 DEF Pool, Shut
  <2> QED BY <1>2, <2>2 DEF t
<1> QED BY <1>2, <1>3, <1>4 DEF Pool, Shut, t
-----------------------------------------------------------------------------
(* MIDI.                                                                      *)

VoicesInv ==
  /\ Pool(voices, held, sustain) /\ Len(voices) <= MaxVoices
  /\ held \subseteq Channels \X Notes /\ sustain \subseteq Channels

RegionsInv == Len(regions) \in Nat /\ DOMAIN regions = 1..Len(regions)

LEMMA NewVoice ==
  ASSUME NEW c \in Channels, NEW n \in Notes, NEW g, NEW o, NEW fades \in BOOLEAN, NEW v,
         v = [channel |-> c, note |-> n, group |-> g, offBy |-> o, released |-> FALSE,
              fading |-> fades]
  PROVE  /\ IsVoice(v) /\ v.channel = c /\ v.note = n /\ v.group = g /\ v.offBy = o
         /\ ~v.released /\ v.fading = fades
<1>1. /\ DOMAIN v = VoiceFields /\ v.channel = c /\ v.note = n /\ v.group = g /\ v.offBy = o
      /\ v.released = FALSE /\ v.fading = fades
  BY DEF VoiceFields
<1> QED BY <1>1 DEF IsVoice

Starting(n) == {k \in Answering(n) : regions[k].sounds}
Struck(c, n) ==
  [j \in 1..Cardinality(Starting(n)) |-> Strike(c, n, Nth(Starting(n), j))]

\* The voices that answer a key: unreleased, in the order of their regions, and fading
\* when a later region that answers shuts them.
LEMMA StruckPool ==
  ASSUME RegionsInv, NEW c \in Channels, NEW n \in Notes, NEW down, NEW pedals,
         <<c, n>> \in down
  PROVE  /\ Pool(Struck(c, n), down, pedals)
         /\ \A j \in 1..Len(Struck(c, n)) : Struck(c, n)[j].channel = c /\
              \E k \in Answering(n) : Struck(c, n)[j].offBy = regions[k].offBy
<1> DEFINE struck == Struck(c, n)
           S == Starting(n)
           m == Cardinality(S)
<1>1. S \in SUBSET (1..Len(regions)) /\ S \subseteq Answering(n)
  BY DEF RegionsInv, Answering, Starting
<1>2. struck = [j \in 1..m |-> Strike(c, n, Nth(S, j))] BY DEF Struck
<1> HIDE DEF S, struck
<1>3. IsFiniteSet(1..Len(regions)) BY Interval DEF RegionsInv
<1>4. IsFiniteSet(S) /\ S \in SUBSET Nat /\ m \in Nat
  <2>1. IsFiniteSet(S) BY <1>1, <1>3, FS_Subset
  <2> QED BY <1>1, <2>1, FS_CardinalityType DEF RegionsInv
<1>5. \A j \in 1..m : Nth(S, j) \in S BY <1>4, NthHasRank
<1>6. \A i, j \in 1..m : i < j => Nth(S, i) < Nth(S, j) BY <1>4, NthInOrder
<1> HIDE DEF m
<1>7. IsSeq(struck) /\ Len(struck) = m
  <2>1. struck = [j \in 1..m |-> struck[j]] BY <1>2
  <2> QED BY <1>4, <2>1, Listed
<1>8. ASSUME NEW j \in 1..m
      PROVE  /\ IsVoice(struck[j]) /\ struck[j].channel = c /\ struck[j].note = n
             /\ ~struck[j].released
             /\ struck[j].group = regions[Nth(S, j)].group
             /\ struck[j].offBy = regions[Nth(S, j)].offBy
             /\ (\E later \in Answering(n) :
                   later > Nth(S, j) /\ TurnsOff(regions[later], regions[Nth(S, j)]))
                => struck[j].fading
  <2> DEFINE k == Nth(S, j)
             ends == \E later \in Answering(n) :
                       later > k /\ TurnsOff(regions[later], regions[k])
  <2> HIDE DEF k
  <2>1. struck[j] = [channel |-> c, note |-> n, group |-> regions[k].group,
                     offBy |-> regions[k].offBy, released |-> FALSE, fading |-> ends]
    BY <1>2 DEF Strike, k
  <2> HIDE DEF ends
  <2>2. ends \in BOOLEAN BY DEF ends
  <2>3. /\ IsVoice(struck[j]) /\ struck[j].channel = c /\ struck[j].note = n
        /\ struck[j].group = regions[k].group /\ struck[j].offBy = regions[k].offBy
        /\ ~struck[j].released /\ struck[j].fading = ends
    BY <2>1, <2>2, NewVoice
  <2>4. ends => struck[j].fading BY <2>3, Zenon
  <2> QED BY <2>3, <2>4 DEF ends, k
<1>9. \A j \in 1..m : Follows(struck[j], down, pedals) BY <1>8 DEF Follows
<1>10. ASSUME NEW i \in 1..m, NEW j \in 1..m, i < j, Shuts(struck[j], struck[i])
       PROVE  struck[i].fading
  <2>1. Nth(S, j) \in Answering(n) /\ Nth(S, i) \in Nat /\ Nth(S, j) \in Nat
    BY <1>1, <1>4, <1>5
  <2>2. Nth(S, j) > Nth(S, i) BY <1>6, <1>10, <2>1
  <2>3. TurnsOff(regions[Nth(S, j)], regions[Nth(S, i)])
    BY <1>8, <1>10 DEF Shuts, TurnsOff
  <2> QED BY <1>8, <2>1, <2>2, <2>3
<1>11. \A j \in 1..m : struck[j].channel = c /\
         \E k \in Answering(n) : struck[j].offBy = regions[k].offBy
  BY <1>1, <1>5, <1>8
<1> QED BY <1>7, <1>8, <1>9, <1>10, <1>11 DEF Pool, Shut, struck

\* A key is struck: what its regions shut fades before they start.
LEMMA NoteOnStep ==
  ASSUME VoicesInv, RegionsInv, NEW c \in Channels, NEW n \in Notes, NoteOn(c, n)
  PROVE  VoicesInv'
<1> DEFINE down == held \cup {<<c, n>>}
           choked == {i \in Of(c) : \E k \in Answering(n) : TurnsOff(regions[k], voices[i])}
           F == OfNotes(c, {n}) \cup choked
           struck == Struck(c, n)
<1>1. held' = down /\ sustain' = sustain BY DEF NoteOn
<1>2. PICK ended : voices' = Newest(Without(Fade(F), ended) \o struck)
  BY DEF NoteOn, Struck, Starting
<1> DEFINE faded == Fade(F)
           kept == Without(faded, ended)
<1>3. Pool(voices, held, sustain) BY DEF VoicesInv
<1>4. IsSeq(voices) /\ DOMAIN voices = 1..Len(voices)
      /\ \A i \in 1..Len(voices) : IsVoice(voices[i])
  BY <1>3 DEF Pool, IsSeq
<1>5. \A i \in 1..Len(voices) :
        i \in F \/ (<<voices[i].channel, voices[i].note>> \in down
                      <=> <<voices[i].channel, voices[i].note>> \in held)
  BY <1>4 DEF OfNotes, Of
<1>6. \A i \in 1..Len(voices), k \in Answering(n) :
        voices[i].channel = c /\ TurnsOff(regions[k], voices[i]) => i \in F
  BY <1>4 DEF Of
<1>7. /\ Pool(struck, down, sustain)
      /\ \A j \in 1..Len(struck) : struck[j].channel = c /\
           \E k \in Answering(n) : struck[j].offBy = regions[k].offBy
  <2>1. <<c, n>> \in down OBVIOUS
  <2> HIDE DEF down, F, choked
  <2> QED BY <2>1, StruckPool
<1> HIDE DEF F, struck, down
<1>8. Pool(faded, down, sustain) /\ Len(faded) = Len(voices) BY <1>3, <1>5, FadePool
<1>9. /\ IsSeq(faded)
      /\ \A i \in 1..Len(voices) : /\ Alike(faded[i], voices[i])
                                   /\ i \in F => faded[i].fading
  BY <1>4, FadedVoices
<1> HIDE DEF faded
<1>10. Keeps(kept, faded) BY <1>9, WithoutKeeps
<1> HIDE DEF kept
<1>11. Pool(kept, down, sustain) BY <1>8, <1>10, KeptPool
<1>12. ASSUME NEW i \in 1..Len(kept), NEW j \in 1..Len(struck), Shuts(struck[j], kept[i])
       PROVE  kept[i].fading
  <2>1. PICK h \in 1..Len(faded) : kept[i] = faded[h] BY <1>10 DEF Keeps
  <2>2. PICK k \in Answering(n) : struck[j].offBy = regions[k].offBy BY <1>7
  <2>3. h \in 1..Len(voices) BY <1>8, <2>1
  <2>4. voices[h].channel = c /\ TurnsOff(regions[k], voices[h])
    BY <1>7, <1>9, <1>12, <2>1, <2>2, <2>3 DEF Shuts, TurnsOff, Alike
  <2> QED BY <1>6, <1>9, <2>1, <2>3, <2>4
<1> DEFINE all == kept \o struck
<1>13. Pool(all, down, sustain) BY <1>7, <1>11, <1>12, JoinedPools
<1>14. voices' = Newest(all) BY <1>2 DEF kept, faded
<1> HIDE DEF all
<1>15. IsSeq(all) BY <1>13 DEF Pool
<1>16. Keeps(voices', all) /\ Len(voices') <= MaxVoices BY <1>14, <1>15, NewestKeeps
<1>17. Pool(voices', down, sustain) BY <1>13, <1>16, KeptPool
<1>18. down \subseteq Channels \X Notes BY DEF VoicesInv, down
<1> QED BY <1>1, <1>16, <1>17, <1>18 DEF VoicesInv

LEMMA NoteOffStep ==
  ASSUME VoicesInv, NEW c \in Channels, NEW n \in Notes, NoteOff(c, n)
  PROVE  VoicesInv'
<1> DEFINE down == held \ {<<c, n>>}
<1>1. held' = down /\ sustain' = sustain BY DEF NoteOff
<1>2. Pool(voices, held, sustain) /\ Len(voices) <= MaxVoices BY DEF VoicesInv
<1>3. DOMAIN voices = 1..Len(voices) BY <1>2 DEF Pool, IsSeq
<1>4. CASE c \in sustain
  <2>1. voices' = voices BY <1>4 DEF NoteOff
  <2>2. \A v : Follows(v, held, sustain) => Follows(v, down, sustain) BY <1>4 DEF Follows
  <2>3. Pool(voices, down, sustain) BY <1>2, <2>2 DEF Pool
  <2> QED BY <1>1, <1>2, <2>1, <2>3 DEF VoicesInv
<1>5. CASE c \notin sustain
  <2> DEFINE S == OfNotes(c, {n})
  <2>1. voices' = Release(S) BY <1>5 DEF NoteOff
  <2>2. \A i \in 1..Len(voices) :
          /\ <<voices[i].channel, voices[i].note>> \in down =>
               i \notin S /\ <<voices[i].channel, voices[i].note>> \in held
          /\ <<voices[i].channel, voices[i].note>> \notin down =>
               \/ i \in S \/ voices[i].channel \in sustain
               \/ /\ <<voices[i].channel, voices[i].note>> \notin held
                  /\ voices[i].channel \notin sustain
    BY <1>3 DEF OfNotes, Of
  <2> HIDE DEF S, down
  <2>3. Pool(voices', down, sustain) /\ Len(voices') = Len(voices)
    BY <1>2, <2>1, <2>2, ReleasePool
  <2> QED BY <1>1, <1>2, <2>3 DEF VoicesInv, down
<1> QED BY <1>4, <1>5

\* A pedal that is lifted releases what its channel no longer holds.
LEMMA DamperStep ==
  ASSUME VoicesInv, NEW c \in Channels, NEW down \in BOOLEAN, Damper(c, down)
  PROVE  VoicesInv'
<1> DEFINE pedals == IF down THEN sustain \cup {c} ELSE sustain \ {c}
<1>1. held' = held /\ sustain' = pedals BY DEF Damper
<1>2. Pool(voices, held, sustain) /\ Len(voices) <= MaxVoices BY DEF VoicesInv
<1>3. DOMAIN voices = 1..Len(voices) /\ \A i \in 1..Len(voices) : IsVoice(voices[i])
  BY <1>2 DEF Pool, IsSeq
<1>4. CASE ~(c \in sustain /\ ~down)
  <2>1. voices' = voices BY <1>4 DEF Damper
  <2>2. sustain \subseteq pedals BY <1>4
  <2> HIDE DEF pedals
  <2>3. \A v : Follows(v, held, sustain) => Follows(v, held, pedals) BY <2>2 DEF Follows
  <2>4. Pool(voices, held, pedals) BY <1>2, <2>3 DEF Pool
  <2> QED BY <1>1, <1>2, <2>1, <2>4 DEF VoicesInv, pedals
<1>5. CASE c \in sustain /\ ~down
  <2> DEFINE S == OfNotes(c, {n \in Notes : <<c, n>> \notin held})
  <2>1. voices' = Release(S) /\ pedals = sustain \ {c} BY <1>5 DEF Damper
  <2>2. \A i \in 1..Len(voices) :
          /\ <<voices[i].channel, voices[i].note>> \in held =>
               i \notin S /\ <<voices[i].channel, voices[i].note>> \in held
          /\ <<voices[i].channel, voices[i].note>> \notin held =>
               \/ i \in S \/ voices[i].channel \in sustain \ {c}
               \/ /\ <<voices[i].channel, voices[i].note>> \notin held
                  /\ voices[i].channel \notin sustain
    BY <1>3 DEF OfNotes, Of, IsVoice
  <2> HIDE DEF S, pedals
  <2>3. Pool(voices', held, sustain \ {c}) /\ Len(voices') = Len(voices)
    BY <1>2, <2>1, <2>2, ReleasePool
  <2> QED BY <1>1, <1>2, <2>1, <2>3 DEF VoicesInv
<1> QED BY <1>4, <1>5

LEMMA AllSoundOffStep ==
  ASSUME VoicesInv, NEW c \in Channels, AllSoundOff(c)
  PROVE  VoicesInv'
<1>1. voices' = Fade(Of(c)) /\ held' = held /\ sustain' = sustain BY DEF AllSoundOff
<1>2. Pool(voices, held, sustain) /\ Len(voices) <= MaxVoices BY DEF VoicesInv
<1>3. Pool(voices', held, sustain) /\ Len(voices') = Len(voices) BY <1>1, <1>2, FadePool
<1> QED BY <1>1, <1>2, <1>3 DEF VoicesInv

LEMMA AllNotesOffStep ==
  ASSUME VoicesInv, NEW c \in Channels, AllNotesOff(c)
  PROVE  VoicesInv'
<1> DEFINE down == {k \in held : k[1] # c}
           S == Of(c)
<1>1. voices' = Release(S) /\ held' = down /\ sustain' = sustain BY DEF AllNotesOff
<1>2. Pool(voices, held, sustain) /\ Len(voices) <= MaxVoices BY DEF VoicesInv
<1>3. DOMAIN voices = 1..Len(voices) BY <1>2 DEF Pool, IsSeq
<1>4. \A i \in 1..Len(voices) :
        /\ <<voices[i].channel, voices[i].note>> \in down =>
             i \notin S /\ <<voices[i].channel, voices[i].note>> \in held
        /\ <<voices[i].channel, voices[i].note>> \notin down =>
             \/ i \in S \/ voices[i].channel \in sustain
             \/ /\ <<voices[i].channel, voices[i].note>> \notin held
                /\ voices[i].channel \notin sustain
  BY <1>3 DEF Of
<1> HIDE DEF S, down
<1>5. Pool(voices', down, sustain) /\ Len(voices') = Len(voices)
  BY <1>1, <1>2, <1>4, ReleasePool
<1> QED BY <1>1, <1>2, <1>5 DEF VoicesInv, down

LEMMA RenderBankStep ==
  ASSUME VoicesInv, RenderBank
  PROVE  VoicesInv'
<1>1. PICK ended : voices' = Without(voices, ended) /\ held' = held /\ sustain' = sustain
  BY DEF RenderBank
<1>2. Pool(voices, held, sustain) /\ IsSeq(voices) /\ Len(voices) <= MaxVoices
  BY DEF VoicesInv, Pool
<1>3. Keeps(voices', voices) /\ Len(voices') <= Len(voices) BY <1>1, <1>2, WithoutKeeps
<1>4. Pool(voices', held, sustain) BY <1>2, <1>3, KeptPool
<1>5. Len(voices') <= MaxVoices
  BY <1>2, <1>3, PortableAssumption DEF PortableAssumption, Keeps, IsSeq
<1> QED BY <1>1, <1>4, <1>5 DEF VoicesInv

LEMMA NoVoices ==
  ASSUME NEW s, s = <<>>, NEW down, NEW pedals
  PROVE  Pool(s, down, pedals) /\ Len(s) <= MaxVoices
<1>1. Len(s) = 0 /\ s = [i \in 1..0 |-> s[i]] OBVIOUS
<1> QED BY <1>1, PortableAssumption DEF PortableAssumption, Pool, Shut, IsSeq

LEMMA DispatchStep ==
  ASSUME VoicesInv, RegionsInv, DispatchMidi
  PROVE  VoicesInv'
<1>1. CASE \E c \in Channels : \E n \in Notes : NoteOn(c, n) \/ NoteOff(c, n)
  BY <1>1, NoteOnStep, NoteOffStep
<1>2. CASE \E c \in Channels : \E down \in BOOLEAN : Damper(c, down) BY <1>2, DamperStep
<1>3. CASE \E c \in Channels : AllSoundOff(c) \/ AllNotesOff(c)
  BY <1>3, AllSoundOffStep, AllNotesOffStep
<1>4. CASE UNCHANGED sounding BY <1>4 DEF sounding, VoicesInv
<1> QED BY <1>1, <1>2, <1>3, <1>4 DEF DispatchMidi
-----------------------------------------------------------------------------
(* The player.                                                                *)

Players == [file : Banks, pieces : Seq(Nat), library : {Parse(Files[f]) : f \in Banks},
            selected : UNION {Ids(Parse(Files[f])) : f \in Banks},
            loaded : BOOLEAN, control : Controls, rate : Rates]

\* p has the library of its file and one of its instruments selected, at that rate.
Fits(p, speed) ==
  /\ p \in Players /\ p.library = Parse(Files[p.file])
  /\ p.selected \in Ids(p.library) /\ p.rate = speed

PlayerInv ==
  /\ rate \in Rates /\ control \in Controls /\ changed \subseteq Channels
  /\ format \in {None, "bank", "soundfont"} /\ (format = None => soundFont = None)
  /\ synth # None => format = "soundfont"
  /\ format = "bank" <=> player # None
  /\ player # None => Fits(player, rate)

LEMMA FittingPlayers ==
  ASSUME NEW p, NEW speed, Fits(p, speed)
  PROVE  p # None
BY PlayersAssumption DEF PlayersAssumption, Fits, Players

\* A player that changes its instrument, whether it is loaded, its control and its rate.
Changed(p, id, loaded, level, next) ==
  [p EXCEPT !.selected = id, !.loaded = loaded, !.control = level, !.rate = next]

LEMMA ChangedPlayer ==
  ASSUME NEW p, NEW speed, Fits(p, speed), NEW id \in Ids(p.library),
         NEW loaded \in BOOLEAN, NEW level \in Controls, NEW next \in Rates
  PROVE  Fits(Changed(p, id, loaded, level, next), next)
<1> DEFINE q == Changed(p, id, loaded, level, next)
<1>1. p \in Players /\ p.library = Parse(Files[p.file]) /\ p.file \in Banks
  BY DEF Fits, Players
<1>2. id \in UNION {Ids(Parse(Files[f])) : f \in Banks} BY <1>1
<1>3. /\ q \in Players /\ q.library = p.library /\ q.file = p.file
      /\ q.selected = id /\ q.rate = next
  BY <1>1, <1>2 DEF Players, Changed
<1> QED BY <1>1, <1>3 DEF Fits

LEMMA FreshPlayerFits ==
  ASSUME NEW file \in Banks, NEW pieces \in Seq(Nat), rate \in Rates, control \in Controls,
         NEW id \in Ids(Parse(Files[file])), NEW q,
         q = LoadWithEffects(FreshPlayer(file, pieces), id)
  PROVE  Fits(q, rate) /\ q # None
<1>1. q = [file |-> file, pieces |-> pieces, library |-> Parse(Files[file]),
           selected |-> id, loaded |-> TRUE, control |-> control, rate |-> rate]
  BY DEF LoadWithEffects, FreshPlayer
<1>2. q \in Players BY <1>1 DEF Players
<1>3. Fits(q, rate) BY <1>1, <1>2 DEF Fits
<1> QED BY <1>3, FittingPlayers

LEMMA PlayerStep == TransferInv /\ PlayerInv /\ [Next]_vars => PlayerInv'
<1> SUFFICES ASSUME TransferInv, PlayerInv, [Next]_vars PROVE PlayerInv'
  OBVIOUS
<1>0. None \notin {"bank", "soundfont"} BY PortableAssumption DEF PortableAssumption
<1>1. ASSUME UNCHANGED <<soundFont, player, synth, format, rate, control, changed>>
      PROVE  PlayerInv'
  BY <1>1 DEF PlayerInv
<1>2. ASSUME NEW value \in Controls, ApplyControl(value),
             UNCHANGED <<soundFont, format, rate, changed>>
      PROVE  PlayerInv'
  <2>1. control' = value /\ synth' = synth BY <1>2 DEF ApplyControl
  <2>2. CASE player' = player BY <1>2, <2>1, <2>2 DEF PlayerInv
  <2>3. CASE player # None /\ player' = [player EXCEPT !.control = value]
    <3>1. Fits(player, rate) /\ rate \in Rates BY <2>3 DEF PlayerInv
    <3>2. player' = Changed(player, player.selected, player.loaded, value, rate)
      BY <2>3, <3>1 DEF Fits, Players, Changed
    <3>3. player.selected \in Ids(player.library) /\ player.loaded \in BOOLEAN
      BY <3>1 DEF Fits, Players
    <3>4. Fits(player', rate) BY <3>1, <3>2, <3>3, ChangedPlayer
    <3>5. player' # None BY <3>4, FittingPlayers
    <3> QED BY <1>2, <2>1, <2>3, <3>4, <3>5 DEF PlayerInv
  <2> QED BY <1>2, <2>2, <2>3 DEF ApplyControl
<1>3. ASSUME NEW value, ApplyVolume(value), UNCHANGED <<soundFont, format, rate, changed>>
      PROVE  PlayerInv'
  <2>1. UNCHANGED <<player, control>> /\ (synth = None => synth' = None)
    BY <1>3 DEF ApplyVolume
  <2> QED BY <1>3, <2>1 DEF PlayerInv
<1>4. ASSUME Prepare PROVE PlayerInv'
  <2>1. /\ rate' \in Rates /\ changed' = {} /\ UNCHANGED <<soundFont, format, control>>
        /\ synth' = Rebuilt(format, FileOf(soundFont), selected, volume)
    BY <1>4 DEF Prepare
  <2>2. synth' # None => format = "soundfont"
    BY <2>1 DEF Rebuilt, FileOf, PlayerInv
  <2>3. CASE player = None
    <3>1. player' = None BY <1>4, <2>3 DEF Prepare
    <3> QED BY <2>1, <2>2, <2>3, <3>1 DEF PlayerInv
  <2>4. CASE player # None
    <3>1. Fits(player, rate) /\ control \in Controls BY <2>4 DEF PlayerInv
    <3>2. /\ player \in Players /\ player.selected \in Ids(player.library)
          /\ player.loaded \in BOOLEAN /\ player.control \in Controls
      BY <3>1 DEF Fits, Players
    <3>3. PICK level \in Controls, loaded \in BOOLEAN :
            player' = Changed(player, player.selected, loaded, level, rate')
      <4>1. CASE player.rate = rate'
        <5> DEFINE level == IF player.loaded THEN control ELSE player.control
        <5>1. player' = [player EXCEPT !.control = level] BY <1>4, <2>4, <4>1 DEF Prepare
        <5>2. level \in Controls BY <3>1, <3>2
        <5> HIDE DEF level
        <5>3. player' = Changed(player, player.selected, player.loaded, level, rate')
          BY <3>2, <4>1, <5>1 DEF Players, Changed
        <5> QED BY <3>2, <5>2, <5>3
      <4>2. CASE player.rate # rate'
        <5> DEFINE loaded == CanLoad(player, player.selected, rate')
        <5>1. player' = [player EXCEPT !.rate = rate', !.control = control, !.loaded = loaded]
          BY <1>4, <2>4, <4>2 DEF Prepare
        <5>2. loaded \in BOOLEAN BY DEF CanLoad, Loads
        <5> HIDE DEF loaded
        <5>3. player' = Changed(player, player.selected, loaded, control, rate')
          BY <3>2, <5>1 DEF Players, Changed
        <5> QED BY <3>1, <5>2, <5>3
      <4> QED BY <4>1, <4>2
    <3>4. Fits(player', rate') BY <2>1, <3>1, <3>2, <3>3, ChangedPlayer
    <3>5. player' # None BY <3>4, FittingPlayers
    <3> QED BY <2>1, <2>2, <2>4, <3>4, <3>5 DEF PlayerInv
  <2> QED BY <2>3, <2>4
<1>5. ASSUME Reset PROVE PlayerInv'
  <2>1. /\ UNCHANGED <<soundFont, player, format, rate, control>> /\ changed' = {}
        /\ (synth = None => synth' = None)
    BY <1>5 DEF Reset, settings
  <2> QED BY <2>1 DEF PlayerInv
<1>6. ASSUME EndResource PROVE PlayerInv'
  <2> DEFINE file == pending.file
             pieces == pending.pieces
  <2>1. /\ UNCHANGED <<rate, control>> /\ file \in DOMAIN Files /\ pieces \in Seq(Nat)
    BY <1>6 DEF EndResource, settings, TransferInv
  <2>2. CASE UNCHANGED <<soundFont, player, synth, format, changed>>
    BY <1>1, <2>1, <2>2
  <2>3. CASE Files[file].kind = "bank" /\ Acceptable(file) /\ InstallBank(file, pieces)
    <3> DEFINE id == FirstChoice(FreshPlayer(file, pieces))
    <3>1. /\ player' = LoadWithEffects(FreshPlayer(file, pieces), id)
          /\ format' = "bank" /\ synth' = None /\ changed' = {}
      BY <2>3 DEF InstallBank
    <3>2. id \in Ids(Parse(Files[file]))
      <4>1. CanLoad(FreshPlayer(file, <<>>), FirstChoice(FreshPlayer(file, <<>>)), rate)
        BY <2>3 DEF Acceptable
      <4>2. FirstChoice(FreshPlayer(file, <<>>)) \in Ids(Parse(Files[file]))
        BY <4>1 DEF CanLoad, FreshPlayer
      <4>3. id = FirstChoice(FreshPlayer(file, <<>>))
        BY DEF FirstChoice, FreshPlayer, CanLoad
      <4> QED BY <4>2, <4>3
    <3>3. file \in Banks BY <2>1, <2>3 DEF Banks
    <3> HIDE DEF id
    <3>4. Fits(player', rate) /\ player' # None
      BY <2>1, <3>1, <3>2, <3>3, FreshPlayerFits DEF PlayerInv
    <3> QED BY <1>0, <2>1, <3>1, <3>4 DEF PlayerInv
  <2>4. CASE InstallSoundFont(file, pieces)
    <3>1. player' = None /\ format' = "soundfont" /\ changed' = {}
      BY <2>4 DEF InstallSoundFont
    <3> QED BY <1>0, <2>1, <3>1 DEF PlayerInv
  <2> QED BY <1>6, <2>2, <2>3, <2>4 DEF EndResource
<1>7. ASSUME NEW id, LoadBankPreset(id), UNCHANGED <<soundFont, format, rate, control>>
      PROVE  PlayerInv'
  <2>1. /\ format = "bank" /\ CanLoad(player, id, rate) /\ UNCHANGED <<synth, changed>>
        /\ player' = [player EXCEPT !.selected = id, !.loaded = TRUE, !.control = control]
    BY <1>7 DEF LoadBankPreset, LoadWithEffects
  <2>2. Fits(player, rate) /\ rate \in Rates /\ control \in Controls BY <2>1 DEF PlayerInv
  <2>3. id \in Ids(player.library) BY <2>1 DEF CanLoad
  <2>4. player' = Changed(player, id, TRUE, control, rate)
    BY <2>1, <2>2 DEF Fits, Players, Changed
  <2>5. Fits(player', rate) BY <2>2, <2>3, <2>4, ChangedPlayer
  <2>6. player' # None BY <2>5, FittingPlayers
  <2> QED BY <1>7, <2>1, <2>5, <2>6 DEF PlayerInv
<1>8. ASSUME LoadPreset PROVE PlayerInv'
  <2>1. UNCHANGED <<soundFont, format, rate, control>> BY <1>8 DEF LoadPreset, settings
  <2>2. CASE \E id : LoadBankPreset(id) BY <1>7, <2>1, <2>2
  <2>3. ASSUME NEW choice, LoadSoundFontPreset(choice) PROVE PlayerInv'
    <3>1. format = "soundfont" /\ changed' = {} /\ player' = player
      BY <2>3 DEF LoadSoundFontPreset
    <3> QED BY <2>1, <3>1 DEF PlayerInv
  <2>4. CASE LoadLegacyPreset BY <2>3, <2>4 DEF LoadLegacyPreset
  <2> QED BY <1>8, <2>2, <2>3, <2>4 DEF LoadPreset
<1>9. ASSUME Midi PROVE PlayerInv'
  <2>1. UNCHANGED <<soundFont, format, rate, control, player>> BY <1>9 DEF Midi, settings
  <2>2. CASE UNCHANGED <<synth, changed>> BY <1>1, <2>1, <2>2
  <2>3. CASE format = "soundfont" /\ SynthMidi
    <3>1. changed' \subseteq Channels BY <2>3 DEF SynthMidi, PlayerInv
    <3> QED BY <2>1, <2>3, <3>1 DEF PlayerInv
  <2> QED BY <1>9, <2>2, <2>3 DEF Midi
<1>10. ASSUME SetParameter \/ Parameter \/ ParametersOnly PROVE PlayerInv'
  <2>1. UNCHANGED <<soundFont, format, rate, changed>>
    BY <1>10 DEF SetParameter, Parameter, ParametersOnly
  <2>2. \/ \E value \in Volumes : ApplyVolume(value)
        \/ \E value \in Controls : ApplyControl(value)
        \/ UNCHANGED <<volume, control, player, synth>>
    BY <1>10 DEF SetParameter, Parameter, ParametersOnly
  <2> QED BY <1>1, <1>2, <1>3, <2>1, <2>2
<1>11. ASSUME Next PROVE \/ Prepare \/ Reset \/ EndResource \/ LoadPreset \/ Midi
                         \/ SetParameter \/ Parameter \/ ParametersOnly
                         \/ UNCHANGED <<soundFont, player, synth, format, rate, control, changed>>
  BY <1>11 DEF Next, BeginResource, WriteResource, BeginBlock, Render, Return, settings
<1>12. CASE UNCHANGED vars BY <1>1, <1>12 DEF vars
<1> QED BY <1>1, <1>4, <1>5, <1>6, <1>8, <1>9, <1>10, <1>11, <1>12
-----------------------------------------------------------------------------
(* What is loaded, and what sounds of it.                                     *)

LEMMA LoadedRegionsAre ==
  ASSUME NEW p, NEW speed, p = None \/ Fits(p, speed), NEW r, r = RegionsOf(p)
  PROVE  Len(r) \in Nat /\ DOMAIN r = 1..Len(r)
<1>1. CASE r = <<>> BY <1>1
<1>2. CASE r # <<>>
  <2> DEFINE map == Entry(p.library, p.selected).map
             maps == InOrder(MapEntries(Files[p.file]))
             S == {i \in DOMAIN map.regions :
                     ~HasSample(Files[p.file], map, map.regions[i].sample)}
             left == DOMAIN map.regions \ S
  <2>1. p # None /\ r = Without(map.regions, S)
    BY <1>2 DEF RegionsOf, LoadedRegions
  <2>2. p.file \in Banks /\ p.library = Parse(Files[p.file])
        /\ p.selected \in Ids(p.library)
    BY <2>1 DEF Fits, Players
  <2>3. p.library # <<>> BY <2>2 DEF Ids
  <2>4. \A i \in DOMAIN p.library : i \in DOMAIN maps /\ p.library[i].map = maps[i]
    <3> DEFINE ids == UniqueIds(maps)
    <3>1. p.library = [i \in DOMAIN maps |-> [id |-> <<maps[i].kind>> \o ids[i],
                                              map |-> maps[i]]]
      BY <2>2, <2>3 DEF Parse, Failed
    <3> HIDE DEF maps, ids
    <3> QED BY <3>1
  <2>5. \E i \in DOMAIN p.library : map = p.library[i].map
    BY <2>2 DEF Entry, Ids
  <2>6. map \in ToSet(maps) BY <2>4, <2>5 DEF ToSet
  <2>7. Len(map.regions) \in Nat /\ DOMAIN map.regions = 1..Len(map.regions)
    BY <2>2, <2>6, MapsAssumption DEF MapsAssumption
  <2> HIDE DEF map, S
  <2>8. IsFiniteSet(1..Len(map.regions)) BY <2>7, Interval
  <2>9. left \subseteq 1..Len(map.regions) BY <2>7
  <2>10. r = [k \in 1..Cardinality(left) |-> map.regions[Nth(left, k)]]
    BY <2>1 DEF Without
  <2> HIDE DEF left
  <2>11. IsFiniteSet(left) BY <2>8, <2>9, FS_Subset
  <2>12. Cardinality(left) \in Nat BY <2>11, FS_CardinalityType
  <2> QED BY <2>10, <2>12
<1> QED BY <1>1, <1>2

LEMMA SilentStep == Silent => VoicesInv'
BY NoVoices DEF Silent, VoicesInv

LEMMA VoicesStep ==
  /\ VoicesInv /\ RegionsInv /\ PlayerInv' /\ [Next]_vars
  => VoicesInv' /\ RegionsInv'
<1> SUFFICES ASSUME VoicesInv, RegionsInv, PlayerInv', [Next]_vars
             PROVE  VoicesInv' /\ RegionsInv'
  OBVIOUS
<1>1. regions' = regions => RegionsInv' BY DEF RegionsInv
<1>2. UNCHANGED sounding => VoicesInv' BY DEF VoicesInv, sounding
<1>3. regions' = RegionsOf(player') => RegionsInv'
  BY LoadedRegionsAre DEF PlayerInv, RegionsInv
<1>4. ASSUME Prepare PROVE VoicesInv' /\ RegionsInv'
  BY <1>1, <1>2, <1>3, <1>4, SilentStep DEF Prepare
<1>5. ASSUME Reset PROVE VoicesInv' /\ RegionsInv' BY <1>1, <1>5, SilentStep DEF Reset
<1>6. ASSUME EndResource PROVE VoicesInv' /\ RegionsInv'
  <2>1. CASE UNCHANGED <<regions, sounding>> BY <1>1, <1>2, <2>1
  <2>2. CASE \E file, pieces : InstallBank(file, pieces)
    BY <1>3, <2>2, SilentStep DEF InstallBank
  <2>3. CASE \E file, pieces : InstallSoundFont(file, pieces)
    <3>1. Silent /\ regions' = <<>> BY <2>3 DEF InstallSoundFont
    <3> QED BY <3>1, SilentStep DEF RegionsInv
  <2> QED BY <1>6, <2>1, <2>2, <2>3 DEF EndResource
<1>7. ASSUME LoadPreset PROVE VoicesInv' /\ RegionsInv'
  <2>1. CASE \E id : LoadBankPreset(id) BY <1>3, <2>1, SilentStep DEF LoadBankPreset
  <2>2. CASE \E id : LoadSoundFontPreset(id)
    BY <1>1, <1>2, <2>2 DEF LoadSoundFontPreset
  <2> QED BY <1>7, <2>1, <2>2 DEF LoadPreset, LoadLegacyPreset
<1>8. ASSUME Render PROVE VoicesInv' /\ RegionsInv'
  BY <1>1, <1>2, <1>8, RenderBankStep DEF Render
<1>9. ASSUME Midi PROVE VoicesInv' /\ RegionsInv'
  BY <1>1, <1>2, <1>9, DispatchStep DEF Midi
<1>10. ASSUME Next PROVE \/ Prepare \/ Reset \/ EndResource \/ LoadPreset \/ Render \/ Midi
                         \/ UNCHANGED <<regions, sounding>>
  BY <1>10 DEF Next, SetParameter, BeginResource, WriteResource, BeginBlock, Parameter,
               ParametersOnly, Return
<1>11. CASE UNCHANGED vars BY <1>1, <1>2, <1>11 DEF vars
<1> QED BY <1>1, <1>2, <1>4, <1>5, <1>6, <1>7, <1>8, <1>9, <1>10, <1>11

PluginInv ==
  /\ VoicesInv /\ RegionsInv /\ PlayerInv /\ TransferInv /\ HeardInv
  /\ BlockInv /\ block.open \in BOOLEAN

LEMMA OpenStep == BlockInv /\ block.open \in BOOLEAN /\ [Next]_vars => block'.open \in BOOLEAN
<1> SUFFICES ASSUME BlockInv, block.open \in BOOLEAN, [Next]_vars PROVE block'.open \in BOOLEAN
  OBVIOUS
<1>1. CASE block' = block BY <1>1
<1>2. CASE block' = Idle BY <1>2 DEF Idle
<1>3. CASE BeginBlock
  <2>1. block'.open = TRUE BY <1>3 DEF BeginBlock
  <2> QED BY <2>1
<1>4. CASE Render \/ Midi \/ Parameter
  <2>1. block \in Blocks BY <1>4 DEF Render, Midi, Parameter, BlockInv
  <2>2. block'.open = block.open BY <1>4, <2>1 DEF Render, Midi, Parameter, Blocks
  <2> QED BY <2>2
<1>5. CASE ParametersOnly \/ Return BY <1>2, <1>5 DEF ParametersOnly, Return
<1>6. ASSUME Next PROVE BeginBlock \/ Render \/ Midi \/ Parameter \/ ParametersOnly \/ Return
                        \/ block' = block
  BY <1>6 DEF Next, Prepare, SetParameter, Reset, BeginResource, WriteResource, EndResource,
              LoadPreset
<1> QED BY <1>1, <1>3, <1>4, <1>5, <1>6 DEF vars

LEMMA PluginInit == Init => PluginInv
<1> SUFFICES ASSUME Init PROVE PluginInv OBVIOUS
<1>1. VoicesInv
  <2>1. Pool(voices, held, sustain) /\ Len(voices) <= MaxVoices BY NoVoices DEF Init
  <2> QED BY <2>1 DEF Init, VoicesInv
<1>2. RegionsInv BY DEF Init, RegionsInv
<1>3. PlayerInv BY PortableAssumption DEF PortableAssumption, Init, PlayerInv
<1>4. TransferInv /\ HeardInv
  BY PortableAssumption DEF PortableAssumption, Init, TransferInv, HeardInv
<1>5. BlockInv /\ block.open \in BOOLEAN BY DEF Init, BlockInv, Idle
<1> QED BY <1>1, <1>2, <1>3, <1>4, <1>5 DEF PluginInv

LEMMA PluginStep == PluginInv /\ [Next]_vars => PluginInv'
BY VoicesStep, PlayerStep, TransferStep, HeardStep, BlockStep, OpenStep DEF PluginInv

LEMMA VoicesAre ==
  ASSUME VoicesInv
  PROVE  VoicesFollowTheKeys /\ ChokedGroupsAreSilent /\ VoicesTypeOK
<1>1. /\ DOMAIN voices = 1..Len(voices)
      /\ \A i \in 1..Len(voices) : IsVoice(voices[i]) /\ Follows(voices[i], held, sustain)
      /\ Shut(voices)
  BY DEF VoicesInv, Pool, IsSeq
<1>2. VoicesFollowTheKeys BY <1>1 DEF VoicesFollowTheKeys, Follows
<1>3. ChokedGroupsAreSilent BY <1>1 DEF ChokedGroupsAreSilent, Shut, Shuts
<1>4. VoicesTypeOK BY <1>1 DEF VoicesTypeOK, VoicesInv, IsVoice
<1> QED BY <1>2, <1>3, <1>4

\* A voice that does not fade follows its key and its channel's pedal (VoicesFollowTheKeys):
\* note_off, the damper and the messages that silence a channel release what they let go,
\* a key struck again fades its old voices, and no other channel is touched.
THEOREM VoicesAnswerTheKeys == Spec => []VoicesFollowTheKeys
<1>1. PluginInv => VoicesFollowTheKeys BY VoicesAre DEF PluginInv
<1> QED BY <1>1, PluginInit, PluginStep, PTL DEF Spec

\* A choke group stays shut (ChokedGroupsAreSilent): note_on fades what an answering
\* region turns off, a region of the same key included, and neither the cap on voices nor
\* the ones that end change their order.
THEOREM ChokedGroupsStayShut == Spec => []ChokedGroupsAreSilent
<1>1. PluginInv => ChokedGroupsAreSilent BY VoicesAre DEF PluginInv
<1> QED BY <1>1, PluginInit, PluginStep, PTL DEF Spec

\* TypeOK: the format says which of the player and the synthesizer there is, the player
\* runs at the plugin's rate with one of its own instruments selected, and the pool is
\* never over its cap.
THEOREM PluginIsTyped == Spec => []TypeOK
<1>1. PluginInv => TypeOK
  <2> SUFFICES ASSUME PluginInv PROVE TypeOK OBVIOUS
  <2>1. VoicesTypeOK BY VoicesAre DEF PluginInv
  <2>2. /\ format \in {None, "bank", "soundfont"}
        /\ format = "bank" <=> player # None
        /\ synth # None <=> format = "soundfont"
        /\ format = "soundfont" => soundFont # None
    BY DEF PluginInv, PlayerInv, HeardInv
  <2>3. /\ rate \in Rates /\ volume \in Volumes /\ control \in Controls
        /\ changed \subseteq Channels /\ block.open \in BOOLEAN
    BY DEF PluginInv, PlayerInv, HeardInv
  <2>4. player # None => player.rate = rate /\ player.selected \in Ids(player.library)
    BY DEF PluginInv, PlayerInv, Fits
  <2> QED BY <2>1, <2>2, <2>3, <2>4 DEF TypeOK
<1> QED BY <1>1, PluginInit, PluginStep, PTL DEF Spec
-----------------------------------------------------------------------------
(***************************************************************************)
(* What is offered.  Halving a catalog comes to an end within it: the      *)
(* numbers it leads through (Halvings) have a least one.  The identifiers  *)
(* of a library are distinct map by map (Distinct), because the numbers a  *)
(* slug may get outnumber the identifiers given before it (FreeIdentifier).*)
(***************************************************************************)
(* Catalogs.                                                                  *)

\* The numbers that halving leads to from n, until one is within the room.
Closed(C, room) == \A m \in C : m > room => m \div 2 \in C
Halvings(n, room) ==
  {m \in Nat : \A C \in SUBSET Nat : n \in C /\ Closed(C, room) => m \in C}

LEMMA HalvingsAre ==
  ASSUME NEW n \in Nat, NEW room \in Nat
  PROVE  /\ n \in Halvings(n, room) /\ Closed(Halvings(n, room), room)
         /\ n <= room => Halvings(n, room) = {n}
         /\ n > room => Halvings(n, room) = {n} \cup Halvings(n \div 2, room)
<1>0. \A m \in Nat : m \div 2 \in Nat OBVIOUS
<1>1. n \in Halvings(n, room) BY DEF Halvings
<1>2. Closed(Halvings(n, room), room) BY <1>0 DEF Halvings, Closed
<1>3. ASSUME n <= room PROVE Halvings(n, room) = {n}
  <2>1. {n} \in SUBSET Nat /\ Closed({n}, room) BY <1>3 DEF Closed
  <2>2. \A m \in Halvings(n, room) : m \in {n} BY <2>1 DEF Halvings
  <2> QED BY <1>1, <2>2
<1>4. ASSUME n > room PROVE Halvings(n, room) = {n} \cup Halvings(n \div 2, room)
  <2> DEFINE half == n \div 2
  <2>1. half \in Nat BY <1>0
  <2> HIDE DEF half
  <2>2. half \in Halvings(n, room) BY <1>1, <1>2, <1>4 DEF Closed, half
  <2>3. ASSUME NEW m \in Halvings(half, room) PROVE m \in Halvings(n, room)
    <3>1. Halvings(n, room) \in SUBSET Nat BY DEF Halvings
    <3> QED BY <1>2, <2>2, <2>3, <3>1 DEF Halvings
  <2>4. ASSUME NEW m \in Halvings(n, room), m # n PROVE m \in Halvings(half, room)
    <3> SUFFICES ASSUME NEW C \in SUBSET Nat, half \in C, Closed(C, room) PROVE m \in C
      BY <2>4 DEF Halvings
    <3>1. C \cup {n} \in SUBSET Nat /\ Closed(C \cup {n}, room) BY DEF Closed, half
    <3>2. m \in C \cup {n} BY <2>4, <3>1 DEF Halvings
    <3> QED BY <2>4, <3>2
  <2> QED BY <1>1, <2>3, <2>4 DEF half
<1> QED BY <1>1, <1>2, <1>3, <1>4

\* fit_catalog comes to an end, and with no more entries than there are.
LEMMA FitIsWithin ==
  ASSUME NEW n \in Nat, NEW room \in Nat,
         NEW fit, fit = CHOOSE f : f = [k \in Nat |-> IF k <= room THEN k ELSE f[k \div 2]]
  PROVE  fit[n] \in 0..n
<1> DEFINE least == [k \in Nat |-> Min(Halvings(k, room))]
<1>1. ASSUME NEW k \in Nat
      PROVE  /\ k <= room => least[k] = k
             /\ k > room => least[k] = least[k \div 2]
  <2>1. \A j \in Nat : Halvings(j, room) \in SUBSET Nat /\ Halvings(j, room) # {}
    BY HalvingsAre DEF Halvings
  <2>2. \A j \in Nat : /\ Min(Halvings(j, room)) \in Halvings(j, room)
                       /\ \A i \in Halvings(j, room) : Min(Halvings(j, room)) <= i
    BY <2>1, LeastNatural
  <2>3. ASSUME k <= room PROVE least[k] = k
    <3>1. Halvings(k, room) = {k} BY <2>3, HalvingsAre
    <3>2. Min(Halvings(k, room)) \in {k} BY <2>2, <3>1
    <3> QED BY <3>2
  <2>4. ASSUME k > room PROVE least[k] = least[k \div 2]
    <3> DEFINE half == k \div 2
               a == Min(Halvings(k, room))
               b == Min(Halvings(half, room))
    <3>1. half \in Nat /\ half < k BY <2>4
    <3>2. Halvings(k, room) = {k} \cup Halvings(half, room) BY <2>4, HalvingsAre
    <3> HIDE DEF half
    <3>3. /\ a \in Halvings(k, room) /\ \A i \in Halvings(k, room) : a <= i
          /\ b \in Halvings(half, room) /\ \A i \in Halvings(half, room) : b <= i
          /\ a \in Nat /\ b \in Nat
      BY <2>1, <2>2, <3>1
    <3>4. half \in Halvings(half, room) BY <3>1, HalvingsAre
    <3> HIDE DEF a, b
    <3>5. b <= half /\ a <= b BY <3>2, <3>3, <3>4
    <3>6. a # k BY <3>1, <3>3, <3>5
    <3>7. b <= a BY <3>2, <3>3, <3>6
    <3>8. a = b BY <3>3, <3>5, <3>7
    <3> QED BY <3>1, <3>8 DEF a, b, half
  <2> QED BY <2>3, <2>4
<1>2. least = [k \in Nat |-> IF k <= room THEN k ELSE least[k \div 2]]
  <2> HIDE DEF least
  <2>1. \A k \in Nat : least[k] = IF k <= room THEN k ELSE least[k \div 2] BY <1>1
  <2>2. least = [k \in Nat |-> least[k]] BY DEF least
  <2> QED BY <2>1, <2>2
<1> HIDE DEF least
<1>3. fit = [k \in Nat |-> IF k <= room THEN k ELSE fit[k \div 2]] BY <1>2
<1>5. ASSUME NEW k \in Nat PROVE fit[k] = IF k <= room THEN k ELSE fit[k \div 2]
  <2> DEFINE g == [j \in Nat |-> IF j <= room THEN j ELSE fit[j \div 2]]
  <2>1. g[k] = IF k <= room THEN k ELSE fit[k \div 2] OBVIOUS
  <2> HIDE DEF g
  <2>2. fit = g BY <1>3 DEF g
  <2> QED BY <2>1, <2>2
<1> DEFINE S == {k \in Nat : fit[k] \notin 0..k}
<1>4. ASSUME S # {} PROVE FALSE
  <2> DEFINE m == Min(S)
  <2>1. S \in SUBSET Nat OBVIOUS
  <2>2. m \in S /\ \A k \in S : m <= k BY <1>4, <2>1, LeastNatural
  <2> HIDE DEF m
  <2>3. m \in Nat /\ fit[m] \notin 0..m BY <2>2
  <2>4. m > room /\ fit[m] = fit[m \div 2]
    <3>1. fit[m] = IF m <= room THEN m ELSE fit[m \div 2] BY <1>5, <2>3
    <3>2. ~ (m <= room) BY <2>3, <3>1
    <3> QED BY <2>3, <3>1, <3>2
  <2>5. m \div 2 \in Nat /\ m \div 2 < m BY <2>3, <2>4
  <2>6. fit[m \div 2] \in 0..(m \div 2) BY <2>2, <2>5
  <2> QED BY <2>3, <2>4, <2>5, <2>6
<1> QED BY <1>4

\* What is published is in the catalog, however little room there is.
LEMMA FitCatalogOffers ==
  ASSUME NEW S, NEW entries \in Seq(S), NEW room \in Nat
  PROVE  ToSet(FitCatalog(entries, room)) \subseteq ToSet(entries)
<1> DEFINE fit[n \in Nat] == IF n <= room THEN n ELSE fit[n \div 2]
           last == fit[Len(entries)]
<1>0. Len(entries) \in Nat OBVIOUS
<1>1. last \in 0..Len(entries)
  <2>1. fit = CHOOSE f : f = [k \in Nat |-> IF k <= room THEN k ELSE f[k \div 2]] OBVIOUS
  <2> HIDE DEF fit
  <2> QED BY <1>0, <2>1, FitIsWithin
<1>2. FitCatalog(entries, room) = SubSeq(entries, 1, last) BY DEF FitCatalog
<1> HIDE DEF last
<1>3. SubSeq(entries, 1, last) = [i \in 1..last |-> entries[i]] BY <1>1
<1>4. \A i \in 1..last : i \in 1..Len(entries) BY <1>1
<1>5. DOMAIN entries = 1..Len(entries) OBVIOUS
<1> DEFINE kept == FitCatalog(entries, room)
<1>6. kept = [i \in 1..last |-> entries[i]] BY <1>2, <1>3
<1> HIDE DEF kept
<1>7. DOMAIN kept = 1..last /\ \A i \in 1..last : kept[i] = entries[i] BY <1>6
<1>8. ToSet(kept) \subseteq ToSet(entries) BY <1>4, <1>5, <1>7 DEF ToSet
<1> QED BY <1>8 DEF kept
-----------------------------------------------------------------------------
(* Identifiers.                                                               *)

\* A list with one more element, and a slug under its kind.
Plus(s, w) == Append(s, w)
Under(kind, slug) == <<kind>> \o slug

LEMMA Added ==
  ASSUME NEW s, IsSeq(s), NEW w
  PROVE  /\ IsSeq(Plus(s, w)) /\ Len(Plus(s, w)) = Len(s) + 1 /\ Plus(s, w)[Len(s) + 1] = w
         /\ \A k \in 1..Len(s) : Plus(s, w)[k] = s[k]
<1> DEFINE V == {s[k] : k \in 1..Len(s)} \cup {w}
           t == Plus(s, w)
<1>1. s \in [1..Len(s) -> V] /\ w \in V BY DEF IsSeq
<1> HIDE DEF V
<1>2. s \in Seq(V) BY <1>1 DEF IsSeq
<1>3. /\ t \in Seq(V) /\ Len(t) = Len(s) + 1 /\ t[Len(s) + 1] = w
      /\ \A k \in 1..Len(s) : t[k] = s[k]
  BY <1>1, <1>2 DEF Plus
<1>4. \A q \in Seq(V) : IsSeq(q) BY DEF IsSeq
<1> QED BY <1>3, <1>4

LEMMA AddedApart ==
  ASSUME NEW s, IsSeq(s), NEW v, NEW w, Plus(s, v) = Plus(s, w)
  PROVE  v = w
BY Added

LEMMA UnderApart ==
  ASSUME NEW s, NEW t, IsSeq(s), IsSeq(t), NEW j, NEW k, Under(j, s) = Under(k, t)
  PROVE  s = t
<1>0. \A x : IsSeq(<<x>>) /\ Len(<<x>>) = 1 BY DEF IsSeq
<1>1. ASSUME NEW q, IsSeq(q), NEW x
      PROVE  Len(Under(x, q)) = Len(q) + 1 /\ \A i \in 1..Len(q) : Under(x, q)[i + 1] = q[i]
  <2>1. Len(q) \in Nat BY <1>1 DEF IsSeq
  <2>2. /\ Len(<<x>> \o q) = 1 + Len(q)
        /\ \A i \in 1..1 + Len(q) : i > 1 => (<<x>> \o q)[i] = q[i - 1]
    BY <1>0, <1>1, Joined
  <2>3. \A i \in 1..Len(q) : (<<x>> \o q)[i + 1] = q[i]
    <3> SUFFICES ASSUME NEW i \in 1..Len(q) PROVE (<<x>> \o q)[i + 1] = q[i] OBVIOUS
    <3>1. i + 1 \in 1..1 + Len(q) /\ i + 1 > 1 /\ (i + 1) - 1 = i BY <2>1
    <3> QED BY <2>2, <3>1
  <2> QED BY <2>1, <2>2, <2>3 DEF Under
<1>2. Len(s) + 1 = Len(t) + 1 BY <1>1
<1>3. Len(s) = Len(t) /\ Len(s) \in Nat
  <2>1. Len(s) \in Nat /\ Len(t) \in Nat BY DEF IsSeq
  <2> QED BY <1>2, <2>1
<1>4. \A i \in 1..Len(s) : s[i] = t[i] BY <1>1, <1>3
<1> QED BY <1>3, <1>4 DEF IsSeq

\* The numbers from 2 on do not run out: a slug gets an identifier that is free.
LEMMA FreeIdentifier ==
  ASSUME NEW used, IsFiniteSet(used), NEW slug, IsSeq(slug),
         NEW n \in Nat, Cardinality(used) + 2 <= n,
         \A i, j \in 1..n : ToString(i) = ToString(j) => i = j
  PROVE  UniqueId(used, slug) \notin used /\ IsSeq(UniqueId(used, slug))
<1> DEFINE c == Cardinality(used)
           numbers == 2..c + 2
           free == {i \in numbers : Plus(slug, ToString(i)) \notin used}
           id == UniqueId(used, slug)
<1>0. c \in Nat BY FS_CardinalityType
<1>1. id = IF slug \notin used THEN slug ELSE Plus(slug, ToString(Min(free)))
  BY DEF UniqueId, Plus
<1> HIDE DEF c, id
<1>2. free # {}
  <2> SUFFICES ASSUME \A i \in numbers : Plus(slug, ToString(i)) \in used PROVE FALSE
    OBVIOUS
  <2> DEFINE f == [i \in numbers |-> Plus(slug, ToString(i))]
  <2>1. \A i, j \in numbers : f[i] = f[j] => i = j
    <3> SUFFICES ASSUME NEW i \in numbers, NEW j \in numbers, f[i] = f[j] PROVE i = j
      OBVIOUS
    <3>1. ToString(i) = ToString(j) BY AddedApart
    <3>2. i \in 1..n /\ j \in 1..n BY <1>0 DEF c
    <3> QED BY <3>1, <3>2
  <2>2. f \in [numbers -> used] OBVIOUS
  <2> HIDE DEF f, numbers
  <2>3. f \in Injection(numbers, used) BY <2>1, <2>2 DEF Injection, IsInjective
  <2>4. Cardinality(numbers) <= c BY <2>3, FS_Injection DEF c
  <2>5. Cardinality(numbers) = c + 1
    <3>1. 2 \in Int /\ c + 2 \in Int /\ ~ (2 > c + 2) /\ (c + 2) - 2 + 1 = c + 1 BY <1>0
    <3> HIDE DEF c
    <3>2. Cardinality(2..c + 2) = IF 2 > c + 2 THEN 0 ELSE (c + 2) - 2 + 1 BY <3>1, FS_Interval
    <3> QED BY <3>1, <3>2 DEF numbers
  <2> QED BY <1>0, <2>4, <2>5
<1>3. Min(free) \in free
  <2>1. free \in SUBSET Nat BY <1>0
  <2> HIDE DEF free
  <2> QED BY <1>2, <2>1, LeastNatural
<1>4. Plus(slug, ToString(Min(free))) \notin used BY <1>3
<1>5. IsSeq(Plus(slug, ToString(Min(free)))) BY Added
<1>6. id \notin used /\ IsSeq(id) BY <1>1, <1>4, <1>5
<1> QED BY <1>6 DEF id

\* The identifiers given up to map i, after those given before it.
Given(maps, i, ids) == Plus(ids, UniqueId(ToSet(ids), maps[i].slug))
Runs(ids, maps, n) ==
  ids = [i \in 0..n |-> IF i = 0 THEN <<>> ELSE Given(maps, i, ids[i - 1])]

LEMMA IdsRun ==
  ASSUME NEW maps, NEW n \in Nat
  PROVE  \E ids : Runs(ids, maps, n)
<1> DEFINE S == {k \in Nat : ~ \E ids : Runs(ids, maps, k)}
           m == Min(S)
<1> SUFFICES ASSUME S # {} PROVE FALSE OBVIOUS
<1>1. m \in S /\ \A k \in S : m <= k
  <2>1. S \in SUBSET Nat OBVIOUS
  <2> QED BY <2>1, LeastNatural
<1> HIDE DEF m
<1>2. m \in Nat /\ ~ \E ids : Runs(ids, maps, m) BY <1>1
<1>3. m # 0
  <2> DEFINE none == [i \in 0..0 |-> <<>>]
  <2>1. none = [i \in 0..0 |-> IF i = 0 THEN <<>> ELSE Given(maps, i, none[i - 1])]
    OBVIOUS
  <2>2. Runs(none, maps, 0) BY <2>1 DEF Runs
  <2> QED BY <1>2, <2>2
<1>4. m - 1 \in Nat /\ ~ (m <= m - 1) BY <1>2, <1>3
<1>5. PICK ids : Runs(ids, maps, m - 1) BY <1>1, <1>4
<1> DEFINE more == [i \in 0..m |-> IF i = m THEN Given(maps, m, ids[m - 1]) ELSE ids[i]]
<1>6. ASSUME NEW i \in 0..m
      PROVE  more[i] = IF i = 0 THEN <<>> ELSE Given(maps, i, more[i - 1])
  <2>1. CASE i = m
    <3>1. m - 1 \in 0..m /\ m - 1 # m BY <1>2, <1>4
    <3> QED BY <1>3, <2>1, <3>1
  <2>2. CASE i # m
    <3>1. i \in 0..m - 1 BY <1>2, <2>2
    <3>2. ids[i] = IF i = 0 THEN <<>> ELSE Given(maps, i, ids[i - 1])
      <4> DEFINE g == [j \in 0..m - 1 |-> IF j = 0 THEN <<>> ELSE Given(maps, j, ids[j - 1])]
      <4>1. g[i] = IF i = 0 THEN <<>> ELSE Given(maps, i, ids[i - 1]) BY <3>1
      <4>2. ids = g BY <1>5 DEF Runs
      <4> HIDE DEF g
      <4> QED BY <4>1, <4>2
    <3>3. i # 0 => i - 1 \in 0..m /\ i - 1 # m BY <1>2
    <3> QED BY <2>2, <3>2, <3>3
  <2> QED BY <2>1, <2>2
<1>7. more = [i \in 0..m |-> more[i]] OBVIOUS
<1> HIDE DEF more
<1>8. more = [i \in 0..m |-> IF i = 0 THEN <<>> ELSE Given(maps, i, more[i - 1])]
  BY <1>6, <1>7
<1>9. Runs(more, maps, m) BY <1>8 DEF Runs
<1> QED BY <1>2, <1>9

\* As many identifiers as maps so far, no two of them alike.
Distinct(ids, n) ==
  /\ IsSeq(ids) /\ Len(ids) = n /\ \A i \in 1..n : IsSeq(ids[i])
  /\ \A i, j \in 1..n : ids[i] = ids[j] => i = j

LEMMA GivenApart ==
  ASSUME NEW maps, NEW n \in Nat \ {0}, NEW i \in 1..n, IsSeq(maps[i].slug),
         \A j, k \in 1..n + 1 : ToString(j) = ToString(k) => j = k,
         NEW ids, Distinct(ids, i - 1)
  PROVE  Distinct(Given(maps, i, ids), i)
<1> DEFINE used == ToSet(ids)
           id == UniqueId(used, maps[i].slug)
           next == Given(maps, i, ids)
<1>1. i - 1 \in Nat /\ (i - 1) + 1 = i OBVIOUS
<1>2. DOMAIN ids = 1..i - 1 BY DEF Distinct, IsSeq
<1>3. used = {ids[k] : k \in 1..i - 1} BY <1>2 DEF ToSet
<1>4. IsFiniteSet(used) /\ Cardinality(used) <= i - 1
  <2>1. ids \in [1..i - 1 -> used] BY <1>3 DEF Distinct, IsSeq
  <2>2. \A x \in used : \E k \in 1..i - 1 : ids[k] = x BY <1>3
  <2> HIDE DEF used
  <2>3. ids \in Surjection(1..i - 1, used) BY <2>1, <2>2 DEF Surjection
  <2>4. IsFiniteSet(1..i - 1) /\ Cardinality(1..i - 1) = i - 1 BY <1>1, Interval
  <2> QED BY <2>3, <2>4, FS_Surjection
<1> HIDE DEF used
<1>5. id \notin used /\ IsSeq(id)
  <2>1. Cardinality(used) \in Nat BY <1>4, FS_CardinalityType
  <2>2. n + 1 \in Nat /\ Cardinality(used) + 2 <= n + 1 BY <1>4, <2>1
  <2> QED BY <1>4, <2>2, FreeIdentifier
<1>6. next = Plus(ids, id) BY DEF Given, used
<1> HIDE DEF id, next
<1>7. IsSeq(ids) /\ Len(ids) = i - 1 BY DEF Distinct
<1>8. /\ IsSeq(next) /\ Len(next) = i /\ next[i] = id
      /\ \A k \in 1..i - 1 : next[k] = ids[k]
  BY <1>1, <1>6, <1>7, Added
<1>9. \A k \in 1..i : k # i => k \in 1..i - 1 OBVIOUS
<1>10. \A k \in 1..i : IsSeq(next[k]) BY <1>5, <1>8, <1>9 DEF Distinct
<1>11. \A k \in 1..i - 1 : next[k] # id BY <1>3, <1>5, <1>8
<1>12. ASSUME NEW j \in 1..i, NEW k \in 1..i, next[j] = next[k] PROVE j = k
  <2>1. CASE j = i /\ k = i BY <2>1
  <2>2. CASE j = i /\ k # i BY <1>8, <1>9, <1>11, <1>12, <2>2
  <2>3. CASE j # i /\ k = i BY <1>8, <1>9, <1>11, <1>12, <2>3
  <2>4. CASE j # i /\ k # i BY <1>8, <1>9, <1>12, <2>4 DEF Distinct
  <2> QED BY <2>1, <2>2, <2>3, <2>4
<1>13. Distinct(next, i) BY <1>8, <1>10, <1>12 DEF Distinct
<1> QED BY <1>13 DEF next

LEMMA IdsAreDistinct ==
  ASSUME NEW maps, NEW n \in Nat, Len(maps) = n,
         \A i \in 1..n : IsSeq(maps[i].slug),
         \A j, k \in 1..n + 1 : ToString(j) = ToString(k) => j = k
  PROVE  Distinct(UniqueIds(maps), n)
<1>1. PICK ids : /\ UniqueIds(maps) = ids[n]
                 /\ ids = CHOOSE f : f = [i \in 0..n |-> IF i = 0 THEN <<>>
                                                       ELSE Given(maps, i, f[i - 1])]
  BY DEF UniqueIds, Given, Plus
<1>2. Runs(ids, maps, n)
  <2>1. \E f : f = [i \in 0..n |-> IF i = 0 THEN <<>> ELSE Given(maps, i, f[i - 1])]
    <3>1. PICK f : Runs(f, maps, n) BY IdsRun
    <3>2. f = [i \in 0..n |-> IF i = 0 THEN <<>> ELSE Given(maps, i, f[i - 1])]
      BY <3>1 DEF Runs
    <3> QED BY <3>2
  <2>2. ids = [i \in 0..n |-> IF i = 0 THEN <<>> ELSE Given(maps, i, ids[i - 1])]
    BY <1>1, <2>1
  <2> QED BY <2>2 DEF Runs
<1>3. ASSUME NEW i \in 0..n PROVE ids[i] = IF i = 0 THEN <<>> ELSE Given(maps, i, ids[i - 1])
  <2> DEFINE g == [j \in 0..n |-> IF j = 0 THEN <<>> ELSE Given(maps, j, ids[j - 1])]
  <2>1. g[i] = IF i = 0 THEN <<>> ELSE Given(maps, i, ids[i - 1]) OBVIOUS
  <2> HIDE DEF g
  <2>2. ids = g BY <1>2 DEF Runs, g
  <2> QED BY <2>1, <2>2
<1> DEFINE S == {i \in 0..n : ~ Distinct(ids[i], i)}
           m == Min(S)
<1>4. ASSUME S # {} PROVE FALSE
  <2>1. m \in S /\ \A k \in S : m <= k
    <3>1. S \in SUBSET Nat OBVIOUS
    <3> HIDE DEF S
    <3> QED BY <1>4, <3>1, LeastNatural
  <2> HIDE DEF m
  <2>2. m \in 0..n /\ ~ Distinct(ids[m], m) BY <2>1
  <2>3. CASE m = 0
    <3>1. ids[m] = <<>> BY <1>3, <2>2, <2>3
    <3>2. IsSeq(<<>>) /\ Len(<<>>) = 0 BY DEF IsSeq
    <3> QED BY <2>2, <2>3, <3>1, <3>2 DEF Distinct
  <2>4. CASE m # 0
    <3>1. m - 1 \in 0..n /\ ~ (m <= m - 1) /\ m \in 1..n BY <2>2, <2>4
    <3>2. Distinct(ids[m - 1], m - 1) BY <2>1, <3>1
    <3>3. n \in Nat \ {0} BY <3>1
    <3>4. Distinct(Given(maps, m, ids[m - 1]), m) BY <3>1, <3>2, <3>3, GivenApart
    <3> QED BY <1>3, <2>2, <2>4, <3>4
  <2> QED BY <2>3, <2>4
<1> HIDE DEF S
<1>5. n \in 0..n /\ S = {} BY <1>4
<1>6. Distinct(ids[n], n) BY <1>5 DEF S
<1> QED BY <1>1, <1>6
-----------------------------------------------------------------------------
(* Libraries.                                                                 *)

LEMMA LibraryIs ==
  ASSUME NEW f \in Banks, NEW library, library = Parse(Files[f]), library # <<>>
  PROVE  /\ \A i, j \in DOMAIN library : library[i].id = library[j].id => i = j
         /\ \A i \in DOMAIN library : /\ library[i].map \in MapEntries(Files[f])
                                     /\ Readable(Files[f], library[i].map)
<1> DEFINE all == MapEntries(Files[f])
           maps == InOrder(all)
           ids == UniqueIds(maps)
           n == Len(maps)
<1>1. /\ library = [i \in DOMAIN maps |-> [id |-> Under(maps[i].kind, ids[i]), map |-> maps[i]]]
      /\ \A e \in all : Readable(Files[f], e)
  BY DEF Parse, Failed, Under
<1>2. /\ maps \in Seq(all) /\ \A e \in all : e.slug \in Seq(ToSet(e.slug))
      /\ \A j, k \in 1..n + 1 : ToString(j) = ToString(k) => j = k
  BY MapsAssumption DEF MapsAssumption
<1> HIDE DEF all, maps
<1>3. n \in Nat /\ DOMAIN maps = 1..n /\ \A i \in 1..n : maps[i] \in all BY <1>2
<1>4. \A i \in 1..n : IsSeq(maps[i].slug)
  <2>1. \A V : \A s \in Seq(V) : IsSeq(s) BY DEF IsSeq
  <2> QED BY <1>2, <1>3, <2>1
<1> HIDE DEF ids, n
<1>5. Distinct(ids, n) BY <1>2, <1>3, <1>4, IdsAreDistinct DEF ids, n
<1>6. \A i \in 1..n : library[i].id = Under(maps[i].kind, ids[i]) /\ library[i].map = maps[i]
  BY <1>1, <1>3
<1>7. DOMAIN library = 1..n BY <1>1, <1>3
<1>8. ASSUME NEW i \in 1..n, NEW j \in 1..n, library[i].id = library[j].id PROVE i = j
  <2>1. Under(maps[i].kind, ids[i]) = Under(maps[j].kind, ids[j]) BY <1>6, <1>8
  <2>2. IsSeq(ids[i]) /\ IsSeq(ids[j]) BY <1>5 DEF Distinct
  <2>3. ids[i] = ids[j] BY <2>1, <2>2, UnderApart
  <2> QED BY <1>5, <2>3 DEF Distinct
<1> QED BY <1>1, <1>3, <1>6, <1>7, <1>8 DEF all

\* Where nothing is left out everything stays in its place.
LEMMA WithoutNone ==
  ASSUME NEW s, IsSeq(s)
  PROVE  Without(s, {}) = s
<1> DEFINE n == Len(s)
           S == 1..n
<1>1. n \in Nat /\ DOMAIN s = S /\ s = [k \in S |-> s[k]] BY DEF IsSeq
<1> HIDE DEF n
<1>2. IsFiniteSet(S) /\ Cardinality(S) = n /\ S \in SUBSET Nat BY <1>1, Interval
<1>3. ASSUME NEW m \in S PROVE Rank(S, m) = m
  <2>1. {j \in S : j <= m} = 1..m BY <1>1
  <2>2. m \in Nat OBVIOUS
  <2> QED BY <2>1, <2>2, Interval DEF Rank
<1>4. ASSUME NEW k \in S PROVE Nth(S, k) = k
  <2>1. k \in 1..Cardinality(S) BY <1>2
  <2>2. Nth(S, k) \in S /\ Rank(S, Nth(S, k)) = k BY <1>2, <2>1, NthHasRank
  <2> QED BY <1>3, <2>2
<1>5. DOMAIN s \ {} = S BY <1>1
<1>6. Without(s, {}) = [k \in 1..n |-> s[Nth(S, k)]] BY <1>2, <1>5 DEF Without
<1> QED BY <1>1, <1>4, <1>6

\* An instrument that is loaded has all the regions of its map.
LEMMA WholeRegions ==
  ASSUME NEW p, NEW speed, Fits(p, speed)
  PROVE  /\ \A i, j \in DOMAIN p.library : p.library[i].id = p.library[j].id => i = j
         /\ p.loaded => RegionsOf(p) = Entry(p.library, p.selected).map.regions
<1> DEFINE map == Entry(p.library, p.selected).map
           S == {i \in DOMAIN map.regions : ~HasSample(Files[p.file], map, map.regions[i].sample)}
<1>1. p.file \in Banks /\ p.library = Parse(Files[p.file]) /\ p.selected \in Ids(p.library)
  BY DEF Fits, Players
<1>2. p.library # <<>> BY <1>1 DEF Ids
<1>3. /\ \A i, j \in DOMAIN p.library : p.library[i].id = p.library[j].id => i = j
      /\ \A i \in DOMAIN p.library : /\ p.library[i].map \in MapEntries(Files[p.file])
                                    /\ Readable(Files[p.file], p.library[i].map)
  BY <1>1, <1>2, LibraryIs
<1>4. \E i \in DOMAIN p.library : map = p.library[i].map BY <1>1 DEF Entry, Ids
<1>5. map \in MapEntries(Files[p.file]) /\ Readable(Files[p.file], map) BY <1>3, <1>4
<1>6. S = {} BY <1>5 DEF Readable
<1>7. IsSeq(map.regions)
  <2>1. map.regions \in Seq(ToSet(map.regions)) BY <1>1, <1>5, MapsAssumption DEF MapsAssumption
  <2>2. \A V : \A s \in Seq(V) : IsSeq(s) BY DEF IsSeq
  <2> QED BY <2>1, <2>2
<1>8. p # None BY FittingPlayers
<1>9. p.loaded => RegionsOf(p) = Without(map.regions, S)
  BY <1>8 DEF RegionsOf, LoadedRegions
<1> HIDE DEF map, S
<1>10. p.loaded => RegionsOf(p) = map.regions BY <1>6, <1>7, <1>9, WithoutNone
<1> QED BY <1>3, <1>10 DEF map
-----------------------------------------------------------------------------
(* What is selected, and what sounds of it.                                   *)

\* The selection is of the SoundFont installed last; what sounds is what is loaded.
OffersInv ==
  /\ selected # None => soundFont # None /\ selected \in ToSet(CatalogEntries(soundFont.file))
  /\ regions = RegionsOf(player)

LEMMA OffersStep ==
  TransferInv /\ HeardInv /\ PlayerInv /\ PlayerInv' /\ OffersInv /\ [Next]_vars => OffersInv'
<1> SUFFICES ASSUME TransferInv, HeardInv, PlayerInv, PlayerInv', OffersInv, [Next]_vars
             PROVE  OffersInv'
  OBVIOUS
<1>1. UNCHANGED <<selected, soundFont>> /\ regions' = RegionsOf(player') => OffersInv'
  BY DEF OffersInv
<1>2. UNCHANGED <<regions, player>> => regions' = RegionsOf(player') BY DEF OffersInv
<1>3. ASSUME player # None, UNCHANGED <<regions, format>>, NEW level,
             player' = [player EXCEPT !.control = level]
      PROVE  regions' = RegionsOf(player')
  <2>1. player \in Players /\ player' # None BY <1>3 DEF PlayerInv, Fits
  <2>2. /\ player'.loaded = player.loaded /\ player'.file = player.file
        /\ player'.library = player.library /\ player'.selected = player.selected
    BY <1>3, <2>1 DEF Players
  <2> QED BY <1>3, <2>1, <2>2 DEF OffersInv, RegionsOf
<1>4. ASSUME NEW value, ApplyControl(value) \/ ApplyVolume(value), UNCHANGED <<regions, format>>
      PROVE  regions' = RegionsOf(player')
  BY <1>2, <1>3, <1>4 DEF ApplyControl, ApplyVolume
<1>5. ASSUME Prepare PROVE OffersInv'
  <2>1. UNCHANGED <<selected, soundFont, format>> BY <1>5 DEF Prepare
  <2>2. CASE player = None
    <3>1. UNCHANGED <<regions, player>> BY <1>5, <2>2 DEF Prepare
    <3> QED BY <1>1, <1>2, <2>1, <3>1
  <2>3. CASE player # None /\ player.rate = rate'
    <3>1. regions' = regions /\
          player' = [player EXCEPT !.control = IF player.loaded THEN control ELSE @]
      BY <1>5, <2>3 DEF Prepare
    <3>2. \E level : player' = [player EXCEPT !.control = level] BY <3>1
    <3> QED BY <1>1, <1>3, <2>1, <2>3, <3>1, <3>2
  <2>4. CASE player # None /\ player.rate # rate'
    <3>1. regions' = RegionsOf(player') BY <1>5, <2>4 DEF Prepare
    <3> QED BY <1>1, <2>1, <3>1
  <2> QED BY <2>2, <2>3, <2>4
<1>6. ASSUME EndResource PROVE OffersInv'
  <2>1. CASE UNCHANGED <<regions, soundFont, player, selected>> BY <1>1, <1>2, <2>1
  <2>2. CASE \E file, pieces : InstallBank(file, pieces) BY <1>1, <2>2 DEF InstallBank
  <2>3. CASE InstallSoundFont(pending.file, pending.pieces)
    <3> DEFINE file == pending.file
               pieces == pending.pieces
    <3>1. file \in DOMAIN Files /\ pieces \in Seq(Nat)
      BY <1>6 DEF EndResource, TransferInv
    <3> HIDE DEF file, pieces
    <3>2. /\ soundFont' = [file |-> file, pieces |-> pieces] /\ player' = None /\ regions' = <<>>
          /\ selected' = IF selected \in ToSet(CatalogEntries(file)) THEN selected ELSE None
      BY <2>3 DEF InstallSoundFont, file, pieces
    <3>3. soundFont' \in [file : DOMAIN Files, pieces : Seq(Nat)] BY <3>1, <3>2
    <3>4. soundFont' # None BY <3>3, PortableAssumption DEF PortableAssumption
    <3>5. soundFont'.file = file BY <3>2
    <3>6. selected' # None => selected' \in ToSet(CatalogEntries(soundFont'.file)) BY <3>2, <3>5
    <3>7. regions' = RegionsOf(player') BY <3>2 DEF RegionsOf
    <3> QED BY <3>4, <3>6, <3>7 DEF OffersInv
  <2> QED BY <1>6, <2>1, <2>2, <2>3 DEF EndResource
<1>7. ASSUME LoadPreset PROVE OffersInv'
  <2>1. soundFont' = soundFont BY <1>7 DEF LoadPreset
  <2>2. ASSUME NEW id, LoadBankPreset(id) PROVE OffersInv'
    BY <1>1, <2>1, <2>2 DEF LoadBankPreset
  <2>3. ASSUME NEW choice, LoadSoundFontPreset(choice) PROVE OffersInv'
    <3>1. /\ selected' = choice /\ choice \in ToSet(CatalogEntries(soundFont.file))
          /\ format = "soundfont" /\ UNCHANGED <<player, regions>>
      BY <2>3 DEF LoadSoundFontPreset
    <3>2. soundFont # None BY <3>1 DEF HeardInv
    <3> QED BY <1>2, <2>1, <3>1, <3>2 DEF OffersInv
  <2>4. CASE LoadLegacyPreset BY <2>3, <2>4 DEF LoadLegacyPreset
  <2> QED BY <1>7, <2>2, <2>3, <2>4 DEF LoadPreset
<1>8. ASSUME SetParameter \/ Parameter \/ ParametersOnly PROVE OffersInv'
  <2>1. UNCHANGED <<regions, format, selected, soundFont>>
    BY <1>8 DEF SetParameter, Parameter, ParametersOnly
  <2>2. \/ \E value \in Volumes : ApplyVolume(value)
        \/ \E value \in Controls : ApplyControl(value)
        \/ player' = player
    BY <1>8 DEF SetParameter, Parameter, ParametersOnly
  <2> QED BY <1>1, <1>2, <1>4, <2>1, <2>2
<1>9. ASSUME Next PROVE \/ Prepare \/ EndResource \/ LoadPreset
                        \/ SetParameter \/ Parameter \/ ParametersOnly
                        \/ UNCHANGED <<selected, soundFont, regions, player>>
  BY <1>9 DEF Next, Reset, BeginResource, WriteResource, BeginBlock, Render, Midi, Return
<1>10. CASE UNCHANGED vars BY <1>1, <1>2, <1>10 DEF vars
<1> QED BY <1>1, <1>2, <1>5, <1>6, <1>7, <1>8, <1>9, <1>10

\* Every preset offered or selected exists (OfferedPresetsExist): write_preset_catalog
\* halves its list and adds nothing to it, end_resource drops a selection that the new
\* SoundFont does not have, Library::parse numbers a repeated identifier until it is free,
\* and refuses a map that misses a sample, so that none of its regions is left out.
THEOREM OffersAreKept == Spec => []OfferedPresetsExist
<1>1. Init => OffersInv
  BY PortableAssumption DEF PortableAssumption, Init, OffersInv, RegionsOf
<1>2. HeardInv /\ PlayerInv /\ OffersInv => OfferedPresetsExist
  <2> SUFFICES ASSUME HeardInv, PlayerInv, OffersInv PROVE OfferedPresetsExist OBVIOUS
  <2>1. ASSUME format = "soundfont", NEW room \in 0..MaxPresets
        PROVE  Catalog(room) \subseteq ToSet(CatalogEntries(soundFont.file))
    <3>1. soundFont # None /\ soundFont.file \in DOMAIN Files BY <2>1 DEF HeardInv
    <3>2. \E S : CatalogEntries(soundFont.file) \in Seq(S)
      BY <3>1, PresetsAssumption DEF PresetsAssumption
    <3>3. room \in Nat BY PortableAssumption DEF PortableAssumption
    <3>4. Catalog(room) = ToSet(FitCatalog(CatalogEntries(soundFont.file), room))
      BY <2>1, <3>1 DEF Catalog
    <3> QED BY <3>2, <3>3, <3>4, FitCatalogOffers
  <2>2. SelectionIsInTheBank BY <2>1 DEF SelectionIsInTheBank, OffersInv
  <2>3. BanksLoadWhole
    BY WholeRegions DEF BanksLoadWhole, PlayerInv, OffersInv
  <2> QED BY <2>2, <2>3 DEF OfferedPresetsExist
<1>3. PluginInv /\ OffersInv /\ [Next]_vars => PluginInv' /\ OffersInv'
  BY PluginStep, OffersStep DEF PluginInv
<1>4. PluginInv => HeardInv /\ PlayerInv BY DEF PluginInv
<1> QED BY <1>1, <1>2, <1>3, <1>4, PluginInit, PTL DEF Spec
=============================================================================
