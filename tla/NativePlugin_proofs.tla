------------------------ MODULE NativePlugin_proofs ------------------------
(***************************************************************************)
(* Proofs about NativePlugin, for every bank, library, pool, block and     *)
(* list of events.                                                         *)
(*                                                                         *)
(* event_slice compares neighbours only.  That no event is overtaken needs *)
(* the order of any two, which is Ordered: the least place at which it     *)
(* could fail would have a neighbour that fails.                           *)
(***************************************************************************)
EXTENDS NativePlugin, SequenceTheorems, FiniteSetTheorems, WellFoundedInduction, TLAPS

Sorted(events) == \A i, j \in DOMAIN events : i <= j => events[i] <= events[j]

LEMMA LeastNatural ==
  ASSUME NEW S \in SUBSET Nat, S # {}
  PROVE  \E m \in S : \A k \in S : m <= k
<1>1. PICK m \in S : \A k \in S : ~ (<<k, m>> \in OpToRel(<, Nat))
  BY NatLessThanWellFounded, WFMin, Zenon
<1>2. ASSUME NEW k \in S PROVE m <= k
  <2>1. ~ (<<k, m>> \in OpToRel(<, Nat)) BY <1>1
  <2>2. <<k, m>> \in Nat \X Nat BY <1>1
  <2>3. ~ (k < m) BY <2>1, <2>2 DEF OpToRel
  <2>4. k \in Nat /\ m \in Nat OBVIOUS
  <2> QED BY <2>3, <2>4, SMT
<1> QED BY <1>1, <1>2

\* event_slice: neighbours in order are all in order.
LEMMA Ordered ==
  ASSUME NEW events \in Seq(Nat), NEW frames \in Nat, ValidEvents(frames, events)
  PROVE  Sorted(events)
<1> SUFFICES ASSUME NEW i \in DOMAIN events, NEW j \in DOMAIN events, i <= j,
                    ~ (events[i] <= events[j])
             PROVE  FALSE
  BY DEF Sorted
<1> DEFINE Below == {k \in 1..Len(events) : i <= k /\ events[k] < events[i]}
<1>0. DOMAIN events = 1..Len(events) /\ Len(events) \in Nat
      /\ \A k \in 1..Len(events) : events[k] \in Nat
  OBVIOUS
<1>1. j \in Below BY <1>0
<1>2. PICK k \in Below : \A l \in Below : k <= l
  <2>1. Below \in SUBSET Nat BY <1>0
  <2> HIDE DEF Below
  <2> QED BY <2>1, <1>1, LeastNatural
<1>3. k # i /\ k \in 1..Len(events) /\ i <= k /\ events[k] < events[i] BY <1>0, <1>2
<1>4. k - 1 \in 1..Len(events) - 1 /\ i <= k - 1 /\ k - 1 \in 1..Len(events) BY <1>0, <1>3
<1>5. events[k - 1] <= events[k] BY <1>0, <1>3, <1>4 DEF ValidEvents
<1>6. k - 1 \in Below BY <1>0, <1>3, <1>4, <1>5
<1> QED BY <1>0, <1>2, <1>3, <1>6
-----------------------------------------------------------------------------
\* The events left of a block are in order and neither behind its frame nor beyond it.
OnTime(b, events) ==
  /\ events \in Seq(Nat)
  /\ Sorted(events)
  /\ \A i \in DOMAIN events : b.frame <= events[i] /\ events[i] < b.frames

BlockInv ==
  /\ block \in [open : BOOLEAN, frame : Nat, frames : Nat, midi : Seq(Nat),
                parameters : Seq(Nat)]
  /\ OnTime(block, block.midi) /\ OnTime(block, block.parameters)

LEMMA TailOnTime ==
  ASSUME NEW b, NEW c, b.frame \in Nat, b.frames \in Nat,
         c.frame = b.frame, c.frames = b.frames,
         NEW events, events # <<>>, OnTime(b, events)
  PROVE  OnTime(c, Tail(events))
<1>1. events \in Seq(Nat) /\ Sorted(events) BY DEF OnTime
<1>2. /\ Tail(events) \in Seq(Nat) /\ Len(Tail(events)) = Len(events) - 1
      /\ \A i \in 1..Len(events) - 1 : Tail(events)[i] = events[i + 1] /\ i + 1 \in 1..Len(events)
  BY <1>1
<1>3. DOMAIN Tail(events) = 1..Len(events) - 1 /\ DOMAIN events = 1..Len(events)
      /\ Len(events) \in Nat
  BY <1>1, <1>2
<1>4. Sorted(Tail(events))
  <2> SUFFICES ASSUME NEW i \in 1..Len(events) - 1, NEW j \in 1..Len(events) - 1, i <= j
               PROVE  Tail(events)[i] <= Tail(events)[j]
    BY <1>3 DEF Sorted
  <2>1. i + 1 \in DOMAIN events /\ j + 1 \in DOMAIN events /\ i + 1 <= j + 1 BY <1>3
  <2>2. events[i + 1] <= events[j + 1] BY <1>1, <2>1 DEF Sorted
  <2> QED BY <2>2, <1>2
<1>5. \A i \in DOMAIN Tail(events) : c.frame <= Tail(events)[i] /\ Tail(events)[i] < c.frames
  <2> TAKE i \in DOMAIN Tail(events)
  <2>1. i + 1 \in DOMAIN events /\ Tail(events)[i] = events[i + 1] BY <1>2, <1>3
  <2> QED BY <2>1 DEF OnTime
<1> QED BY <1>2, <1>4, <1>5 DEF OnTime

\* When the first event is not due, none is.
LEMMA FrameOnTime ==
  ASSUME NEW b, NEW c, b.frame \in Nat, b.frames \in Nat,
         c.frame = b.frame + 1, c.frames = b.frames,
         NEW events, OnTime(b, events), ~ (events # <<>> /\ Head(events) = b.frame)
  PROVE  OnTime(c, events)
<1>1. events \in Seq(Nat) /\ Sorted(events) /\ DOMAIN events = 1..Len(events)
      /\ Len(events) \in Nat
  BY DEF OnTime
<1>2. ASSUME NEW i \in DOMAIN events PROVE c.frame <= events[i] /\ events[i] < c.frames
  <2>1. events # <<>> /\ 1 \in DOMAIN events /\ 1 <= i /\ Head(events) = events[1] BY <1>1
  <2>2. events[1] <= events[i] BY <1>1, <2>1 DEF Sorted
  <2>3. events[1] # b.frame /\ b.frame <= events[1] BY <2>1 DEF OnTime
  <2>4. events[i] \in Nat /\ events[1] \in Nat /\ events[i] < b.frames
    BY <1>1, <2>1 DEF OnTime
  <2> QED BY <2>2, <2>3, <2>4
<1> QED BY <1>1, <1>2 DEF OnTime

LEMMA IdleOnTime ==
  /\ Idle \in [open : BOOLEAN, frame : Nat, frames : Nat, midi : Seq(Nat), parameters : Seq(Nat)]
  /\ OnTime(Idle, Idle.midi) /\ OnTime(Idle, Idle.parameters)
<1>1. <<>> \in Seq(Nat) /\ DOMAIN <<>> = {} OBVIOUS
<1> QED BY <1>1 DEF Idle, OnTime, Sorted

LEMMA BlockStep == BlockInv /\ [Next]_vars => BlockInv'
<1> SUFFICES ASSUME BlockInv, [Next]_vars PROVE BlockInv'
  OBVIOUS
<1> DEFINE Blocks == [open : BOOLEAN, frame : Nat, frames : Nat, midi : Seq(Nat),
                      parameters : Seq(Nat)]
<1>0. block' = block => BlockInv' BY DEF BlockInv, OnTime
<1>1. block' = Idle => BlockInv' BY IdleOnTime DEF BlockInv
<1>2. ASSUME BeginBlock PROVE BlockInv'
  <2>1. PICK frames \in 1..MaxFrames, midi \in FrameLists, parameters \in FrameLists :
          /\ ValidEvents(frames, midi) /\ ValidEvents(frames, parameters)
          /\ block' = [open |-> TRUE, frame |-> 0, frames |-> frames,
                       midi |-> midi, parameters |-> parameters]
    BY <1>2 DEF BeginBlock
  <2>2. frames \in Nat /\ midi \in Seq(Nat) /\ parameters \in Seq(Nat)
    BY NativeAssumption DEF NativeAssumption
  <2>3. Sorted(midi) /\ Sorted(parameters) BY <2>1, <2>2, Ordered
  <2>4. OnTime(block', midi) /\ OnTime(block', parameters)
    <3>1. \A i \in DOMAIN midi : midi[i] \in Nat BY <2>2
    <3>2. \A i \in DOMAIN parameters : parameters[i] \in Nat BY <2>2
    <3> QED BY <2>1, <2>2, <2>3, <3>1, <3>2 DEF OnTime, ValidEvents
  <2> QED BY <2>1, <2>2, <2>4 DEF BlockInv
<1>3. ASSUME BlockParameter PROVE BlockInv'
  <2>1. CASE block' = [block EXCEPT !.parameters = Tail(@)]
    <3>1. block.parameters # <<>> BY <1>3 DEF BlockParameter, Due
    <3>2. /\ block'.frame = block.frame /\ block'.frames = block.frames
          /\ block'.midi = block.midi /\ block'.parameters = Tail(block.parameters)
          /\ block'.open = block.open
      BY <2>1 DEF BlockInv
    <3>3. OnTime(block', block'.parameters) BY <3>1, <3>2, TailOnTime DEF BlockInv
    <3>4. OnTime(block', block'.midi) BY <3>2 DEF BlockInv, OnTime
    <3>5. block' \in Blocks BY <2>1, <3>2, <3>3 DEF BlockInv, OnTime
    <3> QED BY <3>3, <3>4, <3>5 DEF BlockInv
  <2> QED BY <2>1, <1>1, <1>3 DEF BlockParameter
<1>4. ASSUME BlockMidi PROVE BlockInv'
  <2>0. block' = [block EXCEPT !.midi = Tail(@)] BY <1>4 DEF BlockMidi
  <2>1. block.midi # <<>> BY <1>4 DEF BlockMidi, Due
  <2>2. /\ block'.frame = block.frame /\ block'.frames = block.frames
        /\ block'.parameters = block.parameters /\ block'.midi = Tail(block.midi)
        /\ block'.open = block.open
    BY <2>0 DEF BlockInv
  <2>3. OnTime(block', block'.midi) BY <2>1, <2>2, TailOnTime DEF BlockInv
  <2>4. OnTime(block', block'.parameters) BY <2>2 DEF BlockInv, OnTime
  <2>5. block' \in Blocks BY <2>0, <2>2, <2>3 DEF BlockInv, OnTime
  <2> QED BY <2>3, <2>4, <2>5 DEF BlockInv
<1>5. ASSUME RenderFrame PROVE BlockInv'
  <2>0. block' = [block EXCEPT !.frame = @ + 1] BY <1>5 DEF RenderFrame
  <2>1. /\ block'.frame = block.frame + 1 /\ block'.frames = block.frames
        /\ block'.parameters = block.parameters /\ block'.midi = block.midi
        /\ block'.open = block.open
    BY <2>0 DEF BlockInv
  <2>2. OnTime(block', block'.midi) /\ OnTime(block', block'.parameters)
    <3>1. ~ (block.midi # <<>> /\ Head(block.midi) = block.frame) BY <1>5 DEF RenderFrame, Due
    <3>2. ~ (block.parameters # <<>> /\ Head(block.parameters) = block.frame)
      BY <1>5 DEF RenderFrame, Due
    <3> QED BY <2>1, <3>1, <3>2, FrameOnTime DEF BlockInv
  <2>3. block' \in Blocks BY <2>0, <2>1 DEF BlockInv
  <2> QED BY <2>2, <2>3 DEF BlockInv
<1>6. ASSUME Return PROVE BlockInv' BY <1>1, <1>6 DEF Return
<1>7. ASSUME Next PROVE BeginBlock \/ BlockParameter \/ BlockMidi \/ RenderFrame \/ Return
                        \/ block' = block
  BY <1>7 DEF Next, Create, Destroy, Activate, Deactivate, Reset, SetParameter, LoadPreset,
              LoadState, LoadLegacyState
<1> QED BY <1>0, <1>2, <1>3, <1>4, <1>5, <1>6, <1>7 DEF vars

\* No event of a block is overtaken (NoEventIsLate): process applies each at its frame,
\* whatever the host lists, because event_slice has refused what is not in order.
THEOREM EventsAreOnTime == Spec => []NoEventIsLate
<1>1. Init => BlockInv BY IdleOnTime DEF Init, BlockInv
<1>2. BlockInv => NoEventIsLate
  <2> SUFFICES ASSUME BlockInv PROVE NoEventIsLate OBVIOUS
  <2>1. ASSUME NEW events, OnTime(block, events), NEW i \in DOMAIN events
        PROVE  events[i] \in block.frame .. block.frames - 1
    <3>1. events[i] \in Nat /\ block.frame \in Nat /\ block.frames \in Nat
      BY <2>1 DEF OnTime, BlockInv
    <3>2. block.frame <= events[i] /\ events[i] < block.frames BY <2>1 DEF OnTime
    <3> QED BY <3>1, <3>2
  <2> QED BY <2>1 DEF BlockInv, NoEventIsLate
<1> QED BY <1>1, <1>2, BlockStep, PTL DEF Spec
-----------------------------------------------------------------------------
(* What the plugin names is what gets the notes.                              *)

IsList(l) == Len(l) \in Nat /\ DOMAIN l = 1..Len(l)

\* index_of finds an instrument of that identifier, if there is one.
LEMMA IndexOfFinds ==
  ASSUME NEW l, IsList(l), NEW id, \E i \in DOMAIN l : l[i].id = id
  PROVE  IndexOf(l, id) \in DOMAIN l /\ l[IndexOf(l, id)].id = id
<1> DEFINE Named == {i \in DOMAIN l : l[i].id = id}
<1>1. Named # {} OBVIOUS
<1>2. PICK m \in Named : \A k \in Named : m <= k
  <2>1. Named \in SUBSET Nat BY DEF IsList
  <2> HIDE DEF Named
  <2> QED BY <1>1, <2>1, LeastNatural
<1>3. m \in DOMAIN l /\ l[m].id = id /\ m \in 1..Len(l) BY <1>2 DEF IsList
<1>4. ASSUME NEW j \in 1..m - 1 PROVE l[j].id # id
  <2>1. j \in 1..Len(l) /\ j < m BY <1>3 DEF IsList
  <2>2. j \in DOMAIN l /\ ~ (m <= j) BY <2>1, <1>3 DEF IsList
  <2> QED BY <1>2, <2>2
<1>5. \E i \in DOMAIN l : l[i].id = id /\ \A j \in 1..i - 1 : l[j].id # id
  BY <1>3, <1>4
<1>6. IndexOf(l, id) = CHOOSE i \in DOMAIN l : l[i].id = id /\ \A j \in 1..i - 1 : l[j].id # id
  BY <1>3 DEF IndexOf
<1> QED BY <1>5, <1>6

LEMMA IndexOfIsThere ==
  ASSUME NEW l, IsList(l), NEW id, IndexOf(l, id) # 0
  PROVE  IndexOf(l, id) \in DOMAIN l /\ l[IndexOf(l, id)].id = id
<1>1. \E i \in DOMAIN l : l[i].id = id BY DEF IndexOf
<1> QED BY <1>1, IndexOfFinds

\* SelectionAgrees, and what holds before there is an instance.
SelectionInv ==
  /\ SelectionAgrees
  /\ IsList(library)
  /\ ~created => selectedSfz = 0 /\ strayed = "no"

LEMMA DlsNamesAreNotSfz == ASSUME NEW pair PROVE ~ IsSfz(DynamicPresetId(pair))
  BY DEF IsSfz, DynamicPresetId

\* A preset that exists, once selected, is named, sounds and has no history.
LEMMA SelectPresetAgrees ==
  ASSUME SelectionInv, UNCHANGED <<created, library>>, created,
         NEW id, HasPreset(id), IsSfz(id) => id = SfzPresetId(id[2]), SelectPreset(id)
  PROVE  SelectionInv'
<1>1. CASE IsSfz(id)
  <2>1. selectedSfz' = IndexOf(library, id[2]) /\ presetId' = id /\ strayed' = "no"
    BY <1>1 DEF SelectPreset, SelectSfz
  <2>2. IndexOf(library, id[2]) # 0
    BY <1>1 DEF HasPreset, IsSfz, IsDls
  <2>3. library[selectedSfz'].id = id[2]
    BY <2>1, <2>2, IndexOfIsThere DEF SelectionInv
  <2>4. presetId' = SfzPresetId(library'[selectedSfz'].id) BY <1>1, <2>1, <2>3
  <2>5. IsSfz(presetId') BY <1>1, <2>1
  <2> QED BY <2>1, <2>2, <2>4, <2>5 DEF SelectionInv, SelectionAgrees
<1>2. CASE ~ IsSfz(id)
  <2>1. /\ selected' = Pair(id) /\ presetId' = DynamicPresetId(Pair(id))
        /\ selectedSfz' = 0 /\ strayed' = "no"
    BY <1>2 DEF SelectPreset, SelectInstrument
  <2>2. ~ IsSfz(presetId') BY <2>1, DlsNamesAreNotSfz
  <2> QED BY <2>1, <2>2 DEF SelectionInv, SelectionAgrees
<1> QED BY <1>1, <1>2

LEMMA SelectionStep == SelectionInv /\ [Next]_vars => SelectionInv'
<1> SUFFICES ASSUME SelectionInv, [Next]_vars PROVE SelectionInv'
  OBVIOUS
<1>1. UNCHANGED <<created, library, selection>> => SelectionInv'
  BY DEF selection, SelectionInv, SelectionAgrees
<1>2. ASSUME Create PROVE SelectionInv'
  <2>1. PICK b \in Banks \cup {<<>>}, root \in Roots :
          /\ library' = Load(root) /\ selected' = DefaultSelection(b)
          /\ presetId' = DynamicPresetId(DefaultSelection(b))
    BY <1>2 DEF Create
  <2>2. /\ created' /\ selectedSfz' = 0 /\ strayed' = "no"
    BY <1>2 DEF Create, SelectionInv
  <2>3. ~ IsSfz(presetId') BY <2>1, DlsNamesAreNotSfz
  <2>4. IsList(library') BY <2>1, NamesAssumption DEF NamesAssumption, IsList
  <2> QED BY <2>1, <2>2, <2>3, <2>4 DEF SelectionInv, SelectionAgrees
<1>3. ASSUME Destroy PROVE SelectionInv'
  <2>1. /\ ~created' /\ library' = <<>> /\ selected' = <<0, 0>> /\ selectedSfz' = 0
        /\ presetId' = DynamicPresetId(<<0, 0>>) /\ strayed' = "no"
    BY <1>3 DEF Destroy
  <2>2. ~ IsSfz(presetId') BY <2>1, DlsNamesAreNotSfz
  <2>3. IsList(library') BY <2>1 DEF IsList
  <2> QED BY <2>1, <2>2, <2>3 DEF SelectionInv, SelectionAgrees
<1>4. ASSUME NEW id, IsSfz(id) => id = SfzPresetId(id[2]), LoadPreset(id) PROVE SelectionInv'
  <2>1. created /\ UNCHANGED <<created, library>> BY <1>4 DEF LoadPreset, Called, installed
  <2>2. CASE HasPreset(id)
    <3>1. SelectPreset(id) BY <1>4, <2>2 DEF LoadPreset
    <3> QED BY <1>4, <2>1, <2>2, <3>1, SelectPresetAgrees
  <2>3. CASE ~ HasPreset(id)
    <3>1. RefusePreset(id) BY <1>4, <2>3 DEF LoadPreset
    <3> QED BY <2>1, <3>1 DEF RefusePreset, SelectionInv, SelectionAgrees
  <2> QED BY <2>2, <2>3
<1>5. ASSUME NEW s \in States, LoadState(s) PROVE SelectionInv'
  <2>1. /\ created /\ UNCHANGED <<created, library>> /\ HasPreset(s.id) /\ SelectPreset(s.id)
    BY <1>5 DEF LoadState, Called, installed
  <2> QED BY <2>1, NamesAssumption, SelectPresetAgrees DEF NamesAssumption
<1>6. ASSUME NEW s \in States, LoadLegacyState(s) PROVE SelectionInv'
  <2>1. created /\ UNCHANGED <<created, library>>
    BY <1>6 DEF LoadLegacyState, Called, installed
  <2>2. CASE HasPreset(s.id)
    <3>1. SelectPreset(s.id) BY <1>6, <2>2 DEF LoadLegacyState
    <3> QED BY <2>1, <2>2, <3>1, NamesAssumption, SelectPresetAgrees DEF NamesAssumption
  <2>3. CASE ~ HasPreset(s.id) /\ s.layer # <<>> /\ InBank(bank, s.layer)
    <3>1. /\ selected' = s.layer /\ presetId' = DynamicPresetId(s.layer)
          /\ selectedSfz' = selectedSfz
          /\ strayed' = IF selectedSfz = 0 THEN "no" ELSE "layer"
      BY <1>6, <2>3 DEF LoadLegacyState, SelectInstrument
    <3>2. ~ IsSfz(presetId') BY <3>1, DlsNamesAreNotSfz
    <3> QED BY <2>1, <3>1, <3>2 DEF SelectionInv, SelectionAgrees
  <2>4. CASE ~ HasPreset(s.id) /\ ~ (s.layer # <<>> /\ InBank(bank, s.layer))
    <3>1. UNCHANGED selection BY <1>6, <2>4 DEF LoadLegacyState
    <3> QED BY <1>1, <2>1, <3>1
  <2> QED BY <2>2, <2>3, <2>4
\* The names the host asks for are those of catalogs, the legacy one and unknown ones.
<1>7. ASSUME NEW id \in (UNION {DynamicCatalog(b, <<>>) : b \in Banks})
                         \cup (UNION {DynamicCatalog(<<>>, Load(r)) : r \in Roots})
                         \cup {<<"gm.piano-1">>, <<"unknown">>}
      PROVE  IsSfz(id) => id = SfzPresetId(id[2])
  <2>1. ASSUME NEW b, NEW l, id \in DynamicCatalog(b, l)
        PROVE  IsSfz(id) => id = SfzPresetId(id[2])
    <3>1. CASE \E i \in DOMAIN b : id = DynamicPresetId(<<b[i].bank, b[i].program>>)
      BY <3>1, DlsNamesAreNotSfz
    <3>2. CASE \E i \in DOMAIN l : id = SfzPresetId(l[i].id)
      BY <3>2 DEF SfzPresetId
    <3> QED BY <2>1, <3>1, <3>2 DEF DynamicCatalog
  <2>2. CASE id \in {<<"gm.piano-1">>, <<"unknown">>} BY <2>2 DEF IsSfz
  <2> QED BY <2>1, <2>2
<1>8. ASSUME Next, ~ Create, ~ Destroy,
             ~ \E id \in (UNION {DynamicCatalog(b, <<>>) : b \in Banks})
                           \cup (UNION {DynamicCatalog(<<>>, Load(r)) : r \in Roots})
                           \cup {<<"gm.piano-1">>, <<"unknown">>} : LoadPreset(id),
             ~ \E s \in States : LoadState(s) \/ LoadLegacyState(s)
      PROVE  UNCHANGED <<created, library, selection>>
  BY <1>8 DEF Next, Activate, Deactivate, Reset, SetParameter, BeginBlock, BlockParameter,
              BlockMidi, RenderFrame, Return, installed
<1>9. UNCHANGED vars => UNCHANGED <<created, library, selection>> BY DEF vars, installed
<1> QED BY <1>1, <1>2, <1>3, <1>4, <1>5, <1>6, <1>7, <1>8, <1>9

\* The preset the plugin names is the one that gets the notes (SelectionAgrees): selection,
\* refusal, saved states of every version and the life of the instance keep name, bank
\* selection and SFZ instrument together, but for the two ways in which the code parts them.
THEOREM NamesAndSoundAgree == Spec => []SelectionAgrees
<1>1. Init => SelectionInv
  <2> SUFFICES ASSUME Init PROVE SelectionInv OBVIOUS
  <2>1. ~ IsSfz(presetId) BY DlsNamesAreNotSfz DEF Init
  <2>2. IsList(library) BY DEF Init, IsList
  <2> QED BY <2>1, <2>2 DEF Init, SelectionInv, SelectionAgrees
<1>2. SelectionInv => SelectionAgrees BY DEF SelectionInv
<1> QED BY <1>1, <1>2, SelectionStep, PTL DEF Spec
-----------------------------------------------------------------------------
(***************************************************************************)
(* Proofs about NativePlugin's pool of voices, for every pool, keyboard,   *)
(* number of layers and library.                                           *)
(*                                                                         *)
(* Making room and removing what has ended both leave a selection of the   *)
(* voices that were there: each place of the new pool holds the voice of   *)
(* one place of the old pool, and no two hold the same one (Picks).  For   *)
(* the swap_removes of a frame that needs a count: there are as many       *)
(* survivors behind the new end as there are gaps before it, so that the   *)
(* gap of each rank has a survivor of that rank.                           *)
(***************************************************************************)
(* Counting.                                                                  *)

\* Distinct ranks from one to the number of elements are all taken.
LEMMA EveryRankIsTaken ==
  ASSUME NEW S, IsFiniteSet(S), NEW rank \in [S -> 1..Cardinality(S)],
         \A a, b \in S : rank[a] = rank[b] => a = b,
         NEW r \in 1..Cardinality(S)
  PROVE  \E j \in S : rank[j] = r
<1>1. Cardinality(S) \in Nat BY FS_CardinalityType
<1>2. IsFiniteSet(1..Cardinality(S)) /\ Cardinality(1..Cardinality(S)) = Cardinality(S)
  BY <1>1, FS_Interval
<1>3. rank \in Injection(S, 1..Cardinality(S)) BY DEF Injection, IsInjective
<1>4. rank \in Surjection(S, 1..Cardinality(S)) BY <1>2, <1>3, FS_Injection
<1> QED BY <1>4 DEF Surjection

\* A part with fewer elements than the whole it lies in.
LEMMA StrictPart ==
  ASSUME NEW S, IsFiniteSet(S), NEW T \in SUBSET S, NEW x \in S, x \notin T
  PROVE  IsFiniteSet(T) /\ Cardinality(T) \in Nat /\ Cardinality(S) \in Nat
         /\ Cardinality(T) < Cardinality(S)
<1>1. IsFiniteSet(T) /\ Cardinality(T) <= Cardinality(S) /\ Cardinality(T) # Cardinality(S)
  BY FS_Subset
<1>2. Cardinality(T) \in Nat /\ Cardinality(S) \in Nat BY <1>1, FS_CardinalityType
<1> QED BY <1>1, <1>2

\* Among numbers, how many are not before j, and how many are not after it.
FromTop(S, j) == Cardinality({k \in S : k >= j})
FromBottom(S, j) == Cardinality({k \in S : k <= j})

LEMMA TopRank ==
  ASSUME NEW S \in SUBSET Nat, IsFiniteSet(S)
  PROVE  /\ \A j \in S : FromTop(S, j) \in 1..Cardinality(S)
         /\ \A i, j \in S : FromTop(S, i) = FromTop(S, j) => i = j
<1>1. ASSUME NEW i \in S, NEW j \in S, i < j PROVE FromTop(S, i) # FromTop(S, j)
  <2>0. i \in Nat /\ j \in Nat OBVIOUS
  <2>1. IsFiniteSet({k \in S : k >= i}) BY FS_Subset
  <2>2. i \in {k \in S : k >= i} /\ i \notin {k \in S : k >= j} BY <1>1, <2>0
  <2>3. {k \in S : k >= j} \in SUBSET {k \in S : k >= i}
    <3>1. \A k \in S : k \in Nat /\ (k >= j => k >= i) BY <1>1, <2>0
    <3> QED BY <3>1
  <2> QED BY <2>1, <2>2, <2>3, StrictPart DEF FromTop
<1>2. ASSUME NEW j \in S PROVE FromTop(S, j) \in 1..Cardinality(S)
  <2>1. IsFiniteSet({k \in S : k >= j}) /\ FromTop(S, j) <= Cardinality(S)
    BY FS_Subset DEF FromTop
  <2>2. FromTop(S, j) \in Nat /\ Cardinality(S) \in Nat
    BY <2>1, FS_CardinalityType DEF FromTop
  <2>3. j \in {k \in S : k >= j} OBVIOUS
  <2>4. FromTop(S, j) # 0 BY <2>1, <2>3, FS_EmptySet DEF FromTop
  <2> QED BY <2>1, <2>2, <2>4
<1>3. \A i, j \in S : i < j \/ j < i \/ i = j OBVIOUS
<1> QED BY <1>1, <1>2, <1>3

LEMMA BottomRank ==
  ASSUME NEW S \in SUBSET Nat, IsFiniteSet(S)
  PROVE  /\ \A j \in S : FromBottom(S, j) \in 1..Cardinality(S)
         /\ \A i, j \in S : FromBottom(S, i) = FromBottom(S, j) => i = j
<1>1. ASSUME NEW i \in S, NEW j \in S, i < j PROVE FromBottom(S, i) # FromBottom(S, j)
  <2>0. i \in Nat /\ j \in Nat OBVIOUS
  <2>1. IsFiniteSet({k \in S : k <= j}) BY FS_Subset
  <2>2. j \in {k \in S : k <= j} /\ j \notin {k \in S : k <= i} BY <1>1, <2>0
  <2>3. {k \in S : k <= i} \in SUBSET {k \in S : k <= j}
    <3>1. \A k \in S : k \in Nat /\ (k <= i => k <= j) BY <1>1, <2>0
    <3> QED BY <3>1
  <2> QED BY <2>1, <2>2, <2>3, StrictPart DEF FromBottom
<1>2. ASSUME NEW j \in S PROVE FromBottom(S, j) \in 1..Cardinality(S)
  <2>1. IsFiniteSet({k \in S : k <= j}) /\ FromBottom(S, j) <= Cardinality(S)
    BY FS_Subset DEF FromBottom
  <2>2. FromBottom(S, j) \in Nat /\ Cardinality(S) \in Nat
    BY <2>1, FS_CardinalityType DEF FromBottom
  <2>3. j \in {k \in S : k <= j} OBVIOUS
  <2>4. FromBottom(S, j) # 0 BY <2>1, <2>3, FS_EmptySet DEF FromBottom
  <2> QED BY <2>1, <2>2, <2>4
<1>3. \A i, j \in S : i < j \/ j < i \/ i = j OBVIOUS
<1> QED BY <1>1, <1>2, <1>3

LEMMA DisjointUnion ==
  ASSUME NEW S, IsFiniteSet(S), NEW T, IsFiniteSet(T), S \cap T = {}
  PROVE  /\ IsFiniteSet(S \cup T)
         /\ Cardinality(S \cup T) = Cardinality(S) + Cardinality(T)
<1>1. Cardinality(S \cup T) = Cardinality(S) + Cardinality(T) - Cardinality(S \cap T)
      /\ IsFiniteSet(S \cup T)
  BY FS_Union
<1>2. Cardinality(S \cap T) = 0 BY FS_EmptySet
<1>3. Cardinality(S) \in Nat /\ Cardinality(T) \in Nat BY FS_CardinalityType
<1> QED BY <1>1, <1>2, <1>3

Left(len, ended) == len - Cardinality(ended)
Gaps(len, ended) == {i \in ended : i <= Left(len, ended)}
Movers(len, ended) == {i \in (1..len) \ ended : i > Left(len, ended)}

\* As many survivors stand behind the new end as there are gaps before it.
LEMMA GapsAndMovers ==
  ASSUME NEW len \in Nat, NEW ended \in SUBSET (1..len)
  PROVE  /\ Left(len, ended) \in 0..len
         /\ IsFiniteSet(Gaps(len, ended)) /\ IsFiniteSet(Movers(len, ended))
         /\ Cardinality(Gaps(len, ended)) = Cardinality(Movers(len, ended))
<1> DEFINE left == Left(len, ended)
           gaps == {i \in ended : i <= left}
           movers == {i \in (1..len) \ ended : i > left}
           kept == {i \in (1..len) \ ended : i <= left}
<1>0. left = len - Cardinality(ended) BY DEF Left
<1>1. IsFiniteSet(1..len) /\ Cardinality(1..len) = len BY FS_Interval
<1>2. /\ IsFiniteSet(ended) /\ Cardinality(ended) \in Nat /\ Cardinality(ended) <= len
  BY <1>1, FS_Subset, FS_CardinalityType
<1>3. left \in 0..len BY <1>0, <1>2
<1>4. IsFiniteSet(1..left) /\ Cardinality(1..left) = left BY <1>3, FS_Interval
<1>5. IsFiniteSet(gaps) /\ IsFiniteSet(kept) /\ IsFiniteSet(movers)
  <2>1. gaps \in SUBSET (1..len) /\ kept \in SUBSET (1..len) /\ movers \in SUBSET (1..len)
    OBVIOUS
  <2> QED BY <1>1, <2>1, FS_Subset
<1>6. /\ Cardinality(gaps) \in Nat /\ Cardinality(kept) \in Nat /\ Cardinality(movers) \in Nat
  BY <1>5, FS_CardinalityType
<1>7. Cardinality(gaps) + Cardinality(kept) = left
  <2>1. \A i \in 1..len : i <= left <=> i \in 1..left BY <1>3
  <2>2. \A i \in 1..left : i \in 1..len BY <1>3
  <2>3. gaps \cup kept = 1..left BY <2>1, <2>2
  <2>4. gaps \cap kept = {} OBVIOUS
  <2>5. Cardinality(gaps \cup kept) = Cardinality(gaps) + Cardinality(kept)
    BY <1>5, <2>4, DisjointUnion
  <2> QED BY <1>4, <2>3, <2>5
<1>8. Cardinality(kept) + Cardinality(movers) + Cardinality(ended) = len
  <2>1. \A i \in 1..len : ~ (i <= left /\ i > left) /\ (i <= left \/ i > left) BY <1>3
  <2>2. kept \cap movers = {} /\ (kept \cup movers) \cap ended = {} BY <2>1
  <2>3. (kept \cup movers) \cup ended = 1..len BY <2>1
  <2>4. /\ IsFiniteSet(kept \cup movers)
        /\ Cardinality(kept \cup movers) = Cardinality(kept) + Cardinality(movers)
    BY <1>5, <2>2, DisjointUnion
  <2>5. Cardinality((kept \cup movers) \cup ended)
          = Cardinality(kept \cup movers) + Cardinality(ended)
    BY <1>2, <2>2, <2>4, DisjointUnion
  <2> QED BY <1>1, <2>3, <2>4, <2>5
<1>9. gaps = Gaps(len, ended) /\ movers = Movers(len, ended) BY DEF Gaps, Movers
<1> HIDE DEF kept, gaps, movers, left
<1>10. Cardinality(gaps) = Cardinality(movers) BY <1>0, <1>2, <1>3, <1>6, <1>7, <1>8
<1> QED BY <1>3, <1>5, <1>9, <1>10 DEF left
-----------------------------------------------------------------------------
(* Pools.                                                                     *)

\* t holds voices of s, each at most once.
Picks(t, s) ==
  /\ Len(t) \in 0..Len(s) /\ DOMAIN t = 1..Len(t)
  /\ \E from \in [1..Len(t) -> 1..Len(s)] :
       /\ \A i, j \in 1..Len(t) : from[i] = from[j] => i = j
       /\ t = [i \in 1..Len(t) |-> s[from[i]]]

\* The survivor that fills a gap.
Filler(gaps, movers, gap) ==
  CHOOSE j \in movers : FromTop(movers, j) = FromBottom(gaps, gap)

\* What render_frame leaves of the pool was in it.
LEMMA SwapRemovePicks ==
  ASSUME NEW V, NEW s \in Seq(V), NEW ended \in SUBSET DOMAIN s
  PROVE  Picks(SwapRemove(s, ended), s)
<1> DEFINE left == Left(Len(s), ended)
           gaps == Gaps(Len(s), ended)
           movers == Movers(Len(s), ended)
           from == [i \in 1..left |-> IF i \in gaps THEN Filler(gaps, movers, i) ELSE i]
<1>0. Len(s) \in Nat /\ DOMAIN s = 1..Len(s) /\ ended \in SUBSET (1..Len(s)) OBVIOUS
<1>1. /\ left \in 0..Len(s) /\ IsFiniteSet(gaps) /\ IsFiniteSet(movers)
      /\ Cardinality(gaps) = Cardinality(movers)
  BY <1>0, GapsAndMovers
<1>2. /\ gaps \in SUBSET Nat /\ movers \in SUBSET Nat /\ gaps \subseteq 1..left
      /\ \A j \in movers : j \in 1..Len(s) /\ j > left
  <2>1. \A i \in gaps : i \in 1..Len(s) /\ i <= left BY <1>0, <1>1 DEF Gaps
  <2>2. \A j \in movers : j \in 1..Len(s) /\ j > left BY <1>0, <1>1 DEF Movers
  <2> HIDE DEF gaps, movers, left
  <2> QED BY <1>0, <1>1, <2>1, <2>2
<1>3. SwapRemove(s, ended) = [i \in 1..left |-> IF i \in gaps THEN s[Filler(gaps, movers, i)]
                                                ELSE s[i]]
  BY <1>0 DEF SwapRemove, Filler, FromTop, FromBottom, Left, Gaps, Movers
<1> HIDE DEF gaps, movers
<1>4. ASSUME NEW g \in gaps
      PROVE  Filler(gaps, movers, g) \in movers
             /\ FromTop(movers, Filler(gaps, movers, g)) = FromBottom(gaps, g)
  <2> DEFINE rank == [j \in movers |-> FromTop(movers, j)]
  <2>1. FromBottom(gaps, g) \in 1..Cardinality(movers) BY <1>1, <1>2, BottomRank
  <2>2. /\ rank \in [movers -> 1..Cardinality(movers)]
        /\ \A a, b \in movers : rank[a] = rank[b] => a = b
    BY <1>1, <1>2, TopRank
  <2>3. \E j \in movers : rank[j] = FromBottom(gaps, g)
    <3> HIDE DEF rank
    <3> QED BY <1>1, <2>1, <2>2, EveryRankIsTaken
  <2>4. \E j \in movers : FromTop(movers, j) = FromBottom(gaps, g) BY <2>3
  <2> QED BY <2>4 DEF Filler
<1>5. \A g, h \in gaps : Filler(gaps, movers, g) = Filler(gaps, movers, h) => g = h
  BY <1>1, <1>2, <1>4, BottomRank
<1>6. from \in [1..left -> 1..Len(s)]
  <2>1. ASSUME NEW i \in 1..left PROVE (IF i \in gaps THEN Filler(gaps, movers, i) ELSE i) \in 1..Len(s)
    <3>1. CASE i \in gaps BY <1>2, <1>4, <3>1
    <3>2. CASE i \notin gaps BY <1>0, <1>1, <3>2
    <3> QED BY <3>1, <3>2
  <2> QED BY <2>1
<1>7. \A i, j \in 1..left : from[i] = from[j] => i = j
  <2> SUFFICES ASSUME NEW i \in 1..left, NEW j \in 1..left, from[i] = from[j] PROVE i = j
    OBVIOUS
  <2>1. CASE i \in gaps /\ j \in gaps BY <1>5, <2>1
  <2>2. CASE i \in gaps /\ j \notin gaps BY <1>0, <1>1, <1>2, <1>4, <2>2
  <2>3. CASE i \notin gaps /\ j \in gaps BY <1>0, <1>1, <1>2, <1>4, <2>3
  <2>4. CASE i \notin gaps /\ j \notin gaps BY <2>4
  <2> QED BY <2>1, <2>2, <2>3, <2>4
<1>8. SwapRemove(s, ended) = [i \in 1..left |-> s[from[i]]] BY <1>3
<1>9. left \in Nat BY <1>0, <1>1
<1>10. Len(SwapRemove(s, ended)) = left BY <1>8, <1>9
<1> HIDE DEF from, left
<1>11. DOMAIN SwapRemove(s, ended) = 1..left BY <1>8
<1> QED BY <1>1, <1>6, <1>7, <1>8, <1>10, <1>11 DEF Picks
-----------------------------------------------------------------------------
(* What keys and pedals promise of a pool.                                    *)

VoiceType == [note : Notes, released : BOOLEAN, fading : BOOLEAN]
Strike(s, n) == {i \in DOMAIN s : s[i].note = n /\ ~s[i].fading}

\* A pool under the keys that are down and the pedal.
Answers(s, down, pedal) ==
  /\ s \in Seq(VoiceType)
  /\ \A i \in DOMAIN s : s[i].released \/ s[i].fading \/ s[i].note \in down \/ pedal
  /\ \A n \in Notes : Cardinality(Strike(s, n)) <= MaxLayers

LEMMA StrikeIsFinite ==
  ASSUME NEW s \in Seq(VoiceType), NEW n
  PROVE  IsFiniteSet(Strike(s, n)) /\ Cardinality(Strike(s, n)) \in Nat
<1>1. DOMAIN s = 1..Len(s) /\ Len(s) \in Nat OBVIOUS
<1>2. IsFiniteSet(DOMAIN s) BY <1>1, FS_Interval
<1>3. Strike(s, n) \in SUBSET DOMAIN s BY DEF Strike
<1> QED BY <1>2, <1>3, FS_Subset, FS_CardinalityType

\* What a pool answers to, any selection of its voices answers to.
LEMMA PicksAnswer ==
  ASSUME NEW s, NEW t, NEW down, NEW pedal, Answers(s, down, pedal), Picks(t, s)
  PROVE  Answers(t, down, pedal)
<1>1. s \in Seq(VoiceType) BY DEF Answers
<1>2. /\ Len(s) \in Nat /\ DOMAIN s = 1..Len(s) /\ \A i \in 1..Len(s) : s[i] \in VoiceType
  BY <1>1
<1>3. PICK from \in [1..Len(t) -> 1..Len(s)] :
        /\ \A i, j \in 1..Len(t) : from[i] = from[j] => i = j
        /\ t = [i \in 1..Len(t) |-> s[from[i]]]
  BY DEF Picks
<1>4. Len(t) \in Nat /\ DOMAIN t = 1..Len(t) BY <1>2 DEF Picks
<1>5. \A i \in 1..Len(t) : from[i] \in 1..Len(s) /\ t[i] = s[from[i]] BY <1>3, <1>4
<1>6. t \in Seq(VoiceType)
  <2>1. \A i \in 1..Len(t) : s[from[i]] \in VoiceType BY <1>2, <1>5
  <2>2. [i \in 1..Len(t) |-> s[from[i]]] \in [1..Len(t) -> VoiceType] BY <2>1
  <2>3. t \in [1..Len(t) -> VoiceType] BY <1>3, <2>2
  <2> QED BY <1>4, <2>3
<1>7. ASSUME NEW i \in DOMAIN t
      PROVE  t[i].released \/ t[i].fading \/ t[i].note \in down \/ pedal
  <2>1. i \in 1..Len(t) BY <1>4
  <2>2. from[i] \in DOMAIN s /\ t[i] = s[from[i]] BY <2>1, <1>2, <1>5
  <2> QED BY <2>2 DEF Answers
<1>8. ASSUME NEW n \in Notes PROVE Cardinality(Strike(t, n)) <= MaxLayers
  <2> DEFINE f == [i \in Strike(t, n) |-> from[i]]
  <2>1. ASSUME NEW i \in Strike(t, n) PROVE i \in 1..Len(t) /\ from[i] \in Strike(s, n)
    <3>1. i \in 1..Len(t) BY <1>4 DEF Strike
    <3>2. from[i] \in DOMAIN s /\ t[i] = s[from[i]] BY <3>1, <1>2, <1>5
    <3>3. t[i].note = n /\ ~t[i].fading BY DEF Strike
    <3> QED BY <3>1, <3>2, <3>3 DEF Strike
  <2>2. f \in [Strike(t, n) -> Strike(s, n)] BY <2>1
  <2>3. \A i, j \in DOMAIN f : f[i] = f[j] => i = j BY <2>1, <1>3
  <2>4. f \in Injection(Strike(t, n), Strike(s, n)) BY <2>2, <2>3 DEF Injection, IsInjective
  <2>5. Cardinality(Strike(t, n)) <= Cardinality(Strike(s, n))
    <3> HIDE DEF f
    <3> QED BY <2>4, <1>1, StrikeIsFinite, FS_Injection
  <2>6. Cardinality(Strike(s, n)) <= MaxLayers BY DEF Answers
  <2>7. Cardinality(Strike(t, n)) \in Nat /\ Cardinality(Strike(s, n)) \in Nat
    BY <1>1, <1>6, StrikeIsFinite
  <2>8. MaxLayers \in Nat BY NativeAssumption DEF NativeAssumption
  <2> QED BY <2>5, <2>6, <2>7, <2>8
<1> QED BY <1>6, <1>7, <1>8 DEF Answers

\* Making room keeps the newest voices, and no more than the pool holds.
LEMMA NewestPicks ==
  ASSUME NEW V, NEW s \in Seq(V)
  PROVE  Picks(Newest(s), s) /\ Len(Newest(s)) <= MaxVoices
<1>0. Len(s) \in Nat /\ DOMAIN s = 1..Len(s) /\ MaxVoices \in Nat \ {0}
  BY NativeAssumption DEF NativeAssumption
<1>1. CASE Len(s) <= MaxVoices
  <2> DEFINE from == [i \in 1..Len(s) |-> i]
  <2>1. Newest(s) = s BY <1>1 DEF Newest
  <2>2. /\ from \in [1..Len(s) -> 1..Len(s)]
        /\ \A i, j \in 1..Len(s) : from[i] = from[j] => i = j
        /\ s = [i \in 1..Len(s) |-> s[from[i]]]
    BY <1>0
  <2>3. \E f \in [1..Len(s) -> 1..Len(s)] :
          /\ \A i, j \in 1..Len(s) : f[i] = f[j] => i = j
          /\ s = [i \in 1..Len(s) |-> s[f[i]]]
    BY <2>2
  <2>4. Len(s) \in 0..Len(s) BY <1>0
  <2> QED BY <1>0, <1>1, <2>1, <2>3, <2>4 DEF Picks
<1>2. CASE Len(s) > MaxVoices
  <2> DEFINE t == SubSeq(s, Len(s) - MaxVoices + 1, Len(s))
             from == [i \in 1..MaxVoices |-> i + (Len(s) - MaxVoices)]
  <2>1. Newest(s) = t BY <1>0, <1>2 DEF Newest
  <2>2. /\ Len(t) = MaxVoices /\ DOMAIN t = 1..MaxVoices
        /\ \A i \in 1..MaxVoices : t[i] = s[i + (Len(s) - MaxVoices)]
    <3>1. Len(s) - MaxVoices + 1 \in 1..Len(s) + 1 BY <1>0, <1>2
    <3>2. t = [i \in 1..MaxVoices |-> s[i + (Len(s) - MaxVoices)]]
      BY <1>0, <1>2
    <3> HIDE DEF t
    <3> QED BY <1>0, <3>2
  <2>3. from \in [1..MaxVoices -> 1..Len(s)]
        /\ \A i, j \in 1..MaxVoices : from[i] = from[j] => i = j
    BY <1>0, <1>2
  <2>4. t = [i \in 1..MaxVoices |-> s[from[i]]]
    BY <1>0, <1>2
  <2> HIDE DEF t, from
  <2>5. MaxVoices \in 0..Len(s) BY <1>0, <1>2
  <2>6. Picks(t, s) BY <2>2, <2>3, <2>4, <2>5 DEF Picks
  <2> QED BY <1>0, <2>1, <2>2, <2>6
<1> QED BY <1>0, <1>1, <1>2
-----------------------------------------------------------------------------
(* What MIDI does to the pool.                                                *)

\* Notes off: what S releases need not be down any longer.
LEMMA ReleasedAnswers ==
  ASSUME voices \in Seq(VoiceType),
         \A n \in Notes : Cardinality(Strike(voices, n)) <= MaxLayers,
         NEW S, NEW down, NEW pedal,
         \A i \in DOMAIN voices : \/ voices[i].released \/ voices[i].fading
                                  \/ voices[i].note \in down \/ pedal
                                  \/ voices[i].note \in S
  PROVE  Answers(Released(S), down, pedal) /\ Len(Released(S)) = Len(voices)
<1> DEFINE t == Released(S)
<1>1. /\ Len(voices) \in Nat /\ DOMAIN voices = 1..Len(voices)
      /\ \A i \in DOMAIN voices : voices[i] \in VoiceType
  OBVIOUS
<1>2. ASSUME NEW i \in DOMAIN voices
      PROVE  /\ t[i] \in VoiceType
             /\ t[i].note = voices[i].note /\ t[i].fading = voices[i].fading
             /\ t[i].released = (voices[i].released \/ voices[i].note \in S)
  <2>1. t[i] = [voices[i] EXCEPT !.released = @ \/ voices[i].note \in S] BY DEF Released
  <2>2. voices[i] \in VoiceType BY <1>1
  <2>3. (voices[i].released \/ voices[i].note \in S) \in BOOLEAN OBVIOUS
  <2> QED BY <2>1, <2>2, <2>3 DEF VoiceType
<1>3. DOMAIN t = DOMAIN voices BY DEF Released
<1>4. t \in Seq(VoiceType) /\ Len(t) = Len(voices)
  <2>1. t = [i \in 1..Len(voices) |-> t[i]] BY <1>1 DEF Released
  <2>2. \A i \in 1..Len(voices) : t[i] \in VoiceType BY <1>1, <1>2
  <2> HIDE DEF t
  <2>3. t \in [1..Len(voices) -> VoiceType] BY <2>1, <2>2
  <2> QED BY <1>1, <2>3
<1>5. \A i \in DOMAIN t : t[i].released \/ t[i].fading \/ t[i].note \in down \/ pedal
  BY <1>2, <1>3
<1>6. \A n \in Notes : Strike(t, n) = Strike(voices, n)
  <2> HIDE DEF t
  <2> QED BY <1>2, <1>3 DEF Strike
<1> HIDE DEF t
<1>7. Answers(t, down, pedal) BY <1>4, <1>5, <1>6 DEF Answers
<1> QED BY <1>4, <1>7 DEF t

Faded(n) == [i \in DOMAIN voices |-> [voices[i] EXCEPT !.fading = @ \/ voices[i].note = n]]
Layers(n, count) == [i \in 1..count |-> [note |-> n, released |-> FALSE, fading |-> FALSE]]

\* A key struck: its old voices fade, so that what is left of the note is this strike.
LEMMA StruckAnswers ==
  ASSUME NEW down, NEW pedal, Answers(voices, down, pedal), NEW n \in Notes,
         NEW count \in 0..MaxLayers
  PROVE  Answers(Faded(n) \o Layers(n, count), down \cup {n}, pedal)
<1> DEFINE old == Faded(n)
           new == Layers(n, count)
           w == old \o new
<1>0. MaxLayers \in Nat /\ count \in Nat /\ count <= MaxLayers
  BY NativeAssumption DEF NativeAssumption
<1>1. /\ voices \in Seq(VoiceType)
      /\ Len(voices) \in Nat /\ DOMAIN voices = 1..Len(voices)
      /\ \A i \in 1..Len(voices) : voices[i] \in VoiceType
  BY DEF Answers
<1>2. ASSUME NEW i \in 1..Len(voices)
      PROVE  /\ old[i] \in VoiceType
             /\ old[i].note = voices[i].note /\ old[i].released = voices[i].released
             /\ old[i].fading = (voices[i].fading \/ voices[i].note = n)
  <2>1. old[i] = [voices[i] EXCEPT !.fading = @ \/ voices[i].note = n] BY <1>1 DEF Faded
  <2>2. voices[i] \in VoiceType BY <1>1
  <2>3. (voices[i].fading \/ voices[i].note = n) \in BOOLEAN OBVIOUS
  <2> QED BY <2>1, <2>2, <2>3 DEF VoiceType
<1>3. old \in Seq(VoiceType) /\ Len(old) = Len(voices)
  <2>1. old \in [1..Len(voices) -> VoiceType]
    <3>1. old = [i \in 1..Len(voices) |-> old[i]] BY <1>1 DEF Faded
    <3> HIDE DEF old
    <3> QED BY <1>2, <3>1
  <2>2. Len(voices) \in Nat BY <1>1
  <2> HIDE DEF old
  <2> QED BY <2>1, <2>2
<1>4. new \in Seq(VoiceType) /\ Len(new) = count
      /\ \A i \in 1..count : new[i].note = n /\ ~new[i].fading
  <2>1. new \in [1..count -> VoiceType] BY DEF VoiceType, Layers
  <2>2. \A i \in 1..count : new[i].note = n /\ ~new[i].fading BY DEF Layers
  <2> HIDE DEF new
  <2> QED BY <1>0, <2>1, <2>2
<1>5. w = old \o new OBVIOUS
<1> HIDE DEF old, new, w
<1>6. /\ w \in Seq(VoiceType) /\ Len(w) = Len(voices) + count
      /\ DOMAIN w = 1..Len(voices) + count
      /\ \A i \in 1..Len(voices) : w[i] = old[i]
      /\ \A i \in 1..Len(voices) + count :
           i \notin 1..Len(voices) => i - Len(voices) \in 1..count /\ w[i] = new[i - Len(voices)]
  <2>1. w \in Seq(VoiceType) BY <1>3, <1>4, <1>5
  <2>2. Len(w) = Len(voices) + count /\ Len(voices) \in Nat
    <3>1. old \in Seq(VoiceType) /\ new \in Seq(VoiceType) BY <1>3, <1>4
    <3>2. Len(w) = Len(old) + Len(new) BY <1>5, <3>1
    <3> QED BY <1>1, <1>3, <1>4, <3>2
  <2>3. DOMAIN w = 1..Len(voices) + count BY <2>1, <2>2
  <2>4. \A i \in 1..Len(voices) + count :
          w[i] = IF i <= Len(voices) THEN old[i] ELSE new[i - Len(voices)]
    BY <1>0, <1>3, <1>4, <1>5, <2>2
  <2> QED BY <1>0, <2>1, <2>2, <2>3, <2>4
<1>7. ASSUME NEW i \in DOMAIN w
      PROVE  w[i].released \/ w[i].fading \/ w[i].note \in down \cup {n} \/ pedal
  <2>1. CASE i \in 1..Len(voices)
    <3>1. voices[i].released \/ voices[i].fading \/ voices[i].note \in down \/ pedal
      BY <2>1, <1>1 DEF Answers
    <3> QED BY <2>1, <3>1, <1>2, <1>6
  <2>2. CASE i \notin 1..Len(voices) BY <2>2, <1>4, <1>6
  <2> QED BY <2>1, <2>2
<1>8. ASSUME NEW m \in Notes PROVE Cardinality(Strike(w, m)) <= MaxLayers
  <2>0. IsFiniteSet(Strike(w, m)) /\ Cardinality(Strike(w, m)) \in Nat BY <1>6, StrikeIsFinite
  <2>1. CASE m = n
    <3>1. ASSUME NEW i \in Strike(w, n) PROVE i \in Len(voices) + 1 .. Len(voices) + count
      <4>1. i \in 1..Len(voices) + count /\ w[i].note = n /\ ~w[i].fading BY <1>6 DEF Strike
      <4>2. i \notin 1..Len(voices) BY <4>1, <1>2, <1>6
      <4> QED BY <4>1, <4>2, <1>0, <1>1
    <3>2. Strike(w, n) \in SUBSET (Len(voices) + 1 .. Len(voices) + count) BY <3>1
    <3>3. /\ IsFiniteSet(Len(voices) + 1 .. Len(voices) + count)
          /\ Cardinality(Len(voices) + 1 .. Len(voices) + count) = count
      <4> DEFINE a == Len(voices) + 1
                 b == Len(voices) + count
      <4>1. /\ a \in Int /\ b \in Int /\ (a > b => count = 0) /\ b - a + 1 = count
        BY <1>0, <1>1
      <4> HIDE DEF a, b
      <4>2. IsFiniteSet(a..b) /\ Cardinality(a..b) = IF a > b THEN 0 ELSE b - a + 1
        BY <4>1, FS_Interval
      <4>3. IsFiniteSet(a..b) /\ Cardinality(a..b) = count BY <4>1, <4>2
      <4> QED BY <4>3 DEF a, b
    <3>4. Cardinality(Strike(w, n)) <= count BY <3>2, <3>3, FS_Subset
    <3> QED BY <2>0, <2>1, <3>4, <1>0
  <2>2. CASE m # n
    <3>1. ASSUME NEW i \in Strike(w, m) PROVE i \in Strike(voices, m)
      <4>1. i \in 1..Len(voices) + count /\ w[i].note = m /\ ~w[i].fading BY <1>6 DEF Strike
      <4>2. i \in 1..Len(voices) BY <2>2, <4>1, <1>4, <1>6
      <4>3. voices[i].note = m /\ ~voices[i].fading BY <4>1, <4>2, <1>2, <1>6
      <4> QED BY <4>2, <4>3, <1>1 DEF Strike
    <3>2. Strike(w, m) \in SUBSET Strike(voices, m) BY <3>1
    <3>3. /\ IsFiniteSet(Strike(voices, m)) /\ Cardinality(Strike(voices, m)) \in Nat
      BY <1>1, StrikeIsFinite
    <3>4. Cardinality(Strike(w, m)) <= Cardinality(Strike(voices, m))
      BY <3>2, <3>3, FS_Subset
    <3>5. Cardinality(Strike(voices, m)) <= MaxLayers BY DEF Answers
    <3> QED BY <2>0, <3>3, <3>4, <3>5, <1>0
  <2> QED BY <2>1, <2>2
<1>9. Answers(w, down \cup {n}, pedal) BY <1>6, <1>7, <1>8 DEF Answers
<1> QED BY <1>5, <1>9 DEF old, new
-----------------------------------------------------------------------------
(* The invariant.                                                             *)

PoolInv ==
  /\ Answers(voices, held, sustain) /\ Len(voices) <= MaxVoices
  /\ held \subseteq Notes /\ sustain \in BOOLEAN
  /\ HeldPedalIsKnown
  /\ ~created => ~sustain

LEMMA EmptyAnswers == ASSUME NEW down, NEW pedal PROVE Answers(<<>>, down, pedal)
<1>1. <<>> \in Seq(VoiceType) /\ DOMAIN <<>> = {} OBVIOUS
<1>2. \A n \in Notes : Strike(<<>>, n) = {} BY <1>1 DEF Strike
<1>3. MaxLayers \in Nat BY NativeAssumption DEF NativeAssumption
<1>4. \A n \in Notes : Cardinality(Strike(<<>>, n)) <= MaxLayers
  BY <1>2, <1>3, FS_EmptySet
<1> QED BY <1>1, <1>4 DEF Answers

LEMMA AtRestKeeps == AtRest => PoolInv'
<1> SUFFICES ASSUME AtRest PROVE PoolInv' OBVIOUS
<1>1. voices' = <<>> /\ held' = {} /\ sustain' = FALSE BY DEF AtRest
<1>2. Answers(voices', held', sustain') BY <1>1, EmptyAnswers
<1>3. Len(voices') <= MaxVoices
  BY <1>1, NativeAssumption DEF NativeAssumption
<1> QED BY <1>1, <1>2, <1>3 DEF PoolInv, HeldPedalIsKnown

LEMMA MidiKeeps == PoolInv /\ created /\ HandleMidi /\ UNCHANGED installed => PoolInv'
<1> SUFFICES ASSUME PoolInv, created, HandleMidi, UNCHANGED installed PROVE PoolInv'
  OBVIOUS
<1>0. /\ Answers(voices, held, sustain) /\ voices \in Seq(VoiceType)
      /\ \A n \in Notes : Cardinality(Strike(voices, n)) <= MaxLayers
      /\ Len(voices) \in Nat /\ Len(voices) <= MaxVoices
      /\ UNCHANGED <<created, library>>
  BY DEF PoolInv, Answers, installed
<1>1. \A i \in DOMAIN voices : voices[i].note \in Notes
  <2>1. \A i \in DOMAIN voices : voices[i] \in VoiceType BY <1>0
  <2> QED BY <2>1 DEF VoiceType
<1>2. UNCHANGED <<sustain, damper>> => HeldPedalIsKnown' /\ (~created' => ~sustain')
                                       /\ sustain' \in BOOLEAN
  BY <1>0 DEF PoolInv, HeldPedalIsKnown
<1>3. ASSUME NEW n \in Notes, NoteOn(n) PROVE PoolInv'
  <2>0. held' = held \cup {n} /\ UNCHANGED <<sustain, damper>> BY <1>3 DEF NoteOn
  <2>1. PICK count \in IF CanSound THEN 0..MaxLayers ELSE {0} :
          voices' = Newest([i \in DOMAIN voices |->
                              [voices[i] EXCEPT !.fading = @ \/ voices[i].note = n]]
                      \o [i \in 1..count |->
                            [note |-> n, released |-> FALSE, fading |-> FALSE]])
    BY <1>3 DEF NoteOn
  <2> DEFINE w == Faded(n) \o Layers(n, count)
  <2>2. count \in 0..MaxLayers BY NativeAssumption DEF NativeAssumption
  <2>3. Answers(w, held \cup {n}, sustain) BY <1>0, <2>2, StruckAnswers
  <2>4. voices' = Newest(w) BY <2>1 DEF Faded, Layers
  <2> HIDE DEF w
  <2>5. w \in Seq(VoiceType) BY <2>3 DEF Answers
  <2>6. Picks(voices', w) /\ Len(voices') <= MaxVoices BY <2>4, <2>5, NewestPicks
  <2>7. Answers(voices', held', sustain') BY <2>0, <2>3, <2>6, PicksAnswer
  <2> QED BY <1>2, <2>0, <2>6, <2>7 DEF PoolInv
<1>4. ASSUME NEW n \in Notes, NoteOff(n) PROVE PoolInv'
  <2>0. held' = held \ {n} /\ UNCHANGED <<sustain, damper>> BY <1>4 DEF NoteOff
  <2>1. CASE sustain
    <3>1. voices' = voices BY <1>4, <2>1 DEF NoteOff
    <3>2. Answers(voices', held', sustain') BY <1>0, <2>0, <2>1, <3>1 DEF Answers
    <3> QED BY <1>0, <1>2, <2>0, <3>1, <3>2 DEF PoolInv
  <2>2. CASE ~sustain
    <3>1. voices' = Released({n}) BY <1>4, <2>2 DEF NoteOff
    <3>2. \A i \in DOMAIN voices : \/ voices[i].released \/ voices[i].fading
                                   \/ voices[i].note \in held' \/ sustain'
                                   \/ voices[i].note \in {n}
      BY <1>0, <2>0 DEF Answers
    <3>3. Answers(voices', held', sustain') /\ Len(voices') = Len(voices)
      BY <1>0, <3>1, <3>2, ReleasedAnswers
    <3> QED BY <1>0, <1>2, <2>0, <3>3 DEF PoolInv
  <2> QED BY <2>1, <2>2
<1>5. ASSUME NEW down \in BOOLEAN, SetSustain(down)
      PROVE  /\ Answers(voices', held', sustain') /\ Len(voices') <= MaxVoices
             /\ held' \subseteq Notes /\ sustain' = down
  <2>0. held' = held /\ sustain' = down BY <1>5 DEF SetSustain
  <2>1. CASE sustain /\ ~down
    <3>1. voices' = Released(Notes \ held) BY <1>5, <2>1 DEF SetSustain
    <3>2. \A i \in DOMAIN voices : \/ voices[i].released \/ voices[i].fading
                                   \/ voices[i].note \in held' \/ sustain'
                                   \/ voices[i].note \in Notes \ held
      BY <1>1, <2>0
    <3>3. Answers(voices', held', sustain') /\ Len(voices') = Len(voices)
      BY <1>0, <3>1, <3>2, ReleasedAnswers
    <3> QED BY <1>0, <2>0, <3>3 DEF PoolInv
  <2>2. CASE ~ (sustain /\ ~down)
    <3>1. voices' = voices BY <1>5, <2>2 DEF SetSustain
    <3>2. Answers(voices', held', sustain') BY <1>0, <2>0, <2>2, <3>1 DEF Answers
    <3> QED BY <1>0, <2>0, <3>1, <3>2 DEF PoolInv
  <2> QED BY <2>1, <2>2
<1>6. ASSUME NEW down \in BOOLEAN, Damper(down) PROVE PoolInv'
  <2>1. damper' = [i \in DOMAIN library |-> down] /\ SetSustain(down) BY <1>6 DEF Damper
  <2>2. CASE down
    <3>1. HeldPedalIsKnown' BY <1>0, <2>1, <2>2 DEF HeldPedalIsKnown
    <3>2. ~created' => ~sustain' BY <1>0
    <3> QED BY <1>5, <2>1, <3>1, <3>2 DEF PoolInv
  <2>3. CASE ~down BY <1>5, <2>1, <2>3 DEF PoolInv, HeldPedalIsKnown
  <2> QED BY <2>2, <2>3
<1>7. ASSUME AllSoundOff PROVE PoolInv' BY <1>7, AtRestKeeps DEF AllSoundOff
<1>8. ASSUME ResetControllers PROVE PoolInv'
  BY <1>5, <1>8 DEF ResetControllers, PoolInv, HeldPedalIsKnown
<1>9. ASSUME AllNotesOff PROVE PoolInv'
  <2>0. held' = {} /\ UNCHANGED <<sustain, damper>> BY <1>9 DEF AllNotesOff
  <2>1. CASE sustain
    <3>1. voices' = voices BY <1>9, <2>1 DEF AllNotesOff
    <3>2. Answers(voices', held', sustain') BY <1>0, <2>0, <2>1, <3>1 DEF Answers
    <3> QED BY <1>0, <1>2, <2>0, <3>1, <3>2 DEF PoolInv
  <2>2. CASE ~sustain
    <3>1. voices' = Released(Notes) BY <1>9, <2>2 DEF AllNotesOff
    <3>2. Answers(voices', held', sustain') /\ Len(voices') = Len(voices)
      BY <1>0, <1>1, <3>1, ReleasedAnswers
    <3> QED BY <1>0, <1>2, <2>0, <3>2 DEF PoolInv
  <2> QED BY <2>1, <2>2
<1>10. ASSUME UNCHANGED <<playing, damper>> PROVE PoolInv'
  BY <1>0, <1>2, <1>10 DEF PoolInv, playing
<1> QED BY <1>3, <1>4, <1>6, <1>7, <1>8, <1>9, <1>10 DEF HandleMidi
-----------------------------------------------------------------------------
\* Nothing is processed, and nothing sounds, before create and after destroy.
Alive == (active => created) /\ (block.open => created)

LEMMA AliveStep == Alive /\ [Next]_vars => Alive'
<1> SUFFICES ASSUME Alive, [Next]_vars PROVE Alive'
  OBVIOUS
<1>1. UNCHANGED <<created, active, block>> => Alive' BY DEF Alive
<1>2. Create => Alive' BY DEF Create, Alive
<1>3. Destroy => Alive' BY DEF Destroy, Alive
<1>4. Activate \/ Deactivate \/ Reset \/ BeginBlock => Alive'
  BY DEF Activate, Deactivate, Reset, BeginBlock, Called, installed, Alive
<1>5. BlockParameter \/ BlockMidi \/ RenderFrame => Alive'
  BY DEF BlockParameter, BlockMidi, RenderFrame, Rendering, installed, Alive
<1>6. Return => Alive' BY DEF Return, installed, Alive
<1>7. ASSUME Next, ~ Create, ~ Destroy,
             ~ (Activate \/ Deactivate \/ Reset \/ BeginBlock),
             ~ (BlockParameter \/ BlockMidi \/ RenderFrame), ~ Return
      PROVE  UNCHANGED <<created, active, block>>
  BY <1>7 DEF Next, SetParameter, LoadPreset, LoadState, LoadLegacyState, installed
<1>8. UNCHANGED vars => UNCHANGED <<created, active, block>> BY DEF vars, installed
<1> QED BY <1>1, <1>2, <1>3, <1>4, <1>5, <1>6, <1>7, <1>8

LEMMA PoolStep == PoolInv /\ Alive /\ [Next]_vars => PoolInv'
<1> SUFFICES ASSUME PoolInv, Alive, [Next]_vars PROVE PoolInv'
  OBVIOUS
<1>1. UNCHANGED <<created, library, damper, playing>> => PoolInv'
  BY DEF PoolInv, HeldPedalIsKnown, playing
<1>2. ASSUME Create PROVE PoolInv'
  <2>1. ~created /\ created' /\ UNCHANGED playing BY <1>2 DEF Create
  <2> QED BY <2>1 DEF PoolInv, HeldPedalIsKnown, playing
<1>3. ASSUME Destroy \/ Activate \/ Deactivate \/ Reset PROVE PoolInv'
  BY <1>3, AtRestKeeps DEF Destroy, Activate, Deactivate, Reset
<1>4. ASSUME NEW id, SelectPreset(id) PROVE PoolInv'
  BY <1>4, AtRestKeeps DEF SelectPreset, SelectSfz, SelectInstrument
<1>5. ASSUME NEW id, LoadPreset(id) PROVE PoolInv'
  <2>1. CASE HasPreset(id) BY <1>4, <1>5, <2>1 DEF LoadPreset
  <2>2. CASE ~ HasPreset(id)
    BY <1>1, <1>5, <2>2 DEF LoadPreset, RefusePreset, installed
  <2> QED BY <2>1, <2>2
<1>6. ASSUME NEW s, LoadState(s) PROVE PoolInv' BY <1>4, <1>6 DEF LoadState
<1>7. ASSUME NEW s, LoadLegacyState(s) PROVE PoolInv'
  <2>1. CASE SelectPreset(s.id) BY <1>4, <2>1
  <2>2. CASE SelectInstrument(s.layer) BY <2>2, AtRestKeeps DEF SelectInstrument
  <2>3. CASE UNCHANGED playing BY <1>1, <1>7, <2>3 DEF LoadLegacyState, installed
  <2> QED BY <1>7, <2>1, <2>2, <2>3 DEF LoadLegacyState
<1>8. ASSUME BlockMidi PROVE PoolInv'
  BY <1>8, MidiKeeps DEF BlockMidi, Rendering, Alive
<1>9. ASSUME RenderFrame PROVE PoolInv'
  <2>0. UNCHANGED <<created, library, damper, held, sustain>>
    BY <1>9 DEF RenderFrame, installed
  <2>1. PICK ended \in SUBSET DOMAIN voices : voices' = SwapRemove(voices, ended)
    BY <1>9 DEF RenderFrame
  <2>2. voices \in Seq(VoiceType) BY DEF PoolInv, Answers
  <2>3. Picks(voices', voices) BY <2>1, <2>2, SwapRemovePicks
  <2>4. Answers(voices', held', sustain') BY <2>0, <2>3, PicksAnswer DEF PoolInv
  <2>5. Len(voices') <= MaxVoices
    <3>1. Len(voices) \in Nat /\ Len(voices) <= MaxVoices /\ MaxVoices \in Nat
      BY <2>2, NativeAssumption DEF PoolInv, NativeAssumption
    <3>2. Len(voices') \in 0..Len(voices) BY <2>3 DEF Picks
    <3> QED BY <3>1, <3>2
  <2> QED BY <2>0, <2>4, <2>5 DEF PoolInv, HeldPedalIsKnown
<1>10. ASSUME BeginBlock \/ BlockParameter \/ Return \/ \E value \in Gains : SetParameter(value)
       PROVE  PoolInv'
  BY <1>1, <1>10 DEF BeginBlock, BlockParameter, Return, SetParameter, installed
<1>11. UNCHANGED vars => PoolInv' BY <1>1 DEF vars, installed
<1> QED BY <1>2, <1>3, <1>5, <1>6, <1>7, <1>8, <1>9, <1>10, <1>11 DEF Next

LEMMA PoolFromInit == Init => PoolInv /\ Alive
<1> SUFFICES ASSUME Init PROVE PoolInv /\ Alive OBVIOUS
<1>1. Answers(voices, held, sustain) BY EmptyAnswers DEF Init
<1>2. Len(voices) <= MaxVoices BY NativeAssumption DEF Init, NativeAssumption
<1> QED BY <1>1, <1>2 DEF Init, PoolInv, Alive, HeldPedalIsKnown, Idle

\* No note hangs, a key struck again replaces its own voices, and a pedal that is held
\* is known to every instrument (NotesFollowTheKeys), whatever keys, pedals, presets,
\* states and frames came before, however full the pool was and whatever order its
\* removals left it in.
THEOREM KeysDecide == Spec => []NotesFollowTheKeys
<1>1. PoolInv => NotesFollowTheKeys
  BY DEF PoolInv, Answers, Strike, NotesFollowTheKeys, NoStuckNote, OneStrikePerNote
<1> QED BY <1>1, PoolFromInit, PoolStep, AliveStep, PTL DEF Spec
-----------------------------------------------------------------------------
(* Types.                                                                     *)

\* What TypeOK says beyond the pool and the block's record.
RestInv ==
  /\ created \in BOOLEAN /\ active \in BOOLEAN
  /\ catalog \subseteq DynamicCatalog(bank, library)
  /\ damper \in [DOMAIN library -> BOOLEAN]
  /\ gain \in Gains /\ selectedSfz \in 0..Len(library)
  /\ strayed \in {"no", "refused", "layer"}
  /\ block.frame <= block.frames /\ block.frames <= MaxFrames

\* What the host is told without the library it is also told with it.
LEMMA CatalogGrows ==
  ASSUME NEW b, NEW l
  PROVE  DynamicCatalog(b, <<>>) \subseteq DynamicCatalog(b, l)
BY DEF DynamicCatalog

\* select_preset and what it refuses.
LEMMA SelectionRests ==
  ASSUME RestInv, SelectionInv, UNCHANGED <<library, bank>>,
         NEW id, SelectPreset(id) \/ RefusePreset(id)
  PROVE  selectedSfz' \in 0..Len(library') /\ strayed' \in {"no", "refused", "layer"}
<1>1. IsList(library) /\ Len(library) \in Nat BY DEF SelectionInv, IsList
<1>2. IndexOf(library, id[2]) \in 0..Len(library)
  <2>1. CASE IndexOf(library, id[2]) # 0
    <3>1. IndexOf(library, id[2]) \in DOMAIN library BY <1>1, <2>1, IndexOfIsThere
    <3> QED BY <1>1, <3>1 DEF IsList
  <2> QED BY <1>1, <2>1
<1> QED BY <1>1, <1>2 DEF SelectPreset, SelectSfz, SelectInstrument, RefusePreset, RestInv

LEMMA RestStep ==
  RestInv /\ SelectionInv /\ BlockInv /\ [Next]_vars => RestInv'
<1> SUFFICES ASSUME RestInv, SelectionInv, BlockInv, [Next]_vars PROVE RestInv'
  OBVIOUS
<1> DEFINE Library == UNCHANGED <<installed, damper>>
           Host == UNCHANGED <<installed, damper, active, block>>
<1>0. /\ MaxFrames \in Nat \ {0} /\ DefaultGain \in Gains
  BY NativeAssumption DEF NativeAssumption
<1>1. ASSUME Create PROVE RestInv'
  <2>1. PICK b \in Banks \cup {<<>>}, root \in Roots, accepted \in BOOLEAN :
          /\ bank' = b /\ library' = Load(root)
          /\ damper' = [i \in DOMAIN Load(root) |-> Load(root)[i].damper]
          /\ catalog' = DynamicCatalog(b, IF accepted THEN Load(root) ELSE <<>>)
    BY <1>1 DEF Create
  <2>2. catalog' \subseteq DynamicCatalog(bank', library') BY <2>1, CatalogGrows
  <2>3. damper' \in [DOMAIN library' -> BOOLEAN] BY <2>1, NamesAssumption DEF NamesAssumption
  <2>4. Len(library') \in Nat BY <2>1, NamesAssumption DEF NamesAssumption
  <2>5. /\ created' = TRUE /\ selectedSfz' = 0
        /\ UNCHANGED <<active, gain, strayed, block>>
    BY <1>1 DEF Create, SelectionInv
  <2> QED BY <2>2, <2>3, <2>4, <2>5 DEF RestInv
<1>2. ASSUME Destroy PROVE RestInv'
  <2>1. /\ created' = FALSE /\ library' = <<>> /\ catalog' = {} /\ damper' = <<>>
        /\ active' = FALSE /\ gain' = DefaultGain /\ selectedSfz' = 0 /\ strayed' = "no"
        /\ UNCHANGED block
    BY <1>2 DEF Destroy
  <2>2. damper' \in [DOMAIN library' -> BOOLEAN] BY <2>1
  <2>3. 0 \in 0..Len(library') BY <2>1
  <2>4. catalog' \subseteq DynamicCatalog(bank', library') BY <2>1
  <2>5. block'.frame <= block'.frames /\ block'.frames <= MaxFrames BY <2>1 DEF RestInv
  <2> QED BY <1>0, <2>1, <2>2, <2>3, <2>4, <2>5 DEF RestInv
<1>3. ASSUME Activate \/ Deactivate \/ Reset PROVE RestInv'
  BY <1>3 DEF Activate, Deactivate, Reset, installed, selection, RestInv
<1>4. ASSUME NEW value \in Gains, SetParameter(value) PROVE RestInv'
  BY <1>4 DEF SetParameter, installed, selection, RestInv
<1>5. ASSUME Host, gain' \in Gains, selectedSfz' \in 0..Len(library'),
             strayed' \in {"no", "refused", "layer"}
      PROVE  RestInv'
  BY <1>5 DEF installed, RestInv
<1>6. ASSUME NEW id, LoadPreset(id) PROVE RestInv'
  <2>1. Host /\ gain' \in Gains BY <1>0, <1>6 DEF LoadPreset, RestInv
  <2>2. SelectPreset(id) \/ RefusePreset(id) BY <1>6 DEF LoadPreset
  <2>3. UNCHANGED <<library, bank>> BY <2>1 DEF installed
  <2> QED BY <1>5, <2>1, <2>2, <2>3, SelectionRests
<1>7. ASSUME NEW s, LoadState(s) PROVE RestInv'
  <2>1. Host /\ gain' \in Gains /\ SelectPreset(s.id) BY <1>7 DEF LoadState
  <2>2. UNCHANGED <<library, bank>> BY <2>1 DEF installed
  <2> QED BY <1>5, <2>1, <2>2, SelectionRests
<1>8. ASSUME NEW s, LoadLegacyState(s) PROVE RestInv'
  <2>1. Host /\ gain' \in Gains BY <1>8 DEF LoadLegacyState
  <2>2. UNCHANGED <<library, bank>> BY <2>1 DEF installed
  <2>3. CASE SelectPreset(s.id) BY <1>5, <2>1, <2>2, <2>3, SelectionRests
  <2>4. CASE /\ UNCHANGED selectedSfz
             /\ strayed' = (IF selectedSfz = 0 THEN "no" ELSE "layer")
    BY <1>5, <2>1, <2>2, <2>4 DEF RestInv
  <2>5. CASE UNCHANGED selection BY <1>5, <2>1, <2>2, <2>5 DEF RestInv, selection
  <2> QED BY <1>8, <2>3, <2>4, <2>5 DEF LoadLegacyState
<1>9. ASSUME BeginBlock PROVE RestInv'
  <2>1. PICK frames \in 1..MaxFrames, midi \in FrameLists, parameters \in FrameLists :
          block' = [open |-> TRUE, frame |-> 0, frames |-> frames,
                    midi |-> midi, parameters |-> parameters]
    BY <1>9 DEF BeginBlock
  <2>2. block'.frame = 0 /\ block'.frames = frames BY <2>1
  <2>3. 0 <= frames /\ frames <= MaxFrames BY <1>0
  <2> QED BY <1>9, <2>2, <2>3 DEF BeginBlock, installed, selection, RestInv
<1>10. Idle.frame <= Idle.frames /\ Idle.frames <= MaxFrames BY <1>0 DEF Idle
<1>11. ASSUME BlockParameter PROVE RestInv'
  <2>1. block'.frame <= block'.frames /\ block'.frames <= MaxFrames
    <3>1. CASE block' = [block EXCEPT !.parameters = Tail(@)]
      <4>1. block'.frame = block.frame /\ block'.frames = block.frames BY <3>1 DEF BlockInv
      <4> QED BY <4>1 DEF RestInv
    <3> QED BY <1>10, <1>11, <3>1 DEF BlockParameter
  <2> QED BY <1>11, <2>1 DEF BlockParameter, installed, selection, RestInv
<1>12. ASSUME BlockMidi PROVE RestInv'
  <2>1. block'.frame = block.frame /\ block'.frames = block.frames
    BY <1>12 DEF BlockMidi, BlockInv
  <2>2. UNCHANGED <<installed, active, gain, selection>> /\ HandleMidi
    BY <1>12 DEF BlockMidi
  <2>3. damper' \in [DOMAIN library -> BOOLEAN]
    <3>1. UNCHANGED damper \/ \E down \in BOOLEAN : damper' = [i \in DOMAIN library |-> down]
      BY <2>2 DEF HandleMidi, NoteOn, NoteOff, Damper, AllSoundOff, ResetControllers,
                  AllNotesOff
    <3> QED BY <3>1 DEF RestInv
  <2> QED BY <2>1, <2>2, <2>3 DEF installed, selection, RestInv
<1>13. ASSUME RenderFrame PROVE RestInv'
  <2>1. block'.frame = block.frame + 1 /\ block'.frames = block.frames
    BY <1>13 DEF RenderFrame, BlockInv
  <2>2. block.frame \in Nat /\ block.frames \in Nat /\ block.frame < block.frames
    BY <1>13 DEF RenderFrame, Rendering, BlockInv
  <2>3. block'.frame <= block'.frames BY <2>1, <2>2
  <2> QED BY <1>13, <2>1, <2>3 DEF RenderFrame, installed, selection, RestInv
<1>14. ASSUME Return PROVE RestInv'
  BY <1>10, <1>14 DEF Return, installed, selection, RestInv
<1>15. ASSUME UNCHANGED vars PROVE RestInv'
  BY <1>15 DEF vars, installed, selection, RestInv
<1> QED BY <1>1, <1>2, <1>3, <1>4, <1>6, <1>7, <1>8, <1>9, <1>11, <1>12, <1>13, <1>14, <1>15
        DEF Next

LEMMA RestFromInit == Init => RestInv /\ SelectionInv /\ BlockInv
<1> SUFFICES ASSUME Init PROVE RestInv /\ SelectionInv /\ BlockInv OBVIOUS
<1>1. BlockInv BY IdleOnTime DEF Init, BlockInv
<1>2. SelectionInv
  <2>1. ~ IsSfz(presetId) BY DlsNamesAreNotSfz DEF Init
  <2>2. IsList(library) BY DEF Init, IsList
  <2> QED BY <2>1, <2>2 DEF Init, SelectionInv, SelectionAgrees
<1>3. damper \in [DOMAIN library -> BOOLEAN] BY DEF Init
<1>4. RestInv
  <2>1. 0 \in 0..Len(library) BY DEF Init
  <2>2. catalog \subseteq DynamicCatalog(bank, library) BY DEF Init
  <2>3. block.frame <= block.frames /\ block.frames <= MaxFrames
    BY NativeAssumption DEF NativeAssumption, Init, Idle
  <2>4. /\ created \in BOOLEAN /\ active \in BOOLEAN /\ gain \in Gains
        /\ selectedSfz = 0 /\ strayed = "no"
    BY NativeAssumption DEF NativeAssumption, Init
  <2> QED BY <1>3, <2>1, <2>2, <2>3, <2>4 DEF RestInv
<1> QED BY <1>1, <1>2, <1>4

\* The instance is well formed (TypeOK): among the rest, that the pool never outgrows
\* MAX_VOICES, that the chosen SFZ instrument exists, and that nothing is in the host's
\* catalog that the bank and the library do not have.
THEOREM InstanceIsTyped == Spec => []TypeOK
<1>1. RestInv /\ PoolInv /\ Alive /\ BlockInv => TypeOK
  <2> SUFFICES ASSUME RestInv, PoolInv, Alive, BlockInv PROVE TypeOK OBVIOUS
  <2>1. /\ voices \in Seq([note : Notes, released : BOOLEAN, fading : BOOLEAN])
        /\ Len(voices) <= MaxVoices /\ held \subseteq Notes /\ sustain \in BOOLEAN
    BY DEF PoolInv, Answers, VoiceType
  <2>2. /\ block.open \in BOOLEAN /\ block.frame \in Nat /\ block.frames \in Nat
        /\ block.midi \in Seq(Nat) /\ block.parameters \in Seq(Nat)
    BY DEF BlockInv
  <2>3. block.frame \in 0..block.frames /\ block.frames \in 0..MaxFrames
    BY <2>2, NativeAssumption DEF NativeAssumption, RestInv
  <2> QED BY <2>1, <2>2, <2>3 DEF RestInv, Alive, TypeOK
<1> QED BY <1>1, RestFromInit, PoolFromInit, PoolStep, AliveStep, SelectionStep, BlockStep,
           RestStep, PTL DEF Spec
-----------------------------------------------------------------------------
(* Names.                                                                     *)

Slug(names, i) == IF names[i] = <<>> THEN <<"instrument">> ELSE names[i]
Alike(names, i) == {k \in 1..i : Slug(names, k) = Slug(names, i)}

IsSeq(s) == Len(s) \in Nat /\ s = [k \in 1..Len(s) |-> s[k]]

LEMMA SeqIs ==
  ASSUME NEW V, NEW s \in Seq(V)
  PROVE  IsSeq(s)
BY DEF IsSeq

\* A name with a word after it, and under a label.
Plus(s, w) == Append(s, w)
Under(label, name) == <<label>> \o name

LEMMA Appended ==
  ASSUME NEW s, IsSeq(s), NEW w
  PROVE  /\ Len(Plus(s, w)) = Len(s) + 1 /\ Plus(s, w)[Len(s) + 1] = w
         /\ \A k \in 1..Len(s) : Plus(s, w)[k] = s[k]
<1> DEFINE V == {s[k] : k \in 1..Len(s)} \cup {w}
<1>1. s \in [1..Len(s) -> V] /\ w \in V BY DEF IsSeq
<1> HIDE DEF V
<1>2. s \in Seq(V) BY <1>1 DEF IsSeq
<1> QED BY <1>1, <1>2 DEF Plus

LEMMA Labelled ==
  ASSUME NEW label, NEW name, IsSeq(name)
  PROVE  /\ IsSeq(Under(label, name)) /\ Len(Under(label, name)) = Len(name) + 1
         /\ \A k \in 1..Len(name) : (Under(label, name))[k + 1] = name[k]
<1> DEFINE V == {name[k] : k \in 1..Len(name)} \cup {label}
           s == Under(label, name)
<1>1. name \in [1..Len(name) -> V] /\ label \in V BY DEF IsSeq
<1> HIDE DEF V
<1>2. name \in Seq(V) /\ <<label>> \in Seq(V) BY <1>1 DEF IsSeq
<1>3. s \in Seq(V) /\ Len(s) = Len(name) + 1 /\ \A k \in 1..Len(name) : s[k + 1] = name[k]
  BY <1>2 DEF Under
<1>4. \A t \in Seq(V) : IsSeq(t) BY DEF IsSeq
<1> QED BY <1>3, <1>4

LEMMA AppendedApart ==
  ASSUME NEW s, NEW t, IsSeq(s), IsSeq(t), NEW v, NEW w, Plus(s, v) = Plus(t, w)
  PROVE  s = t /\ v = w
<1>1. Len(s) = Len(t) /\ Len(s) \in Nat
  <2>1. Len(s) + 1 = Len(t) + 1 BY Appended
  <2>2. Len(s) \in Nat /\ Len(t) \in Nat BY DEF IsSeq
  <2> QED BY <2>1, <2>2
<1>2. \A k \in 1..Len(s) : s[k] = t[k] BY <1>1, Appended
<1>3. s = [k \in 1..Len(s) |-> s[k]] /\ t = [k \in 1..Len(t) |-> t[k]] BY DEF IsSeq
<1>4. s = t BY <1>1, <1>2, <1>3
<1>5. v = w BY <1>1, Appended
<1> QED BY <1>4, <1>5

\* How often a slug has occurred is a number from 1 on, and grows.
LEMMA Occurrences ==
  ASSUME NEW names, NEW i \in Nat \ {0}
  PROVE  /\ Cardinality(Alike(names, i)) \in 1..i
         /\ \A j \in Nat : i < j /\ Slug(names, i) = Slug(names, j) =>
              Cardinality(Alike(names, i)) # Cardinality(Alike(names, j))
<1>1. ASSUME NEW n \in Nat
      PROVE  IsFiniteSet(Alike(names, n)) /\ Cardinality(Alike(names, n)) <= n
             /\ Cardinality(Alike(names, n)) \in Nat
  <2>1. IsFiniteSet(1..n) /\ Cardinality(1..n) = n BY FS_Interval
  <2>2. Alike(names, n) \subseteq 1..n BY DEF Alike
  <2>3. IsFiniteSet(Alike(names, n)) /\ Cardinality(Alike(names, n)) <= n
    BY <2>1, <2>2, FS_Subset
  <2> QED BY <2>3, FS_CardinalityType
<1>2. i \in Alike(names, i) BY DEF Alike
<1>3. Cardinality(Alike(names, i)) # 0 BY <1>1, <1>2, FS_EmptySet
<1>4. ASSUME NEW j \in Nat, i < j, Slug(names, i) = Slug(names, j)
      PROVE  Cardinality(Alike(names, i)) # Cardinality(Alike(names, j))
  <2>1. Alike(names, i) \subseteq Alike(names, j) BY <1>4 DEF Alike
  <2>2. j \in Alike(names, j) /\ j \notin Alike(names, i) BY <1>4 DEF Alike
  <2> QED BY <1>1, <2>1, <2>2, FS_Subset
<1> QED BY <1>1, <1>3, <1>4

\* Two instruments of one identifier: the slug of one is that of the other and a number.
LEMMA SharedIdentifiers ==
  ASSUME NEW names, NEW n \in Nat,
         \A k \in 1..n : IsSeq(names[k]) /\ names[k] # <<>>,
         \A k, m \in 1..n : ToString(k) = ToString(m) => k = m,
         NEW i \in 1..n, NEW j \in 1..n, i < j, UniqueId(names, i) = UniqueId(names, j)
  PROVE  \E m \in 2..n : \/ names[i] = Plus(names[j], ToString(m))
                         \/ names[j] = Plus(names[i], ToString(m))
<1> DEFINE ci == Cardinality(Alike(names, i))
           cj == Cardinality(Alike(names, j))
           li == Plus(names[i], ToString(ci))
           lj == Plus(names[j], ToString(cj))
<1>1. \A k \in 1..n : Slug(names, k) = names[k] BY DEF Slug
<1>2. ci \in 1..n /\ cj \in 1..n /\ (names[i] = names[j] => ci # cj)
  <2>1. i \in Nat \ {0} /\ j \in Nat \ {0} OBVIOUS
  <2>2. ci \in 1..i /\ cj \in 1..j /\ (Slug(names, i) = Slug(names, j) => ci # cj)
    BY <2>1, Occurrences
  <2> QED BY <1>1, <2>2
<1>3. (IF ci = 1 THEN names[i] ELSE li) = (IF cj = 1 THEN names[j] ELSE lj)
  <2>1. ASSUME NEW k \in 1..n
        PROVE  UniqueId(names, k) = IF Cardinality(Alike(names, k)) = 1 THEN Slug(names, k)
                                    ELSE Plus(Slug(names, k), ToString(Cardinality(Alike(names, k))))
    BY DEF UniqueId, Alike, Slug, Plus
  <2> QED BY <1>1, <2>1
<1>4. IsSeq(names[i]) /\ IsSeq(names[j]) OBVIOUS
<1> HIDE DEF ci, cj, li, lj
<1>5. CASE ci = 1 /\ cj = 1 BY <1>2, <1>3, <1>5
<1>6. CASE ci = 1 /\ cj # 1
  <2>1. cj \in 2..n BY <1>2, <1>6
  <2>2. names[i] = lj BY <1>3, <1>6
  <2> QED BY <2>1, <2>2 DEF lj
<1>7. CASE ci # 1 /\ cj = 1
  <2>1. ci \in 2..n BY <1>2, <1>7
  <2>2. names[j] = li BY <1>3, <1>7
  <2> QED BY <2>1, <2>2 DEF li
<1>8. CASE ci # 1 /\ cj # 1
  <2>1. li = lj BY <1>3, <1>8
  <2>2. names[i] = names[j] /\ ToString(ci) = ToString(cj)
    BY <1>4, <2>1, AppendedApart DEF li, lj
  <2> QED BY <1>2, <2>2
<1> QED BY <1>5, <1>6, <1>7, <1>8

\* Each instrument of a folder is reached under its own identifier, but for numbers.
LEMMA FoldersAreReachable ==
  ASSUME NEW root \in Roots, library = Load(root)
  PROVE  InstrumentsAreReachable
<1> DEFINE opened == SelectSeq(Found(root), LAMBDA f : f.file.opens)
           names == [i \in DOMAIN opened |-> Under(opened[i].library, opened[i].file.name)]
           n == Len(library)
<1>1. /\ n \in Nat /\ DOMAIN library = 1..n
      /\ \A i \in 1..n : library[i].name \in Seq(ToSet(library[i].name))
      /\ \A k, m \in 1..n : ToString(k) = ToString(m) => k = m
  BY NamesAssumption DEF NamesAssumption
<1>2. library = [i \in DOMAIN opened |->
                   [id |-> UniqueId(names, i), library |-> opened[i].library,
                    name |-> opened[i].file.name, damper |-> opened[i].file.damper]]
  BY DEF Load, Under
<1> HIDE DEF opened
<1>3. DOMAIN library = DOMAIN opened BY <1>2
<1>4. \A i \in 1..n : /\ library[i].id = UniqueId(names, i)
                      /\ names[i] = Under(library[i].library, library[i].name)
  BY <1>1, <1>2, <1>3
<1> HIDE DEF n, names
<1>5. \A i \in 1..n : IsSeq(library[i].name) BY <1>1, SeqIs
<1>6. ASSUME NEW label, NEW name, IsSeq(name), NEW s, s = Under(label, name)
      PROVE  /\ IsSeq(s) /\ s # <<>>
             /\ \A t, w : IsSeq(t) /\ t # <<>> /\ s = Plus(t, w) => 
                  name # <<>> /\ Last(name) = w
  <2>1. /\ IsSeq(s) /\ Len(s) = Len(name) + 1 /\ Len(name) \in Nat
        /\ \A k \in 1..Len(name) : s[k + 1] = name[k]
    BY <1>6, Labelled DEF IsSeq
  <2>2. ASSUME NEW t, IsSeq(t), NEW w, t # <<>>, s = Plus(t, w)
        PROVE  name # <<>> /\ Last(name) = w
    <3>1. Len(t) + 1 = Len(s) /\ s[Len(t) + 1] = w BY <2>2, Appended
    <3>2. Len(t) \in Nat /\ Len(t) # 0 BY <2>2 DEF IsSeq
    <3>3. Len(name) = Len(t) /\ Len(name) \in 1..Len(name) BY <2>1, <3>1, <3>2
    <3>4. name[Len(name)] = w BY <2>1, <3>1, <3>3
    <3> QED BY <3>2, <3>3, <3>4 DEF Last
  <2>3. s # <<>> BY <2>1
  <2> QED BY <2>1, <2>2, <2>3
<1>7. \A i \in 1..n : IsSeq(names[i]) /\ names[i] # <<>> BY <1>4, <1>5, <1>6
<1> DEFINE numbered(i) == /\ library[i].name # <<>>
                          /\ Last(library[i].name) \in {ToString(m) : m \in 2..n}
<1>8. ASSUME NEW i \in 1..n, NEW j \in 1..n, NEW m \in 2..n,
             names[i] = Plus(names[j], ToString(m))
      PROVE  numbered(i)
  <2>1. library[i].name # <<>> /\ Last(library[i].name) = ToString(m)
    BY <1>4, <1>5, <1>6, <1>7, <1>8
  <2> QED BY <2>1
<1>9. ASSUME NEW i \in 1..n, NEW j \in 1..n, i < j, library[i].id = library[j].id
      PROVE  numbered(i) \/ numbered(j)
  <2>1. UniqueId(names, i) = UniqueId(names, j) BY <1>4, <1>9
  <2>2. \E m \in 2..n : \/ names[i] = Plus(names[j], ToString(m))
                        \/ names[j] = Plus(names[i], ToString(m))
    <3>1. n \in Nat /\ \A k, m \in 1..n : ToString(k) = ToString(m) => k = m BY <1>1
    <3> QED BY <1>7, <1>9, <2>1, <3>1, SharedIdentifiers
  <2> QED BY <1>8, <2>2
<1>10. \A i, j \in 1..n : i # j => i < j \/ j < i BY <1>1
<1>11. \A i, j \in DOMAIN library :
         i # j /\ library[i].id = library[j].id => numbered(i) \/ numbered(j)
  BY <1>1, <1>9, <1>10
<1> QED BY <1>11 DEF InstrumentsAreReachable, n

NamesInv ==
  /\ library = <<>> \/ \E root \in Roots : library = Load(root)
  /\ HasPreset(presetId) \/ (bank = <<>> /\ presetId = DynamicPresetId(<<0, 0>>))
  /\ created /\ IsSfz(presetId) /\ strayed = "no" =>
       IndexOf(library, presetId[2]) = selectedSfz

LEMMA DlsPresetsExist ==
  ASSUME NEW pair, InBank(bank, pair)
  PROVE  HasPreset(DynamicPresetId(pair))
<1>1. PICK i \in DOMAIN bank : pair = <<bank[i].bank, bank[i].program>> BY DEF InBank
<1>2. IsDls(DynamicPresetId(pair)) /\ Pair(DynamicPresetId(pair)) = pair
  BY <1>1 DEF IsDls, DynamicPresetId, Pair
<1> QED BY <1>2 DEF HasPreset

LEMMA CatalogExists ==
  ASSUME IsList(library), NEW id \in DynamicCatalog(bank, library)
  PROVE  HasPreset(id)
<1>1. CASE \E i \in DOMAIN bank : id = DynamicPresetId(<<bank[i].bank, bank[i].program>>)
  BY <1>1, DlsPresetsExist DEF InBank
<1>2. CASE \E i \in DOMAIN library : id = SfzPresetId(library[i].id)
  <2>1. PICK i \in DOMAIN library : id = SfzPresetId(library[i].id) BY <1>2
  <2>2. IsSfz(id) /\ id[2] = library[i].id BY <2>1 DEF SfzPresetId, IsSfz
  <2>3. IndexOf(library, id[2]) \in DOMAIN library BY <2>2, IndexOfFinds
  <2>4. IndexOf(library, id[2]) # 0 BY <2>3 DEF IsList
  <2> QED BY <2>2, <2>4 DEF HasPreset
<1> QED BY <1>1, <1>2 DEF DynamicCatalog

\* The instrument chosen first is in the bank, unless there is none.
LEMMA DefaultExists ==
  ASSUME NEW b \in Banks \cup {<<>>}
  PROVE  InBank(b, DefaultSelection(b)) \/ (b = <<>> /\ DefaultSelection(b) = <<0, 0>>)
<1>1. CASE b = <<>> BY <1>1 DEF DefaultSelection
<1>2. CASE b # <<>> /\ InBank(b, <<0, 0>>) BY <1>2 DEF DefaultSelection
<1>3. CASE b # <<>> /\ ~ InBank(b, <<0, 0>>)
  <2> DEFINE melodic == {i \in DOMAIN b : ~b[i].drum}
             S == IF melodic # {} THEN melodic ELSE DOMAIN b
             chosen == CHOOSE i \in S : \A j \in S : i <= j
  <2>1. b \in Seq(ToSet(b)) BY <1>3, NamesAssumption DEF NamesAssumption
  <2>2. DOMAIN b \in SUBSET Nat /\ DOMAIN b # {}
    <3>1. IsSeq(b) BY <2>1, SeqIs
    <3>2. Len(b) # 0 BY <1>3, <3>1 DEF IsSeq
    <3> QED BY <3>1, <3>2 DEF IsSeq
  <2>3. S \in SUBSET Nat /\ S # {} /\ S \subseteq DOMAIN b BY <2>2
  <2>4. DefaultSelection(b) = <<b[chosen].bank, b[chosen].program>>
    BY <1>3 DEF DefaultSelection
  <2> HIDE DEF S
  <2>5. \E i \in S : \A j \in S : i <= j BY <2>3, LeastNatural
  <2>6. chosen \in S BY <2>5
  <2> HIDE DEF chosen
  <2> QED BY <2>3, <2>4, <2>6 DEF InBank
<1> QED BY <1>1, <1>2, <1>3

LEMMA SelectedPresetExists ==
  ASSUME NamesInv, created, UNCHANGED <<created, bank, library>>,
         NEW id, HasPreset(id), SelectPreset(id)
  PROVE  NamesInv'
<1>1. HasPreset(id) => HasPreset(id)' BY DEF HasPreset, InBank, IndexOf
<1>2. CASE IsSfz(id)
  <2>1. selectedSfz' = IndexOf(library, id[2]) /\ presetId' = id
    BY <1>2 DEF SelectPreset, SelectSfz
  <2>2. HasPreset(presetId)' BY <2>1 DEF HasPreset, InBank, IndexOf
  <2> QED BY <2>1, <2>2 DEF NamesInv
<1>3. CASE ~ IsSfz(id)
  <2>1. presetId' = DynamicPresetId(Pair(id)) BY <1>3 DEF SelectPreset, SelectInstrument
  <2>2. InBank(bank, Pair(id)) BY <1>3 DEF HasPreset
  <2>3. HasPreset(DynamicPresetId(Pair(id))) BY <2>2, DlsPresetsExist
  <2>4. HasPreset(presetId)' BY <2>1, <2>3 DEF HasPreset, InBank, IndexOf
  <2>5. ~ IsSfz(presetId') BY <2>1, DlsNamesAreNotSfz
  <2> QED BY <2>4, <2>5 DEF NamesInv
<1> QED BY <1>2, <1>3

LEMMA NamesStep == NamesInv /\ SelectionInv /\ [Next]_vars => NamesInv'
<1> SUFFICES ASSUME NamesInv, SelectionInv, [Next]_vars PROVE NamesInv'
  OBVIOUS
<1>1. ASSUME UNCHANGED <<created, bank, library, presetId, selectedSfz, strayed>>
      PROVE  NamesInv'
  BY <1>1 DEF NamesInv, HasPreset, InBank, IndexOf
<1>2. ASSUME Create PROVE NamesInv'
  <2>1. PICK b \in Banks \cup {<<>>}, root \in Roots :
          /\ bank' = b /\ library' = Load(root)
          /\ presetId' = DynamicPresetId(DefaultSelection(b))
    BY <1>2 DEF Create
  <2>2. InBank(b, DefaultSelection(b)) \/ (b = <<>> /\ DefaultSelection(b) = <<0, 0>>)
    BY DefaultExists
  <2>3. ASSUME InBank(b, DefaultSelection(b)) PROVE HasPreset(presetId)'
    <3> DEFINE pair == DefaultSelection(b)
    <3>1. PICK i \in DOMAIN b : pair = <<b[i].bank, b[i].program>> BY <2>3 DEF InBank
    <3> HIDE DEF pair
    <3>2. IsDls(DynamicPresetId(pair)) /\ Pair(DynamicPresetId(pair)) = pair
      BY <3>1 DEF IsDls, DynamicPresetId, Pair
    <3>3. presetId' = DynamicPresetId(pair) /\ InBank(b, pair) BY <2>1, <2>3 DEF pair
    <3> QED BY <2>1, <3>2, <3>3 DEF HasPreset, InBank
  <2>4. ~ IsSfz(presetId') BY <2>1, DlsNamesAreNotSfz
  <2> QED BY <2>1, <2>2, <2>3, <2>4 DEF NamesInv
<1>3. ASSUME Destroy PROVE NamesInv'
  <2>1. /\ ~created' /\ bank' = <<>> /\ library' = <<>>
        /\ presetId' = DynamicPresetId(<<0, 0>>)
    BY <1>3 DEF Destroy
  <2> QED BY <2>1 DEF NamesInv
<1>4. ASSUME NEW id, LoadPreset(id) PROVE NamesInv'
  <2>1. created /\ UNCHANGED <<created, bank, library>>
    BY <1>4 DEF LoadPreset, Called, installed
  <2>2. CASE HasPreset(id)
    <3>1. SelectPreset(id) BY <1>4, <2>2 DEF LoadPreset
    <3> QED BY <2>1, <2>2, <3>1, SelectedPresetExists
  <2>3. CASE ~ HasPreset(id)
    <3>1. RefusePreset(id) BY <1>4, <2>3 DEF LoadPreset
    <3>2. presetId' = presetId BY <3>1 DEF RefusePreset
    <3>3. \/ UNCHANGED <<selectedSfz, strayed>>
          \/ strayed' = IF IsSfz(presetId) THEN "refused" ELSE "no"
      BY <3>1 DEF RefusePreset
    <3>4. CASE UNCHANGED <<selectedSfz, strayed>> BY <1>1, <2>1, <3>2, <3>4
    <3>5. CASE strayed' = IF IsSfz(presetId) THEN "refused" ELSE "no"
      BY <2>1, <3>2, <3>5 DEF NamesInv, HasPreset, InBank, IndexOf
    <3> QED BY <3>3, <3>4, <3>5
  <2> QED BY <2>2, <2>3
<1>5. ASSUME NEW s, LoadState(s) PROVE NamesInv'
  <2>1. created /\ UNCHANGED <<created, bank, library>> /\ HasPreset(s.id) /\ SelectPreset(s.id)
    BY <1>5 DEF LoadState, Called, installed
  <2> QED BY <2>1, SelectedPresetExists
<1>6. ASSUME NEW s, LoadLegacyState(s) PROVE NamesInv'
  <2>1. created /\ UNCHANGED <<created, bank, library>>
    BY <1>6 DEF LoadLegacyState, Called, installed
  <2>2. CASE HasPreset(s.id)
    <3>1. SelectPreset(s.id) BY <1>6, <2>2 DEF LoadLegacyState
    <3> QED BY <2>1, <2>2, <3>1, SelectedPresetExists
  <2>3. CASE ~ HasPreset(s.id) /\ s.layer # <<>> /\ InBank(bank, s.layer)
    <3>1. presetId' = DynamicPresetId(s.layer)
      BY <1>6, <2>3 DEF LoadLegacyState, SelectInstrument
    <3>2. HasPreset(DynamicPresetId(s.layer)) BY <2>3, DlsPresetsExist
    <3>3. HasPreset(presetId)' BY <2>1, <3>1, <3>2 DEF HasPreset, InBank, IndexOf
    <3>4. ~ IsSfz(presetId') BY <3>1, DlsNamesAreNotSfz
    <3> QED BY <2>1, <3>3, <3>4 DEF NamesInv
  <2>4. CASE ~ HasPreset(s.id) /\ ~ (s.layer # <<>> /\ InBank(bank, s.layer))
    <3>1. UNCHANGED selection BY <1>6, <2>4 DEF LoadLegacyState
    <3> QED BY <1>1, <2>1, <3>1 DEF selection
  <2> QED BY <2>2, <2>3, <2>4
<1>7. ASSUME Next PROVE \/ Create \/ Destroy \/ \E id : LoadPreset(id)
                        \/ \E s : LoadState(s) \/ LoadLegacyState(s)
                        \/ UNCHANGED <<installed, selection>>
  BY <1>7 DEF Next, Activate, Deactivate, Reset, SetParameter, BeginBlock, BlockParameter,
              BlockMidi, RenderFrame, Return
<1>8. UNCHANGED <<installed, selection>> => NamesInv' BY <1>1 DEF installed, selection
<1>9. UNCHANGED vars => UNCHANGED <<installed, selection>> BY DEF vars
<1> QED BY <1>2, <1>3, <1>4, <1>5, <1>6, <1>7, <1>8, <1>9

\* The names the plugin gives out lead back to what they named (NamesResolve): a preset is
\* taken only after it was looked up, nothing it was looked up in changes while there is an
\* instance, and numbers keep the identifiers of a folder apart.
THEOREM NamesLeadBack == Spec => []NamesResolve
<1>1. Init => NamesInv /\ RestInv /\ SelectionInv /\ BlockInv
  BY RestFromInit DEF Init, NamesInv
<1>2. NamesInv /\ RestInv /\ SelectionInv => NamesResolve
  <2> SUFFICES ASSUME NamesInv, RestInv, SelectionInv PROVE NamesResolve OBVIOUS
  <2>1. \A id \in catalog : HasPreset(id) BY CatalogExists DEF RestInv, SelectionInv
  <2>2. SavedStateReloads
    BY <2>1 DEF NamesInv, RestInv, SavedStateReloads, Snapshot
  <2>3. InstrumentsAreReachable
    <3>1. CASE library = <<>> BY <3>1 DEF InstrumentsAreReachable
    <3> QED BY <3>1, FoldersAreReachable DEF NamesInv
  <2> QED BY <2>2, <2>3 DEF NamesResolve
<1> QED BY <1>1, <1>2, NamesStep, SelectionStep, BlockStep, RestStep, PTL DEF Spec
=============================================================================
