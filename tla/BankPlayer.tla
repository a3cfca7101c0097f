----------------------------- MODULE BankPlayer -----------------------------
(***************************************************************************)
(* portable-plugin/src/nki_bank.rs: the instrument an instrument bank has  *)
(* loaded and its voices (LoadedInstrument).                               *)
(*                                                                         *)
(* A voice is its channel, its note, the group of its region and what      *)
(* chokes it, and whether it was released and whether it fades; it may end *)
(* whenever frames are rendered.  Of the controllers only the damper is    *)
(* kept; velocity is part of the note.                                     *)
(***************************************************************************)
EXTENDS InstrumentArchive

CONSTANTS
  Channels, Notes,
  MaxVoices   \* MAX_VOICES

VARIABLES
  regions,  \* of the loaded instrument
  voices,   \* in the order they were started
  held,     \* <<channel, note>> pairs
  sustain   \* channels whose damper is down

sounding == <<voices, held, sustain>>

Silent == voices' = <<>> /\ held' = {} /\ sustain' = {}

\* The voices with those in S fading, or with those in S released.
Fade(S) == [i \in DOMAIN voices |-> [voices[i] EXCEPT !.fading = @ \/ i \in S]]
Release(S) == [i \in DOMAIN voices |-> [voices[i] EXCEPT !.released = @ \/ i \in S]]
Of(c) == {i \in DOMAIN voices : voices[i].channel = c}
OfNotes(c, S) == {i \in Of(c) : voices[i].note \in S}

\* A bug to catch: the group is compared with the group that chokes it.
TurnsOffBackwards(region, voice) == region.group # "none" /\ voice.offBy = region.group

\* A region chokes voices of the group that it is off by.
TurnsOff(region, voice) == region.offBy # "none" /\ voice.group = region.offBy

Answering(n) == {k \in DOMAIN regions : n \in regions[k].notes}

\* The voice that a region starts; a later answering region may choke it at once.
Strike(c, n, k) ==
  [channel |-> c, note |-> n, group |-> regions[k].group, offBy |-> regions[k].offBy,
   released |-> FALSE,
   fading |-> \E later \in Answering(n) : later > k /\ TurnsOff(regions[later], regions[k])]

\* A bug to catch: room is made one voice late.
NewestAndOne(s) == IF Len(s) <= MaxVoices + 1 THEN s
                   ELSE SubSeq(s, Len(s) - MaxVoices, Len(s))

Newest(s) == IF Len(s) <= MaxVoices THEN s
             ELSE SubSeq(s, Len(s) - MaxVoices + 1, Len(s))

\* note_on: the note's own voices fade, those that ended when they were released are
\* dropped, every region answers in turn, choking the channel's voices and starting its
\* own if it can be made, and the oldest make room.
NoteOn(c, n) ==
  /\ held' = held \cup {<<c, n>>}
  /\ LET choked == {i \in Of(c) : \E k \in Answering(n) : TurnsOff(regions[k], voices[i])}
         starting == {k \in Answering(n) : regions[k].sounds}
         struck == [j \in 1..Cardinality(starting) |-> Strike(c, n, Nth(starting, j))]
     IN \E ended \in SUBSET {i \in DOMAIN voices : voices[i].released} :
          voices' = Newest(Without(Fade(OfNotes(c, {n}) \cup choked), ended) \o struck)
  /\ UNCHANGED sustain

NoteOff(c, n) ==
  /\ held' = held \ {<<c, n>>}
  /\ voices' = IF c \in sustain THEN voices ELSE Release(OfNotes(c, {n}))
  /\ UNCHANGED sustain

\* A bug to catch: lifting one pedal forgets the others' keys.
LiftAll(c, down) ==
  /\ sustain' = IF down THEN sustain \cup {c} ELSE sustain \ {c}
  /\ voices' = IF c \in sustain /\ ~down
               THEN Release({i \in DOMAIN voices : <<c, voices[i].note>> \notin held})
               ELSE voices
  /\ UNCHANGED held

\* Controller 64: lifting the pedal releases what its channel no longer holds.
Damper(c, down) ==
  /\ sustain' = IF down THEN sustain \cup {c} ELSE sustain \ {c}
  /\ voices' = IF c \in sustain /\ ~down
               THEN Release(OfNotes(c, {n \in Notes : <<c, n>> \notin held}))
               ELSE voices
  /\ UNCHANGED held

\* Controller 120: the channel fades; its keys stay as they are.
AllSoundOff(c) == voices' = Fade(Of(c)) /\ UNCHANGED <<held, sustain>>

\* Controller 123: every key is let go and released, pedal or not.
AllNotesOff(c) ==
  /\ held' = {k \in held : k[1] # c}
  /\ voices' = Release(Of(c))
  /\ UNCHANGED sustain

\* dispatch_midi; bend, other controllers and unknown messages only shape the sound.
DispatchMidi ==
  \/ \E c \in Channels :
       \/ \E n \in Notes : NoteOn(c, n) \/ NoteOff(c, n)
       \/ \E down \in BOOLEAN : Damper(c, down)
       \/ AllSoundOff(c) \/ AllNotesOff(c)
  \/ UNCHANGED sounding

\* Frames are rendered; voices that have ended are dropped, the others keep their order.
RenderBank ==
  \E ended \in SUBSET DOMAIN voices :
    voices' = Without(voices, ended) /\ UNCHANGED <<held, sustain>>
-----------------------------------------------------------------------------
VoicesTypeOK ==
  /\ \A i \in DOMAIN voices : /\ voices[i].channel \in Channels /\ voices[i].note \in Notes
                              /\ voices[i].released \in BOOLEAN /\ voices[i].fading \in BOOLEAN
  /\ Len(voices) <= MaxVoices
  /\ held \subseteq Channels \X Notes /\ sustain \subseteq Channels

\* A voice that does not fade follows its key and its channel's pedal: never released
\* under a held key, never left sounding with the key up and no pedal, whatever the
\* other channels do.
VoicesFollowTheKeys ==
  \A i \in DOMAIN voices : ~voices[i].fading =>
    LET key == <<voices[i].channel, voices[i].note>> IN
    /\ key \in held => ~voices[i].released
    /\ key \notin held => voices[i].released \/ voices[i].channel \in sustain

\* A choke group stays shut: no voice sounds on beside a later one of its channel that
\* turns its group off, though the pool displaces voices and others end in between.
ChokedGroupsAreSilent ==
  \A i, j \in DOMAIN voices :
    /\ i < j /\ voices[i].channel = voices[j].channel
    /\ voices[j].offBy # "none" /\ voices[j].offBy = voices[i].group
    => voices[i].fading
=============================================================================
