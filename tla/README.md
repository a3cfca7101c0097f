# rf-soundfonts in TLA+

TLA+ models of the rf-soundfonts engine and of the plugins built on it, checked
with TLC on small instances and, where it matters most, proved with TLAPS for
every value of the constants. Paths are relative to `src/`;
`E` abbreviates `crates/rf-soundfonts-engine/src`.

`PROJECT.json` holds the exact list: the runs, the line range behind each
definition (`map`), a mutated form of the code for each property, the findings,
the hazards and the theorems.

## 1. Inventory

### Engine: streaming a sample larger than memory

**Ring** (`E/spsc.rs`). State: `capacity + 1` slots, an atomic `write` and an
atomic `read` index, one zeroed slot left empty. Operations: `push`, `pop`,
`push_slice`, `pop_slice`, `clear`, `free_space`, `len`. One producer thread and
one consumer thread share it without a lock; each side publishes with a release
store and looks at the other with an acquire load, which may return an old
index. Hard: the interleaving of index loads, slot accesses and index stores,
wrap-around, a capacity that is not a power of two. Correct when the two threads
never touch one slot, what is popped is what was pushed, once and in order, and
room that was seen stays.

**Streamer** (`E/streamer.rs`, above line 400). State: a fixed array of slots (state,
ring, request, exhausted flag), a running flag; in the reader thread the open
files, a cursor. Operations: `claim`, `StreamReader::read` and its `Drop` on the
audio thread; the loop `run` on the reader thread; `Drop for Streamer`. Slots
pass between the threads by four states: free, claimed, active, releasing.
Hard: a claim is four separate stores; a voice may end at any moment, including
between two steps of the reader on its slot; files that do not open, reads that
fail; shutdown. Correct when a slot has one owner, a ring one consumer, a voice
hears its own sample without gap or repetition, each stream is served to its end,
each slot comes back and shutdown joins.

**Stream window** (`E/streamer.rs` from 400, with `Voice::interpolate_frame` and
`frame_at` of `E/lib.rs`). State: a buffer of frames that slides over a stream,
the index of its first frame. Operations: `frame`, `advance_to`. The voice asks
for two adjacent frames per output frame and moves on whether it was answered or
not. Hard: index arithmetic at the head's end, at the buffer's end and after
starvation. Correct when each answer is the frame asked for or silence.

**Voice** (`E/lib.rs`, Voice, Envelope, AmplitudeEnvelope). State: position,
loop, envelopes, fade, LFO. Operations: `from_wave`, `from_streamed`, `release`,
`fade_out`, `next_frame_modulated`. Sequential. Hard: a step longer than the loop, a
sample of which only the head is in memory, fades that overlap, an end fade timed by one
increment and played by another. Correct when it reads its own sample only, has faded when
its sample runs out, and ends.

**Sample store and PCM cache** (`E/sample_store.rs`, `E/pcm_cache.rs`). State:
a directory of cache files, each published by renaming a partial file; the
samples of one load. Operations: `load_all` with parallel workers, `load_one`,
`reusable_cache`, `clear`, `write`, `read_header`, `read_frames`. Hard: a crash
between any two file operations, several workers, a source replaced between two
loads or during one, names that map to one cache path. Correct when a cache that
is trusted is complete and belongs to its source.

**DLS bank** (`E/lib.rs` parsers), **SFZ instrument** (`E/sfz/`), **Kontakt readers**
(`E/nki/`, `E/kontakt5/`, `E/fastlz.rs`), **sample decoding** (`E/sample.rs`, `E/wav.rs`,
`E/flac.rs`, `E/smpl.rs`). Functions from bytes or text to structures. Hard: damaged
files, recursion and its limits, macros in force at a place of a document, inheritance
of opcodes, values in a tree read by flags, loop points against what is kept in memory.
Correct when a file means what its nesting says, what loads can be played, and the
rest is refused as a whole.

### Native plugin (`plugin/`)

State: banks, voices (at most 32), selected instrument, preset and SFZ, pitch
bend, wheel, sustain, gain, held notes, and one controller table per SFZ
instrument. Operations: the ABI's `create`, `destroy`, `activate`, `deactivate`,
`reset`, `set_parameter`, `process`, `state_bytes`, `load_state`, `load_preset`, and the
MIDI handlers; the scan of a library folder. The host calls it from one thread at a
time. Hard: long sequences of legal calls (selection, presets, pedal, states of four
versions), a block that fails half way, the pool at its limit, identifiers that
collide. Correct when no note hangs, the preset that is named is the one that sounds,
what was saved loads, and no event is lost.

### Portable plugin (`portable-plugin/src/`)

State: the resource being transferred, the SoundFont and the instrument bank, the
selected preset, the player with its voices per channel (at most 128), effects.
Operations: `prepare`, `reset`, `set_parameter`, `begin_resource`, `write_resource`,
`end_resource`, `write_preset_catalog`, `load_preset`, `process`. Hard: transfers that
are short, repeated or refused, a bank that replaces another under a selection, a
reload at another rate that fails, the order of events inside a block, choke groups.
Correct when what is installed is what was sent, what is offered exists, settings
survive every rebuild, and voices follow their channel's keys.

### Web surface (`portable-plugin/package/web/app.js`)

State: the current context, the pending requests with their timers, the library
list, the builder's preview. Operations: message handlers and clicks, each with
`await`s on the host. Hard: state read before an `await` and used after it,
late answers, timeouts, an audition loop that must keep up with the builder.

### Left aside

The legacy surface (a static page), the command-line tools (device and file
I/O around the same voices), build and packaging scripts, filters and reverb
(floating-point signal processing).

The parts interact by calls, except: audio thread and reader (slots, rings,
a condition variable), loader workers (a channel), surface and host (messages).

## 2. Plan

| # | Modules | What | State |
|---|---------|------|-------|
| 1 | `BoundedFifo`, `SpscRing` | the ring and what it promises | checked, proved |
| 2 | `StreamPool`, `Streamer` | the pool of streams and what it promises | checked, safety proved |
| 3 | `StreamWindow` | a voice's window on its stream | checked, proved |
| 4 | `SampleStore` | loading a library through the cache, with crashes | checked, safety proved |
| 5 | `SfzLibrary`, `NativePlugin` | the native plugin: library scan, voice pool, selection, presets, saved states, blocks | checked, proved |
| 6 | `InstrumentArchive`, `BankPlayer`, `PortablePlugin` | the portable plugin: archives, MIDI, transfers, presets, blocks | checked, proved |
| 7 | `Voice`, `SfzDocument`, `SfzInstrument`, `NkiInstrument`, `ResidentInstrument`, `DlsBank`, `Engine`, `EngineMeaning` | from a file to a sounding voice | checked, safety proved; of what documents mean, part proved |
| 8 | FastLZ and the kontakt5 containers, the delay line | bounded algorithms | not begun |

Abstract specifications: a bounded queue for the ring, a pool of gapless streams
for the streamer, a voice on its own for the engine. The documents have a reference meaning of their own instead: the nesting
of headers (`Regions`), the tree (`MapSaysWhatTheTreeSays`) and the layers of an RF instrument
(`MapSaysWhatTheInstrumentSays`), stated apart from the walk that reads them.
Composition follows the code: `Streamer` uses the ring as one step per transfer
because `SpscRing` implements `BoundedFifo`; `StreamWindow` uses a stream as
consecutive frames because `Streamer` implements `StreamPool`. `NativePlugin` extends
`SfzLibrary`; `PortablePlugin` extends `BankPlayer`, which extends `InstrumentArchive`;
`Engine` extends `Voice`, `DlsBank` and the chain `SfzDocument`, `SfzInstrument`,
`NkiInstrument`, `ResidentInstrument`, as each builds on the loader of the one before;
`EngineMeaning` extends `Engine` with the reference meanings, which are RECURSIVE operators, so
that `Engine` itself can be proved about.

Every safety property of the runs is proved but for a part of `DocumentsMeanWhatTheySay`: that
the walk over an SFZ document or a Kontakt tree gives what its nesting says needs an induction
over the document, which the provers at hand cannot do (section 5).

## 3. Modules and the code

**`SpscRing`** has the slots, both indices and each side's program counter with its
local copies. Every load, slot access and store is a step. An acquire load may
return any index between the last one seen and the current one, which is what
release and acquire allow on one variable written by one thread. The capacity is
`N - 1`. `MCSpscRing` sets the slices that are pushed.

**`Streamer`** has each slot's four fields, the voices' readers, the claim under way,
and the reader's loop with a program counter that stops between any two atomic
stores, locks and ring transfers. `Drop` may happen at any step when `EarlyDrop`
is TRUE; `Faults` says what may fail. The sleep and the condition variable are left
out: the reader naps with a timeout and never tests `pending`.

**`StreamPool`** says what voices are promised: start, take frames, end.

**`StreamWindow`** has the window, the index of its first frame, the cursor's whole
part and the last answer. The rest of the voice is `Advance(d)`: the cursor moves
by any number of whole frames an increment below `MaxAdvance` can give.

**`SampleStore`** has the library's source files, the published and the partial cache
files, and each worker's place in `load_one`; every file operation is a step. A file is a
header and a sequence of blocks, each known by the wave it came from; an open file keeps
being written under whatever name it has by then. Modification times are compared and never
read otherwise, so a file keeps the set of sources modified after it. A crash leaves
any beginning of a file that was not synced. `Replace` changes, removes or restores a
source.

**`SfzLibrary`** and **`NativePlugin`**. The library is the list `Library::load` makes of a
folder. Every ABI call is an action; `process` is begun, advanced event by event and frame
by frame, and returned, with nothing in between, since the host may not call into an open
block. A voice is its note and whether it is released or fading, and may end at any
frame: `swap_remove` then puts the last voice in its place, so the pool is no longer
ordered by age. `strayed` is a history variable: it records that one of two paths of the code
has parted the preset's name from its sound (section 6).

**`InstrumentArchive`**, **`BankPlayer`**, **`PortablePlugin`**. An archive is a set of entries with
paths; `Parse` is the library it yields or `Failed`; `UniqueIds` numbers repeated names map by
map; `Loads` says at which rate and size an instrument loads, `Without` what is left of a list
when places of it are dropped, in its order. `BankPlayer` has the voices in their order, keys and pedals per channel.
`PortablePlugin` has one action per entry point. The pieces of a transfer are
numbered, so that one that is lost or repeated can be seen; the host knows the file it
began, and no more. The synthesizer (rustysynth) is its volume and a program per channel.

**`Voice`**. Positions are counted in parts of a frame. Each frame picks an increment, which
stands for bend, pitch envelope and LFO. The amplitude envelope is its phase and the frames left; a fade is
the frames it has left. The time of the end fade, `DeclickParts`, is kept as it is for the threshold
(`NearEnd`) and rounded for the fade's length (`DeclickFrames`), as the code does: 220.5 and 221 frames
at 44.1 kHz. A fade loses whole steps of its level; what `f32` rounding leaves of them (about a millionth of
the level, for one more frame) is left out. `ranOut`, `hurried` and `cutShort` are history: the
sample ended before the voice was silent, the pitch was raised, another fade was asked for or the sample
is shorter than its end fade. `VoiceSpec` is a voice on its own, started by
`Begin` on any sample and envelope that `from_wave` accepts; the first part of the proofs is about it;
the theorem `EngineRunsAVoice` says that every voice `Engine` starts is one of its behaviours, and
`VoiceRunsItsCourse` has TLC check it together with its end.

**`SfzDocument`**, **`SfzInstrument`**. A file is a sequence of tokens; `Expand` is the preprocessor with its
macros and limits, `Parse` the walk over scopes, `OpenSfz` the regions with their gates, envelopes,
loops and what is kept in memory of each sample; a region keeps its place in the document, and one
without a sample has none. **`NkiInstrument`** walks the events of an
XML reader as `nki/document.rs` does, three times with flags; the events come as they are from a
constant. **`ResidentInstrument`** is the archive's
loader: RF, Kontakt and SFZ maps to regions held whole. **`DlsBank`** reads a file of
cells with the code's own bounds checks; `ParseChunks` gives for each span of the file the chunks
there, from those of the spans inside and behind. **`Engine`** opens one of these sources, plays keys on it
and follows one voice to its end. `KeysSoundWhereTold` and `LayersSoundAsSaid` say of an instrument
that is loaded that its keys are in the range the surface is told, and that an RF instrument's regions are its
layers. **`EngineMeaning`** has what documents mean: `Trees` gives each Kontakt document as a tree,
`Events` what a reader reports of it, and `MCEngine` hands the events of those trees to the engine.

In every module, a definition that is a changed form of the one that follows
(`ForgetReset` before `ClaimReset`) is a plausible bug of that code. The
specification does not use it; `PROJECT.json` "mutants" names the property that
breaks when it takes the place of the right one.

## 4. Runs

| Run | Shows | Bounds |
|-----|-------|--------|
| `spsc_ring` | the ring is a bounded queue, and no slot is ever shared | 5 slots, 2 values, batches of up to 3 (the doc comment's own size: not a power of two, a batch that wraps while the other side drains) |
| `streamer` | the pool keeps its promise; streams end, slots return, shutdown joins | 2 slots, 2 voices, 2 samples, rings of 2, samples of 4 with a head of 1: more frames than a ring, more streams than a pass serves |
| `streamer_early_drop` | with drops at any moment and files that fail to open or to read, one owner per slot, one consumer per ring, and what is heard is continuous | same, samples and voices symmetric |
| `streamer_leak` | violated: no slot is leaked | same |
| `streamer_stale_request` | violated: a voice hears its own sample | same |
| `stream_window` | answers are right, nothing is skipped, silence only when starved | head 3, 30 frames, ring 8, window 7, history 4, at most 2 per advance, lag 2: the window slides several times its length |
| `stream_window_gap` | violated: the answer is the frame asked for | same, lag 3: one more than the history survives |
| `sample_store` | what is trusted is whole and current, loads give the sources' audio, samples are decoded once, loads return | 2 instruments sharing 1 of 2 samples, 2 workers, waves of 1 and 2 blocks, one held whole; any number of crashes, failures and replacements |
| `sample_store_names` | violated: loads give the sources' audio | 2 instruments with different `default_path`s and one sample name |
| `native_plugin` | no note hangs, keys replace themselves, the pedal is known everywhere; name and sound agree; names and saved states lead back; events are on time | pool of 3, 2 notes (symmetric), up to 2 voices a key, blocks of up to 2 frames with 0 to 2 events in and out of order; with and without a bank; a library of repeated, broken, hidden and numbered files; states of versions 3 and 4, whole and broken |
| `portable_plugin` | voices follow keys and pedals per channel, choke groups stay shut, banks are as sent, offers exist, settings are heard, blocks are complete | 2 channels of which one is percussion, 2 notes, pool of 2, 6 files (3 archives, 2 SoundFonts, junk) of 1 or 2 pieces, 2 rates, 2 values of each setting |
| `engine` | documents mean what they say, what loads can be played, voices read their own sample, are faded but for one step when they run out, are started and moved as a voice on its own is, and end | 15 SFZ files with includes, macros and loops, among them one of exactly the size and depth allowed, one an item longer, one a level deeper and one whose include is missing; a DLS collection with every cell overwritten by each of 4 values, and cut at every length; 4 Kontakt trees; 4 RF instruments; samples of 3 to 6 frames in half-frame positions, heads of 4, increments up to 2.5 frames, fades of 1 and 3, an end fade of 2.5 frames, hence of 3 |

Properties are paired with a bug they catch, so that none holds by the shape of
its model alone. Some group conjuncts that fail together: `NotesFollowTheKeys` is
`NoStuckNote`, `OneStrikePerNote` and `HeldPedalIsKnown`; `NamesResolve` is `SavedStateReloads` and
`InstrumentsAreReachable`; `VoiceRunsItsCourse` is `VoiceSpec` and `VoiceEnds`; `OfferedPresetsExist` is `SelectionIsInTheBank` and `BanksLoadWhole`.

Why the bounds suffice. The pool of three in `native_plugin` is the least in which a voice can be
displaced while another has been moved by `swap_remove` in front of an older one. Two channels,
two notes and two voices let a channel's pedal, a choke and a displacement meet in `portable_plugin`; there the
constraint `Explored` plays notes in one setting only (no transfer under way, the default
rate, volume and control, no SoundFont installed before), because voices are touched by the other
calls only by `Silent`, which each of them is still checked for from that setting. In
`engine` the keys are played on the sources of `MCFollowed`; the others are opened and
compared with what they say.

Deadlock is not checked where the system may stop: the streamer after its
shutdown, a window at the end of its sample, the engine when what was opened has no
key to play.

**Fairness.** `WF(ReaderNext)`: the reader is a thread whose loop naps a bounded
time. `WF(ClaimNext)`: a claim is straight-line code. `SF` for each voice's reads:
the audio thread may be busy with claims, yet each block it renders reads each
sounding voice; a weaker assumption would let a voice be skipped for ever, which the
renderer never does. Nothing is assumed of claims, drops or shutdown. `SampleStore`:
`WF` for each worker, the collector and the join, which are threads that run on.
`Engine`: `WF` of the next frame of a voice, because both plugins render every voice they hold in every
frame of a block (`render_frame`, `LoadedInstrument::render`) and drop a voice only when
it has finished; nothing is assumed of keys, releases or fades.

**Two instances of the streamer.** `streamer` assumes that a voice outlives the
pick-up of its request (at most one pass of the reader). Without it two
properties are false (below), so `streamer_early_drop` checks what remains.

## 5. Proofs

Proved for every value of the constants, under the modules' ASSUMEs only:

* `SpscRing_proofs`: `TypeCorrect`, `SlotsAreNeverShared`, `ReportedRoomIsKept`.
  A copy of the other side's index may be old, so the invariant states distances:
  what the producer believes free is at most what is free, and grows only by the
  consumer's hand; the same for the consumer. Slots under access lie in those
  distances, which do not overlap.
  `RingImplementsFifo`: the queue is read off the slots between the indices; a push happens
  at the release store. The strengthening `DataInv` says that the slots written before that
  store already hold the batch and that the slots copied by a pop still match the queue's front.
* `Streamer_proofs`: `TypeCorrect`, `SlotsHaveOneOwner`, `RingsHaveOneConsumer`,
  for early drops too. `IInv` adds the order in which a claim's stores become visible
  and what the reader's program counter says about the slot it is at (a slot it
  is taking up is claimed or already releasing, a slot it closes is releasing).
* `Streamer_refinement`: `StreamsAreUnbroken`, for early drops and every fault; and
  `StreamerImplementsPool`, with `EarlyDrop = FALSE` and files that can be read once they are
  open, the instance of the run `streamer`. For the first, `FileOrder` says in which of the
  reader's places a slot may keep a file or frames, and `Heard` that what a voice has heard and
  what waits in its ring are one run of frames that ends where the slot's file stands (`Upto`).
  For the second a request waits only in a claimed slot without a file (`Asked`) and is that of the
  slot's voice, whose file is then its own sample's, all of it so far in the voice or the ring, and
  exhausted only at its end (`Served`); the reader does not take up a claim before its request is
  there (`ClaimUnseen`, `ReaderAnswers`). Each step of either thread then is a step of the pool or
  none.
* `StreamWindow_proofs`: `WindowIsBounded`, `AnswersAreRight`, `NothingIsSkipped`,
  `SilenceIsStarvation`, under `Survivable`: the lag and one advance fit the history.
  `IInv` adds that the window holds consecutive frames from `start_frame` on, where
  the cursor can be relative to it, and how much of the past is still there.
* `SampleStore_proofs`: `TypeCorrect`, `CachesAreWhole` and `NothingIsDecodedTwice`, under
  `DistinctNames`: no two samples of one instrument share a cache name (two that do are two
  writers of one partial file). `IInv` adds that the workers' round-robin shares are disjoint, so
  that each partial file has one writer; what that writer has put into it at each step; and that
  a published file is whole and synced, so that a crash takes nothing from it.
  `CachesAreFresh`, `LoadedSamplesAreBacked` and `LoadsGiveTheSources` also need `SteadySources`:
  samples of one cache name have one source, and no source is replaced during a load (both are
  needed, see section 6). `FInv` adds that what a worker is writing its source still holds, so
  that it is current at the rename; that a replacement between loads makes every cache of
  that source old; and that a sample on its way from a worker to the instrument agrees with its
  cache, whichever worker renames that cache next.
* `Engine_proofs`: first `FramesAreInTheSample` and `FadesToTheLastStep`, of `VoiceSpec`. A cursor past
  the loop comes back by a remainder, so it is below the loop's end whatever the increment. At its
  own pitch the voice always has room for the rest of its fade but for what the rounding
  added to it (`RoomToFade`), since the declick is begun at the first frame that is near enough to the end,
  when there is room for all of the time that was rounded (`FadeFits`). That lacks less than one
  step, or nothing where nothing was rounded up (`Shortfall`).
  `WhatLoadsPlays` is `LoadedInstrumentsPlay` for every file, document and sample. The invariant
  `Installed` says that what was opened is sound (`SoundLoaded`): the regions of a sampled instrument
  keep their loop and start where `from_wave` wants them (`SoundPart`), the regions of a collection
  play one of its waves and those have audio (`SoundBank`); and that a refused key is that of a
  region which starts past its audio. It holds because of each loader's own checks. For a
  collection they are followed through the file: a chunk lies in its container, so what is read of a
  span needs what is read of narrower spans only (`ChunksNeedNarrower`), which is why reading it
  is well defined (`ReadsUpToAny`, by a least width without a reading); every chunk found
  is a tree whose data are cells of the file (`TreeOfChunks`), and the parsers of waves, regions and
  instruments either find what they need in it or fail (`WaveIs`, `RegionIs`, `InstrumentIs`,
  `WavesAre`, `BankIs`). For a document, `LoopFromIs` gives a loop of numbers whatever the opcodes
  say, and `ReachableIs` what `loop_from`'s last test leaves of it; the zones of Kontakt and
  RF maps are followed event by event and zone by zone (`RunHolds`, by a least step without it).
  `EngineRunsAVoice`: the engine implements `VoiceSpec`, since a key on what is `Installed` starts a voice
  that `Begin` allows or none (`SampledStrike`, `CollectionStrike`) and no other step of the engine moves one. So
  `EveryVoiceReadsItsSample` and `EveryVoiceRunsOutFaded` hold of the engine, the form in which the run
  checks `VoiceReadsItsSample` and `RunsOutFaded`.
  `KeysSoundInTheRangeTold`: the instrument is what its document makes of it (`Linked`), a key's text
  is a note from 0 to 127 whether a number or a name (`KeysInRange`), and the least and greatest keys told
  bound every region's (`SummarySpans`, `CatalogSpans`). In an archive it needs every region to state its
  keys where the catalogue looks (section 6).
  `EveryLayerHasItsEnvelope`: however many zones have been taken, what was made of them is exactly
  their layers, each in a group that has its envelope (`Kept`); a later zone only adds groups at the end, so
  that the earlier ones keep theirs (`TakeZoneKeeps`).
  The constants' assumptions are those of `SampleAssumption` (a sample has a frame, a stated
  loop is two numbers), `ShelfAssumption` (a file of the archive is a sample) and `EngineAssumption` (files are
  cells, events are of the reader's three kinds, an RF zone has at most one envelope).
* `NativePlugin_proofs`: `EventsAreOnTime` and `NamesAndSoundAgree`. The first needs
  that a list whose neighbours are in order is in order (`Ordered`), for `event_slice`
  compares neighbours; its invariant adds that what is left of each list is due now or
  later. The second needs what makes up a selection: `selected`, the name and the SFZ
  index change together in `SelectInstrument` and `SelectSfz`, a refusal only clears the
  index, and an instrument is named by the identifier under which `index_of` found it.
  It holds of any folder whose scan is a list (`NamesAssumption`).
  `NamesLeadBack`: a saved state reloads to the same preset, and each instrument is reached by its
  identifier but for one whose name is another's with a number. The number `unique_id` appends
  is how often the name has occurred, which grows, so two names that get one identifier differ by a
  number (`SharedIdentifiers`); that names are sequences of words and no two numerals alike is
  in `NamesAssumption` too. `NamesInv` adds that the library is one a folder yields, or empty, that
  the preset named is one the plugin has, and that an SFZ preset's identifier leads to the
  instrument selected.
  `KeysDecide` and `InstanceIsTyped`. Making room and removing what
  has ended both leave a selection of the voices that were there, each at most once
  (`Picks`), and a selection keeps what keys and pedal promise (`PicksAnswer`). For the
  `swap_remove`s of a frame that rests on a count (`GapsAndMovers`): as many survivors
  stand behind the new end as there are gaps before it, so that each gap has the survivor
  of its rank. `PoolInv` adds that there is no pedal before `create`, since that is when
  a library comes without having been told of one.
* `PortablePlugin_proofs`: `TransfersAreWhole`, `BlocksReturnComplete`, `SettingsSound`.
  The pieces taken so far are numbered from one, and nothing but a transfer of full
  length becomes a bank. A round of `process` that dispatched nothing is at the boundary
  it rendered to with nothing due there; a boundary is the least of the end and the heads
  of both lists (`BoundaryIs`), so nothing is left and it is the end. A synthesizer that
  exists has the volume and plays the selection on every channel no message has changed,
  percussion through the offset that `apply_selection` takes off. Presets are pairs of
  numbers and `None` is neither a file nor a record (`PresetsAssumption`,
  `PortableAssumption`).
  `VoicesAnswerTheKeys`, `ChokedGroupsStayShut`, `PluginIsTyped`: the voices are a `Pool`, each
  following its key and pedal, and an older voice fading where a newer one shuts its group. What the
  cap and the end of voices leave of a pool are some of its voices in their order
  (`Keeps`), and a pool's promises hold of such a part; the order is that of the places left, each
  found by its rank (`NthInOrder`). The player is one of the players a bank gives, with one of its own
  instruments selected (`Fits`), under `MapsAssumption` and `PlayersAssumption`: a bank's maps
  in the order of names are a list of its maps, and `None` is no player.
  `OffersAreKept`: halving a catalog ends within it, because the numbers it leads through have
  a least one (`Halvings`); a slug finds a free number, because the numbers it may get outnumber
  the identifiers given before it (`FreeIdentifier`), so identifiers are distinct map by
  map (`Distinct`); and `OffersInv` adds that the regions that sound are those of the player.
  That both recursive functions are what their equations say is part of the proof (`FitIsWithin`,
  `IdsRun`).

Only model-checked: everything under fairness (`EveryStreamEnds`, `EverySlotReturns`,
`ShutdownJoins`, `LoadEnds`, and `VoiceEnds` in `VoiceRunsItsCourse`), which the prover does not do;
and, of `DocumentsMeanWhatTheySay`, that an SFZ document is refused for a missing include, its depth, its
size or a missing region and for nothing else (`Acceptable`), that its regions are those of its nesting
with the macros in force (`Regions`), that a Kontakt map is the tree's
(`MapSaysWhatTheTreeSays`), and that an RF instrument's layers come in their order
(`MapSaysWhatTheInstrumentSays`). The meaning on the right of each is a RECURSIVE operator over a
document or a concatenation of sequences, and that a pass over the document computes it takes an
induction over data. `KeysSoundWhereTold` and `LayersSoundAsSaid` in it are proved.

## 6. Findings

* `streamer_leak`: the reader loads CLAIMED, the voice drops and stores
  RELEASING, the reader stores ACTIVE over it. The slot stays active with no
  owner until the streamer ends.
* `streamer_stale_request`: a voice that drops before its request is taken leaves the
  request in the slot; the release path does not clear it. The next claim's store
  of CLAIMED lets the reader take the old request before the new one is written,
  and the new voice plays the old sample.
* `stream_window_gap`: when starvation lets the cursor run more than the history past
  the window, `advance_to` sets the window's first index to the cursor and goes on reading the
  stream where it was: from there on each index names an earlier frame.
* `sample_store_names`: the cache is named without `default_path`. Two instruments of one
  folder that differ in it and name their samples alike share a cache file, and the
  second one plays the first one's audio.

`sample_store` replaces sources only while no load runs. With `LiveSources = TRUE` its
configuration breaks `Fresh`: a source replaced between its decoding and the write of
its cache leaves a cache that is newer than the source and holds the old audio.

Three more places where the code does not do what its comments say are not runs of their own; the
properties are in the modules, and a change of a configuration shows each.

* `E/streamer.rs:384`: "a read that fails mid-note ends the note" (382-383). It marks the stream exhausted, but leaves the
  slot active and its file open: the reader's next pass may read again, and frames come after the end. They
  do continue those before it (`Unbroken`). `MCStreamer.cfg` with `Faults = {"read"}` and the one property `EndIsTheEnd`
  has a read fail, the voice drain its ring, and the next read succeed.
* `E/lib.rs:1255`: a fade as a sample runs out, "so its final frame is never a step" (19). At 44.1 kHz the fade starts
  at most 220.5 frames from the end and, rounded by `fade_out` (1201), lasts 221: a voice at its sample's own pitch and
  rate has 220 frames for it and runs out with 1/221 of its level. `RunsOutFaded` shows that it is never more than the last
  step, and none at a rate where nothing is rounded up. `MCEngine.cfg` with `RunsOutSilently` in its
  place has a sample of three frames run out with one step left.
* `E/lib.rs:1254`: "a sample that simply runs out must not cut mid-waveform" (1246). The fade is timed by the base
  increment, and bend, envelope and LFO move the cursor by another (1296). With the wheel up two
  semitones about a tenth of the level is left when the sample is cut. `MCEngine.cfg` with `Increments = {2, 3}`,
  `Bases = {2}` and `RunsOutFadedAtAnyPitch` in the place of `RunsOutFaded` leaves two steps of three.

Seen while modelling, and stated in the properties as the exceptions they are:

* `plugin/src/lib.rs:169` clears the selected SFZ instrument before a DLS preset is looked
  up; when it is refused, the plugin still names the SFZ preset and plays the DLS instrument selected before
  (`SelectionAgrees`, "refused").
* `plugin/src/lib.rs:1037-1071`: a version 3 state whose preset is gone selects its first layer's
  instrument and leaves the SFZ instrument selected, which goes on sounding ("layer").
* `plugin/src/sfz_library.rs:235-259`: the second "piano" is numbered `piano-2`; an instrument named
  "piano 2" gets the same identifier, and only the first of them is reached
  (`InstrumentsAreReachable`).
* `portable-plugin/src/lib.rs:540-596`: when the host's events are not in order, the position goes back to an earlier
  boundary and the frames from there on are rendered again, the voices running ahead by as much;
  the block is complete all the same.
* `E/sfz/instrument.rs:225` keeps a sample whole for `loop_end` only, while `loop_from` also reads
  `loopend`: such a region plays without its loop when only the head is kept (`ReachableLoop`).
* `E/sfz/parse.rs` drops a `<region>` without opcodes even when its group would give it a sample.
* A streamed voice without a free stream "plays from its resident head and stops there"
  (`E/lib.rs`, `from_streamed`): it falls silent there, and stays in the pool to the sample's length.
* A slower fade that is already under way when the sample nears its end is not replaced by the end fade, and a
  sample shorter than the end fade is cut before it is over (`cutShort`). A pitch that was raised is excused
  in `RunsOutFaded` (`hurried`), and is the third place above.
* `plugin/src/lib.rs:336`: a controller reset lifts the plugin's pedal but leaves the SFZ instruments' controllers
  as they are; `HeldPedalIsKnown` speaks of a pedal that is held only.
* `portable-plugin/src/nki_bank.rs:1431`: when an instrument cannot be loaded again at another rate, the
  selection stays without one; `SettingsAreHeard` speaks of an instrument that is loaded.
* A DLS region's own loop and unity note are not checked when the collection is read; the voice is refused
  when its key is pressed. A zone of an archive that starts past its audio is refused
  likewise (`LoadedInstrumentsPlay`).
* `E/nki/document.rs`: group envelopes are found by a group's position, LFOs and filters by the `index` it states.
  `file_ex2`, when present and empty, hides `file`.
* `portable-plugin/src/nki_bank.rs`: the branch that skips a map without zones is not reached, since both
  readers refuse such a map. The key range told of an archive's SFZ instrument counts only what
  regions state: a region that states no key plays all of them and is not counted, and one
  whose `key` is no note falls back to `lokey` and `hikey` when it is played (`E/sfz/instrument.rs`) but not when it is told
  (lines 1096-1119), so keys outside the range may sound. `KeysSoundWhereTold` asks for regions
  that state their keys (`States`).

## 7. Not modelled

* The decoders (hound, claxon), the synthesizer (rustysynth), inflation, JSON and XML lexing: libraries,
  modelled by what they give.
* Filters, delay and reverb (`nki_effects.rs`), gains, pans, tunings and LFO values: floating-point arithmetic.
* FastLZ and the kontakt5 containers: a byte loop and readers of fields at fixed offsets, whose only
  state is a cursor; `strip_length_prefix` and the scanning of characters into SFZ tokens.
* The web surfaces: DOM and promises of a browser, with a host whose side is not in the repository.
* The native plugin's surface requests, which only read; artwork and descriptions.
* Command lines, build and packaging: I/O.
