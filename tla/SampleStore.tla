---------------------------- MODULE SampleStore ----------------------------
(***************************************************************************)
(* crates/rf-soundfonts-engine/src/sample_store.rs and pcm_cache.rs: the   *)
(* instruments of a library load one after the other; each load_all shares *)
(* its samples among workers; each load_one trusts the cache beside the    *)
(* library or writes it anew under a partial name and renames it.          *)
(*                                                                         *)
(* Every file operation is a step.  A file is what its writes left in it:  *)
(* a header and blocks, each known by the wave it was taken from.  A       *)
(* crash, of the process or of the machine, may strike between any two     *)
(* steps; what was not synced is lost in part or whole.  Modification      *)
(* times are kept as what the code asks of them: `old` holds the sources   *)
(* modified since the file was last written.  A rename is taken to last.   *)
(***************************************************************************)
EXTENDS Integers, Sequences, FiniteSets

CONSTANTS
  Documents,    \* the library's instruments, in order: [root, default_path,
                \* samples], each a file name or a sequence of them
  Waves,        \* what a source may decode to
  Size,         \* blocks of frames in each wave
  Looped,       \* waves held whole: their loop, or a region's, needs it
  Preload,      \* PRELOAD_FRAMES, in blocks
  Parallelism,  \* available_parallelism
  Faults,       \* may a decode, a write, a sync, a rename or an open fail?
  LiveSources,  \* may a source be replaced while the library loads?
  None          \* no file, no header, no result

ASSUME SampleStoreAssumption ==
  /\ Documents \in Seq([root : Seq(STRING), default_path : Seq(STRING),
                       samples : Seq(Seq(STRING))])
  /\ Size \in [Waves -> Nat]
  /\ Looped \subseteq Waves
  /\ Preload \in Nat /\ Parallelism \in Nat \ {0}
  /\ Faults \in BOOLEAN /\ LiveSources \in BOOLEAN
  /\ None \notin Waves

VARIABLES
  source,   \* the library's files: the wave in each, or None
  cache,    \* the published cache files
  partial,  \* the files under their .pcm-partial names
  doc,      \* the instrument being loaded; 0 when no process runs
  job,      \* each worker: where load_one stands
  channel,  \* results sent and not received
  closed,   \* a failed result was received and the receiver dropped
  slots,    \* the samples received
  loaded    \* the samples of each instrument, None if it failed

files == <<source, cache, partial>>
load == <<channel, closed, slots, loaded>>
vars == <<files, doc, job, load>>

Smaller(a, b) == IF a < b THEN a ELSE b

(* A file name is its parts and their separators.  sample::resolve puts    *)
(* default_path before the sample's name, reads a backslash as a slash and *)
(* drops empty parts. *)
Resolve(root, default_path, relative) ==
  root \o SelectSeq(default_path \o relative,
                    LAMBDA part : part \notin {"/", "\\"})

(* A cache named after the file alone. *)
BareName(root, relative) == root \o <<relative[Len(relative)]>>

(* pcm_cache::cache_path under SampleStore::beside(root): the separators   *)
(* become underscores. *)
CachePath(root, relative) ==
  root \o [i \in DOMAIN relative |->
             IF relative[i] \in {"/", "\\", ":"} THEN "_" ELSE relative[i]]

Docs == DOMAIN Documents
SourceOf(d, k) ==
  Resolve(Documents[d].root, Documents[d].default_path, Documents[d].samples[k])
PathOf(d, k) == CachePath(Documents[d].root, Documents[d].samples[k])
Refs == UNION {{<<d, k>> : k \in DOMAIN Documents[d].samples} : d \in Docs}
Sources == {SourceOf(r[1], r[2]) : r \in Refs}
Paths == {PathOf(r[1], r[2]) : r \in Refs}
Naming(s) == {PathOf(r[1], r[2]) : r \in {q \in Refs : SourceOf(q[1], q[2]) = s}}

(* load_all starts min(parallelism, samples) workers, or works in its own  *)
(* thread when that is one. *)
Crew(d) == Smaller(Parallelism, Len(Documents[d].samples))
Workers == 1..Parallelism
Idle == [at |-> "done", k |-> 0, wave |-> None, fd |-> "closed", pos |-> 0,
         result |-> None]
Jobs(d) ==
  [w \in Workers |->
     IF d \in Docs /\ w <= Crew(d) THEN [Idle EXCEPT !.at = "check", !.k = w]
     ELSE Idle]
Unloaded(d) ==
  IF d \in Docs THEN [k \in DOMAIN Documents[d].samples |-> None] ELSE <<>>

Init ==
  /\ source \in [Sources -> Waves]
  /\ cache = [p \in Paths |-> None]
  /\ partial = [p \in Paths |-> None]
  /\ doc = 0 /\ job = Jobs(0)
  /\ channel = <<>> /\ closed = FALSE /\ slots = <<>>
  /\ loaded = [d \in Docs |-> None]
-----------------------------------------------------------------------------
(* load_one, step by step.                                                 *)

Src(w) == SourceOf(doc, job[w].k)
Path(w) == PathOf(doc, job[w].k)
At(w, at) == job[w].at = at
Goto(w, at) == job' = [job EXCEPT ![w].at = at]

(* A cache of any age will do. *)
CheckPresence(w) ==
  /\ At(w, "check")
  /\ Goto(w, IF cache[Path(w)] = None THEN "decode" ELSE "reuse")
  /\ UNCHANGED <<files, doc, load>>

(* A cache is never newer than its source. *)
CheckNothing(w) ==
  /\ At(w, "check")
  /\ Goto(w, IF source[Src(w)] # None THEN "decode" ELSE "reuse")
  /\ UNCHANGED <<files, doc, load>>

(* reusable_cache: the two modification times.  Without a source to        *)
(* compare with, an existing cache will do. *)
Check(w) ==
  /\ At(w, "check")
  /\ Goto(w, IF \/ cache[Path(w)] = None
                \/ source[Src(w)] # None /\ Src(w) \in cache[Path(w)].old
               THEN "decode" ELSE "reuse")
  /\ UNCHANGED <<files, doc, load>>

(* reusable_cache: the header, if it can be read. *)
HasHeader(p) == cache[p] # None /\ cache[p].header # None

Reuse(w) ==
  /\ At(w, "reuse")
  /\ job' = IF HasHeader(Path(w))
              THEN [job EXCEPT ![w].at = "open",
                               ![w].wave = cache[Path(w)].header]
              ELSE [job EXCEPT ![w].at = "decode"]
  /\ UNCHANGED <<files, doc, load>>

(* sample::load *)
Decode(w) ==
  /\ At(w, "decode") /\ source[Src(w)] # None
  /\ job' = [job EXCEPT ![w].at = "create", ![w].wave = source[Src(w)]]
  /\ UNCHANGED <<files, doc, load>>

Empty == [header |-> None, body |-> <<>>, synced |-> FALSE, old |-> {}]

(* A worker that writes where readers look. *)
CreateInPlace(w) ==
  /\ At(w, "create")
  /\ cache' = [cache EXCEPT ![Path(w)] = Empty]
  /\ partial' = [partial EXCEPT ![Path(w)] = Empty]
  /\ job' = [job EXCEPT ![w].at = "header", ![w].fd = "cache", ![w].pos = 0]
  /\ UNCHANGED <<source, doc, load>>

(* File::create(&temporary) truncates a file another worker may be writing. *)
Create(w) ==
  /\ At(w, "create")
  /\ partial' = [partial EXCEPT ![Path(w)] = Empty]
  /\ job' = [job EXCEPT ![w].at = "header", ![w].fd = "partial", ![w].pos = 0]
  /\ UNCHANGED <<source, cache, doc, load>>

(* A write goes to the open file, under whatever name it has by now. *)
Put(w, Written(_)) ==
  /\ partial' = IF job[w].fd = "partial"
                  THEN [partial EXCEPT ![Path(w)] = Written(@)] ELSE partial
  /\ cache' = IF job[w].fd = "cache"
                THEN [cache EXCEPT ![Path(w)] = Written(@)] ELSE cache

(* write_all(&prologue) *)
WriteHeader(w) ==
  /\ At(w, "header")
  /\ Put(w, LAMBDA f : [f EXCEPT !.header = job[w].wave, !.old = {},
                                 !.synced = FALSE])
  /\ Goto(w, "body")
  /\ UNCHANGED <<source, doc, load>>

(* A block at the writer's own offset; a file another worker truncated     *)
(* since has a hole before it. *)
Placed(body, pos, wave) ==
  [i \in 1..(IF pos < Len(body) THEN Len(body) ELSE pos + 1) |->
     IF i = pos + 1 THEN wave ELSE IF i <= Len(body) THEN body[i] ELSE None]

(* One block more than the wave has. *)
WriteOneMore(w) ==
  /\ At(w, "body") /\ job[w].pos <= Size[job[w].wave]
  /\ Put(w, LAMBDA f : [f EXCEPT !.body = Placed(@, job[w].pos, job[w].wave),
                                 !.old = {}, !.synced = FALSE])
  /\ job' = [job EXCEPT ![w].pos = @ + 1]
  /\ UNCHANGED <<source, doc, load>>

(* write_all(&block), for each block of the wave. *)
WriteBlock(w) ==
  /\ At(w, "body") /\ job[w].pos < Size[job[w].wave]
  /\ Put(w, LAMBDA f : [f EXCEPT !.body = Placed(@, job[w].pos, job[w].wave),
                                 !.old = {}, !.synced = FALSE])
  /\ job' = [job EXCEPT ![w].pos = @ + 1]
  /\ UNCHANGED <<source, doc, load>>

(* A file that is renamed without waiting for its data. *)
NoSync(w) ==
  /\ At(w, "body") /\ job[w].pos >= Size[job[w].wave]
  /\ job' = [job EXCEPT ![w].at = "rename", ![w].fd = "closed",
                         ![w].pos = 0]
  /\ UNCHANGED <<files, doc, load>>

(* sync_all, and the file is closed. *)
Sync(w) ==
  /\ At(w, "body") /\ job[w].pos >= Size[job[w].wave]
  /\ Put(w, LAMBDA f : [f EXCEPT !.synced = TRUE])
  /\ job' = [job EXCEPT ![w].at = "rename", ![w].fd = "closed",
                         ![w].pos = 0]
  /\ UNCHANGED <<source, doc, load>>

(* Files still open follow their new name, or lose the one they had. *)
Renamed(v, p) ==
  IF job[v].at \in {"header", "body"} /\ Path(v) = p
    THEN IF job[v].fd = "partial" THEN "cache" ELSE "gone"
    ELSE job[v].fd

Rename(w) ==
  /\ At(w, "rename") /\ partial[Path(w)] # None
  /\ cache' = [cache EXCEPT ![Path(w)] = partial[Path(w)]]
  /\ partial' = [partial EXCEPT ![Path(w)] = None]
  /\ job' = [v \in Workers |->
               [job[v] EXCEPT !.fd = Renamed(v, Path(w)),
                              !.at = IF v = w THEN "open" ELSE @]]
  /\ UNCHANGED <<source, doc, load>>

(* Whole if playback moves backwards through it, else the head. *)
Resident(wave) ==
  IF wave \in Looped THEN Size[wave] ELSE Smaller(Preload, Size[wave])

(* File::open, read_header or the header at hand, read_frames. *)
Header(w) ==
  IF cache[Path(w)].header = None THEN job[w].wave ELSE cache[Path(w)].header
Readable(w) ==
  cache[Path(w)] # None /\ Resident(Header(w)) <= Len(cache[Path(w)].body)

(* A read that starts one block late. *)
OpenLate(w) ==
  /\ At(w, "open") /\ Readable(w)
  /\ job' = [job EXCEPT ![w].at = "send", ![w].wave = None,
               ![w].result = [wave |-> Header(w),
                              head |-> SubSeq(cache[Path(w)].body, 2,
                                              Resident(Header(w)))]]
  /\ UNCHANGED <<files, doc, load>>

Open(w) ==
  /\ At(w, "open") /\ Readable(w)
  /\ job' = [job EXCEPT ![w].at = "send", ![w].wave = None,
               ![w].result = [wave |-> Header(w),
                              head |-> SubSeq(cache[Path(w)].body, 1,
                                              Resident(Header(w)))]]
  /\ UNCHANGED <<files, doc, load>>

(* Errors return at once and leave the partial file where it is: a source  *)
(* that is gone, a name another worker took, a file cut short; with Faults *)
(* any operation on a file may fail. *)
Fail(w) ==
  /\ \/ At(w, "decode") /\ source[Src(w)] = None
     \/ At(w, "rename") /\ partial[Path(w)] = None
     \/ At(w, "open") /\ ~Readable(w)
     \/ Faults /\ job[w].at \in {"decode", "create", "header", "body", "rename", "open"}
  /\ job' = [job EXCEPT ![w] = [Idle EXCEPT !.at = "send", !.k = job[w].k]]
  /\ UNCHANGED <<files, doc, load>>
-----------------------------------------------------------------------------
(* load_all.                                                               *)

(* The next sample of a worker's round-robin share. *)
NextJob(w) ==
  LET k == job[w].k + Crew(doc)
  IN IF k <= Len(Documents[doc].samples)
       THEN [Idle EXCEPT !.at = "check", !.k = k] ELSE Idle

(* sender.send fails once the receiver is dropped, and the worker returns; *)
(* a load in one thread stops at its first error. *)
Send(w) ==
  /\ At(w, "send")
  /\ channel' = IF closed THEN channel
                ELSE Append(channel, [k |-> job[w].k, result |-> job[w].result])
  /\ job' = [job EXCEPT ![w] =
               IF closed \/ (Crew(doc) = 1 /\ job[w].result = None) THEN Idle
               ELSE NextJob(w)]
  /\ UNCHANGED <<files, doc, closed, slots, loaded>>

(* slots[index] = Some(loaded?): the first failure drops the receiver. *)
Collect ==
  /\ channel # <<>> /\ ~closed
  /\ LET message == Head(channel)
     IN IF message.result = None
          THEN closed' = TRUE /\ channel' = <<>> /\ UNCHANGED slots
          ELSE /\ slots' = [slots EXCEPT ![message.k] = message.result]
               /\ channel' = Tail(channel)
               /\ UNCHANGED closed
  /\ UNCHANGED <<files, doc, job, loaded>>

(* A load that waits for every sample, failed or not. *)
FinishComplete ==
  /\ doc \in Docs
  /\ \A w \in Workers : At(w, "done")
  /\ channel = <<>>
  /\ \A k \in DOMAIN slots : slots[k] # None
  /\ loaded' = [loaded EXCEPT ![doc] = slots]
  /\ doc' = doc + 1 /\ job' = Jobs(doc + 1)
  /\ slots' = Unloaded(doc + 1) /\ closed' = FALSE
  /\ UNCHANGED <<files, channel>>

(* The scope joins its workers; an instrument that fails does not stop the *)
(* next one. *)
Finish ==
  /\ doc \in Docs
  /\ \A w \in Workers : At(w, "done")
  /\ channel = <<>>
  /\ loaded' = [loaded EXCEPT ![doc] =
                  IF closed \/ \E k \in DOMAIN slots : slots[k] = None
                    THEN None ELSE slots]
  /\ doc' = doc + 1 /\ job' = Jobs(doc + 1)
  /\ slots' = Unloaded(doc + 1) /\ closed' = FALSE
  /\ UNCHANGED <<files, channel>>
-----------------------------------------------------------------------------
(* The process and the world.                                              *)

(* SfzLibrary::load *)
Start ==
  /\ doc = 0
  /\ doc' = 1 /\ job' = Jobs(1) /\ slots' = Unloaded(1)
  /\ UNCHANGED <<files, channel, closed, loaded>>

(* What a crash leaves of a file: all of it if it was synced, else any     *)
(* beginning of it. *)
Remains(file) ==
  IF file = None \/ file.synced THEN {file}
  ELSE {[Empty EXCEPT !.synced = TRUE, !.old = file.old]} \cup
       {[file EXCEPT !.body = SubSeq(@, 1, n), !.synced = TRUE] :
          n \in 0..Len(file.body)}

(* The process ends, at its own time or at the worst. *)
Crash ==
  /\ doc > 0
  /\ cache' \in {f \in [Paths -> UNION {Remains(cache[p]) : p \in Paths}] :
                   \A p \in Paths : f[p] \in Remains(cache[p])}
  /\ partial' \in {f \in [Paths -> UNION {Remains(partial[p]) : p \in Paths}] :
                     \A p \in Paths : f[p] \in Remains(partial[p])}
  /\ doc' = 0 /\ job' = Jobs(0)
  /\ channel' = <<>> /\ closed' = FALSE /\ slots' = <<>>
  /\ loaded' = [d \in Docs |-> None]
  /\ UNCHANGED source

(* The library is replaced, re-exported or taken away: every file written  *)
(* before is now older than its source. *)
Outdated(file, p, s) ==
  IF file = None \/ p \notin Naming(s) THEN file
  ELSE [file EXCEPT !.old = @ \cup {s}]

Replace(s, wave) ==
  /\ LiveSources \/ doc \notin Docs
  /\ source' = [source EXCEPT ![s] = wave]
  /\ source' # source
  /\ cache' = [p \in Paths |-> Outdated(cache[p], p, s)]
  /\ partial' = [p \in Paths |-> Outdated(partial[p], p, s)]
  /\ UNCHANGED <<doc, job, load>>

Work(w) ==
  \/ Check(w) \/ Reuse(w) \/ Decode(w)
  \/ Create(w) \/ WriteHeader(w) \/ WriteBlock(w) \/ Sync(w) \/ Rename(w)
  \/ Open(w) \/ Fail(w) \/ Send(w)

Next ==
  \/ \E w \in Workers : Work(w)
  \/ Collect \/ Finish
  \/ Start \/ Crash
  \/ \E s \in Sources, wave \in Waves \cup {None} : Replace(s, wave)

Spec == Init /\ [][Next]_vars

(* Threads run and file operations return. *)
FairSpec ==
  /\ Spec
  /\ \A w \in Workers : WF_vars(Work(w))
  /\ WF_vars(Collect) /\ WF_vars(Finish)
-----------------------------------------------------------------------------
(* Properties.                                                             *)

(* The body of a file with n blocks of one wave. *)
Filled(wave, n) == [i \in 1..n |-> wave]
Whole(file) == file.body = Filled(file.header, Size[file.header])

(* Every variable has its type; no file is longer than its wave. *)
Files == [header : Waves \cup {None}, body : Seq(Waves \cup {None}),
          synced : BOOLEAN, old : SUBSET Sources]

(* No file is not an empty file. *)
ASSUME NoneAssumption == None \notin Files

Results == [wave : Waves, head : Seq(Waves \cup {None})]
JobStates ==
  [at : {"check", "reuse", "decode", "create", "header", "body", "rename",
         "open", "send", "done"},
   k : Nat, pos : Nat, wave : Waves \cup {None}, result : Results \cup {None},
   fd : {"closed", "partial", "cache", "gone"}]

TypeOK ==
  /\ source \in [Sources -> Waves \cup {None}]
  /\ cache \in [Paths -> Files \cup {None}]
  /\ partial \in [Paths -> Files \cup {None}]
  /\ \A p \in Paths : \A f \in {cache[p], partial[p]} :
       f # None /\ f.header # None => Len(f.body) <= Size[f.header]
  /\ doc \in 0..(Len(Documents) + 1)
  /\ job \in [Workers -> JobStates]
  /\ channel \in Seq([k : Nat, result : Results \cup {None}])
  /\ closed \in BOOLEAN
  /\ \A k \in DOMAIN slots : slots[k] \in Results \cup {None}

(* A cache that would be trusted holds one wave from its header to its     *)
(* last block, whatever crashed, failed or was left half written. *)
TrustedIsWhole ==
  \A p \in Paths : HasHeader(p) => Whole(cache[p])

(* The test of reusable_cache is enough: a cache that is not older than    *)
(* its source holds what the source holds now.  (Not so when a source is   *)
(* replaced while it is decoded: its cache is written later.) *)
Fresh ==
  \A r \in Refs :
    LET file == cache[PathOf(r[1], r[2])]
        s == SourceOf(r[1], r[2])
    IN file # None /\ source[s] # None /\ s \notin file.old =>
         file.header \in {source[s], None}

(* A load that succeeds gives every sample the audio its source has at     *)
(* that time: nothing from before a replacement, nothing of another file.  *)
LoadsAreTrue ==
  [][\A d \in Docs :
       loaded'[d] \notin {None, loaded[d]} =>
         \A k \in DOMAIN Documents[d].samples :
           source[SourceOf(d, k)] # None =>
             loaded'[d][k].wave = source[SourceOf(d, k)]]_vars

(* What streams after the head continues it: the cache of every loaded     *)
(* sample holds that sample whole, as long as the library is in use, and   *)
(* the head is its beginning. *)
Backed ==
  \A d \in Docs : loaded[d] # None =>
    \A k \in DOMAIN Documents[d].samples :
      LET sample == loaded[d][k]
          file == cache[PathOf(d, k)]
      IN /\ file # None /\ file.header = sample.wave /\ Whole(file)
         /\ sample.head = SubSeq(file.body, 1, Resident(sample.wave))

(* A sample is decoded on first sight of it and never again: never while   *)
(* a cache younger than the source exists. *)
DecodedOnce ==
  [][\A w \in Workers :
       job[w].at = "decode" /\ job'[w].at = "create" =>
         \/ ~HasHeader(Path(w))
         \/ Src(w) \in cache[Path(w)].old]_vars

(* A load always returns, whatever fails in it. *)
LoadEnds == doc \in Docs ~> doc \notin Docs
=============================================================================
