------------------------- MODULE SampleStore_proofs -------------------------
(***************************************************************************)
(* Proofs about SampleStore for every library, crew and crash: as long as  *)
(* no two samples of one instrument share a cache name, a cache that would *)
(* be trusted holds one wave whole; and as long as samples of one cache    *)
(* name have one source, which nobody replaces during a load, it holds     *)
(* what that source holds, and so does every sample of a loaded instrument.*)
(*                                                                         *)
(* The argument: the workers' shares are disjoint, so each partial file    *)
(* has one writer; it is complete and synced when its writer gets to the   *)
(* rename; and nothing is ever written under a published name.  What it    *)
(* writes its source still holds at the rename, and a replacement between  *)
(* two loads makes every cache of that source old; so a sample read from a *)
(* cache that passed the test agrees with its source, on its way from the  *)
(* worker to the instrument and when another worker renames that cache.    *)
(***************************************************************************)
EXTENDS SampleStore, TLAPS

(* No two samples of one instrument have the same cache name. *)
DistinctNames ==
  \A d \in Docs : \A k, l \in DOMAIN Documents[d].samples :
    PathOf(d, k) = PathOf(d, l) => k = l

(* A file holds its header first, then the first blocks of that wave. *)
Sane(file) ==
  IF file.header = None THEN file.body = <<>>
  ELSE /\ Len(file.body) <= Size[file.header]
       /\ file.body = Filled(file.header, Len(file.body))

PartialSane == \A p \in Paths : partial[p] # None => Sane(partial[p])

Published ==
  \A p \in Paths : cache[p] # None =>
    cache[p].header \in Waves /\ Whole(cache[p]) /\ cache[p].synced

(* A worker at work has a sample of the instrument, in its own share. *)
Share(w) ==
  /\ doc \in Docs
  /\ w <= Crew(doc)
  /\ job[w].k \in DOMAIN Documents[doc].samples
  /\ \E n \in Nat : job[w].k = w + n * Crew(doc)

Shares == \A w \in Workers : job[w].at # "done" => Share(w)

(* What a writer has put into its file. *)
Writing(w) ==
  /\ job[w].at \in {"create", "header", "body", "rename"} => job[w].wave \in Waves
  /\ job[w].at \in {"header", "body"} => job[w].fd = "partial"
  /\ job[w].at \in {"header", "body", "rename"} => partial[Path(w)] \in Files
  /\ job[w].at = "header" =>
       job[w].pos = 0 /\ partial[Path(w)].body = <<>>
  /\ job[w].at = "body" =>
       /\ partial[Path(w)].header = job[w].wave
       /\ job[w].pos <= Size[job[w].wave]
       /\ partial[Path(w)].body = Filled(job[w].wave, job[w].pos)
  /\ job[w].at = "rename" =>
       /\ partial[Path(w)].header = job[w].wave
       /\ Whole(partial[Path(w)]) /\ partial[Path(w)].synced

Writers == \A w \in Workers : Writing(w)

Types ==
  /\ source \in [Sources -> Waves \cup {None}]
  /\ cache \in [Paths -> Files \cup {None}]
  /\ partial \in [Paths -> Files \cup {None}]
  /\ doc \in 0..(Len(Documents) + 1)
  /\ job \in [Workers -> JobStates]
  /\ channel \in Seq([k : Nat, result : Results \cup {None}])
  /\ closed \in BOOLEAN
  /\ \A k \in DOMAIN slots : slots[k] \in Results \cup {None}

IInv == Types /\ PartialSane /\ Published /\ Shares /\ Writers
-----------------------------------------------------------------------------
(* Facts about the constants, shares and bodies.                           *)

LEMMA Constants ==
  /\ Docs = 1..Len(Documents) /\ Len(Documents) \in Nat
  /\ \A d \in Docs : /\ Len(Documents[d].samples) \in Nat
                     /\ DOMAIN Documents[d].samples = 1..Len(Documents[d].samples)
  /\ Size \in [Waves -> Nat] /\ Parallelism \in Nat \ {0} /\ Preload \in Nat
  /\ Looped \subseteq Waves /\ None \notin Waves
  <1> USE SampleStoreAssumption
  <1>1. Docs = 1..Len(Documents) /\ Len(Documents) \in Nat
    BY DEF Docs
  <1>2. ASSUME NEW d \in Docs
        PROVE  /\ Len(Documents[d].samples) \in Nat
               /\ DOMAIN Documents[d].samples = 1..Len(Documents[d].samples)
    <2> DEFINE names == Seq(Seq(STRING))
               strings == Seq(STRING)
               instruments == [root : strings, default_path : strings,
                               samples : names]
    <2>1. Documents \in Seq(instruments)
      OBVIOUS
    <2> HIDE DEF instruments
    <2>2. Documents[d] \in instruments
      BY <2>1 DEF Docs
    <2> USE DEF instruments
    <2> HIDE DEF names, strings
    <2>3. Documents[d].samples \in names
      BY <2>2
    <2> QED  BY <2>3 DEF names
  <1> QED  BY <1>1, <1>2

LEMMA CrewSize ==
  ASSUME NEW d \in Docs
  PROVE  Crew(d) \in Nat /\ Crew(d) <= Parallelism /\ Crew(d) <= Len(Documents[d].samples)
  BY Constants DEF Crew, Smaller

LEMMA Multiples ==
  ASSUME NEW c \in Nat, NEW n \in Nat
  PROVE  n * c \in Nat /\ (n + 1) * c = n * c + c
  OBVIOUS

(* Round-robin shares do not meet. *)
LEMMA RoundRobin ==
  ASSUME NEW c \in Nat, NEW v \in 1..c, NEW w \in 1..c,
         NEW m \in Nat, NEW n \in Nat, v + m * c = w + n * c
  PROVE  v = w
  <1>1. ASSUME NEW i \in Nat, NEW j \in Nat, i < j
        PROVE  j * c >= i * c + c
    <2>1. j = (j - i - 1) + (i + 1) /\ j - i - 1 \in Nat
      BY <1>1
    <2>2. j * c = (j - i - 1) * c + (i + 1) * c
      BY <2>1
    <2>3. (j - i - 1) * c >= 0
      BY <2>1, Multiples
    <2> QED  BY <2>2, <2>3, Multiples
  <1>2. m * c \in Nat /\ n * c \in Nat
    BY Multiples
  <1>3. CASE m < n
    <2>1. n * c >= m * c + c
      BY <1>1, <1>3
    <2> QED  BY <2>1, <1>2
  <1>4. CASE n < m
    <2>1. m * c >= n * c + c
      BY <1>1, <1>4
    <2> QED  BY <2>1, <1>2
  <1> QED  BY <1>3, <1>4

(* Every worker at work has a path of its own. *)
LEMMA OwnPath ==
  ASSUME DistinctNames, Types, Shares,
         NEW v \in Workers, NEW w \in Workers,
         job[v].at # "done", job[w].at # "done", Path(v) = Path(w)
  PROVE  v = w
  <1>1. Share(v) /\ Share(w)
    BY DEF Shares
  <1>2. job[v].k = job[w].k
    BY <1>1 DEF DistinctNames, Share, Path
  <1>3. PICK m \in Nat : job[v].k = v + m * Crew(doc)
    BY <1>1 DEF Share
  <1>4. PICK n \in Nat : job[w].k = w + n * Crew(doc)
    BY <1>1 DEF Share
  <1>5. Crew(doc) \in Nat /\ v \in 1..Crew(doc) /\ w \in 1..Crew(doc)
    BY <1>1, CrewSize, Constants DEF Share, Workers
  <1> QED  BY <1>2, <1>3, <1>4, <1>5, RoundRobin

LEMMA KnownPath ==
  ASSUME NEW d \in Docs, NEW k \in DOMAIN Documents[d].samples
  PROVE  PathOf(d, k) \in Paths /\ SourceOf(d, k) \in Sources
  <1>1. <<d, k>> \in Refs
    BY DEF Refs
  <1> QED  BY <1>1 DEF Paths, Sources

LEMMA WorkerPath ==
  ASSUME Shares, NEW w \in Workers, job[w].at # "done"
  PROVE  Path(w) \in Paths /\ Src(w) \in Sources
  BY KnownPath DEF Shares, Share, Path, Src

LEMMA FilledSeq ==
  ASSUME NEW wave \in Waves, NEW n \in Nat
  PROVE  /\ Filled(wave, n) \in Seq(Waves \cup {None})
         /\ Len(Filled(wave, n)) = n
         /\ Filled(wave, 0) = <<>>
         /\ Placed(Filled(wave, n), n, wave) = Filled(wave, n + 1)
  <1>1. Filled(wave, n) \in [1..n -> Waves \cup {None}]
    BY DEF Filled
  <1>2. Filled(wave, n) \in Seq(Waves \cup {None}) /\ Len(Filled(wave, n)) = n
    BY <1>1
  <1>3. Filled(wave, 0) = <<>>
    <2>1. Filled(wave, 0) \in [1..0 -> Waves]
      BY DEF Filled
    <2>2. 1..0 = {}
      OBVIOUS
    <2> QED  BY <2>1, <2>2
  <1>4. Placed(Filled(wave, n), n, wave) = [i \in 1..(n + 1) |-> wave]
    BY <1>2 DEF Placed, Filled
  <1> QED  BY <1>2, <1>3, <1>4 DEF Filled

(* The beginning of a body is a body. *)
LEMMA FilledPrefix ==
  ASSUME NEW wave \in Waves, NEW n \in Nat, NEW m \in 0..n
  PROVE  SubSeq(Filled(wave, n), 1, m) = Filled(wave, m)
  BY FilledSeq DEF Filled
-----------------------------------------------------------------------------
(* What every step of a worker keeps.                                      *)

LEMMA EmptyFile == Empty \in Files /\ Empty.header = None /\ Empty.body = <<>>
  BY DEF Empty, Files

LEMMA IdleJob ==
  /\ Idle \in JobStates /\ Idle.at = "done" /\ Idle.fd = "closed"
  /\ Idle.result = None /\ Idle.k = 0 /\ Idle.pos = 0
  BY DEF Idle, JobStates

LEMMA FreshJob ==
  ASSUME NEW a \in {"check", "send"}, NEW n \in Nat
  PROVE  /\ [Idle EXCEPT !.at = a, !.k = n] \in JobStates
         /\ [Idle EXCEPT !.at = a, !.k = n].at = a
         /\ [Idle EXCEPT !.at = a, !.k = n].k = n
  BY IdleJob DEF JobStates

(* A worker's step on its own sample disturbs nobody else. *)
LEMMA OwnStep ==
  ASSUME DistinctNames, IInv, NEW w \in Workers, job[w].at # "done",
         doc' = doc, \A v \in Workers \ {w} : job'[v] = job[v],
         job'[w].at # "done" => job'[w].k = job[w].k,
         \A p \in Paths \ {Path(w)} : partial'[p] = partial[p],
         Writing(w)'
  PROVE  Shares' /\ Writers'
  <1>1. Shares'
    <2> SUFFICES ASSUME NEW v \in Workers, job'[v].at # "done"
                 PROVE  Share(v)'
      BY DEF Shares
    <2>1. job'[v].k = job[v].k /\ job[v].at # "done"
      OBVIOUS
    <2> QED  BY <2>1 DEF IInv, Shares, Share
  <1>2. Writers'
    <2> SUFFICES ASSUME NEW v \in Workers \ {w}
                 PROVE  Writing(v)'
      BY DEF Writers
    <2>1. Writing(v)
      BY DEF IInv, Writers
    <2>2. job'[v] = job[v]
      OBVIOUS
    <2>3. CASE job[v].at = "done"
      BY <2>2, <2>3 DEF Writing
    <2>4. CASE job[v].at # "done"
      <3>1. Path(v) # Path(w) /\ Path(v) \in Paths
        BY <2>4, OwnPath, WorkerPath DEF IInv
      <3>2. Path(v)' = Path(v) /\ partial'[Path(v)] = partial[Path(v)]
        BY <2>2, <3>1 DEF Path
      <3> HIDE DEF Path
      <3> QED  BY <2>1, <2>2, <3>2 DEF Writing, Whole, Filled
    <2> QED  BY <2>3, <2>4
  <1> QED  BY <1>1, <1>2

(* The steps that touch no file. *)
LEMMA ThinkingStep ==
  ASSUME DistinctNames, IInv, NEW w \in Workers, job[w].at # "done",
         UNCHANGED <<source, cache, partial, doc, closed, slots>>,
         \A v \in Workers \ {w} : job'[v] = job[v],
         job' \in [Workers -> JobStates],
         job'[w].at # "done" => job'[w].k = job[w].k,
         job'[w].at \notin {"header", "body", "rename"},
         job'[w].at = "create" => job'[w].wave \in Waves,
         channel' \in Seq([k : Nat, result : Results \cup {None}])
  PROVE  IInv'
  <1>1. Writing(w)'
    BY DEF Writing
  <1>2. Shares' /\ Writers'
    BY <1>1, OwnStep
  <1>3. Types'
    BY DEF IInv, Types
  <1>4. PartialSane' /\ Published'
    BY DEF IInv, PartialSane, Published, Sane, Whole, Filled
  <1> QED  BY <1>2, <1>3, <1>4 DEF IInv

LEMMA CheckStep ==
  ASSUME DistinctNames, IInv, NEW w \in Workers, Check(w)
  PROVE  IInv'
  <1>1. job \in [Workers -> JobStates] /\ job[w].at = "check"
    BY DEF IInv, Types, Check, At
  <1>2. PICK a \in {"decode", "reuse"} : job' = [job EXCEPT ![w].at = a]
    BY DEF Check, Goto
  <1>3. job' \in [Workers -> JobStates] /\ job'[w].at = a /\ job'[w].k = job[w].k
    BY <1>1, <1>2 DEF JobStates
  <1> QED  BY <1>1, <1>2, <1>3, ThinkingStep DEF Check, files, load, IInv, Types

LEMMA ReuseStep ==
  ASSUME DistinctNames, IInv, NEW w \in Workers, Reuse(w)
  PROVE  IInv'
  <1>1. job \in [Workers -> JobStates] /\ job[w].at = "reuse"
    BY DEF IInv, Types, Reuse, At
  <1>2. Path(w) \in Paths
    BY <1>1, WorkerPath DEF IInv
  <1>3. HasHeader(Path(w)) => cache[Path(w)].header \in Waves \cup {None}
    BY <1>2 DEF HasHeader, IInv, Types, Files
  <1>4. job' \in [Workers -> JobStates] /\ job'[w].at \in {"open", "decode"}
        /\ job'[w].k = job[w].k
    BY <1>1, <1>3 DEF JobStates, Reuse
  <1> QED  BY <1>1, <1>4, ThinkingStep DEF Reuse, files, load, IInv, Types

LEMMA DecodeStep ==
  ASSUME DistinctNames, IInv, NEW w \in Workers, Decode(w)
  PROVE  IInv'
  <1>1. job \in [Workers -> JobStates] /\ job[w].at = "decode"
    BY DEF IInv, Types, Decode, At
  <1>2. source[Src(w)] \in Waves
    BY <1>1, WorkerPath DEF IInv, Types, Decode
  <1>3. job' \in [Workers -> JobStates] /\ job'[w].at = "create"
        /\ job'[w].k = job[w].k /\ job'[w].wave \in Waves
    BY <1>1, <1>2 DEF JobStates, Decode
  <1> QED  BY <1>1, <1>3, ThinkingStep DEF Decode, files, load, IInv, Types

LEMMA OpenStep ==
  ASSUME DistinctNames, IInv, NEW w \in Workers, Open(w)
  PROVE  IInv'
  <1>1. job \in [Workers -> JobStates] /\ job[w].at = "open"
    BY DEF IInv, Types, Open, At
  <1>2. Path(w) \in Paths
    BY <1>1, WorkerPath DEF IInv
  <1>3. cache[Path(w)] \in Files /\ cache[Path(w)].header \in Waves
    BY <1>2 DEF IInv, Types, Published, Open, Readable
  <1>4. Header(w) \in Waves /\ Resident(Header(w)) \in Nat
        /\ Resident(Header(w)) <= Len(cache[Path(w)].body)
    <2>1. Header(w) \in Waves
      BY <1>3, Constants DEF Header
    <2>2. Resident(Header(w)) \in Nat
      BY <2>1, Constants DEF Resident, Smaller
    <2> QED  BY <2>1, <2>2 DEF Open, Readable
  <1> DEFINE head == SubSeq(cache[Path(w)].body, 1, Resident(Header(w)))
  <1>5. head \in Seq(Waves \cup {None})
    <2>1. cache[Path(w)].body \in Seq(Waves \cup {None})
      BY <1>3 DEF Files
    <2> QED  BY <2>1, <1>4
  <1>6. job' \in [Workers -> JobStates] /\ job'[w].at = "send"
        /\ job'[w].k = job[w].k
    <2>1. [wave |-> Header(w), head |-> head] \in Results
      BY <1>4, <1>5 DEF Results
    <2> HIDE DEF head
    <2>2. PICK r \in Results : r = [wave |-> Header(w), head |-> head]
      BY <2>1
    <2>3. job' = [job EXCEPT ![w].at = "send", ![w].wave = None, ![w].result = r]
      BY <2>2 DEF Open, head
    <2>4. job' = [job EXCEPT ![w] =
                    [job[w] EXCEPT !.at = "send", !.wave = None, !.result = r]]
      BY <1>1, <2>3
    <2>5. [job[w] EXCEPT !.at = "send", !.wave = None, !.result = r] \in JobStates
      BY <1>1 DEF JobStates
    <2>6. /\ [job[w] EXCEPT !.at = "send", !.wave = None, !.result = r].at = "send"
          /\ [job[w] EXCEPT !.at = "send", !.wave = None, !.result = r].k = job[w].k
      BY <1>1 DEF JobStates
    <2> QED  BY <1>1, <2>4, <2>5, <2>6
  <1> HIDE DEF head
  <1>7. \A v \in Workers \ {w} : job'[v] = job[v]
    BY <1>1 DEF Open
  <1> QED  BY <1>1, <1>6, <1>7, ThinkingStep DEF Open, files, load, IInv, Types

LEMMA FailStep ==
  ASSUME DistinctNames, IInv, NEW w \in Workers, Fail(w)
  PROVE  IInv'
  <1>1. job \in [Workers -> JobStates] /\ job[w].at # "done"
    BY DEF IInv, Types, Fail, At
  <1>2. job' \in [Workers -> JobStates] /\ job'[w].at = "send"
        /\ job'[w].k = job[w].k
    <2>1. job[w].k \in Nat
      BY <1>1 DEF JobStates
    <2>2. PICK j \in JobStates : j = [Idle EXCEPT !.at = "send", !.k = job[w].k]
      BY <2>1, FreshJob
    <2>3. j.at = "send" /\ j.k = job[w].k
      BY <2>1, <2>2, FreshJob
    <2>4. job' = [job EXCEPT ![w] = j]
      BY <2>2 DEF Fail
    <2>5. job' \in [Workers -> JobStates] /\ job'[w] = j
      BY <1>1, <2>4
    <2> QED  BY <2>3, <2>5
  <1>3. \A v \in Workers \ {w} : job'[v] = job[v]
    BY <1>1 DEF Fail
  <1> QED  BY <1>1, <1>2, <1>3, ThinkingStep DEF Fail, files, load, IInv, Types

LEMMA SendStep ==
  ASSUME DistinctNames, IInv, NEW w \in Workers, Send(w)
  PROVE  IInv'
  <1>1. job \in [Workers -> JobStates] /\ job[w].at = "send"
    BY DEF IInv, Types, Send, At
  <1>2. Share(w)
    BY <1>1 DEF IInv, Shares
  <1>3. Crew(doc) \in Nat /\ Len(Documents[doc].samples) \in Nat
        /\ DOMAIN Documents[doc].samples = 1..Len(Documents[doc].samples)
    BY <1>2, Constants, CrewSize DEF Share
  <1>4. PICK j \in {Idle, NextJob(w)} : job' = [job EXCEPT ![w] = j]
    BY DEF Send
  <1>5. job[w].k \in Nat /\ job[w].result \in Results \cup {None}
    BY <1>1 DEF JobStates
  <1>6. /\ j \in JobStates
        /\ j.at \in {"check", "done"}
        /\ j.at = "check" => /\ j.k = job[w].k + Crew(doc)
                             /\ j.k <= Len(Documents[doc].samples)
    <2>1. CASE j = Idle
      BY <2>1, IdleJob
    <2>2. CASE j = NextJob(w) /\ j # Idle
      <3> DEFINE next == job[w].k + Crew(doc)
      <3>1. next \in Nat
        BY <1>3, <1>5
      <3>2. next <= Len(Documents[doc].samples)
            /\ j = [Idle EXCEPT !.at = "check", !.k = next]
        BY <2>2 DEF NextJob
      <3> QED  BY <3>1, <3>2, FreshJob
    <2> QED  BY <1>4, <2>1, <2>2
  <1>7. job' \in [Workers -> JobStates] /\ job'[w] = j
        /\ \A v \in Workers \ {w} : job'[v] = job[v]
    BY <1>1, <1>4, <1>6
  <1>8. channel' \in Seq([k : Nat, result : Results \cup {None}])
    <2> DEFINE messages == [k : Nat, result : Results \cup {None}]
               message == [k |-> job[w].k, result |-> job[w].result]
    <2>1. message \in messages
      BY <1>5
    <2>2. channel \in Seq(messages)
      BY DEF IInv, Types
    <2>3. channel' = channel \/ channel' = Append(channel, message)
      BY DEF Send
    <2> HIDE DEF messages, message
    <2>4. channel' \in Seq(messages)
      BY <2>1, <2>2, <2>3
    <2> QED  BY <2>4 DEF messages
  <1>9. Shares'
    <2> SUFFICES ASSUME NEW v \in Workers, job'[v].at # "done"
                 PROVE  Share(v)'
      BY DEF Shares
    <2>1. CASE v = w
      <3>1. PICK n \in Nat : job[w].k = w + n * Crew(doc)
        BY <1>2 DEF Share
      <3>2. w \in Nat /\ n + 1 \in Nat /\ (n + 1) * Crew(doc) = n * Crew(doc) + Crew(doc)
            /\ n * Crew(doc) \in Nat
        BY <1>3, Multiples DEF Workers
      <3>3. job'[w].k = w + (n + 1) * Crew(doc)
        BY <1>3, <1>6, <1>7, <2>1, <3>1, <3>2
      <3>4. job'[w].k \in 1..Len(Documents[doc].samples)
        BY <1>2, <1>3, <1>5, <1>6, <1>7, <2>1 DEF Share
      <3>5. doc' = doc
        BY DEF Send
      <3> QED  BY <1>2, <1>3, <2>1, <3>2, <3>3, <3>4, <3>5 DEF Share
    <2>2. CASE v # w
      BY <1>7, <2>2 DEF IInv, Shares, Share, Send
    <2> QED  BY <2>1, <2>2
  <1>10. Writers'
    <2> SUFFICES ASSUME NEW v \in Workers
                 PROVE  Writing(v)'
      BY DEF Writers
    <2>1. CASE v = w
      BY <1>6, <1>7, <2>1 DEF Writing
    <2>2. CASE v # w
      <3>1. job'[v] = job[v] /\ UNCHANGED <<partial, doc>>
        BY <1>7, <2>2 DEF Send, files
      <3> QED  BY <3>1 DEF IInv, Writers, Writing, Path, Whole, Filled
    <2> QED  BY <2>1, <2>2
  <1>11. Types' /\ PartialSane' /\ Published'
    BY <1>7, <1>8 DEF Send, files, IInv, Types, PartialSane, Published, Sane, Whole, Filled
  <1> QED  BY <1>9, <1>10, <1>11 DEF IInv
-----------------------------------------------------------------------------
(* The steps that write: only the writer's partial file changes, and it    *)
(* stays sane. *)
LEMMA WritingStep ==
  ASSUME DistinctNames, IInv, NEW w \in Workers, job[w].at # "done",
         UNCHANGED <<source, cache, doc, channel, closed, slots>>,
         \A v \in Workers \ {w} : job'[v] = job[v],
         job' \in [Workers -> JobStates], job'[w].k = job[w].k,
         NEW file \in Files, Sane(file),
         partial' = [partial EXCEPT ![Path(w)] = file],
         Writing(w)'
  PROVE  IInv'
  <1>1. Path(w) \in Paths
    BY WorkerPath DEF IInv
  <1>2. partial \in [Paths -> Files \cup {None}]
    BY DEF IInv, Types
  <1>3. /\ partial' \in [Paths -> Files \cup {None}]
        /\ partial'[Path(w)] = file
        /\ \A p \in Paths \ {Path(w)} : partial'[p] = partial[p]
    BY <1>1, <1>2
  <1>4. Shares' /\ Writers'
    BY <1>3, OwnStep
  <1>5. Types'
    BY <1>3 DEF IInv, Types
  <1>6. PartialSane'
    <2> SUFFICES ASSUME NEW p \in Paths, partial'[p] # None
                 PROVE  Sane(partial'[p])
      BY DEF PartialSane, Sane, Filled
    <2>1. CASE p = Path(w)
      BY <1>3, <2>1
    <2>2. CASE p # Path(w)
      BY <1>3, <2>2 DEF IInv, PartialSane
    <2> QED  BY <2>1, <2>2
  <1>7. Published'
    BY DEF IInv, Published, Whole, Filled
  <1> QED  BY <1>4, <1>5, <1>6, <1>7 DEF IInv

LEMMA CreateStep ==
  ASSUME DistinctNames, IInv, NEW w \in Workers, Create(w)
  PROVE  IInv'
  <1>1. job \in [Workers -> JobStates] /\ job[w].at = "create"
    BY DEF IInv, Types, Create, At
  <1>2. /\ job' \in [Workers -> JobStates] /\ job'[w].at = "header"
        /\ job'[w].k = job[w].k /\ job'[w].pos = 0 /\ job'[w].fd = "partial"
        /\ job'[w].wave = job[w].wave
        /\ \A v \in Workers \ {w} : job'[v] = job[v]
    BY <1>1 DEF JobStates, Create
  <1>3. Path(w) \in Paths /\ job[w].wave \in Waves
    BY <1>1, WorkerPath DEF IInv, Writers, Writing
  <1>4. partial' = [partial EXCEPT ![Path(w)] = Empty] /\ Path(w)' = Path(w)
    BY <1>2 DEF Create, Path
  <1>5. partial'[Path(w)] = Empty
    BY <1>3, <1>4 DEF IInv, Types
  <1>6. Writing(w)'
    BY <1>2, <1>3, <1>4, <1>5, EmptyFile DEF Writing
  <1> QED
    BY <1>1, <1>2, <1>4, <1>6, EmptyFile, WritingStep DEF Create, load, Sane

(* A writer's file: its own partial file, with its header. *)
LEMMA OpenFile ==
  ASSUME IInv, NEW w \in Workers, job[w].at \in {"header", "body"}
  PROVE  /\ Path(w) \in Paths
         /\ job[w].fd = "partial" /\ job[w].wave \in Waves
         /\ partial[Path(w)] \in Files
         /\ job \in [Workers -> JobStates]
         /\ partial \in [Paths -> Files \cup {None}]
         /\ cache \in [Paths -> Files \cup {None}]
         /\ Size[job[w].wave] \in Nat /\ job[w].pos \in Nat
  <1>1. job[w].at # "done"
    OBVIOUS
  <1>2. Writing(w)
    BY DEF IInv, Writers
  <1>3. job \in [Workers -> JobStates]
    BY DEF IInv, Types
  <1> QED
    BY <1>1, <1>2, <1>3, WorkerPath, Constants DEF IInv, Types, Writing, JobStates

LEMMA WriteHeaderStep ==
  ASSUME DistinctNames, IInv, NEW w \in Workers, WriteHeader(w)
  PROVE  IInv'
  <1> DEFINE file == [partial[Path(w)] EXCEPT !.header = job[w].wave, !.old = {},
                                               !.synced = FALSE]
  <1>1. job[w].at = "header"
    BY DEF WriteHeader, At
  <1>2. Writing(w) /\ partial[Path(w)].body = <<>> /\ job[w].pos = 0
    BY <1>1 DEF IInv, Writers, Writing
  <1>3. /\ job' \in [Workers -> JobStates] /\ job'[w].at = "body"
        /\ job'[w].k = job[w].k /\ job'[w].pos = 0 /\ job'[w].fd = "partial"
        /\ job'[w].wave = job[w].wave
        /\ \A v \in Workers \ {w} : job'[v] = job[v]
    BY <1>1, <1>2, OpenFile DEF JobStates, WriteHeader, Goto
  <1>4. partial' = [partial EXCEPT ![Path(w)] = file]
        /\ UNCHANGED <<source, cache, doc, channel, closed, slots>>
    BY <1>1, OpenFile DEF WriteHeader, Put, load
  <1>5. file \in Files /\ file.header = job[w].wave /\ file.body = <<>>
    BY <1>1, <1>2, OpenFile DEF Files
  <1> HIDE DEF file
  <1>6. partial'[Path(w)] = file /\ Path(w)' = Path(w)
    BY <1>1, <1>3, <1>4, OpenFile DEF Path
  <1>7. Filled(job[w].wave, 0) = <<>> /\ 0 <= Size[job[w].wave] /\ job[w].wave \in Waves
    BY <1>1, OpenFile, FilledSeq
  <1>8. Sane(file)
    BY <1>5, <1>7 DEF Sane
  <1>9. Writing(w)'
    BY <1>3, <1>5, <1>6, <1>7 DEF Writing
  <1> QED  BY <1>1, <1>3, <1>4, <1>5, <1>8, <1>9, WritingStep

LEMMA WriteBlockStep ==
  ASSUME DistinctNames, IInv, NEW w \in Workers, WriteBlock(w)
  PROVE  IInv'
  <1> DEFINE body == Placed(partial[Path(w)].body, job[w].pos, job[w].wave)
             file == [partial[Path(w)] EXCEPT !.body = body, !.old = {},
                                               !.synced = FALSE]
  <1>1. job[w].at = "body" /\ job[w].pos < Size[job[w].wave]
    BY DEF WriteBlock, At
  <1>2. /\ partial[Path(w)].header = job[w].wave
        /\ partial[Path(w)].body = Filled(job[w].wave, job[w].pos)
    BY <1>1 DEF IInv, Writers, Writing
  <1>3. body = Filled(job[w].wave, job[w].pos + 1)
        /\ body \in Seq(Waves \cup {None}) /\ Len(body) = job[w].pos + 1
    <2>1. job[w].pos \in Nat /\ job[w].pos + 1 \in Nat /\ job[w].wave \in Waves
      BY <1>1, OpenFile
    <2>2. body = Filled(job[w].wave, job[w].pos + 1)
      BY <1>2, <2>1, FilledSeq
    <2> HIDE DEF body
    <2> QED  BY <2>1, <2>2, FilledSeq
  <1> HIDE DEF body
  <1>4. /\ job' \in [Workers -> JobStates] /\ job'[w].at = "body"
        /\ job'[w].k = job[w].k /\ job'[w].pos = job[w].pos + 1
        /\ job'[w].fd = "partial" /\ job'[w].wave = job[w].wave
        /\ \A v \in Workers \ {w} : job'[v] = job[v]
    BY <1>1, OpenFile DEF JobStates, WriteBlock
  <1>5. partial' = [partial EXCEPT ![Path(w)] = file]
        /\ UNCHANGED <<source, cache, doc, channel, closed, slots>>
    BY <1>1, OpenFile DEF WriteBlock, Put, load, body
  <1>6. file \in Files /\ file.header = job[w].wave /\ file.body = body
    BY <1>1, <1>2, <1>3, OpenFile DEF Files
  <1> HIDE DEF file
  <1>7. partial'[Path(w)] = file /\ Path(w)' = Path(w)
    BY <1>1, <1>4, <1>5, OpenFile DEF Path
  <1>8. Sane(file)
    BY <1>1, <1>3, <1>6, OpenFile, Constants DEF Sane
  <1>9. job[w].pos + 1 <= Size[job[w].wave] /\ job[w].wave \in Waves
    BY <1>1, OpenFile
  <1>10. Writing(w)'
    BY <1>3, <1>4, <1>6, <1>7, <1>9 DEF Writing
  <1> QED  BY <1>1, <1>4, <1>5, <1>6, <1>8, <1>10, WritingStep

LEMMA SyncStep ==
  ASSUME DistinctNames, IInv, NEW w \in Workers, Sync(w)
  PROVE  IInv'
  <1> DEFINE file == [partial[Path(w)] EXCEPT !.synced = TRUE]
  <1>1. job[w].at = "body" /\ job[w].pos >= Size[job[w].wave]
    BY DEF Sync, At
  <1>2. /\ partial[Path(w)].header = job[w].wave
        /\ partial[Path(w)].body = Filled(job[w].wave, job[w].pos)
        /\ job[w].pos <= Size[job[w].wave]
    BY <1>1 DEF IInv, Writers, Writing
  <1>3. job[w].pos = Size[job[w].wave]
    BY <1>1, <1>2, OpenFile
  <1>4. /\ job' \in [Workers -> JobStates] /\ job'[w].at = "rename"
        /\ job'[w].k = job[w].k /\ job'[w].wave = job[w].wave
        /\ \A v \in Workers \ {w} : job'[v] = job[v]
    BY <1>1, OpenFile DEF JobStates, Sync
  <1>5. partial' = [partial EXCEPT ![Path(w)] = file]
        /\ UNCHANGED <<source, cache, doc, channel, closed, slots>>
    BY <1>1, OpenFile DEF Sync, Put, load
  <1>6. file \in Files /\ file.header = job[w].wave /\ file.synced
        /\ file.body = Filled(job[w].wave, Size[job[w].wave])
    BY <1>1, <1>2, <1>3, OpenFile DEF Files
  <1> HIDE DEF file
  <1>7. partial'[Path(w)] = file /\ Path(w)' = Path(w)
    BY <1>1, <1>4, <1>5, OpenFile DEF Path
  <1>8. Len(file.body) = Size[job[w].wave] /\ job[w].wave \in Waves
    BY <1>1, <1>6, OpenFile, FilledSeq
  <1>9. Sane(file)
    BY <1>1, <1>6, <1>8, OpenFile, Constants DEF Sane
  <1>10. Writing(w)'
    BY <1>4, <1>6, <1>7, <1>8 DEF Writing, Whole
  <1> QED  BY <1>1, <1>4, <1>5, <1>6, <1>9, <1>10, WritingStep

(* The published file is the one its writer completed. *)
LEMMA RenameStep ==
  ASSUME DistinctNames, IInv, NEW w \in Workers, Rename(w)
  PROVE  IInv'
  <1> DEFINE file == partial[Path(w)]
  <1>1. job[w].at = "rename" /\ job \in [Workers -> JobStates]
    BY DEF Rename, At, IInv, Types
  <1>2. Path(w) \in Paths
    BY <1>1, WorkerPath DEF IInv
  <1>3. /\ file \in Files /\ file.header = job[w].wave /\ job[w].wave \in Waves
        /\ Whole(file) /\ file.synced
    BY <1>1 DEF IInv, Writers, Writing
  <1>4. \A v \in Workers \ {w} : job'[v] = job[v]
    <2> SUFFICES ASSUME NEW v \in Workers \ {w}
                 PROVE  job'[v] = job[v]
      OBVIOUS
    <2>1. Renamed(v, Path(w)) = job[v].fd
      <3>1. CASE job[v].at \in {"header", "body"}
        <4>1. Path(v) # Path(w)
          BY <1>1, <3>1, OwnPath DEF IInv
        <4> QED  BY <4>1 DEF Renamed
      <3> QED  BY <3>1 DEF Renamed
    <2>2. job'[v] = [job[v] EXCEPT !.fd = job[v].fd, !.at = job[v].at]
      BY <2>1 DEF Rename
    <2> QED  BY <1>1, <2>2 DEF JobStates
  <1>5. job'[w] = [job[w] EXCEPT !.fd = job[w].fd, !.at = "open"]
    BY <1>1 DEF Rename, Renamed
  <1>6. job'[w] \in JobStates /\ job'[w].at = "open" /\ job'[w].k = job[w].k
    BY <1>1, <1>5 DEF JobStates
  <1>7. job' \in [Workers -> JobStates]
    <2>1. DOMAIN job' = Workers /\ job' = [v \in Workers |-> job'[v]]
      BY DEF Rename
    <2>2. \A v \in Workers : job'[v] \in JobStates
      BY <1>1, <1>4, <1>6
    <2> QED  BY <2>1, <2>2
  <1>8. /\ partial' = [partial EXCEPT ![Path(w)] = None]
        /\ cache' = [cache EXCEPT ![Path(w)] = file]
        /\ UNCHANGED <<source, doc, channel, closed, slots>>
    BY DEF Rename, load
  <1> HIDE DEF file
  <1>9. /\ partial' \in [Paths -> Files \cup {None}]
        /\ cache' \in [Paths -> Files \cup {None}]
        /\ \A p \in Paths \ {Path(w)} : partial'[p] = partial[p] /\ cache'[p] = cache[p]
        /\ partial'[Path(w)] = None /\ cache'[Path(w)] = file
    BY <1>2, <1>3, <1>8 DEF IInv, Types
  <1>10. Writing(w)'
    BY <1>6 DEF Writing
  <1>11. Shares' /\ Writers'
    BY <1>1, <1>4, <1>6, <1>8, <1>9, <1>10, OwnStep
  <1>12. Types'
    BY <1>7, <1>8, <1>9 DEF IInv, Types
  <1>13. PartialSane'
    BY <1>9 DEF IInv, PartialSane, Sane, Filled
  <1>14. Published'
    <2> SUFFICES ASSUME NEW p \in Paths, cache'[p] # None
                 PROVE  /\ cache'[p].header \in Waves /\ Whole(cache'[p])
                        /\ cache'[p].synced
      BY DEF Published, Whole, Filled
    <2>1. CASE p = Path(w)
      BY <1>3, <1>9, <2>1
    <2>2. CASE p # Path(w)
      BY <1>9, <2>2 DEF IInv, Published
    <2> QED  BY <2>1, <2>2
  <1> QED  BY <1>11, <1>12, <1>13, <1>14 DEF IInv
-----------------------------------------------------------------------------
(* The steps of the load, the process and the world.                       *)

(* Steps that leave the workers and the files alone. *)
LEMMA CollectStep ==
  ASSUME IInv, Collect
  PROVE  IInv'
  <1> DEFINE messages == [k : Nat, result : Results \cup {None}]
  <1>1. UNCHANGED <<source, cache, partial, doc, job>>
    BY DEF Collect, files
  <1>2. channel \in Seq(messages) /\ channel # <<>>
    BY DEF Collect, IInv, Types
  <1>3. channel' \in Seq(messages) /\ closed' \in BOOLEAN
    <2> HIDE DEF messages
    <2>1. channel' = <<>> \/ channel' = Tail(channel)
      BY DEF Collect
    <2>2. closed' \in BOOLEAN
      BY DEF Collect, IInv, Types
    <2>3. <<>> \in Seq(messages)
      OBVIOUS
    <2>4. Tail(channel) \in Seq(messages)
      BY <1>2
    <2> QED  BY <2>1, <2>2, <2>3, <2>4
  <1>4. \A k \in DOMAIN slots' : slots'[k] \in Results \cup {None}
    <2>1. Head(channel).result \in Results \cup {None}
      <3>1. Head(channel) \in messages
        <4> HIDE DEF messages
        <4> QED  BY <1>2
      <3> QED  BY <3>1
    <2> QED  BY <2>1 DEF Collect, IInv, Types
  <1>5. Types'
    BY <1>1, <1>3, <1>4 DEF IInv, Types
  <1>6. PartialSane' /\ Published' /\ Shares' /\ Writers'
    BY <1>1 DEF IInv, PartialSane, Published, Sane, Whole, Filled, Shares, Share,
                Writers, Writing, Path
  <1> QED  BY <1>5, <1>6 DEF IInv

(* The workers of an instrument start with their own first samples. *)
LEMMA FirstJobs ==
  ASSUME NEW d \in Nat, doc' = d, job' = Jobs(d)
  PROVE  job' \in [Workers -> JobStates] /\ Shares' /\ Writers'
  <1>1. ASSUME NEW w \in Workers
        PROVE  job'[w] \in JobStates /\ job'[w].at \in {"check", "done"}
    <2>1. w \in Nat
      BY DEF Workers
    <2>2. job'[w] \in {Idle, [Idle EXCEPT !.at = "check", !.k = w]}
      BY DEF Jobs
    <2>3. CASE job'[w] = Idle
      BY <2>3, IdleJob
    <2>4. CASE job'[w] = [Idle EXCEPT !.at = "check", !.k = w]
      BY <2>1, <2>4, FreshJob
    <2> QED  BY <2>2, <2>3, <2>4
  <1>2. ASSUME NEW w \in Workers, job'[w].at # "done"
        PROVE  Share(w)'
    <2>1. w \in Nat /\ w >= 1
      BY Constants DEF Workers
    <2>2. d \in Docs /\ w <= Crew(d) /\ job'[w] = [Idle EXCEPT !.at = "check", !.k = w]
      BY <1>2, IdleJob DEF Jobs
    <2>3. job'[w].k = w
      BY <2>1, <2>2, FreshJob
    <2>4. Crew(d) \in Nat /\ Crew(d) <= Len(Documents[d].samples)
      BY <2>2, CrewSize
    <2>5. w \in DOMAIN Documents[d].samples
      BY <2>1, <2>2, <2>4, Constants
    <2>6. w = w + 0 * Crew(d)
      BY <2>1, <2>4
    <2> QED  BY <2>2, <2>3, <2>5, <2>6 DEF Share
  <1>3. DOMAIN job' = Workers /\ job' = [w \in Workers |-> job'[w]]
    BY DEF Jobs
  <1>4. job' \in [Workers -> JobStates]
    BY <1>1, <1>3
  <1>5. Shares'
    BY <1>2 DEF Shares
  <1>6. Writers'
    BY <1>1 DEF Writers, Writing
  <1> QED  BY <1>4, <1>5, <1>6

LEMMA UnloadedSlots ==
  ASSUME NEW d
  PROVE  \A k \in DOMAIN Unloaded(d) : Unloaded(d)[k] \in Results \cup {None}
  BY DEF Unloaded

LEMMA FinishStep ==
  ASSUME IInv, Finish
  PROVE  IInv'
  <1>1. doc + 1 \in 0..(Len(Documents) + 1) /\ doc + 1 \in Nat
    BY Constants DEF Finish
  <1>2. doc' = doc + 1 /\ job' = Jobs(doc + 1) /\ slots' = Unloaded(doc + 1)
        /\ closed' = FALSE /\ UNCHANGED <<source, cache, partial, channel>>
    BY DEF Finish, files
  <1>3. job' \in [Workers -> JobStates] /\ Shares' /\ Writers'
    BY <1>1, <1>2, FirstJobs
  <1>4. \A k \in DOMAIN slots' : slots'[k] \in Results \cup {None}
    BY <1>2, UnloadedSlots
  <1>5. Types' /\ PartialSane' /\ Published'
    BY <1>1, <1>2, <1>3, <1>4
       DEF IInv, Types, PartialSane, Published, Sane, Whole, Filled
  <1> QED  BY <1>3, <1>5 DEF IInv

LEMMA StartStep ==
  ASSUME IInv, Start
  PROVE  IInv'
  <1>1. 1 \in 0..(Len(Documents) + 1) /\ 1 \in Nat
    BY Constants
  <1>2. doc' = 1 /\ job' = Jobs(1) /\ slots' = Unloaded(1)
        /\ UNCHANGED <<source, cache, partial, channel, closed>>
    BY DEF Start, files
  <1>3. job' \in [Workers -> JobStates] /\ Shares' /\ Writers'
    BY <1>1, <1>2, FirstJobs
  <1>4. \A k \in DOMAIN slots' : slots'[k] \in Results \cup {None}
    BY <1>2, UnloadedSlots
  <1>5. Types' /\ PartialSane' /\ Published'
    BY <1>1, <1>2, <1>3, <1>4
       DEF IInv, Types, PartialSane, Published, Sane, Whole, Filled
  <1> QED  BY <1>3, <1>5 DEF IInv

(* What is left of a sane file is sane, and all is left of a synced one. *)
LEMMA RemainsFile ==
  ASSUME NEW file \in Files, Sane(file), NEW left \in Remains(file)
  PROVE  left \in Files /\ Sane(left) /\ (file.synced => left = file)
  <1>1. CASE file = None \/ file.synced
    BY <1>1 DEF Remains
  <1>2. CASE ~(file = None \/ file.synced)
    <2>1. CASE left = [Empty EXCEPT !.synced = TRUE, !.old = file.old]
      <3>1. left \in Files /\ left.header = None /\ left.body = <<>>
        BY <2>1, EmptyFile DEF Files
      <3> QED  BY <1>2, <3>1 DEF Sane
    <2>2. ASSUME NEW n \in 0..Len(file.body),
                 left = [file EXCEPT !.body = SubSeq(@, 1, n), !.synced = TRUE]
          PROVE  left \in Files /\ Sane(left)
      <3> DEFINE beginning == SubSeq(file.body, 1, n)
      <3>1. file.body \in Seq(Waves \cup {None}) /\ Len(file.body) \in Nat
        BY DEF Files
      <3>2. beginning \in Seq(Waves \cup {None}) /\ Len(beginning) = n
        BY <3>1
      <3>3. left = [file EXCEPT !.body = beginning, !.synced = TRUE]
        BY <2>2
      <3> HIDE DEF beginning
      <3>4. left \in Files /\ left.header = file.header /\ left.body = beginning
        BY <3>2, <3>3 DEF Files
      <3>5. CASE file.header = None
        <4>1. file.body = <<>>
          BY <3>5 DEF Sane
        <4>2. n = 0
          BY <4>1
        <4>3. beginning = <<>>
          BY <3>2, <4>2
        <4> QED  BY <3>4, <3>5, <4>3 DEF Sane
      <3>6. CASE file.header # None
        <4>1. file.header \in Waves /\ Size[file.header] \in Nat
          BY <3>6, Constants DEF Files
        <4>2. Len(file.body) <= Size[file.header]
              /\ file.body = Filled(file.header, Len(file.body))
          BY <3>6 DEF Sane
        <4>3. beginning = Filled(file.header, n)
          BY <3>1, <4>1, <4>2, FilledPrefix DEF beginning
        <4>4. n <= Size[file.header]
          BY <3>1, <4>1, <4>2
        <4> QED  BY <3>2, <3>4, <3>6, <4>3, <4>4 DEF Sane
      <3> QED  BY <3>5, <3>6
    <2> QED  BY <1>2, <2>1, <2>2 DEF Remains
  <1> QED  BY <1>1, <1>2

LEMMA NothingRemains == Remains(None) = {None}
  BY DEF Remains

LEMMA CrashStep ==
  ASSUME IInv, Crash
  PROVE  IInv'
  <1>1. /\ DOMAIN cache' = Paths /\ cache' = [p \in Paths |-> cache'[p]]
        /\ DOMAIN partial' = Paths /\ partial' = [p \in Paths |-> partial'[p]]
        /\ \A p \in Paths : cache'[p] \in Remains(cache[p])
                            /\ partial'[p] \in Remains(partial[p])
    BY DEF Crash
  <1>2. /\ doc' = 0 /\ job' = Jobs(0) /\ channel' = <<>> /\ closed' = FALSE
        /\ slots' = <<>> /\ source' = source
    BY DEF Crash
  <1>3. job' \in [Workers -> JobStates] /\ Shares' /\ Writers'
    BY <1>2, FirstJobs
  <1>4. ASSUME NEW p \in Paths
        PROVE  partial'[p] \in Files \cup {None} /\ (partial'[p] # None => Sane(partial'[p]))
    <2>1. CASE partial[p] = None
      BY <1>1, <2>1, NothingRemains
    <2>2. CASE partial[p] # None
      <3>1. partial[p] \in Files /\ Sane(partial[p])
        BY <2>2 DEF IInv, Types, PartialSane
      <3> QED  BY <1>1, <3>1, RemainsFile
    <2> QED  BY <2>1, <2>2
  <1>5. cache' = cache
    <2>1. ASSUME NEW p \in Paths
          PROVE  cache'[p] = cache[p]
      <3>1. CASE cache[p] = None
        BY <1>1, <3>1, NothingRemains
      <3>2. CASE cache[p] # None
        <4>1. cache[p].synced
          BY <3>2 DEF IInv, Published
        <4> QED  BY <1>1, <4>1 DEF Remains
      <3> QED  BY <3>1, <3>2
    <2>2. cache = [p \in Paths |-> cache[p]]
      BY DEF IInv, Types
    <2> QED  BY <1>1, <2>1, <2>2
  <1>6. 0 \in 0..(Len(Documents) + 1)
    BY Constants
  <1>7. channel' \in Seq([k : Nat, result : Results \cup {None}])
    BY <1>2
  <1>8. partial' \in [Paths -> Files \cup {None}]
    BY <1>1, <1>4
  <1>9. \A k \in DOMAIN slots' : slots'[k] \in Results \cup {None}
    BY <1>2
  <1>10. Types'
    BY <1>2, <1>3, <1>5, <1>6, <1>7, <1>8, <1>9 DEF IInv, Types
  <1>11. PartialSane'
    BY <1>4 DEF PartialSane, Sane, Filled
  <1>12. Published'
    BY <1>5 DEF IInv, Published, Whole, Filled
  <1> QED  BY <1>3, <1>10, <1>11, <1>12 DEF IInv

(* A newer source changes the age of a file and nothing else of it. *)
LEMMA OutdatedFile ==
  ASSUME NEW file \in Files, NEW p, NEW s \in Sources
  PROVE  /\ Outdated(file, p, s) \in Files
         /\ Outdated(file, p, s).header = file.header
         /\ Outdated(file, p, s).body = file.body
         /\ Outdated(file, p, s).synced = file.synced
  BY DEF Outdated, Files

LEMMA ReplaceStep ==
  ASSUME IInv, NEW s \in Sources, NEW wave \in Waves \cup {None}, Replace(s, wave)
  PROVE  IInv'
  <1>1. /\ source' = [source EXCEPT ![s] = wave]
        /\ cache' = [p \in Paths |-> Outdated(cache[p], p, s)]
        /\ partial' = [p \in Paths |-> Outdated(partial[p], p, s)]
        /\ UNCHANGED <<doc, job, channel, closed, slots>>
    BY DEF Replace, load
  <1>2. \A p : Outdated(None, p, s) = None
    BY DEF Outdated
  <1>3. cache' \in [Paths -> Files \cup {None}] /\ partial' \in [Paths -> Files \cup {None}]
    BY <1>1, <1>2, OutdatedFile DEF IInv, Types
  <1>4. Types'
    BY <1>1, <1>3 DEF IInv, Types
  <1>5. PartialSane'
    <2> SUFFICES ASSUME NEW p \in Paths, partial'[p] # None
                 PROVE  Sane(partial'[p])
      BY DEF PartialSane, Sane, Filled
    <2>1. partial[p] \in Files /\ Sane(partial[p])
      BY <1>1, <1>2 DEF IInv, Types, PartialSane
    <2> QED  BY <1>1, <2>1, OutdatedFile DEF Sane
  <1>6. Published'
    <2> SUFFICES ASSUME NEW p \in Paths, cache'[p] # None
                 PROVE  /\ cache'[p].header \in Waves /\ Whole(cache'[p])
                        /\ cache'[p].synced
      BY DEF Published, Whole, Filled
    <2>1. cache[p] \in Files /\ cache[p].header \in Waves /\ Whole(cache[p])
          /\ cache[p].synced
      BY <1>1, <1>2 DEF IInv, Types, Published
    <2> QED  BY <1>1, <2>1, OutdatedFile DEF Whole
  <1>7. Shares'
    BY <1>1 DEF IInv, Shares, Share
  <1>8. Writers'
    <2> SUFFICES ASSUME NEW v \in Workers
                 PROVE  Writing(v)'
      BY DEF Writers
    <2>1. Writing(v) /\ job'[v] = job[v] /\ Path(v)' = Path(v)
      BY <1>1 DEF IInv, Writers, Path
    <2>2. CASE job[v].at \in {"header", "body", "rename"}
      <3>1. Path(v) \in Paths /\ partial[Path(v)] \in Files
        BY <2>1, <2>2, WorkerPath DEF Writing, IInv
      <3>2. /\ partial'[Path(v)] \in Files
            /\ partial'[Path(v)].header = partial[Path(v)].header
            /\ partial'[Path(v)].body = partial[Path(v)].body
            /\ partial'[Path(v)].synced = partial[Path(v)].synced
        BY <1>1, <3>1, OutdatedFile
      <3> HIDE DEF Path
      <3> QED  BY <2>1, <3>2 DEF Writing, Whole, Filled
    <2>3. CASE job[v].at \notin {"header", "body", "rename"}
      BY <2>1, <2>3 DEF Writing
    <2> QED  BY <2>2, <2>3
  <1> QED  BY <1>4, <1>5, <1>6, <1>7, <1>8 DEF IInv
-----------------------------------------------------------------------------
(* The invariant and the theorems.                                         *)

LEMMA Initially == Init => IInv
  <1> SUFFICES ASSUME Init PROVE IInv
    OBVIOUS
  <1>1. /\ source \in [Sources -> Waves] /\ doc = 0 /\ job = Jobs(0)
        /\ cache = [p \in Paths |-> None] /\ partial = [p \in Paths |-> None]
        /\ channel = <<>> /\ closed = FALSE /\ slots = <<>>
    BY DEF Init
  <1>2. \A w \in Workers : job[w] = Idle
    BY <1>1, Constants DEF Jobs
  <1>3. job \in [Workers -> JobStates]
    <2>1. job = [w \in Workers |-> job[w]]
      BY <1>1 DEF Jobs
    <2> QED  BY <1>2, <2>1, IdleJob
  <1>4. 0 \in 0..(Len(Documents) + 1)
    BY Constants
  <1>5. Types
    <2>1. source \in [Sources -> Waves \cup {None}]
      BY <1>1
    <2>2. cache \in [Paths -> Files \cup {None}] /\ partial \in [Paths -> Files \cup {None}]
      BY <1>1
    <2>3. channel \in Seq([k : Nat, result : Results \cup {None}])
      BY <1>1
    <2>4. \A k \in DOMAIN slots : slots[k] \in Results \cup {None}
      BY <1>1
    <2> QED  BY <1>1, <1>3, <1>4, <2>1, <2>2, <2>3, <2>4 DEF Types
  <1>6. Shares /\ Writers
    BY <1>2, IdleJob DEF Shares, Writers, Writing
  <1>7. PartialSane /\ Published
    BY <1>1 DEF PartialSane, Published
  <1> QED  BY <1>5, <1>6, <1>7 DEF IInv

LEMMA Inductive ==
  ASSUME DistinctNames
  PROVE  IInv /\ [Next]_vars => IInv'
  <1> SUFFICES ASSUME IInv, [Next]_vars PROVE IInv'
    OBVIOUS
  <1>1. ASSUME NEW w \in Workers, Work(w)
        PROVE  IInv'
    BY <1>1, CheckStep, ReuseStep, DecodeStep, CreateStep, WriteHeaderStep,
       WriteBlockStep, SyncStep, RenameStep, OpenStep, FailStep, SendStep DEF Work
  <1>2. CASE Collect
    BY <1>2, CollectStep
  <1>3. CASE Finish
    BY <1>3, FinishStep
  <1>4. CASE Start
    BY <1>4, StartStep
  <1>5. CASE Crash
    BY <1>5, CrashStep
  <1>6. ASSUME NEW s \in Sources, NEW wave \in Waves \cup {None}, Replace(s, wave)
        PROVE  IInv'
    BY <1>6, ReplaceStep
  <1>7. CASE UNCHANGED vars
    BY <1>7 DEF vars, files, load, IInv, Types, PartialSane, Published, Sane,
                Whole, Filled, Shares, Share, Writers, Writing, Path
  <1> QED  BY <1>1, <1>2, <1>3, <1>4, <1>5, <1>6, <1>7 DEF Next

(* The type invariant for every library whose instruments' samples have    *)
(* cache names of their own: no cache file, partial or published, is ever  *)
(* longer than its wave. *)
THEOREM TypeCorrect ==
  ASSUME DistinctNames
  PROVE  Spec => []TypeOK
  <1>1. IInv => TypeOK
    <2> SUFFICES ASSUME IInv PROVE TypeOK
      OBVIOUS
    <2>1. ASSUME NEW p \in Paths, NEW f \in {cache[p], partial[p]},
                 f # None, f.header # None
          PROVE  Len(f.body) <= Size[f.header]
      <3>1. CASE f = partial[p]
        BY <2>1, <3>1 DEF IInv, PartialSane, Sane
      <3>2. CASE f = cache[p]
        <4>1. f.header \in Waves /\ Whole(f)
          BY <2>1, <3>2 DEF IInv, Published
        <4>2. Size[f.header] \in Nat
          BY <4>1, Constants
        <4> QED  BY <4>1, <4>2, FilledSeq DEF Whole
      <3> QED  BY <3>1, <3>2
    <2> QED  BY <2>1 DEF IInv, Types, TypeOK
  <1> QED  BY <1>1, Initially, Inductive, PTL DEF Spec

(* pcm_cache::write leaves "no half-written cache that a later run would   *)
(* trust": whatever crashes, fails or is replaced, and however many        *)
(* workers write at once, a readable header stands before its whole wave.  *)
THEOREM CachesAreWhole ==
  ASSUME DistinctNames
  PROVE  Spec => []TrustedIsWhole
  <1>1. IInv => TrustedIsWhole
    BY DEF IInv, Published, TrustedIsWhole, HasHeader
  <1> QED  BY <1>1, Initially, Inductive, PTL DEF Spec
-----------------------------------------------------------------------------
(* What the caches and the samples taken from them say of the sources, as  *)
(* long as no source is replaced while the library loads.                  *)

(* Samples that share a cache name share a source: no two instruments of   *)
(* the library put different folders before one name. *)
OneSource ==
  \A q, r \in Refs :
    PathOf(q[1], q[2]) = PathOf(r[1], r[2]) =>
      SourceOf(q[1], q[2]) = SourceOf(r[1], r[2])

SteadySources == OneSource /\ ~LiveSources

(* A worker writes what the source holds, and reuses a cache that is not   *)
(* older than its source. *)
Current(w) ==
  /\ job[w].at \in {"create", "header", "body", "rename"} =>
       job[w].wave = source[Src(w)]
  /\ job[w].at \in {"reuse", "open"} /\ source[Src(w)] # None =>
       cache[Path(w)] # None /\ cache[Path(w)].header = source[Src(w)]

(* The cache holds this sample, and its head begins it. *)
Holds(d, k, sample) ==
  LET file == cache[PathOf(d, k)]
  IN /\ file # None /\ file.header = sample.wave
     /\ sample.head = SubSeq(file.body, 1, Resident(sample.wave))

(* The sample is what its source holds. *)
Agrees(d, k, sample) ==
  source[SourceOf(d, k)] # None => sample.wave = source[SourceOf(d, k)]

Genuine(d, k, sample) == Holds(d, k, sample) /\ Agrees(d, k, sample)

(* Every sample on its way from a worker to the instrument is genuine. *)
Found(w) ==
  job[w].result # None =>
    job[w].at # "done" /\ Genuine(doc, job[w].k, job[w].result)

Arriving ==
  \A i \in 1..Len(channel) :
    /\ doc \in Docs /\ channel[i].k \in DOMAIN Documents[doc].samples
    /\ channel[i].result # None => Genuine(doc, channel[i].k, channel[i].result)

Collected ==
  doc \in Docs =>
    /\ DOMAIN slots = DOMAIN Documents[doc].samples
    /\ slots = [k \in DOMAIN slots |-> slots[k]]
    /\ \A k \in DOMAIN slots : slots[k] # None => Genuine(doc, k, slots[k])

(* The instruments loaded before the present one. *)
InUse ==
  /\ loaded = [d \in Docs |-> loaded[d]]
  /\ \A d \in Docs : loaded[d] # None =>
       /\ doc # 0
       /\ \A k \in DOMAIN Documents[d].samples :
            /\ Holds(d, k, loaded[d][k])
            /\ doc \in Docs => Agrees(d, k, loaded[d][k])

FInv ==
  /\ IInv /\ Fresh
  /\ \A w \in Workers : Current(w) /\ Found(w)
  /\ Arriving /\ Collected /\ InUse

(* The name of a worker's sample, and the library around it. *)
LEMMA OneSourcePath ==
  ASSUME OneSource, NEW c \in Docs, NEW j \in DOMAIN Documents[c].samples,
         NEW d \in Docs, NEW k \in DOMAIN Documents[d].samples,
         PathOf(c, j) = PathOf(d, k)
  PROVE  SourceOf(c, j) = SourceOf(d, k)
  <1>1. <<c, j>> \in Refs /\ <<d, k>> \in Refs
    BY DEF Refs
  <1> QED  BY <1>1 DEF OneSource

LEMMA FreshSample ==
  ASSUME IInv, Fresh, NEW d \in Docs, NEW k \in DOMAIN Documents[d].samples,
         cache[PathOf(d, k)] # None, source[SourceOf(d, k)] # None,
         SourceOf(d, k) \notin cache[PathOf(d, k)].old
  PROVE  cache[PathOf(d, k)].header = source[SourceOf(d, k)]
  <1>1. <<d, k>> \in Refs /\ PathOf(d, k) \in Paths
    BY KnownPath DEF Refs
  <1>2. cache[PathOf(d, k)].header \in {source[SourceOf(d, k)], None}
    BY <1>1 DEF Fresh
  <1>3. cache[PathOf(d, k)].header \in Waves
    BY <1>1 DEF IInv, Published
  <1> QED  BY <1>2, <1>3, Constants

(* A step of one worker that publishes nothing. *)
LEMMA InnerStep ==
  ASSUME FInv, IInv', NEW w \in Workers,
         UNCHANGED <<source, cache, doc, slots, loaded>>,
         \A v \in Workers \ {w} : job'[v] = job[v],
         Current(w)', Found(w)', Arriving'
  PROVE  FInv'
  <1>1. Fresh'
    BY DEF FInv, Fresh
  <1>2. ASSUME NEW v \in Workers \ {w}
        PROVE  Current(v)' /\ Found(v)'
    <2>1. Current(v) /\ Found(v) /\ job'[v] = job[v]
      BY DEF FInv
    <2>2. Src(v)' = Src(v) /\ Path(v)' = Path(v)
      BY <2>1 DEF Src, Path
    <2>3. Current(v)'
      BY <2>1, <2>2 DEF Current
    <2>4. Found(v)'
      BY <2>1 DEF Found, Genuine, Holds, Agrees
    <2> QED  BY <2>3, <2>4
  <1>3. Collected'
    BY DEF FInv, Collected, Genuine, Holds, Agrees
  <1>4. InUse'
    BY DEF FInv, InUse, Holds, Agrees
  <1> QED  BY <1>1, <1>2, <1>3, <1>4 DEF FInv

(* Nor does it send anything. *)
LEMMA SilentStep ==
  ASSUME FInv, IInv', NEW w \in Workers, job[w].at # "done",
         UNCHANGED <<source, cache, doc, load>>,
         \A v \in Workers \ {w} : job'[v] = job[v],
         job'[w].k = job[w].k, job'[w].result = job[w].result,
         job'[w].at # "done", Current(w)'
  PROVE  FInv'
  <1>1. Found(w)'
    BY DEF FInv, Found, Genuine, Holds, Agrees
  <1>2. UNCHANGED <<channel, slots, loaded>>
    BY DEF load
  <1>3. Arriving'
    BY <1>2 DEF FInv, Arriving, Genuine, Holds, Agrees
  <1> QED  BY <1>1, <1>2, <1>3, InnerStep

(* The sample a worker at work is working on. *)
LEMMA AtWork ==
  ASSUME IInv, NEW w \in Workers, job[w].at # "done"
  PROVE  /\ doc \in Docs /\ job[w].k \in DOMAIN Documents[doc].samples
         /\ Path(w) = PathOf(doc, job[w].k) /\ Path(w) \in Paths
         /\ Src(w) = SourceOf(doc, job[w].k) /\ Src(w) \in Sources
         /\ job \in [Workers -> JobStates] /\ job[w] \in JobStates
         /\ source[Src(w)] \in Waves \cup {None}
         /\ cache[Path(w)] \in Files \cup {None}
  <1>1. doc \in Docs /\ job[w].k \in DOMAIN Documents[doc].samples
    BY DEF IInv, Shares, Share
  <1>2. Path(w) \in Paths /\ Src(w) \in Sources
    BY WorkerPath DEF IInv
  <1>3. Path(w) = PathOf(doc, job[w].k) /\ Src(w) = SourceOf(doc, job[w].k)
    BY DEF Path, Src
  <1> QED  BY <1>1, <1>2, <1>3 DEF IInv, Types

LEMMA CheckedSource ==
  ASSUME SteadySources, FInv, IInv', NEW w \in Workers, Check(w)
  PROVE  FInv'
  <1>1. job[w].at = "check" /\ IInv /\ Fresh
    BY DEF Check, At, FInv
  <1>2. PICK a \in {"decode", "reuse"} :
          /\ job' = [job EXCEPT ![w].at = a]
          /\ a = "reuse" => /\ cache[Path(w)] # None
                            /\ source[Src(w)] = None \/ Src(w) \notin cache[Path(w)].old
    BY DEF Check, Goto
  <1>3. /\ job'[w].at = a /\ job'[w].k = job[w].k /\ job'[w].result = job[w].result
        /\ \A v \in Workers \ {w} : job'[v] = job[v]
    BY <1>1, <1>2, AtWork DEF JobStates
  <1>4. UNCHANGED <<source, cache, doc, load>>
    BY DEF Check, files
  <1>5. Src(w)' = Src(w) /\ Path(w)' = Path(w)
    BY <1>3, <1>4 DEF Src, Path
  <1>6. Current(w)'
    <2> SUFFICES ASSUME a = "reuse", source[Src(w)] # None
                 PROVE  cache[Path(w)] # None /\ cache[Path(w)].header = source[Src(w)]
      BY <1>3, <1>4, <1>5 DEF Current
    <2> QED  BY <1>1, <1>2, AtWork, FreshSample
  <1> QED  BY <1>1, <1>3, <1>4, <1>6, SilentStep

LEMMA ReusedSource ==
  ASSUME SteadySources, FInv, IInv', NEW w \in Workers, Reuse(w)
  PROVE  FInv'
  <1>1. job[w].at = "reuse" /\ IInv
    BY DEF Reuse, At, FInv
  <1>2. /\ job'[w].at \in {"open", "decode"} /\ job'[w].k = job[w].k
        /\ job'[w].result = job[w].result
        /\ \A v \in Workers \ {w} : job'[v] = job[v]
    BY <1>1, AtWork DEF JobStates, Reuse
  <1>3. UNCHANGED <<source, cache, doc, load>>
    BY DEF Reuse, files
  <1>4. Src(w)' = Src(w) /\ Path(w)' = Path(w)
    BY <1>2, <1>3 DEF Src, Path
  <1>5. Current(w)'
    BY <1>1, <1>2, <1>3, <1>4 DEF FInv, Current
  <1> QED  BY <1>1, <1>2, <1>3, <1>5, SilentStep

LEMMA DecodedSource ==
  ASSUME SteadySources, FInv, IInv', NEW w \in Workers, Decode(w)
  PROVE  FInv'
  <1>1. job[w].at = "decode" /\ IInv
    BY DEF Decode, At, FInv
  <1>2. /\ job'[w].at = "create" /\ job'[w].wave = source[Src(w)]
        /\ job'[w].k = job[w].k /\ job'[w].result = job[w].result
        /\ \A v \in Workers \ {w} : job'[v] = job[v]
    BY <1>1, AtWork DEF JobStates, Decode
  <1>3. UNCHANGED <<source, cache, doc, load>>
    BY DEF Decode, files
  <1>4. Src(w)' = Src(w)
    BY <1>2, <1>3 DEF Src
  <1>5. Current(w)'
    BY <1>2, <1>3, <1>4 DEF Current
  <1> QED  BY <1>1, <1>2, <1>3, <1>5, SilentStep

(* The steps of a writer leave the published files alone. *)
LEMMA WritingSource ==
  ASSUME SteadySources, FInv, IInv', NEW w \in Workers,
         Create(w) \/ WriteHeader(w) \/ WriteBlock(w) \/ Sync(w)
  PROVE  FInv'
  <1>1. job[w].at \in {"create", "header", "body"} /\ IInv
    BY DEF Create, WriteHeader, WriteBlock, Sync, At, FInv
  <1>2. /\ job'[w].at \in {"header", "body", "rename"}
        /\ job'[w].wave = job[w].wave
        /\ job'[w].k = job[w].k /\ job'[w].result = job[w].result
        /\ \A v \in Workers \ {w} : job'[v] = job[v]
    <2>1. CASE Create(w)
      BY <1>1, <2>1, AtWork DEF JobStates, Create
    <2>2. CASE WriteHeader(w)
      BY <1>1, <2>2, AtWork DEF JobStates, WriteHeader, Goto
    <2>3. CASE WriteBlock(w)
      <3>1. job' = [job EXCEPT ![w].pos = job[w].pos + 1] /\ job[w].at = "body"
        BY <2>3 DEF WriteBlock, At
      <3> QED  BY <1>1, <3>1, AtWork DEF JobStates
    <2>4. CASE Sync(w)
      BY <1>1, <2>4, AtWork DEF JobStates, Sync
    <2> QED  BY <2>1, <2>2, <2>3, <2>4
  <1>3. UNCHANGED <<source, cache, doc, load>>
    <2>1. CASE Create(w)
      BY <2>1 DEF Create
    <2>2. CASE ~Create(w)
      <3>1. job[w].at \in {"header", "body"}
        BY <2>2 DEF WriteHeader, WriteBlock, Sync, At
      <3>2. job[w].fd = "partial"
        BY <3>1 DEF FInv, IInv, Writers, Writing
      <3> QED  BY <2>2, <3>2 DEF WriteHeader, WriteBlock, Sync, Put
    <2> QED  BY <2>1, <2>2
  <1>4. Src(w)' = Src(w)
    BY <1>2, <1>3 DEF Src
  <1>5. Current(w)'
    BY <1>1, <1>2, <1>3, <1>4 DEF Current, FInv
  <1> QED  BY <1>1, <1>2, <1>3, <1>5, SilentStep

(* What a worker reads back is the sample it was sent for. *)
LEMMA OpenedSource ==
  ASSUME SteadySources, FInv, IInv', NEW w \in Workers, Open(w)
  PROVE  FInv'
  <1> DEFINE sample == [wave |-> Header(w),
                        head |-> SubSeq(cache[Path(w)].body, 1, Resident(Header(w)))]
  <1>1. job[w].at = "open" /\ IInv /\ cache[Path(w)] # None
    BY DEF Open, At, FInv, Readable
  <1>2. /\ job' = [job EXCEPT ![w].at = "send", ![w].wave = None, ![w].result = sample]
        /\ UNCHANGED <<source, cache, doc, load>>
    BY DEF Open, files
  <1>3. cache[Path(w)].header \in Waves
    BY <1>1, AtWork DEF IInv, Published
  <1>4. Header(w) = cache[Path(w)].header
    BY <1>3, Constants DEF Header
  <1>5. Genuine(doc, job[w].k, sample)
    <2>1. Holds(doc, job[w].k, sample)
      BY <1>1, <1>4, AtWork DEF Holds
    <2>2. Agrees(doc, job[w].k, sample)
      <3>1. source[Src(w)] # None => cache[Path(w)].header = source[Src(w)]
        BY <1>1 DEF FInv, Current
      <3> QED  BY <1>1, <1>4, <3>1, AtWork DEF Agrees
    <2> QED  BY <2>1, <2>2 DEF Genuine
  <1> HIDE DEF sample
  <1>6. /\ job'[w].at = "send" /\ job'[w].k = job[w].k /\ job'[w].result = sample
        /\ \A v \in Workers \ {w} : job'[v] = job[v]
    BY <1>1, <1>2, AtWork DEF JobStates
  <1>7. Found(w)'
    BY <1>2, <1>5, <1>6 DEF Found, Genuine, Holds, Agrees
  <1>8. Current(w)'
    BY <1>6 DEF Current
  <1>9. Arriving'
    BY <1>2 DEF FInv, Arriving, Genuine, Holds, Agrees, load
  <1> QED  BY <1>2, <1>6, <1>7, <1>8, <1>9, InnerStep DEF load

LEMMA FailedSource ==
  ASSUME SteadySources, FInv, IInv', NEW w \in Workers, Fail(w)
  PROVE  FInv'
  <1>1. job[w].at # "done" /\ IInv
    BY DEF Fail, At, FInv
  <1>2. /\ job' = [job EXCEPT ![w] = [Idle EXCEPT !.at = "send", !.k = job[w].k]]
        /\ UNCHANGED <<source, cache, doc, load>>
    BY DEF Fail, files
  <1>3. /\ job'[w].at = "send" /\ job'[w].result = None
        /\ \A v \in Workers \ {w} : job'[v] = job[v]
    BY <1>1, <1>2, AtWork DEF Idle
  <1>4. Found(w)' /\ Current(w)'
    BY <1>3 DEF Found, Current
  <1>5. Arriving'
    BY <1>2 DEF FInv, Arriving, Genuine, Holds, Agrees, load
  <1> QED  BY <1>2, <1>3, <1>4, <1>5, InnerStep DEF load

LEMMA SentSource ==
  ASSUME SteadySources, FInv, IInv', NEW w \in Workers, Send(w)
  PROVE  FInv'
  <1>1. job[w].at = "send" /\ IInv
    BY DEF Send, At, FInv
  <1>2. /\ \A v \in Workers \ {w} : job'[v] = job[v]
        /\ UNCHANGED <<source, cache, doc, slots, loaded>>
    BY <1>1, AtWork DEF Send, files
  <1>3. job'[w].at \in {"check", "done"} /\ job'[w].result = None
    BY <1>1, AtWork DEF Send, NextJob, Idle
  <1>4. Found(w)' /\ Current(w)'
    BY <1>3 DEF Found, Current
  <1>5. Arriving'
    <2>1. CASE closed
      BY <1>2, <2>1 DEF Send, FInv, Arriving, Genuine, Holds, Agrees
    <2>2. CASE ~closed
      <3> DEFINE message == [k |-> job[w].k, result |-> job[w].result]
      <3>1. channel' = Append(channel, message)
        BY <2>2 DEF Send
      <3>2. message.k = job[w].k /\ message.result = job[w].result
        OBVIOUS
      <3>3. message.result # None => Genuine(doc, message.k, message.result)
        BY <3>2 DEF FInv, Found
      <3> HIDE DEF message
      <3> SUFFICES ASSUME NEW i \in 1..Len(channel')
                   PROVE  /\ doc \in Docs
                          /\ channel'[i].k \in DOMAIN Documents[doc].samples
                          /\ channel'[i].result # None =>
                               Genuine(doc, channel'[i].k, channel'[i].result)
        BY <1>2 DEF Arriving, Genuine, Holds, Agrees
      <3>4. channel \in Seq([k : Nat, result : Results \cup {None}])
        BY <1>1 DEF IInv, Types
      <3>5. Len(channel') = Len(channel) + 1 /\ Len(channel) \in Nat
        BY <3>1, <3>4
      <3>6. CASE i = Len(channel) + 1
        <4>1. channel'[i] = message
          BY <3>1, <3>4, <3>6
        <4> QED  BY <1>1, <3>2, <3>3, <4>1, AtWork
      <3>7. CASE i # Len(channel) + 1
        <4>1. i \in 1..Len(channel) /\ channel'[i] = channel[i]
          BY <3>1, <3>4, <3>5, <3>7
        <4> QED  BY <4>1 DEF FInv, Arriving
      <3> QED  BY <3>6, <3>7
    <2> QED  BY <2>1, <2>2
  <1> QED  BY <1>2, <1>4, <1>5, InnerStep

(* A renamed cache holds what its source holds; whoever has the sample of  *)
(* the cache it replaces has that sample still. *)
LEMMA Republished ==
  ASSUME SteadySources, DistinctNames, FInv, NEW w \in Workers, Rename(w)
  PROVE  /\ UNCHANGED <<source, doc, load>>
         /\ cache'[Path(w)] # None /\ source[Src(w)] # None
         /\ cache'[Path(w)].header = source[Src(w)]
         /\ Whole(cache'[Path(w)])
         /\ \A p \in Paths \ {Path(w)} : cache'[p] = cache[p]
         /\ \A d \in Docs : \A k \in DOMAIN Documents[d].samples : \A sample :
              Genuine(d, k, sample) => Genuine(d, k, sample)'
  <1>1. job[w].at = "rename" /\ IInv
    BY DEF Rename, At, FInv
  <1>2. /\ cache' = [cache EXCEPT ![Path(w)] = partial[Path(w)]]
        /\ partial[Path(w)] # None
        /\ UNCHANGED <<source, doc, load>>
    BY DEF Rename
  <1>3. /\ partial[Path(w)].header = job[w].wave /\ job[w].wave \in Waves
        /\ Whole(partial[Path(w)])
    BY <1>1 DEF IInv, Writers, Writing
  <1>4. job[w].wave = source[Src(w)]
    BY <1>1 DEF FInv, Current
  <1>5. /\ cache'[Path(w)] = partial[Path(w)]
        /\ \A p \in Paths \ {Path(w)} : cache'[p] = cache[p]
    BY <1>1, <1>2, AtWork DEF IInv, Types
  <1>6. source[Src(w)] # None
    BY <1>3, <1>4, Constants
  <1>7. cache'[Path(w)] # None /\ cache'[Path(w)].header = source[Src(w)]
        /\ Whole(cache'[Path(w)])
    BY <1>2, <1>3, <1>4, <1>5
  <1>8. ASSUME NEW d \in Docs, NEW k \in DOMAIN Documents[d].samples, NEW sample,
               Genuine(d, k, sample)
        PROVE  Genuine(d, k, sample)'
    <2>1. PathOf(d, k) \in Paths
      BY KnownPath
    <2>2. Agrees(d, k, sample)'
      BY <1>2, <1>8 DEF Genuine, Agrees
    <2>3. CASE PathOf(d, k) # Path(w)
      <3>1. cache'[PathOf(d, k)] = cache[PathOf(d, k)]
        BY <1>5, <2>1, <2>3
      <3>2. Holds(d, k, sample)'
        BY <1>8, <3>1 DEF Genuine, Holds
      <3> QED  BY <2>2, <3>2 DEF Genuine
    <2>4. CASE PathOf(d, k) = Path(w)
      <3>1. SourceOf(d, k) = Src(w)
        BY <1>1, <2>4, AtWork, OneSourcePath DEF SteadySources
      <3>2. sample.wave = source[Src(w)]
        BY <1>6, <1>8, <3>1 DEF Genuine, Agrees
      <3>3. /\ cache[Path(w)] # None /\ cache[Path(w)].header = sample.wave
            /\ sample.head = SubSeq(cache[Path(w)].body, 1, Resident(sample.wave))
        BY <1>8, <2>4 DEF Genuine, Holds
      <3>4. Whole(cache[Path(w)])
        BY <1>1, <2>1, <2>4, <3>3 DEF IInv, Published
      <3>5. cache'[Path(w)].body = cache[Path(w)].body
        BY <1>7, <3>2, <3>3, <3>4 DEF Whole
      <3>6. Holds(d, k, sample)'
        BY <1>7, <2>4, <3>2, <3>3, <3>5 DEF Holds
      <3> QED  BY <2>2, <3>6 DEF Genuine
    <2> QED  BY <2>3, <2>4
  <1> QED  BY <1>2, <1>5, <1>6, <1>7, <1>8

LEMMA RenamedSource ==
  ASSUME SteadySources, DistinctNames, FInv, IInv', NEW w \in Workers, Rename(w)
  PROVE  FInv'
  <1>1. job[w].at = "rename" /\ IInv
    BY DEF Rename, At, FInv
  <1>2. UNCHANGED <<source, doc, channel, closed, slots, loaded>>
    BY Republished DEF load
  <1>3. ASSUME NEW v \in Workers
        PROVE  /\ job'[v].k = job[v].k /\ job'[v].wave = job[v].wave
               /\ job'[v].result = job[v].result
               /\ job'[v].at = IF v = w THEN "open" ELSE job[v].at
               /\ Src(v)' = Src(v) /\ Path(v)' = Path(v)
    <2>1. job[v] \in JobStates
      BY <1>1 DEF IInv, Types
    <2>2. job'[v] = [job[v] EXCEPT !.fd = Renamed(v, Path(w)),
                                   !.at = IF v = w THEN "open" ELSE job[v].at]
      BY DEF Rename
    <2> HIDE DEF Renamed
    <2>3. /\ job'[v].k = job[v].k /\ job'[v].wave = job[v].wave
          /\ job'[v].result = job[v].result
          /\ job'[v].at = IF v = w THEN "open" ELSE job[v].at
      BY <2>1, <2>2 DEF JobStates
    <2> QED  BY <1>2, <2>3 DEF Src, Path
  <1>4. Fresh'
    <2> SUFFICES ASSUME NEW r \in Refs,
                        cache'[PathOf(r[1], r[2])] # None,
                        source[SourceOf(r[1], r[2])] # None,
                        SourceOf(r[1], r[2]) \notin cache'[PathOf(r[1], r[2])].old
                 PROVE  cache'[PathOf(r[1], r[2])].header
                          \in {source[SourceOf(r[1], r[2])], None}
      BY <1>2 DEF Fresh
    <2>1. /\ r[1] \in Docs /\ r[2] \in DOMAIN Documents[r[1]].samples
          /\ PathOf(r[1], r[2]) \in Paths
      BY KnownPath DEF Refs
    <2>2. CASE PathOf(r[1], r[2]) = Path(w)
      <3>1. SourceOf(r[1], r[2]) = Src(w)
        BY <1>1, <2>1, <2>2, AtWork, OneSourcePath DEF SteadySources
      <3> QED  BY <2>2, <3>1, Republished
    <2>3. CASE PathOf(r[1], r[2]) # Path(w)
      <3>1. cache'[PathOf(r[1], r[2])] = cache[PathOf(r[1], r[2])]
        BY <2>1, <2>3, Republished
      <3> QED  BY <3>1 DEF FInv, Fresh
    <2> QED  BY <2>2, <2>3
  <1>5. ASSUME NEW v \in Workers
        PROVE  Current(v)'
    <2>1. CASE v = w
      BY <1>1, <1>2, <1>3, <2>1, Republished DEF Current
    <2>2. CASE v # w
      <3>1. Current(v) /\ job'[v].at = job[v].at
        BY <1>3, <2>2 DEF FInv
      <3>2. CASE job[v].at \in {"reuse", "open"}
        <4>1. Path(v) # Path(w) /\ Path(v) \in Paths
          BY <1>1, <2>2, <3>2, OwnPath, AtWork DEF IInv
        <4>2. cache'[Path(v)] = cache[Path(v)]
          BY <4>1, Republished
        <4> QED  BY <1>2, <1>3, <3>1, <4>2 DEF Current
      <3>3. CASE job[v].at \notin {"reuse", "open"}
        BY <1>2, <1>3, <3>1, <3>3 DEF Current
      <3> QED  BY <3>2, <3>3
    <2> QED  BY <2>1, <2>2
  <1>6. ASSUME NEW v \in Workers
        PROVE  Found(v)'
    <2> SUFFICES ASSUME job[v].result # None
                 PROVE  job'[v].at # "done" /\ Genuine(doc, job[v].k, job[v].result)'
      BY <1>2, <1>3 DEF Found
    <2>1. job[v].at # "done" /\ Genuine(doc, job[v].k, job[v].result)
      BY DEF FInv, Found
    <2>2. PICK d, k, sample :
            d = doc /\ k = job[v].k /\ sample = job[v].result
      OBVIOUS
    <2>3. Genuine(d, k, sample)'
      BY <1>1, <2>1, <2>2, AtWork, Republished
    <2> QED  BY <1>2, <1>3, <2>1, <2>2, <2>3
  <1>7. Arriving'
    <2> SUFFICES ASSUME NEW i \in 1..Len(channel)
                 PROVE  /\ doc \in Docs
                        /\ channel[i].k \in DOMAIN Documents[doc].samples
                        /\ channel[i].result # None =>
                             Genuine(doc, channel[i].k, channel[i].result)'
      BY <1>2 DEF Arriving
    <2> DEFINE message == channel[i]
    <2>1. /\ doc \in Docs /\ message.k \in DOMAIN Documents[doc].samples
          /\ message.result # None => Genuine(doc, message.k, message.result)
      BY DEF FInv, Arriving
    <2>2. PICK d, k, sample :
            d = doc /\ k = message.k /\ sample = message.result
      BY <2>1
    <2>3. Genuine(d, k, sample) => Genuine(d, k, sample)'
      BY <2>1, <2>2, Republished
    <2> QED  BY <1>2, <2>1, <2>2, <2>3
  <1>8. Collected'
    <2> SUFFICES ASSUME doc \in Docs, NEW k \in DOMAIN slots, slots[k] # None,
                        DOMAIN slots = DOMAIN Documents[doc].samples
                 PROVE  Genuine(doc, k, slots[k])'
      BY <1>2 DEF Collected, FInv
    <2>1. PICK d, j, sample : d = doc /\ j = k /\ sample = slots[k]
      OBVIOUS
    <2>2. Genuine(d, j, sample)
      BY <2>1 DEF FInv, Collected
    <2>3. Genuine(d, j, sample)'
      BY <2>1, <2>2, Republished
    <2> QED  BY <1>2, <2>1, <2>3
  <1>9. InUse'
    <2> SUFFICES ASSUME NEW d \in Docs, loaded[d] # None,
                        NEW k \in DOMAIN Documents[d].samples
                 PROVE  Genuine(d, k, loaded[d][k])'
      BY <1>2 DEF InUse, FInv, Genuine
    <2>1. doc \in Docs
      BY <1>1, AtWork
    <2>2. PICK sample : sample = loaded[d][k]
      OBVIOUS
    <2>3. Genuine(d, k, sample)
      BY <2>1, <2>2 DEF FInv, InUse, Genuine
    <2>4. Genuine(d, k, sample)'
      BY <2>3, Republished
    <2> QED  BY <1>2, <2>2, <2>4
  <1> QED  BY <1>4, <1>5, <1>6, <1>7, <1>8, <1>9 DEF FInv

LEMMA CollectedSource ==
  ASSUME FInv, IInv', Collect
  PROVE  FInv'
  <1> DEFINE messages == [k : Nat, result : Results \cup {None}]
  <1>1. UNCHANGED <<source, cache, doc, job, loaded>>
    BY DEF Collect, files
  <1>2. channel \in Seq(messages) /\ channel # <<>>
    BY DEF FInv, IInv, Types, Collect
  <1> HIDE DEF messages
  <1>3. Len(channel) \in Nat /\ 1 \in 1..Len(channel) /\ Head(channel) = channel[1]
    BY <1>2
  <1>4. \A v \in Workers : Current(v)' /\ Found(v)'
    BY <1>1 DEF FInv, Current, Found, Genuine, Holds, Agrees, Src, Path
  <1>5. Fresh' /\ InUse'
    BY <1>1 DEF FInv, Fresh, InUse, Holds, Agrees
  <1>6. CASE Head(channel).result = None
    <2>1. channel' = <<>> /\ slots' = slots
      BY <1>6 DEF Collect
    <2>2. Arriving'
      BY <2>1 DEF Arriving
    <2>3. Collected'
      BY <1>1, <2>1 DEF FInv, Collected, Genuine, Holds, Agrees
    <2> QED  BY <1>4, <1>5, <2>2, <2>3 DEF FInv
  <1>7. CASE Head(channel).result # None
    <2>1. /\ slots' = [slots EXCEPT ![channel[1].k] = channel[1].result]
          /\ channel' = Tail(channel)
      BY <1>3, <1>7 DEF Collect
    <2>2. /\ doc \in Docs /\ channel[1].k \in DOMAIN Documents[doc].samples
          /\ Genuine(doc, channel[1].k, channel[1].result)
      BY <1>3, <1>7 DEF FInv, Arriving
    <2>3. Arriving'
      <3>1. Len(channel') = Len(channel) - 1
            /\ \A i \in 1..Len(channel') : i + 1 \in 1..Len(channel) /\ channel'[i] = channel[i + 1]
        BY <1>2, <1>3, <2>1
      <3> QED  BY <1>1, <3>1 DEF FInv, Arriving, Genuine, Holds, Agrees
    <2>4. Collected'
      <3>1. /\ DOMAIN slots = DOMAIN Documents[doc].samples
            /\ slots = [k \in DOMAIN slots |-> slots[k]]
            /\ \A k \in DOMAIN slots : slots[k] # None => Genuine(doc, k, slots[k])
        BY <2>2 DEF FInv, Collected
      <3>2. /\ DOMAIN slots' = DOMAIN Documents[doc].samples
            /\ slots' = [k \in DOMAIN slots' |-> slots'[k]]
            /\ slots'[channel[1].k] = channel[1].result
            /\ \A k \in DOMAIN slots \ {channel[1].k} : slots'[k] = slots[k]
        BY <2>1, <2>2, <3>1
      <3>3. ASSUME NEW k \in DOMAIN slots', slots'[k] # None
            PROVE  Genuine(doc, k, slots'[k])
        BY <2>2, <3>1, <3>2, <3>3
      <3>4. ASSUME NEW k \in DOMAIN slots', slots'[k] # None
            PROVE  Genuine(doc, k, slots[k])'
        BY <1>1, <3>3, <3>4 DEF Genuine, Holds, Agrees
      <3> QED  BY <1>1, <3>2, <3>4 DEF Collected
    <2> QED  BY <1>4, <1>5, <2>3, <2>4 DEF FInv
  <1> QED  BY <1>6, <1>7

(* Before its first step a crew has found nothing. *)
LEMMA FreshCrew ==
  ASSUME NEW n \in Nat, job' = Jobs(n), slots' = Unloaded(n), doc' = n
  PROVE  (\A w \in Workers : Current(w)' /\ Found(w)') /\ Collected'
  <1>1. \A w \in Workers : job'[w].at \in {"check", "done"} /\ job'[w].result = None
    BY DEF Jobs, Idle
  <1>2. \A w \in Workers : Current(w)' /\ Found(w)'
    BY <1>1 DEF Current, Found
  <1>3. Collected'
    BY DEF Collected, Unloaded
  <1> QED  BY <1>2, <1>3

LEMMA FinishedSource ==
  ASSUME FInv, IInv', Finish
  PROVE  FInv'
  <1>1. /\ doc \in Docs /\ channel = <<>> /\ channel' = <<>>
        /\ UNCHANGED <<source, cache>>
        /\ doc' = doc + 1 /\ job' = Jobs(doc + 1) /\ slots' = Unloaded(doc + 1)
    BY DEF Finish, files
  <1>2. PICK found : /\ loaded' = [loaded EXCEPT ![doc] = found]
                     /\ found # None => /\ found = slots
                                        /\ \A k \in DOMAIN slots : slots[k] # None
    BY DEF Finish
  <1>3. doc + 1 \in Nat /\ doc + 1 # 0 /\ doc # 0
    BY <1>1, Constants
  <1>4. (\A w \in Workers : Current(w)' /\ Found(w)') /\ Collected'
    BY <1>1, <1>3, FreshCrew
  <1>5. Fresh'
    BY <1>1 DEF FInv, Fresh
  <1>6. Arriving'
    BY <1>1 DEF Arriving
  <1>7. InUse'
    <2>1. loaded = [d \in Docs |-> loaded[d]]
      BY DEF FInv, InUse
    <2>2. /\ loaded' = [d \in Docs |-> loaded'[d]] /\ loaded'[doc] = found
          /\ \A d \in Docs \ {doc} : loaded'[d] = loaded[d]
      BY <1>1, <1>2, <2>1
    <2> SUFFICES ASSUME NEW d \in Docs, loaded'[d] # None,
                        NEW k \in DOMAIN Documents[d].samples
                 PROVE  Genuine(d, k, loaded'[d][k])
      BY <1>1, <1>3, <2>2 DEF InUse, Genuine, Holds, Agrees
    <2>3. CASE d = doc
      <3>1. loaded'[d] = slots /\ slots[k] # None
        BY <1>1, <1>2, <2>2, <2>3 DEF FInv, Collected
      <3> QED  BY <1>1, <2>3, <3>1 DEF FInv, Collected
    <2>4. CASE d # doc
      BY <1>1, <2>2, <2>4 DEF FInv, InUse, Genuine
    <2> QED  BY <2>3, <2>4
  <1> QED  BY <1>4, <1>5, <1>6, <1>7 DEF FInv

LEMMA StartedSource ==
  ASSUME FInv, IInv', Start
  PROVE  FInv'
  <1>1. /\ doc = 0 /\ UNCHANGED <<source, cache, channel, loaded>>
        /\ doc' = 1 /\ job' = Jobs(1) /\ slots' = Unloaded(1)
    BY DEF Start, files
  <1>2. (\A w \in Workers : Current(w)' /\ Found(w)') /\ Collected'
    BY <1>1, FreshCrew
  <1>3. Fresh'
    BY <1>1 DEF FInv, Fresh
  <1>4. Arriving'
    <2>1. 0 \notin Docs
      BY Constants
    <2> QED  BY <1>1, <2>1 DEF FInv, Arriving
  <1>5. InUse'
    BY <1>1 DEF FInv, InUse
  <1> QED  BY <1>2, <1>3, <1>4, <1>5 DEF FInv

(* No published file is lost, in part or whole. *)
LEMMA CrashedSource ==
  ASSUME FInv, Crash, IInv'
  PROVE  FInv'
  <1>1. /\ doc' = 0 /\ job' = Jobs(0) /\ channel' = <<>> /\ slots' = <<>>
        /\ loaded' = [d \in Docs |-> None] /\ source' = source
    BY DEF Crash
  <1>2. 0 \notin Docs
    BY Constants
  <1>3. slots' = Unloaded(0)
    BY <1>1, <1>2 DEF Unloaded
  <1>4. (\A w \in Workers : Current(w)' /\ Found(w)') /\ Collected'
    BY <1>1, <1>3, FreshCrew
  <1>5. ASSUME NEW p \in Paths
        PROVE  cache'[p] = cache[p]
    <2>1. cache'[p] \in Remains(cache[p])
      BY DEF Crash
    <2>2. cache[p] = None \/ cache[p].synced
      BY DEF FInv, IInv, Published
    <2> QED  BY <2>1, <2>2 DEF Remains
  <1>6. Fresh'
    <2>1. \A r \in Refs : PathOf(r[1], r[2]) \in Paths
      BY DEF Paths
    <2> QED  BY <1>1, <1>5, <2>1 DEF FInv, Fresh
  <1>7. Arriving' /\ InUse'
    BY <1>1 DEF Arriving, InUse
  <1> QED  BY <1>4, <1>6, <1>7 DEF FInv

(* Between two loads a source may change: its caches are then old. *)
LEMMA ReplacedSource ==
  ASSUME SteadySources, FInv, IInv', NEW s \in Sources, NEW wave \in Waves \cup {None},
         Replace(s, wave)
  PROVE  FInv'
  <1>1. /\ doc \notin Docs /\ source' = [source EXCEPT ![s] = wave]
        /\ cache' = [p \in Paths |-> Outdated(cache[p], p, s)]
        /\ UNCHANGED <<doc, job, channel, slots, loaded>>
    BY DEF Replace, load, SteadySources
  <1>2. \A w \in Workers : job'[w].at = "done" /\ job'[w].result = None
    <2> SUFFICES ASSUME NEW w \in Workers
                 PROVE  job[w].at = "done" /\ job[w].result = None
      BY <1>1
    <2>1. job[w].at = "done"
      BY <1>1, AtWork DEF FInv
    <2> QED  BY <2>1 DEF FInv, Found
  <1>3. \A w \in Workers : Current(w)' /\ Found(w)'
    BY <1>2 DEF Current, Found
  <1>4. Arriving' /\ Collected'
    BY <1>1 DEF FInv, Arriving, Collected
  <1>5. ASSUME NEW p \in Paths
        PROVE  /\ cache'[p] = None <=> cache[p] = None
               /\ cache[p] # None =>
                    /\ cache'[p].header = cache[p].header
                    /\ cache'[p].body = cache[p].body
                    /\ cache'[p].old = IF p \in Naming(s) THEN cache[p].old \cup {s}
                                       ELSE cache[p].old
    <2>1. cache'[p] = Outdated(cache[p], p, s)
      BY <1>1
    <2>2. CASE cache[p] = None
      BY <2>1, <2>2 DEF Outdated
    <2>3. CASE cache[p] # None
      <3>1. cache[p] \in Files /\ cache'[p] \in Files \cup {None}
        BY <2>3 DEF FInv, IInv, Types
      <3>2. cache[p].synced /\ cache[p].header \in Waves
        BY <2>3 DEF FInv, IInv, Published
      <3>3. Outdated(cache[p], p, s) =
              IF p \in Naming(s) THEN [cache[p] EXCEPT !.old = cache[p].old \cup {s}]
              ELSE cache[p]
        BY <2>3 DEF Outdated
      <3>4. cache'[p] # None
        <4>1. Outdated(cache[p], p, s) \in Files
          BY <3>1, <2>3, OutdatedFile
        <4> QED  BY <2>1, <4>1, NoneAssumption
      <3> QED  BY <2>1, <2>3, <3>1, <3>3, <3>4 DEF Files
    <2> QED  BY <2>2, <2>3
  <1>6. Fresh'
    <2> SUFFICES ASSUME NEW r \in Refs,
                        cache'[PathOf(r[1], r[2])] # None,
                        source'[SourceOf(r[1], r[2])] # None,
                        SourceOf(r[1], r[2]) \notin cache'[PathOf(r[1], r[2])].old
                 PROVE  cache'[PathOf(r[1], r[2])].header
                          \in {source'[SourceOf(r[1], r[2])], None}
      BY DEF Fresh
    <2>1. PathOf(r[1], r[2]) \in Paths /\ SourceOf(r[1], r[2]) \in Sources
      BY DEF Paths, Sources
    <2>2. SourceOf(r[1], r[2]) # s
      <3> SUFFICES ASSUME SourceOf(r[1], r[2]) = s
                   PROVE  FALSE
        OBVIOUS
      <3>1. PathOf(r[1], r[2]) \in Naming(s)
        BY DEF Naming
      <3> QED  BY <1>5, <2>1, <3>1
    <2>3. source'[SourceOf(r[1], r[2])] = source[SourceOf(r[1], r[2])]
      BY <1>1, <2>1, <2>2 DEF FInv, IInv, Types
    <2> QED  BY <1>5, <2>1, <2>3 DEF FInv, Fresh
  <1>7. InUse'
    <2> SUFFICES ASSUME NEW d \in Docs, loaded[d] # None,
                        NEW k \in DOMAIN Documents[d].samples
                 PROVE  Holds(d, k, loaded[d][k])'
      BY <1>1 DEF FInv, InUse
    <2>1. PathOf(d, k) \in Paths
      BY KnownPath
    <2>2. Holds(d, k, loaded[d][k])
      BY DEF FInv, InUse
    <2> QED  BY <1>1, <1>5, <2>1, <2>2 DEF Holds
  <1> QED  BY <1>3, <1>4, <1>6, <1>7 DEF FInv

LEMMA FInitially == Init => FInv
  <1> SUFFICES ASSUME Init PROVE FInv
    OBVIOUS
  <1>1. /\ doc = 0 /\ job = Jobs(0) /\ channel = <<>>
        /\ cache = [p \in Paths |-> None] /\ loaded = [d \in Docs |-> None]
    BY DEF Init
  <1>2. 0 \notin Docs
    BY Constants
  <1>3. \A w \in Workers : job[w].at = "done" /\ job[w].result = None
    BY <1>1, <1>2 DEF Jobs, Idle
  <1>4. \A w \in Workers : Current(w) /\ Found(w)
    BY <1>3 DEF Current, Found
  <1>5. Fresh
    BY <1>1 DEF Fresh, Paths
  <1>6. Arriving /\ Collected /\ InUse
    BY <1>1, <1>2 DEF Arriving, Collected, InUse
  <1> QED  BY <1>4, <1>5, <1>6, Initially DEF FInv

LEMMA FInductive ==
  ASSUME DistinctNames, SteadySources
  PROVE  FInv /\ [Next]_vars => FInv'
  <1> SUFFICES ASSUME FInv, [Next]_vars PROVE FInv'
    OBVIOUS
  <1>1. IInv'
    BY Inductive DEF FInv
  <1>2. ASSUME NEW w \in Workers, Work(w)
        PROVE  FInv'
    BY <1>1, <1>2, CheckedSource, ReusedSource, DecodedSource, WritingSource,
       RenamedSource, OpenedSource, FailedSource, SentSource DEF Work
  <1>3. CASE Collect
    BY <1>1, <1>3, CollectedSource
  <1>4. CASE Finish
    BY <1>1, <1>4, FinishedSource
  <1>5. CASE Start
    BY <1>1, <1>5, StartedSource
  <1>6. CASE Crash
    BY <1>1, <1>6, CrashedSource
  <1>7. ASSUME NEW s \in Sources, NEW wave \in Waves \cup {None}, Replace(s, wave)
        PROVE  FInv'
    BY <1>1, <1>7, ReplacedSource
  <1>8. CASE UNCHANGED vars
    BY <1>1, <1>8 DEF vars, files, load, FInv, Fresh, Current, Found, Arriving,
       Collected, InUse, Genuine, Holds, Agrees, Src, Path
  <1> QED  BY <1>2, <1>3, <1>4, <1>5, <1>6, <1>7, <1>8 DEF Next

(* A load ends with genuine samples or none. *)
LEMMA FinishAgrees ==
  ASSUME FInv, [Next]_vars, NEW d \in Docs, loaded'[d] \notin {None, loaded[d]},
         NEW k \in DOMAIN Documents[d].samples, source[SourceOf(d, k)] # None
  PROVE  loaded'[d][k].wave = source[SourceOf(d, k)]
  <1>1. ASSUME NEW w \in Workers, Work(w)
        PROVE  loaded' = loaded
    BY <1>1 DEF Work, load, Check, Reuse, Decode, Create, WriteHeader, WriteBlock,
       Sync, Rename, Open, Fail, Send
  <1>2. CASE Collect
    BY <1>2 DEF Collect
  <1>3. CASE Start
    BY <1>3 DEF Start
  <1>4. CASE Crash
    BY <1>4 DEF Crash
  <1>5. ASSUME NEW s \in Sources, NEW wave \in Waves \cup {None}, Replace(s, wave)
        PROVE  loaded' = loaded
    BY <1>5 DEF Replace, load
  <1>6. CASE UNCHANGED vars
    BY <1>6 DEF vars, load
  <1>7. CASE Finish
    <2>1. PICK found : /\ loaded' = [loaded EXCEPT ![doc] = found]
                       /\ found # None => /\ found = slots
                                          /\ \A j \in DOMAIN slots : slots[j] # None
      BY <1>7 DEF Finish
    <2>2. loaded = [c \in Docs |-> loaded[c]] /\ doc \in Docs
      BY <1>7 DEF FInv, InUse, Finish
    <2>3. d = doc /\ loaded'[d] = slots
      BY <2>1, <2>2
    <2>4. Genuine(d, k, slots[k])
      BY <2>1, <2>2, <2>3 DEF FInv, Collected
    <2> QED  BY <2>3, <2>4 DEF Genuine, Agrees
  <1> QED  BY <1>1, <1>2, <1>3, <1>4, <1>5, <1>6, <1>7 DEF Next

(* A decode that has been decided upon: no cache to trust, or an old one.  *)
Wanted ==
  \A w \in Workers : job[w].at = "decode" =>
    ~HasHeader(Path(w)) \/ Src(w) \in cache[Path(w)].old

LEMMA WantedStep ==
  ASSUME DistinctNames, IInv, Wanted, [Next]_vars
  PROVE  Wanted'
  <1>1. ASSUME NEW w \in Workers, Work(w)
        PROVE  Wanted'
    <2>1. CASE Rename(w)
      <3>1. job[w].at = "rename" /\ doc' = doc
            /\ cache' = [cache EXCEPT ![Path(w)] = partial[Path(w)]]
        BY <2>1 DEF Rename, At
      <3> SUFFICES ASSUME NEW v \in Workers, job'[v].at = "decode"
                   PROVE  ~HasHeader(Path(v))' \/ Src(v)' \in cache'[Path(v)'].old
        BY DEF Wanted
      <3>2. v # w /\ job[v].at = "decode" /\ job'[v].k = job[v].k
        <4>1. job[v] \in JobStates
          BY DEF IInv, Types
        <4>2. job'[v] = [job[v] EXCEPT !.fd = Renamed(v, Path(w)),
                                       !.at = IF v = w THEN "open" ELSE job[v].at]
          BY <2>1 DEF Rename
        <4> HIDE DEF Renamed
        <4> QED  BY <4>1, <4>2 DEF JobStates
      <3>3. Path(v)' = Path(v) /\ Src(v)' = Src(v)
        BY <3>1, <3>2 DEF Path, Src
      <3>4. Path(v) # Path(w) /\ Path(v) \in Paths
        BY <3>1, <3>2, OwnPath, AtWork DEF IInv
      <3>5. cache'[Path(v)] = cache[Path(v)]
        BY <3>1, <3>4
      <3> QED  BY <3>2, <3>3, <3>5 DEF Wanted, HasHeader
    <2>2. CASE ~Rename(w)
      <3>1. job[w].at # "done"
        BY <1>1, <2>2 DEF Work, Check, Reuse, Decode, Create, WriteHeader,
           WriteBlock, Sync, Open, Fail, Send, At
      <3>2. doc' = doc /\ cache' = cache
        <4>1. CASE WriteHeader(w) \/ WriteBlock(w) \/ Sync(w)
          <5>1. job[w].at \in {"header", "body"}
            BY <4>1 DEF WriteHeader, WriteBlock, Sync, At
          <5>2. job[w].fd = "partial"
            BY <5>1 DEF IInv, Writers, Writing
          <5> QED  BY <4>1, <5>2 DEF WriteHeader, WriteBlock, Sync, Put
        <4> QED  BY <1>1, <2>2, <4>1 DEF Work, Check, Reuse, Decode, Create,
                 Open, Fail, Send, files
      <3>3. /\ \A v \in Workers \ {w} : job'[v] = job[v]
            /\ job'[w].at = "decode" => /\ job'[w].k = job[w].k
                                        /\ ~HasHeader(Path(w))
                                           \/ Src(w) \in cache[Path(w)].old
        <4>1. job \in [Workers -> JobStates]
          BY DEF IInv, Types
        <4>2. CASE Check(w)
          <5>1. PICK a \in {"decode", "reuse"} :
                  /\ job' = [job EXCEPT ![w].at = a]
                  /\ a = "decode" => \/ cache[Path(w)] = None
                                     \/ Src(w) \in cache[Path(w)].old
            BY <4>2 DEF Check, Goto
          <5> QED  BY <4>1, <5>1 DEF JobStates, HasHeader
        <4>3. CASE Reuse(w)
          BY <4>1, <4>3 DEF Reuse, JobStates
        <4>4. CASE Fail(w) \/ Send(w)
          <5>1. PICK next : job' = [job EXCEPT ![w] = next] /\ next.at # "decode"
            <6>1. CASE Fail(w)
              <7>1. [Idle EXCEPT !.at = "send", !.k = job[w].k].at # "decode"
                BY DEF Idle
              <7>2. job' = [job EXCEPT ![w] = [Idle EXCEPT !.at = "send", !.k = job[w].k]]
                BY <6>1 DEF Fail
              <7> QED  BY <7>1, <7>2
            <6>2. CASE Send(w)
              <7>1. NextJob(w).at # "decode" /\ Idle.at # "decode"
                BY DEF NextJob, Idle
              <7>2. job' = [job EXCEPT ![w] =
                      IF closed \/ (Crew(doc) = 1 /\ job[w].result = None) THEN Idle
                      ELSE NextJob(w)]
                BY <6>2 DEF Send
              <7> QED  BY <7>1, <7>2
            <6> QED  BY <4>4, <6>1, <6>2
          <5> QED  BY <4>1, <5>1
        <4>5. CASE Decode(w) \/ Create(w) \/ Sync(w)
          BY <4>1, <4>5 DEF Decode, Create, Sync, JobStates
        <4>6. CASE WriteHeader(w)
          BY <4>1, <4>6 DEF WriteHeader, Goto, JobStates
        <4>7. CASE WriteBlock(w)
          <5>1. job' = [job EXCEPT ![w].pos = job[w].pos + 1] /\ job[w].at = "body"
            BY <4>7 DEF WriteBlock, At
          <5> QED  BY <4>1, <5>1 DEF JobStates
        <4>8. CASE Open(w)
          <5>1. PICK sample : job' = [job EXCEPT ![w].at = "send", ![w].wave = None,
                                                 ![w].result = sample]
            BY <4>8 DEF Open
          <5> QED  BY <4>1, <5>1 DEF JobStates
        <4> QED  BY <1>1, <2>2, <4>2, <4>3, <4>4, <4>5, <4>6, <4>7, <4>8 DEF Work
      <3> SUFFICES ASSUME NEW v \in Workers, job'[v].at = "decode"
                   PROVE  ~HasHeader(Path(v))' \/ Src(v)' \in cache'[Path(v)'].old
        BY DEF Wanted
      <3>4. Path(v)' = Path(v) /\ Src(v)' = Src(v)
        BY <3>2, <3>3 DEF Path, Src
      <3> QED  BY <3>2, <3>3, <3>4 DEF Wanted, HasHeader
    <2> QED  BY <2>1, <2>2
  <1>2. CASE Finish \/ Start \/ Crash
    <2>1. PICK n : job' = Jobs(n)
      BY <1>2 DEF Finish, Start, Crash
    <2>2. \A v \in Workers : job'[v].at # "decode"
      BY <2>1 DEF Jobs, Idle
    <2> QED  BY <2>2 DEF Wanted
  <1>3. CASE Collect
    BY <1>3 DEF Collect, files, Wanted, HasHeader, Path, Src
  <1>4. ASSUME NEW s \in Sources, NEW wave \in Waves \cup {None}, Replace(s, wave)
        PROVE  Wanted'
    <2>1. /\ cache' = [p \in Paths |-> Outdated(cache[p], p, s)]
          /\ doc' = doc /\ job' = job
      BY <1>4 DEF Replace
    <2> SUFFICES ASSUME NEW v \in Workers, job[v].at = "decode"
                 PROVE  ~HasHeader(Path(v))' \/ Src(v)' \in cache'[Path(v)'].old
      BY <2>1 DEF Wanted
    <2>2. Path(v)' = Path(v) /\ Src(v)' = Src(v) /\ Path(v) \in Paths
      BY <2>1, AtWork DEF Path, Src
    <2>3. cache'[Path(v)] = Outdated(cache[Path(v)], Path(v), s)
      BY <2>1, <2>2
    <2>4. cache[Path(v)] \in Files \cup {None}
      BY AtWork
    <2>5. CASE cache[Path(v)] = None
      BY <2>2, <2>3, <2>5 DEF Outdated, HasHeader
    <2>6. CASE cache[Path(v)] # None
      <3>1. /\ cache'[Path(v)].header = cache[Path(v)].header
            /\ cache[Path(v)].old \subseteq cache'[Path(v)].old
        BY <2>3, <2>4, <2>6 DEF Outdated, Files
      <3> QED  BY <2>2, <2>6, <3>1 DEF Wanted, HasHeader
    <2> QED  BY <2>5, <2>6
  <1>5. CASE UNCHANGED vars
    BY <1>5 DEF vars, files, Wanted, HasHeader, Path, Src
  <1> QED  BY <1>1, <1>2, <1>3, <1>4, <1>5 DEF Next

(* reusable_cache compares times and nothing else, and that is enough: a   *)
(* cache that is not older than its source holds what the source holds,    *)
(* across crashes, failures and replacements between the loads. *)
THEOREM CachesAreFresh ==
  ASSUME DistinctNames, SteadySources
  PROVE  Spec => []Fresh
  <1>1. FInv => Fresh
    BY DEF FInv
  <1> QED  BY <1>1, FInitially, FInductive, PTL DEF Spec

(* The samples of the loaded instruments keep, in their caches, the rest   *)
(* of what their heads begin, whatever the load of a later instrument      *)
(* renames over a cache. *)
THEOREM LoadedSamplesAreBacked ==
  ASSUME DistinctNames, SteadySources
  PROVE  Spec => []Backed
  <1>1. FInv => Backed
    <2> SUFFICES ASSUME FInv, NEW d \in Docs, loaded[d] # None,
                        NEW k \in DOMAIN Documents[d].samples
                 PROVE  /\ cache[PathOf(d, k)] # None
                        /\ cache[PathOf(d, k)].header = loaded[d][k].wave
                        /\ Whole(cache[PathOf(d, k)])
                        /\ loaded[d][k].head =
                             SubSeq(cache[PathOf(d, k)].body, 1,
                                    Resident(loaded[d][k].wave))
      BY DEF Backed
    <2>1. Holds(d, k, loaded[d][k])
      BY DEF FInv, InUse
    <2>2. PathOf(d, k) \in Paths
      BY KnownPath
    <2> QED  BY <2>1, <2>2 DEF Holds, FInv, IInv, Published
  <1> QED  BY <1>1, FInitially, FInductive, PTL DEF Spec

(* An instrument load_all returns has the audio its sources have then. *)
THEOREM LoadsGiveTheSources ==
  ASSUME DistinctNames, SteadySources
  PROVE  Spec => LoadsAreTrue
  <1>1. FInv /\ [Next]_vars =>
          [\A d \in Docs :
             loaded'[d] \notin {None, loaded[d]} =>
               \A k \in DOMAIN Documents[d].samples :
                 source[SourceOf(d, k)] # None =>
                   loaded'[d][k].wave = source[SourceOf(d, k)]]_vars
    BY FinishAgrees
  <1> QED  BY <1>1, FInitially, FInductive, PTL DEF Spec, LoadsAreTrue

(* load_one never decodes a sample that has a cache younger than its       *)
(* source, even when sources are replaced during the load. *)
THEOREM NothingIsDecodedTwice ==
  ASSUME DistinctNames
  PROVE  Spec => DecodedOnce
  <1>1. Init => Wanted
    <2> SUFFICES ASSUME Init PROVE Wanted
      OBVIOUS
    <2>1. job = Jobs(0)
      BY DEF Init
    <2> QED  BY <2>1 DEF Jobs, Idle, Wanted
  <1>2. IInv /\ Wanted /\ [Next]_vars => (IInv /\ Wanted)'
    BY WantedStep, Inductive
  <1>3. IInv /\ Wanted =>
          [\A w \in Workers :
             job[w].at = "decode" /\ job'[w].at = "create" =>
               \/ ~HasHeader(Path(w))
               \/ Src(w) \in cache[Path(w)].old]_vars
    BY DEF Wanted
  <1> QED  BY <1>1, <1>2, <1>3, Initially, PTL DEF Spec, DecodedOnce
=============================================================================
