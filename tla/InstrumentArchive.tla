------------------------- MODULE InstrumentArchive -------------------------
(***************************************************************************)
(* portable-plugin/src/nki_bank.rs: what `Library::parse` makes of an      *)
(* instrument archive and what `Library::load` makes of one of its         *)
(* instruments.                                                            *)
(*                                                                         *)
(* An archive is a set of entries.  An entry has its index, its place in   *)
(* the order of names, a path (a sequence of parts, already in lower       *)
(* case), a kind and what a file of its kind holds.  A map - "nki", "rf" or "sfz" - has the  *)
(* words of its name, and regions, each with the sample it refers to; it   *)
(* may be unreadable.  The reading itself (inflation, JSON, SFZ text,      *)
(* artwork) is left out.                                                   *)
(***************************************************************************)
EXTENDS Naturals, FiniteSets, Sequences, SequencesExt, FiniteSetsExt, TLC

Unsafe == <<>>

\* The k-th number of S.
Nth(S, k) == CHOOSE i \in S : Cardinality({j \in S : j <= i}) = k

\* The sequence s without the places in S, the others in their order.
Without(s, S) == [k \in 1..Cardinality(DOMAIN s \ S) |-> s[Nth(DOMAIN s \ S, k)]]

\* A path without "." and ".."; Unsafe if it leaves the archive or names nothing.
NormalizeArchivePath(path) ==
  LET Step(done, part) ==
        CASE part \in {"", "."} -> done
          [] part = ".." -> IF done.parts = <<>> THEN [done EXCEPT !.left = TRUE]
                            ELSE [done EXCEPT !.parts = Front(@)]
          [] OTHER -> [done EXCEPT !.parts = Append(@, part)]
      end == FoldLeft(Step, [parts |-> <<>>, left |-> FALSE], path)
  IN  IF end.left THEN Unsafe ELSE end.parts

\* A reference of an SFZ map: its own folder, its default_path, the reference.
ResolveArchiveReference(map, reference) ==
  NormalizeArchivePath(Front(map.path) \o map.defaultPath \o reference)

Basename(path) == Last(path)
IsMap(e) == e.kind \in {"nki", "rf", "sfz"}
IsSample(e) == e.kind = "sample"
Samples(archive) == {e \in archive.entries : IsSample(e)}
InOrder(S) == SetToSortSeq(S, LAMBDA a, b : a.order < b.order)

\* Mapped documents look a sample up by its file name; a shallower path wins, then
\* the earlier entry.
SampleByName(archive, name) ==
  CHOOSE e \in Samples(archive) :
    /\ Basename(e.path) = name
    /\ \A o \in Samples(archive) : Basename(o.path) = name =>
         \/ Len(e.path) < Len(o.path)
         \/ Len(e.path) = Len(o.path) /\ e.index <= o.index

SampleByPath(archive, path) == CHOOSE e \in Samples(archive) : e.path = path

\* Is the sample a region refers to in the archive?
HasSample(archive, map, reference) ==
  IF map.kind = "sfz"
  THEN \E e \in Samples(archive) : e.path = ResolveArchiveReference(map, reference)
  ELSE \E e \in Samples(archive) : Basename(e.path) = Basename(reference)

Wanted(archive, map, reference) ==
  IF map.kind = "sfz" THEN SampleByPath(archive, ResolveArchiveReference(map, reference))
  ELSE SampleByName(archive, Basename(reference))

\* The maps the manifest leaves: all, or the one it selects.
MapEntries(archive) ==
  {e \in archive.entries : IsMap(e) /\ (archive.selects = <<>> \/
                                        e.path = NormalizeArchivePath(archive.selects))}

\* The slug, or the first numbered one from 2 on that is free.
UniqueId(used, slug) ==
  LET Numbered(n) == Append(slug, ToString(n))
      free == {n \in 2..Cardinality(used) + 2 : Numbered(n) \notin used}
  IN  IF slug \notin used THEN slug ELSE Numbered(Min(free))

\* A map that is read: regions, and samples that an SFZ map names without leaving the
\* archive.
Readable(archive, map) ==
  /\ map.reads
  /\ map.regions # <<>>
  /\ map.kind = "sfz" => \A i \in DOMAIN map.regions :
       ResolveArchiveReference(map, map.regions[i].sample) # Unsafe
  /\ \A i \in DOMAIN map.regions : HasSample(archive, map, map.regions[i].sample)

\* Each map in turn gets the identifier that is free.
UniqueIds(maps) ==
  LET ids[i \in 0..Len(maps)] ==
        IF i = 0 THEN <<>>
        ELSE Append(ids[i - 1], UniqueId(ToSet(ids[i - 1]), maps[i].slug))
  IN  ids[Len(maps)]

(* Library::parse: a broken or newer manifest, one unsafe or repeated path, or one map
   that is unreadable or misses a sample, refuses the archive; a manifest may not
   select a map that is not there.                                               *)
Failed == <<>>
Parse(archive) ==
  LET maps == InOrder(MapEntries(archive))
      ids == UniqueIds(maps)
  IN  IF \/ ~archive.readable
         \/ \E e \in archive.entries : NormalizeArchivePath(e.path) = Unsafe
         \/ \E e, o \in Samples(archive) : e # o /\ e.path = o.path
         \/ \E e \in MapEntries(archive) : ~Readable(archive, e)
         \/ maps = <<>>
      THEN Failed
      ELSE [i \in DOMAIN maps |-> [id |-> <<maps[i].kind>> \o ids[i], map |-> maps[i]]]

\* Library::load: each sample is counted and decoded once; an instrument whose
\* samples are too large, broken or, for its effects, at the wrong rate does not load.
Loads(archive, map, rate, maxBytes) ==
  LET found == {i \in DOMAIN map.regions : HasSample(archive, map, map.regions[i].sample)}
      needed == {Wanted(archive, map, map.regions[i].sample) : i \in found}
  IN  /\ needed # {}
      /\ MapThenSumSet(LAMBDA e : e.bytes, needed) <= maxBytes
      /\ \A e \in needed : e.decodes
      /\ rate \in map.rates

\* The regions of a loaded instrument; one whose sample is not found is left out.
LoadedRegions(archive, map) ==
  Without(map.regions,
          {i \in DOMAIN map.regions : ~HasSample(archive, map, map.regions[i].sample)})
=============================================================================
