----------------------------- MODULE SfzLibrary -----------------------------
(***************************************************************************)
(* plugin/src/sfz_library.rs: which instruments a library folder yields,   *)
(* in which order and under which identifiers.                             *)
(*                                                                         *)
(* A directory is a record of its label and its files; a file has a place  *)
(* in the order of paths, an extension, the name its document gives, and   *)
(* whether it opens.  A name is a sequence of words, as a slug is once its *)
(* separators are gone; a word is already in lower case.                   *)
(***************************************************************************)
EXTENDS Naturals, FiniteSets, Sequences, SequencesExt, TLC

\* The files of one directory that are instruments, in the order of their paths.
Collect(directory, library) ==
  LET known == {f \in directory.files : f.extension \in {"sfz", "nki"}}
      Earlier(f, g) == f.path < g.path
  IN  [i \in 1..Cardinality(known) |->
         [library |-> library, file |-> SetToSortSeq(known, Earlier)[i]]]

\* Loose files first, then each folder that is not hidden; no deeper.
Found(root) ==
  LET shown == SelectSeq(root.folders, LAMBDA d : ~d.hidden)
  IN  Collect(root, root.label)
        \o FlattenSeq([i \in DOMAIN shown |-> Collect(shown[i], shown[i].label)])

\* A bug to catch: repeats are not told apart.
SharedId(names, i) == IF names[i] = <<>> THEN <<"instrument">> ELSE names[i]

\* A slug, numbered from its second occurrence on.
UniqueId(names, i) ==
  LET slug(k) == IF names[k] = <<>> THEN <<"instrument">> ELSE names[k]
      count == Cardinality({k \in 1..i : slug(k) = slug(i)})
  IN  IF count = 1 THEN slug(i) ELSE Append(slug(i), ToString(count))

\* The instruments loaded; a file that does not open is passed over, the rest stay.
Load(root) ==
  LET opened == SelectSeq(Found(root), LAMBDA f : f.file.opens)
      names == [i \in DOMAIN opened |-> <<opened[i].library>> \o opened[i].file.name]
  IN  [i \in DOMAIN opened |->
         [id |-> UniqueId(names, i), library |-> opened[i].library,
          name |-> opened[i].file.name, damper |-> opened[i].file.damper]]

\* The first instrument of that identifier, 0 if there is none.
IndexOf(library, id) ==
  IF \E i \in DOMAIN library : library[i].id = id
  THEN CHOOSE i \in DOMAIN library :
         library[i].id = id /\ \A j \in 1..i - 1 : library[j].id # id
  ELSE 0
=============================================================================
