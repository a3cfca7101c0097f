---------------------------- MODULE SfzDocument ----------------------------
(***************************************************************************)
(* crates/rf-soundfonts-engine/src/sfz/preprocess.rs and parse.rs: from an *)
(* SFZ file with its includes and macros to one merged opcode map per      *)
(* region.                                                                 *)
(*                                                                         *)
(* A file is a sequence of tokens, one to a line: a header, an opcode with *)
(* its value, a #define or an #include.  A text (a value, a macro name, a  *)
(* path) is a sequence of words, so that one name can be a prefix of       *)
(* another and one value can contain another's name; scanning characters   *)
(* into tokens is left out.                                                *)
(***************************************************************************)
EXTENDS Naturals, SequencesExt

CONSTANTS
  Files,            \* path -> tokens of the file there
  MaxIncludeDepth,
  MaxExpanded       \* MAX_EXPANDED_BYTES, in items of the expanded document

Header(name) == [kind |-> "header", name |-> name]
Opcode(name, text) == [kind |-> "opcode", name |-> name, text |-> text]
Define(name, text) == [kind |-> "define", name |-> name, text |-> text]
Include(path) == [kind |-> "include", text |-> path]

Insert(map, key, value) == (key :> value) @@ map
-----------------------------------------------------------------------------
(* preprocess.rs                                                              *)

\* str::replace: every occurrence, from the left.
ReplaceText(name, value, text) ==
  LET After(i) == SubSeq(text, i, Len(text))
      replaced[i \in 1..Len(text) + 1] ==
        IF i > Len(text) THEN <<>>
        ELSE IF IsPrefix(name, After(i)) THEN value \o replaced[i + Len(name)]
        ELSE <<text[i]>> \o replaced[i + 1]
  IN replaced[1]

\* The macro table: <<>>, or the text of a name defined so far.
MacroNames == {t.name : t \in {t \in UNION {ToSet(Files[p]) : p \in DOMAIN Files} : t.kind = "define"}}
Defined(macros) == {name \in MacroNames : macros[name] # <<>>}

\* A bug to catch: names in their own order, the shorter of two prefixes first.
ShortestFirst(macros) == SetToSortSeq(Defined(macros), LAMBDA a, b : Len(a) < Len(b))

\* substitute: $VEL is a prefix of $VELTRACK, so the longest name is replaced first.
LongestFirst(macros) == SetToSortSeq(Defined(macros), LAMBDA a, b : Len(a) > Len(b))

Substitute(text, macros) ==
  FoldLeft(LAMBDA result, name : ReplaceText(name, macros[name][1], result),
           text, LongestFirst(macros))

\* expand_text's result so far: the macro table is threaded through the includes, so
\* that an include sees the macros defined above it.
Unexpanded == [ok |-> TRUE, macros |-> [name \in MacroNames |-> <<>>], output |-> <<>>]
Refuse(state) == [state EXCEPT !.ok = FALSE]

Emit(state, item) ==
  IF Len(state.output) >= MaxExpanded THEN Refuse(state)
  ELSE [state EXCEPT !.output = Append(@, item)]

\* What the result so far can be.
Texts == Seq(STRING)
Expansions ==
  [ok : BOOLEAN, macros : [MacroNames -> Seq(Texts)],
   output : Seq([kind : {"header"}, name : STRING]
                  \cup [kind : {"opcode"}, name : STRING, text : Texts])]

\* expand_into and expand_line.  An include's path is resolved against the directory
\* of the file it stands in.
ExpandInto[path \in DOMAIN Files, depth \in 0..MaxIncludeDepth, before \in Expansions] ==
  LET Included(state, name) ==
        LET target == SubSeq(path, 1, Len(path) - 1) \o name IN
        IF target \notin DOMAIN Files \/ depth = MaxIncludeDepth THEN Refuse(state)
        ELSE ExpandInto[target, depth + 1, state]
      Line(state, token) ==
        CASE ~state.ok -> state
          [] token.kind = "define" ->
               [state EXCEPT !.macros[token.name] = <<Substitute(token.text, state.macros)>>]
          [] token.kind = "include" -> Included(state, Substitute(token.text, state.macros))
          [] token.kind = "opcode" ->
               Emit(state, [token EXCEPT !.text = Substitute(@, state.macros)])
          [] token.kind = "header" -> Emit(state, token)
  IN FoldLeft(Line, before, Files[path])

Expand(path) == ExpandInto[path, 0, Unexpanded]
-----------------------------------------------------------------------------
(* parse.rs                                                                   *)

ScopeOf(header) ==
  IF header \in {"control", "global", "master", "group", "region", "curve"} THEN header
  ELSE "ignored"

\* Each level resets everything nested inside it; a curve starts empty.
Resets(scope) ==
  CASE scope = "global" -> {"global", "master", "group"}
    [] scope = "master" -> {"master", "group"}
    [] scope \in {"group", "curve"} -> {scope}
    [] OTHER -> {}

\* What parse holds between two items.
Unparsed ==
  [scope |-> "global", curveIndex |-> <<>>, regions |-> <<>>, curves |-> <<>>,
   maps |-> [s \in {"control", "global", "master", "group", "region", "curve"} |-> <<>>]]

\* flush!: a region is complete once something else starts.  A region that states
\* nothing of its own is dropped.
Flush(state) ==
  LET maps == state.maps IN
  CASE state.scope = "region" /\ maps["region"] # <<>> ->
         [state EXCEPT !.regions =
                         Append(@, maps["region"] @@ maps["group"] @@ maps["master"] @@ maps["global"]),
                       !.maps["region"] = <<>>]
    [] state.scope = "curve" /\ state.curveIndex # <<>> ->
         [state EXCEPT !.curves = Insert(@, state.curveIndex, maps["curve"]),
                       !.curveIndex = <<>>, !.maps["curve"] = <<>>]
    [] OTHER -> state

ParseItem(state, item) ==
  IF item.kind = "header"
  THEN LET next == ScopeOf(item.name) flushed == Flush(state) IN
       [flushed EXCEPT !.scope = next,
                       !.maps = [s \in DOMAIN @ |-> IF s \in Resets(next) THEN <<>> ELSE @[s]]]
  ELSE CASE state.scope = "ignored" -> state
         [] state.scope = "curve" /\ item.name = "curve_index" ->
              [state EXCEPT !.curveIndex = item.text]
         [] OTHER -> [state EXCEPT !.maps[state.scope] = Insert(@, item.name, item.text)]

\* parse, of the items of an expanded document.
Parse(items) ==
  LET end == Flush(FoldLeft(ParseItem, Unparsed, items)) IN
  [control |-> end.maps["control"], regions |-> end.regions, curves |-> end.curves]

\* What open has after both stages; a document without regions is refused.
Document(path) ==
  LET expanded == Expand(path) parsed == Parse(expanded.output) IN
  [ok |-> expanded.ok /\ parsed.regions # <<>>, document |-> parsed]
=============================================================================
