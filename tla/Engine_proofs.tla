---------------------------- MODULE Engine_proofs ----------------------------
(***************************************************************************)
(* Proofs about the engine, for every source and every voice.              *)
(*                                                                         *)
(* A voice on its own, whatever its sample, loop, pitch, envelope and      *)
(* fades, reads its own sample only, and unless it is hurried or cut short *)
(* its sample ends with no more than the last step of its fade.  What a source loads as can be played: of a     *)
(* collection every chunk read from the file is followed down to the waves *)
(* and regions made of it, and of a document every region has its loop in  *)
(* the audio held.  So the engine starts only voices such as the first     *)
(* part is about, and implements the voice on its own.  Last come the keys *)
(* the surface is told, and the envelopes of an RF instrument's layers.    *)
(***************************************************************************)
EXTENDS Engine, TLAPS, FiniteSetTheorems, WellFoundedInduction, SequenceTheorems

(* Numbers and sequences.                                                     *)

\* A set of naturals has a least, and a bounded one a greatest.
LEMMA LeastNatural ==
  ASSUME NEW S \in SUBSET Nat, S # {}
  PROVE  Min(S) \in S /\ \A k \in S : Min(S) <= k
<1>1. PICK m \in S : \A k \in S : ~ (<<k, m>> \in OpToRel(<, Nat))
  BY NatLessThanWellFounded, WFMin, Zenon
<1>2. ASSUME NEW k \in S PROVE m <= k
  <2>1. ~ (<<k, m>> \in OpToRel(<, Nat)) BY <1>1
  <2>2. <<k, m>> \in Nat \X Nat BY <1>1
  <2>3. ~ (k < m) BY <2>1, <2>2 DEF OpToRel
  <2>4. k \in Nat /\ m \in Nat OBVIOUS
  <2> QED BY <2>3, <2>4, SMT
<1>3. \E m1 \in S : \A k \in S : m1 <= k BY <1>1, <1>2
<1> QED BY <1>3 DEF Min

LEMMA GreatestBelow ==
  ASSUME NEW bound \in Nat, NEW S \in SUBSET (0..bound), S # {}
  PROVE  Max(S) \in S /\ \A k \in S : Max(S) >= k
<1> DEFINE T == {bound - k : k \in S}
<1>1. T \in SUBSET Nat /\ T # {}
  <2>1. PICK k \in S : TRUE OBVIOUS
  <2>2. bound - k \in T BY <2>1
  <2>3. \A n \in T : n \in Nat OBVIOUS
  <2> HIDE DEF T
  <2> QED BY <2>2, <2>3
<1>2. Min(T) \in T /\ \A k \in T : Min(T) <= k
  <2> HIDE DEF T
  <2> QED BY <1>1, LeastNatural
<1>3. PICK m \in S : Min(T) = bound - m BY <1>2
<1>4. ASSUME NEW k \in S PROVE m >= k
  <2>1. bound - m <= bound - k BY <1>2, <1>3
  <2> QED BY <2>1
<1>5. \E x \in S : \A y \in S : x >= y BY <1>4
<1> QED BY <1>5 DEF Max

\* A sequence, of whatever elements.
IsSeq(s) == Len(s) \in Nat /\ s = [i \in 1..Len(s) |-> s[i]]

LEMMA Joined ==
  ASSUME NEW s, NEW t, IsSeq(s), IsSeq(t)
  PROVE  /\ IsSeq(s \o t) /\ Len(s \o t) = Len(s) + Len(t)
         /\ \A i \in 1..Len(s) : (s \o t)[i] = s[i]
         /\ \A j \in 1..Len(t) : (s \o t)[Len(s) + j] = t[j]
<1> DEFINE W == {s[i] : i \in 1..Len(s)} \cup {t[i] : i \in 1..Len(t)}
           all == s \o t
<1>1. Len(s) \in Nat /\ s = [i \in 1..Len(s) |-> s[i]] BY DEF IsSeq
<1>2. Len(t) \in Nat /\ t = [i \in 1..Len(t) |-> t[i]] BY DEF IsSeq
<1>3. s \in Seq(W) BY <1>1
<1>4. t \in Seq(W) BY <1>2
<1> HIDE DEF W
<1>5. all \in Seq(W) /\ Len(all) = Len(s) + Len(t)
  BY <1>3, <1>4, ConcatProperties
<1>6. \A i \in 1..Len(all) : all[i] = IF i <= Len(s) THEN s[i] ELSE t[i - Len(s)]
  BY <1>3, <1>4, ConcatProperties
<1> HIDE DEF all
<1>7. IsSeq(all) BY <1>5 DEF IsSeq
<1>8. ASSUME NEW i \in 1..Len(s) PROVE all[i] = s[i] BY <1>1, <1>2, <1>5, <1>6
<1>9. ASSUME NEW j \in 1..Len(t) PROVE all[Len(s) + j] = t[j]
  <2>1. Len(s) + j \in 1..Len(all) /\ ~ (Len(s) + j <= Len(s)) /\ (Len(s) + j) - Len(s) = j
    BY <1>1, <1>2, <1>5
  <2> QED BY <1>6, <2>1
<1> QED BY <1>5, <1>7, <1>8, <1>9 DEF all

LEMMA JoinedSet ==
  ASSUME NEW s, NEW t, IsSeq(s), IsSeq(t)
  PROVE  ToSet(s \o t) = ToSet(s) \cup ToSet(t)
<1> DEFINE all == s \o t
<1>1. /\ IsSeq(all) /\ Len(all) = Len(s) + Len(t)
      /\ \A i \in 1..Len(s) : all[i] = s[i]
      /\ \A j \in 1..Len(t) : all[Len(s) + j] = t[j]
  BY Joined
<1> HIDE DEF all
<1>2. Len(s) \in Nat /\ Len(t) \in Nat BY DEF IsSeq
<1>3. \A u : IsSeq(u) => DOMAIN u = 1..Len(u) BY DEF IsSeq
<1>4. DOMAIN s = 1..Len(s) /\ DOMAIN t = 1..Len(t) /\ DOMAIN all = 1..Len(all) BY <1>1, <1>3
<1>5. ASSUME NEW i \in 1..Len(all) PROVE all[i] \in ToSet(s) \cup ToSet(t)
  <2>1. CASE i <= Len(s)
    <3>1. i \in 1..Len(s) BY <1>2, <2>1
    <3> QED BY <1>1, <1>4, <3>1 DEF ToSet
  <2>2. CASE ~ (i <= Len(s))
    <3>1. i - Len(s) \in 1..Len(t) /\ Len(s) + (i - Len(s)) = i BY <1>1, <1>2, <2>2
    <3> QED BY <1>1, <1>4, <3>1 DEF ToSet
  <2> QED BY <2>1, <2>2
<1>6. ASSUME NEW i \in 1..Len(s) PROVE s[i] \in ToSet(all)
  <2>1. i \in 1..Len(all) BY <1>1, <1>2
  <2> QED BY <1>1, <1>4, <2>1 DEF ToSet
<1>7. ASSUME NEW j \in 1..Len(t) PROVE t[j] \in ToSet(all)
  <2>1. Len(s) + j \in 1..Len(all) BY <1>1, <1>2
  <2> QED BY <1>1, <1>4, <2>1 DEF ToSet
<1> QED BY <1>4, <1>5, <1>6, <1>7 DEF ToSet, all
-----------------------------------------------------------------------------
(* The invariant.                                                             *)

\* A sample whose loop is in what is held of it.
PlayableWave(w) ==
  w \in Samples /\ (w.loop # <<>> => w.loop \in Nat \X Nat /\ w.loop[1] < w.loop[2]
                                     /\ w.loop[2] <= w.head)

Shape ==
  /\ wave # NoWave => PlayableWave(wave)
  /\ base \in Nat /\ position \in Nat /\ fade \in Nat

\* Before a voice starts nothing has been read or has run out, and what has run out is over.
Blank == (wave = NoWave => read = Nothing /\ fade = 0 /\ ~ranOut) /\ (ranOut => finished)

\* The frames the fade takes that is under way, or that softens the end.
Rest == IF fade = 0 THEN DeclickFrames ELSE fade

\* At its own pitch the voice reaches the last frame of the fade before the end, but for
\* what the fade lacks.
RoomToFade ==
  wave # NoWave /\ ~Looped /\ ~finished /\ ~hurried /\ ~cutShort /\ Rest > Shortfall =>
    position + (Rest - Shortfall - 1) * base < wave.frames * Parts

VInv == Shape /\ Blank /\ VoiceReadsItsSample /\ RoomToFade /\ RunsOutFaded

(* Arithmetic.                                                                *)

LEMMA Products ==
  ASSUME NEW m \in Nat \ {0}, NEW b \in Nat
  PROVE  (m - 1) * b \in Nat /\ m * b = (m - 1) * b + b
OBVIOUS

LEMMA Quotients ==
  ASSUME NEW p \in Nat, NEW n \in Nat, NEW q \in Nat \ {0}, p < n * q
  PROVE  p \div q \in Nat /\ p \div q < n
OBVIOUS

LEMMA Remainders ==
  ASSUME NEW p \in Nat, NEW q \in Nat \ {0}
  PROVE  p % q \in Nat /\ p % q < q
OBVIOUS

LEMMA Differences ==
  ASSUME NEW m \in Nat, NEW n \in Nat, m < n, NEW q \in Nat \ {0}
  PROVE  /\ (n - m) * q \in Nat \ {0} /\ m * q \in Nat /\ n * q \in Nat
         /\ m * q + (n - m) * q = n * q
<1>1. n - m \in Nat \ {0} OBVIOUS
<1>2. (n - m) * q \in Nat \ {0}
  <2>1. \A a, b \in Nat \ {0} : a * b \in Nat \ {0} OBVIOUS
  <2> QED BY <1>1, <2>1
<1>3. m * q + (n - m) * q = n * q OBVIOUS
<1> QED BY <1>2, <1>3

LEMMA QuotientsFit ==
  ASSUME NEW p \in Nat, NEW q \in Nat \ {0}
  PROVE  p \div q \in Nat /\ (p \div q) * q <= p
OBVIOUS

LEMMA ProductsAreOrdered ==
  ASSUME NEW m \in Nat, NEW n \in Nat, m <= n, NEW b \in Nat
  PROVE  m * b \in Nat /\ n * b \in Nat /\ m * b <= n * b
OBVIOUS

LEMMA FactorsAreOrdered ==
  ASSUME NEW x \in Nat, NEW y \in Nat, NEW q \in Nat \ {0}, x * q < y * q
  PROVE  x < y
<1>1. y <= x => y * q <= x * q BY ProductsAreOrdered
<1>2. x * q \in Nat /\ y * q \in Nat OBVIOUS
<1> QED BY <1>1, <1>2

LEMMA FactorsCommute ==
  ASSUME NEW n \in Nat, NEW q \in Nat, NEW b \in Nat
  PROVE  (n * q) * b = (n * b) * q
OBVIOUS

LEMMA RoomAtTheStart ==
  ASSUME NEW m \in Nat, NEW n \in Nat, m < n, NEW q \in Nat \ {0}, NEW d \in Nat \ {0},
         NEW b \in Nat, ~(n * q < m * q + d * b), NEW k \in Nat, k < d
  PROVE  m * q + k * b < n * q
<1>1. (d - 1) * b \in Nat /\ d * b = (d - 1) * b + b BY Products
<1>2. /\ (n - m) * q \in Nat \ {0} /\ m * q \in Nat /\ n * q \in Nat
      /\ m * q + (n - m) * q = n * q
  BY Differences
<1>3. m * q < n * q BY <1>2
<1>4. b = 0 => (d - 1) * b = 0 BY <1>1
<1>5. k * b \in Nat /\ k * b <= (d - 1) * b
  <2>1. d - 1 \in Nat /\ k <= d - 1 OBVIOUS
  <2> QED BY <2>1, ProductsAreOrdered
<1> QED BY <1>1, <1>2, <1>3, <1>4, <1>5

\* Where the end fade has not begun there is room for as many frames as its time allows,
\* after a frame at no more than the base increment b.
LEMMA RoomBeforeTheFade ==
  ASSUME NEW p \in Nat, NEW e \in Nat, NEW q \in Nat \ {0}, NEW time \in Nat, NEW b \in Nat,
         NEW n \in Nat \ {0}, n * q <= time, NEW i \in Nat, i <= b,
         ~(e * q <= p * q + time * b)
  PROVE  p + i + (n - 1) * b < e
<1>1. (n - 1) * b \in Nat /\ n * b = (n - 1) * b + b BY Products
<1>2. n * q \in Nat /\ n * b \in Nat /\ p + n * b \in Nat BY <1>1
<1>3. (n * q) * b \in Nat /\ time * b \in Nat /\ (n * q) * b <= time * b
  BY <1>2, ProductsAreOrdered
<1>4. (n * q) * b = (n * b) * q BY FactorsCommute
<1>5. (p + n * b) * q = p * q + (n * b) * q
  <2> DEFINE whole == n * b
  <2>1. whole \in Nat BY <1>2
  <2> HIDE DEF whole
  <2>2. (p + whole) * q = p * q + whole * q BY <2>1
  <2> QED BY <2>2 DEF whole
<1>6. e * q \in Nat /\ p * q \in Nat OBVIOUS
<1>7. (p + n * b) * q < e * q BY <1>3, <1>4, <1>5, <1>6
<1>8. p + n * b < e BY <1>2, <1>7, FactorsAreOrdered
<1> QED BY <1>1, <1>2, <1>8

\* But for what it lacks, the end fade takes no longer than its time.
LEMMA FadeFits ==
  /\ DeclickFrames \in Nat \ {0} /\ Shortfall \in {0, 1}
  /\ DeclickFrames - Shortfall \in Nat
  /\ (DeclickFrames - Shortfall) * Parts <= DeclickParts
<1> USE VoiceAssumption DEF VoiceAssumption
<1> DEFINE rounded == (2 * DeclickParts + Parts) \div (2 * Parts)
<1>1. rounded \in Nat /\ rounded * (2 * Parts) <= 2 * DeclickParts + Parts
  <2>1. 2 * DeclickParts + Parts \in Nat /\ 2 * Parts \in Nat \ {0} OBVIOUS
  <2> QED BY <2>1, QuotientsFit
<1>2. DeclickFrames = IF rounded = 0 THEN 1 ELSE rounded BY DEF DeclickFrames
<1> HIDE DEF rounded
<1>3. DeclickFrames \in Nat \ {0} /\ Shortfall \in {0, 1} BY <1>1, <1>2 DEF Shortfall
<1> DEFINE frames == DeclickFrames
<1>4. frames \in Nat \ {0} BY <1>3
<1>5. CASE Shortfall = 0
  <2>1. ~(frames * Parts > DeclickParts) BY <1>5 DEF Shortfall
  <2> HIDE DEF frames
  <2>2. frames * Parts \in Nat BY <1>4
  <2>3. frames * Parts <= DeclickParts BY <2>1, <2>2
  <2> QED BY <1>3, <1>5, <2>3 DEF frames
<1>6. CASE Shortfall = 1
  <2>1. (frames - 1) * Parts \in Nat /\ frames * Parts = (frames - 1) * Parts + Parts
    BY <1>4, Products
  <2>2. CASE rounded = 0
    <3>1. DeclickFrames - Shortfall = 0 BY <1>2, <1>6, <2>2
    <3> QED BY <1>3, <3>1
  <2>3. CASE rounded # 0
    <3>1. frames * (2 * Parts) <= 2 * DeclickParts + Parts BY <1>1, <1>2, <2>3
    <3> HIDE DEF frames
    <3>2. frames * (2 * Parts) = 2 * (frames * Parts) BY <1>4
    <3>3. (frames - 1) * Parts <= DeclickParts BY <2>1, <3>1, <3>2
    <3> QED BY <1>3, <1>6, <3>3 DEF frames
  <2> QED BY <2>2, <2>3
<1> QED BY <1>3, <1>5, <1>6

\* The cursor falls before the end, and so does the frame it is in.
LEMMA CursorIsInside ==
  ASSUME Shape, wave # NoWave, ~RunsOut
  PROVE  /\ Cursor \in Nat /\ Cursor \div Parts \in Nat
         /\ End \in Nat /\ Cursor \div Parts < End
         /\ ~Looped => Cursor = position /\ position < End * Parts
<1> USE VoiceAssumption DEF VoiceAssumption
<1>1. Parts \in Nat \ {0} /\ position \in Nat /\ PlayableWave(wave) BY DEF Shape
<1>2. CASE ~Looped
  <2>1. Cursor = position /\ End = wave.frames BY <1>2 DEF Cursor, End
  <2>2. End \in Nat /\ End * Parts \in Nat BY <1>1, <2>1 DEF PlayableWave, Samples
  <2>3. position < End * Parts BY <1>1, <1>2, <2>2 DEF RunsOut
  <2> QED BY <1>1, <1>2, <2>1, <2>2, <2>3, Quotients
<1>3. CASE Looped
  <2> DEFINE first == wave.loop[1]
             last == wave.loop[2]
             whole == (last - first) * Parts
  <2>1. End = last /\ first \in Nat /\ last \in Nat /\ first < last
    BY <1>1, <1>3 DEF Looped, End, PlayableWave
  <2> HIDE DEF first, last
  <2>2. /\ whole \in Nat \ {0} /\ first * Parts \in Nat /\ last * Parts \in Nat
        /\ first * Parts + whole = last * Parts
    BY <1>1, <2>1, Differences
  <2> HIDE DEF whole
  <2>3. CASE position >= last * Parts
    <3>1. Cursor = first * Parts + ((position - last * Parts) % whole)
      BY <1>3, <2>1, <2>3 DEF Cursor, first, last, whole
    <3>2. position - last * Parts \in Nat BY <1>1, <2>2, <2>3
    <3>3. (position - last * Parts) % whole \in Nat
          /\ (position - last * Parts) % whole < whole
      BY <2>2, <3>2, Remainders
    <3>4. Cursor \in Nat /\ Cursor < last * Parts BY <2>2, <3>1, <3>3
    <3> QED BY <1>1, <1>3, <2>1, <3>4, Quotients
  <2>4. CASE ~(position >= last * Parts)
    <3>1. Cursor = position BY <2>1, <2>4 DEF Cursor
    <3>2. position < last * Parts BY <1>1, <2>2, <2>4
    <3> QED BY <1>1, <1>3, <2>1, <3>1, <3>2, Quotients
  <2> QED BY <2>3, <2>4
<1> QED BY <1>2, <1>3
-----------------------------------------------------------------------------
(* The steps.                                                                 *)

LEMMA VoiceStart == VoiceInit => VInv
<1> SUFFICES ASSUME VoiceInit PROVE VInv OBVIOUS
<1>1. Shape /\ Blank BY DEF VoiceInit, Shape, Blank
<1>2. VoiceReadsItsSample /\ RoomToFade /\ RunsOutFaded
  BY DEF VoiceInit, VoiceReadsItsSample, RoomToFade, RunsOutFaded
<1> QED BY <1>1, <1>2 DEF VInv

\* The end fade is the same for every voice.
LEMMA ShortfallIsFixed == DeclickFrames' = DeclickFrames /\ Shortfall' = Shortfall
BY DEF DeclickFrames, Shortfall

\* Releases and requests move neither the cursor nor what was read.
LEMMA AskStep ==
  ASSUME VInv, NoteOff \/ \E frames \in Fades : AskToFade(frames)
  PROVE  VInv'
<1>1. UNCHANGED <<wave, base, position, finished, read, ranOut>> /\ wave # NoWave
  BY DEF NoteOff, AskToFade, Sounding, Started
<1>2. /\ fade' \in Nat /\ hurried' = hurried
      /\ cutShort' \/ (fade' = fade /\ cutShort' = cutShort)
  <2>1. CASE NoteOff BY <2>1 DEF NoteOff, VInv, Shape
  <2>2. CASE \E frames \in Fades : AskToFade(frames)
    BY <2>2, VoiceAssumption DEF AskToFade, FadeOut, VInv, Shape, VoiceAssumption
  <2> QED BY <2>1, <2>2
<1>3. Shape' /\ Blank' BY <1>1, <1>2 DEF VInv, Shape, Blank
<1>4. VoiceReadsItsSample' BY <1>1 DEF VInv, VoiceReadsItsSample, End, Looped
<1>5. RoomToFade' BY <1>1, <1>2, ShortfallIsFixed DEF VInv, RoomToFade, Rest, Looped
<1>6. RunsOutFaded'
  <2>1. CASE cutShort' BY <2>1 DEF RunsOutFaded
  <2>2. CASE fade' = fade /\ cutShort' = cutShort
    BY <1>1, <1>2, <2>2, ShortfallIsFixed DEF VInv, RunsOutFaded
  <2> QED BY <1>2, <2>1, <2>2
<1> QED BY <1>3, <1>4, <1>5, <1>6 DEF VInv

LEMMA BeginStep ==
  ASSUME VInv, Begin
  PROVE  VInv'
<1> USE VoiceAssumption DEF VoiceAssumption
<1>1. PICK start \in 0..wave'.frames - 1 : StartVoice(wave', base', envelope', start)
  BY DEF Begin
<1>2. /\ wave = NoWave /\ position' = start * Parts /\ wave' \in Samples /\ base' \in Nat
      /\ UNCHANGED <<fade, finished, read, ranOut>>
  BY <1>1 DEF Begin, StartVoice, Started
<1>3. cutShort' = (wave'.frames * Parts < start * Parts + DeclickFrames * base')
  BY <1>1 DEF StartVoice
<1>4. start \in Nat /\ start < wave'.frames /\ wave'.frames \in Nat
  BY <1>2 DEF Samples
<1>5. PlayableWave(wave') BY <1>2 DEF Begin, ValidLoop, PlayableWave, Samples
<1>6. position' \in Nat BY <1>2, <1>4
<1>7. read' = Nothing /\ fade' = 0 /\ ~ranOut' BY <1>2 DEF VInv, Blank
<1>8. Shape' BY <1>2, <1>5, <1>6, <1>7 DEF Shape
<1>9. Blank' /\ VoiceReadsItsSample' /\ RunsOutFaded'
  BY <1>7 DEF Blank, VoiceReadsItsSample, RunsOutFaded
<1>10. ASSUME ~cutShort', DeclickFrames > Shortfall
       PROVE  position' + (DeclickFrames - Shortfall - 1) * base' < wave'.frames * Parts
  <2>1. ~(wave'.frames * Parts < start * Parts + DeclickFrames * base') BY <1>3, <1>10
  <2> DEFINE room == DeclickFrames - Shortfall - 1
  <2>2. room \in Nat /\ room < DeclickFrames /\ DeclickFrames \in Nat \ {0} BY <1>10, FadeFits
  <2> HIDE DEF room
  <2>3. position' + room * base' < wave'.frames * Parts BY <1>2, <1>4, <2>1, <2>2, RoomAtTheStart
  <2> QED BY <2>3 DEF room
<1>11. RoomToFade' BY <1>7, <1>10, ShortfallIsFixed DEF RoomToFade, Rest
<1> QED BY <1>8, <1>9, <1>11 DEF VInv

\* What is read is in the sample, and in the part of it in memory if it loops.
LEMMA RenderReads ==
  ASSUME VInv, NEW increment \in Increments, Render(increment)
  PROVE  VoiceReadsItsSample'
<1> DEFINE index == Cursor \div Parts
           next == IF index + 1 < End THEN index + 1 ELSE IF Looped THEN wave.loop[1] ELSE index
<1>1. wave # NoWave /\ ~RunsOut /\ wave' = wave BY DEF Render, Sounding, Started
<1>2. index \in Nat /\ End \in Nat /\ index < End BY <1>1, CursorIsInside DEF VInv
<1>3. PICK heard \in FrameAt(index) : read' = [index |-> index, heard |-> heard, next |-> next]
  BY DEF Render
<1> HIDE DEF index
<1>4. Looped => wave.loop[1] \in Nat /\ wave.loop[1] < End /\ index < wave.head
  BY <1>1, <1>2 DEF VInv, Shape, PlayableWave, Samples, Looped, End
<1>5. next < End /\ (next # index + 1 /\ Looped => next = wave.loop[1])
  BY <1>2, <1>4
<1>6. (Looped => heard = "audio") /\ (heard = "silence" => index >= wave.head)
  <2>1. wave.head \in Nat BY <1>1 DEF VInv, Shape, PlayableWave, Samples
  <2>2. CASE index < wave.head
    <3>1. heard = "audio" BY <1>3, <2>2 DEF FrameAt
    <3> QED BY <3>1
  <2>3. CASE ~(index < wave.head) BY <1>2, <1>4, <2>1, <2>3
  <2> QED BY <2>2, <2>3
<1>7. End' = End /\ Looped' = Looped BY <1>1 DEF End, Looped
<1> QED BY <1>1, <1>2, <1>3, <1>5, <1>6, <1>7 DEF VoiceReadsItsSample

\* A frame brings the end nearer by no more than it takes off the fade.
LEMMA RenderFades ==
  ASSUME VInv, NEW increment \in Increments, Render(increment)
  PROVE  Shape' /\ RoomToFade'
<1> USE VoiceAssumption DEF VoiceAssumption
<1> DEFINE end == wave.frames * Parts
<1>1. /\ wave # NoWave /\ ~RunsOut /\ ~finished /\ wave' = wave /\ base' = base
      /\ position' = Cursor + increment
      /\ fade' = (IF Declick = 0 THEN 0 ELSE Declick - 1)
  BY DEF Render, Sounding, Started, Over
<1>2. finished' = (Declick = 1) BY DEF Render
<1>3. hurried' = (hurried \/ increment > base) BY DEF Render
<1>4. Cursor \in Nat /\ (~Looped => Cursor = position) BY <1>1, CursorIsInside DEF VInv
<1>5. base \in Nat /\ position \in Nat /\ fade \in Nat /\ increment \in Nat
      /\ DeclickFrames \in Nat \ {0} /\ Shortfall \in {0, 1} /\ PlayableWave(wave)
  BY <1>1, FadeFits DEF VInv, Shape
<1>6. end \in Nat BY <1>5 DEF PlayableWave, Samples
<1>7. Declick \in {fade, DeclickFrames} /\ (fade # 0 => Declick = fade)
  BY <1>5 DEF Declick, FadeOut
<1>8. Shape' BY <1>1, <1>4, <1>5, <1>7 DEF Shape
<1>9. ASSUME ~Looped, ~hurried', ~cutShort, ~finished', Rest' > Shortfall
      PROVE  position' + (Rest' - Shortfall - 1) * base < end
  <2>1. ~hurried /\ increment <= base
    <3>1. ~hurried /\ ~(increment > base) BY <1>3, <1>9
    <3> QED BY <1>5, <3>1
  <2>2. position' = position + increment BY <1>1, <1>4, <1>9
  <2>3. Declick # 1 BY <1>2, <1>9
  <2>4. CASE Declick # 0
    <3> DEFINE m == Declick - 1 - Shortfall
    <3>1. Rest = Declick BY <1>5, <1>7, <2>4 DEF Rest
    <3>2. Rest' = Declick - 1 BY <1>1, <1>5, <1>7, <2>3, <2>4 DEF Rest
    <3>3. m \in Nat \ {0} /\ Rest > Shortfall /\ Rest - Shortfall - 1 = m
          /\ Rest' - Shortfall - 1 = m - 1
      BY <1>5, <1>7, <1>9, <3>1, <3>2
    <3>4. position + (Rest - Shortfall - 1) * base < end
      BY <1>1, <1>9, <2>1, <3>3 DEF VInv, RoomToFade
    <3> HIDE DEF m
    <3>5. position + m * base < end BY <3>3, <3>4
    <3>6. (m - 1) * base \in Nat /\ m * base = (m - 1) * base + base BY <1>5, <3>3, Products
    <3>7. position + increment + (m - 1) * base < end
      <4>1. \A a, d \in Nat : (d = a + base /\ position + d < end) => position + increment + a < end
        BY <1>5, <1>6, <2>1
      <4>2. m * base \in Nat BY <1>5, <3>3
      <4> QED BY <3>5, <3>6, <4>1, <4>2
    <3> QED BY <2>2, <3>3, <3>7
  <2>5. CASE Declick = 0
    <3> DEFINE n == DeclickFrames - Shortfall
    <3>1. fade = 0 /\ Rest' = DeclickFrames
      BY <1>1, <1>5, <1>7, <2>5, ShortfallIsFixed DEF Rest
    <3>2. End = wave.frames BY <1>9 DEF End
    <3>3. ~NearEnd(0) BY <1>5, <1>9, <2>5, <3>1 DEF Declick, FadeOut
    <3>4. ~(end * Parts <= position * Parts + DeclickParts * base)
      BY <1>5, <1>6, <3>2, <3>3 DEF NearEnd
    <3>5. n \in Nat \ {0} /\ n * Parts <= DeclickParts BY <1>5, <1>9, <3>1, FadeFits
    <3> HIDE DEF n, end
    <3>6. position + increment + (n - 1) * base < end
      BY <1>5, <1>6, <2>1, <3>4, <3>5, RoomBeforeTheFade
    <3> QED BY <2>2, <3>1, <3>6 DEF n
  <2> QED BY <2>4, <2>5
<1>10. RoomToFade' BY <1>1, <1>9, ShortfallIsFixed DEF RoomToFade, Looped, Render
<1> QED BY <1>8, <1>10

\* A voice that has room to fade does not run out, so when it does its fade has no more
\* left than it lacks.
LEMMA RunOutIsFaded ==
  ASSUME VInv, RunOut
  PROVE  hurried \/ cutShort \/ Declick <= Shortfall
<1> USE VoiceAssumption DEF VoiceAssumption
<1> SUFFICES ASSUME ~hurried, ~cutShort PROVE Declick <= Shortfall OBVIOUS
<1>1. wave # NoWave /\ ~finished /\ ~Looped /\ position >= End * Parts
  BY DEF RunOut, RunsOut, Sounding, Started, Over
<1>2. End = wave.frames /\ wave.frames * Parts \in Nat /\ position \in Nat
  BY <1>1 DEF VInv, Shape, PlayableWave, Samples, End
<1>3. /\ Rest \in Nat \ {0} /\ base \in Nat /\ fade \in Nat
      /\ DeclickFrames \in Nat \ {0} /\ Shortfall \in {0, 1}
  BY FadeFits DEF VInv, Shape, Rest
<1>4. ~(Rest > Shortfall)
  <2> SUFFICES ASSUME Rest > Shortfall PROVE FALSE OBVIOUS
  <2> DEFINE room == Rest - Shortfall - 1
  <2>1. room \in Nat BY <1>3
  <2>2. position + room * base < wave.frames * Parts BY <1>1 DEF VInv, RoomToFade
  <2> HIDE DEF room
  <2>3. room * base \in Nat BY <1>3, <2>1
  <2>4. \A a \in Nat : ~(position + a < wave.frames * Parts) BY <1>1, <1>2
  <2> QED BY <2>2, <2>3, <2>4
<1>5. Declick \in Nat /\ Declick <= Rest BY <1>3 DEF Declick, FadeOut, Rest
<1> QED BY <1>3, <1>4, <1>5

LEMMA VoiceStep == VInv /\ [VoiceNext \/ Begin]_voiceVars => VInv'
<1> SUFFICES ASSUME VInv, [VoiceNext \/ Begin]_voiceVars PROVE VInv' OBVIOUS
<1>1. CASE NoteOff \/ \E frames \in Fades : AskToFade(frames) BY <1>1, AskStep
<1>2. CASE Begin BY <1>2, BeginStep
<1>3. ASSUME NEW increment \in Increments, Render(increment) PROVE VInv'
  <2>1. VoiceReadsItsSample' BY <1>3, RenderReads
  <2>2. Shape' /\ RoomToFade' BY <1>3, RenderFades
  <2>3. wave # NoWave /\ ~finished /\ UNCHANGED <<wave, ranOut>>
    BY <1>3 DEF Render, Sounding, Started, Over
  <2>4. ~ranOut' BY <2>3 DEF VInv, Blank
  <2>5. Blank' /\ RunsOutFaded' BY <2>3, <2>4 DEF Blank, RunsOutFaded
  <2> QED BY <2>1, <2>2, <2>5 DEF VInv
<1>4. CASE RunOut
  <2>1. /\ wave # NoWave /\ finished' /\ fade' = Declick
        /\ UNCHANGED <<wave, base, position, read, hurried, cutShort>>
    BY <1>4 DEF RunOut, Sounding, Started
  <2>2. fade' \in Nat
    BY <2>1, FadeFits DEF VInv, Shape, Declick, FadeOut
  <2>3. Shape' /\ Blank' /\ RoomToFade'
    BY <2>1, <2>2 DEF VInv, Shape, Blank, RoomToFade
  <2>5. RunsOutFaded'
    BY <1>4, <2>1, RunOutIsFaded, ShortfallIsFixed DEF RunsOutFaded
  <2>4. VoiceReadsItsSample' BY <2>1 DEF VInv, VoiceReadsItsSample, End, Looped
  <2> QED BY <2>3, <2>4, <2>5 DEF VInv
<1>5. CASE Discard
  <2>1. /\ wave' = NoWave /\ base' = 1 /\ position' = 0 /\ fade' = 0
        /\ read' = Nothing /\ ~ranOut'
    BY <1>5 DEF Discard
  <2> QED BY <2>1 DEF VInv, Shape, Blank, RoomToFade, RunsOutFaded, VoiceReadsItsSample
<1>6. CASE UNCHANGED voiceVars
  BY <1>6, ShortfallIsFixed DEF VInv, Shape, Blank, RoomToFade, RunsOutFaded,
     VoiceReadsItsSample, End, Looped, Rest, voiceVars
<1> QED BY <1>1, <1>2, <1>3, <1>4, <1>5, <1>6 DEF VoiceNext, NextFrame

\* A voice reads its own sample only (VoiceReadsItsSample): interpolate_frame stays in
\* the loop or the sample whatever the increment, since the cursor comes back by the
\* remainder of the loop's length, and from_wave accepts no loop beyond the memory.
THEOREM FramesAreInTheSample == VoiceSpec => []VoiceReadsItsSample
<1>1. VInv => VoiceReadsItsSample BY DEF VInv
<1> QED BY <1>1, VoiceStart, VoiceStep, PTL DEF VoiceSpec

\* A voice at its own pitch runs out with at most the last step of its end fade, and
\* not at all where fade_out has not rounded the fade's length up (RunsOutFaded): the
\* declick of next_frame_modulated is begun in the first frame with no more left than its
\* time, and takes that time to the nearest frame.
THEOREM FadesToTheLastStep == VoiceSpec => []RunsOutFaded
<1>1. VInv => RunsOutFaded BY DEF VInv
<1> QED BY <1>1, VoiceStart, VoiceStep, PTL DEF VoiceSpec
-----------------------------------------------------------------------------
(* A collection: the chunks of its file.                                      *)

\* A cell holds a number, and a file is a sequence of cells.
IsFile(file, V) == file \in Seq(V) /\ \A cell \in V : cell.value \in Nat

\* How much of the file a span covers.
Width(at) == IF at.start >= at.end THEN 0 ELSE at.end - at.start
Narrower(file, n) == {at \in Spans(file) : Width(at) < n}

LEMMA Widths ==
  ASSUME NEW V, NEW file, IsFile(file, V), NEW at \in Spans(file)
  PROVE  /\ Width(at) \in Nat /\ Width(at) <= Len(file) /\ Len(file) \in Nat
         /\ at.start \in 0..Len(file) /\ at.end \in 0..Len(file) /\ at.depth \in Nat
<1>1. Len(file) \in Nat BY LenProperties DEF IsFile
<1>2. at.start \in 0..Len(file) /\ at.end \in 0..Len(file) /\ at.depth \in Nat BY DEF Spans
<1> QED BY <1>1, <1>2 DEF Width

LEMMA SpanIs ==
  ASSUME NEW file, NEW start \in 0..Len(file), NEW end \in 0..Len(file), NEW depth \in Nat
  PROVE  /\ Span(start, end, depth) \in Spans(file)
         /\ Span(start, end, depth).start = start /\ Span(start, end, depth).end = end
         /\ Span(start, end, depth).depth = depth
BY DEF Span, Spans

\* Where a chunk ends, and where the next one begins.
To(file, at) == at.start + 2 + file[at.start + 2].value
Next2(file, at) == To(file, at) + (file[at.start + 2].value % 2)

LEMMA ChunkIsInside ==
  ASSUME NEW V, NEW file, IsFile(file, V), NEW at \in Spans(file),
         at.start < at.end, ~ (at.end - at.start < 2)
  PROVE  /\ file[at.start + 2].value \in Nat /\ To(file, at) \in Nat /\ Next2(file, at) \in Nat
         /\ at.start + 2 <= To(file, at) /\ To(file, at) <= Next2(file, at)
         /\ at.start + 2 \in 1..Len(file)
<1>1. /\ Len(file) \in Nat /\ at.start \in 0..Len(file) /\ at.end \in 0..Len(file)
  BY Widths
<1>2. at.start + 2 \in 1..Len(file) BY <1>1
<1>3. file[at.start + 2] \in V BY <1>2, ElementOfSeq DEF IsFile
<1>4. file[at.start + 2].value \in Nat BY <1>3 DEF IsFile
<1> DEFINE size == file[at.start + 2].value
<1>5. size \in Nat BY <1>4
<1> HIDE DEF size
<1>6. size % 2 \in Nat BY <1>5
<1>7. To(file, at) = at.start + 2 + size BY DEF To, size
<1>8. Next2(file, at) = To(file, at) + (size % 2) BY DEF Next2, size
<1>9. To(file, at) \in Nat /\ at.start + 2 <= To(file, at) BY <1>1, <1>5, <1>7
<1>10. Next2(file, at) \in Nat /\ To(file, at) <= Next2(file, at) BY <1>6, <1>8, <1>9
<1> QED BY <1>2, <1>5, <1>9, <1>10 DEF size

\* Reading a span needs what is read of narrower ones only.
LEMMA ChunksNeedNarrower ==
  ASSUME NEW V, NEW file, IsFile(file, V), NEW at \in Spans(file), NEW f, NEW g,
         \A b \in Narrower(file, Width(at)) : f[b] = g[b]
  PROVE  ChunksIn(file, f, at) = ChunksIn(file, g, at)
<1>1. /\ Len(file) \in Nat /\ at.start \in 0..Len(file) /\ at.end \in 0..Len(file)
      /\ at.depth \in Nat /\ Width(at) \in Nat
  BY Widths
<1>2. CASE at.depth > MaxNesting \/ at.start >= at.end \/ at.end - at.start < 2
  BY <1>1, <1>2 DEF ChunksIn
<1>3. CASE ~ (at.depth > MaxNesting \/ at.start >= at.end \/ at.end - at.start < 2)
  <2> DEFINE size == file[at.start + 2].value
             to == To(file, at)
             next == Next2(file, at)
             container == IsContainer(file[at.start + 1].code)
             in == Span(at.start + 3, to, at.depth + 1)
             behind == Span(next, at.end, at.depth)
  <2>1. /\ size \in Nat /\ to \in Nat /\ next \in Nat
        /\ at.start + 2 <= to /\ to <= next
    <3>1. at.start < at.end /\ ~ (at.end - at.start < 2) BY <1>1, <1>3
    <3> QED BY <3>1, ChunkIsInside
  <2>2. Width(at) = at.end - at.start BY <1>1, <1>3 DEF Width
  <2>3. to = at.start + 2 + size BY DEF To
  <2>4. next = to + (size % 2) BY DEF Next2
  <2> HIDE DEF size, to, next
  <2>5. ASSUME ~ (to > at.end), ~ (size < 1) PROVE f[in] = g[in]
    <3>1. at.start + 3 \in 0..Len(file) /\ to \in 0..Len(file) /\ at.depth + 1 \in Nat
      BY <1>1, <2>1, <2>3, <2>5
    <3>2. in \in Spans(file) /\ in.start = at.start + 3 /\ in.end = to BY <3>1, SpanIs
    <3> HIDE DEF in
    <3>3. Width(in) < Width(at) BY <1>1, <1>3, <2>1, <2>2, <2>5, <3>2 DEF Width
    <3> QED BY <3>2, <3>3 DEF Narrower
  <2>6. ASSUME ~ (next > at.end) PROVE f[behind] = g[behind]
    <3>1. next \in 0..Len(file) BY <1>1, <2>1, <2>6
    <3>2. behind \in Spans(file) /\ behind.start = next /\ behind.end = at.end
      BY <1>1, <3>1, SpanIs
    <3> HIDE DEF behind
    <3>3. Width(behind) < Width(at) BY <1>1, <1>3, <2>1, <2>2, <2>6, <3>2 DEF Width
    <3> QED BY <3>2, <3>3 DEF Narrower
  <2> DEFINE Whole(h) ==
        LET inside == IF container THEN h[in] ELSE [ok |-> TRUE, chunks |-> <<>>]
            others == h[behind]
        IN IF to > at.end \/ (container /\ size < 1) THEN Error
           ELSE IF ~inside.ok \/ next > at.end THEN Error
           ELSE IF ~others.ok THEN Error
           ELSE [ok |-> TRUE,
                 chunks |-> <<ChunkAt(file, at.start, inside.chunks)>> \o others.chunks]
  <2>7. ChunksIn(file, f, at) = Whole(f)
    BY <1>3 DEF ChunksIn, size, to, next, To, Next2
  <2>8. ChunksIn(file, g, at) = Whole(g)
    BY <1>3 DEF ChunksIn, size, to, next, To, Next2
  <2>9. Whole(f) = Whole(g)
    <3> HIDE DEF container, in, behind
    <3> QED BY <2>5, <2>6
  <2> QED BY <2>7, <2>8, <2>9
<1> QED BY <1>2, <1>3

\* The chunks found in every span of a file.
Reads(file, parsed) == parsed = [at \in Spans(file) |-> ChunksIn(file, parsed, at)]
ReadsUpTo(file, f, n) == f = [at \in Narrower(file, n) |-> ChunksIn(file, f, at)]

LEMMA ReadsOne ==
  ASSUME NEW file, NEW f, NEW n, ReadsUpTo(file, f, n), NEW at \in Narrower(file, n)
  PROVE  f[at] = ChunksIn(file, f, at)
<1> DEFINE g == [b \in Narrower(file, n) |-> ChunksIn(file, f, b)]
<1>1. g[at] = ChunksIn(file, f, at) OBVIOUS
<1>2. f = g BY DEF ReadsUpTo
<1> HIDE DEF g
<1> QED BY <1>1, <1>2

LEMMA ReadsUpToAny ==
  ASSUME NEW V, NEW file, IsFile(file, V), NEW n \in Nat
  PROVE  \E f : ReadsUpTo(file, f, n)
<1> DEFINE S == {k \in Nat : ~ \E f : ReadsUpTo(file, f, k)}
           m == Min(S)
<1> SUFFICES ASSUME S # {} PROVE FALSE OBVIOUS
<1>1. m \in S /\ \A k \in S : m <= k
  <2>1. S \in SUBSET Nat OBVIOUS
  <2> QED BY <2>1, LeastNatural
<1> HIDE DEF m
<1>2. m \in Nat /\ ~ \E f : ReadsUpTo(file, f, m) BY <1>1
<1>3. m # 0
  <2> DEFINE none == [at \in Narrower(file, 0) |-> 0]
  <2>1. Narrower(file, 0) = {} BY Widths DEF Narrower
  <2>2. none = [at \in Narrower(file, 0) |-> ChunksIn(file, none, at)] BY <2>1
  <2> QED BY <1>2, <2>2 DEF ReadsUpTo
<1>4. m - 1 \in Nat /\ ~ (m <= m - 1) BY <1>2, <1>3
<1>5. PICK f : ReadsUpTo(file, f, m - 1) BY <1>1, <1>4
<1> DEFINE more == [at \in Narrower(file, m) |-> ChunksIn(file, f, at)]
<1>6. ASSUME NEW at \in Narrower(file, m)
      PROVE  ChunksIn(file, f, at) = ChunksIn(file, more, at)
  <2>1. at \in Spans(file) /\ Width(at) \in Nat /\ Width(at) < m BY Widths DEF Narrower
  <2>2. ASSUME NEW b \in Narrower(file, Width(at)) PROVE f[b] = more[b]
    <3>1. Width(b) \in Nat /\ Width(b) < m - 1 /\ b \in Spans(file)
      BY <1>2, <2>1, Widths DEF Narrower
    <3>2. b \in Narrower(file, m) /\ b \in Narrower(file, m - 1) BY <1>2, <3>1 DEF Narrower
    <3>3. more[b] = ChunksIn(file, f, b) BY <3>2
    <3>4. f[b] = ChunksIn(file, f, b) BY <1>5, <3>2, ReadsOne
    <3> QED BY <3>3, <3>4
  <2> HIDE DEF more
  <2> QED BY <2>1, <2>2, ChunksNeedNarrower
<1>7. more = [at \in Narrower(file, m) |-> ChunksIn(file, more, at)]
  <2> DEFINE g == [at \in Narrower(file, m) |-> ChunksIn(file, more, at)]
  <2>1. \A at \in Narrower(file, m) : more[at] = g[at] BY <1>6
  <2> QED BY <2>1
<1>8. ReadsUpTo(file, more, m) BY <1>7 DEF ReadsUpTo
<1> QED BY <1>2, <1>8

LEMMA ParsedReads ==
  ASSUME NEW V, NEW file, IsFile(file, V)
  PROVE  \E parsed : /\ Reads(file, parsed)
                     /\ ParseChunks(file) = parsed[Span(0, Len(file), 0)]
<1>1. Len(file) + 1 \in Nat BY LenProperties DEF IsFile
<1>2. Narrower(file, Len(file) + 1) = Spans(file) BY <1>1, Widths DEF Narrower
<1>3. \E f : Reads(file, f) BY <1>1, <1>2, ReadsUpToAny DEF Reads, ReadsUpTo
<1> DEFINE parsed == CHOOSE f : Reads(file, f)
<1>4. Reads(file, parsed) BY <1>3
<1>5. ParseChunks(file) = parsed[Span(0, Len(file), 0)] BY DEF ParseChunks, Reads
<1> QED BY <1>4, <1>5

LEMMA ParsedAt ==
  ASSUME NEW file, NEW parsed, Reads(file, parsed), NEW at \in Spans(file)
  PROVE  parsed[at] = ChunksIn(file, parsed, at)
<1> DEFINE g == [b \in Spans(file) |-> ChunksIn(file, parsed, b)]
<1>1. g[at] = ChunksIn(file, parsed, at) OBVIOUS
<1>2. parsed = g BY DEF Reads
<1> HIDE DEF g
<1> QED BY <1>1, <1>2

\* A set of chunks whose data is of cells and whose children are in it.
IsTree(W, V) == \A c \in W : c.data \in Seq(V) /\ c.children \in Seq(W)

LEMMA AddedChunk ==
  ASSUME NEW c, NEW W, NEW s \in Seq(W)
  PROVE  /\ Len(<<c>> \o s) \in Nat /\ Len(<<c>> \o s) # 0
         /\ (<<c>> \o s)[1] = c /\ <<c>> \o s \in Seq(W \cup {c})
         /\ \A i \in 1..Len(<<c>> \o s) : (<<c>> \o s)[i] = c \/ (<<c>> \o s)[i] \in W
<1>1. <<c>> \in Seq(W \cup {c}) /\ Len(<<c>>) = 1 /\ <<c>>[1] = c OBVIOUS
<1>2. s \in Seq(W \cup {c}) /\ Len(s) \in Nat OBVIOUS
<1> DEFINE t == <<c>> \o s
<1>3. /\ t \in Seq(W \cup {c}) /\ Len(t) = 1 + Len(s)
      /\ \A i \in 1..Len(t) : t[i] = IF i <= 1 THEN <<c>>[i] ELSE s[i - 1]
  BY <1>1, <1>2, ConcatProperties
<1> HIDE DEF t
<1>4. t[1] = c BY <1>1, <1>2, <1>3
<1>5. \A i \in 1..Len(t) : t[i] \in W \cup {c} BY <1>3, ElementOfSeq
<1> QED BY <1>2, <1>3, <1>4, <1>5 DEF t

\* The chunks of one span that is read, in those of all spans.
Found(file, parsed) == UNION {ToSet(parsed[b].chunks) : b \in {b \in Spans(file) : parsed[b].ok}}

LEMMA SpanChunks ==
  ASSUME NEW V, NEW file, IsFile(file, V), NEW parsed, Reads(file, parsed),
         NEW at \in Spans(file), parsed[at].ok,
         \A b \in Narrower(file, Width(at)) :
           parsed[b].ok => parsed[b].chunks \in Seq(Found(file, parsed))
  PROVE  /\ parsed[at].chunks \in Seq(Found(file, parsed))
         /\ \A c \in ToSet(parsed[at].chunks) :
              \/ c.data \in Seq(V) /\ c.children \in Seq(Found(file, parsed))
              \/ \E b \in Narrower(file, Width(at)) : parsed[b].ok /\ c \in ToSet(parsed[b].chunks)
<1>1. /\ Len(file) \in Nat /\ at.start \in 0..Len(file) /\ at.end \in 0..Len(file)
      /\ at.depth \in Nat /\ Width(at) \in Nat
  BY Widths
<1>2. parsed[at] = ChunksIn(file, parsed, at) BY ParsedAt
<1> DEFINE size == file[at.start + 2].value
           to == To(file, at)
           next == Next2(file, at)
           id == file[at.start + 1].code
           container == IsContainer(id)
           in == Span(at.start + 3, to, at.depth + 1)
           behind == Span(next, at.end, at.depth)
           inside == IF container THEN parsed[in] ELSE [ok |-> TRUE, chunks |-> <<>>]
           others == parsed[behind]
           W == Found(file, parsed)
           chunk == ChunkAt(file, at.start, inside.chunks)
<1>3. CASE at.depth > MaxNesting \/ (at.end - at.start < 2 /\ at.start < at.end)
  <2>1. CASE at.depth > MaxNesting
    <3>1. parsed[at] = Error BY <1>2, <2>1 DEF ChunksIn
    <3> QED BY <3>1 DEF Error
  <2>2. CASE ~ (at.depth > MaxNesting) /\ at.end - at.start < 2 /\ at.start < at.end
    <3>1. ~ (at.start >= at.end) BY <1>1, <2>2
    <3>2. parsed[at] = Error BY <1>2, <2>2, <3>1 DEF ChunksIn
    <3> QED BY <3>2 DEF Error
  <2> QED BY <1>3, <2>1, <2>2
<1>4. CASE ~ (at.depth > MaxNesting) /\ at.start >= at.end
  <2>1. parsed[at].chunks = <<>> BY <1>1, <1>2, <1>4 DEF ChunksIn
  <2> QED BY <2>1 DEF ToSet
<1>5. CASE ~ (at.depth > MaxNesting \/ at.start >= at.end \/ at.end - at.start < 2)
  <2>1. parsed[at] = IF to > at.end \/ (container /\ size < 1) THEN Error
           ELSE IF ~inside.ok \/ next > at.end THEN Error
           ELSE IF ~others.ok THEN Error
           ELSE [ok |-> TRUE, chunks |-> <<chunk>> \o others.chunks]
    BY <1>2, <1>5 DEF ChunksIn, To, Next2
  <2>2. /\ size \in Nat /\ to \in Nat /\ next \in Nat
        /\ at.start + 2 <= to /\ to <= next
    <3>1. at.start < at.end /\ ~ (at.end - at.start < 2) BY <1>1, <1>5
    <3> QED BY <3>1, ChunkIsInside
  <2>3. Width(at) = at.end - at.start BY <1>1, <1>5 DEF Width
  <2>4. to = at.start + 2 + size BY DEF To
  <2> HIDE DEF size, to, next, container, inside, others, chunk
  <2>5. /\ ~ (to > at.end \/ (container /\ size < 1)) /\ inside.ok /\ ~ (next > at.end)
        /\ others.ok /\ parsed[at].chunks = <<chunk>> \o others.chunks
    <3>1. parsed[at] # Error BY DEF Error
    <3> QED BY <2>1, <3>1
  <2>5a. container => size >= 1 /\ at.start + 3 <= to
    <3>1. container => ~ (size < 1) BY <2>5, Zenon
    <3>2. ~ (size < 1) => size >= 1 /\ at.start + 3 <= to BY <1>1, <2>2, <2>4
    <3> QED BY <3>1, <3>2
  <2>5b. to <= at.end BY <1>1, <2>2, <2>5
  <2> HIDE DEF W
  <2>6. behind \in Narrower(file, Width(at)) /\ others.chunks \in Seq(W)
    <3>1. next \in 0..Len(file) BY <1>1, <2>2, <2>5
    <3>2. behind \in Spans(file) /\ behind.start = next /\ behind.end = at.end
      BY <1>1, <3>1, SpanIs
    <3> HIDE DEF behind
    <3>3. Width(behind) < Width(at) BY <1>1, <1>5, <2>2, <2>3, <2>5, <3>2 DEF Width
    <3>4. behind \in Narrower(file, Width(at)) BY <3>2, <3>3 DEF Narrower
    <3> QED BY <2>5, <3>4 DEF W, others
  <2>7. inside.chunks \in Seq(W)
    <3>1. CASE container
      <4>1. at.start + 3 \in 0..Len(file) /\ to \in 0..Len(file) /\ at.depth + 1 \in Nat
        BY <1>1, <2>2, <2>5a, <2>5b, <3>1
      <4>2. in \in Spans(file) /\ in.start = at.start + 3 /\ in.end = to BY <4>1, SpanIs
      <4> HIDE DEF in
      <4>3. Width(in) < Width(at) BY <1>1, <1>5, <2>2, <2>3, <2>5, <4>2 DEF Width
      <4>4. in \in Narrower(file, Width(at)) BY <4>2, <4>3 DEF Narrower
      <4> QED BY <2>5, <3>1, <4>4 DEF W, inside
    <3>2. CASE ~container
      <4>1. inside.chunks = <<>> BY <3>2 DEF inside
      <4> QED BY <4>1
    <3> QED BY <3>1, <3>2
  <2>8. chunk.data \in Seq(V) /\ chunk.children \in Seq(W)
    <3> DEFINE payload == IF container THEN at.start + 3 ELSE at.start + 2
    <3>1. chunk.children = inside.chunks BY DEF chunk, ChunkAt
    <3>2. chunk.data = SubSeq(file, payload + 1, to) BY <2>4 DEF chunk, ChunkAt, size, container
    <3>3. payload + 1 \in 1..Len(file) + 1 /\ to \in payload + 1 - 1..Len(file)
      BY <1>1, <2>2, <2>5a, <2>5b
    <3> HIDE DEF payload
    <3>4. SubSeq(file, payload + 1, to) \in Seq(V) BY <3>3, SubSeqProperties DEF IsFile
    <3> QED BY <2>7, <3>1, <3>2, <3>4
  <2> HIDE DEF behind
  <2> DEFINE all == <<chunk>> \o others.chunks
  <2>9. /\ Len(all) \in Nat /\ Len(all) # 0 /\ all[1] = chunk /\ all \in Seq(W \cup {chunk})
        /\ \A i \in 1..Len(all) : all[i] = chunk \/ all[i] \in W
    BY <2>6, AddedChunk
  <2> HIDE DEF all
  <2>10. parsed[at].chunks = all BY <2>5 DEF all
  <2>11. chunk \in W
    <3>1. 1 \in DOMAIN all BY <2>9
    <3>2. chunk \in ToSet(parsed[at].chunks) BY <2>9, <2>10, <3>1 DEF ToSet
    <3> QED BY <3>2 DEF W, Found
  <2>12. W \cup {chunk} = W BY <2>11
  <2>13. \A c \in ToSet(all) : c = chunk \/ c \in ToSet(others.chunks)
    <3>1. ASSUME NEW i \in 1..Len(all), i # 1 PROVE all[i] \in ToSet(others.chunks)
      <4>1. <<chunk>> \in Seq(W) /\ Len(<<chunk>>) = 1 BY <2>11
      <4>2. Len(all) = 1 + Len(others.chunks)
            /\ all[i] = IF i <= 1 THEN <<chunk>>[i] ELSE others.chunks[i - 1]
        BY <2>6, <4>1, ConcatProperties DEF all
      <4>3. Len(others.chunks) \in Nat /\ DOMAIN others.chunks = 1..Len(others.chunks) BY <2>6
      <4>4. i - 1 \in DOMAIN others.chunks /\ all[i] = others.chunks[i - 1] BY <3>1, <4>2, <4>3
      <4> QED BY <4>4 DEF ToSet
    <3>2. DOMAIN all = 1..Len(all) BY <2>9
    <3> QED BY <2>9, <3>1, <3>2 DEF ToSet
  <2>14. parsed[at].chunks \in Seq(W) BY <2>9, <2>10, <2>12
  <2>15. others.ok /\ others = parsed[behind] BY <2>5 DEF others
  <2>16. ASSUME NEW c \in ToSet(parsed[at].chunks)
         PROVE  \/ c.data \in Seq(V) /\ c.children \in Seq(W)
                \/ \E b \in Narrower(file, Width(at)) : parsed[b].ok /\ c \in ToSet(parsed[b].chunks)
    <3>1. CASE c = chunk BY <2>8, <3>1
    <3>2. CASE c \in ToSet(others.chunks) BY <2>6, <2>15, <3>2
    <3> QED BY <2>10, <2>13, <3>1, <3>2
  <2> QED BY <2>14, <2>16 DEF W
<1>6. at.start >= at.end \/ at.start < at.end BY <1>1
<1>7. \/ at.depth > MaxNesting \/ (at.end - at.start < 2 /\ at.start < at.end)
      \/ ~ (at.depth > MaxNesting) /\ at.start >= at.end
      \/ ~ (at.depth > MaxNesting \/ at.start >= at.end \/ at.end - at.start < 2)
  BY <1>6, Zenon
<1> HIDE DEF W
<1> QED BY <1>3, <1>4, <1>5, <1>7, Zenon DEF W

\* What a file that parses is: a tree of chunks.
LEMMA TreeOfChunks ==
  ASSUME NEW V, NEW file, IsFile(file, V), ParseChunks(file).ok
  PROVE  \E W : IsTree(W, V) /\ ParseChunks(file).chunks \in Seq(W)
<1>1. PICK parsed : Reads(file, parsed) /\ ParseChunks(file) = parsed[Span(0, Len(file), 0)]
  BY ParsedReads
<1> DEFINE W == Found(file, parsed)
           Good(at) == parsed[at].ok => parsed[at].chunks \in Seq(W)
           Built(at) == \A c \in ToSet(parsed[at].chunks) :
                          parsed[at].ok => c.data \in Seq(V) /\ c.children \in Seq(W)
           S == {k \in Nat : \E at \in Spans(file) : Width(at) = k /\ ~ (Good(at) /\ Built(at))}
<1> HIDE DEF Good, Built
<1>2. S = {}
  <2> DEFINE m == Min(S)
  <2> SUFFICES ASSUME S # {} PROVE FALSE OBVIOUS
  <2>1. m \in S /\ \A k \in S : m <= k
    <3>1. S \in SUBSET Nat OBVIOUS
    <3> QED BY <3>1, LeastNatural
  <2> HIDE DEF m
  <2>2. PICK at \in Spans(file) : Width(at) = m /\ ~ (Good(at) /\ Built(at)) BY <2>1
  <2>3. ASSUME NEW b \in Narrower(file, Width(at)) PROVE Good(b) /\ Built(b)
    <3>1. b \in Spans(file) /\ Width(b) \in Nat /\ Width(b) < m /\ m \in Nat
      BY <2>1, <2>2, Widths DEF Narrower
    <3>2. Width(b) \notin S BY <2>1, <3>1
    <3> QED BY <3>1, <3>2
  <2>4. parsed[at].ok BY <2>2 DEF Good, Built
  <2>5. /\ parsed[at].chunks \in Seq(W)
        /\ \A c \in ToSet(parsed[at].chunks) :
              \/ c.data \in Seq(V) /\ c.children \in Seq(W)
              \/ \E b \in Narrower(file, Width(at)) : parsed[b].ok /\ c \in ToSet(parsed[b].chunks)
    BY <1>1, <2>3, <2>4, SpanChunks DEF Good
  <2>6. Good(at) /\ Built(at) BY <2>3, <2>5 DEF Good, Built
  <2> QED BY <2>2, <2>6
<1>3. ASSUME NEW at \in Spans(file) PROVE Good(at) /\ Built(at)
  <2>1. Width(at) \in Nat BY Widths
  <2> QED BY <1>2, <2>1
<1>4. IsTree(W, V)
  <2>1. ASSUME NEW c \in W PROVE c.data \in Seq(V) /\ c.children \in Seq(W)
    <3>1. PICK b \in Spans(file) : parsed[b].ok /\ c \in ToSet(parsed[b].chunks) BY DEF Found
    <3> QED BY <1>3, <3>1 DEF Built
  <2> QED BY <2>1 DEF IsTree
<1>5. Span(0, Len(file), 0) \in Spans(file)
  <2>1. Len(file) \in Nat BY LenProperties DEF IsFile
  <2> QED BY <2>1, SpanIs
<1> QED BY <1>1, <1>3, <1>4, <1>5 DEF Good
-----------------------------------------------------------------------------
(* What the parsers of chunks give.                                           *)

Loops == {<<>>} \cup (Nat \X Nat)

LEMMA Children ==
  ASSUME NEW W, NEW V, IsTree(W, V), NEW c \in W
  PROVE  /\ Len(c.children) \in Nat /\ DOMAIN c.children = 1..Len(c.children)
         /\ \A n \in DOMAIN c.children : c.children[n] \in W
         /\ c.data \in Seq(V)
<1>1. c.children \in Seq(W) /\ c.data \in Seq(V) BY DEF IsTree
<1> DEFINE s == c.children
<1>2. s \in Seq(W) BY <1>1
<1> HIDE DEF s
<1>3. Len(s) \in Nat /\ DOMAIN s = 1..Len(s) /\ \A n \in DOMAIN s : s[n] \in W BY <1>2
<1> QED BY <1>1, <1>3 DEF s

LEMMA FirstOfSome ==
  ASSUME NEW W, NEW V, IsTree(W, V), NEW c \in W, NEW places \in SUBSET DOMAIN c.children,
         FirstOf(c.children, places) # <<>>
  PROVE  FirstOf(c.children, places)[1] \in W
<1>1. places # {} /\ FirstOf(c.children, places) = <<c.children[Min(places)]>> BY DEF FirstOf
<1>2. places \in SUBSET Nat BY Children
<1>3. Min(places) \in places BY <1>1, <1>2, LeastNatural
<1> QED BY <1>1, <1>3, Children

LEMMA ChildIs ==
  ASSUME NEW W, NEW V, IsTree(W, V), NEW c \in W, NEW id, Child(c, id) # <<>>
  PROVE  Child(c, id)[1] \in W
<1> DEFINE places == {n \in DOMAIN c.children : c.children[n].id = id}
<1>1. places \in SUBSET DOMAIN c.children OBVIOUS
<1>2. Child(c, id) = FirstOf(c.children, places) BY DEF Child
<1> HIDE DEF places
<1> QED BY <1>1, <1>2, FirstOfSome

LEMMA ListIs ==
  ASSUME NEW W, NEW V, IsTree(W, V), NEW c \in W, NEW kind, List(c, kind) # <<>>
  PROVE  List(c, kind)[1] \in W
<1>1. Listed(c, {kind}) \in SUBSET DOMAIN c.children BY DEF Listed
<1> QED BY <1>1, FirstOfSome DEF List

LEMMA RequiredIs ==
  ASSUME NEW W, NEW V, IsTree(W, V), NEW c \in W, NEW id, NEW size \in Nat,
         Required(c, id, size) # <<>>
  PROVE  /\ Required(c, id, size) \in Seq(V) /\ Len(Required(c, id, size)) \in Nat
         /\ Len(Required(c, id, size)) >= size
<1> DEFINE data == Required(c, id, size)
<1>1. /\ Child(c, id) # <<>> /\ Len(Child(c, id)[1].data) >= size
      /\ data = Child(c, id)[1].data
  BY DEF Required
<1>2. data \in Seq(V) BY <1>1, ChildIs, Children
<1> HIDE DEF data
<1>3. Len(data) \in Nat BY <1>2
<1> QED BY <1>1, <1>2, <1>3 DEF data

LEMMA FieldIs ==
  ASSUME NEW V, \A cell \in V : cell.value \in Nat, NEW data \in Seq(V), NEW n \in Nat, n < Len(data)
  PROVE  Field(data, n) \in Nat
<1>1. Len(data) \in Nat OBVIOUS
<1>2. n + 1 \in 1..Len(data) BY <1>1
<1>3. data[n + 1] \in V BY <1>2, ElementOfSeq
<1> QED BY <1>3 DEF Field

LEMMA WsmpIs ==
  ASSUME NEW V, \A cell \in V : cell.value \in Nat, NEW data \in Seq(V), ParseWsmp(data).ok
  PROVE  ParseWsmp(data).loop \in Loops
<1> DEFINE header == Field(data, 0)
           loops == Field(data, 5)
           looped == From(data, header)
           parsed == ParseWsmp(data)
<1>1. Len(data) \in Nat OBVIOUS
<1>2. parsed =
        IF Len(data) < 6 \/ header \notin 6..Len(data) THEN Error
        ELSE IF loops = 0 THEN [ok |-> TRUE, unity |-> Field(data, 1), loop |-> <<>>]
        ELSE IF Len(looped) < 4 \/ Field(looped, 0) < 4 \/ header + Field(looped, 0) > Len(data)
        THEN Error
        ELSE IF Field(looped, 1) > 1 THEN Error
        ELSE [ok |-> TRUE, unity |-> Field(data, 1),
              loop |-> <<Field(looped, 2), Field(looped, 2) + Field(looped, 3)>>]
  BY DEF ParseWsmp
<1>3. ~ Error.ok BY DEF Error
<1>4. header \in 6..Len(data)
  <2> HIDE DEF header, loops, looped
  <2> QED BY <1>2, <1>3
<1>5. looped \in Seq(V)
  <2> HIDE DEF header
  <2>1. header + 1 \in 1..Len(data) + 1 /\ Len(data) \in header + 1 - 1..Len(data) BY <1>1, <1>4
  <2> QED BY <2>1, SubSeqProperties DEF From
<1>6. Len(looped) \in Nat BY <1>5
<1>7. CASE loops = 0
  <2> HIDE DEF header, loops, looped
  <2>1. parsed.loop = <<>> BY <1>2, <1>3, <1>7
  <2> QED BY <2>1 DEF Loops
<1>8. CASE loops # 0
  <2>1. /\ ~ (Len(looped) < 4)
        /\ parsed.loop = <<Field(looped, 2), Field(looped, 2) + Field(looped, 3)>>
    <3> HIDE DEF header, loops, looped
    <3> QED BY <1>2, <1>3, <1>8
  <2> HIDE DEF looped
  <2>2. Field(looped, 2) \in Nat /\ Field(looped, 3) \in Nat BY <1>5, <1>6, <2>1, FieldIs
  <2> QED BY <2>1, <2>2 DEF Loops
<1> QED BY <1>7, <1>8

LEMMA ParamsAre ==
  ASSUME NEW W, NEW V, IsTree(W, V), \A cell \in V : cell.value \in Nat, NEW c \in W,
         Params(c).params.ok
  PROVE  Params(c).params.loop \in Loops
<1>1. CASE Child(c, "wsmp") = <<>>
  <2>1. Params(c).params = NoParams BY <1>1 DEF Params
  <2> QED BY <2>1 DEF NoParams, Loops
<1>2. CASE Child(c, "wsmp") # <<>>
  <2>1. Params(c).params = ParseWsmp(Child(c, "wsmp")[1].data) BY <1>2 DEF Params
  <2>2. Child(c, "wsmp")[1].data \in Seq(V) BY <1>2, ChildIs, Children
  <2> QED BY <2>1, <2>2, WsmpIs
<1> QED BY <1>1, <1>2

\* A wave has audio, and its loop is in it.
SoundWave(w) ==
  /\ w.frames \in Nat \ {0} /\ w.params.loop \in Loops
  /\ w.params.loop # <<>> => w.params.loop[1] < w.params.loop[2] /\ w.params.loop[2] <= w.frames

LEMMA WaveIs ==
  ASSUME NEW W, NEW V, IsTree(W, V), \A cell \in V : cell.value \in Nat, NEW c \in W,
         ParseWave(c).ok
  PROVE  SoundWave(ParseWave(c))
<1> DEFINE format == Required(c, "fmt ", 5)
           audio == Required(c, "data", 1)
           channels == Field(format, 1)
           frames == Len(audio) \div channels
           wsmp == Params(c)
           loop == wsmp.params.loop
           w == ParseWave(c)
<1>1. w = IF format = <<>> THEN Error
     ELSE IF Field(format, 0) # 1 \/ channels \notin 1..2 \/ Field(format, 4) # 16 THEN Error
     ELSE IF Field(format, 3) # channels * 2 \/ Field(format, 2) = 0 THEN Error
     ELSE IF audio = <<>> \/ Len(audio) % channels # 0 \/ ~wsmp.params.ok THEN Error
     ELSE IF loop # <<>> /\ (loop[1] >= loop[2] \/ loop[2] > frames) THEN Error
     ELSE [ok |-> TRUE, frames |-> frames, given |-> wsmp.given, params |-> wsmp.params]
  BY DEF ParseWave
<1>2. ~ Error.ok BY DEF Error
<1>3. /\ channels \in 1..2 /\ audio # <<>> /\ Len(audio) % channels = 0 /\ wsmp.params.ok
      /\ ~ (loop # <<>> /\ (loop[1] >= loop[2] \/ loop[2] > frames))
      /\ w = [ok |-> TRUE, frames |-> frames, given |-> wsmp.given, params |-> wsmp.params]
  <2> HIDE DEF format, audio, channels, frames, wsmp, loop
  <2> QED BY <1>1, <1>2
<1>4. Len(audio) \in Nat /\ Len(audio) >= 1 BY <1>3, RequiredIs
<1>5. frames \in Nat \ {0}
  <2> HIDE DEF audio, channels
  <2>1. CASE channels = 1 BY <1>4, <2>1
  <2>2. CASE channels = 2 BY <1>3, <1>4, <2>2
  <2> QED BY <1>3, <2>1, <2>2
<1>6. loop \in Loops BY <1>3, ParamsAre
<1> HIDE DEF format, audio, channels, frames
<1>7. w.frames = frames /\ w.params.loop = loop BY <1>3
<1> HIDE DEF wsmp, loop, w
<1>8. ASSUME loop # <<>> PROVE loop[1] < loop[2] /\ loop[2] <= frames
  <2>1. loop[1] \in Nat /\ loop[2] \in Nat BY <1>6, <1>8 DEF Loops
  <2>2. ~ (loop[1] >= loop[2]) /\ ~ (loop[2] > frames) BY <1>3, <1>8, Zenon
  <2> QED BY <1>5, <2>1, <2>2
<1> QED BY <1>5, <1>6, <1>7, <1>8 DEF SoundWave, w

\* A region plays one of the waves.
SoundRegion(r, waves) == r.wave \in Nat /\ r.wave < waves /\ r.params.loop \in Loops

LEMMA RegionIs ==
  ASSUME NEW W, NEW V, IsTree(W, V), \A cell \in V : cell.value \in Nat, NEW c \in W,
         NEW waves \in Nat, ParseRegion(c, waves).ok
  PROVE  SoundRegion(ParseRegion(c, waves), waves)
<1> DEFINE header == Required(c, "rgnh", 6)
           link == Required(c, "wlnk", 4)
           wsmp == Params(c)
           r == ParseRegion(c, waves)
<1>1. r = IF header = <<>> \/ link = <<>> THEN Error
     ELSE IF Field(link, 3) >= waves \/ ~wsmp.params.ok THEN Error
     ELSE [ok |-> TRUE, keys |-> Field(header, 0)..Field(header, 1),
           velocities |-> Field(header, 2)..Field(header, 3),
           wave |-> Field(link, 3), given |-> wsmp.given, params |-> wsmp.params]
  BY DEF ParseRegion
<1>2. ~ Error.ok BY DEF Error
<1>3. /\ link # <<>> /\ ~ (Field(link, 3) >= waves) /\ wsmp.params.ok
      /\ r.wave = Field(link, 3) /\ r.params = wsmp.params
  <2> HIDE DEF header, link, wsmp
  <2> QED BY <1>1, <1>2
<1>4. link \in Seq(V) /\ Len(link) \in Nat /\ Len(link) >= 4 BY <1>3, RequiredIs
<1> HIDE DEF link
<1>5. Field(link, 3) \in Nat BY <1>4, FieldIs
<1>6. wsmp.params.loop \in Loops BY <1>3, ParamsAre
<1> QED BY <1>3, <1>5, <1>6 DEF SoundRegion

SoundInstrument(played, waves) ==
  \A r \in ToSet(played.regions) : SoundRegion(r, waves)

LEMMA InstrumentIs ==
  ASSUME NEW W, NEW V, IsTree(W, V), \A cell \in V : cell.value \in Nat, NEW c \in W,
         NEW waves \in Nat, NEW forever, ParseInstrument(c, waves, forever).ok
  PROVE  SoundInstrument(ParseInstrument(c, waves, forever), waves)
<1> DEFINE header == Required(c, "insh", 3)
           list == List(c, "lrgn")
           regions == Listed(list[1], {"rgn ", "rgn2"})
           parsed == [n \in regions |-> ParseRegion(list[1].children[n], waves)]
           articulation == ParseArticulation(c, forever)
           played == ParseInstrument(c, waves, forever)
<1>1. played = IF header = <<>> \/ list = <<>> THEN Error
     ELSE IF ~AllOk(parsed) THEN Error
     ELSE IF Cardinality(regions) # Field(header, 0) \/ ~articulation.ok THEN Error
     ELSE [ok |-> TRUE, regions |-> parsed, envelope |-> articulation.envelope,
           bank |-> Field(header, 1), program |-> Field(header, 2)]
  BY DEF ParseInstrument
<1>2. ~ Error.ok BY DEF Error
<1>3. list # <<>> /\ AllOk(parsed) /\ played.regions = parsed
  <2> HIDE DEF header, list, regions, parsed, articulation
  <2> QED BY <1>1, <1>2
<1>4. list[1] \in W BY <1>3, ListIs
<1> HIDE DEF list, played
<1>5. ASSUME NEW n \in regions PROVE SoundRegion(parsed[n], waves)
  <2>1. n \in DOMAIN list[1].children BY DEF Listed
  <2>2. list[1].children[n] \in W BY <1>4, <2>1, Children
  <2>3. parsed[n] = ParseRegion(list[1].children[n], waves) OBVIOUS
  <2>4. parsed[n].ok BY <1>3 DEF AllOk
  <2> QED BY <2>2, <2>3, <2>4, RegionIs
<1>6. DOMAIN parsed = regions OBVIOUS
<1> HIDE DEF parsed, regions
<1> QED BY <1>3, <1>5, <1>6 DEF SoundInstrument, ToSet, played

LEMMA WavesAre ==
  ASSUME NEW W, NEW V, IsTree(W, V), \A cell \in V : cell.value \in Nat, NEW c \in W,
         ParseWaves(c).ok
  PROVE  LET waves == ParseWaves(c).waves IN
         /\ Len(waves) \in Nat /\ DOMAIN waves = 1..Len(waves)
         /\ \A n \in DOMAIN waves : SoundWave(waves[n])
<1> DEFINE pool == Required(c, "ptbl", 2)
           header == Field(pool, 0)
           count == Field(pool, 1)
           list == List(c, "wvpl")
           chunks == Listed(list[1], {"wave"})
           parsed == [n \in chunks |-> ParseWave(list[1].children[n])]
           Selected(cue) == {n \in chunks : list[1].children[n].start - 3 - list[1].start = cue}
           places == [n \in 1..count |-> Selected(Field(pool, header + n - 1))]
           all == [n \in 1..count |-> parsed[Max(places[n])]]
           given == ParseWaves(c)
<1>1. given = IF pool = <<>> THEN Error
     ELSE IF header < 2 \/ header + count > Len(pool) \/ list = <<>> THEN Error
     ELSE IF ~AllOk(parsed) \/ (\E n \in 1..count : places[n] = {}) THEN Error
     ELSE [ok |-> TRUE, waves |-> all]
  BY DEF ParseWaves
<1>2. ~ Error.ok BY DEF Error
<1>3. /\ pool # <<>> /\ list # <<>> /\ AllOk(parsed) /\ given.waves = all
      /\ \A n \in 1..count : places[n] # {}
  <2> HIDE DEF pool, header, count, list, chunks, parsed, places, all
  <2> QED BY <1>1, <1>2
<1>4. list[1] \in W BY <1>3, ListIs
<1>5. count \in Nat
  <2>1. pool \in Seq(V) /\ Len(pool) \in Nat /\ Len(pool) >= 2 BY <1>3, RequiredIs
  <2> HIDE DEF pool
  <2> QED BY <2>1, FieldIs
<1> HIDE DEF pool, header, count, list
<1>6. ASSUME NEW n \in 1..count PROVE SoundWave(all[n])
  <2> DEFINE found == places[n]
             last == Max(found)
  <2>1. found \in SUBSET chunks /\ found # {} BY <1>3
  <2> DEFINE size == Len(list[1].children)
  <2>2. size \in Nat /\ DOMAIN list[1].children = 1..size BY <1>4, Children
  <2>3. chunks \in SUBSET (1..size) BY <2>2 DEF Listed
  <2> HIDE DEF found, size
  <2>4. last \in found
    <3>1. found \in SUBSET (0..size) BY <2>1, <2>2, <2>3
    <3> QED BY <2>1, <2>2, <3>1, GreatestBelow
  <2>5. last \in chunks /\ last \in DOMAIN list[1].children BY <2>1, <2>2, <2>3, <2>4
  <2>6. list[1].children[last] \in W BY <1>4, <2>5, Children
  <2>7. all[n] = parsed[last] BY DEF found
  <2> HIDE DEF last
  <2>8. parsed[last] = ParseWave(list[1].children[last]) BY <2>5
  <2>9. parsed[last].ok BY <1>3, <2>5 DEF AllOk
  <2> HIDE DEF parsed
  <2> QED BY <2>6, <2>7, <2>8, <2>9, WaveIs
<1>7. DOMAIN all = 1..count OBVIOUS
<1>8. all \in Seq({all[n] : n \in 1..count}) /\ Len(all) = count
  <2> HIDE DEF parsed, places
  <2> QED BY <1>5
<1> HIDE DEF all
<1> QED BY <1>3, <1>5, <1>6, <1>7, <1>8

\* A collection that loads: its waves have audio, and its regions play one of them.
SoundBank(bank) ==
  /\ Len(bank.waves) \in Nat /\ DOMAIN bank.waves = 1..Len(bank.waves)
  /\ \A n \in DOMAIN bank.waves : SoundWave(bank.waves[n])
  /\ \A n \in DOMAIN bank.instruments : SoundInstrument(bank.instruments[n], Len(bank.waves))

LEMMA BankIs ==
  ASSUME NEW V, NEW file, IsFile(file, V), NEW forever, ParseBank(file, forever).ok
  PROVE  SoundBank(ParseBank(file, forever))
<1> DEFINE tree == ParseChunks(file)
           root == tree.chunks[1]
           given == ParseWaves(root)
           list == List(root, "lins")
           loaded == [n \in Listed(list[1], {"ins "}) |->
                        ParseInstrument(list[1].children[n], Len(given.waves), forever)]
           bank == ParseBank(file, forever)
<1>1. bank = IF ~tree.ok THEN Error
     ELSE IF Len(tree.chunks) # 1 THEN Error
     ELSE IF root.id # "RIFF" \/ root.kind # "DLS " \/ ~given.ok THEN Error
     ELSE IF list = <<>> THEN Error
     ELSE IF ~AllOk(loaded) \/ DOMAIN loaded = {} \/ given.waves = <<>> THEN Error
     ELSE [ok |-> TRUE, instruments |-> loaded, waves |-> given.waves]
  BY DEF ParseBank
<1>2. ~ Error.ok BY DEF Error
<1>3. /\ tree.ok /\ Len(tree.chunks) = 1 /\ given.ok /\ list # <<>> /\ AllOk(loaded)
      /\ bank.instruments = loaded /\ bank.waves = given.waves
  <2> HIDE DEF tree, root, given, list, loaded
  <2>1. bank.ok OBVIOUS
  <2> HIDE DEF bank
  <2>2. tree.ok /\ Len(tree.chunks) = 1 BY <1>1, <1>2, <2>1
  <2>3. given.ok /\ list # <<>> /\ AllOk(loaded) BY <1>1, <1>2, <2>1
  <2>4. bank = [ok |-> TRUE, instruments |-> loaded, waves |-> given.waves] BY <1>1, <1>2, <2>1
  <2> QED BY <2>2, <2>3, <2>4
<1>4. PICK W : IsTree(W, V) /\ tree.chunks \in Seq(W) BY <1>3, TreeOfChunks
<1> HIDE DEF tree
<1>5. root \in W
  <2> HIDE DEF root, given, list, loaded, bank
  <2>1. Len(tree.chunks) = 1 BY <1>3
  <2>2. tree.chunks[1] \in W BY <1>4, <2>1, ElementOfSeq
  <2> QED BY <2>2 DEF root
<1>6. \A cell \in V : cell.value \in Nat BY DEF IsFile
<1> HIDE DEF root
<1>7. /\ Len(given.waves) \in Nat /\ DOMAIN given.waves = 1..Len(given.waves)
      /\ \A n \in DOMAIN given.waves : SoundWave(given.waves[n])
  BY <1>3, <1>4, <1>5, <1>6, WavesAre
<1>8. list[1] \in W BY <1>3, <1>4, <1>5, ListIs
<1> HIDE DEF given, list
<1>9. ASSUME NEW n \in DOMAIN loaded PROVE SoundInstrument(loaded[n], Len(given.waves))
  <2>1. n \in DOMAIN list[1].children BY DEF Listed
  <2>2. list[1].children[n] \in W BY <1>4, <1>8, <2>1, Children
  <2>3. loaded[n] = ParseInstrument(list[1].children[n], Len(given.waves), forever) OBVIOUS
  <2>4. loaded[n].ok BY <1>3 DEF AllOk
  <2> HIDE DEF loaded
  <2> QED BY <1>4, <1>6, <1>7, <2>2, <2>3, <2>4, InstrumentIs
<1> HIDE DEF loaded, bank
<1> QED BY <1>3, <1>7, <1>9 DEF SoundBank, bank

LEMMA SoundIsWhole ==
  ASSUME NEW bank, SoundBank(bank)
  PROVE  WholeBank(bank)
<1>1. ASSUME NEW n \in DOMAIN bank.waves
      PROVE  LET w == bank.waves[n] IN
             w.frames > 0 /\ (w.params.loop # <<>> => w.params.loop[1] < w.params.loop[2]
                                                     /\ w.params.loop[2] <= w.frames)
  <2>1. SoundWave(bank.waves[n]) BY DEF SoundBank
  <2>2. bank.waves[n].frames \in Nat \ {0} BY <2>1 DEF SoundWave
  <2>3. bank.waves[n].frames > 0 BY <2>2
  <2> QED BY <2>1, <2>3 DEF SoundWave
<1>2. ASSUME NEW n \in DOMAIN bank.instruments, NEW r \in ToSet(bank.instruments[n].regions)
      PROVE  r.wave + 1 \in DOMAIN bank.waves
  <2>1. Len(bank.waves) \in Nat /\ DOMAIN bank.waves = 1..Len(bank.waves)
        /\ SoundRegion(r, Len(bank.waves))
    BY DEF SoundBank, SoundInstrument
  <2>2. r.wave \in Nat /\ r.wave < Len(bank.waves) BY <2>1 DEF SoundRegion
  <2> QED BY <2>1, <2>2
<1> QED BY <1>1, <1>2 DEF WholeBank
-----------------------------------------------------------------------------
(* Samples, and the regions of SFZ documents.                                 *)

\* What is held of a sample is no more than there is.
LEMMA HeadIsInSample ==
  ASSUME NEW needed, NEW text \in DOMAIN AudioFiles
  PROVE  LET audio == AudioFiles[text] head == Preloaded(needed, audio) IN
         /\ head \in Nat /\ head <= audio.frames /\ audio.frames \in Nat \ {0}
         /\ (head >= audio.frames) = (head = audio.frames)
         /\ audio.loop \in Loops
<1>1. /\ AudioFiles[text].frames \in Nat \ {0} /\ AudioFiles[text].loop \in Loops
      /\ PreloadFrames \in Nat \ {0}
  BY SampleAssumption DEF SampleAssumption, Loops
<1> DEFINE frames == AudioFiles[text].frames
           head == Preloaded(needed, AudioFiles[text])
<1>2. head = frames \/ head = (IF frames < PreloadFrames THEN frames ELSE PreloadFrames)
  BY DEF Preloaded
<1> HIDE DEF frames, head
<1>3. frames \in Nat \ {0} BY <1>1 DEF frames
<1>4. head \in Nat /\ head <= frames BY <1>1, <1>2, <1>3
<1> QED BY <1>1, <1>3, <1>4 DEF frames, head

\* A loop that playback can reach is in what is held.
LEMMA ReachableIs ==
  ASSUME NEW points \in Loops, NEW frames, NEW resident
  PROVE  LET loop == ReachableLoop(points, frames, resident) IN
         /\ loop \in Loops
         /\ loop # <<>> => resident /\ loop[1] < loop[2] /\ loop[2] <= frames
BY DEF ReachableLoop, Loops

\* A region that can be struck: what it reads is in its sample.
SoundPart(r) ==
  /\ r.frames \in Nat \ {0} /\ r.head \in Nat /\ r.head <= r.frames
  /\ r.start \in Nat /\ r.loop \in Loops
  /\ r.loop # <<>> => r.loop[1] < r.loop[2] /\ r.loop[2] <= r.head

LEMMA PartIs ==
  ASSUME NEW r, NEW audio, NEW points \in Loops, NEW resident,
         audio.frames \in Nat \ {0}, r.frames = audio.frames,
         r.head \in Nat, r.head <= r.frames, resident => r.head = audio.frames,
         r.start \in Nat, r.loop = ReachableLoop(points, audio.frames, resident)
  PROVE  SoundPart(r)
<1>1. /\ r.loop \in Loops
      /\ r.loop # <<>> => resident /\ r.loop[1] < r.loop[2] /\ r.loop[2] <= audio.frames
  BY ReachableIs
<1> QED BY <1>1 DEF SoundPart

\* loop_from's points are numbers whatever the opcodes say.
LEMMA LoopFromIs ==
  ASSUME NEW opcodes, NEW audio, audio.loop \in Loops, NEW resident
  PROVE  \E points \in Loops : LoopFrom(opcodes, audio, resident) = ReachableLoop(points, audio.frames, resident)
<1> DEFINE mode == IF "loop_mode" \in DOMAIN opcodes THEN opcodes["loop_mode"] ELSE <<>>
           Stated(name, other) == HasFrame(opcodes, name) \/ HasFrame(opcodes, other)
           Frame(name, other) == Numbers[opcodes[IF HasFrame(opcodes, name) THEN name ELSE other]]
           points == IF Stated("loop_start", "loopstart") /\ Stated("loop_end", "loopend")
                     THEN <<Frame("loop_start", "loopstart"), Frame("loop_end", "loopend") + 1>>
                     ELSE IF mode # <<>> THEN audio.loop ELSE <<>>
<1>1. ASSUME NEW name, NEW other, Stated(name, other) PROVE Frame(name, other) \in Nat
  <2>1. PICK stated \in {name, other} : HasFrame(opcodes, stated)
                                      /\ Frame(name, other) = Numbers[opcodes[stated]]
    BY <1>1
  <2>2. opcodes[stated] \in DOMAIN Numbers /\ Numbers[opcodes[stated]] >= 0
    BY <2>1 DEF HasFrame, HasNumber
  <2>3. Numbers[opcodes[stated]] \in Int BY <2>2, SampleAssumption DEF SampleAssumption
  <2> QED BY <2>1, <2>2, <2>3
<1>2. <<>> \in Loops BY DEF Loops
<1>3. points \in Loops
  <2>1. CASE Stated("loop_start", "loopstart") /\ Stated("loop_end", "loopend")
    <3> DEFINE first == Frame("loop_start", "loopstart")
               last == Frame("loop_end", "loopend")
    <3>1. first \in Nat /\ last \in Nat BY <1>1, <2>1
    <3>2. points = <<first, last + 1>> BY <2>1
    <3> HIDE DEF first, last, points
    <3> QED BY <3>1, <3>2 DEF Loops
  <2>2. CASE ~ (Stated("loop_start", "loopstart") /\ Stated("loop_end", "loopend"))
    <3>1. points = IF mode # <<>> THEN audio.loop ELSE <<>> BY <2>2
    <3> HIDE DEF points, mode
    <3> QED BY <1>2, <3>1
  <2> QED BY <2>1, <2>2
<1>4. CASE mode \in {<<"no_loop">>, <<"one_shot">>}
  <2>1. LoopFrom(opcodes, audio, resident) = <<>> BY <1>4 DEF LoopFrom
  <2>2. ReachableLoop(<<>>, audio.frames, resident) = <<>> BY DEF ReachableLoop
  <2> QED BY <1>2, <2>1, <2>2
<1>5. CASE mode \notin {<<"no_loop">>, <<"one_shot">>}
  <2>1. LoopFrom(opcodes, audio, resident) = ReachableLoop(points, audio.frames, resident)
    BY <1>5 DEF LoopFrom
  <2> QED BY <1>3, <2>1
<1> QED BY <1>4, <1>5

LEMMA RegionFromIs ==
  ASSUME NEW document, NEW opcodes, opcodes["sample"] \in DOMAIN AudioFiles
  PROVE  SoundPart(RegionFrom(document, opcodes)) /\ SoundPart(Resident(document, opcodes))
<1> DEFINE text == opcodes["sample"]
           audio == AudioFiles[text]
           needed == NeedsResidency(document, text)
           head == Preloaded(needed, audio)
           r == RegionFrom(document, opcodes)
           q == Resident(document, opcodes)
<1>1. /\ head \in Nat /\ head <= audio.frames /\ audio.frames \in Nat \ {0}
      /\ (head >= audio.frames) = (head = audio.frames) /\ audio.loop \in Loops
  BY HeadIsInSample
<1>2. /\ r.frames = audio.frames /\ r.head = head /\ r.start = 0
      /\ r.loop = LoopFrom(opcodes, audio, head >= audio.frames)
  BY DEF RegionFrom
<1>3. /\ q.frames = audio.frames /\ q.head = audio.frames /\ q.start = 0
      /\ q.loop = LoopFrom(opcodes, audio, TRUE)
  BY DEF Resident, RegionFrom
<1> HIDE DEF audio, head, r, q
<1>4. PICK p1 \in Loops :
        LoopFrom(opcodes, audio, head >= audio.frames) = ReachableLoop(p1, audio.frames, head >= audio.frames)
  BY <1>1, LoopFromIs
<1>5. PICK p2 \in Loops : LoopFrom(opcodes, audio, TRUE) = ReachableLoop(p2, audio.frames, TRUE)
  BY <1>1, LoopFromIs
<1>6. SoundPart(r)
  <2>1. r.loop = ReachableLoop(p1, audio.frames, head >= audio.frames) BY <1>2, <1>4
  <2>2. (head >= audio.frames) => r.head = audio.frames BY <1>1, <1>2
  <2>3. r.head \in Nat /\ r.head <= r.frames /\ r.start \in Nat BY <1>1, <1>2
  <2> QED BY <1>1, <1>2, <2>1, <2>2, <2>3, PartIs
<1>7. SoundPart(q)
  <2>1. q.head \in Nat /\ q.head <= q.frames /\ q.start \in Nat BY <1>1, <1>3
  <2> QED BY <1>1, <1>3, <1>5, <2>1, PartIs
<1> QED BY <1>6, <1>7 DEF r, q

\* An instrument that loaded: none at all, sampled regions or a collection.
SoundLoaded(i) ==
  \/ i.kind = "none"
  \/ i.kind = "sampled" /\ \A r \in ToSet(i.regions) : SoundPart(r)
  \/ i.kind = "dls" /\ SoundBank(i.bank)

LEMMA NothingLoaded == SoundLoaded(NoInstrument)
BY DEF NoInstrument, SoundLoaded

\* An SFZ document's every region can be struck, on disk or in an archive; and a
\* collection that loads is sound.
LEMMA SfzLoads == ASSUME NEW path PROVE SoundLoaded(OpenSfz(path)) /\ SoundLoaded(OpenArchivedSfz(path))
<1> DEFINE document == Document(path).document
           playable == Playable(document)
           one == OpenSfz(path)
           two == OpenArchivedSfz(path)
           loaded1 == [n \in playable |-> RegionFrom(document, document.regions[n])]
           loaded2 == [n \in playable |-> Resident(document, document.regions[n])]
           whole == \A n \in playable : SampleText(document, n) \in DOMAIN AudioFiles
<1>1. one = NoInstrument \/ (whole /\ one.kind = "sampled" /\ one.regions = loaded1)
  BY DEF OpenSfz
<1>2. two = NoInstrument \/ (whole /\ two.kind = "sampled" /\ two.regions = loaded2)
  BY DEF OpenArchivedSfz, ArchivedDocument
<1> HIDE DEF playable, document, one, two
<1>3. ASSUME whole
      PROVE  (\A r \in ToSet(loaded1) : SoundPart(r)) /\ (\A r \in ToSet(loaded2) : SoundPart(r))
  BY <1>3, RegionFromIs DEF ToSet, SampleText
<1> HIDE DEF loaded1, loaded2, whole
<1>4. SoundLoaded(one) BY <1>1, <1>3, NothingLoaded DEF SoundLoaded
<1>5. SoundLoaded(two) BY <1>2, <1>3, NothingLoaded DEF SoundLoaded
<1> QED BY <1>4, <1>5 DEF one, two

LEMMA BankLoads ==
  ASSUME NEW n \in DOMAIN Collections
  PROVE  LET bank == ParseBank(Collections[n], Forever) IN
         SoundLoaded(IF bank.ok THEN [kind |-> "dls", bank |-> bank] ELSE NoInstrument)
<1> DEFINE V == [code : STRING, value : Nat]
           bank == ParseBank(Collections[n], Forever)
<1>1. Collections[n] \in Seq(V) BY EngineAssumption DEF EngineAssumption
<1>2. \A cell \in V : cell.value \in Nat OBVIOUS
<1> HIDE DEF V
<1>3. IsFile(Collections[n], V) BY <1>1, <1>2 DEF IsFile
<1>4. bank.ok => SoundBank(bank) BY <1>3, BankIs
<1> HIDE DEF bank
<1> QED BY <1>4, NothingLoaded DEF SoundLoaded, bank
-----------------------------------------------------------------------------
(* What the readers of documents give: a map's zones are read event by event, *)
(* an RF instrument's zone by zone, and both are recursive functions of how   *)
(* many were taken.                                                           *)

Taken(map, before, item) == IF map THEN MapEvent(before, item) ELSE TakeZone(before, item)
Runs(map, start, items, done, n) ==
  done = [i \in 0..n |-> IF i = 0 THEN start ELSE Taken(map, done[i - 1], items[i])]

\* Readings of n items exist, and each is one item ahead of the one before.
LEMMA RunsOne ==
  ASSUME NEW map, NEW start, NEW items, NEW done, NEW n, Runs(map, start, items, done, n),
         NEW i \in 0..n
  PROVE  done[i] = IF i = 0 THEN start ELSE Taken(map, done[i - 1], items[i])
<1> DEFINE g == [j \in 0..n |-> IF j = 0 THEN start ELSE Taken(map, done[j - 1], items[j])]
<1>1. g[i] = IF i = 0 THEN start ELSE Taken(map, done[i - 1], items[i]) OBVIOUS
<1>2. done = g BY DEF Runs
<1> HIDE DEF g
<1> QED BY <1>1, <1>2

LEMMA RunsTo ==
  ASSUME NEW map, NEW start, NEW items, NEW n \in Nat
  PROVE  \E done : Runs(map, start, items, done, n)
<1> DEFINE S == {k \in Nat : ~ \E done : Runs(map, start, items, done, k)}
           m == Min(S)
<1> SUFFICES ASSUME S # {} PROVE FALSE OBVIOUS
<1>1. m \in S /\ \A k \in S : m <= k
  <2>1. S \in SUBSET Nat OBVIOUS
  <2> QED BY <2>1, LeastNatural
<1> HIDE DEF m
<1>2. m \in Nat /\ ~ \E done : Runs(map, start, items, done, m) BY <1>1
<1>3. m # 0
  <2> DEFINE none == [i \in 0..0 |-> start]
  <2>1. none = [i \in 0..0 |-> IF i = 0 THEN start ELSE Taken(map, none[i - 1], items[i])]
    OBVIOUS
  <2>2. Runs(map, start, items, none, 0) BY <2>1 DEF Runs
  <2> QED BY <1>2, <2>2
<1>4. m - 1 \in Nat /\ ~ (m <= m - 1) BY <1>2, <1>3
<1>5. PICK done : Runs(map, start, items, done, m - 1) BY <1>1, <1>4
<1> DEFINE more == [i \in 0..m |-> IF i = m THEN Taken(map, done[m - 1], items[m]) ELSE done[i]]
<1>6. ASSUME NEW i \in 0..m
      PROVE  more[i] = IF i = 0 THEN start ELSE Taken(map, more[i - 1], items[i])
  <2>1. CASE i = m
    <3>1. m - 1 \in 0..m /\ m - 1 # m BY <1>2, <1>4
    <3> QED BY <1>3, <2>1, <3>1
  <2>2. CASE i # m
    <3>1. i \in 0..m - 1 BY <1>2, <2>2
    <3>2. done[i] = IF i = 0 THEN start ELSE Taken(map, done[i - 1], items[i]) BY <1>5, <3>1, RunsOne
    <3>3. i # 0 => i - 1 \in 0..m /\ i - 1 # m BY <1>2
    <3> QED BY <2>2, <3>2, <3>3
  <2> QED BY <2>1, <2>2
<1>7. more = [i \in 0..m |-> more[i]] OBVIOUS
<1> HIDE DEF more
<1>8. more = [i \in 0..m |-> IF i = 0 THEN start ELSE Taken(map, more[i - 1], items[i])]
  BY <1>6, <1>7
<1>9. Runs(map, start, items, more, m) BY <1>8 DEF Runs
<1> QED BY <1>2, <1>9

\* Zones that give a region a start and a loop.
SoundZone(zone) == zone.loop \in Loops /\ zone.start \in Nat
SoundZones(zones) ==
  /\ Len(zones) \in Nat /\ zones = [i \in 1..Len(zones) |-> zones[i]]
  /\ \A i \in 1..Len(zones) : SoundZone(zones[i])

LEMMA ZonesJoined ==
  ASSUME NEW s, NEW t, SoundZones(s), SoundZones(t)
  PROVE  SoundZones(s \o t)
<1> DEFINE all == s \o t
<1>1. IsSeq(s) /\ IsSeq(t) BY DEF SoundZones, IsSeq
<1>2. /\ IsSeq(all) /\ Len(all) = Len(s) + Len(t)
      /\ \A i \in 1..Len(s) : all[i] = s[i]
      /\ \A j \in 1..Len(t) : all[Len(s) + j] = t[j]
  BY <1>1, Joined
<1> HIDE DEF all
<1>3. Len(s) \in Nat /\ Len(t) \in Nat BY <1>1 DEF IsSeq
<1>4. ASSUME NEW i \in 1..Len(all) PROVE SoundZone(all[i])
  <2>1. CASE i <= Len(s)
    <3>1. i \in 1..Len(s) BY <1>3, <2>1
    <3> QED BY <1>2, <3>1 DEF SoundZones
  <2>2. CASE ~ (i <= Len(s))
    <3>1. i - Len(s) \in 1..Len(t) /\ Len(s) + (i - Len(s)) = i BY <1>2, <1>3, <2>2
    <3>2. all[i] = t[i - Len(s)] BY <1>2, <3>1
    <3> QED BY <3>1, <3>2 DEF SoundZones
  <2> QED BY <2>1, <2>2
<1> QED BY <1>2, <1>4 DEF IsSeq, SoundZones, all

\* One more event, or one more zone.
Held(s) == "zones" \in DOMAIN s /\ SoundZones(s.zones)

\* zone_from's frames are not negative, whatever the document says.
LEMMA FramesAreNumbers ==
  ASSUME NEW values, NEW name
  PROVE  Max({0, NumberOr(values, name, 0)}) \in Nat
<1>1. NumberOr(values, name, 0) \in Int
  BY SampleAssumption DEF SampleAssumption, NumberOr, HasNumber
<1> DEFINE n == NumberOr(values, name, 0)
<1>2. n \in Int BY <1>1
<1> HIDE DEF n
<1>3. \E x \in {0, n} : \A y \in {0, n} : x >= y BY <1>2
<1>4. Max({0, n}) \in {0, n} /\ \A y \in {0, n} : Max({0, n}) >= y BY <1>3 DEF Max
<1>5. Max({0, n}) \in Int /\ Max({0, n}) >= 0 BY <1>2, <1>4
<1> QED BY <1>5 DEF n

LEMMA ZoneFromIs == ASSUME NEW values PROVE SoundZones(ZoneFrom(values))
<1> DEFINE Frame(name) == Max({0, NumberOr(values, name, 0)})
           zone == ZoneFrom(values)
           loop == IF Frame("loopLength") = 0 THEN <<>>
                   ELSE <<Frame("loopStart"), Frame("loopStart") + Frame("loopLength")>>
<1>1. zone = <<>> \/ (Len(zone) = 1 /\ zone = <<zone[1]>> /\ zone[1].loop = loop
                       /\ zone[1].start = Frame("sampleStart"))
  BY DEF ZoneFrom
<1> DEFINE first == Frame("loopStart")
           size == Frame("loopLength")
<1>2. first \in Nat /\ size \in Nat /\ Frame("sampleStart") \in Nat BY FramesAreNumbers
<1>3. loop = IF size = 0 THEN <<>> ELSE <<first, first + size>> OBVIOUS
<1> HIDE DEF first, size, loop
<1>4. loop \in Loops BY <1>2, <1>3 DEF Loops
<1> HIDE DEF zone, Frame
<1>5. CASE zone = <<>>
  <2>1. Len(zone) = 0 /\ zone = [i \in 1..0 |-> zone[i]] BY <1>5
  <2> QED BY <2>1 DEF SoundZones, zone
<1>6. CASE zone # <<>>
  <2>1. Len(zone) = 1 /\ zone = <<zone[1]>> BY <1>1, <1>6
  <2>2. zone = [i \in 1..1 |-> zone[i]] BY <2>1
  <2>3. SoundZone(zone[1]) BY <1>1, <1>2, <1>4, <1>6 DEF SoundZone
  <2> QED BY <2>1, <2>2, <2>3 DEF SoundZones, zone
<1> QED BY <1>5, <1>6

LEMMA MapEventHolds ==
  ASSUME NEW s, Held(s), NEW e, e.event \in {"start", "empty", "end"}
  PROVE  Held(MapEvent(s, e))
<1>1. CASE e.event = "start"
  <2>1. MapEvent(s, e) = MapStart(s, e) BY <1>1 DEF MapEvent
  <2>2. "zones" \in DOMAIN MapStart(s, e) /\ MapStart(s, e).zones = s.zones
    BY DEF Held, MapStart
  <2> QED BY <2>1, <2>2 DEF Held
<1>2. CASE e.event = "empty"
  <2>1. MapEvent(s, e) = MapValue(s, e) BY <1>2 DEF MapEvent
  <2>2. "zones" \in DOMAIN MapValue(s, e) /\ MapValue(s, e).zones = s.zones
    BY DEF Held, MapValue
  <2> QED BY <2>1, <2>2 DEF Held
<1>3. CASE e.event = "end"
  <2>1. MapEvent(s, e) = MapEnd(s, e) BY <1>3 DEF MapEvent
  <2>2. "zones" \in DOMAIN MapEnd(s, e)
        /\ (MapEnd(s, e).zones = s.zones \/ \E values : MapEnd(s, e).zones = s.zones \o ZoneFrom(values))
    BY DEF Held, MapEnd
  <2> QED BY <2>1, <2>2, ZoneFromIs, ZonesJoined DEF Held
<1> QED BY <1>1, <1>2, <1>3

LEMMA TakeZoneHolds ==
  ASSUME NEW s, Held(s), NEW zone, zone.layers \in Seq(RfLayers)
  PROVE  Held(TakeZone(s, zone))
<1> DEFINE layers == zone.layers
           more == LayersOf(s.groups, zone)
<1>1. Len(layers) \in Nat /\ DOMAIN layers = 1..Len(layers) OBVIOUS
<1>2. ASSUME NEW i \in 1..Len(layers) PROVE layers[i].start \in Nat
  <2>1. layers[i] \in RfLayers BY <1>2, ElementOfSeq
  <2> QED BY <2>1 DEF RfLayers
<1>3. DOMAIN more = 1..Len(layers) BY <1>1 DEF LayersOf
<1>4. ASSUME NEW i \in 1..Len(layers) PROVE SoundZone(more[i])
  <2>1. more[i].loop = <<>> /\ more[i].start = layers[i].start BY <1>1 DEF LayersOf
  <2> QED BY <1>2, <2>1 DEF SoundZone, Loops
<1>5. more = [i \in 1..Len(layers) |-> more[i]] BY <1>1 DEF LayersOf
<1> HIDE DEF more, layers
<1>6. Len(more) = Len(layers) BY <1>1, <1>5
<1>7. SoundZones(more) BY <1>1, <1>4, <1>5, <1>6 DEF SoundZones
<1>8. SoundZones(s.zones \o more) BY <1>7, ZonesJoined DEF Held
<1> QED BY <1>8 DEF Held, TakeZone, more

\* However far the reading is, every zone it holds is one.
LEMMA RunHolds ==
  ASSUME NEW map \in BOOLEAN, NEW start, Held(start), NEW items, NEW n \in Nat, NEW done,
         Runs(map, start, items, done, n),
         \A i \in 1..n : IF map THEN items[i].event \in {"start", "empty", "end"}
                         ELSE items[i].layers \in Seq(RfLayers)
  PROVE  Held(done[n])
<1> DEFINE S == {k \in Nat : k <= n /\ ~ Held(done[k])}
           m == Min(S)
<1>1. S = {}
  <2> SUFFICES ASSUME S # {} PROVE FALSE OBVIOUS
  <2>1. m \in S /\ \A k \in S : m <= k
    <3>1. S \in SUBSET Nat OBVIOUS
    <3> QED BY <3>1, LeastNatural
  <2> HIDE DEF m
  <2>2. m \in 0..n /\ ~ Held(done[m]) BY <2>1
  <2>3. m # 0
    <3>1. 0 \in 0..n OBVIOUS
    <3>2. done[0] = start BY <3>1, RunsOne
    <3> QED BY <2>2, <3>2
  <2>4. m \in 1..n /\ m - 1 \in Nat /\ m - 1 <= n /\ ~ (m <= m - 1) BY <2>2, <2>3
  <2>5. Held(done[m - 1]) BY <2>1, <2>4
  <2>6. done[m] = Taken(map, done[m - 1], items[m]) BY <2>2, <2>3, RunsOne
  <2>7. CASE map
    <3>1. done[m] = MapEvent(done[m - 1], items[m]) BY <2>6, <2>7 DEF Taken
    <3>2. items[m].event \in {"start", "empty", "end"} BY <2>4, <2>7
    <3> QED BY <2>2, <2>5, <3>1, <3>2, MapEventHolds
  <2>8. CASE ~map
    <3>1. done[m] = TakeZone(done[m - 1], items[m]) BY <2>6, <2>8 DEF Taken
    <3>2. items[m].layers \in Seq(RfLayers) BY <2>4, <2>8
    <3> QED BY <2>2, <2>5, <3>1, <3>2, TakeZoneHolds
  <2> QED BY <2>7, <2>8
<1> QED BY <1>1

MapReads(events, done) ==
  done = [n \in 0..Len(events) |-> IF n = 0 THEN Unread ELSE MapEvent(done[n - 1], events[n])]

\* The zones of a Kontakt map, and of an RF instrument.
LEMMA ReadMapIs ==
  ASSUME NEW n \in DOMAIN NkiDocuments
  PROVE  SoundZones(NkiMap(NkiDocuments[n]).zones)
<1> DEFINE events == NkiDocuments[n]
           size == Len(events)
           done == CHOOSE f : MapReads(events, f)
<1>1. /\ size \in Nat
      /\ \A i \in 1..size : events[i].event \in {"start", "empty", "end"}
  BY EngineAssumption DEF EngineAssumption
<1> HIDE DEF events
<1>2. \A f : Runs(TRUE, Unread, events, f, size) = MapReads(events, f)
  BY DEF Runs, MapReads, Taken
<1>3. \E f : MapReads(events, f)
  <2>1. \E f : Runs(TRUE, Unread, events, f, size) BY <1>1, RunsTo
  <2> QED BY <1>2, <2>1
<1>4. MapReads(events, done) BY <1>3
<1>5. ReadMap(events) = done[size] BY DEF ReadMap, MapReads
<1> HIDE DEF done, size
<1>6. Runs(TRUE, Unread, events, done, size) BY <1>2, <1>4
<1>7. Held(Unread)
  <2>1. "zones" \in DOMAIN Unread /\ Unread.zones = <<>> BY DEF Unread
  <2>2. Len(<<>>) = 0 /\ <<>> = [i \in 1..0 |-> <<>>[i]] OBVIOUS
  <2> QED BY <2>1, <2>2 DEF Held, SoundZones
<1>8. Held(done[size]) BY <1>1, <1>6, <1>7, RunHolds
<1>9. NkiMap(events).zones = ReadMap(events).zones BY DEF NkiMap
<1> QED BY <1>5, <1>8, <1>9 DEF Held, events

ZoneReads(rf, done) ==
  done = [n \in 0..Len(rf.zones) |->
            IF n = 0 THEN [zones |-> <<>>, groups |-> <<<<Staged(rf.envelope)>>>>]
            ELSE TakeZone(done[n - 1], rf.zones[n])]

LEMMA ReadZonesIs ==
  ASSUME NEW n \in DOMAIN RfInstruments
  PROVE  SoundZones(RfMap(RfInstruments[n]).zones)
<1> DEFINE rf == RfInstruments[n]
           items == rf.zones
           size == Len(items)
           start == [zones |-> <<>>, groups |-> <<<<Staged(rf.envelope)>>>>]
           done == CHOOSE f : ZoneReads(rf, f)
<1>1. size \in Nat /\ \A i \in 1..size : items[i].layers \in Seq(RfLayers)
  BY EngineAssumption DEF EngineAssumption
<1> HIDE DEF rf
<1>2. \A f : Runs(FALSE, start, items, f, size) = ZoneReads(rf, f)
  BY DEF Runs, ZoneReads, Taken
<1>3. \E f : ZoneReads(rf, f)
  <2>1. \E f : Runs(FALSE, start, items, f, size) BY <1>1, RunsTo
  <2> QED BY <1>2, <2>1
<1>4. ZoneReads(rf, done) BY <1>3
<1>5. ReadZones(rf) = done[size] BY DEF ReadZones, ZoneReads
<1>6. Held(start)
  <2>1. "zones" \in DOMAIN start /\ start.zones = <<>> OBVIOUS
  <2>2. Len(<<>>) = 0 /\ <<>> = [i \in 1..0 |-> <<>>[i]] OBVIOUS
  <2> QED BY <2>1, <2>2 DEF Held, SoundZones
<1> HIDE DEF done, size, items, start
<1>7. Runs(FALSE, start, items, done, size) BY <1>2, <1>4
<1>8. Held(done[size])
  <2>1. \A i \in 1..size : IF FALSE THEN items[i].event \in {"start", "empty", "end"}
                          ELSE items[i].layers \in Seq(RfLayers)
    BY <1>1
  <2> QED BY <1>1, <1>6, <1>7, <2>1, RunHolds
<1>9. RfMap(rf).zones = ReadZones(rf).zones BY DEF RfMap
<1> QED BY <1>5, <1>8, <1>9 DEF Held, rf

\* The shallowest of the files a name stands for is one of them.
LEMMA ShallowestIs ==
  ASSUME NEW paths \in SUBSET DOMAIN Shelf, paths # {}
  PROVE  LET p == CHOOSE p \in paths : \A q \in paths : Len(p) <= Len(q) IN
         p \in paths /\ Shelf[p] \in DOMAIN AudioFiles
<1> DEFINE depths == {Len(p) : p \in paths}
<1>1. \A p \in paths : Len(p) \in Nat /\ Shelf[p] \in DOMAIN AudioFiles
  BY ShelfAssumption DEF ShelfAssumption
<1>2. depths \in SUBSET Nat /\ depths # {} BY <1>1
<1>3. Min(depths) \in depths /\ \A k \in depths : Min(depths) <= k
  <2> HIDE DEF depths
  <2> QED BY <1>2, LeastNatural
<1>4. \E p \in paths : \A q \in paths : Len(p) <= Len(q) BY <1>3
<1> QED BY <1>1, <1>4

\* What the loaders of Kontakt and RF maps give can be played.
LEMMA NkiLoads ==
  ASSUME NEW n \in DOMAIN NkiDocuments
  PROVE  SoundLoaded(OpenNki(NkiDocuments[n]))
<1> DEFINE events == NkiDocuments[n]
           map == NkiMap(events)
           placed == {k \in DOMAIN map.zones : Reach(map.zones[k].sample) # {}}
           needed == {map.zones[k].sample : k \in {k \in placed : map.zones[k].loop # <<>>}}
           regions == [k \in placed |-> NkiRegion(map, map.zones[k], needed)]
           loaded == OpenNki(events)
<1>1. SoundZones(map.zones) BY ReadMapIs
<1> HIDE DEF events
<1>2. loaded = NoInstrument \/ (loaded.kind = "sampled" /\ loaded.regions = regions)
  BY DEF OpenNki
<1> HIDE DEF map, loaded, needed
<1>3. ASSUME NEW k \in placed PROVE SoundPart(regions[k])
  <2> DEFINE zone == map.zones[k]
             text == Shelf[Available(zone.sample)]
             audio == AudioFiles[text]
             wanted == zone.sample \in needed
             head == Preloaded(wanted, audio)
             r == NkiRegion(map, zone, needed)
  <2>1. SoundZone(zone)
    <3>1. Len(map.zones) \in Nat /\ map.zones = [i \in 1..Len(map.zones) |-> map.zones[i]]
      BY <1>1 DEF SoundZones
    <3>2. k \in 1..Len(map.zones) BY <3>1
    <3> QED BY <1>1, <3>2 DEF SoundZones
  <2>2. text \in DOMAIN AudioFiles
    <3>1. Reach(zone.sample) # {} /\ Reach(zone.sample) \in SUBSET DOMAIN Shelf BY DEF Reach
    <3> QED BY <3>1, ShallowestIs DEF Available
  <2>3. regions[k] = r OBVIOUS
  <2> HIDE DEF zone, regions
  <2>4. /\ r.frames = audio.frames /\ r.head = head /\ r.start = 0
        /\ r.loop = ReachableLoop(zone.loop, audio.frames, head >= audio.frames)
    BY DEF NkiRegion
  <2> HIDE DEF text, wanted, r
  <2>5. /\ head \in Nat /\ head <= audio.frames /\ audio.frames \in Nat \ {0}
        /\ (head >= audio.frames) = (head = audio.frames)
    BY <2>2, HeadIsInSample
  <2> HIDE DEF head, audio
  <2> DEFINE points == zone.loop
             whole == head >= audio.frames
  <2>6. points \in Loops BY <2>1 DEF SoundZone
  <2>7. whole => r.head = audio.frames BY <2>4, <2>5
  <2>8. r.head \in Nat /\ r.head <= r.frames /\ r.start \in Nat BY <2>4, <2>5
  <2>9. r.loop = ReachableLoop(points, audio.frames, whole) BY <2>4
  <2>10. audio.frames \in Nat \ {0} /\ r.frames = audio.frames BY <2>4, <2>5
  <2> HIDE DEF points, whole
  <2>11. SoundPart(r) BY <2>6, <2>7, <2>8, <2>9, <2>10, PartIs
  <2> QED BY <2>3, <2>11
<1>4. DOMAIN regions = placed OBVIOUS
<1> HIDE DEF regions, placed
<1>5. \A r \in ToSet(regions) : SoundPart(r) BY <1>3, <1>4 DEF ToSet
<1> QED BY <1>2, <1>5, NothingLoaded DEF SoundLoaded, loaded, events

LEMMA MappedLoads ==
  ASSUME NEW map, SoundZones(map.zones)
  PROVE  SoundLoaded(OpenMapped(map))
<1> DEFINE regions == [k \in DOMAIN map.zones |-> ResidentRegion(map, map.zones[k])]
           loaded == OpenMapped(map)
<1>1. \/ loaded = NoInstrument
      \/ /\ ~ (\E z \in ToSet(map.zones) : Archived(z.sample) = {})
         /\ loaded.kind = "sampled" /\ loaded.regions = regions
  BY DEF OpenMapped
<1> HIDE DEF loaded
<1>2. ASSUME NEW k \in DOMAIN map.zones, ~ (\E z \in ToSet(map.zones) : Archived(z.sample) = {})
      PROVE  SoundPart(regions[k])
  <2> DEFINE zone == map.zones[k]
             text == Shelf[SampleOf(zone.sample)]
             audio == AudioFiles[text]
             loop == IF zone.loop # <<>> THEN zone.loop ELSE audio.loop
             r == ResidentRegion(map, zone)
  <2>1. SoundZone(zone)
    <3>1. Len(map.zones) \in Nat /\ map.zones = [i \in 1..Len(map.zones) |-> map.zones[i]]
      BY DEF SoundZones
    <3>2. k \in 1..Len(map.zones) BY <3>1
    <3> QED BY <3>2 DEF SoundZones
  <2>2. text \in DOMAIN AudioFiles
    <3>1. zone \in ToSet(map.zones) BY DEF ToSet
    <3>2. Archived(zone.sample) # {} /\ Archived(zone.sample) \in SUBSET DOMAIN Shelf
      BY <1>2, <3>1 DEF Archived
    <3> QED BY <3>2, ShallowestIs DEF SampleOf
  <2>3. regions[k] = r OBVIOUS
  <2> HIDE DEF zone, regions
  <2>4. /\ r.frames = audio.frames /\ r.head = audio.frames /\ r.start = zone.start
        /\ r.loop = ReachableLoop(loop, audio.frames, TRUE)
    BY DEF ResidentRegion
  <2> HIDE DEF text, r
  <2>5. audio.frames \in Nat \ {0} /\ audio.loop \in Loops BY <2>2, HeadIsInSample
  <2> HIDE DEF audio
  <2>6. loop \in Loops BY <2>1, <2>5 DEF SoundZone
  <2>7. r.head \in Nat /\ r.head <= r.frames /\ r.start \in Nat BY <2>1, <2>4, <2>5 DEF SoundZone
  <2> HIDE DEF loop
  <2>8. SoundPart(r) BY <2>4, <2>5, <2>6, <2>7, PartIs
  <2> QED BY <2>3, <2>8
<1>3. DOMAIN regions = DOMAIN map.zones OBVIOUS
<1> HIDE DEF regions
<1>4. CASE loaded = NoInstrument BY <1>4, NothingLoaded DEF loaded
<1>5. CASE loaded # NoInstrument
  <2>1. \A r \in ToSet(regions) : SoundPart(r) BY <1>1, <1>2, <1>3, <1>5 DEF ToSet
  <2> QED BY <1>1, <1>5, <2>1 DEF SoundLoaded, loaded
<1> QED BY <1>4, <1>5
-----------------------------------------------------------------------------
(* The engine: what it loads, and the voices it starts.                       *)

\* What is installed can be played; nothing is refused before something is installed; and
\* what is refused in a sampled instrument starts past its audio.
Installed ==
  /\ SoundLoaded(instrument)
  /\ source = <<"none">> => instrument = NoInstrument /\ ~refused
  /\ instrument.kind = "dls" => source[1] = "dls"
  /\ refused /\ source[1] # "dls" => \E r \in ToSet(instrument.regions) : r.start >= r.frames

LEMMA InstallStep ==
  ASSUME Installed, NEW from, NEW loaded, Install(from, loaded), SoundLoaded(loaded),
         from # <<"none">>, loaded.kind = "dls" => from[1] = "dls"
  PROVE  Installed' /\ UNCHANGED voiceVars
<1>1. /\ source = <<"none">> /\ source' = from /\ instrument' = loaded /\ refused' = refused
      /\ UNCHANGED voiceVars
  BY DEF Install
<1>2. ~ refused BY <1>1 DEF Installed
<1> QED BY <1>1, <1>2 DEF Installed

LEMMA LoadsSampled ==
  /\ NoInstrument.kind = "none"
  /\ \A path : OpenSfz(path).kind # "dls" /\ OpenArchivedSfz(path).kind # "dls"
  /\ \A events : OpenNki(events).kind # "dls"
  /\ \A map : OpenMapped(map).kind # "dls"
<1>1. NoInstrument.kind = "none" BY DEF NoInstrument
<1>2. ASSUME NEW path PROVE OpenSfz(path).kind # "dls" BY <1>1 DEF OpenSfz
<1>3. ASSUME NEW path PROVE OpenArchivedSfz(path).kind # "dls" BY <1>1 DEF OpenArchivedSfz
<1>4. ASSUME NEW events PROVE OpenNki(events).kind # "dls" BY <1>1 DEF OpenNki
<1>5. ASSUME NEW map PROVE OpenMapped(map).kind # "dls" BY <1>1 DEF OpenMapped
<1> QED BY <1>1, <1>2, <1>3, <1>4, <1>5

LEMMA OpenStep ==
  ASSUME Installed, OpenDocument \/ OpenBank \/ OpenMap \/ LoadMapped \/ LoadSfz
  PROVE  Installed' /\ UNCHANGED voiceVars
<1>1. CASE OpenDocument
  <2>1. PICK path \in DOMAIN Files : Install(<<"sfz", path>>, OpenSfz(path))
    BY <1>1 DEF OpenDocument
  <2>2. <<"sfz", path>> # <<"none">> OBVIOUS
  <2> QED BY <2>1, <2>2, SfzLoads, LoadsSampled, InstallStep
<1>2. CASE OpenBank
  <2>1. PICK n \in DOMAIN Collections :
          Install(<<"dls", n>>, IF ParseBank(Collections[n], Forever).ok
                                THEN [kind |-> "dls", bank |-> ParseBank(Collections[n], Forever)]
                                ELSE NoInstrument)
    BY <1>2 DEF OpenBank
  <2> DEFINE loaded == IF ParseBank(Collections[n], Forever).ok
                       THEN [kind |-> "dls", bank |-> ParseBank(Collections[n], Forever)]
                       ELSE NoInstrument
  <2>2. SoundLoaded(loaded) BY BankLoads
  <2>3. Install(<<"dls", n>>, loaded) BY <2>1
  <2> HIDE DEF loaded
  <2>4. <<"dls", n>> # <<"none">> /\ <<"dls", n>>[1] = "dls" OBVIOUS
  <2> QED BY <2>2, <2>3, <2>4, InstallStep
<1>3. CASE OpenMap
  <2>1. PICK n \in DOMAIN NkiDocuments : Install(<<"nki", n>>, OpenNki(NkiDocuments[n]))
    BY <1>3 DEF OpenMap
  <2>2. <<"nki", n>> # <<"none">> OBVIOUS
  <2> QED BY <2>1, <2>2, NkiLoads, LoadsSampled, InstallStep
<1>4. CASE LoadMapped
  <2>1. CASE \E n \in DOMAIN NkiDocuments : Install(<<"resident", n>>, OpenMapped(NkiMap(NkiDocuments[n])))
    <3>1. PICK n \in DOMAIN NkiDocuments : Install(<<"resident", n>>, OpenMapped(NkiMap(NkiDocuments[n])))
      BY <2>1
    <3>2. <<"resident", n>> # <<"none">> OBVIOUS
    <3>3. SoundLoaded(OpenMapped(NkiMap(NkiDocuments[n]))) BY ReadMapIs, MappedLoads
    <3> QED BY <3>1, <3>2, <3>3, LoadsSampled, InstallStep
  <2>2. CASE \E n \in DOMAIN RfInstruments : Install(<<"rf", n>>, OpenMapped(RfMap(RfInstruments[n])))
    <3>1. PICK n \in DOMAIN RfInstruments : Install(<<"rf", n>>, OpenMapped(RfMap(RfInstruments[n])))
      BY <2>2
    <3>2. <<"rf", n>> # <<"none">> OBVIOUS
    <3>3. SoundLoaded(OpenMapped(RfMap(RfInstruments[n]))) BY ReadZonesIs, MappedLoads
    <3> QED BY <3>1, <3>2, <3>3, LoadsSampled, InstallStep
  <2> QED BY <1>4, <2>1, <2>2 DEF LoadMapped
<1>5. CASE LoadSfz
  <2>1. PICK path \in DOMAIN Files : Install(<<"archive", path>>, OpenArchivedSfz(path))
    BY <1>5 DEF LoadSfz
  <2>2. <<"archive", path>> # <<"none">> OBVIOUS
  <2> QED BY <2>1, <2>2, SfzLoads, LoadsSampled, InstallStep
<1> QED BY <1>1, <1>2, <1>3, <1>4, <1>5

\* A strike starts a voice that StartVoice accepts, or is refused.
LEMMA StrikeBegins ==
  ASSUME NEW waves, NEW shape, NEW start \in Nat, Strike(waves, shape, start),
         \A w \in waves : w \in Samples /\ w.head <= w.frames
  PROVE  \/ Begin /\ UNCHANGED refused
         \/ /\ UNCHANGED voiceVars /\ refused'
            /\ waves = {} \/ \E w \in waves : ~ValidLoop(w) \/ start >= w.frames
<1>1. CASE waves = {} \/ \E w \in waves : ~ValidLoop(w) \/ start >= w.frames
  BY <1>1 DEF Strike
<1>2. CASE ~ (waves = {} \/ \E w \in waves : ~ValidLoop(w) \/ start >= w.frames)
  <2>1. PICK w \in waves, b \in Bases : StartVoice(w, b, shape, start) BY <1>2 DEF Strike
  <2>2. wave' = w /\ base' = b /\ envelope' = shape BY <2>1 DEF StartVoice
  <2>3. w \in Samples /\ w.head <= w.frames /\ ValidLoop(w) /\ ~ (start >= w.frames) BY <1>2
  <2>4. w.frames \in Nat BY <2>3 DEF Samples
  <2>5. start \in 0..w.frames - 1 BY <2>3, <2>4
  <2>6. b \in Nat BY EngineAssumption DEF EngineAssumption
  <2>7. Begin BY <2>1, <2>2, <2>3, <2>5, <2>6 DEF Begin
  <2> QED BY <1>2, <2>7 DEF Strike
<1> QED BY <1>1, <1>2

LEMMA SampledStrike ==
  ASSUME NEW r, SoundPart(r), Strike(SfzWaves(r), r.envelope, r.start)
  PROVE  \/ Begin /\ UNCHANGED refused
         \/ UNCHANGED voiceVars /\ refused' /\ r.start >= r.frames
<1> DEFINE streams == IF r.head >= r.frames THEN {"none"} ELSE {"open", "busy"}
           Of(stream) == [frames |-> r.frames, head |-> r.head, stream |-> stream, loop |-> r.loop]
<1>1. SfzWaves(r) = {Of(stream) : stream \in streams} BY DEF SfzWaves
<1>2. streams # {} /\ streams \subseteq {"none", "open", "busy"} OBVIOUS
<1> HIDE DEF streams
<1>3. ASSUME NEW w \in SfzWaves(r)
      PROVE  w \in Samples /\ w.head <= w.frames /\ ValidLoop(w) /\ w.frames = r.frames
  <2>1. PICK stream \in streams : w = Of(stream) BY <1>1
  <2>2. w.frames = r.frames /\ w.head = r.head /\ w.loop = r.loop BY <2>1
  <2>3. w \in Samples BY <1>2, <2>1 DEF Samples, SoundPart, Loops
  <2> QED BY <2>2, <2>3 DEF SoundPart, ValidLoop
<1>4. SfzWaves(r) # {} BY <1>1, <1>2
<1>5. r.start \in Nat BY DEF SoundPart
<1> QED BY <1>3, <1>4, <1>5, StrikeBegins

LEMMA CollectionStrike ==
  ASSUME NEW bank, SoundBank(bank), NEW n \in DOMAIN bank.instruments, NEW shape,
         NEW r \in ToSet(bank.instruments[n].regions), Strike(DlsWaves(bank, r), shape, 0)
  PROVE  (Begin /\ UNCHANGED refused) \/ UNCHANGED voiceVars
<1>1. SoundRegion(r, Len(bank.waves)) BY DEF SoundBank, SoundInstrument
<1> DEFINE w == bank.waves[r.wave + 1]
<1>2. SoundWave(w)
  <2>1. Len(bank.waves) \in Nat /\ DOMAIN bank.waves = 1..Len(bank.waves) BY DEF SoundBank
  <2>2. r.wave + 1 \in DOMAIN bank.waves BY <1>1, <2>1 DEF SoundRegion
  <2> QED BY <2>2 DEF SoundBank
<1> DEFINE params == IF r.given THEN r.params ELSE w.params
           only == [frames |-> w.frames, head |-> w.frames, stream |-> "none", loop |-> params.loop]
<1>3. DlsWaves(bank, r) \subseteq {only} BY DEF DlsWaves
<1>4. params.loop \in Loops BY <1>1, <1>2 DEF SoundRegion, SoundWave
<1>5. w.frames \in Nat \ {0} BY <1>2 DEF SoundWave
<1> HIDE DEF w, params
<1>6. only \in Samples /\ only.head <= only.frames BY <1>4, <1>5 DEF Samples, Loops
<1> HIDE DEF only
<1> QED BY <1>3, <1>6, StrikeBegins

LEMMA KeyStep ==
  ASSUME Installed, KeyDown
  PROVE  Installed' /\ (Begin \/ UNCHANGED voiceVars)
<1>1. ~ refused /\ UNCHANGED <<source, instrument>> BY DEF KeyDown
<1>2. CASE instrument.kind = "sampled"
  <2>1. PICK note \in Notes, velocity \in Velocities :
          \E r \in SfzRegions(instrument, note, velocity, cc) :
            Strike(SfzWaves(r), r.envelope, r.start)
    BY <1>2 DEF KeyDown
  <2>2. PICK r \in ToSet(instrument.regions) : Strike(SfzWaves(r), r.envelope, r.start)
    BY <2>1 DEF SfzRegions
  <2>3. SoundPart(r) BY <1>2 DEF Installed, SoundLoaded
  <2>4. \/ Begin /\ UNCHANGED refused
        \/ UNCHANGED voiceVars /\ refused' /\ r.start >= r.frames
    BY <2>2, <2>3, SampledStrike
  <2>5. instrument # NoInstrument BY <1>2 DEF NoInstrument
  <2>6. source # <<"none">> BY <2>5 DEF Installed
  <2> QED BY <1>1, <1>2, <2>4, <2>6 DEF Installed
<1>3. CASE instrument.kind = "dls"
  <2>1. PICK note \in Notes, velocity \in Velocities :
          \E n \in DOMAIN instrument.bank.instruments :
            \E r \in Matching(instrument.bank.instruments[n], note, velocity) :
              Strike(DlsWaves(instrument.bank, r), instrument.bank.instruments[n].envelope, 0)
    BY <1>3 DEF KeyDown
  <2>2. PICK n \in DOMAIN instrument.bank.instruments :
          \E r \in Matching(instrument.bank.instruments[n], note, velocity) :
            Strike(DlsWaves(instrument.bank, r), instrument.bank.instruments[n].envelope, 0)
    BY <2>1
  <2>3. PICK r \in ToSet(instrument.bank.instruments[n].regions) :
          Strike(DlsWaves(instrument.bank, r), instrument.bank.instruments[n].envelope, 0)
    BY <2>2 DEF Matching
  <2>4. SoundBank(instrument.bank) BY <1>3 DEF Installed, SoundLoaded
  <2>5. (Begin /\ UNCHANGED refused) \/ UNCHANGED voiceVars BY <2>3, <2>4, CollectionStrike
  <2>6. instrument # NoInstrument BY <1>3 DEF NoInstrument
  <2>7. source # <<"none">> BY <2>6 DEF Installed
  <2>8. source[1] = "dls" BY <1>3 DEF Installed
  <2> QED BY <1>1, <1>3, <2>5, <2>7, <2>8 DEF Installed
<1>4. instrument.kind = "sampled" \/ instrument.kind = "dls" BY DEF KeyDown
<1> QED BY <1>2, <1>3, <1>4

LEMMA EngineStart == Init => Installed /\ VoiceInit
<1> SUFFICES ASSUME Init PROVE Installed /\ VoiceInit OBVIOUS
<1>1. /\ source = <<"none">> /\ instrument = NoInstrument /\ refused = FALSE /\ VoiceInit
  BY DEF Init
<1>2. instrument.kind = "none" BY <1>1 DEF NoInstrument
<1> QED BY <1>1, <1>2, NothingLoaded DEF Installed

LEMMA EngineStep == Installed /\ [Next]_vars => Installed' /\ [VoiceNext \/ Begin]_voiceVars
<1> SUFFICES ASSUME Installed, [Next]_vars
             PROVE  Installed' /\ [VoiceNext \/ Begin]_voiceVars
  OBVIOUS
<1>1. CASE OpenDocument \/ OpenBank \/ OpenMap \/ LoadMapped \/ LoadSfz BY <1>1, OpenStep
<1>2. CASE KeyDown BY <1>2, KeyStep
<1>3. ASSUME UNCHANGED <<source, instrument, refused>> PROVE Installed'
  BY <1>3 DEF Installed
<1>4. CASE Control BY <1>3, <1>4 DEF Control
<1>5. CASE Play BY <1>3, <1>5 DEF Play, engineVars
<1>6. CASE UNCHANGED vars BY <1>3, <1>6 DEF vars, engineVars
<1> QED BY <1>1, <1>2, <1>4, <1>5, <1>6 DEF Next

LEMMA InstalledPlays == Installed => LoadedInstrumentsPlay
<1> SUFFICES ASSUME Installed PROVE LoadedInstrumentsPlay OBVIOUS
<1>1. ASSUME instrument.kind = "dls" PROVE WholeBank(instrument.bank)
  <2>1. SoundBank(instrument.bank) BY <1>1 DEF Installed, SoundLoaded
  <2> QED BY <2>1, SoundIsWhole
<1> QED BY <1>1 DEF Installed, LoadedInstrumentsPlay

\* A collection that loads is whole however its file was damaged, and no key of a loaded
\* instrument is refused its voice but for a DLS region's own parameters or a zone of an
\* archive that starts past its audio (LoadedInstrumentsPlay): what the loaders check,
\* of wave links, loops and what is held in memory, is all that from_wave asks for.
THEOREM WhatLoadsPlays == Spec => []LoadedInstrumentsPlay
<1>1. Init => Installed BY EngineStart
<1>2. Installed /\ [Next]_vars => Installed' BY EngineStep
<1> QED BY <1>1, <1>2, InstalledPlays, PTL DEF Spec

\* The engine implements a voice on its own: whatever is opened, every key that is not
\* refused starts a voice that from_wave accepts in its audio, and nothing else moves it.
THEOREM EngineRunsAVoice == Spec => VoiceSpec
<1>1. Init => Installed /\ VoiceInit BY EngineStart
<1>2. Installed /\ [Next]_vars => Installed' /\ [VoiceNext \/ Begin]_voiceVars BY EngineStep
<1> QED BY <1>1, <1>2, PTL DEF Spec, VoiceSpec

\* Whatever instrument a key is pressed on, its voice reads its own sample only
\* (VoiceReadsItsSample): no loop, start or head a loader gives takes the cursor of
\* next_frame_modulated out of the audio.
THEOREM EveryVoiceReadsItsSample == Spec => []VoiceReadsItsSample
BY EngineRunsAVoice, FramesAreInTheSample, PTL

\* Whatever instrument a key is pressed on, a voice at its own pitch runs out with at most
\* the last step of its end fade (RunsOutFaded).
THEOREM EveryVoiceRunsOutFaded == Spec => []RunsOutFaded
BY EngineRunsAVoice, FadesToTheLastStep, PTL
-----------------------------------------------------------------------------
(* The keys told.                                                             *)

LEMMA Clamped ==
  ASSUME NEW value \in Int
  PROVE  Clamp(0, value, 127) \in 0..127
BY DEF Clamp

\* A key's text is a MIDI number or a note name, and either is brought into the range.
LEMMA KeysInRange ==
  ASSUME NEW text, IsKey(text)
  PROVE  ParseNote(text) \in 0..127
<1>1. CASE text \in DOMAIN Numbers
  <2>1. Numbers[text] \in Int BY <1>1, SampleAssumption DEF SampleAssumption
  <2> QED BY <1>1, <2>1, Clamped DEF ParseNote
<1>2. CASE text \notin DOMAIN Numbers
  <2> DEFINE n == NoteNames[text]
             key == (n.octave + 1) * 12 + n.step + n.accidental
  <2>1. {n.step, n.accidental, n.octave} \subseteq Int
    BY <1>2, SampleAssumption DEF SampleAssumption, IsKey
  <2>2. n.step \in Int /\ n.accidental \in Int /\ n.octave \in Int BY <2>1
  <2>3. ParseNote(text) = Clamp(0, key, 127) BY <1>2 DEF ParseNote
  <2> HIDE DEF n
  <2>4. key \in Int BY <2>2
  <2> HIDE DEF key
  <2> QED BY <2>3, <2>4, Clamped
<1> QED BY <1>1, <1>2

\* A region sounds between its lowest and highest key, and one that states them where
\* catalog_json looks has what it states.
LEMMA RegionKeys ==
  ASSUME NEW document, NEW opcodes
  PROVE  LET r == RegionFrom(document, opcodes) q == Resident(document, opcodes) IN
         /\ r.lowest \in 0..127 /\ r.highest \in 0..127 /\ r.keys = r.lowest..r.highest
         /\ q.keys = r.keys
         /\ States(opcodes, "lokey") => r.lowest = ParseNote(opcodes[KeyName(opcodes, "lokey")])
         /\ States(opcodes, "hikey") => r.highest = ParseNote(opcodes[KeyName(opcodes, "hikey")])
<1> DEFINE low == KeyOr(opcodes, "key", KeyOr(opcodes, "lokey", 0))
           high == KeyOr(opcodes, "key", KeyOr(opcodes, "hikey", 127))
<1>1. ASSUME NEW name, NEW fallback \in 0..127 PROVE KeyOr(opcodes, name, fallback) \in 0..127
  BY <1>1, KeysInRange DEF KeyOr, HasKey
<1>2. low \in 0..127 /\ high \in 0..127
  <2>1. KeyOr(opcodes, "lokey", 0) \in 0..127 /\ KeyOr(opcodes, "hikey", 127) \in 0..127 BY <1>1
  <2> QED BY <1>1, <2>1
<1>3. ASSUME NEW name, NEW fallback, States(opcodes, name)
      PROVE  KeyOr(opcodes, "key", KeyOr(opcodes, name, fallback))
               = ParseNote(opcodes[KeyName(opcodes, name)])
  BY <1>3 DEF States, KeyName, HasKey, KeyOr
<1>4. /\ RegionFrom(document, opcodes).lowest = low /\ RegionFrom(document, opcodes).highest = high
      /\ RegionFrom(document, opcodes).keys = low..high
      /\ Resident(document, opcodes).keys = low..high
  BY DEF RegionFrom, Resident
<1> QED BY <1>2, <1>3, <1>4

\* Every key a region of an instrument on disk sounds at is in its summary.
LEMMA SummarySpans ==
  ASSUME NEW instrument0, NEW r \in ToSet(instrument0.regions), NEW note \in r.lowest..r.highest,
         \A q \in ToSet(instrument0.regions) : q.lowest \in 0..127 /\ q.highest \in 0..127
  PROVE  note \in Summary(instrument0).lowest..Summary(instrument0).highest
<1> DEFINE lows == {q.lowest : q \in ToSet(instrument0.regions)}
           highs == {q.highest : q \in ToSet(instrument0.regions)}
<1>1. /\ Summary(instrument0).lowest = (IF Min(lows) < Max(highs) THEN Min(lows) ELSE Max(highs))
      /\ Summary(instrument0).highest = Max(highs)
  BY DEF Summary
<1>2. lows \in SUBSET (0..127) /\ highs \in SUBSET (0..127) /\ r.lowest \in lows /\ r.highest \in highs
  OBVIOUS
<1> HIDE DEF lows, highs
<1>3. lows \in SUBSET Nat BY <1>2
<1>4. Min(lows) \in lows /\ Min(lows) <= r.lowest BY <1>2, <1>3, LeastNatural
<1>5. Max(highs) \in highs /\ Max(highs) >= r.highest BY <1>2, GreatestBelow
<1>6. Min(lows) \in 0..127 /\ Max(highs) \in 0..127 /\ r.lowest \in 0..127 /\ r.highest \in 0..127
  BY <1>2, <1>4, <1>5
<1> DEFINE least == Min(lows)
           most == Max(highs)
<1> HIDE DEF least, most
<1> QED BY <1>1, <1>4, <1>5, <1>6 DEF least, most

\* Every key a document states where catalog_json looks is told.
LEMMA CatalogSpans ==
  ASSUME NEW document, NEW opcodes \in ToSet(document.regions),
         States(opcodes, "lokey"), States(opcodes, "hikey"),
         NEW note \in ParseNote(opcodes[KeyName(opcodes, "lokey")])
                        ..ParseNote(opcodes[KeyName(opcodes, "hikey")])
  PROVE  note \in ToldKeys(document)
<1> DEFINE lows == StatedKeys(document, "lokey")
           highs == StatedKeys(document, "hikey")
           low == ParseNote(opcodes[KeyName(opcodes, "lokey")])
           high == ParseNote(opcodes[KeyName(opcodes, "hikey")])
<1>1. ASSUME NEW name
      PROVE  /\ StatedKeys(document, name) \in SUBSET (0..127)
             /\ States(opcodes, name) =>
                  ParseNote(opcodes[KeyName(opcodes, name)]) \in StatedKeys(document, name)
  <2>1. ASSUME NEW r, States(r, name) PROVE ParseNote(r[KeyName(r, name)]) \in 0..127
    BY <2>1, KeysInRange DEF States, HasKey
  <2> QED BY <2>1 DEF StatedKeys
<1>2. lows \in SUBSET (0..127) /\ highs \in SUBSET (0..127) /\ low \in lows /\ high \in highs
  BY <1>1
<1>3. ToldKeys(document) = (IF lows = {} THEN 0 ELSE Min(lows))..(IF highs = {} THEN 127 ELSE Max(highs))
  BY DEF ToldKeys
<1>4. note \in low..high OBVIOUS
<1> HIDE DEF lows, highs, low, high
<1>5. lows \in SUBSET Nat BY <1>2
<1>6. Min(lows) \in lows /\ Min(lows) <= low BY <1>2, <1>5, LeastNatural
<1>7. Max(highs) \in highs /\ Max(highs) >= high BY <1>2, GreatestBelow
<1>8. Min(lows) \in 0..127 /\ Max(highs) \in 0..127 /\ low \in 0..127 /\ high \in 0..127
  BY <1>2, <1>6, <1>7
<1>9. lows # {} /\ highs # {} BY <1>2
<1> DEFINE least == Min(lows)
           most == Max(highs)
<1>10. ToldKeys(document) = least..most BY <1>3, <1>9, Zenon
<1> HIDE DEF least, most
<1>11. note \in least..most BY <1>4, <1>6, <1>7, <1>8 DEF least, most
<1> QED BY <1>10, <1>11

\* An instrument of SFZ is what its document makes of it.
Linked ==
  /\ source[1] = "sfz" => instrument = OpenSfz(source[2])
  /\ source[1] = "archive" => instrument = OpenArchivedSfz(source[2])

LEMMA LinkedStart == Init => Linked
BY DEF Init, Linked

LEMMA LinkedStep == Linked /\ [Next]_vars => Linked'
<1> SUFFICES ASSUME Linked, [Next]_vars PROVE Linked' OBVIOUS
<1>1. ASSUME NEW from, NEW loaded, Install(from, loaded),
             from[1] = "sfz" => loaded = OpenSfz(from[2]),
             from[1] = "archive" => loaded = OpenArchivedSfz(from[2])
      PROVE  Linked'
  BY <1>1 DEF Install, Linked
<1>2. CASE OpenDocument
  <2>1. PICK path \in DOMAIN Files : Install(<<"sfz", path>>, OpenSfz(path)) BY <1>2 DEF OpenDocument
  <2> QED BY <1>1, <2>1
<1>3. CASE LoadSfz
  <2>1. PICK path \in DOMAIN Files : Install(<<"archive", path>>, OpenArchivedSfz(path))
    BY <1>3 DEF LoadSfz
  <2> QED BY <1>1, <2>1
<1>4. CASE OpenBank \/ OpenMap \/ LoadMapped
  <2>1. ASSUME NEW kind \in {"dls", "nki", "resident", "rf"}, NEW n, NEW loaded,
               Install(<<kind, n>>, loaded)
        PROVE  Linked'
    BY <1>1, <2>1
  <2> QED BY <1>4, <2>1 DEF OpenBank, OpenMap, LoadMapped
<1>5. ASSUME UNCHANGED <<source, instrument>> PROVE Linked' BY <1>5 DEF Linked
<1>6. CASE Control \/ KeyDown BY <1>5, <1>6 DEF Control, KeyDown
<1>7. CASE Play \/ UNCHANGED vars BY <1>5, <1>7 DEF Play, engineVars, vars
<1> QED BY <1>2, <1>3, <1>4, <1>6, <1>7 DEF Next

LEMMA LinkedTells == Linked => KeysSoundWhereTold
<1> SUFFICES ASSUME Linked, source[1] \in {"sfz", "archive"}, instrument.kind = "sampled",
                    source[1] = "archive" =>
                      \A r \in ToSet(Document(source[2]).document.regions) :
                        States(r, "lokey") /\ States(r, "hikey"),
                    NEW note \in Notes, NEW velocity \in Velocities,
                    SfzRegions(instrument, note, velocity, cc) # {}
             PROVE  note \in Told
  BY DEF KeysSoundWhereTold
<1> DEFINE path == source[2]
           document == Document(path).document
           one == [n \in Playable(document) |-> RegionFrom(document, document.regions[n])]
           two == [n \in Playable(document) |-> Resident(document, document.regions[n])]
<1>1. PICK r \in ToSet(instrument.regions) : note \in r.keys
  BY DEF SfzRegions, Accepts
<1>2. NoInstrument.kind = "none" BY DEF NoInstrument
<1>3. CASE source[1] = "sfz"
  <2>1. instrument = OpenSfz(path) BY <1>3 DEF Linked
  <2>2. instrument.regions = one BY <1>2, <2>1 DEF OpenSfz
  <2>3. \A q \in ToSet(instrument.regions) :
          q.lowest \in 0..127 /\ q.highest \in 0..127 /\ q.keys = q.lowest..q.highest
    BY <2>2, RegionKeys DEF ToSet
  <2>4. note \in r.lowest..r.highest BY <1>1, <2>3
  <2>5. note \in Summary(instrument).lowest..Summary(instrument).highest
    BY <2>3, <2>4, SummarySpans
  <2> QED BY <1>3, <2>5 DEF Told
<1>4. CASE source[1] = "archive"
  <2>1. instrument = OpenArchivedSfz(path) BY <1>4 DEF Linked
  <2>2. instrument.regions = two BY <1>2, <2>1 DEF OpenArchivedSfz, ArchivedDocument
  <2>3. PICK n \in Playable(document) : r = Resident(document, document.regions[n])
    BY <1>1, <2>2 DEF ToSet
  <2> DEFINE opcodes == document.regions[n]
  <2>4. opcodes \in ToSet(document.regions) BY <2>3 DEF Playable, ToSet
  <2>5. States(opcodes, "lokey") /\ States(opcodes, "hikey") BY <1>4, <2>4
  <2>6. r.keys = ParseNote(opcodes[KeyName(opcodes, "lokey")])
                   ..ParseNote(opcodes[KeyName(opcodes, "hikey")])
    BY <2>3, <2>5, RegionKeys
  <2>7. note \in ToldKeys(document) BY <1>1, <2>4, <2>5, <2>6, CatalogSpans
  <2> QED BY <1>4, <2>7 DEF Told
<1> QED BY <1>3, <1>4

\* No key sounds outside the range the surface is told (KeysSoundWhereTold): summary
\* spans the keys of every region, and catalog_json those of every document whose regions
\* state their keys where it looks, wherever the controllers are.
THEOREM KeysSoundInTheRangeTold == Spec => []KeysSoundWhereTold
<1>1. Init => Linked BY LinkedStart
<1>2. Linked /\ [Next]_vars => Linked' BY LinkedStep
<1> QED BY <1>1, <1>2, LinkedTells, PTL DEF Spec
-----------------------------------------------------------------------------
(* The layers of RF instruments.                                              *)

\* What one zone of a map says, with its group's envelope, and what its layer does.
Read(groups, z) == <<z.sample, z.keys, z.velocities, z.start, groups[z.group + 1]>>
Written(rf, zone, layer) ==
  <<layer.sample, zone.low..zone.high, layer.low..layer.high, layer.start,
    <<Staged(IF zone.override = <<>> THEN rf.envelope ELSE zone.override[1])>>>>
WrittenIn(rf, zone) == {Written(rf, zone, zone.layers[j]) : j \in DOMAIN zone.layers}

\* So far the zones read are the layers of the zones taken, and each is in a group there is.
Kept(rf, n, s) ==
  /\ IsSeq(s.zones) /\ IsSeq(s.groups) /\ Len(s.groups) >= 1
  /\ s.groups[1] = <<Staged(rf.envelope)>>
  /\ \A z \in ToSet(s.zones) : z.group \in Nat /\ z.group + 1 \in 1..Len(s.groups)
  /\ {Read(s.groups, z) : z \in ToSet(s.zones)} = UNION {WrittenIn(rf, rf.zones[i]) : i \in 1..n}

LEMMA TakeZoneKeeps ==
  ASSUME NEW rf, NEW n \in Nat, NEW s, Kept(rf, n, s), NEW zone, zone = rf.zones[n + 1],
         zone.layers \in Seq(RfLayers), zone.override = <<>> \/ zone.override = <<zone.override[1]>>
  PROVE  Kept(rf, n + 1, TakeZone(s, zone))
<1> DEFINE layers == zone.layers
           more == LayersOf(s.groups, zone)
           own == [i \in DOMAIN zone.override |-> <<Staged(zone.override[i])>>]
           zones == s.zones \o more
           groups == s.groups \o own
           group == IF zone.override = <<>> THEN 0 ELSE Len(s.groups)
           t == TakeZone(s, zone)
<1>1. t.zones = zones /\ t.groups = groups BY DEF TakeZone
<1>2. IsSeq(s.zones) /\ IsSeq(s.groups) /\ Len(s.groups) \in Nat /\ Len(s.groups) >= 1
  BY DEF Kept, IsSeq
<1>3. IsSeq(own) /\ (zone.override # <<>> => Len(own) = 1 /\ own[1] = <<Staged(zone.override[1])>>)
  <2>1. CASE zone.override = <<>>
    <3>1. own = <<>> BY <2>1
    <3>2. IsSeq(<<>>) BY DEF IsSeq
    <3> QED BY <2>1, <3>1, <3>2
  <2>2. CASE zone.override # <<>>
    <3>1. zone.override = <<zone.override[1]>> BY <2>2
    <3>2. DOMAIN zone.override = 1..1 BY <3>1
    <3>3. own = [i \in 1..1 |-> <<Staged(zone.override[i])>>] BY <3>2
    <3> HIDE DEF own
    <3>4. Len(own) = 1 /\ own = [i \in 1..1 |-> own[i]] /\ own[1] = <<Staged(zone.override[1])>>
      BY <3>3
    <3> QED BY <3>4 DEF IsSeq
  <2> QED BY <2>1, <2>2
<1>4. Len(layers) \in Nat /\ DOMAIN layers = 1..Len(layers) OBVIOUS
<1>5. /\ DOMAIN more = DOMAIN layers
      /\ \A j \in DOMAIN layers :
           /\ more[j].sample = layers[j].sample /\ more[j].keys = zone.low..zone.high
           /\ more[j].velocities = layers[j].low..layers[j].high
           /\ more[j].start = layers[j].start /\ more[j].group = group
      /\ more = [j \in DOMAIN layers |-> more[j]]
  BY DEF LayersOf
<1> HIDE DEF more, own, t
<1>6. IsSeq(more)
  <2>1. more = [j \in 1..Len(layers) |-> more[j]] BY <1>4, <1>5
  <2>2. Len(more) = Len(layers) BY <1>4, <2>1
  <2> QED BY <1>4, <2>1, <2>2 DEF IsSeq
<1>7. /\ IsSeq(groups) /\ Len(groups) = Len(s.groups) + Len(own)
      /\ \A i \in 1..Len(s.groups) : groups[i] = s.groups[i]
      /\ \A j \in 1..Len(own) : groups[Len(s.groups) + j] = own[j]
  BY <1>2, <1>3, Joined
<1>8. IsSeq(zones) /\ ToSet(zones) = ToSet(s.zones) \cup ToSet(more)
  BY <1>2, <1>6, Joined, JoinedSet
<1> HIDE DEF zones, groups
<1>9. Len(own) \in Nat BY <1>3 DEF IsSeq
<1>10. Len(groups) >= 1 /\ groups[1] = <<Staged(rf.envelope)>>
  <2>1. 1 \in 1..Len(s.groups) BY <1>2
  <2>2. s.groups[1] = <<Staged(rf.envelope)>> BY DEF Kept
  <2> QED BY <1>2, <1>7, <1>9, <2>1, <2>2
<1>11. /\ group \in Nat /\ group + 1 \in 1..Len(groups)
       /\ groups[group + 1] = <<Staged(IF zone.override = <<>> THEN rf.envelope ELSE zone.override[1])>>
  <2>1. CASE zone.override = <<>>
    <3>1. group = 0 BY <2>1
    <3>2. Len(groups) \in Nat BY <1>7 DEF IsSeq
    <3> HIDE DEF group
    <3> QED BY <1>10, <2>1, <3>1, <3>2
  <2>2. CASE zone.override # <<>>
    <3>1. group = Len(s.groups) BY <2>2
    <3>2. 1 \in 1..Len(own) BY <1>3, <2>2
    <3> HIDE DEF group
    <3>3. groups[group + 1] = <<Staged(zone.override[1])>> BY <1>3, <1>7, <2>2, <3>1, <3>2
    <3>4. Len(groups) = group + 1 BY <1>3, <1>7, <2>2, <3>1
    <3> QED BY <1>2, <2>2, <3>1, <3>3, <3>4
  <2> QED BY <2>1, <2>2
<1> HIDE DEF group
<1>12. ASSUME NEW z \in ToSet(s.zones)
       PROVE  z.group \in Nat /\ z.group + 1 \in 1..Len(groups) /\ Read(groups, z) = Read(s.groups, z)
  <2>1. z.group \in Nat /\ z.group + 1 \in 1..Len(s.groups) BY DEF Kept
  <2>2. groups[z.group + 1] = s.groups[z.group + 1] BY <1>7, <2>1
  <2>3. Len(groups) >= Len(s.groups) /\ Len(groups) \in Nat BY <1>2, <1>7, <1>9
  <2>4. z.group + 1 \in 1..Len(groups) BY <1>2, <2>1, <2>3
  <2> QED BY <2>1, <2>2, <2>4 DEF Read
<1>13. ASSUME NEW j \in DOMAIN layers
       PROVE  more[j].group = group /\ Read(groups, more[j]) = Written(rf, zone, layers[j])
  BY <1>5, <1>11 DEF Read, Written
<1>14. {Read(groups, z) : z \in ToSet(more)} = WrittenIn(rf, zone)
  <2>1. ToSet(more) = {more[j] : j \in DOMAIN layers} BY <1>5 DEF ToSet
  <2>2. {Read(groups, z) : z \in ToSet(more)} = {Read(groups, more[j]) : j \in DOMAIN layers} BY <2>1
  <2>3. {Read(groups, more[j]) : j \in DOMAIN layers} = {Written(rf, zone, layers[j]) : j \in DOMAIN layers}
    BY <1>13
  <2> QED BY <2>2, <2>3 DEF WrittenIn
<1>15. {Read(groups, z) : z \in ToSet(s.zones)} = UNION {WrittenIn(rf, rf.zones[i]) : i \in 1..n}
  <2>1. {Read(groups, z) : z \in ToSet(s.zones)} = {Read(s.groups, z) : z \in ToSet(s.zones)}
    BY <1>12
  <2> QED BY <2>1 DEF Kept
<1>16. \A z \in ToSet(zones) : z.group \in Nat /\ z.group + 1 \in 1..Len(groups)
  <2>1. \A z \in ToSet(more) : z.group = group BY <1>5, <1>13 DEF ToSet
  <2> QED BY <1>8, <1>11, <1>12, <2>1
<1>17. {Read(groups, z) : z \in ToSet(zones)} = UNION {WrittenIn(rf, rf.zones[i]) : i \in 1..n + 1}
  <2>1. {Read(groups, z) : z \in ToSet(zones)}
          = {Read(groups, z) : z \in ToSet(s.zones)} \cup {Read(groups, z) : z \in ToSet(more)}
    BY <1>8
  <2>2. 1..n + 1 = (1..n) \cup {n + 1} OBVIOUS
  <2>3. UNION {WrittenIn(rf, rf.zones[i]) : i \in 1..n + 1}
          = (UNION {WrittenIn(rf, rf.zones[i]) : i \in 1..n}) \cup WrittenIn(rf, rf.zones[n + 1])
    BY <2>2
  <2> QED BY <1>14, <1>15, <2>1, <2>3
<1>18. Kept(rf, n + 1, t) BY <1>1, <1>7, <1>8, <1>10, <1>16, <1>17 DEF Kept
<1> QED BY <1>18 DEF t

LEMMA ZonesKept ==
  ASSUME NEW rf, Len(rf.zones) \in Nat,
         \A i \in 1..Len(rf.zones) :
           /\ rf.zones[i].layers \in Seq(RfLayers)
           /\ rf.zones[i].override = <<>> \/ rf.zones[i].override = <<rf.zones[i].override[1]>>
  PROVE  Kept(rf, Len(rf.zones), ReadZones(rf))
<1> DEFINE items == rf.zones
           size == Len(items)
           start == [zones |-> <<>>, groups |-> <<<<Staged(rf.envelope)>>>>]
           done == CHOOSE f : ZoneReads(rf, f)
           map == FALSE
<1>1. /\ size \in Nat
      /\ \A i \in 1..size : /\ items[i].layers \in Seq(RfLayers)
                            /\ items[i].override = <<>> \/ items[i].override = <<items[i].override[1]>>
  OBVIOUS
<1>2. \A f : Runs(FALSE, start, items, f, size) = ZoneReads(rf, f) BY DEF Runs, ZoneReads, Taken
<1>3. \E f : ZoneReads(rf, f)
  <2>1. \E f : Runs(FALSE, start, items, f, size) BY <1>1, RunsTo
  <2> QED BY <1>2, <2>1
<1>4. ZoneReads(rf, done) BY <1>3
<1>5. ReadZones(rf) = done[size] BY DEF ReadZones, ZoneReads
<1>6. Kept(rf, 0, start)
  <2>1. start.zones = <<>> /\ start.groups = <<<<Staged(rf.envelope)>>>> OBVIOUS
  <2> HIDE DEF start
  <2>2. IsSeq(<<>>) /\ ToSet(<<>>) = {} BY DEF IsSeq, ToSet
  <2>3. IsSeq(start.groups) /\ Len(start.groups) = 1 /\ start.groups[1] = <<Staged(rf.envelope)>>
    BY <2>1 DEF IsSeq
  <2>4. UNION {WrittenIn(rf, rf.zones[i]) : i \in 1..0} = {} OBVIOUS
  <2> QED BY <2>1, <2>2, <2>3, <2>4 DEF Kept
<1>7. Runs(map, start, items, done, size) BY <1>2, <1>4
<1>8. \A before, item : Taken(map, before, item) = TakeZone(before, item) BY DEF Taken
<1> HIDE DEF done, items, size, start, map
<1> DEFINE S == {k \in Nat : k <= size /\ ~ Kept(rf, k, done[k])}
           m == Min(S)
<1>9. S = {}
  <2> SUFFICES ASSUME S # {} PROVE FALSE OBVIOUS
  <2>1. m \in S /\ \A k \in S : m <= k
    <3>1. S \in SUBSET Nat OBVIOUS
    <3> QED BY <3>1, LeastNatural
  <2> HIDE DEF m
  <2>2. m \in 0..size /\ ~ Kept(rf, m, done[m]) BY <1>1, <2>1
  <2>3. m # 0
    <3>1. 0 \in 0..size BY <1>1
    <3>2. done[0] = start BY <1>7, <3>1, RunsOne
    <3> QED BY <1>6, <2>2, <3>2
  <2>4. m \in 1..size /\ m - 1 \in Nat /\ m - 1 <= size /\ ~ (m <= m - 1) /\ (m - 1) + 1 = m
    BY <1>1, <2>2, <2>3
  <2>5. Kept(rf, m - 1, done[m - 1]) BY <2>1, <2>4
  <2>6. done[m] = TakeZone(done[m - 1], items[m]) BY <1>7, <1>8, <2>2, <2>3, RunsOne
  <2>7. /\ items[m].layers \in Seq(RfLayers)
        /\ items[m].override = <<>> \/ items[m].override = <<items[m].override[1]>>
    BY <1>1, <2>4
  <2>8. items[m] = rf.zones[(m - 1) + 1] BY <2>4 DEF items
  <2>9. Kept(rf, (m - 1) + 1, TakeZone(done[m - 1], items[m])) BY <2>4, <2>5, <2>7, <2>8, TakeZoneKeeps
  <2> QED BY <2>2, <2>4, <2>6, <2>9
<1>10. Kept(rf, size, done[size])
  <2>1. size \in Nat /\ size <= size BY <1>1
  <2> QED BY <1>9, <2>1
<1> QED BY <1>5, <1>10 DEF size, items

\* A voice is released no faster than MinimumRelease.
Floored(e) == [e EXCEPT !.release = Max({@, MinimumRelease})]

\* A region of a map that was loaded sounds as its zone says.
LEMMA RegionHeard ==
  ASSUME NEW map, NEW z, z.group + 1 \in DOMAIN map.groups, NEW e, map.groups[z.group + 1] = <<e>>
  PROVE  Heard(ResidentRegion(map, z))
           = <<Shelf[SampleOf(z.sample)], z.keys, z.velocities, z.start,
               Floored(e)>>
<1>1. ZoneEnvelope(map, z) = Floored(e)
  BY DEF ZoneEnvelope, Floored
<1> DEFINE r == ResidentRegion(map, z)
<1>2. /\ r.sample = Shelf[SampleOf(z.sample)] /\ r.keys = z.keys /\ r.velocities = z.velocities
      /\ r.start = z.start /\ r.envelope = ZoneEnvelope(map, z)
  BY DEF ResidentRegion
<1> HIDE DEF r
<1> QED BY <1>1, <1>2 DEF Heard, r

LEMMA LayersLoad ==
  ASSUME NEW n \in DOMAIN RfInstruments, OpenMapped(RfMap(RfInstruments[n])).kind = "sampled"
  PROVE  {Heard(r) : r \in ToSet(OpenMapped(RfMap(RfInstruments[n])).regions)}
           = UNION {LayersOfZone(RfInstruments[n], RfInstruments[n].zones[i]) :
                      i \in 1..Len(RfInstruments[n].zones)}
<1> DEFINE rf == RfInstruments[n]
           map == RfMap(rf)
           size == Len(rf.zones)
           regions == OpenMapped(map).regions
           Envelope(zone) == Staged(IF zone.override = <<>> THEN rf.envelope ELSE zone.override[1])
<1>1. /\ size \in Nat
      /\ \A i \in 1..size :
           /\ rf.zones[i].layers \in Seq(RfLayers)
           /\ rf.zones[i].override = <<>> \/ rf.zones[i].override = <<rf.zones[i].override[1]>>
  BY EngineAssumption DEF EngineAssumption
<1> HIDE DEF rf
<1>2. Kept(rf, size, ReadZones(rf)) BY <1>1, ZonesKept
<1>3. map.zones = ReadZones(rf).zones /\ map.groups = ReadZones(rf).groups BY DEF RfMap
<1>4. regions = [k \in DOMAIN map.zones |-> ResidentRegion(map, map.zones[k])]
  <2>1. NoInstrument.kind = "none" BY DEF NoInstrument
  <2>2. OpenMapped(map).kind = "sampled" BY DEF rf
  <2> HIDE DEF map
  <2> QED BY <2>1, <2>2 DEF OpenMapped
<1> HIDE DEF map, regions, size
<1>5. ToSet(regions) = {ResidentRegion(map, z) : z \in ToSet(map.zones)} BY <1>4 DEF ToSet
<1>6. DOMAIN map.groups = 1..Len(map.groups) BY <1>2, <1>3 DEF Kept, IsSeq
<1>7. /\ \A z \in ToSet(map.zones) : z.group + 1 \in DOMAIN map.groups
      /\ {Read(map.groups, z) : z \in ToSet(map.zones)} = UNION {WrittenIn(rf, rf.zones[i]) : i \in 1..size}
  BY <1>2, <1>3, <1>6 DEF Kept
<1>8. ASSUME NEW z \in ToSet(map.zones), NEW i \in 1..size, NEW j \in DOMAIN rf.zones[i].layers,
             Read(map.groups, z) = Written(rf, rf.zones[i], rf.zones[i].layers[j])
      PROVE  Heard(ResidentRegion(map, z)) = HeardAs(rf, rf.zones[i], rf.zones[i].layers[j])
  <2> DEFINE zone == rf.zones[i]
             layer == zone.layers[j]
             e == Envelope(zone)
  <2>1. /\ z.sample = layer.sample /\ z.keys = zone.low..zone.high
        /\ z.velocities = layer.low..layer.high /\ z.start = layer.start
        /\ map.groups[z.group + 1] = <<e>>
    BY <1>8 DEF Read, Written
  <2>2. HeardAs(rf, zone, layer)
          = <<Shelf[SampleOf(layer.sample)], zone.low..zone.high, layer.low..layer.high, layer.start,
              Floored(e)>>
    BY DEF HeardAs, Floored
  <2> HIDE DEF zone, layer, e
  <2>3. Heard(ResidentRegion(map, z))
          = <<Shelf[SampleOf(z.sample)], z.keys, z.velocities, z.start, Floored(e)>>
    BY <1>7, <2>1, RegionHeard
  <2>4. Heard(ResidentRegion(map, z)) = HeardAs(rf, zone, layer) BY <2>1, <2>2, <2>3
  <2> QED BY <2>4 DEF zone, layer
<1>9. ASSUME NEW r \in ToSet(regions)
      PROVE  \E i \in 1..size : Heard(r) \in LayersOfZone(rf, rf.zones[i])
  <2>1. PICK z \in ToSet(map.zones) : r = ResidentRegion(map, z) BY <1>5
  <2>2. PICK i \in 1..size : Read(map.groups, z) \in WrittenIn(rf, rf.zones[i]) BY <1>7, <2>1
  <2>3. PICK j \in DOMAIN rf.zones[i].layers :
          Read(map.groups, z) = Written(rf, rf.zones[i], rf.zones[i].layers[j])
    BY <2>2 DEF WrittenIn
  <2> QED BY <1>8, <2>1, <2>3 DEF LayersOfZone
<1>10. ASSUME NEW i \in 1..size, NEW j \in DOMAIN rf.zones[i].layers
       PROVE  \E r \in ToSet(regions) : Heard(r) = HeardAs(rf, rf.zones[i], rf.zones[i].layers[j])
  <2>1. Written(rf, rf.zones[i], rf.zones[i].layers[j]) \in WrittenIn(rf, rf.zones[i])
    BY DEF WrittenIn
  <2>2. PICK z \in ToSet(map.zones) :
          Read(map.groups, z) = Written(rf, rf.zones[i], rf.zones[i].layers[j])
    BY <1>7, <2>1
  <2> QED BY <1>5, <1>8, <2>2
<1>11. {Heard(r) : r \in ToSet(regions)} = UNION {LayersOfZone(rf, rf.zones[i]) : i \in 1..size}
  BY <1>9, <1>10 DEF LayersOfZone
<1> QED BY <1>11 DEF rf, size, regions, map

\* An RF instrument is what its layers make of it.
Layered == source[1] = "rf" => source[2] \in DOMAIN RfInstruments
                                 /\ instrument = OpenMapped(RfMap(RfInstruments[source[2]]))

LEMMA LayeredStart == Init => Layered
BY DEF Init, Layered

LEMMA LayeredStep == Layered /\ [Next]_vars => Layered'
<1> SUFFICES ASSUME Layered, [Next]_vars PROVE Layered' OBVIOUS
<1>1. ASSUME NEW from, NEW loaded, Install(from, loaded),
             from[1] = "rf" => from[2] \in DOMAIN RfInstruments
                                 /\ loaded = OpenMapped(RfMap(RfInstruments[from[2]]))
      PROVE  Layered'
  BY <1>1 DEF Install, Layered
<1>2. CASE \E n \in DOMAIN RfInstruments : Install(<<"rf", n>>, OpenMapped(RfMap(RfInstruments[n])))
  <2>1. PICK n \in DOMAIN RfInstruments : Install(<<"rf", n>>, OpenMapped(RfMap(RfInstruments[n])))
    BY <1>2
  <2> QED BY <1>1, <2>1
<1>3. ASSUME NEW kind \in {"sfz", "dls", "nki", "resident", "archive"}, NEW n, NEW loaded,
             Install(<<kind, n>>, loaded)
      PROVE  Layered'
  BY <1>1, <1>3
<1>4. CASE OpenDocument \/ OpenBank \/ OpenMap \/ LoadMapped \/ LoadSfz
  BY <1>2, <1>3, <1>4 DEF OpenDocument, OpenBank, OpenMap, LoadMapped, LoadSfz
<1>5. ASSUME UNCHANGED <<source, instrument>> PROVE Layered' BY <1>5 DEF Layered
<1>6. CASE Control \/ KeyDown BY <1>5, <1>6 DEF Control, KeyDown
<1>7. CASE Play \/ UNCHANGED vars BY <1>5, <1>7 DEF Play, engineVars, vars
<1> QED BY <1>4, <1>6, <1>7 DEF Next

LEMMA LayeredSounds == Layered => LayersSoundAsSaid
<1> SUFFICES ASSUME Layered, source[1] = "rf", instrument.kind = "sampled"
             PROVE  LayersSoundAsSaid
  BY DEF LayersSoundAsSaid
<1>1. source[2] \in DOMAIN RfInstruments /\ instrument = OpenMapped(RfMap(RfInstruments[source[2]]))
  BY DEF Layered
<1> QED BY <1>1, LayersLoad DEF LayersSoundAsSaid

\* An RF instrument plays its layers and nothing else, each under its own zone's envelope or
\* the instrument's (LayersSoundAsSaid): into_document adds a group for every zone that has
\* an envelope and counts them as it goes, and load_mapped finds each layer's by that count.
THEOREM EveryLayerHasItsEnvelope == Spec => []LayersSoundAsSaid
<1>1. Init => Layered BY LayeredStart
<1>2. Layered /\ [Next]_vars => Layered' BY LayeredStep
<1> QED BY <1>1, <1>2, LayeredSounds, PTL DEF Spec
=============================================================================
