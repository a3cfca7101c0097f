------------------------- MODULE StreamWindow_proofs -------------------------
(***************************************************************************)
(* Proofs about StreamWindow for every head, window, ring and history: as  *)
(* long as the lag is survivable, the window never leaves a gap, so it     *)
(* stays aligned with the stream and every answer is the frame asked for.  *)
(*                                                                         *)
(* The argument is a bound on the cursor.  A question that fails has just  *)
(* emptied the ring, so the cursor is then at most Lag past what was taken *)
(* and at most Lag + MaxAdvance past it at the next question: within the   *)
(* history, where advance_to does not realign.                             *)
(***************************************************************************)
EXTENDS StreamWindow, TLAPS

(* The window holds the frames it claims to hold. *)
Aligned == window = Run(start_frame, Len(window))

(* How far the cursor is past the frames taken from the stream. *)
CursorOrder ==
  /\ index <= delivered + Lag
  /\ at = "here" => index <= taken + Lag + MaxAdvance
  /\ at = "ahead" => index < taken
  /\ at = "advance" => index <= taken + Lag

(* Only frames further back than the history leave the window. *)
HistoryKept == start_frame = Preload \/ start_frame + HistoryFrames <= index + 1

IInv ==
  TypeOK /\ Contiguous /\ Aligned /\ RightFrame /\ CursorOrder /\ HistoryKept
-----------------------------------------------------------------------------
(* Runs of frames.                                                         *)

LEMMA RunIsSeq ==
  ASSUME NEW from \in Nat, NEW n \in Nat
  PROVE  /\ Run(from, n) \in Seq(Nat)
         /\ Len(Run(from, n)) = n
         /\ \A i \in 1..n : Run(from, n)[i] = from + i - 1
  <1>1. Run(from, n) \in [1..n -> Nat]
    BY DEF Run
  <1>2. Run(from, n) \in Seq(Nat) /\ Len(Run(from, n)) = n
    BY <1>1
  <1> QED  BY <1>2 DEF Run

(* What is left of a run after its first c frames is a run. *)
LEMMA RunTail ==
  ASSUME NEW from \in Nat, NEW n \in Nat, NEW c \in 0..n
  PROVE  SubSeq(Run(from, n), c + 1, n) = Run(from + c, n - c)
  <1> DEFINE s == Run(from, n)
             t == SubSeq(s, c + 1, n)
             u == Run(from + c, n - c)
  <1>1. s \in Seq(Nat) /\ Len(s) = n /\ \A i \in 1..n : s[i] = from + i - 1
    BY RunIsSeq
  <1>2. from + c \in Nat /\ n - c \in Nat
    OBVIOUS
  <1>3. u \in Seq(Nat) /\ Len(u) = n - c /\ \A i \in 1..(n - c) : u[i] = from + c + i - 1
    BY <1>2, RunIsSeq
  <1> HIDE DEF s
  <1>4. t \in Seq(Nat) /\ Len(t) = n - c /\ \A i \in 1..(n - c) : t[i] = s[c + i]
    BY <1>1, <1>2
  <1> HIDE DEF t, u
  <1>5. \A i \in 1..(n - c) : t[i] = u[i]
    <2> TAKE i \in 1..(n - c)
    <2>1. c + i \in 1..n  BY <1>2
    <2> QED  BY <1>1, <1>3, <1>4, <2>1
  <1>6. t = u
    BY <1>2, <1>3, <1>4, <1>5
  <1> QED  BY <1>6 DEF s, t, u

(* Two runs that meet are one run. *)
LEMMA RunJoin ==
  ASSUME NEW from \in Nat, NEW m \in Nat, NEW n \in Nat
  PROVE  Run(from, m) \o Run(from + m, n) = Run(from, m + n)
  <1> DEFINE s == Run(from, m)
             t == Run(from + m, n)
             u == Run(from, m + n)
             j == s \o t
  <1>0. from + m \in Nat /\ m + n \in Nat
    OBVIOUS
  <1>1. s \in Seq(Nat) /\ Len(s) = m /\ \A i \in 1..m : s[i] = from + i - 1
    BY RunIsSeq
  <1>2. t \in Seq(Nat) /\ Len(t) = n /\ \A i \in 1..n : t[i] = from + m + i - 1
    BY <1>0, RunIsSeq
  <1>3. u \in Seq(Nat) /\ Len(u) = m + n /\ \A i \in 1..(m + n) : u[i] = from + i - 1
    BY <1>0, RunIsSeq
  <1> HIDE DEF s, t, u
  <1>4. /\ j \in Seq(Nat) /\ Len(j) = m + n
        /\ \A i \in 1..(m + n) : j[i] = IF i <= m THEN s[i] ELSE t[i - m]
    <2>1. s \in Seq(Nat) /\ t \in Seq(Nat) /\ Len(s) = m /\ Len(t) = n
      BY <1>1, <1>2
    <2>2. j \in Seq(Nat) /\ Len(j) = m + n
      BY <2>1
    <2>3. \A i \in 1..(m + n) : j[i] = IF i <= m THEN s[i] ELSE t[i - m]
      BY <2>1
    <2> QED  BY <2>2, <2>3
  <1> HIDE DEF j
  <1>5. \A i \in 1..(m + n) : j[i] = u[i]
    <2> TAKE i \in 1..(m + n)
    <2>1. CASE i <= m
      <3>1. i \in 1..m  BY <2>1
      <3> QED  BY <1>1, <1>3, <1>4, <2>1, <3>1
    <2>2. CASE ~(i <= m)
      <3>1. i - m \in 1..n  BY <2>2
      <3> QED  BY <1>2, <1>3, <1>4, <2>2, <3>1
    <2> QED  BY <2>1, <2>2
  <1>6. j = u
    BY <1>3, <1>4, <1>5
  <1> QED  BY <1>6 DEF s, t, u, j
-----------------------------------------------------------------------------
(* advance_to, asked for a frame past the window and within the history of *)
(* what was taken, slides an aligned window into an aligned one, and then  *)
(* either holds the frame or has emptied the ring. *)
LEMMA AdvanceToSlides ==
  ASSUME TypeOK, Contiguous, Aligned, NEW frame \in Nat,
         taken <= frame, frame <= taken + HistoryFrames
  PROVE  LET m == AdvanceTo(frame)
             len == Len(m.window)
         IN /\ len \in Nat /\ len <= WindowFrames
            /\ m.start \in Nat /\ m.taken \in taken..delivered
            /\ m.start + len = m.taken
            /\ m.window = Run(m.start, len)
            /\ m.start <= frame
            /\ m.start = start_frame \/ m.start + HistoryFrames <= frame
            /\ frame < m.taken \/ m.taken = delivered
  <1> DEFINE len == Len(window)
             target == Less(frame, HistoryFrames)
             consumed == Smaller(Less(target, start_frame), len)
             gap == target > start_frame + consumed
             start == IF gap THEN frame ELSE start_frame + consumed
             rest == IF gap THEN <<>> ELSE SubSeq(window, consumed + 1, len)
             n == Smaller(WindowFrames - Len(rest), delivered - taken)
  <1>0. AdvanceTo(frame) =
          [window |-> rest \o Run(taken, n), start |-> start, taken |-> taken + n]
    BY DEF AdvanceTo
  <1>1. /\ len \in Nat /\ len <= WindowFrames /\ start_frame \in Nat
        /\ start_frame + len = taken
        /\ delivered \in Nat /\ taken \in Nat /\ taken <= delivered
        /\ WindowFrames \in Nat /\ HistoryFrames \in Nat
        /\ HistoryFrames < WindowFrames
    BY StreamWindowAssumption DEF TypeOK, Contiguous
  <1>2. target \in Nat /\ target <= taken /\ target <= frame
        /\ frame <= target + HistoryFrames
        /\ (target = 0 \/ target + HistoryFrames = frame)
    BY <1>1 DEF Less, Larger
  <1> HIDE DEF target, len
  <1>3. /\ consumed \in 0..len
        /\ target <= start_frame + consumed
        /\ consumed = 0 \/ start_frame + consumed <= target
    BY <1>1, <1>2 DEF Smaller, Less, Larger
  <1> HIDE DEF consumed
  <1>4. ~gap
    BY <1>1, <1>2, <1>3
  <1>5. start = start_frame + consumed /\ rest = SubSeq(window, consumed + 1, len)
    BY <1>4
  <1> HIDE DEF gap, start
  <1>6. rest = Run(start, len - consumed)
    <2>1. window = Run(start_frame, len)
      BY DEF Aligned, len
    <2> QED  BY <1>1, <1>3, <1>5, <2>1, RunTail
  <1>7. start \in Nat /\ len - consumed \in Nat
    BY <1>1, <1>3, <1>5
  <1>8. Len(rest) = len - consumed
    BY <1>6, <1>7, RunIsSeq
  <1> HIDE DEF rest
  <1>9. /\ n \in Nat /\ n <= delivered - taken /\ Len(rest) + n <= WindowFrames
        /\ n = delivered - taken \/ Len(rest) + n = WindowFrames
    BY <1>1, <1>3, <1>8 DEF Smaller
  <1> HIDE DEF n
  <1>10. start + Len(rest) = taken
    BY <1>1, <1>3, <1>5, <1>8
  <1>11. rest \o Run(taken, n) = Run(start, Len(rest) + n)
    <2> DEFINE held == Len(rest)
    <2>1. held \in Nat /\ start \in Nat /\ n \in Nat
          /\ rest = Run(start, held) /\ start + held = taken
      BY <1>6, <1>7, <1>8, <1>9, <1>10
    <2> HIDE DEF held
    <2>2. Run(start, held) \o Run(start + held, n) = Run(start, held + n)
      BY <2>1, RunJoin
    <2>3. rest \o Run(taken, n) = Run(start, held + n)
      BY <2>1, <2>2
    <2> QED  BY <2>3 DEF held
  <1>12. Len(rest \o Run(taken, n)) = Len(rest) + n
    <2>1. Len(rest) + n \in Nat
      BY <1>7, <1>8, <1>9
    <2> QED  BY <1>7, <1>11, <2>1, RunIsSeq
  <1>13. start = start_frame \/ start + HistoryFrames <= frame
    BY <1>1, <1>2, <1>3, <1>5
  <1>14. frame < taken + n \/ taken + n = delivered
    <2>1. CASE n = delivered - taken
      BY <1>1, <2>1
    <2>2. CASE Len(rest) + n = WindowFrames
      BY <1>1, <1>2, <1>3, <1>5, <1>9, <1>10, <2>2
    <2> QED  BY <1>9, <2>1, <2>2
  <1>15. start <= frame
    BY <1>1, <1>2, <1>3, <1>5
  <1>16. Len(rest) + n \in Nat /\ start + (Len(rest) + n) = taken + n
         /\ taken + n \in taken..delivered
    BY <1>1, <1>7, <1>8, <1>9, <1>10
  <1> DEFINE joined == rest \o Run(taken, n)
             new == Len(rest) + n
  <1>17. /\ AdvanceTo(frame).window = joined
         /\ AdvanceTo(frame).start = start
         /\ AdvanceTo(frame).taken = taken + n
    BY <1>0
  <1>18. Len(joined) = new /\ joined = Run(start, new) /\ new \in Nat
         /\ new <= WindowFrames /\ start + new = taken + n
    BY <1>9, <1>11, <1>12, <1>16
  <1> HIDE DEF joined, new
  <1> QED
    BY <1>7, <1>13, <1>14, <1>15, <1>16, <1>17, <1>18
-----------------------------------------------------------------------------
(* One question of the voice, within the history of what was taken. *)
LEMMA FrameAtAnswers ==
  ASSUME IInv, NEW frame \in Nat, FrameAt(frame),
         frame <= taken + HistoryFrames
  PROVE  /\ window' \in Seq(Nat) /\ Len(window') <= WindowFrames
         /\ start_frame' \in Nat /\ taken' \in taken..delivered
         /\ heard' \in [asked : Nat, got : Nat \cup {None}]
         /\ Contiguous' /\ Aligned' /\ RightFrame'
         /\ heard'.asked = frame
         /\ start_frame' = start_frame \/ start_frame' + HistoryFrames <= frame
         /\ heard'.got = None =>
              frame < start_frame \/ (frame >= taken' /\ taken' = delivered)
         /\ heard'.got # None => frame < taken'
  <1>1. /\ TypeOK /\ Contiguous /\ Aligned
        /\ Preload \in Nat /\ None \notin Nat
        /\ start_frame \in Nat /\ taken \in Nat /\ delivered \in Nat
        /\ taken <= delivered /\ Preload <= taken
        /\ Len(window) \in Nat /\ window \in Seq(Nat) /\ Len(window) <= WindowFrames
    BY StreamWindowAssumption DEF IInv, TypeOK
  <1>2. CASE frame < Preload
    <2>1. /\ heard' = [asked |-> frame, got |-> frame]
          /\ UNCHANGED <<taken, window, start_frame>>
      BY <1>1, <1>2 DEF FrameAt
    <2> QED  BY <1>1, <1>2, <2>1 DEF Contiguous, Aligned, RightFrame
  <1>3. CASE frame >= Preload /\ frame < start_frame
    <2>1. /\ heard' = [asked |-> frame, got |-> None]
          /\ UNCHANGED <<taken, window, start_frame>>
      BY <1>1, <1>3 DEF FrameAt
    <2> QED  BY <1>1, <1>3, <2>1 DEF Contiguous, Aligned, RightFrame
  <1>4. CASE frame >= Preload /\ frame >= start_frame
    <2> DEFINE moved == IF frame >= start_frame + Len(window) THEN AdvanceTo(frame)
                        ELSE [window |-> window, start |-> start_frame, taken |-> taken]
               len == Len(moved.window)
    <2>1. /\ len \in Nat /\ len <= WindowFrames
          /\ moved.start \in Nat /\ moved.taken \in taken..delivered
          /\ moved.start + len = moved.taken
          /\ moved.window = Run(moved.start, len)
          /\ moved.start <= frame
          /\ moved.start = start_frame \/ moved.start + HistoryFrames <= frame
          /\ frame < moved.taken \/ moved.taken = delivered
      <3>1. CASE frame >= start_frame + Len(window)
        <4>1. moved = AdvanceTo(frame)
          BY <3>1
        <4>2. taken <= frame
          BY <1>1, <3>1 DEF Contiguous
        <4> QED  BY <1>1, <4>1, <4>2, AdvanceToSlides
      <3>2. CASE ~(frame >= start_frame + Len(window))
        <4>1. moved = [window |-> window, start |-> start_frame, taken |-> taken]
          BY <3>2
        <4> QED  BY <1>1, <1>4, <3>2, <4>1 DEF Contiguous, Aligned
      <3> QED  BY <3>1, <3>2
    <2>2. /\ window' = moved.window /\ start_frame' = moved.start
          /\ taken' = moved.taken
          /\ heard' = [asked |-> frame,
                       got |-> IF frame - moved.start >= len THEN None
                               ELSE moved.window[frame - moved.start + 1]]
      BY <1>1, <1>4 DEF FrameAt, Frame
    <2> HIDE DEF moved
    <2>3. \A i \in 1..len : moved.window[i] = moved.start + i - 1
      BY <2>1, RunIsSeq
    <2>4. moved.window \in Seq(Nat)
      BY <2>1, RunIsSeq
    <2>5. CASE frame - moved.start >= len
      <3>1. heard' = [asked |-> frame, got |-> None]
        BY <2>2, <2>5
      <3> QED
        BY <1>1, <2>1, <2>2, <2>4, <2>5, <3>1 DEF Contiguous, Aligned, RightFrame
    <2>6. CASE ~(frame - moved.start >= len)
      <3>1. frame - moved.start + 1 \in 1..len
        BY <2>1, <2>6
      <3>2. heard' = [asked |-> frame, got |-> frame]
        BY <2>1, <2>2, <2>3, <2>6, <3>1
      <3>3. Contiguous' /\ Aligned'
        BY <2>1, <2>2 DEF Contiguous, Aligned
      <3>4. heard' \in [asked : Nat, got : Nat \cup {None}] /\ RightFrame'
        BY <3>2 DEF RightFrame
      <3>5. heard'.got # None /\ heard'.asked = frame
        BY <1>1, <3>2
      <3>6. frame < taken'
        BY <1>1, <2>1, <2>2, <2>6
      <3> QED  BY <2>1, <2>2, <2>4, <3>3, <3>4, <3>5, <3>6
    <2> QED  BY <2>5, <2>6
  <1> QED  BY <1>1, <1>2, <1>3, <1>4
-----------------------------------------------------------------------------
(* The invariant is inductive. *)

LEMMA Constants ==
  /\ {Preload, FrameCount, RingFrames, WindowFrames, HistoryFrames,
      MaxAdvance, Lag} \subseteq Nat
  /\ Preload <= FrameCount /\ None \notin Nat
  BY StreamWindowAssumption

LEMMA InitIInv ==
  ASSUME Init PROVE IInv
  <1>1. Run(Preload, 0) = <<>> /\ Len(<<>>) = 0
    <2>1. Run(Preload, 0) \in Seq(Nat) /\ Len(Run(Preload, 0)) = 0
      BY Constants, RunIsSeq
    <2> QED  BY <2>1
  <1>2. TypeOK
    BY Constants, StreamWindowAssumption DEF Init, TypeOK
  <1>3. Contiguous /\ Aligned /\ RightFrame
    BY <1>1, Constants DEF Init, Contiguous, Aligned, RightFrame
  <1>4. CursorOrder /\ HistoryKept
    BY Constants DEF Init, CursorOrder, HistoryKept
  <1> QED  BY <1>2, <1>3, <1>4 DEF IInv

(* The numbers of a state of the invariant. *)
LEMMA Numbers ==
  ASSUME IInv
  PROVE  /\ delivered \in Nat /\ taken \in Nat /\ index \in Nat /\ start_frame \in Nat
         /\ Preload <= taken /\ taken <= delivered /\ delivered <= FrameCount
         /\ delivered - taken <= RingFrames
         /\ index <= FrameCount
         /\ Len(window) \in Nat /\ start_frame + Len(window) = taken
         /\ start_frame <= taken
         /\ Preload \in Nat /\ FrameCount \in Nat /\ RingFrames \in Nat
         /\ HistoryFrames \in Nat /\ MaxAdvance \in Nat /\ Lag \in Nat
  BY Constants DEF IInv, TypeOK, Contiguous

LEMMA DeliverKeeps ==
  ASSUME IInv, NEW n \in 1..RingFrames, Deliver(n)
  PROVE  IInv'
  <1>1. /\ delivered' = delivered + n /\ delivered' <= FrameCount
        /\ delivered' - taken <= RingFrames
        /\ UNCHANGED <<taken, window, start_frame, index, at, heard>>
    BY Numbers DEF Deliver
  <1>2. TypeOK'
    BY <1>1, Numbers DEF IInv, TypeOK
  <1>3. Contiguous' /\ Aligned' /\ RightFrame' /\ HistoryKept'
    BY <1>1 DEF IInv, Contiguous, Aligned, RightFrame, HistoryKept
  <1>4. CursorOrder'
    BY <1>1, Numbers DEF IInv, CursorOrder
  <1> QED  BY <1>2, <1>3, <1>4 DEF IInv

LEMMA HereKeeps ==
  ASSUME Survivable, IInv, Here
  PROVE  IInv'
  <1>1. /\ at = "here" /\ FrameAt(index)
        /\ at' = IF heard'.got = None THEN "advance" ELSE "ahead"
        /\ delivered' = delivered /\ index' = index
    BY DEF Here
  <1>2. index \in Nat /\ index <= taken + HistoryFrames /\ index <= delivered + Lag
    BY <1>1, Numbers DEF IInv, CursorOrder, Survivable
  <1>3. /\ window' \in Seq(Nat) /\ Len(window') <= WindowFrames
        /\ start_frame' \in Nat /\ taken' \in taken..delivered
        /\ heard' \in [asked : Nat, got : Nat \cup {None}]
        /\ Contiguous' /\ Aligned' /\ RightFrame'
        /\ start_frame' = start_frame \/ start_frame' + HistoryFrames <= index
        /\ heard'.got = None =>
             index < start_frame \/ (index >= taken' /\ taken' = delivered)
        /\ heard'.got # None => index < taken'
    BY <1>1, <1>2, FrameAtAnswers
  <1>4. TypeOK'
    BY <1>1, <1>3, Numbers DEF IInv, TypeOK
  <1>5. CursorOrder'
    <2>1. taken' \in Nat /\ taken <= taken' /\ taken' <= delivered /\ start_frame <= taken'
      BY <1>3, Numbers
    <2>2. heard'.got = None => index <= taken' + Lag
      <3>1. heard'.got = None =>
              index < start_frame \/ (index >= taken' /\ taken' = delivered)
        BY <1>3
      <3>2. CASE index < start_frame
        BY <1>2, <2>1, <3>2, Numbers
      <3>3. CASE taken' = delivered
        BY <1>2, <3>3
      <3> QED  BY <3>1, <3>2, <3>3
    <2>3. heard'.got # None => index < taken'
      BY <1>3
    <2> QED  BY <1>1, <1>2, <2>2, <2>3 DEF CursorOrder
  <1>6. HistoryKept'
    <2>1. start_frame = Preload \/ start_frame + HistoryFrames <= index + 1
      BY DEF IInv, HistoryKept
    <2>2. start_frame' \in Nat
      BY <1>3
    <2>3. start_frame' = start_frame \/ start_frame' + HistoryFrames <= index
      BY <1>3
    <2>4. start_frame' = start_frame \/ start_frame' + HistoryFrames <= index + 1
      BY <1>2, <2>2, <2>3, Numbers
    <2>5. index' = index
      BY <1>1
    <2> QED  BY <2>1, <2>4, <2>5 DEF HistoryKept
  <1> QED  BY <1>3, <1>4, <1>5, <1>6 DEF IInv

LEMMA AheadKeeps ==
  ASSUME IInv, Ahead
  PROVE  IInv'
  <1> DEFINE next == IF index + 1 < FrameCount THEN index + 1 ELSE index
  <1>1. /\ at = "ahead" /\ FrameAt(next) /\ at' = "advance"
        /\ delivered' = delivered /\ index' = index
    BY DEF Ahead
  <1>2. next \in Nat /\ next <= index + 1 /\ next <= taken + HistoryFrames
        /\ index < taken /\ index <= delivered + Lag
    BY <1>1, Numbers DEF IInv, CursorOrder
  <1> HIDE DEF next
  <1>3. /\ window' \in Seq(Nat) /\ Len(window') <= WindowFrames
        /\ start_frame' \in Nat /\ taken' \in taken..delivered
        /\ heard' \in [asked : Nat, got : Nat \cup {None}]
        /\ Contiguous' /\ Aligned' /\ RightFrame'
        /\ start_frame' = start_frame \/ start_frame' + HistoryFrames <= next
    BY <1>1, <1>2, FrameAtAnswers
  <1>4. TypeOK'
    BY <1>1, <1>3, Numbers DEF IInv, TypeOK
  <1>5. CursorOrder'
    <2>1. taken' \in Nat /\ taken <= taken' /\ taken \in Nat /\ Lag \in Nat
      BY <1>3, Numbers
    <2>2. index <= taken' + Lag
      BY <1>2, <2>1, Numbers
    <2> QED  BY <1>1, <1>2, <2>2 DEF CursorOrder
  <1>6. HistoryKept'
    <2>1. start_frame = Preload \/ start_frame + HistoryFrames <= index + 1
      BY DEF IInv, HistoryKept
    <2>2. start_frame' \in Nat
      BY <1>3
    <2>3. start_frame' = start_frame \/ start_frame' + HistoryFrames <= next
      BY <1>3
    <2>4. start_frame' = start_frame \/ start_frame' + HistoryFrames <= index + 1
      <3>1. ASSUME NEW x \in Nat, NEW y \in Nat, NEW h \in Nat, NEW i \in Nat,
                   x + h <= y, y <= i + 1
            PROVE  x + h <= i + 1
        BY <3>1
      <3>2. next \in Nat /\ next <= index + 1 /\ index \in Nat /\ HistoryFrames \in Nat
        BY <1>2, Numbers
      <3> QED  BY <2>2, <2>3, <3>1, <3>2
    <2>5. index' = index
      BY <1>1
    <2> QED  BY <2>1, <2>4, <2>5 DEF HistoryKept
  <1> QED  BY <1>3, <1>4, <1>5, <1>6 DEF IInv

LEMMA AdvanceKeeps ==
  ASSUME IInv, NEW d \in 0..MaxAdvance, Advance(d)
  PROVE  IInv'
  <1>1. /\ at = "advance" /\ index + d <= delivered + Lag
        /\ index' = Smaller(index + d, FrameCount) /\ at' = "here"
        /\ UNCHANGED <<delivered, taken, window, start_frame, heard>>
    BY DEF Advance
  <1>2. /\ index' \in 0..FrameCount /\ index <= index' /\ index' <= index + d
        /\ index <= taken + Lag
    BY <1>1, Numbers DEF IInv, CursorOrder, Smaller
  <1>3. TypeOK'
    BY <1>1, <1>2, Numbers DEF IInv, TypeOK
  <1>4. Contiguous' /\ Aligned' /\ RightFrame'
    BY <1>1 DEF IInv, Contiguous, Aligned, RightFrame
  <1>5. CursorOrder'
    BY <1>1, <1>2, Numbers DEF CursorOrder
  <1>6. HistoryKept'
    BY <1>1, <1>2, Numbers DEF IInv, HistoryKept
  <1> QED  BY <1>3, <1>4, <1>5, <1>6 DEF IInv

LEMMA StepIInv ==
  ASSUME Survivable, IInv, [Next]_vars
  PROVE  IInv'
  <1>1. CASE \E n \in 1..RingFrames : Deliver(n)
    BY <1>1, DeliverKeeps
  <1>2. CASE Here
    BY <1>2, HereKeeps
  <1>3. CASE Ahead
    BY <1>3, AheadKeeps
  <1>4. CASE \E d \in 0..MaxAdvance : Advance(d)
    BY <1>4, AdvanceKeeps
  <1>5. CASE UNCHANGED vars
    BY <1>5 DEF IInv, TypeOK, Contiguous, Aligned, RightFrame, CursorOrder,
      HistoryKept, vars
  <1> QED  BY <1>1, <1>2, <1>3, <1>4, <1>5 DEF Next

LEMMA Invariance ==
  ASSUME Survivable
  PROVE  Spec => []IInv
  <1>1. Init => IInv  BY InitIInv
  <1>2. IInv /\ [Next]_vars => IInv'  BY StepIInv
  <1> QED  BY <1>1, <1>2, PTL DEF Spec
-----------------------------------------------------------------------------
(* The window and the ring stay within their buffers, for every size. *)
THEOREM WindowIsBounded ==
  ASSUME Survivable
  PROVE  Spec => []TypeOK
  <1>1. IInv => TypeOK  BY DEF IInv
  <1> QED  BY <1>1, Invariance, PTL

(* The answer to every question of StreamWindow::frame and Voice::frame_at *)
(* is the frame asked for or silence, for every survivable lag. *)
THEOREM AnswersAreRight ==
  ASSUME Survivable
  PROVE  Spec => []RightFrame
  <1>1. IInv => RightFrame  BY DEF IInv
  <1> QED  BY <1>1, Invariance, PTL

(* No frame of the stream is lost between the ring and the window. *)
THEOREM NothingIsSkipped ==
  ASSUME Survivable
  PROVE  Spec => []Contiguous
  <1>1. IInv => Contiguous  BY DEF IInv
  <1> QED  BY <1>1, Invariance, PTL

(* A frame the reader has delivered is never answered with silence.        *)
THEOREM SilenceIsStarvation ==
  ASSUME Survivable
  PROVE  Spec => SilentOnlyWhenStarved
  <1> DEFINE A == heard' # heard /\ heard'.got = None => heard'.asked >= delivered
  <1>1. ASSUME IInv, NEW frame \in Nat, FrameAt(frame),
               frame <= taken + HistoryFrames, frame >= index
        PROVE  A
    <2>1. /\ heard'.asked = frame
          /\ heard'.got = None =>
               frame < start_frame \/ (frame >= taken' /\ taken' = delivered)
      BY <1>1, FrameAtAnswers
    <2>2. frame < start_frame => heard'.got # None
      <3>1. start_frame = Preload \/ start_frame + HistoryFrames <= index + 1
        BY <1>1 DEF IInv, HistoryKept
      <3>2. frame < start_frame => frame < Preload
        BY <1>1, <3>1, Numbers DEF Survivable
      <3>3. frame < Preload => heard' = [asked |-> frame, got |-> frame]
        BY <1>1, Constants DEF FrameAt
      <3> QED  BY <1>1, <3>2, <3>3, Constants
    <2> QED  BY <1>1, <2>1, <2>2, Numbers
  <1>2. ASSUME IInv, [Next]_vars PROVE [A]_vars
    <2>1. CASE Here
      <3>1. FrameAt(index) /\ index <= taken + HistoryFrames /\ index \in Nat
        BY <1>2, <2>1, Numbers DEF Here, IInv, CursorOrder, Survivable
      <3> QED  BY <1>1, <1>2, <3>1, Numbers
    <2>2. CASE Ahead
      <3> DEFINE next == IF index + 1 < FrameCount THEN index + 1 ELSE index
      <3>1. FrameAt(next)
        BY <2>2 DEF Ahead
      <3>2. next \in Nat /\ next <= taken + HistoryFrames /\ next >= index
        BY <1>2, <2>2, Numbers DEF Ahead, IInv, CursorOrder
      <3> HIDE DEF next
      <3> QED  BY <1>1, <1>2, <3>1, <3>2
    <2>3. CASE \/ \E n \in 1..RingFrames : Deliver(n)
               \/ \E d \in 0..MaxAdvance : Advance(d)
               \/ UNCHANGED vars
      BY <2>3 DEF Deliver, Advance, vars
    <2> QED  BY <1>2, <2>1, <2>2, <2>3 DEF Next
  <1>3. IInv /\ [Next]_vars => [A]_vars
    BY <1>2
  <1> QED  BY <1>3, Invariance, PTL DEF Spec, SilentOnlyWhenStarved
=============================================================================
