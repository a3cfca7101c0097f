---------------------------- MODULE StreamWindow ----------------------------
(***************************************************************************)
(* crates/rf-soundfonts-engine/src/streamer.rs, StreamWindow, and the      *)
(* voice that plays through it (lib.rs: interpolate_frame, frame_at): a    *)
(* resident head, then a window that slides over the frames of a stream.   *)
(*                                                                         *)
(* A frame is its own index, so a window is right when the frame it holds  *)
(* at index n is n.  The stream is what StreamPool promises: consecutive   *)
(* frames from the end of the head.  The reader fills it concurrently with *)
(* the voice, which asks for two adjacent frames per output frame and      *)
(* advances whether or not it was answered.                                *)
(***************************************************************************)
EXTENDS Integers, Sequences

CONSTANTS
  Preload,        \* frames in the resident head
  FrameCount,     \* frames in the sample
  RingFrames,     \* frames the stream's ring holds
  WindowFrames,   \* WINDOW_FRAMES
  HistoryFrames,  \* HISTORY_FRAMES
  MaxAdvance,     \* whole frames the cursor may advance per output frame
  Lag,            \* frames the cursor may run ahead of the reader
  None            \* a frame that has not arrived

ASSUME StreamWindowAssumption ==
  /\ {Preload, FrameCount, RingFrames, WindowFrames, HistoryFrames,
      MaxAdvance, Lag} \subseteq Nat
  /\ Preload <= FrameCount
  /\ 0 < RingFrames
  /\ HistoryFrames < WindowFrames
  /\ None \notin Nat

VARIABLES
  delivered,    \* the first frame the reader has not put in the ring
  taken,        \* the first frame not yet taken from the ring
  window,       \* StreamWindow.window[..filled]
  start_frame,  \* StreamWindow.start_frame
  index,        \* the whole part of Voice.position
  at,           \* the voice: about to ask for "here", "ahead", or to "advance"
  heard         \* the last frame asked for, and the answer

vars == <<delivered, taken, window, start_frame, index, at, heard>>

Smaller(a, b) == IF a < b THEN a ELSE b
Larger(a, b) == IF a > b THEN a ELSE b
Less(a, b) == Larger(a - b, 0)   \* usize::saturating_sub
Run(from, n) == [i \in 1..n |-> from + i - 1]

Init ==
  /\ delivered = Preload /\ taken = Preload
  /\ window = <<>> /\ start_frame = Preload
  /\ index = 0 /\ at = "here"
  /\ heard = [asked |-> 0, got |-> 0]

(* The streamer tops the ring up, within its capacity and the sample. *)
Deliver(n) ==
  /\ delivered + n <= FrameCount
  /\ delivered + n - taken <= RingFrames
  /\ delivered' = delivered + n
  /\ UNCHANGED <<taken, window, start_frame, index, at, heard>>

(* advance_to with nothing kept behind the cursor. *)
ForgetfulAdvanceTo(frame) ==
  LET consumed == Smaller(Less(frame, start_frame), Len(window))
      gap == frame > start_frame + consumed
      start == IF gap THEN frame ELSE start_frame + consumed
      rest == IF gap THEN <<>> ELSE SubSeq(window, consumed + 1, Len(window))
      n == Smaller(WindowFrames - Len(rest), delivered - taken)
  IN [window |-> rest \o Run(taken, n), start |-> start, taken |-> taken + n]

(* advance_to that moves the frames and not their first index. *)
MislabelledAdvanceTo(frame) ==
  LET consumed == Smaller(Less(Less(frame, HistoryFrames), start_frame), Len(window))
      rest == SubSeq(window, consumed + 1, Len(window))
      n == Smaller(WindowFrames - Len(rest), delivered - taken)
  IN [window |-> rest \o Run(taken, n), start |-> start_frame, taken |-> taken + n]

(* advance_to that reads all there is, whatever the window's buffer holds. *)
OverfullAdvanceTo(frame) ==
  LET consumed == Smaller(Less(Less(frame, HistoryFrames), start_frame), Len(window))
      rest == SubSeq(window, consumed + 1, Len(window))
  IN [window |-> rest \o Run(taken, delivered - taken),
      start |-> start_frame + consumed, taken |-> delivered]

(* StreamWindow::advance_to, as the window, its first frame and the        *)
(* stream's position it leaves behind: discard what lies behind the        *)
(* history, realign past a gap, read what fits. *)
AdvanceTo(frame) ==
  LET target == Less(frame, HistoryFrames)
      consumed == Smaller(Less(target, start_frame), Len(window))
      gap == target > start_frame + consumed
      start == IF gap THEN frame ELSE start_frame + consumed
      rest == IF gap THEN <<>> ELSE SubSeq(window, consumed + 1, Len(window))
      n == Smaller(WindowFrames - Len(rest), delivered - taken)
  IN [window |-> rest \o Run(taken, n), start |-> start, taken |-> taken + n]

(* StreamWindow::frame, past the "behind the window" return. *)
Frame(frame) ==
  LET moved == IF frame >= start_frame + Len(window) THEN AdvanceTo(frame)
               ELSE [window |-> window, start |-> start_frame, taken |-> taken]
      offset == frame - moved.start
  IN /\ window' = moved.window /\ start_frame' = moved.start /\ taken' = moved.taken
     /\ heard' = [asked |-> frame,
                  got |-> IF offset >= Len(moved.window) THEN None
                          ELSE moved.window[offset + 1]]

(* Voice::frame_at: the head, else the stream. *)
FrameAt(frame) ==
  \/ /\ frame < Preload
     /\ heard' = [asked |-> frame, got |-> frame]
     /\ UNCHANGED <<taken, window, start_frame>>
  \/ /\ frame >= Preload /\ frame < start_frame
     /\ heard' = [asked |-> frame, got |-> None]
     /\ UNCHANGED <<taken, window, start_frame>>
  \/ /\ frame >= Preload /\ frame >= start_frame
     /\ Frame(frame)

(* Voice::interpolate_frame: the frame under the cursor; silence and no    *)
(* second question when it has not arrived. *)
Here ==
  /\ at = "here" /\ index < FrameCount
  /\ FrameAt(index)
  /\ at' = IF heard'.got = None THEN "advance" ELSE "ahead"
  /\ UNCHANGED <<delivered, index>>

(* The frame after it, or itself at the end of the sample. *)
Ahead ==
  /\ at = "ahead"
  /\ FrameAt(IF index + 1 < FrameCount THEN index + 1 ELSE index)
  /\ at' = "advance"
  /\ UNCHANGED <<delivered, index>>

(* self.position += increment, whatever was heard: a note below its root   *)
(* stays on an index, one above it skips some. *)
Advance(d) ==
  /\ at = "advance"
  /\ index + d <= delivered + Lag
  /\ index' = Smaller(index + d, FrameCount)
  /\ at' = "here"
  /\ UNCHANGED <<delivered, taken, window, start_frame, heard>>

Next ==
  \/ \E n \in 1..RingFrames : Deliver(n)
  \/ Here
  \/ Ahead
  \/ \E d \in 0..MaxAdvance : Advance(d)

Spec == Init /\ [][Next]_vars
-----------------------------------------------------------------------------
(* Every variable has its type; the window never outgrows its buffer and   *)
(* the ring never holds more than it can. *)
TypeOK ==
  /\ delivered \in Preload..FrameCount
  /\ taken \in Preload..delivered /\ delivered - taken <= RingFrames
  /\ window \in Seq(Nat) /\ Len(window) <= WindowFrames
  /\ start_frame \in Nat
  /\ index \in 0..FrameCount
  /\ at \in {"here", "ahead", "advance"}
  /\ heard \in [asked : Nat, got : Nat \cup {None}]

(* How far the cursor may outrun the reader: what it runs ahead and one    *)
(* more advance stay within the history. *)
Survivable == 0 < HistoryFrames /\ Lag + MaxAdvance <= HistoryFrames

(* The answer to a question is the frame asked for or silence, never       *)
(* another frame of the sample: head and stream meet without a seam and    *)
(* the window stays aligned while it slides. *)
RightFrame == heard.got \in {heard.asked, None}

(* Nothing is skipped: what the window and the ring hold continue each     *)
(* other, so every frame the stream delivers is in one of them. *)
Contiguous == start_frame + Len(window) = taken

(* A voice falls silent only for a frame the reader has not delivered: no  *)
(* repeat of an index falls behind the window, no question finds the       *)
(* window full. *)
SilentOnlyWhenStarved ==
  [][heard' # heard /\ heard'.got = None => heard'.asked >= delivered]_vars
=============================================================================
