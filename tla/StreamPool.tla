------------------------------ MODULE StreamPool ------------------------------
(***************************************************************************)
(* What the streamer promises the voices, with no threads, slots or files: *)
(* a voice that opens a stream on a sample receives that sample's frames,  *)
(* each once and in order, from the first one after the resident head to   *)
(* the last.  A stream ends only when the last frame has been taken, or    *)
(* early because its file failed; an ended stream delivers nothing more.   *)
(***************************************************************************)
EXTENDS Integers, Sequences

CONSTANTS Voices,      \* the voices that may hold a stream
          Samples,     \* the samples they play
          FirstFrame,  \* the frame that follows the resident head
          FrameCount,  \* frames in a sample
          NoVoice      \* a voice without a stream

VARIABLE play  \* what each voice asked for, what it received, and the end

Frames(sample, from, to) == [i \in 1..(to - from) |-> <<sample, from + i - 1>>]

Opening(sample, n) == Frames(sample, FirstFrame, FirstFrame + n)

Init == play = [v \in Voices |-> NoVoice]

Open(v) ==
  /\ play[v] = NoVoice
  /\ \E s \in Samples :
       play' = [play EXCEPT ![v] = [sample |-> s, got |-> <<>>, ended |-> FALSE]]

(* The next n frames, and perhaps with them the end of the sample. *)
Deliver(v, n) ==
  /\ play[v] # NoVoice
  /\ ~play[v].ended
  /\ LET had == Len(play[v].got)
         now == Opening(play[v].sample, had + n)
     IN /\ FirstFrame + had + n <= FrameCount
        /\ \E ends \in BOOLEAN :
             /\ ends => FirstFrame + had + n = FrameCount
             /\ play' = [play EXCEPT ![v].got = now, ![v].ended = ends]

(* The file could not be opened: the stream ends with nothing delivered. *)
Fail(v) ==
  /\ play[v] # NoVoice
  /\ play[v].got = <<>>
  /\ play' = [play EXCEPT ![v].ended = TRUE]

Close(v) ==
  /\ play[v] # NoVoice
  /\ play' = [play EXCEPT ![v] = NoVoice]

Next ==
  \E v \in Voices :
    \/ Open(v)
    \/ \E n \in 0..FrameCount : Deliver(v, n)
    \/ Fail(v)
    \/ Close(v)

Spec == Init /\ [][Next]_play
=============================================================================
