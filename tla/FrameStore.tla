----------------------------- MODULE FrameStore -----------------------------
(***************************************************************************)
(* What the saved frames of the video capture service promise, with no     *)
(* threads, no locks, no map and no reference numbers: every stream has    *)
(* the history of the frames that predictions captured from it, and the    *)
(* most recent ones, at most Capacity of them, can still be fetched.       *)
(* Capacity is MAX_NBR_SAVED_FRAMES of video_capture.h.                    *)
(***************************************************************************)
EXTENDS Naturals, Sequences

CONSTANTS Streams,   \* the streams
          Capacity   \* how many frames of a stream are kept at most

VARIABLES history,   \* [Streams -> Seq(frames)]: all frames saved, in order
          window     \* [Streams -> Nat]: how many of the last ones are kept

vars == <<history, window>>

Init == /\ history = [o \in Streams |-> << >>]
        /\ window = [o \in Streams |-> 0]

\* A prediction captured a frame from stream o; it becomes the most recent one.
Save(o) ==
    /\ window[o] < Capacity
    /\ Len(history'[o]) = Len(history[o]) + 1
    /\ \A j \in DOMAIN history[o] : history'[o][j] = history[o][j]
    /\ \A p \in Streams \ {o} : history'[p] = history[p]
    /\ window' = [window EXCEPT ![o] = @ + 1]

\* Room is made for a new frame, and only when there is none: the oldest goes.
Drop(o) ==
    /\ window[o] = Capacity
    /\ window' = [window EXCEPT ![o] = @ - 1]
    /\ UNCHANGED history

Next == \E o \in Streams : Save(o) \/ Drop(o)

Spec == Init /\ [][Next]_vars

\* The frame at position j of the history of o can be fetched.
Kept(o, j) == j \in DOMAIN history[o] /\ j > Len(history[o]) - window[o]

\* The frames saved last, all but one of the capacity, can always be fetched.
RecentKept ==
    \A o \in Streams : \A j \in DOMAIN history[o] :
        j > Len(history[o]) - (Capacity - 1) => Kept(o, j)
=============================================================================
