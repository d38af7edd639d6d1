-------------------------- MODULE FrameStoreProofs --------------------------
(* What FrameStore promises: the frames saved last can be fetched.          *)
EXTENDS FrameStore, TLAPS

\* The inductive form of RecentKept: the window never falls below the capacity
\* less one, except while it still has every frame.
WindowWide ==
    /\ window \in [Streams -> Nat]
    /\ \A o \in Streams :
         /\ Len(history[o]) \in Nat
         /\ window[o] >= Capacity - 1 \/ window[o] >= Len(history[o])

\* The frames of a stream saved last, all but one of the capacity, can be
\* fetched at any time: what GetFrame relies on to serve a frame reference that
\* a prediction has just returned.
THEOREM RecentFramesKept ==
    ASSUME Capacity \in Nat \ {0}
    PROVE  Spec => []RecentKept
<1>1. Init => WindowWide
  BY DEF Init, WindowWide
<1>2. WindowWide /\ [Next]_vars => WindowWide'
  <2> SUFFICES ASSUME WindowWide, [Next]_vars PROVE WindowWide'
    OBVIOUS
  <2>1. CASE UNCHANGED vars
    BY <2>1 DEF WindowWide, vars
  <2>2. ASSUME NEW o \in Streams, Save(o) PROVE WindowWide'
    <3>1. window' \in [Streams -> Nat]
      BY <2>2 DEF WindowWide, Save
    <3>2. ASSUME NEW p \in Streams
          PROVE  /\ Len(history'[p]) \in Nat
                 /\ window'[p] >= Capacity - 1 \/ window'[p] >= Len(history'[p])
      <4>1. CASE p = o
        <5> DEFINE before == Len(history[o])
                   after  == Len(history'[o])
        <5>1. before \in Nat /\ after = before + 1
          BY <2>2 DEF WindowWide, Save
        <5>2. /\ window[o] \in Nat /\ window'[o] = window[o] + 1
              /\ window[o] >= Capacity - 1 \/ window[o] >= before
          BY <2>2 DEF WindowWide, Save
        <5> HIDE DEF before, after
        <5>3. after \in Nat /\ (window'[o] >= Capacity - 1 \/ window'[o] >= after)
          BY <5>1, <5>2
        <5> QED
          BY <4>1, <5>3 DEF after
      <4>2. CASE p # o
        <5>1. history'[p] = history[p] /\ window'[p] = window[p]
          BY <2>2, <4>2 DEF WindowWide, Save
        <5> QED
          BY <5>1 DEF WindowWide
      <4> QED
        BY <4>1, <4>2
    <3> QED
      BY <3>1, <3>2 DEF WindowWide
  <2>3. ASSUME NEW o \in Streams, Drop(o) PROVE WindowWide'
    BY <2>3 DEF WindowWide, Drop
  <2> QED
    BY <2>1, <2>2, <2>3 DEF Next
<1>3. WindowWide => RecentKept
  <2> SUFFICES ASSUME WindowWide, NEW o \in Streams, NEW j \in DOMAIN history[o],
                      j > Len(history[o]) - (Capacity - 1)
               PROVE  j > Len(history[o]) - window[o]
    BY DEF RecentKept, Kept
  <2>1. PICK n \in Nat : n = Len(history[o])
    BY DEF WindowWide
  <2> QED
    BY <2>1 DEF WindowWide
<1> QED
  BY <1>1, <1>2, <1>3, PTL DEF Spec
=============================================================================
