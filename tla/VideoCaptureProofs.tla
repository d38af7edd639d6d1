------------------------- MODULE VideoCaptureProofs -------------------------
(***************************************************************************)
(* Theorems about VideoCapture, for any number of threads, streams and     *)
(* calls, any discipline of the clients and any MaxSavedFrames >= 2.       *)
(***************************************************************************)
EXTENDS VideoCapture, Integers, TLAPS

-----------------------------------------------------------------------------
(* Type correctness. TypeOK is not inductive: a handler uses its locals,   *)
(* which are None at other control points.                                 *)

\* At the control points where a handler uses the stream or the buffer in its
\* hand or the id of its request, it has one.
ObjLabels == {"ns_emplace", "ns_start", "ds_erase", "ds_stop", "gf_saved",
              "gf_copy", "gf_get", "gf_unref", "gi_evict", "gi_get", "gi_save",
              "pr_copy"}
BufLabels == {"gf_copy", "gf_unref", "gi_save", "pr_copy"}
LocalsSet ==
    \A t \in Threads :
        /\ pc[t] \in ObjLabels => obj[t] \in Streams
        /\ pc[t] \in BufLabels => buf[t] \in Buffers
        /\ pc[t] \notin {"idle", "ns_new"} => call[t].id \in StreamIds

TypeInv == TypeOK /\ LocalsSet

\* What a handler that returns leaves behind.
LEMMA ReturnTyped ==
    ASSUME TypeInv, NEW t \in Threads, NEW s \in Replies, Return(t, s)
    PROVE  /\ pc' = [pc EXCEPT ![t] = "idle"]
           /\ pc' \in [Threads -> Labels]
           /\ call' \in [Threads -> [op : Ops \union {"none"}, ref : Nat,
                                     id : StreamIds \union {None}]]
           /\ obj' \in [Threads -> Streams \union {None}]
           /\ buf' \in [Threads -> Buffers \union {None}]
           /\ reply' \in [Threads -> Replies]
           /\ mutex' \in Threads \union {None}
           /\ inferenceMutex' \in Threads \union {None}
           /\ LocalsSet'
<1>1. pc' = [pc EXCEPT ![t] = "idle"] /\ pc' \in [Threads -> Labels]
  BY DEF Return, Goto, TypeInv, TypeOK, Labels
<1>2. /\ obj' = [obj EXCEPT ![t] = None]
      /\ buf' = [buf EXCEPT ![t] = None]
      /\ call' = [call EXCEPT ![t] = NoCall]
  BY DEF Return
<1>3. call' \in [Threads -> [op : Ops \union {"none"}, ref : Nat,
                             id : StreamIds \union {None}]]
  BY <1>2 DEF TypeInv, TypeOK, NoCall
<1>4. /\ obj' \in [Threads -> Streams \union {None}]
      /\ buf' \in [Threads -> Buffers \union {None}]
      /\ reply' \in [Threads -> Replies]
  BY <1>2 DEF Return, TypeInv, TypeOK
<1>5. mutex' \in Threads \union {None} /\ inferenceMutex' \in Threads \union {None}
  BY DEF Return, Released, TypeInv, TypeOK
<1>6. LocalsSet'
  BY <1>1, <1>2 DEF LocalsSet, TypeInv, TypeOK, ObjLabels, BufLabels
<1> QED
  BY <1>1, <1>3, <1>4, <1>5, <1>6

\* A search of the map keeps the types.
LEMMA FindTyped ==
    ASSUME TypeInv, NEW t \in Threads, NEW s \in Replies,
           pc[t] \in {"ds_find", "gf_find", "gi_find"},
           NEW hit \in {"ds_erase", "gf_saved", "gf_get", "gi_evict"},
           Find(t, hit, s)
    PROVE  TypeInv'
<1> DEFINE o == streams[call[t].id]
<1>1. o \in Streams \union {None}
  BY DEF TypeInv, TypeOK, LocalsSet
<1>2. UNCHANGED <<streams, queueVars, vdoVars, clientVars, crashed>>
  BY DEF Find
<1>3. CASE Return(t, s)
  BY <1>2, <1>3, ReturnTyped
  DEF TypeInv, TypeOK, queueVars, vdoVars, clientVars
<1>4. CASE /\ o # None
           /\ Goto(t, hit)
           /\ obj' = [obj EXCEPT ![t] = o]
           /\ UNCHANGED <<call, buf, reply, mutex, inferenceMutex>>
  BY <1>1, <1>2, <1>4
  DEF Goto, TypeInv, TypeOK, LocalsSet, Labels, ObjLabels, BufLabels,
      queueVars, vdoVars, clientVars
<1> QED
  BY <1>3, <1>4 DEF Find

\* So does a request to VDO for the next buffer.
LEMMA GetBufferTyped ==
    ASSUME TypeInv, NEW t \in Threads, NEW s \in Replies,
           pc[t] \in {"gf_get", "gi_get"},
           NEW next \in {"gf_unref", "gi_save"},
           GetBuffer(t, next, s)
    PROVE  TypeInv'
<1> DEFINE o == obj[t]
           b == <<o, produced[o] + 1>>
<1>1. o \in Streams /\ b \in Buffers
  BY DEF TypeInv, TypeOK, LocalsSet, ObjLabels, Buffers
<1>2. UNCHANGED <<streams, queueVars, vdo, vdoId, clientVars, crashed>>
  BY DEF GetBuffer
<1>3. CASE Return(t, s) /\ UNCHANGED <<produced, held>>
  BY <1>2, <1>3, ReturnTyped DEF TypeInv, TypeOK, queueVars, clientVars
<1>4. CASE /\ produced' = [produced EXCEPT ![o] = @ + 1]
           /\ held' = held \union {b}
           /\ buf' = [buf EXCEPT ![t] = b]
           /\ Goto(t, next)
           /\ UNCHANGED <<call, obj, reply, mutex, inferenceMutex>>
  <2>1. pc' \in [Threads -> Labels] /\ LocalsSet'
    BY <1>1, <1>4
    DEF Goto, TypeInv, TypeOK, LocalsSet, Labels, ObjLabels, BufLabels
  <2>2. produced' \in [Streams -> Nat]
    <3>1. produced[o] + 1 \in Nat
      BY <1>1 DEF TypeInv, TypeOK
    <3> QED
      BY <1>1, <1>4, <3>1 DEF TypeInv, TypeOK
  <2>3. held' \subseteq Buffers /\ buf' \in [Threads -> Buffers \union {None}]
    <3> HIDE DEF b
    <3> QED
      BY <1>1, <1>4 DEF TypeInv, TypeOK
  <2> QED
    BY <1>2, <1>4, <2>1, <2>2, <2>3 DEF TypeInv, TypeOK, queueVars, clientVars
<1> QED
  BY <1>3, <1>4 DEF GetBuffer

\* The next reference is one, whatever the queue.
LEMMA NextRefTyped ==
    ASSUME NEW q \in Seq(Frame)
    PROVE  NextRef(q) \in Nat
<1>1. CASE q = << >>
  BY <1>1 DEF NextRef
<1>2. CASE q # << >>
  <2>1. Len(q) \in 1 .. Len(q) /\ q[Len(q)] \in Frame
    BY <1>2
  <2>2. q[Len(q)].id \in Nat
    BY <2>1 DEF Frame
  <2>3. (q[Len(q)].id + 1) % RefModulus \in Nat
    BY <2>2, ConstantsAssumption
  <2> QED
    BY <1>2, <2>3 DEF NextRef
<1> QED
  BY <1>1, <1>2

\* Every step of a handler keeps the types.
LEMMA HandlerTyped ==
    ASSUME TypeInv, NEW t \in Threads, Handler(t)
    PROVE  TypeInv'
<1> USE DEF TypeInv, TypeOK
<1>1. CASE NsNew(t)
  <2>1. CASE Return(t, "INTERNAL") /\ UNCHANGED <<vdo, vdoId>>
    BY <1>1, <2>1, ReturnTyped DEF NsNew, queueVars, clientVars, Replies
  <2>2. ASSUME NEW o \in Streams, NEW i \in FreeIds,
               vdo' = [vdo EXCEPT ![o] = "created"],
               vdoId' = [vdoId EXCEPT ![o] = i],
               call' = [call EXCEPT ![t].id = i],
               obj' = [obj EXCEPT ![t] = o],
               Goto(t, "ns_emplace"),
               UNCHANGED <<buf, reply, mutex, inferenceMutex>>
        PROVE  TypeInv'
    <3>1. i \in StreamIds
      BY DEF FreeIds
    <3>2. LocalsSet'
      BY <2>2, <3>1 DEF Goto, LocalsSet, ObjLabels, BufLabels
    <3>3. /\ vdo' \in [Streams -> {"unborn", "created", "started", "freed"}]
          /\ vdoId' \in [Streams -> StreamIds \union {None}]
          /\ obj' \in [Threads -> Streams \union {None}]
          /\ pc' \in [Threads -> Labels]
      BY <2>2, <3>1 DEF Goto, Labels
    <3>4. call' \in [Threads -> [op : Ops \union {"none"}, ref : Nat,
                                 id : StreamIds \union {None}]]
      BY <2>2, <3>1
    <3> QED
      BY <1>1, <2>2, <3>2, <3>3, <3>4 DEF NsNew, queueVars, clientVars
  <2> QED
    BY <1>1, <2>1, <2>2 DEF NsNew
<1>2. CASE NsEmplace(t)
  BY <1>2 DEF NsEmplace, Goto, LocalsSet, Labels, ObjLabels, BufLabels,
              queueVars, vdoVars, clientVars
<1>3. CASE NsStart(t)
  <2>1. known' \subseteq StreamIds
        /\ vdo' \in [Streams -> {"unborn", "created", "started", "freed"}]
    BY <1>3 DEF NsStart, LocalsSet
  <2> QED
    BY <1>3, <2>1, ReturnTyped DEF NsStart, queueVars, Replies
<1>4. CASE DsFind(t)
  BY <1>4, FindTyped DEF DsFind, Replies
<1>5. CASE DsErase(t)
  BY <1>5 DEF DsErase, Goto, LocalsSet, Labels, ObjLabels, BufLabels,
              queueVars, vdoVars, clientVars
<1>6. CASE DsStop(t)
  BY <1>6, ReturnTyped DEF DsStop, queueVars, clientVars, Replies
<1>7. CASE GfFind(t)
  BY <1>7, FindTyped DEF GfFind, Replies
<1>8. CASE GfSaved(t)
  <2> DEFINE q == buffers[obj[t]]
  <2>1. q \in Seq(Frame)
    BY <1>8 DEF GfSaved, LocalsSet, ObjLabels
  <2>2. CASE Return(t, "NOT_FOUND")
    BY <1>8, <2>2, ReturnTyped
    DEF GfSaved, queueVars, vdoVars, clientVars, Replies
  <2>3. ASSUME NEW k \in DOMAIN q,
               buf' = [buf EXCEPT ![t] = q[k].buf],
               mutex' = t,
               Goto(t, "gf_copy"),
               UNCHANGED <<call, obj, reply, inferenceMutex>>
        PROVE  TypeInv'
    <3>1. q[k].buf \in Buffers
      <4>1. k \in 1 .. Len(q) /\ q \in [1 .. Len(q) -> Frame]
        BY <2>1
      <4>2. q[k] \in Frame
        BY <4>1
      <4> QED
        BY <4>2 DEF Frame
    <3>2. LocalsSet'
      BY <1>8, <2>3, <3>1
      DEF GfSaved, Goto, LocalsSet, ObjLabels, BufLabels
    <3> QED
      BY <1>8, <2>3, <3>1, <3>2
      DEF GfSaved, Goto, Labels, queueVars, vdoVars, clientVars
  <2> QED
    BY <1>8, <2>2, <2>3 DEF GfSaved
<1>9. CASE GfCopy(t)
  BY <1>9, ReturnTyped DEF GfCopy, queueVars, vdoVars, clientVars, Replies
<1>10. CASE GfGet(t)
  BY <1>10, GetBufferTyped DEF GfGet, Replies
<1>11. CASE GfUnref(t)
  BY <1>11, ReturnTyped DEF GfUnref, queueVars, clientVars, Replies
<1>12. CASE PrLock(t)
  BY <1>12 DEF PrLock, Goto, LocalsSet, Labels, ObjLabels, BufLabels,
               queueVars, vdoVars, clientVars
<1>13. CASE GiFind(t)
  BY <1>13, FindTyped DEF GiFind, Replies
<1>14. CASE GiEvict(t)
  <2> DEFINE o == obj[t]
  <2>1. o \in Streams /\ buffers[o] \in Seq(Frame)
    BY <1>14 DEF GiEvict, LocalsSet, ObjLabels
  <2>2. Len(buffers[o]) >= MaxSavedFrames => Tail(buffers[o]) \in Seq(Frame)
    BY <2>1, ConstantsAssumption
  <2>3. buffers' \in [Streams -> Seq(Frame)] /\ held' \subseteq Buffers
    BY <1>14, <2>1, <2>2 DEF GiEvict
  <2>4. LocalsSet' /\ pc' \in [Threads -> Labels]
    BY <1>14 DEF GiEvict, Goto, LocalsSet, Labels, ObjLabels, BufLabels
  <2> QED
    BY <1>14, <2>3, <2>4 DEF GiEvict, clientVars
<1>15. CASE GiGet(t)
  BY <1>15, GetBufferTyped DEF GiGet, Replies
<1>16. CASE GiSave(t)
  <2> DEFINE o == obj[t]
             f == [id |-> NextRef(buffers[o]), buf |-> buf[t]]
  <2>1. CASE /\ held' = held \ {buf[t]}
             /\ Return(t, "CANCELLED")
             /\ UNCHANGED queueVars
    BY <1>16, <2>1, ReturnTyped DEF GiSave, queueVars, clientVars, Replies
  <2>2. CASE /\ buffers' = [buffers EXCEPT ![o] = Append(@, f)]
             /\ issued' = [issued EXCEPT ![o] = Append(@, f)]
             /\ mutex' = Released(mutex, t)
             /\ Goto(t, "pr_copy")
             /\ UNCHANGED <<call, obj, buf, reply, inferenceMutex, held>>
    <3>1. o \in Streams /\ f \in Frame
      BY <1>16, NextRefTyped
      DEF GiSave, LocalsSet, ObjLabels, BufLabels, Frame
    <3>2. /\ Append(buffers[o], f) \in Seq(Frame)
          /\ Append(issued[o], f) \in Seq(Frame)
      BY <3>1
    <3>3. /\ buffers' \in [Streams -> Seq(Frame)]
          /\ issued' \in [Streams -> Seq(Frame)]
      BY <2>2, <3>1, <3>2
    <3>4. LocalsSet' /\ pc' \in [Threads -> Labels]
      BY <1>16, <2>2 DEF GiSave, Goto, LocalsSet, Labels, ObjLabels, BufLabels
    <3> QED
      BY <1>16, <2>2, <3>3, <3>4 DEF GiSave, Released, clientVars
  <2> QED
    BY <1>16, <2>1, <2>2 DEF GiSave
<1>17. CASE PrCopy(t)
  <2>1. CASE Return(t, "OK") /\ UNCHANGED budget
    BY <1>17, <2>1, ReturnTyped DEF PrCopy, queueVars, vdoVars, Replies
  <2>2. CASE Return(t, "CANCELLED") /\ UNCHANGED budget
    BY <1>17, <2>2, ReturnTyped DEF PrCopy, queueVars, vdoVars, Replies
  <2>3. CASE /\ budget["Predict"] > 0
             /\ budget' = [budget EXCEPT !["Predict"] = @ - 1]
             /\ Goto(t, "gi_find")
             /\ obj' = [obj EXCEPT ![t] = None]
             /\ buf' = [buf EXCEPT ![t] = None]
             /\ UNCHANGED <<call, reply, mutex, inferenceMutex>>
    <3>1. budget' \in [Ops -> Nat]
      BY <2>3 DEF Ops
    <3>2. LocalsSet' /\ pc' \in [Threads -> Labels]
      BY <1>17, <2>3 DEF PrCopy, Goto, LocalsSet, Labels, ObjLabels, BufLabels
    <3> QED
      BY <1>17, <2>3, <3>1, <3>2 DEF PrCopy, queueVars, vdoVars
  <2> QED
    BY <1>17, <2>1, <2>2, <2>3 DEF PrCopy
<1> QED
  BY <1>1, <1>2, <1>3, <1>4, <1>5, <1>6, <1>7, <1>8, <1>9, <1>10, <1>11, <1>12,
     <1>13, <1>14, <1>15, <1>16, <1>17 DEF Handler

\* A new request keeps the types.
LEMMA BeginTyped ==
    ASSUME TypeInv, NEW t \in Threads, Begin(t)
    PROVE  TypeInv'
<1>1. PICK op \in Ops, i \in StreamIds, r \in Refs :
        /\ pc[t] = "idle"
        /\ budget[op] > 0
        /\ Goto(t, Start[op])
        /\ call' = [call EXCEPT ![t] =
                      [op |-> op, ref |-> r,
                       id |-> IF op = "NewStream" THEN None ELSE i]]
        /\ reply' = [reply EXCEPT ![t] = "none"]
        /\ budget' = [budget EXCEPT ![op] = @ - 1]
        /\ known' = IF op = "DeleteStream" THEN known \ {i} ELSE known
        /\ UNCHANGED <<obj, buf, streams, queueVars, mutex, inferenceMutex,
                       vdoVars, crashed>>
  BY DEF Begin
<1>2. Start[op] \in {"ns_new", "ds_find", "gf_find", "pr_lock"}
      /\ (op # "NewStream" <=> Start[op] # "ns_new")
  BY DEF Start, Ops
<1>3. r \in Nat
  BY ConstantsAssumption
<1>4. pc' \in [Threads -> Labels] /\ reply' \in [Threads -> Replies]
  BY <1>1, <1>2 DEF TypeInv, TypeOK, Goto, Labels, Replies
<1>5. call' \in [Threads -> [op : Ops \union {"none"}, ref : Nat,
                             id : StreamIds \union {None}]]
  BY <1>1, <1>3 DEF TypeInv, TypeOK
<1>6. budget' \in [Ops -> Nat] /\ known' \subseteq StreamIds
  BY <1>1 DEF TypeInv, TypeOK
<1>7. LocalsSet'
  BY <1>1, <1>2 DEF TypeInv, TypeOK, LocalsSet, Goto, ObjLabels, BufLabels
<1> QED
  BY <1>1, <1>4, <1>5, <1>6, <1>7 DEF TypeInv, TypeOK, queueVars, vdoVars

LEMMA TypeInit == Init => TypeInv
<1> SUFFICES ASSUME Init PROVE TypeInv
  OBVIOUS
<1>1. LocalsSet
  BY DEF Init, LocalsSet, ObjLabels, BufLabels
<1>2. TypeOK
  <2>1. NoCall \in [op : Ops \union {"none"}, ref : Nat,
                   id : StreamIds \union {None}]
    BY DEF NoCall
  <2>2. << >> \in Seq(Frame)
    OBVIOUS
  <2>3. budget \in [Ops -> Nat]
    BY ConstantsAssumption DEF Init
  <2>4. /\ pc \in [Threads -> Labels]
        /\ call \in [Threads -> [op : Ops \union {"none"}, ref : Nat,
                                 id : StreamIds \union {None}]]
        /\ obj \in [Threads -> Streams \union {None}]
        /\ buf \in [Threads -> Buffers \union {None}]
        /\ reply \in [Threads -> Replies]
    BY <2>1 DEF Init, Labels, Replies
  <2>5. /\ streams \in [StreamIds -> Streams \union {None}]
        /\ buffers \in [Streams -> Seq(Frame)]
        /\ issued \in [Streams -> Seq(Frame)]
        /\ vdo \in [Streams -> {"unborn", "created", "started", "freed"}]
        /\ vdoId \in [Streams -> StreamIds \union {None}]
        /\ produced \in [Streams -> Nat]
    BY <2>2 DEF Init
  <2> QED
    BY <2>3, <2>4, <2>5 DEF Init, TypeOK
<1> QED
  BY <1>1, <1>2 DEF TypeInv

LEMMA TypeStep == TypeInv /\ [Next]_vars => TypeInv'
<1> SUFFICES ASSUME TypeInv, [Next]_vars PROVE TypeInv'
  OBVIOUS
<1>1. CASE UNCHANGED vars
  BY <1>1 DEF vars, threadVars, queueVars, vdoVars, clientVars, TypeInv, TypeOK,
              LocalsSet
<1>2. ASSUME NEW t \in Threads, Step(t) PROVE TypeInv'
  BY <1>2, HandlerTyped DEF Step
<1>3. ASSUME NEW t \in Threads, Begin(t) PROVE TypeInv'
  BY <1>3, BeginTyped
<1>4. ASSUME NEW t \in Threads, Crash(t) PROVE TypeInv'
  BY <1>4 DEF Crash, threadVars, queueVars, vdoVars, clientVars, TypeInv, TypeOK,
              LocalsSet
<1> QED
  BY <1>1, <1>2, <1>3, <1>4 DEF Next, Rest

LEMMA TypeInvariant == Spec => []TypeInv
  BY TypeInit, TypeStep, PTL DEF Spec

\* Every variable has its type in every reachable state, whatever the clients do.
THEOREM TypeCorrect == Spec => []TypeOK
  BY TypeInvariant, PTL DEF TypeInv
-----------------------------------------------------------------------------
(* The mutexes. A handler owns a mutex at the control points between the   *)
(* statement that locks it and the one that unlocks it.                    *)

MutexLabels     == {"gf_copy", "gi_get", "gi_save"}
InferenceLabels == {"gi_find", "gi_evict", "gi_get", "gi_save", "pr_copy"}
LocksHeld ==
    \A t \in Threads :
        /\ pc[t] \in MutexLabels => mutex = t
        /\ pc[t] \in InferenceLabels => inferenceMutex = t

\* The locals of the other threads.
OthersKeep(t) ==
    \A u \in Threads \ {t} :
        /\ pc'[u] = pc[u]
        /\ obj'[u] = obj[u]
        /\ buf'[u] = buf[u]
        /\ call'[u] = call[u]

\* A mutex changes hands only from and to the thread that makes the step.
LockStep(m, m2, t) == m2 = m \/ (m = t /\ m2 = None) \/ (m = None /\ m2 = t)

LEMMA LocksStep ==
    ASSUME TypeInv, LocksHeld, NEW t \in Threads, Handler(t) \/ Begin(t)
    PROVE  /\ OthersKeep(t)
           /\ LockStep(mutex, mutex', t)
           /\ LockStep(inferenceMutex, inferenceMutex', t)
           /\ LocksHeld'
<1> USE DEF TypeInv, TypeOK, OthersKeep, LockStep
<1>1. ASSUME NEW s \in Replies, Return(t, s)
      PROVE  /\ OthersKeep(t)
             /\ LockStep(mutex, mutex', t)
             /\ LockStep(inferenceMutex, inferenceMutex', t)
             /\ pc'[t] = "idle"
  BY <1>1 DEF Return, Goto, Released
<1>2. ASSUME NEW s \in Replies, pc[t] \in {"ds_find", "gf_find", "gi_find"},
             NEW hit \in {"ds_erase", "gf_saved", "gf_get", "gi_evict"},
             hit = "gi_evict" => pc[t] = "gi_find",
             Find(t, hit, s)
      PROVE  /\ OthersKeep(t)
             /\ LockStep(mutex, mutex', t)
             /\ LockStep(inferenceMutex, inferenceMutex', t)
             /\ pc'[t] \in MutexLabels => mutex' = t
             /\ pc'[t] \in InferenceLabels => inferenceMutex' = t
  BY <1>1, <1>2 DEF Find, Goto, MutexLabels, InferenceLabels, LocksHeld
<1>3. ASSUME NEW s \in Replies, NEW next \in {"gf_unref", "gi_save"},
             pc[t] \in {"gf_get", "gi_get"},
             next = "gi_save" => pc[t] = "gi_get",
             GetBuffer(t, next, s)
      PROVE  /\ OthersKeep(t)
             /\ LockStep(mutex, mutex', t)
             /\ LockStep(inferenceMutex, inferenceMutex', t)
             /\ pc'[t] \in MutexLabels => mutex' = t
             /\ pc'[t] \in InferenceLabels => inferenceMutex' = t
  BY <1>1, <1>3 DEF GetBuffer, Goto, MutexLabels, InferenceLabels, LocksHeld
<1>4. /\ OthersKeep(t)
      /\ LockStep(mutex, mutex', t)
      /\ LockStep(inferenceMutex, inferenceMutex', t)
      /\ pc'[t] \in MutexLabels => mutex' = t
      /\ pc'[t] \in InferenceLabels => inferenceMutex' = t
  <2> USE DEF MutexLabels, InferenceLabels
  <2>1. CASE NsNew(t)
    BY <2>1, <1>1 DEF NsNew, Goto, Replies
  <2>2. CASE NsEmplace(t)
    BY <2>2 DEF NsEmplace, Goto
  <2>3. CASE NsStart(t)
    BY <2>3, <1>1 DEF NsStart, Replies
  <2>4. CASE DsFind(t)
    BY <2>4, <1>2 DEF DsFind, Replies
  <2>5. CASE DsErase(t)
    BY <2>5 DEF DsErase, Goto
  <2>6. CASE DsStop(t)
    BY <2>6, <1>1 DEF DsStop, Replies
  <2>7. CASE GfFind(t)
    BY <2>7, <1>2 DEF GfFind, Replies
  <2>8. CASE GfSaved(t)
    BY <2>8, <1>1 DEF GfSaved, Goto, Replies
  <2>9. CASE GfCopy(t)
    BY <2>9, <1>1 DEF GfCopy, Replies
  <2>10. CASE GfGet(t)
    BY <2>10, <1>3 DEF GfGet, Replies
  <2>11. CASE GfUnref(t)
    BY <2>11, <1>1 DEF GfUnref, Replies
  <2>12. CASE PrLock(t)
    BY <2>12 DEF PrLock, Goto
  <2>13. CASE GiFind(t)
    BY <2>13, <1>2 DEF GiFind, Replies
  <2>14. CASE GiEvict(t)
    BY <2>14 DEF GiEvict, Goto, LocksHeld
  <2>15. CASE GiGet(t)
    BY <2>15, <1>3 DEF GiGet, Replies
  <2>16. CASE GiSave(t)
    BY <2>16, <1>1 DEF GiSave, Goto, Released, LocksHeld, Replies
  <2>17. CASE PrCopy(t)
    BY <2>17, <1>1 DEF PrCopy, Goto, LocksHeld, Replies
  <2>18. CASE Begin(t)
    BY <2>18 DEF Begin, Goto, Start, Ops
  <2> QED
    BY <2>1, <2>2, <2>3, <2>4, <2>5, <2>6, <2>7, <2>8, <2>9, <2>10, <2>11,
       <2>12, <2>13, <2>14, <2>15, <2>16, <2>17, <2>18 DEF Handler
<1>5. LocksHeld'
  BY <1>4, ConstantsAssumption DEF LocksHeld
<1> QED
  BY <1>4, <1>5

-----------------------------------------------------------------------------
(* The saved frames.                                                       *)

\* Between MaybeDeleteOldestFrame and SaveFrame the queue has room.
RoomLeft ==
    \A t \in Threads : pc[t] \in {"gi_get", "gi_save"} =>
        Len(buffers[obj[t]]) < MaxSavedFrames

WindowInv == TypeInv /\ LocksHeld /\ RoomLeft /\ SavedIsWindow /\ RefsInOrder

\* Only MaybeDeleteOldestFrame and SaveFrame change a queue.
LEMMA QueuesKept ==
    ASSUME NEW t \in Threads, Handler(t) \/ Begin(t)
    PROVE  GiEvict(t) \/ GiSave(t) \/ UNCHANGED queueVars
BY DEF Handler, Begin, NsNew, NsEmplace, NsStart, DsFind, DsErase, DsStop,
       GfFind, GfSaved, GfCopy, GfGet, GfUnref, PrLock, GiFind, GiGet, PrCopy,
       Find, GetBuffer, queueVars

\* The steps that lead to the control points between the two.
LEMMA CriticalEntry ==
    ASSUME TypeInv, NEW t \in Threads, Handler(t) \/ Begin(t),
           pc'[t] \in {"gi_get", "gi_save"}
    PROVE  GiEvict(t) \/ GiGet(t)
<1> USE DEF TypeInv, TypeOK, Goto
<1>1. ASSUME NEW s \in Replies, Return(t, s) PROVE pc'[t] = "idle"
  BY <1>1 DEF Return
<1>2. ASSUME NEW s \in Replies, NEW hit \in Labels, Find(t, hit, s)
      PROVE  pc'[t] \in {"idle", hit}
  BY <1>1, <1>2 DEF Find
<1>4. CASE NsNew(t) \/ NsEmplace(t) \/ NsStart(t) \/ DsErase(t) \/ DsStop(t)
  BY <1>1, <1>4 DEF NsNew, NsEmplace, NsStart, DsErase, DsStop, Replies
<1>5. CASE DsFind(t) \/ GfFind(t) \/ GiFind(t)
  <2>1. CASE DsFind(t)
    BY <1>2, <2>1 DEF DsFind, Labels, Replies
  <2>2. CASE GfFind(t)
    BY <1>2, <2>2 DEF GfFind, Labels, Replies
  <2>3. CASE GiFind(t)
    BY <1>2, <2>3 DEF GiFind, Labels, Replies
  <2> QED
    BY <1>5, <2>1, <2>2, <2>3
<1>6. CASE GfSaved(t) \/ GfCopy(t) \/ GfUnref(t) \/ PrLock(t) \/ GiSave(t) \/ PrCopy(t)
  BY <1>1, <1>6 DEF GfSaved, GfCopy, GfUnref, PrLock, GiSave, PrCopy, Replies
<1>7. CASE GfGet(t)
  BY <1>1, <1>7 DEF GfGet, GetBuffer, Replies
<1>8. CASE Begin(t)
  BY <1>8 DEF Begin, Start, Ops
<1> QED
  BY <1>4, <1>5, <1>6, <1>7, <1>8 DEF Handler

\* While t is between the two, nobody else takes Capture::_mutex.
LEMMA RoomKept ==
    ASSUME WindowInv, NEW t \in Threads, Handler(t) \/ Begin(t)
    PROVE  RoomLeft'
<1>1. OthersKeep(t)
  BY LocksStep DEF WindowInv
<1>2. ASSUME NEW u \in Threads \ {t}, pc'[u] \in {"gi_get", "gi_save"}
      PROVE  Len(buffers'[obj'[u]]) < MaxSavedFrames
  <2>1. pc[u] \in {"gi_get", "gi_save"} /\ obj'[u] = obj[u] /\ mutex = u
    BY <1>1, <1>2 DEF OthersKeep, WindowInv, LocksHeld, MutexLabels
  <2>2. ~GiEvict(t) /\ ~GiSave(t)
    BY <2>1, ConstantsAssumption
    DEF GiEvict, GiSave, WindowInv, LocksHeld, MutexLabels
  <2>3. buffers' = buffers
    BY <2>2, QueuesKept DEF queueVars
  <2> QED
    BY <2>1, <2>3 DEF WindowInv, RoomLeft
<1>3. ASSUME pc'[t] \in {"gi_get", "gi_save"}
      PROVE  Len(buffers'[obj'[t]]) < MaxSavedFrames
  <2>1. CASE GiEvict(t)
    <3>1. /\ obj' = obj /\ obj[t] \in Streams
          /\ buffers \in [Streams -> Seq(Frame)]
      BY <2>1 DEF GiEvict, WindowInv, TypeInv, TypeOK, LocalsSet, ObjLabels
    <3>2. Len(buffers[obj[t]]) <= MaxSavedFrames /\ Len(buffers[obj[t]]) \in Nat
      BY <3>1 DEF WindowInv, SavedIsWindow
    <3>3. CASE Len(buffers[obj[t]]) >= MaxSavedFrames
      <4>1. buffers'[obj[t]] = Tail(buffers[obj[t]])
        BY <2>1, <3>1, <3>3 DEF GiEvict
      <4>2. Len(Tail(buffers[obj[t]])) = Len(buffers[obj[t]]) - 1
        BY <3>1, <3>3, ConstantsAssumption
      <4> QED
        BY <3>1, <3>2, <4>1, <4>2, ConstantsAssumption
    <3>4. CASE ~(Len(buffers[obj[t]]) >= MaxSavedFrames)
      BY <2>1, <3>1, <3>2, <3>4, ConstantsAssumption DEF GiEvict
    <3> QED
      BY <3>3, <3>4
  <2>2. CASE GiGet(t)
    <3>1. pc[t] = "gi_get" /\ obj'[t] = obj[t] /\ buffers' = buffers
      BY <2>2, <1>3
      DEF GiGet, GetBuffer, queueVars, Return, Goto, WindowInv, TypeInv, TypeOK
    <3> QED
      BY <3>1 DEF WindowInv, RoomLeft
  <2>3. CASE ~GiEvict(t) /\ ~GiGet(t)
    BY <1>3, <2>3, CriticalEntry DEF WindowInv
  <2> QED
    BY <2>1, <2>2, <2>3
<1> QED
  BY <1>2, <1>3 DEF RoomLeft
\* What WindowInv says of one stream: the lengths, and the frames.
LEMMA WindowLengths ==
    ASSUME WindowInv, NEW o \in Streams
    PROVE  /\ buffers[o] \in Seq(Frame) /\ issued[o] \in Seq(Frame)
           /\ Len(buffers[o]) \in Nat /\ Len(issued[o]) \in Nat
           /\ Len(buffers[o]) <= MaxSavedFrames
           /\ Len(buffers[o]) <= Len(issued[o])
           /\ Len(issued[o]) < MaxSavedFrames - 1 =>
                Len(buffers[o]) = Len(issued[o])
           /\ Len(issued[o]) >= MaxSavedFrames - 1 =>
                Len(buffers[o]) >= MaxSavedFrames - 1
<1>1. buffers[o] \in Seq(Frame) /\ issued[o] \in Seq(Frame)
  BY DEF WindowInv, TypeInv, TypeOK
<1>2. Len(buffers[o]) \in Nat /\ Len(issued[o]) \in Nat
  BY <1>1
<1> QED
  BY <1>1, <1>2, ConstantsAssumption DEF WindowInv, SavedIsWindow

LEMMA WindowFrames ==
    ASSUME WindowInv, NEW o \in Streams
    PROVE  \A k \in 1 .. Len(buffers[o]) :
             buffers[o][k] = issued[o][Len(issued[o]) - Len(buffers[o]) + k]
BY Zenon DEF WindowInv, SavedIsWindow

\* Quotient and remainder are unique.
LEMMA DivisionUnique ==
    ASSUME NEW m \in Nat, m > 0, NEW a \in Int, NEW b \in Int,
           NEW r \in 0 .. m - 1, NEW s \in 0 .. m - 1, m * a + r = m * b + s
    PROVE  a = b
<1>1. CASE a > b
  <2>1. m * (a - b) >= m
    BY <1>1
  <2> QED
    BY <2>1
<1>2. CASE b > a
  <2>1. m * (b - a) >= m
    BY <1>2
  <2> QED
    BY <2>1
<1> QED
  BY <1>1, <1>2

LEMMA RemainderIs ==
    ASSUME NEW n \in Nat, NEW m \in Nat, m > 0, NEW a \in Int,
           NEW r \in 0 .. m - 1, n = m * a + r
    PROVE  n % m = r
<1> DEFINE d == n \div m
           k == n % m
<1>1. d \in Int /\ k \in 0 .. m - 1 /\ n = m * d + k
  OBVIOUS
<1> HIDE DEF d, k
<1>2. d = a
  BY <1>1, DivisionUnique
<1>3. k = r
  BY <1>1, <1>2
<1> QED
  BY <1>3 DEF k

\* Counting on modulo the width of the references.
LEMMA ModSuccessor ==
    ASSUME NEW n \in Nat
    PROVE  ((n % RefModulus) + 1) % RefModulus = (n + 1) % RefModulus
<1> DEFINE m == RefModulus
           d == n \div m
           k == n % m
<1>1. m \in Nat /\ m > 1
  BY ConstantsAssumption
<1>2. d \in Int /\ k \in 0 .. m - 1 /\ n = m * d + k
  BY <1>1
<1> HIDE DEF m, d, k
<1>3. CASE k + 1 < m
  <2>1. (k + 1) % m = k + 1
    BY <1>1, <1>2, <1>3, RemainderIs, k + 1 = m * 0 + (k + 1)
  <2>2. (n + 1) % m = k + 1
    BY <1>1, <1>2, <1>3, RemainderIs, n + 1 = m * d + (k + 1)
  <2> QED
    BY <2>1, <2>2 DEF m, k
<1>4. CASE k + 1 = m
  <2>1. (k + 1) % m = 0
    BY <1>1, <1>2, <1>4, RemainderIs, k + 1 = m * 1 + 0
  <2>2. (n + 1) % m = 0
    <3>1. n + 1 = m * (d + 1) + 0
      BY <1>1, <1>2, <1>4
    <3> QED
      BY <1>1, <1>2, <3>1, RemainderIs
  <2> QED
    BY <2>1, <2>2 DEF m, k
<1> QED
  BY <1>1, <1>2, <1>3, <1>4

\* SaveFrame numbers the frame after the last one saved.
LEMMA NextRefCounts ==
    ASSUME WindowInv, NEW o \in Streams
    PROVE  NextRef(buffers[o]) = (Len(issued[o]) + 1) % RefModulus
<1> DEFINE q == Len(buffers[o])
           n == Len(issued[o])
<1>1. /\ buffers[o] \in Seq(Frame) /\ issued[o] \in Seq(Frame)
      /\ q \in Nat /\ n \in Nat /\ q <= n
      /\ n < MaxSavedFrames - 1 => q = n
      /\ n >= MaxSavedFrames - 1 => q >= MaxSavedFrames - 1
  BY WindowLengths
<1>2. CASE buffers[o] = << >>
  <2>1. q = 0
    BY <1>2
  <2>2. n = 0
    BY <1>1, <2>1, ConstantsAssumption
  <2>3. 1 % RefModulus = 1
    BY ConstantsAssumption, RemainderIs, 1 = RefModulus * 0 + 1
  <2> QED
    BY <1>2, <2>2, <2>3 DEF NextRef
<1>3. CASE buffers[o] # << >>
  <2>1. q \in 1 .. q /\ n \in 1 .. n /\ n - q + q = n
    BY <1>1, <1>3
  <2>2. buffers[o][q] = issued[o][n - q + q]
    BY <2>1, WindowFrames
  <2>3. issued[o][n].id = n % RefModulus
    BY <1>1, <2>1 DEF WindowInv, RefsInOrder
  <2>4. buffers[o][q].id = n % RefModulus
    BY <2>1, <2>2, <2>3
  <2>5. ((n % RefModulus) + 1) % RefModulus = (n + 1) % RefModulus
    BY <1>1, ModSuccessor
  <2> QED
    BY <1>3, <2>4, <2>5 DEF NextRef
<1> QED
  BY <1>2, <1>3

\* Evicting the oldest frame when the queue is full leaves the last ones.
LEMMA EvictKeepsWindow ==
    ASSUME WindowInv, NEW t \in Threads, GiEvict(t)
    PROVE  SavedIsWindow' /\ RefsInOrder'
<1> DEFINE o == obj[t]
           q == Len(buffers[o])
           n == Len(issued[o])
           rest == Tail(buffers[o])
<1>1. /\ o \in Streams /\ issued' = issued
      /\ buffers \in [Streams -> Seq(Frame)] /\ issued \in [Streams -> Seq(Frame)]
  BY DEF GiEvict, WindowInv, TypeInv, TypeOK, LocalsSet, ObjLabels
<1>2. RefsInOrder'
  BY <1>1 DEF WindowInv, RefsInOrder
<1>3. q <= MaxSavedFrames /\ q <= n /\ q \in Nat /\ n \in Nat
  BY <1>1, WindowLengths
<1>4. CASE q < MaxSavedFrames
  <2>1. buffers' = buffers
    BY <1>3, <1>4, ConstantsAssumption DEF GiEvict
  <2> QED
    BY <1>1, <1>2, <2>1 DEF WindowInv, SavedIsWindow
<1>5. CASE q = MaxSavedFrames
  <2>1. buffers' = [buffers EXCEPT ![o] = rest]
    BY <1>3, <1>5, ConstantsAssumption DEF GiEvict
  <2>2. /\ Len(rest) = q - 1
        /\ \A k \in 1 .. q - 1 : rest[k] = buffers[o][k + 1]
    BY <1>1, <1>3, <1>5, ConstantsAssumption
  <2>3. /\ q = Len(buffers[o]) /\ n = Len(issued[o])
        /\ \A k \in 1 .. q : buffers[o][k] = issued[o][n - q + k]
    BY <1>1, WindowFrames, Zenon
  <2> HIDE DEF q, n, rest
  <2>4. \A k \in 1 .. q - 1 : rest[k] = issued[o][n - (q - 1) + k]
    <3> SUFFICES ASSUME NEW k \in 1 .. q - 1
                 PROVE  rest[k] = issued[o][n - (q - 1) + k]
      OBVIOUS
    <3>1. k + 1 \in 1 .. q /\ n - q + (k + 1) = n - (q - 1) + k
      BY <1>3
    <3>2. buffers[o][k + 1] = issued[o][n - q + (k + 1)]
      BY <2>3, <3>1
    <3> QED
      BY <2>2, <3>1, <3>2
  <2>5. ASSUME NEW p \in Streams
        PROVE  LET qq == Len(buffers'[p])
                   nn == Len(issued'[p]) IN
               /\ qq <= MaxSavedFrames
               /\ qq <= nn
               /\ nn < MaxSavedFrames - 1 => qq = nn
               /\ nn >= MaxSavedFrames - 1 => qq >= MaxSavedFrames - 1
               /\ \A k \in 1 .. qq : buffers'[p][k] = issued'[p][nn - qq + k]
    <3>1. CASE p = o
      <4>1. buffers'[p] = rest /\ issued'[p] = issued[o]
        BY <1>1, <2>1, <3>1
      <4>2. Len(buffers'[p]) = q - 1 /\ Len(issued'[p]) = n
        BY <2>2, <2>3, <4>1
      <4>3. /\ q - 1 <= MaxSavedFrames
            /\ q - 1 <= n
            /\ n < MaxSavedFrames - 1 => q - 1 = n
            /\ n >= MaxSavedFrames - 1 => q - 1 >= MaxSavedFrames - 1
        BY <1>3, <1>5, ConstantsAssumption
      <4> QED
        BY <2>4, <4>1, <4>2, <4>3
    <3>2. CASE p # o
      BY <1>1, <2>1, <3>2 DEF WindowInv, SavedIsWindow
    <3> QED
      BY <3>1, <3>2
  <2> QED
    BY <1>2, <2>5 DEF SavedIsWindow
<1> QED
  BY <1>3, <1>4, <1>5, ConstantsAssumption

\* Saving a frame when there is room makes it the last one.
LEMMA SaveKeepsWindow ==
    ASSUME WindowInv, NEW t \in Threads, GiSave(t)
    PROVE  SavedIsWindow' /\ RefsInOrder'
<1> DEFINE o == obj[t]
           q == Len(buffers[o])
           n == Len(issued[o])
           f == [id |-> NextRef(buffers[o]), buf |-> buf[t]]
           qf == Append(buffers[o], f)
           nf == Append(issued[o], f)
<1>1. /\ o \in Streams
      /\ buffers \in [Streams -> Seq(Frame)] /\ issued \in [Streams -> Seq(Frame)]
  BY DEF GiSave, WindowInv, TypeInv, TypeOK, LocalsSet, ObjLabels
<1>2. CASE UNCHANGED queueVars
  BY <1>2 DEF queueVars, WindowInv, SavedIsWindow, RefsInOrder
<1>3. CASE /\ buffers' = [buffers EXCEPT ![o] = qf]
           /\ issued' = [issued EXCEPT ![o] = nf]
  <2>1. /\ q < MaxSavedFrames /\ q <= n /\ q \in Nat /\ n \in Nat
        /\ n < MaxSavedFrames - 1 => q = n
        /\ n >= MaxSavedFrames - 1 => q >= MaxSavedFrames - 1
    <3>1. q < MaxSavedFrames
      BY DEF GiSave, WindowInv, RoomLeft
    <3> QED
      BY <1>1, <3>1, WindowLengths
  <2>2. f.id = (n + 1) % RefModulus
    BY <1>1, NextRefCounts
  <2> HIDE DEF f
  <2>3. /\ Len(qf) = q + 1
        /\ qf[q + 1] = f
        /\ \A k \in 1 .. q : qf[k] = buffers[o][k]
        /\ Len(nf) = n + 1
        /\ nf[n + 1] = f
        /\ \A k \in 1 .. n : nf[k] = issued[o][k]
        /\ DOMAIN nf = 1 .. n + 1
        /\ DOMAIN issued[o] = 1 .. n
    BY <1>1
  <2>4. /\ q = Len(buffers[o]) /\ n = Len(issued[o])
        /\ \A k \in 1 .. q : buffers[o][k] = issued[o][n - q + k]
    BY <1>1, WindowFrames, Zenon
  <2> HIDE DEF q, n, qf, nf
  <2>5. \A k \in 1 .. q + 1 : qf[k] = nf[(n + 1) - (q + 1) + k]
    <3> SUFFICES ASSUME NEW k \in 1 .. q + 1
                 PROVE  qf[k] = nf[(n + 1) - (q + 1) + k]
      OBVIOUS
    <3>1. CASE k = q + 1
      <4>1. (n + 1) - (q + 1) + k = n + 1
        BY <2>1, <3>1
      <4> QED
        BY <2>3, <3>1, <4>1
    <3>2. CASE k \in 1 .. q
      <4>1. (n + 1) - (q + 1) + k = n - q + k /\ n - q + k \in 1 .. n
        BY <2>1, <3>2
      <4>2. buffers[o][k] = issued[o][n - q + k]
        BY <2>4, <3>2
      <4> QED
        BY <2>3, <3>2, <4>1, <4>2
    <3> QED
      BY <2>1, <3>1, <3>2
  <2>6. ASSUME NEW p \in Streams
        PROVE  LET qq == Len(buffers'[p])
                   nn == Len(issued'[p]) IN
               /\ qq <= MaxSavedFrames
               /\ qq <= nn
               /\ nn < MaxSavedFrames - 1 => qq = nn
               /\ nn >= MaxSavedFrames - 1 => qq >= MaxSavedFrames - 1
               /\ \A k \in 1 .. qq : buffers'[p][k] = issued'[p][nn - qq + k]
    <3>1. CASE p = o
      <4>1. buffers'[p] = qf /\ issued'[p] = nf
        BY <1>1, <1>3, <3>1
      <4>2. Len(buffers'[p]) = q + 1 /\ Len(issued'[p]) = n + 1
        BY <2>3, <4>1
      <4>3. /\ q + 1 <= MaxSavedFrames
            /\ q + 1 <= n + 1
            /\ n + 1 < MaxSavedFrames - 1 => q + 1 = n + 1
            /\ n + 1 >= MaxSavedFrames - 1 => q + 1 >= MaxSavedFrames - 1
        BY <2>1, ConstantsAssumption
      <4> QED
        BY <2>5, <4>1, <4>2, <4>3
    <3>2. CASE p # o
      BY <1>1, <1>3, <3>2 DEF WindowInv, SavedIsWindow
    <3> QED
      BY <3>1, <3>2
  <2>7. ASSUME NEW p \in Streams, NEW j \in DOMAIN issued'[p]
        PROVE  issued'[p][j].id = j % RefModulus
    <3>1. CASE p = o
      <4>1. issued'[p] = nf
        BY <1>1, <1>3, <3>1
      <4>2. CASE j = n + 1
        BY <2>2, <2>3, <4>1, <4>2
      <4>3. CASE j \in 1 .. n
        <5>1. issued[o][j].id = j % RefModulus
          BY <1>1, <2>3, <4>3 DEF WindowInv, RefsInOrder
        <5> QED
          BY <2>3, <4>1, <4>3, <5>1
      <4> QED
        BY <2>1, <2>3, <2>7, <4>1, <4>2, <4>3
    <3>2. CASE p # o
      BY <1>1, <1>3, <2>7, <3>2 DEF WindowInv, RefsInOrder
    <3> QED
      BY <3>1, <3>2
  <2> QED
    BY <2>6, <2>7 DEF SavedIsWindow, RefsInOrder
<1> QED
  BY <1>2, <1>3 DEF GiSave

LEMMA WindowInit == Init => WindowInv
<1> SUFFICES ASSUME Init PROVE WindowInv
  OBVIOUS
<1>1. LocksHeld /\ RoomLeft
  BY DEF Init, LocksHeld, RoomLeft, MutexLabels, InferenceLabels
<1>2. SavedIsWindow /\ RefsInOrder
  BY ConstantsAssumption DEF Init, SavedIsWindow, RefsInOrder
<1> QED
  BY <1>1, <1>2, TypeInit DEF WindowInv

LEMMA WindowStep == WindowInv /\ [Next]_vars => WindowInv'
<1> SUFFICES ASSUME WindowInv, [Next]_vars PROVE WindowInv'
  OBVIOUS
<1>1. TypeInv'
  BY TypeStep DEF WindowInv
<1>2. CASE UNCHANGED vars
  BY <1>1, <1>2
  DEF vars, threadVars, queueVars, WindowInv, LocksHeld, RoomLeft, SavedIsWindow,
      RefsInOrder
<1>3. ASSUME NEW t \in Threads, Handler(t) \/ Begin(t) PROVE WindowInv'
  <2>1. LocksHeld' /\ RoomLeft'
    BY <1>3, LocksStep, RoomKept DEF WindowInv
  <2>2. SavedIsWindow' /\ RefsInOrder'
    <3>1. CASE UNCHANGED queueVars
      BY <3>1 DEF queueVars, WindowInv, SavedIsWindow, RefsInOrder
    <3> QED
      BY <1>3, <3>1, QueuesKept, EvictKeepsWindow, SaveKeepsWindow
  <2> QED
    BY <1>1, <2>1, <2>2 DEF WindowInv
<1>4. ASSUME NEW t \in Threads, Crash(t) PROVE WindowInv'
  BY <1>1, <1>4
  DEF Crash, threadVars, queueVars, WindowInv, LocksHeld, RoomLeft, SavedIsWindow,
      RefsInOrder
<1> QED
  BY <1>2, <1>3, <1>4 DEF Next, Step, Rest

LEMMA WindowInvariant == Spec => []WindowInv
  BY WindowInit, WindowStep, PTL DEF Spec

\* The queue of every stream is the window of the frames saved last, never more
\* than MaxSavedFrames and never short of the last MaxSavedFrames - 1.
THEOREM SavedFramesAreWindow == Spec => []SavedIsWindow
  BY WindowInvariant, PTL DEF WindowInv

\* The references of a stream count up without gap or repetition.
THEOREM ReferencesInOrder == Spec => []RefsInOrder
  BY WindowInvariant, PTL DEF WindowInv
-----------------------------------------------------------------------------
(* The saved frames implement FrameStore.                                  *)

\* The refinement mapping of Store, see VideoCapture.
HistoryMap == [o \in Streams |-> [j \in DOMAIN issued[o] |-> issued[o][j].buf]]
WindowMap  == [o \in Streams |-> Len(buffers[o])]

LEMMA StoreInit == Init => Store!Init
<1> SUFFICES ASSUME Init PROVE Store!Init
  OBVIOUS
<1>1. ASSUME NEW o \in Streams
      PROVE  [j \in DOMAIN issued[o] |-> issued[o][j].buf] = << >>
  <2>1. issued[o] = << >>
    BY DEF Init
  <2>2. DOMAIN << >> = 1 .. 0
    OBVIOUS
  <2> QED
    BY <2>1, <2>2
<1>2. \A o \in Streams : Len(buffers[o]) = 0
  BY DEF Init
<1> QED
  BY <1>1, <1>2 DEF Store!Init

\* Evicting the oldest frame drops it from the store, or nothing changes.
LEMMA EvictDrops ==
    ASSUME WindowInv, NEW t \in Threads, GiEvict(t), NEW o \in Streams, o = obj[t]
    PROVE  Store!Drop(o) \/ UNCHANGED Store!vars
<1>1. /\ o \in Streams /\ issued' = issued
      /\ buffers \in [Streams -> Seq(Frame)]
  BY DEF GiEvict, WindowInv, TypeInv, TypeOK, LocalsSet, ObjLabels
<1>2. Len(buffers[o]) <= MaxSavedFrames /\ Len(buffers[o]) \in Nat
  BY <1>1, WindowLengths
<1>3. CASE Len(buffers[o]) < MaxSavedFrames
  <2>1. buffers' = buffers
    BY <1>2, <1>3, ConstantsAssumption DEF GiEvict
  <2> QED
    BY <1>1, <2>1 DEF Store!vars
<1>4. CASE Len(buffers[o]) = MaxSavedFrames
  <2>1. buffers' = [buffers EXCEPT ![o] = Tail(@)]
    BY <1>2, <1>4, ConstantsAssumption DEF GiEvict
  <2>2. Len(Tail(buffers[o])) = Len(buffers[o]) - 1
    BY <1>1, <1>4, ConstantsAssumption
  <2>3. WindowMap' = [WindowMap EXCEPT ![o] = @ - 1]
    BY <1>1, <2>1, <2>2 DEF WindowMap
  <2>4. WindowMap[o] = MaxSavedFrames
    BY <1>1, <1>4 DEF WindowMap
  <2> QED
    BY <1>1, <2>3, <2>4 DEF Store!Drop, WindowMap
<1> QED
  BY <1>2, <1>3, <1>4, ConstantsAssumption

\* SaveFrame adds its frame to the store.
LEMMA SaveSaves ==
    ASSUME WindowInv, NEW t \in Threads, GiSave(t), NEW o \in Streams, o = obj[t]
    PROVE  Store!Save(o) \/ UNCHANGED Store!vars
<1> DEFINE f == [id |-> NextRef(buffers[o]), buf |-> buf[t]]
           q == Len(buffers[o])
           n == Len(issued[o])
<1>1. /\ o \in Streams
      /\ buffers \in [Streams -> Seq(Frame)] /\ issued \in [Streams -> Seq(Frame)]
  BY DEF GiSave, WindowInv, TypeInv, TypeOK, LocalsSet, ObjLabels
<1>2. CASE UNCHANGED queueVars
  BY <1>2 DEF queueVars, Store!vars
<1>3. CASE /\ buffers' = [buffers EXCEPT ![o] = Append(@, f)]
           /\ issued' = [issued EXCEPT ![o] = Append(@, f)]
  <2> HIDE DEF f
  <2>1. /\ Len(Append(buffers[o], f)) = q + 1
        /\ DOMAIN Append(issued[o], f) = 1 .. n + 1
        /\ DOMAIN issued[o] = 1 .. n
        /\ n \in Nat
        /\ \A j \in 1 .. n : Append(issued[o], f)[j] = issued[o][j]
    BY <1>1
  <2>2. WindowMap' = [WindowMap EXCEPT ![o] = @ + 1] /\ WindowMap[o] < MaxSavedFrames
    BY <1>1, <1>3, <2>1 DEF WindowMap, GiSave, WindowInv, RoomLeft
  <2>3. \A p \in Streams \ {o} : HistoryMap'[p] = HistoryMap[p]
    BY <1>1, <1>3 DEF HistoryMap
  <2>4. /\ HistoryMap[o] = [j \in 1 .. n |-> issued[o][j].buf]
        /\ HistoryMap'[o] = [j \in 1 .. n + 1 |-> Append(issued[o], f)[j].buf]
    BY <1>1, <1>3, <2>1 DEF HistoryMap
  <2>5. Len(HistoryMap[o]) = n /\ Len(HistoryMap'[o]) = n + 1
    BY <2>1, <2>4
  <2>6. \A j \in DOMAIN HistoryMap[o] : HistoryMap'[o][j] = HistoryMap[o][j]
    BY <2>1, <2>4
  <2> QED
    BY <2>2, <2>3, <2>5, <2>6 DEF Store!Save, WindowMap, HistoryMap
<1> QED
  BY <1>2, <1>3 DEF GiSave

LEMMA StoreStep == WindowInv /\ [Next]_vars => [Store!Next]_(Store!vars)
<1> SUFFICES ASSUME WindowInv, [Next]_vars PROVE [Store!Next]_(Store!vars)
  OBVIOUS
<1>1. CASE UNCHANGED queueVars
  BY <1>1 DEF queueVars, Store!vars
<1>2. ASSUME NEW t \in Threads, GiEvict(t) \/ GiSave(t)
      PROVE  [Store!Next]_(Store!vars)
  <2>1. PICK o \in Streams : o = obj[t]
    BY <1>2
    DEF GiEvict, GiSave, WindowInv, TypeInv, TypeOK, LocalsSet, ObjLabels
  <2>2. Store!Drop(o) \/ Store!Save(o) \/ UNCHANGED Store!vars
    BY <1>2, <2>1, EvictDrops, SaveSaves
  <2> QED
    BY <2>2 DEF Store!Next
<1> QED
  BY <1>1, <1>2, QueuesKept
  DEF Next, Step, Rest, Crash, vars, queueVars

\* The queues of saved frames implement the abstract store: nothing but saving a
\* frame when there is room and dropping the oldest one when there is none.
THEOREM FramesImplementStore == Spec => StoreSpec
BY WindowInvariant, StoreInit, StoreStep, PTL DEF Spec, StoreSpec, Store!Spec
-----------------------------------------------------------------------------
(* Who holds which VDO buffer.                                             *)

Bufs(q)     == {q[k].buf : k \in DOMAIN q}
Distinct(q) == \A j, k \in DOMAIN q : j # k => q[j].buf # q[k].buf

\* The inductive form of BufferOwnership: a buffer's number is not above the
\* number VDO has come to (so the next one is new), it is queued with its own
\* stream, and what GetFrame or Predict copies is still queued.
HeldOwned  == \A b \in held : \/ \E o \in Streams : b \in Queued(o)
                              \/ \E t \in InHand : b = buf[t]
QueuedHeld == \A o \in Streams :
                /\ Distinct(buffers[o])
                /\ \A b \in Queued(o) : b \in held /\ b[1] = o
InHandHeld == \A t \in InHand :
                /\ buf[t] \in held /\ buf[t][1] = obj[t]
                /\ \A o \in Streams : buf[t] \notin Queued(o)
                /\ \A u \in InHand \ {t} : buf[u] # buf[t]
Numbered   == \A b \in held : b[2] <= produced[b[1]]
CopyQueued == \A t \in Threads, o \in Streams :
                pc[t] \in {"gf_copy", "pr_copy"} /\ obj[t] = o =>
                    buf[t] \in Queued(o)
Owned    == HeldOwned /\ QueuedHeld /\ InHandHeld /\ Numbered /\ CopyQueued
OwnerInv == WindowInv /\ Owned

LEMMA BufsAppend ==
    ASSUME NEW q \in Seq(Frame), NEW f \in Frame
    PROVE  /\ Bufs(Append(q, f)) = Bufs(q) \union {f.buf}
           /\ Distinct(q) /\ f.buf \notin Bufs(q) => Distinct(Append(q, f))
<1> DEFINE n == Len(q)
           a == Append(q, f)
<1>1. /\ n \in Nat /\ DOMAIN q = 1 .. n /\ DOMAIN a = 1 .. n + 1
      /\ \A k \in 1 .. n : a[k] = q[k]
      /\ a[n + 1] = f
  OBVIOUS
<1> HIDE DEF n, a
<1>2. Bufs(a) = Bufs(q) \union {f.buf}
  <2>1. ASSUME NEW b \in Bufs(a) PROVE b \in Bufs(q) \union {f.buf}
    BY <1>1, <2>1 DEF Bufs
  <2>2. ASSUME NEW b \in Bufs(q) \union {f.buf} PROVE b \in Bufs(a)
    <3>1. CASE b = f.buf
      <4>1. n + 1 \in DOMAIN a
        BY <1>1
      <4> QED
        BY <1>1, <3>1, <4>1 DEF Bufs
    <3>2. CASE b \in Bufs(q)
      <4>1. PICK k \in 1 .. n : b = q[k].buf
        BY <1>1, <3>2 DEF Bufs
      <4>2. k \in DOMAIN a /\ b = a[k].buf
        BY <1>1, <4>1
      <4> QED
        BY <4>2 DEF Bufs
    <3> QED
      BY <2>2, <3>1, <3>2
  <2> QED
    BY <2>1, <2>2
<1>3. ASSUME Distinct(q), f.buf \notin Bufs(q) PROVE Distinct(a)
  <2>1. \A k \in 1 .. n : q[k].buf # f.buf
    BY <1>1, <1>3 DEF Bufs
  <2> SUFFICES ASSUME NEW j \in 1 .. n + 1, NEW k \in 1 .. n + 1, j # k
               PROVE  a[j].buf # a[k].buf
    BY <1>1 DEF Distinct
  <2>2. CASE j \in 1 .. n /\ k \in 1 .. n
    BY <1>1, <1>3, <2>2 DEF Distinct
  <2>3. CASE j = n + 1 \/ k = n + 1
    BY <1>1, <2>1, <2>3
  <2> QED
    BY <1>1, <2>2, <2>3
<1> QED
  BY <1>2, <1>3 DEF a

LEMMA BufsTail ==
    ASSUME NEW q \in Seq(Frame), q # << >>, Distinct(q)
    PROVE  /\ Bufs(Tail(q)) = Bufs(q) \ {Head(q).buf}
           /\ Head(q).buf \in Bufs(q)
           /\ Distinct(Tail(q))
<1> DEFINE n == Len(q)
           r == Tail(q)
<1>1. /\ n \in Nat /\ n > 0 /\ DOMAIN q = 1 .. n /\ DOMAIN r = 1 .. n - 1
      /\ \A k \in 1 .. n - 1 : r[k] = q[k + 1]
      /\ Head(q) = q[1]
  OBVIOUS
<1> HIDE DEF n, r
<1>2. 1 \in DOMAIN q /\ Head(q).buf \in Bufs(q)
  BY <1>1 DEF Bufs
<1>3. ASSUME NEW b \in Bufs(r) PROVE b \in Bufs(q) \ {Head(q).buf}
  <2>1. PICK k \in 1 .. n - 1 : b = r[k].buf
    BY <1>1, <1>3 DEF Bufs
  <2>2. k + 1 \in DOMAIN q /\ k + 1 # 1 /\ b = q[k + 1].buf
    BY <1>1, <2>1
  <2> QED
    BY <1>1, <1>2, <2>2 DEF Bufs, Distinct
<1>4. ASSUME NEW b \in Bufs(q) \ {Head(q).buf} PROVE b \in Bufs(r)
  <2>1. PICK k \in 1 .. n : b = q[k].buf
    BY <1>1, <1>4 DEF Bufs
  <2>2. k # 1
    BY <1>1, <1>4, <2>1
  <2>3. k - 1 \in DOMAIN r /\ r[k - 1] = q[k]
    BY <1>1, <2>1, <2>2
  <2> QED
    BY <2>1, <2>3 DEF Bufs
<1>5. Distinct(r)
  <2> SUFFICES ASSUME NEW j \in 1 .. n - 1, NEW k \in 1 .. n - 1, j # k
               PROVE  r[j].buf # r[k].buf
    BY <1>1 DEF Distinct
  <2>1. j + 1 \in DOMAIN q /\ k + 1 \in DOMAIN q /\ j + 1 # k + 1
    BY <1>1
  <2> QED
    BY <1>1, <2>1 DEF Distinct
<1> QED
  BY <1>2, <1>3, <1>4, <1>5 DEF r

\* How a step that leaves the queues alone can change what is held.
LEMMA OwnedQueuesSame ==
    ASSUME OwnerInv, TypeInv', NEW t \in Threads, OthersKeep(t),
           buffers' = buffers,
           \A o \in Streams : pc'[t] \in {"gf_copy", "pr_copy"} /\ obj'[t] = o =>
               buf'[t] \in Queued(o),
           \/ \* nothing changes hands
              /\ UNCHANGED <<held, produced>>
              /\ t \notin InHand
              /\ pc'[t] \notin {"gf_unref", "gi_save"}
           \/ \* a buffer is taken from VDO
              /\ t \notin InHand
              /\ obj[t] \in Streams
              /\ obj'[t] = obj[t]
              /\ buf'[t] = <<obj[t], produced[obj[t]] + 1>>
              /\ produced' = [produced EXCEPT ![obj[t]] = @ + 1]
              /\ held' = held \union {buf'[t]}
              /\ pc'[t] \in {"gf_unref", "gi_save"}
           \/ \* a buffer is given back
              /\ t \in InHand
              /\ held' = held \ {buf[t]}
              /\ produced' = produced
              /\ pc'[t] \notin {"gf_unref", "gi_save"}
    PROVE  Owned'
<1>1. \A o \in Streams : Queued(o)' = Queued(o)
  BY DEF Queued
<1>2. /\ \A u \in Threads \ {t} : u \in InHand' <=> u \in InHand
      /\ \A u \in Threads \ {t} : buf'[u] = buf[u] /\ obj'[u] = obj[u] /\ pc'[u] = pc[u]
      /\ InHand \subseteq Threads /\ InHand' \subseteq Threads
      /\ t \in InHand' <=> pc'[t] \in {"gf_unref", "gi_save"}
  BY DEF OthersKeep, InHand
<1>3. CopyQueued'
  BY <1>1, <1>2 DEF OwnerInv, Owned, CopyQueued, Queued
<1>4. CASE UNCHANGED <<held, produced>> /\ t \notin InHand /\ t \notin InHand'
  <2>1. InHand' = InHand
    BY <1>2, <1>4
  <2> QED
    BY <1>1, <1>2, <1>3, <1>4, <2>1
    DEF OwnerInv, Owned, HeldOwned, QueuedHeld, InHandHeld, Numbered
<1>5. CASE /\ t \notin InHand /\ t \in InHand'
           /\ obj[t] \in Streams
           /\ obj'[t] = obj[t]
           /\ buf'[t] = <<obj[t], produced[obj[t]] + 1>>
           /\ produced' = [produced EXCEPT ![obj[t]] = @ + 1]
           /\ held' = held \union {buf'[t]}
  <2> DEFINE b == buf'[t]
  <2>1. /\ b[1] = obj[t] /\ b[2] = produced[obj[t]] + 1
        /\ produced \in [Streams -> Nat]
        /\ held \subseteq Streams \X Nat
    BY <1>5 DEF OwnerInv, WindowInv, TypeInv, TypeOK, Buffers
  <2>2. b \notin held
    <3>1. \A c \in held : c[2] <= produced[c[1]]
      BY DEF OwnerInv, Owned, Numbered
    <3>2. produced[obj[t]] \in Nat
      BY <1>5, <2>1
    <3> QED
      BY <2>1, <3>1, <3>2
  <2>3. Numbered'
    <3> SUFFICES ASSUME NEW c \in held' PROVE c[2] <= produced'[c[1]]
      BY DEF Numbered
    <3>1. CASE c = b
      BY <1>5, <2>1, <3>1
    <3>2. CASE c \in held
      <4>1. c[1] \in Streams /\ c[2] \in Nat /\ c[2] <= produced[c[1]]
        BY <2>1, <3>2 DEF OwnerInv, Owned, Numbered
      <4>2. produced'[c[1]] \in Nat /\ produced'[c[1]] >= produced[c[1]]
        BY <1>5, <2>1, <4>1
      <4> QED
        BY <2>1, <4>1, <4>2
    <3> QED
      BY <1>5, <3>1, <3>2
  <2>4. InHand' = InHand \union {t}
    BY <1>2, <1>5
  <2>5. \A o \in Streams : b \notin Queued(o)
    BY <2>2 DEF OwnerInv, Owned, QueuedHeld
  <2>6. \A u \in InHand : buf[u] # b /\ u # t
    BY <1>5, <2>2 DEF OwnerInv, Owned, InHandHeld
  <2>7. HeldOwned' /\ QueuedHeld' /\ InHandHeld'
    <3> HIDE DEF b
    <3>1. held' = held \union {b} /\ buf'[t] = b /\ b[1] = obj'[t]
      BY <1>5, <2>1 DEF b
    <3> QED
      BY <1>1, <1>2, <2>4, <2>5, <2>6, <3>1
      DEF OwnerInv, Owned, HeldOwned, QueuedHeld, InHandHeld
  <2> QED
    BY <1>3, <2>3, <2>7 DEF Owned
<1>6. CASE /\ t \in InHand /\ t \notin InHand'
           /\ held' = held \ {buf[t]}
           /\ produced' = produced
  <2>1. InHand' = InHand \ {t}
    BY <1>2, <1>6
  <2>2. HeldOwned' /\ QueuedHeld' /\ InHandHeld' /\ Numbered'
    BY <1>1, <1>2, <1>6, <2>1
    DEF OwnerInv, Owned, HeldOwned, QueuedHeld, InHandHeld, Numbered
  <2> QED
    BY <1>3, <2>2 DEF Owned
<1> QED
  BY <1>2, <1>4, <1>5, <1>6 DEF InHand
\* The frame that MaybeDeleteOldestFrame gives back is held by the queue alone,
\* and nobody is copying it: its stream's Predict calls wait for the inference
\* mutex, and a GetFrame that found it would have Capture::_mutex.
LEMMA EvictOwned ==
    ASSUME OwnerInv, NEW t \in Threads, GiEvict(t), OthersKeep(t), TypeInv',
           NEW o \in Streams, o = obj[t]
    PROVE  Owned'
<1> DEFINE h == Head(buffers[o]).buf
<1>1. /\ o \in Streams /\ buffers \in [Streams -> Seq(Frame)]
      /\ Len(buffers[o]) \in Nat
  BY DEF GiEvict, OwnerInv, WindowInv, TypeInv, TypeOK, LocalsSet, ObjLabels
<1>2. /\ t \notin InHand /\ pc'[t] = "gi_get"
      /\ produced' = produced /\ obj' = obj
  BY DEF GiEvict, Goto, InHand, OwnerInv, WindowInv, TypeInv, TypeOK
<1>3. CASE Len(buffers[o]) < MaxSavedFrames
  <2>1. buffers' = buffers /\ held' = held
    BY <1>1, <1>3, ConstantsAssumption DEF GiEvict
  <2> QED
    BY <1>2, <2>1, OwnedQueuesSame
<1>4. CASE Len(buffers[o]) >= MaxSavedFrames
  <2>1. /\ buffers' = [buffers EXCEPT ![o] = Tail(@)]
        /\ held' = held \ {h}
    BY <1>4 DEF GiEvict
  <2>2. buffers[o] # << >> /\ Distinct(buffers[o])
    BY <1>1, <1>4, ConstantsAssumption DEF OwnerInv, Owned, QueuedHeld
  <2>3. /\ Queued(o)' = Queued(o) \ {h}
        /\ h \in Queued(o)
        /\ Distinct(buffers'[o])
    <3>1. buffers'[o] = Tail(buffers[o])
      BY <1>1, <2>1
    <3>2. Queued(o) = Bufs(buffers[o]) /\ Queued(o)' = Bufs(buffers'[o])
      BY DEF Queued, Bufs
    <3> QED
      BY <1>1, <2>2, <3>1, <3>2, BufsTail
  <2>4. \A p \in Streams \ {o} : Queued(p)' = Queued(p) /\ buffers'[p] = buffers[p]
    BY <1>1, <2>1 DEF Queued
  <2> HIDE DEF h
  <2>5. h \in held /\ h[1] = o /\ \A p \in Streams \ {o} : h \notin Queued(p)
    BY <1>1, <2>3 DEF OwnerInv, Owned, QueuedHeld
  <2>6. InHand' = InHand /\ \A u \in InHand : u # t /\ buf'[u] = buf[u]
    BY <1>2 DEF InHand, OthersKeep
  <2>7. \A u \in InHand : buf[u] # h
    BY <1>1, <2>3 DEF OwnerInv, Owned, InHandHeld
  <2>8. HeldOwned'
    BY <1>1, <2>1, <2>3, <2>4, <2>6 DEF OwnerInv, Owned, HeldOwned
  <2>9. QueuedHeld'
    BY <1>1, <2>1, <2>3, <2>4, <2>5 DEF OwnerInv, Owned, QueuedHeld
  <2>10. InHandHeld'
    <3>1. ASSUME NEW u \in InHand
          PROVE  /\ buf'[u] \in held' /\ buf'[u][1] = obj'[u]
                 /\ \A w \in InHand \ {u} : buf'[w] # buf'[u]
      BY <1>2, <2>1, <2>6, <2>7 DEF OwnerInv, Owned, InHandHeld
    <3>2. ASSUME NEW u \in InHand, NEW p \in Streams PROVE buf'[u] \notin Queued(p)'
      BY <2>3, <2>4, <2>6 DEF OwnerInv, Owned, InHandHeld
    <3> QED
      BY <2>6, <3>1, <3>2 DEF InHandHeld
  <2>11. Numbered'
    BY <1>2, <2>1 DEF OwnerInv, Owned, Numbered
  <2>12. CopyQueued'
    <3> SUFFICES ASSUME NEW u \in Threads, pc'[u] \in {"gf_copy", "pr_copy"}
                 PROVE  FALSE
      BY DEF CopyQueued
    <3>1. u # t /\ pc[u] \in {"gf_copy", "pr_copy"}
      BY <1>2 DEF OthersKeep
    <3>2. pc[t] = "gi_evict" /\ mutex = None
      BY DEF GiEvict
    <3> QED
      BY <3>1, <3>2, ConstantsAssumption
      DEF OwnerInv, WindowInv, LocksHeld, MutexLabels, InferenceLabels
  <2> QED
    BY <2>8, <2>9, <2>10, <2>11, <2>12 DEF Owned
<1> QED
  BY <1>1, <1>3, <1>4, ConstantsAssumption

\* SaveFrame hands the buffer from the handler to the queue.
LEMMA SaveOwned ==
    ASSUME OwnerInv, NEW t \in Threads, GiSave(t), OthersKeep(t), TypeInv',
           NEW o \in Streams, o = obj[t]
    PROVE  Owned'
<1> DEFINE f == [id |-> NextRef(buffers[o]), buf |-> buf[t]]
<1>1. /\ o \in Streams /\ buffers \in [Streams -> Seq(Frame)]
      /\ f \in Frame /\ f.buf = buf[t] /\ t \in InHand /\ produced' = produced
  BY NextRefTyped
  DEF GiSave, OwnerInv, WindowInv, TypeInv, TypeOK, LocalsSet, ObjLabels,
      BufLabels, Frame, InHand
<1>2. CASE /\ held' = held \ {buf[t]}
           /\ Return(t, "CANCELLED")
           /\ UNCHANGED queueVars
  <2>1. pc'[t] = "idle"
    BY <1>2 DEF Return, Goto, OwnerInv, WindowInv, TypeInv, TypeOK
  <2> QED
    BY <1>1, <1>2, <2>1, OwnedQueuesSame DEF queueVars
<1>3. CASE /\ buffers' = [buffers EXCEPT ![o] = Append(@, f)]
           /\ Goto(t, "pr_copy")
           /\ UNCHANGED <<obj, buf, held>>
  <2>1. \A p \in Streams : buf[t] \notin Queued(p)
    BY <1>1 DEF OwnerInv, Owned, InHandHeld
  <2>2. /\ Queued(o)' = Queued(o) \union {buf[t]}
        /\ Distinct(buffers'[o])
    <3>1. buffers'[o] = Append(buffers[o], f)
      BY <1>1, <1>3
    <3>2. Queued(o) = Bufs(buffers[o]) /\ Queued(o)' = Bufs(buffers'[o])
      BY DEF Queued, Bufs
    <3>3. Distinct(buffers[o]) /\ f.buf \notin Bufs(buffers[o])
      BY <1>1, <2>1, <3>2 DEF OwnerInv, Owned, QueuedHeld
    <3> HIDE DEF f
    <3> QED
      BY <1>1, <3>1, <3>2, <3>3, BufsAppend
  <2>3. \A p \in Streams \ {o} : Queued(p)' = Queued(p) /\ buffers'[p] = buffers[p]
    BY <1>1, <1>3 DEF Queued
  <2>4. buf[t] \in held /\ buf[t][1] = o
    <3>1. buf[t] \in held
      BY <1>1 DEF OwnerInv, Owned, InHandHeld
    <3>2. buf[t][1] = o
      BY <1>1 DEF OwnerInv, Owned, InHandHeld
    <3> QED
      BY <3>1, <3>2
  <2>5. InHand' = InHand \ {t} /\ buf' = buf /\ pc'[t] = "pr_copy"
    BY <1>1, <1>3
    DEF InHand, OthersKeep, Goto, OwnerInv, WindowInv, TypeInv, TypeOK
  <2> HIDE DEF f
  <2>6. HeldOwned'
    <3> SUFFICES ASSUME NEW b \in held
                 PROVE  \/ \E p \in Streams : b \in Queued(p)'
                        \/ \E u \in InHand' : b = buf[u]
      BY <1>3, <2>5 DEF HeldOwned
    <3>1. CASE b = buf[t]
      BY <1>1, <2>2, <3>1
    <3>2. CASE b # buf[t]
      BY <1>1, <2>2, <2>3, <2>5, <3>2 DEF OwnerInv, Owned, HeldOwned
    <3> QED
      BY <3>1, <3>2
  <2>7. QueuedHeld'
    BY <1>1, <1>3, <2>2, <2>3, <2>4 DEF OwnerInv, Owned, QueuedHeld
  <2>8. InHandHeld'
    <3> SUFFICES ASSUME NEW u \in InHand, u # t
                 PROVE  /\ buf[u] \in held /\ buf[u][1] = obj[u]
                        /\ \A p \in Streams : buf[u] \notin Queued(p)'
                        /\ \A v \in InHand \ {t, u} : buf[v] # buf[u]
      BY <1>3, <2>5 DEF InHandHeld
    <3>1. /\ buf[u] \in held /\ buf[u][1] = obj[u]
          /\ \A p \in Streams : buf[u] \notin Queued(p)
          /\ \A v \in InHand \ {u} : buf[v] # buf[u]
      BY DEF OwnerInv, Owned, InHandHeld
    <3>2. buf[u] # buf[t]
      BY <1>1, <3>1
    <3>3. \A p \in Streams : buf[u] \notin Queued(p)'
      BY <2>2, <2>3, <3>1, <3>2
    <3> QED
      BY <3>1, <3>3
  <2>9. Numbered'
    BY <1>1, <1>3 DEF OwnerInv, Owned, Numbered
  <2>10. CopyQueued'
    <3> SUFFICES ASSUME NEW u \in Threads, NEW p \in Streams,
                        pc'[u] \in {"gf_copy", "pr_copy"}, obj'[u] = p
                 PROVE  buf'[u] \in Queued(p)'
      BY DEF CopyQueued
    <3>1. CASE u = t
      BY <1>3, <2>2, <2>5, <3>1
    <3>2. CASE u # t
      <4>1. buf[u] \in Queued(p)
        BY <1>3, <3>2 DEF OthersKeep, OwnerInv, Owned, CopyQueued
      <4> QED
        BY <1>1, <1>3, <2>2, <2>3, <4>1
    <3> QED
      BY <3>1, <3>2
  <2> QED
    BY <2>6, <2>7, <2>8, <2>9, <2>10 DEF Owned
<1> QED
  BY <1>2, <1>3 DEF GiSave

LEMMA OwnerInit == Init => OwnerInv
<1> SUFFICES ASSUME Init PROVE OwnerInv
  OBVIOUS
<1>1. \A o \in Streams : Queued(o) = {} /\ DOMAIN buffers[o] = {}
  BY DEF Init, Queued
<1>2. Owned
  BY <1>1
  DEF Init, Owned, HeldOwned, QueuedHeld, InHandHeld, Numbered, CopyQueued,
      InHand, Distinct
<1> QED
  BY <1>2, WindowInit DEF OwnerInv

\* The steps that neither evict nor save.
LEMMA OtherStepsOwned ==
    ASSUME OwnerInv, NEW t \in Threads, Handler(t) \/ Begin(t), TypeInv',
           ~GiEvict(t), ~GiSave(t)
    PROVE  Owned'
<1>1. OthersKeep(t)
  BY LocksStep DEF OwnerInv, WindowInv
<1>2. buffers' = buffers
  BY QueuesKept DEF queueVars
<1> USE DEF OwnerInv, WindowInv, TypeInv, TypeOK, InHand, Goto
<1>3. ASSUME NEW s \in Replies, Return(t, s) PROVE pc'[t] = "idle"
  BY <1>3 DEF Return
<1>4. CASE GfGet(t) \/ GiGet(t)
  <2>1. PICK next \in {"gf_unref", "gi_save"}, s \in Replies :
           GetBuffer(t, next, s)
    BY <1>4 DEF GfGet, GiGet, Replies
  <2>2. t \notin InHand /\ obj[t] \in Streams
    BY <1>4 DEF GfGet, GiGet, LocalsSet, ObjLabels
  <2>3. CASE Return(t, s) /\ UNCHANGED <<produced, held>>
    BY <1>1, <1>2, <1>3, <2>2, <2>3, OwnedQueuesSame
  <2>4. CASE /\ produced' = [produced EXCEPT ![obj[t]] = @ + 1]
             /\ held' = held \union {<<obj[t], produced[obj[t]] + 1>>}
             /\ buf' = [buf EXCEPT ![t] = <<obj[t], produced[obj[t]] + 1>>]
             /\ Goto(t, next)
             /\ obj' = obj
    <3>1. /\ buf'[t] = <<obj[t], produced[obj[t]] + 1>>
          /\ pc'[t] = next
      BY <2>4
    <3> QED
      BY <1>1, <1>2, <2>2, <2>4, <3>1, OwnedQueuesSame
  <2> QED
    BY <2>1, <2>3, <2>4 DEF GetBuffer
<1>5. CASE GfUnref(t)
  <2>1. /\ t \in InHand /\ held' = held \ {buf[t]} /\ produced' = produced
        /\ pc'[t] = "idle"
    BY <1>3, <1>5 DEF GfUnref, Replies
  <2> QED
    BY <1>1, <1>2, <2>1, OwnedQueuesSame
<1>6. CASE GfSaved(t)
  <2>1. CASE Return(t, "NOT_FOUND")
    <3>1. /\ UNCHANGED <<held, produced>> /\ t \notin InHand /\ pc'[t] = "idle"
      BY <1>3, <1>6, <2>1 DEF GfSaved, vdoVars, Replies
    <3> QED
      BY <1>1, <1>2, <3>1, OwnedQueuesSame
  <2>2. ASSUME NEW k \in DOMAIN buffers[obj[t]],
               buf' = [buf EXCEPT ![t] = buffers[obj[t]][k].buf],
               Goto(t, "gf_copy"),
               obj' = obj
        PROVE  Owned'
    <3>1. /\ UNCHANGED <<held, produced>> /\ t \notin InHand /\ pc'[t] = "gf_copy"
      BY <1>6, <2>2 DEF GfSaved, vdoVars
    <3>2. \A o \in Streams : obj'[t] = o => buf'[t] \in Queued(o)
      BY <2>2 DEF Queued
    <3> QED
      BY <1>1, <1>2, <3>1, <3>2, OwnedQueuesSame
  <2> QED
    BY <1>6, <2>1, <2>2 DEF GfSaved
<1>7. ASSUME UNCHANGED <<held, produced>>, t \notin InHand,
             pc'[t] \notin {"gf_unref", "gi_save", "gf_copy", "pr_copy"}
      PROVE  Owned'
  BY <1>1, <1>2, <1>7, OwnedQueuesSame
<1>8. CASE NsNew(t) \/ NsEmplace(t) \/ NsStart(t) \/ DsErase(t) \/ DsStop(t)
  BY <1>3, <1>7, <1>8
  DEF NsNew, NsEmplace, NsStart, DsErase, DsStop, vdoVars, Replies
<1>9. CASE DsFind(t) \/ GfFind(t) \/ GiFind(t)
  <2>1. PICK hit \in {"ds_erase", "gf_saved", "gf_get", "gi_evict"},
             s \in Replies : Find(t, hit, s)
    BY <1>9 DEF DsFind, GfFind, GiFind, Replies
  <2>2. UNCHANGED <<held, produced>> /\ pc'[t] \in {"idle", hit}
    BY <1>3, <2>1 DEF Find, vdoVars
  <2>3. t \notin InHand
    BY <1>9 DEF DsFind, GfFind, GiFind
  <2> QED
    BY <1>7, <2>2, <2>3
<1>10. CASE GfCopy(t) \/ PrLock(t) \/ PrCopy(t)
  BY <1>3, <1>7, <1>10 DEF GfCopy, PrLock, PrCopy, vdoVars, Replies
<1>11. CASE Begin(t)
  <2>1. /\ UNCHANGED <<held, produced>> /\ t \notin InHand
        /\ pc'[t] \in {"ns_new", "ds_find", "gf_find", "pr_lock"}
    BY <1>11 DEF Begin, Start, Ops, vdoVars
  <2> QED
    BY <1>7, <2>1
<1> QED
  BY <1>4, <1>5, <1>6, <1>8, <1>9, <1>10, <1>11 DEF Handler

LEMMA OwnerStep == OwnerInv /\ [Next]_vars => OwnerInv'
<1> SUFFICES ASSUME OwnerInv, [Next]_vars PROVE OwnerInv'
  OBVIOUS
<1>1. WindowInv' /\ TypeInv'
  BY WindowStep DEF OwnerInv, WindowInv
<1>2. ASSUME UNCHANGED <<pc, obj, buf, buffers, held, produced>> PROVE Owned'
  BY <1>2
  DEF OwnerInv, Owned, HeldOwned, QueuedHeld, InHandHeld, Numbered, CopyQueued,
      InHand, Queued
<1>3. ASSUME NEW t \in Threads, Handler(t) \/ Begin(t) PROVE Owned'
  <2>1. OthersKeep(t)
    BY <1>3, LocksStep DEF OwnerInv, WindowInv
  <2>2. CASE GiEvict(t) \/ GiSave(t)
    <3>1. PICK o \in Streams : o = obj[t]
      BY <2>2
      DEF GiEvict, GiSave, OwnerInv, WindowInv, TypeInv, TypeOK, LocalsSet,
          ObjLabels
    <3> QED
      BY <1>1, <2>1, <2>2, <3>1, EvictOwned, SaveOwned
  <2>3. CASE ~GiEvict(t) /\ ~GiSave(t)
    BY <1>1, <1>3, <2>3, OtherStepsOwned
  <2> QED
    BY <2>2, <2>3
<1>4. Owned'
  BY <1>2, <1>3
  DEF Next, Step, Rest, Crash, vars, threadVars, queueVars, vdoVars
<1> QED
  BY <1>1, <1>4 DEF OwnerInv

LEMMA OwnerInvariant == Spec => []OwnerInv
  BY OwnerInit, OwnerStep, PTL DEF Spec

\* Every VDO buffer not given back is in exactly one queue or one hand.
THEOREM BuffersOwned == Spec => []BufferOwnership
<1>1. OwnerInv => BufferOwnership
  <2> SUFFICES ASSUME OwnerInv PROVE BufferOwnership
    OBVIOUS
  <2>1. held = (UNION {Queued(o) : o \in Streams}) \union {buf[t] : t \in InHand}
    <3> DEFINE inQueues == UNION {Queued(o) : o \in Streams}
               inHands  == {buf[t] : t \in InHand}
    <3>1. ASSUME NEW b \in held
          PROVE  b \in inQueues \/ b \in inHands
      <4>1. (\E o \in Streams : b \in Queued(o)) \/ (\E t \in InHand : buf[t] = b)
        BY DEF OwnerInv, Owned, HeldOwned
      <4>2. CASE \E o \in Streams : b \in Queued(o)
        BY <4>2
      <4>3. CASE \E t \in InHand : buf[t] = b
        BY <4>3
      <4> QED
        BY <4>1, <4>2, <4>3
    <3>2. ASSUME NEW b \in inQueues
          PROVE  b \in held
      <4>1. PICK o \in Streams : b \in Queued(o)
        OBVIOUS
      <4> QED
        BY <4>1 DEF OwnerInv, Owned, QueuedHeld
    <3>3. ASSUME NEW b \in inHands
          PROVE  b \in held
      <4>1. PICK t \in InHand : buf[t] = b
        OBVIOUS
      <4> QED
        BY <4>1 DEF OwnerInv, Owned, InHandHeld
    <3> HIDE DEF inQueues, inHands
    <3>4. held = inQueues \union inHands
      BY <3>1, <3>2, <3>3
    <3> QED
      BY <3>4 DEF inQueues, inHands
  <2> QED
    BY <2>1
    DEF OwnerInv, Owned, QueuedHeld, InHandHeld, Distinct, BufferOwnership
<1> QED
  BY <1>1, OwnerInvariant, PTL

\* Whoever reads the data of a VDO buffer reads one that is held.
THEOREM CopiesFromHeld == Spec => []CopyFromHeld
<1>1. OwnerInv => CopyFromHeld
  BY DEF OwnerInv, WindowInv, TypeInv, LocalsSet, ObjLabels, Owned, CopyQueued,
         QueuedHeld, CopyFromHeld
<1> QED
  BY <1>1, OwnerInvariant, PTL

-----------------------------------------------------------------------------
(* Recent frames are served                                                *)

\* A handler that runs has not answered.
Pending  == \A t \in Threads : pc[t] # "idle" => reply[t] = "none"
ReplyInv == WindowInv /\ Pending

LEMMA ReplyStep ==
    ASSUME TypeInv, NEW t \in Threads, Handler(t) \/ Begin(t)
    PROVE  /\ \A u \in Threads \ {t} : reply'[u] = reply[u] /\ pc'[u] = pc[u]
           /\ pc'[t] # "idle" =>
                \/ reply'[t] = "none"
                \/ reply'[t] = reply[t] /\ pc[t] # "idle"
<1> DEFINE OthersSame == \A u \in Threads \ {t} : /\ reply'[u] = reply[u]
                                                  /\ pc'[u] = pc[u]
<1> USE DEF TypeInv, TypeOK
<1>1. ASSUME NEW s \in Replies, Return(t, s)
      PROVE  OthersSame /\ pc'[t] = "idle"
  BY <1>1 DEF Return, Goto
<1>2. ASSUME NEW to, Goto(t, to), reply' = reply
      PROVE  OthersSame /\ reply'[t] = reply[t]
  BY <1>2 DEF Goto
<1>3. ASSUME NEW s \in Replies, NEW hit, Find(t, hit, s), pc[t] # "idle"
      PROVE  OthersSame /\ (pc'[t] # "idle" => reply'[t] = reply[t])
  BY <1>1, <1>2, <1>3 DEF Find
<1>4. ASSUME NEW s \in Replies, NEW next, GetBuffer(t, next, s), pc[t] # "idle"
      PROVE  OthersSame /\ (pc'[t] # "idle" => reply'[t] = reply[t])
  BY <1>1, <1>2, <1>4 DEF GetBuffer
<1>5. CASE NsNew(t) \/ NsEmplace(t) \/ NsStart(t) \/ DsErase(t) \/ DsStop(t)
  BY <1>1, <1>2, <1>5
  DEF NsNew, NsEmplace, NsStart, DsErase, DsStop, Replies
<1>6. CASE DsFind(t) \/ GfFind(t) \/ GiFind(t)
  BY <1>3, <1>6 DEF DsFind, GfFind, GiFind, Replies
<1>7. CASE GfGet(t) \/ GiGet(t)
  BY <1>4, <1>7 DEF GfGet, GiGet, Replies
<1>8. CASE GfSaved(t) \/ GfCopy(t) \/ GfUnref(t)
  BY <1>1, <1>2, <1>8 DEF GfSaved, GfCopy, GfUnref, Replies
<1>9. CASE PrLock(t) \/ GiEvict(t) \/ GiSave(t) \/ PrCopy(t)
  BY <1>1, <1>2, <1>9 DEF PrLock, GiEvict, GiSave, PrCopy, Replies
<1>10. CASE Begin(t)
  BY <1>10 DEF Begin, Goto
<1> QED
  BY <1>5, <1>6, <1>7, <1>8, <1>9, <1>10 DEF Handler

LEMMA ReplyInvStep == ReplyInv /\ [Next]_vars => ReplyInv'
<1> SUFFICES ASSUME ReplyInv, [Next]_vars PROVE Pending'
  BY WindowStep DEF ReplyInv
<1>1. ASSUME NEW t \in Threads, Handler(t) \/ Begin(t) PROVE Pending'
  BY <1>1, ReplyStep DEF ReplyInv, Pending, WindowInv
<1>2. CASE UNCHANGED <<pc, reply>>
  BY <1>2 DEF ReplyInv, Pending
<1> QED
  BY <1>1, <1>2 DEF Next, Step, Rest, Crash, vars, threadVars

\* A frame among those that fill the window is in the queue.
LEMMA RecentQueued ==
    ASSUME WindowInv, NEW o \in Streams, NEW j \in DOMAIN issued[o],
           j > Len(issued[o]) - (MaxSavedFrames - 1)
    PROVE  \E k \in DOMAIN buffers[o] : buffers[o][k] = issued[o][j]
<1> DEFINE q == Len(buffers[o])
           n == Len(issued[o])
<1>1. /\ q \in Nat /\ n \in Nat /\ q <= n
      /\ n < MaxSavedFrames - 1 => q = n
      /\ n >= MaxSavedFrames - 1 => q >= MaxSavedFrames - 1
      /\ \A k \in 1 .. q : buffers[o][k] = issued[o][n - q + k]
      /\ DOMAIN buffers[o] = 1 .. q /\ j \in 1 .. n
  BY DEF WindowInv, TypeInv, TypeOK, SavedIsWindow
<1>2. j > n - (MaxSavedFrames - 1)
  OBVIOUS
<1> HIDE DEF q, n
<1> DEFINE k == j - (n - q)
<1>3. k \in 1 .. q /\ n - q + k = j
  BY <1>1, <1>2, ConstantsAssumption
<1> QED
  BY <1>1, <1>3

\* A GetFrame for one of the frames saved last is never answered NOT_FOUND.
THEOREM RecentFramesAnswered == Spec => RecentFramesServed
<1>1. ASSUME ReplyInv, [Next]_vars, NEW t \in Threads,
             pc[t] = "gf_saved", reply'[t] = "NOT_FOUND",
             NEW j \in DOMAIN issued[obj[t]],
             j > Len(issued[obj[t]]) - (MaxSavedFrames - 1)
      PROVE  issued[obj[t]][j].id # call[t].ref
  <2>1. reply[t] = "none"
    BY <1>1 DEF ReplyInv, Pending
  <2>2. GfSaved(t)
    <3>1. PICK u \in Threads : Handler(u) \/ Begin(u)
      BY <1>1, <2>1
      DEF Next, Step, Rest, Crash, vars, threadVars
    <3>2. u = t
      BY <1>1, <2>1, <3>1, ReplyStep DEF ReplyInv, WindowInv
    <3> QED
      BY <1>1, <3>1, <3>2
      DEF Handler, Begin, NsNew, NsEmplace, NsStart, DsFind, DsErase, DsStop,
          GfFind, GfCopy, GfGet, GfUnref, PrLock, GiFind, GiEvict, GiGet,
          GiSave, PrCopy
  <2>3. \A k \in DOMAIN buffers[obj[t]] : buffers[obj[t]][k].id # call[t].ref
    BY <1>1, <2>1, <2>2 DEF GfSaved
  <2>4. obj[t] \in Streams
    BY <1>1 DEF ReplyInv, WindowInv, TypeInv, TypeOK, LocalsSet, ObjLabels
  <2>5. PICK k \in DOMAIN buffers[obj[t]] :
            buffers[obj[t]][k] = issued[obj[t]][j]
    BY <1>1, <2>4, RecentQueued DEF ReplyInv
  <2> QED
    BY <2>3, <2>5
<1>2. Init => ReplyInv
  BY WindowInit DEF ReplyInv, Pending, Init
<1>3. Spec => []ReplyInv
  BY <1>2, ReplyInvStep, PTL DEF Spec
<1>4. ReplyInv /\ [Next]_vars =>
        [\A t \in Threads :
           pc[t] = "gf_saved" /\ reply'[t] = "NOT_FOUND" =>
             \A j \in DOMAIN issued[obj[t]] :
                 j > Len(issued[obj[t]]) - (MaxSavedFrames - 1) =>
                     issued[obj[t]][j].id # call[t].ref]_vars
  BY <1>1
<1> QED
  BY <1>3, <1>4, PTL DEF Spec, RecentFramesServed

-----------------------------------------------------------------------------
(* The saved frame that is found                                            *)

\* Numbers less than the width apart have different remainders.
LEMMA RemaindersDiffer ==
    ASSUME NEW m \in Nat, m > 0, NEW i \in Nat, NEW j \in Nat, i < j, j - i < m
    PROVE  i % m # j % m
<1> SUFFICES ASSUME i % m = j % m PROVE FALSE
  OBVIOUS
<1> DEFINE a == i \div m
           b == j \div m
           r == i % m
<1>1. a \in Int /\ b \in Int /\ r \in Int /\ i = m * a + r /\ j = m * b + r
  OBVIOUS
<1> HIDE DEF a, b, r
<1>2. m * (b - a) = j - i
  BY <1>1
<1>3. CASE b - a >= 1
  <2>1. m * (b - a) >= m
    BY <1>1, <1>3
  <2> QED
    BY <1>2, <2>1
<1>4. CASE b - a <= 0
  <2>1. m * (b - a) <= 0
    BY <1>1, <1>4
  <2> QED
    BY <1>2, <2>1
<1> QED
  BY <1>1, <1>3, <1>4

\* A frame in the queue is the last one saved under its reference, since the queue
\* is shorter than the references are wide.
LEMMA QueuedIsLast ==
    ASSUME WindowInv, NEW o \in Streams, NEW k \in DOMAIN buffers[o]
    PROVE  \E j \in DOMAIN issued[o] :
             /\ issued[o][j] = buffers[o][k]
             /\ \A i \in DOMAIN issued[o] :
                  i > j => issued[o][i].id # buffers[o][k].id
<1> DEFINE q == Len(buffers[o])
           n == Len(issued[o])
           j == n - q + k
<1>1. /\ q \in Nat /\ n \in Nat /\ q <= n /\ q <= MaxSavedFrames
      /\ DOMAIN buffers[o] = 1 .. q /\ DOMAIN issued[o] = 1 .. n
  BY WindowLengths
<1>2. j \in 1 .. n /\ issued[o][j] = buffers[o][k]
  <2>1. \A x \in 1 .. q : buffers[o][x] = issued[o][n - q + x]
    BY WindowFrames, Zenon
  <2>2. k \in 1 .. q
    BY <1>1
  <2> HIDE DEF q, n
  <2>3. j \in 1 .. n
    BY <1>1, <2>2
  <2> QED
    BY <2>1, <2>2, <2>3
<1>3. ASSUME NEW i \in 1 .. n, i > j PROVE issued[o][i].id # issued[o][j].id
  <2>1. /\ issued[o][i].id = i % RefModulus
        /\ issued[o][j].id = j % RefModulus
    BY <1>1, <1>2 DEF WindowInv, RefsInOrder
  <2>2. /\ RefModulus \in Nat /\ RefModulus > 0
        /\ i \in Nat /\ j \in Nat /\ j < i /\ i - j < RefModulus
    <3>1. k \in 1 .. q /\ RefModulus > MaxSavedFrames /\ MaxSavedFrames \in Nat
      BY <1>1, ConstantsAssumption
    <3> HIDE DEF q, n
    <3> QED
      BY <1>1, <1>2, <1>3, <3>1, ConstantsAssumption
  <2> HIDE DEF j, n
  <2>3. j % RefModulus # i % RefModulus
    BY <2>2, RemaindersDiffer
  <2> QED
    BY <2>1, <2>3
<1> QED
  BY <1>1, <1>2, <1>3

\* What GetFrame found for thread t.
FoundLast(t) ==
    pc[t] = "gf_copy" =>
      \E j \in DOMAIN issued[obj[t]] :
        /\ issued[obj[t]][j] = [id |-> call[t].ref, buf |-> buf[t]]
        /\ \A k \in DOMAIN issued[obj[t]] :
             k > j => issued[obj[t]][k].id # call[t].ref

\* Only the search leads to the copy.
LEMMA CopyEntry ==
    ASSUME TypeInv, NEW t \in Threads, Handler(t) \/ Begin(t), pc'[t] = "gf_copy"
    PROVE  GfSaved(t)
<1> USE DEF TypeInv, TypeOK, Goto
<1>1. ASSUME NEW s \in Replies, Return(t, s) PROVE pc'[t] = "idle"
  BY <1>1 DEF Return
<1>2. ASSUME NEW s \in Replies, NEW hit, Find(t, hit, s)
      PROVE  pc'[t] \in {"idle", hit}
  BY <1>1, <1>2 DEF Find
<1>3. CASE NsNew(t) \/ NsEmplace(t) \/ NsStart(t) \/ DsErase(t) \/ DsStop(t)
  BY <1>1, <1>3 DEF NsNew, NsEmplace, NsStart, DsErase, DsStop, Replies
<1>4. CASE DsFind(t) \/ GfFind(t) \/ GiFind(t)
  BY <1>2, <1>4 DEF DsFind, GfFind, GiFind, Replies
<1>5. CASE GfCopy(t) \/ GfUnref(t) \/ PrLock(t) \/ GiEvict(t) \/ GiSave(t)
           \/ PrCopy(t)
  BY <1>1, <1>5 DEF GfCopy, GfUnref, PrLock, GiEvict, GiSave, PrCopy, Replies
<1>6. CASE GfGet(t) \/ GiGet(t)
  BY <1>1, <1>6 DEF GfGet, GiGet, GetBuffer, Replies
<1>7. CASE Begin(t)
  BY <1>7 DEF Begin, Start, Ops
<1> QED
  BY <1>3, <1>4, <1>5, <1>6, <1>7 DEF Handler

LEMMA FoundStep ==
    WindowInv /\ SavedAnswerRight /\ [Next]_vars => SavedAnswerRight'
<1> SUFFICES ASSUME WindowInv, SavedAnswerRight, [Next]_vars,
                    NEW t \in Threads, pc'[t] = "gf_copy"
             PROVE  FoundLast(t)'
  BY DEF SavedAnswerRight, FoundLast
<1>1. TypeInv /\ FoundLast(t)
  BY DEF WindowInv, SavedAnswerRight, FoundLast
<1>2. ASSUME NEW u \in Threads, u # t, Handler(u) \/ Begin(u)
      PROVE  FoundLast(t)'
  <2>1. pc'[t] = pc[t] /\ obj'[t] = obj[t] /\ buf'[t] = buf[t] /\ call'[t] = call[t]
    BY <1>1, <1>2, LocksStep DEF WindowInv, OthersKeep
  <2>2. issued' = issued
    <3>1. mutex = t
      BY <2>1 DEF WindowInv, LocksHeld, MutexLabels
    <3>2. ~GiSave(u)
      BY <1>2, <3>1 DEF WindowInv, LocksHeld, MutexLabels, GiSave
    <3> QED
      BY <1>2, <3>2, QueuesKept DEF GiEvict, queueVars
  <2> QED
    BY <1>1, <2>1, <2>2 DEF FoundLast
<1>3. ASSUME Handler(t) \/ Begin(t) PROVE FoundLast(t)'
  <2>1. GfSaved(t)
    BY <1>1, <1>3, CopyEntry
  <2>2. PICK k \in DOMAIN buffers[obj[t]] :
          /\ buffers[obj[t]][k].id = call[t].ref
          /\ buf' = [buf EXCEPT ![t] = buffers[obj[t]][k].buf]
          /\ UNCHANGED <<call, obj, issued>>
    <3>1. ~(Return(t, "NOT_FOUND"))
      BY <1>1 DEF Return, Goto, TypeInv, TypeOK
    <3> QED
      BY <2>1, <3>1 DEF GfSaved, queueVars
  <2>3. /\ obj[t] \in Streams
        /\ buf'[t] = buffers[obj[t]][k].buf
        /\ buffers[obj[t]][k] \in Frame
    <3>1. obj[t] \in Streams
      BY <1>1, <2>1 DEF GfSaved, TypeInv, LocalsSet, ObjLabels
    <3> QED
      BY <1>1, <2>2, <3>1 DEF TypeInv, TypeOK
  <2>4. buffers[obj[t]][k] = [id |-> call[t].ref, buf |-> buf'[t]]
    BY <2>2, <2>3 DEF Frame
  <2>5. PICK j \in DOMAIN issued[obj[t]] :
          /\ issued[obj[t]][j] = buffers[obj[t]][k]
          /\ \A i \in DOMAIN issued[obj[t]] :
               i > j => issued[obj[t]][i].id # buffers[obj[t]][k].id
    BY <2>2, <2>3, QueuedIsLast, Zenon
  <2>6. call' = call /\ obj' = obj /\ issued' = issued
    BY <2>2
  <2>7. /\ issued'[obj'[t]][j] = [id |-> call'[t].ref, buf |-> buf'[t]]
        /\ \A i \in DOMAIN issued'[obj'[t]] :
             i > j => issued'[obj'[t]][i].id # call'[t].ref
    BY <2>2, <2>4, <2>5, <2>6
  <2>8. j \in DOMAIN issued'[obj'[t]]
    BY <2>6
  <2> QED
    BY <2>7, <2>8, Zenon DEF FoundLast
<1>4. CASE UNCHANGED <<threadVars, issued>>
  BY <1>1, <1>4 DEF FoundLast, threadVars
<1> QED
  BY <1>2, <1>3, <1>4 DEF Next, Step, Rest, Crash, vars, queueVars

\* The saved frame that GetFrame copies is the last one saved under the reference
\* asked for, for any number of threads, however often the references wrap, and
\* even on a stream that was deleted meanwhile.
THEOREM AnswersRight == Spec => []SavedAnswerRight
<1>1. Init => SavedAnswerRight
  BY DEF Init, SavedAnswerRight
<1> QED
  BY <1>1, WindowInvariant, FoundStep, PTL DEF Spec

-----------------------------------------------------------------------------
(* Waiting for a mutex.                                                     *)

\* A mutex is locked only while its owner is between the statements that lock and
\* unlock it, the converse of LocksHeld.
LocksScoped ==
    /\ mutex # None => pc[mutex] \in MutexLabels
    /\ inferenceMutex # None => pc[inferenceMutex] \in InferenceLabels

ScopeInv == TypeInv /\ LocksHeld /\ LocksScoped

\* What thread t owns after its step it needs at the place it goes to.
OwnsInScope(t) ==
    /\ mutex' = t => pc'[t] \in MutexLabels
    /\ inferenceMutex' = t => pc'[t] \in InferenceLabels

LEMMA ScopeStep ==
    ASSUME ScopeInv, NEW t \in Threads, Handler(t) \/ Begin(t)
    PROVE  OwnsInScope(t)
<1> USE DEF ScopeInv, TypeInv, TypeOK, OwnsInScope
<1>1. ASSUME NEW s \in Replies, Return(t, s) PROVE OwnsInScope(t)
  BY <1>1, ConstantsAssumption DEF Return, Released
<1>2. /\ mutex = t => pc[t] \in MutexLabels
      /\ inferenceMutex = t => pc[t] \in InferenceLabels
  BY ConstantsAssumption DEF LocksScoped
<1> USE DEF MutexLabels, InferenceLabels
<1>3. ASSUME NEW s \in Replies, NEW hit \in Labels, Find(t, hit, s),
             \/ pc[t] \in {"ds_find", "gf_find"}
             \/ pc[t] = "gi_find" /\ hit = "gi_evict"
      PROVE  OwnsInScope(t)
  BY <1>1, <1>2, <1>3 DEF Find, Goto
<1>4. ASSUME NEW s \in Replies, NEW next \in Labels, GetBuffer(t, next, s),
             \/ pc[t] = "gf_get"
             \/ pc[t] = "gi_get" /\ next = "gi_save"
      PROVE  OwnsInScope(t)
  BY <1>1, <1>2, <1>4 DEF GetBuffer, Goto
<1>5. CASE NsNew(t) \/ NsEmplace(t) \/ NsStart(t)
  BY <1>1, <1>2, <1>5 DEF NsNew, NsEmplace, NsStart, Replies
<1>6. CASE DsFind(t) \/ GiFind(t)
  BY <1>3, <1>6 DEF DsFind, GiFind, Replies, Labels
<1>7. CASE GfFind(t)
  BY <1>3, <1>7 DEF GfFind, Replies, Labels
<1>8. CASE DsErase(t) \/ DsStop(t)
  BY <1>1, <1>2, <1>8 DEF DsErase, DsStop, Replies
<1>9. CASE GfSaved(t)
  BY <1>1, <1>2, <1>9 DEF GfSaved, Goto, Replies
<1>10. CASE GfCopy(t) \/ GfUnref(t)
  BY <1>1, <1>10 DEF GfCopy, GfUnref, Replies
<1>11. CASE GfGet(t) \/ GiGet(t)
  BY <1>4, <1>11 DEF GfGet, GiGet, Replies, Labels
<1>12. CASE PrLock(t)
  BY <1>2, <1>12 DEF PrLock, Goto
<1>13. CASE GiEvict(t)
  BY <1>2, <1>13 DEF GiEvict, Goto
<1>14. CASE GiSave(t)
  BY <1>1, <1>2, <1>14, ConstantsAssumption DEF GiSave, Goto, Released, Replies
<1>15. CASE PrCopy(t)
  BY <1>1, <1>2, <1>15 DEF PrCopy, Goto, Replies
<1>16. CASE Begin(t)
  BY <1>2, <1>16 DEF Begin
<1> QED
  BY <1>5, <1>6, <1>7, <1>8, <1>9, <1>10, <1>11, <1>12, <1>13, <1>14, <1>15,
     <1>16 DEF Handler

LEMMA ScopeInvStep == ScopeInv /\ [Next]_vars => ScopeInv'
<1> SUFFICES ASSUME ScopeInv, [Next]_vars PROVE ScopeInv'
  OBVIOUS
<1>1. TypeInv'
  BY TypeStep DEF ScopeInv
<1>2. ASSUME NEW t \in Threads, Handler(t) \/ Begin(t)
      PROVE  LocksHeld' /\ LocksScoped'
  <2>1. /\ OthersKeep(t) /\ LocksHeld'
        /\ LockStep(mutex, mutex', t)
        /\ LockStep(inferenceMutex, inferenceMutex', t)
    BY <1>2, LocksStep DEF ScopeInv
  <2>2. OwnsInScope(t)
    BY <1>2, ScopeStep
  <2>3. mutex' \in Threads \union {None} /\ inferenceMutex' \in Threads \union {None}
    BY <1>1 DEF TypeInv, TypeOK
  <2>4. mutex' # None => pc'[mutex'] \in MutexLabels
    BY <2>1, <2>2, <2>3 DEF OwnsInScope, OthersKeep, LockStep, ScopeInv, LocksScoped
  <2>5. inferenceMutex' # None => pc'[inferenceMutex'] \in InferenceLabels
    BY <2>1, <2>2, <2>3 DEF OwnsInScope, OthersKeep, LockStep, ScopeInv, LocksScoped
  <2> QED
    BY <2>1, <2>4, <2>5 DEF LocksScoped
<1>3. CASE UNCHANGED <<threadVars, mutex, inferenceMutex>>
  BY <1>1, <1>3 DEF threadVars, ScopeInv, LocksHeld, LocksScoped
<1> QED
  BY <1>1, <1>2, <1>3 DEF ScopeInv, Next, Step, Rest, Crash, vars

\* No handler waits for a mutex in a circle or for one whose owner has returned,
\* for any number of threads. This is the part of "every call returns" that needs
\* no fairness: with it, what is left is that the owner goes on.
THEOREM LocksFree == Spec => []NoLockCycle
<1>1. Init => ScopeInv
  <2>1. ASSUME Init PROVE LocksHeld /\ LocksScoped
    BY <2>1 DEF Init, LocksHeld, LocksScoped, MutexLabels, InferenceLabels
  <2> QED
    BY <2>1, TypeInit DEF ScopeInv
<1>2. ScopeInv => NoLockCycle
  <2> SUFFICES ASSUME ScopeInv, NEW t \in Threads, WaitsForMutex(t)
               PROVE  /\ Holder(t) \in Busy
                      /\ WaitsForMutex(Holder(t)) =>
                           /\ Holder(Holder(t)) \in Busy
                           /\ ~WaitsForMutex(Holder(Holder(t)))
    BY DEF NoLockCycle
  <2>1. mutex # None => mutex \in Busy /\ ~WaitsForMutex(mutex)
    BY DEF ScopeInv, TypeInv, TypeOK, LocksScoped, MutexLabels, Busy, WaitsForMutex
  <2>2. inferenceMutex # None =>
          /\ inferenceMutex \in Busy
          /\ pc[inferenceMutex] # "pr_lock"
          /\ WaitsForMutex(inferenceMutex) => mutex # None
    BY DEF ScopeInv, TypeInv, TypeOK, LocksScoped, InferenceLabels, Busy,
           WaitsForMutex
  <2>3. CASE pc[t] = "pr_lock"
    BY <2>1, <2>2, <2>3 DEF WaitsForMutex, Holder
  <2>4. CASE pc[t] # "pr_lock"
    BY <2>1, <2>4 DEF WaitsForMutex, Holder
  <2> QED
    BY <2>3, <2>4
<1> QED
  BY <1>1, <1>2, ScopeInvStep, PTL DEF Spec
=============================================================================
