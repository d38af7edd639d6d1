-------------------------- MODULE StreamLifeProofs --------------------------
(***************************************************************************)
(* Theorems about the life of a stream in VideoCapture: its VDO object,    *)
(* its id and its entry in the map, which are made and taken down in       *)
(* separate steps by handlers that run at the same time.                   *)
(***************************************************************************)
EXTENDS VideoCaptureProofs

-----------------------------------------------------------------------------
(* The map and the VDO streams. This part holds whatever clients do, though *)
(* a NewStream may start a stream that was released meanwhile.             *)

Live == {o \in Streams : vdo[o] \in {"created", "started"}}

\* An entry of the map is of a live stream that has the entry's id.
Mapped ==
    \A i \in StreamIds :
        streams[i] # None => streams[i] \in Live /\ vdoId[streams[i]] = i

\* A stream in a handler's hand was made.
Born == \A t \in Threads : obj[t] \in Streams => vdo[obj[t]] # "unborn"

\* A stream that NewStream has made and not put into the map is in no other
\* hand, and its id is in no other use.
Newborn(t) ==
    pc[t] = "ns_emplace" =>
        /\ vdo[obj[t]] = "created"
        /\ vdoId[obj[t]] = call[t].id
        /\ streams[call[t].id] = None
        /\ \A i \in StreamIds : streams[i] # obj[t]
        /\ \A u \in Threads \ {t} :
             /\ obj[u] # obj[t]
             /\ pc[u] = "ns_emplace" => call[u].id # call[t].id

\* DeleteStream has erased the entry of a stream before it releases it.
Deleting(t) ==
    /\ pc[t] = "ds_erase" => vdoId[obj[t]] = call[t].id
    /\ pc[t] = "ds_stop" => \A i \in StreamIds : streams[i] # obj[t]

LifeInv ==
    /\ Mapped
    /\ Born
    /\ \A t \in Threads : Newborn(t) /\ Deleting(t)

MapInv == TypeInv /\ LocksHeld /\ LifeInv

\* A handler's step that leaves the streams, their ids and the map alone: it
\* returns, goes on with the stream it finds in the map, goes to look for one, or
\* goes on with the stream it has.
UseLabels == {"ds_erase", "gf_saved", "gf_copy", "gf_get", "gf_unref",
              "gi_evict", "gi_get", "gi_save", "pr_copy"}
Quiet(t) ==
    /\ UNCHANGED <<streams, vdo, vdoId, known>>
    /\ \/ pc'[t] = "idle" /\ obj'[t] = None
       \/ /\ call'[t] = call[t]
          /\ \/ /\ pc[t] \in MapFind /\ pc'[t] \in UseLabels
                /\ obj'[t] = streams[call[t].id] /\ obj'[t] # None
                /\ pc'[t] = "ds_erase" => pc[t] = "ds_find"
             \/ pc'[t] = "gi_find" /\ obj'[t] \in {obj[t], None}
             \/ /\ {pc[t], pc'[t]} \subseteq UseLabels \ {"ds_erase"}
                /\ obj'[t] = obj[t]

LEMMA QuietReturn ==
    ASSUME TypeInv, NEW t \in Threads, NEW s \in Replies, Return(t, s)
    PROVE  pc'[t] = "idle" /\ obj'[t] = None
BY DEF Return, Goto, TypeInv, TypeOK

LEMMA QuietFind ==
    ASSUME TypeInv, NEW t \in Threads, NEW s \in Replies,
           pc[t] \in MapFind, NEW hit \in UseLabels, hit = "ds_erase" => pc[t] = "ds_find",
           Find(t, hit, s)
    PROVE  Quiet(t)
<1>1. UNCHANGED <<streams, vdo, vdoId, known>>
  BY DEF Find, vdoVars, clientVars
<1>2. CASE Return(t, s)
  BY <1>1, <1>2, QuietReturn DEF Quiet
<1>3. CASE /\ streams[call[t].id] # None
           /\ Goto(t, hit)
           /\ obj' = [obj EXCEPT ![t] = streams[call[t].id]]
           /\ call' = call
  <2>1. pc'[t] = hit /\ obj'[t] = streams[call[t].id] /\ call'[t] = call[t]
    BY <1>3 DEF Goto, TypeInv, TypeOK
  <2> QED
    BY <1>1, <1>3, <2>1 DEF Quiet
<1> QED
  BY <1>2, <1>3 DEF Find

LEMMA QuietGet ==
    ASSUME TypeInv, NEW t \in Threads, NEW s \in Replies,
           NEW next \in UseLabels \ {"ds_erase"},
           pc[t] \in UseLabels \ {"ds_erase"}, GetBuffer(t, next, s)
    PROVE  Quiet(t)
<1>1. UNCHANGED <<streams, vdo, vdoId, known>>
  BY DEF GetBuffer, clientVars
<1>2. CASE Return(t, s)
  BY <1>1, <1>2, QuietReturn DEF Quiet
<1>3. CASE Goto(t, next) /\ UNCHANGED <<call, obj>>
  <2>1. pc'[t] = next
    BY <1>3 DEF Goto, TypeInv, TypeOK
  <2> QED
    BY <1>1, <1>3, <2>1 DEF Quiet
<1> QED
  BY <1>2, <1>3 DEF GetBuffer

\* Which steps of a handler make, start, map, unmap or release a stream.
LEMMA HandlerShapes ==
    ASSUME TypeInv, NEW t \in Threads, Handler(t)
    PROVE  \/ NsNew(t) \/ NsEmplace(t) \/ NsStart(t) \/ DsErase(t) \/ DsStop(t)
           \/ Quiet(t)
<1>1. CASE DsFind(t) \/ GiFind(t)
  BY <1>1, QuietFind DEF DsFind, GiFind, UseLabels, Replies, MapFind
<1>2. CASE GfFind(t)
  <2> DEFINE hit == IF call[t].ref > 0 THEN "gf_saved" ELSE "gf_get"
  <2>1. hit \in UseLabels /\ hit # "ds_erase"
    BY DEF UseLabels
  <2>2. Find(t, hit, "FAILED_PRECONDITION") /\ "FAILED_PRECONDITION" \in Replies
      /\ pc[t] \in MapFind /\ pc[t] # "ds_find"
    BY <1>2 DEF GfFind, Replies, MapFind
  <2> HIDE DEF hit
  <2> QED
    BY <2>1, <2>2, QuietFind
<1>3. CASE GfSaved(t)
  <2>1. UNCHANGED <<streams, vdo, vdoId, known>>
    BY <1>3 DEF GfSaved, vdoVars, clientVars
  <2>2. CASE Return(t, "NOT_FOUND")
    BY <2>1, <2>2, QuietReturn DEF Quiet, Replies
  <2>3. CASE Goto(t, "gf_copy") /\ UNCHANGED <<call, obj>>
    <3>1. pc'[t] = "gf_copy" /\ pc[t] = "gf_saved"
      BY <1>3, <2>3 DEF GfSaved, Goto, TypeInv, TypeOK
    <3> QED
      BY <2>1, <2>3, <3>1 DEF Quiet, UseLabels
  <2> QED
    BY <1>3, <2>2, <2>3 DEF GfSaved
<1>4. CASE GfCopy(t)
  BY <1>4, QuietReturn DEF GfCopy, Quiet, Replies, vdoVars, clientVars
<1>5. CASE GfUnref(t)
  BY <1>5, QuietReturn DEF GfUnref, Quiet, Replies, clientVars
<1>6. CASE GfGet(t) \/ GiGet(t)
  BY <1>6, QuietGet DEF GfGet, GiGet, UseLabels, Replies
<1>7. CASE PrLock(t)
  BY <1>7 DEF PrLock, Goto, Quiet, vdoVars, clientVars, TypeInv, TypeOK
<1>8. CASE GiEvict(t)
  <2>1. pc[t] = "gi_evict" /\ pc'[t] = "gi_get"
    BY <1>8 DEF GiEvict, Goto, TypeInv, TypeOK
  <2> QED
    BY <1>8, <2>1 DEF GiEvict, Quiet, UseLabels, clientVars
<1>9. CASE GiSave(t)
  <2>1. UNCHANGED <<streams, vdo, vdoId, known>>
    BY <1>9 DEF GiSave, clientVars
  <2>2. CASE Return(t, "CANCELLED")
    BY <2>1, <2>2, QuietReturn DEF Quiet, Replies
  <2>3. CASE Goto(t, "pr_copy") /\ UNCHANGED <<call, obj>>
    <3>1. pc'[t] = "pr_copy" /\ pc[t] = "gi_save"
      BY <1>9, <2>3 DEF GiSave, Goto, TypeInv, TypeOK
    <3> QED
      BY <2>1, <2>3, <3>1 DEF Quiet, UseLabels
  <2> QED
    BY <1>9, <2>2, <2>3 DEF GiSave
<1>10. CASE PrCopy(t)
  <2>1. UNCHANGED <<streams, vdo, vdoId, known>>
    BY <1>10 DEF PrCopy, vdoVars
  <2>2. CASE Return(t, "OK") \/ Return(t, "CANCELLED")
    BY <2>1, <2>2, QuietReturn DEF Quiet, Replies
  <2>3. CASE Goto(t, "gi_find") /\ obj' = [obj EXCEPT ![t] = None] /\ call' = call
    <3>1. pc'[t] = "gi_find" /\ obj'[t] = None
      BY <2>3 DEF Goto, TypeInv, TypeOK
    <3> QED
      BY <2>1, <2>3, <3>1 DEF Quiet
  <2> QED
    BY <1>10, <2>2, <2>3 DEF PrCopy
<1> QED
  BY <1>1, <1>2, <1>3, <1>4, <1>5, <1>6, <1>7, <1>8, <1>9, <1>10 DEF Handler

\* The steps that do not touch the streams.
LEMMA QuietLife ==
    ASSUME MapInv, NEW t \in Threads, OthersKeep(t), Quiet(t)
    PROVE  LifeInv'
<1>1. UNCHANGED <<streams, vdo, vdoId>>
  BY DEF Quiet
<1>2. Mapped'
  BY <1>1 DEF MapInv, LifeInv, Mapped, Live
<1>3. pc'[t] \notin {"ns_emplace", "ds_stop"}
  BY DEF Quiet, UseLabels
<1>4. obj'[t] \in {None, obj[t]}
      \/ (call[t].id \in StreamIds /\ obj'[t] = streams[call[t].id])
  <2>1. CASE call[t].id \in StreamIds
    BY <2>1 DEF Quiet
  <2>2. CASE pc[t] \in {"idle", "ns_new"}
    BY <2>2 DEF Quiet, UseLabels, MapFind
  <2> QED
    BY <2>1, <2>2 DEF MapInv, TypeInv, LocalsSet
<1>5. Born'
  <2>1. ASSUME NEW u \in Threads, obj'[u] \in Streams PROVE vdo[obj'[u]] # "unborn"
    <3>1. CASE u # t
      BY <2>1, <3>1 DEF OthersKeep, MapInv, LifeInv, Born
    <3>2. CASE u = t
      BY <2>1, <3>2, <1>4, ConstantsAssumption
      DEF MapInv, LifeInv, Born, Mapped, Live
    <3> QED
      BY <3>1, <3>2
  <2> QED
    BY <1>1, <2>1 DEF Born
<1>6. ASSUME NEW u \in Threads PROVE Newborn(u)' /\ Deleting(u)'
  <2>1. CASE u = t
    <3>1. pc'[t] = "ds_erase" => vdoId[obj'[t]] = call'[t].id
      BY <1>3 DEF Quiet, MapInv, LifeInv, Mapped, TypeInv, LocalsSet
    <3> QED
      BY <1>1, <1>3, <2>1, <3>1 DEF Newborn, Deleting
  <2>2. CASE u # t
    <3>1. /\ pc'[u] = pc[u] /\ obj'[u] = obj[u] /\ call'[u] = call[u]
      BY <2>2 DEF OthersKeep
    <3>2. Deleting(u)'
      BY <1>1, <3>1 DEF MapInv, LifeInv, Deleting
    <3>3. ASSUME pc[u] = "ns_emplace", NEW w \in Threads \ {u}
          PROVE  /\ obj'[w] # obj[u]
                 /\ pc'[w] = "ns_emplace" => call'[w].id # call[u].id
      <4>1. obj[u] \in Streams
        BY <3>3 DEF MapInv, TypeInv, LocalsSet, ObjLabels
      <4>2. CASE w # t
        BY <3>3, <4>2 DEF MapInv, LifeInv, Newborn, OthersKeep
      <4>3. CASE w = t
        BY <1>3, <1>4, <3>3, <4>1, <4>3, ConstantsAssumption
        DEF MapInv, LifeInv, Newborn
      <4> QED
        BY <4>2, <4>3
    <3>4. Newborn(u)'
      BY <1>1, <3>1, <3>3 DEF MapInv, LifeInv, Newborn
    <3> QED
      BY <3>2, <3>4
  <2> QED
    BY <2>1, <2>2
<1> QED
  BY <1>2, <1>5, <1>6 DEF LifeInv

\* NewStream: VDO makes a stream under an id that no other live stream has.
LEMMA NewLife ==
    ASSUME MapInv, NEW t \in Threads, OthersKeep(t), NsNew(t)
    PROVE  LifeInv'
<1>1. CASE Return(t, "INTERNAL") /\ UNCHANGED <<vdo, vdoId>>
  <2>1. Quiet(t)
    BY <1>1, QuietReturn DEF NsNew, Quiet, MapInv, Replies, clientVars
  <2> QED
    BY <2>1, QuietLife
<1>2. CASE \E o \in Streams, i \in FreeIds :
              /\ vdo[o] = "unborn"
              /\ vdo' = [vdo EXCEPT ![o] = "created"]
              /\ vdoId' = [vdoId EXCEPT ![o] = i]
              /\ call' = [call EXCEPT ![t].id = i]
              /\ obj' = [obj EXCEPT ![t] = o]
              /\ Goto(t, "ns_emplace")
  <2>1. PICK o \in Streams, i \in FreeIds :
              /\ vdo[o] = "unborn"
              /\ vdo' = [vdo EXCEPT ![o] = "created"]
              /\ vdoId' = [vdoId EXCEPT ![o] = i]
              /\ call' = [call EXCEPT ![t].id = i]
              /\ obj' = [obj EXCEPT ![t] = o]
              /\ Goto(t, "ns_emplace")
    BY <1>2
  <2>2. streams' = streams
    BY DEF NsNew
  <2>3. /\ i \in StreamIds
        /\ \A p \in Streams : vdo[p] # "freed" => vdoId[p] # i
    BY DEF FreeIds
  <2>4. pc'[t] = "ns_emplace" /\ obj'[t] = o /\ call'[t].id = i
    BY <2>1 DEF Goto, MapInv, TypeInv, TypeOK
  <2>5. /\ vdo'[o] = "created" /\ vdoId'[o] = i
        /\ \A p \in Streams \ {o} : vdo'[p] = vdo[p] /\ vdoId'[p] = vdoId[p]
    BY <2>1 DEF MapInv, TypeInv, TypeOK
  <2>6. /\ \A j \in StreamIds : streams[j] # o /\ streams[j] \in Streams \union {None}
        /\ streams[i] = None
    <3>1. \A j \in StreamIds : streams[j] \in Streams \union {None}
      BY DEF MapInv, TypeInv, TypeOK
    <3> QED
      BY <2>1, <2>3, <3>1, ConstantsAssumption DEF MapInv, LifeInv, Mapped, Live
  <2>7. \A u \in Threads : obj[u] # o
    BY <2>1 DEF MapInv, LifeInv, Born
  <2>8. Mapped'
    BY <2>2, <2>5, <2>6 DEF MapInv, LifeInv, Mapped, Live
  <2>9. Born'
    BY <2>4, <2>5, <2>7 DEF MapInv, LifeInv, Born, OthersKeep
  <2>10. ASSUME NEW u \in Threads, u # t
         PROVE  /\ pc'[u] = pc[u] /\ obj'[u] = obj[u] /\ call'[u] = call[u]
                /\ pc[u] \in {"ns_emplace", "ds_erase", "ds_stop"} =>
                     obj[u] \in Streams /\ obj[u] # o
                /\ pc[u] = "ns_emplace" => call[u].id # i
    <3>1. pc'[u] = pc[u] /\ obj'[u] = obj[u] /\ call'[u] = call[u]
      BY <2>10 DEF OthersKeep
    <3>2. pc[u] \in {"ns_emplace", "ds_erase", "ds_stop"} => obj[u] \in Streams
      BY DEF MapInv, TypeInv, LocalsSet, ObjLabels
    <3>3. pc[u] = "ns_emplace" =>
            vdo[obj[u]] = "created" /\ vdoId[obj[u]] = call[u].id
      BY DEF MapInv, LifeInv, Newborn
    <3> QED
      BY <2>3, <2>7, <3>1, <3>2, <3>3
  <2>11. Newborn(t)' /\ Deleting(t)'
    BY <2>2, <2>4, <2>5, <2>6, <2>7, <2>10 DEF Newborn, Deleting
  <2>12. ASSUME NEW u \in Threads, u # t PROVE Newborn(u)' /\ Deleting(u)'
    <3>1. Deleting(u)'
      BY <2>2, <2>5, <2>10, <2>12 DEF MapInv, LifeInv, Deleting
    <3>2. Newborn(u)'
      <4> SUFFICES ASSUME pc'[u] = "ns_emplace" PROVE Newborn(u)'
        BY DEF Newborn
      <4>1. pc[u] = "ns_emplace" /\ obj'[u] = obj[u] /\ call'[u] = call[u]
            /\ obj[u] \in Streams /\ obj[u] # o /\ call[u].id # i
        BY <2>10, <2>12
      <4>2. ASSUME NEW w \in Threads \ {u}
            PROVE  /\ obj'[w] # obj[u]
                   /\ pc'[w] = "ns_emplace" => call'[w].id # call[u].id
        <5>1. CASE w = t
          BY <2>4, <4>1, <5>1
        <5>2. CASE w # t
          BY <4>1, <5>2, <2>10 DEF MapInv, LifeInv, Newborn
        <5> QED
          BY <5>1, <5>2
      <4> QED
        BY <2>2, <2>5, <4>1, <4>2 DEF MapInv, LifeInv, Newborn
    <3> QED
      BY <3>1, <3>2
  <2> QED
    BY <2>8, <2>9, <2>11, <2>12 DEF LifeInv
<1> QED
  BY <1>1, <1>2 DEF NsNew

\* emplace puts the stream under its own id or, in a race, nowhere.
LEMMA EmplaceLife ==
    ASSUME MapInv, NEW t \in Threads, OthersKeep(t), NsEmplace(t)
    PROVE  LifeInv'
<1>1. /\ pc[t] = "ns_emplace" /\ pc'[t] = "ns_start"
      /\ obj' = obj /\ call' = call /\ vdo' = vdo /\ vdoId' = vdoId
      /\ obj[t] \in Streams /\ call[t].id \in StreamIds
  BY DEF NsEmplace, Goto, vdoVars, MapInv, TypeInv, TypeOK, LocalsSet, ObjLabels
<1>2. /\ vdo[obj[t]] = "created" /\ vdoId[obj[t]] = call[t].id
      /\ \A u \in Threads \ {t} :
           obj[u] # obj[t] /\ (pc[u] = "ns_emplace" => call[u].id # call[t].id)
  BY <1>1 DEF MapInv, LifeInv, Newborn
<1>3. \A i \in StreamIds :
        \/ streams'[i] = streams[i]
        \/ i = call[t].id /\ streams'[i] = obj[t]
  BY <1>1 DEF NsEmplace, MapInv, TypeInv, TypeOK
<1>4. Mapped'
  BY <1>1, <1>2, <1>3 DEF MapInv, LifeInv, Mapped, Live
<1>5. Born'
  BY <1>1 DEF MapInv, LifeInv, Born
<1>6. Newborn(t)' /\ Deleting(t)'
  BY <1>1 DEF Newborn, Deleting
<1>7. ASSUME NEW u \in Threads, u # t PROVE Newborn(u)' /\ Deleting(u)'
  <2>1. pc'[u] = pc[u] /\ obj[u] # obj[t]
    BY <1>2, <1>7 DEF OthersKeep
  <2>2. Deleting(u)'
    BY <1>1, <1>3, <2>1 DEF MapInv, LifeInv, Deleting
  <2>3. Newborn(u)'
    <3> SUFFICES ASSUME pc'[u] = "ns_emplace" PROVE Newborn(u)'
      BY DEF Newborn
    <3>1. /\ call[u].id \in StreamIds /\ call[u].id # call[t].id
          /\ vdo[obj[u]] = "created" /\ vdoId[obj[u]] = call[u].id
          /\ streams[call[u].id] = None
          /\ \A i \in StreamIds : streams[i] # obj[u]
          /\ \A w \in Threads \ {u} :
               obj[w] # obj[u] /\ (pc[w] = "ns_emplace" => call[w].id # call[u].id)
      BY <1>2, <1>7, <2>1 DEF MapInv, TypeInv, LocalsSet, LifeInv, Newborn
    <3>2. \A w \in Threads \ {u} : pc'[w] = "ns_emplace" => pc[w] = "ns_emplace"
      BY <1>1 DEF OthersKeep
    <3> QED
      BY <1>1, <1>3, <2>1, <3>1, <3>2 DEF Newborn
  <2> QED
    BY <2>2, <2>3
<1> QED
  BY <1>4, <1>5, <1>6, <1>7 DEF LifeInv

\* A stream starts, alive or released; it is not one that waits to be mapped.
LEMMA StartLife ==
    ASSUME MapInv, NEW t \in Threads, OthersKeep(t), NsStart(t)
    PROVE  LifeInv'
<1>1. /\ pc[t] = "ns_start" /\ pc'[t] = "idle" /\ obj'[t] = None
      /\ streams' = streams /\ vdoId' = vdoId
      /\ obj[t] \in Streams
  BY QuietReturn DEF NsStart, MapInv, TypeInv, LocalsSet, ObjLabels, Replies
<1>2. \A o \in Streams : vdo'[o] = vdo[o] \/ (o = obj[t] /\ vdo'[o] = "started")
  BY <1>1 DEF NsStart, MapInv, TypeInv, TypeOK
<1>3. Mapped'
  BY <1>1, <1>2 DEF MapInv, LifeInv, Mapped, Live
<1>4. Born'
  <2> SUFFICES ASSUME NEW u \in Threads, obj'[u] \in Streams
               PROVE  vdo'[obj'[u]] # "unborn"
    BY DEF Born
  <2>1. u # t
    BY <1>1, ConstantsAssumption
  <2> QED
    BY <1>2, <2>1 DEF MapInv, LifeInv, Born, OthersKeep
<1>5. Newborn(t)' /\ Deleting(t)'
  BY <1>1 DEF Newborn, Deleting
<1>6. ASSUME NEW u \in Threads, u # t PROVE Newborn(u)' /\ Deleting(u)'
  <2>1. pc'[u] = pc[u] /\ obj'[u] = obj[u] /\ call'[u] = call[u]
    BY <1>6 DEF OthersKeep
  <2>2. Deleting(u)'
    BY <1>1, <2>1 DEF MapInv, LifeInv, Deleting
  <2>3. Newborn(u)'
    <3> SUFFICES ASSUME pc'[u] = "ns_emplace" PROVE Newborn(u)'
      BY DEF Newborn
    <3>1. /\ obj[u] \in Streams
          /\ vdo[obj[u]] = "created" /\ vdoId[obj[u]] = call[u].id
          /\ streams[call[u].id] = None
          /\ \A i \in StreamIds : streams[i] # obj[u]
          /\ \A w \in Threads \ {u} :
               obj[w] # obj[u] /\ (pc[w] = "ns_emplace" => call[w].id # call[u].id)
      BY <2>1 DEF MapInv, TypeInv, LocalsSet, ObjLabels, LifeInv, Newborn
    <3>2. vdo'[obj[u]] = "created"
      BY <1>2, <1>6, <3>1
    <3>3. \A w \in Threads \ {u} :
            obj'[w] # obj[u] /\ (pc'[w] = "ns_emplace" => call'[w].id # call[u].id)
      BY <1>1, <3>1, ConstantsAssumption DEF OthersKeep
    <3> QED
      BY <1>1, <2>1, <3>1, <3>2, <3>3 DEF Newborn
  <2> QED
    BY <2>2, <2>3
<1> QED
  BY <1>3, <1>4, <1>5, <1>6 DEF LifeInv

\* After erase, no entry is of the stream.
LEMMA EraseLife ==
    ASSUME MapInv, NEW t \in Threads, OthersKeep(t), DsErase(t)
    PROVE  LifeInv'
<1>1. /\ pc[t] = "ds_erase" /\ pc'[t] = "ds_stop"
      /\ obj' = obj /\ call' = call /\ vdo' = vdo /\ vdoId' = vdoId
      /\ obj[t] \in Streams /\ call[t].id \in StreamIds
  BY DEF DsErase, Goto, vdoVars, MapInv, TypeInv, TypeOK, LocalsSet, ObjLabels
<1>2. \A i \in StreamIds :
        /\ streams'[i] \in {streams[i], None}
        /\ i = call[t].id => streams'[i] # obj[t]
  BY <1>1, ConstantsAssumption DEF DsErase, MapInv, TypeInv, TypeOK
<1>3. Mapped'
  BY <1>1, <1>2 DEF MapInv, LifeInv, Mapped, Live
<1>4. Born'
  BY <1>1 DEF MapInv, LifeInv, Born
<1>5. Newborn(t)' /\ Deleting(t)'
  <2>1. vdoId[obj[t]] = call[t].id
    BY <1>1 DEF MapInv, LifeInv, Deleting
  <2>2. \A i \in StreamIds : streams'[i] # obj[t]
    BY <1>1, <1>2, <2>1, ConstantsAssumption DEF MapInv, LifeInv, Mapped
  <2> QED
    BY <1>1, <2>2 DEF Newborn, Deleting
<1>6. ASSUME NEW u \in Threads, u # t PROVE Newborn(u)' /\ Deleting(u)'
  <2>1. pc'[u] = pc[u]
    BY <1>6 DEF OthersKeep
  <2>2. pc[u] \in {"ds_stop", "ns_emplace"} => obj[u] \in Streams
    BY DEF MapInv, TypeInv, LocalsSet, ObjLabels
  <2>3. Deleting(u)'
    BY <1>1, <1>2, <2>1, <2>2, ConstantsAssumption DEF MapInv, LifeInv, Deleting
  <2>4. Newborn(u)'
    <3> SUFFICES ASSUME pc'[u] = "ns_emplace" PROVE Newborn(u)'
      BY DEF Newborn
    <3>1. /\ call[u].id \in StreamIds /\ obj[u] \in Streams
          /\ vdo[obj[u]] = "created" /\ vdoId[obj[u]] = call[u].id
          /\ streams[call[u].id] = None
          /\ \A i \in StreamIds : streams[i] # obj[u]
          /\ \A w \in Threads \ {u} :
               obj[w] # obj[u] /\ (pc[w] = "ns_emplace" => call[w].id # call[u].id)
      BY <2>1, <2>2 DEF MapInv, TypeInv, LocalsSet, LifeInv, Newborn
    <3>2. \A w \in Threads \ {u} : pc'[w] = "ns_emplace" => pc[w] = "ns_emplace"
      BY <1>1 DEF OthersKeep
    <3> QED
      BY <1>1, <1>2, <2>1, <3>1, <3>2, ConstantsAssumption DEF Newborn
  <2> QED
    BY <2>3, <2>4
<1> QED
  BY <1>3, <1>4, <1>5, <1>6 DEF LifeInv

\* A stream that is released is in no entry and not in the hand of a NewStream
\* that has yet to put it there.
LEMMA StopLife ==
    ASSUME MapInv, NEW t \in Threads, OthersKeep(t), DsStop(t)
    PROVE  LifeInv'
<1>1. /\ pc[t] = "ds_stop" /\ pc'[t] = "idle" /\ obj'[t] = None
      /\ streams' = streams /\ vdoId' = vdoId
      /\ obj[t] \in Streams
  BY QuietReturn DEF DsStop, MapInv, TypeInv, LocalsSet, ObjLabels, Replies
<1>2. \A o \in Streams : vdo'[o] = IF o = obj[t] THEN "freed" ELSE vdo[o]
  BY <1>1 DEF DsStop, MapInv, TypeInv, TypeOK
<1>3. Mapped'
  <2>1. \A i \in StreamIds : streams[i] # obj[t]
    BY <1>1 DEF MapInv, LifeInv, Deleting
  <2> QED
    BY <1>1, <1>2, <2>1 DEF MapInv, LifeInv, Mapped, Live
<1>4. Born'
  <2> SUFFICES ASSUME NEW u \in Threads, obj'[u] \in Streams
               PROVE  vdo'[obj'[u]] # "unborn"
    BY DEF Born
  <2>1. u # t
    BY <1>1, ConstantsAssumption
  <2> QED
    BY <1>2, <2>1 DEF MapInv, LifeInv, Born, OthersKeep
<1>5. Newborn(t)' /\ Deleting(t)'
  BY <1>1 DEF Newborn, Deleting
<1>6. ASSUME NEW u \in Threads, u # t PROVE Newborn(u)' /\ Deleting(u)'
  <2>1. pc'[u] = pc[u] /\ obj'[u] = obj[u] /\ call'[u] = call[u]
    BY <1>6 DEF OthersKeep
  <2>2. Deleting(u)'
    BY <1>1, <2>1 DEF MapInv, LifeInv, Deleting
  <2>3. Newborn(u)'
    <3> SUFFICES ASSUME pc'[u] = "ns_emplace" PROVE Newborn(u)'
      BY DEF Newborn
    <3>1. /\ obj[u] \in Streams
          /\ vdo[obj[u]] = "created" /\ vdoId[obj[u]] = call[u].id
          /\ streams[call[u].id] = None
          /\ \A i \in StreamIds : streams[i] # obj[u]
          /\ \A w \in Threads \ {u} :
               obj[w] # obj[u] /\ (pc[w] = "ns_emplace" => call[w].id # call[u].id)
      BY <2>1 DEF MapInv, TypeInv, LocalsSet, ObjLabels, LifeInv, Newborn
    <3>2. vdo'[obj[u]] = "created"
      BY <1>2, <1>6, <3>1
    <3>3. \A w \in Threads \ {u} :
            obj'[w] # obj[u] /\ (pc'[w] = "ns_emplace" => call'[w].id # call[u].id)
      BY <1>1, <3>1, ConstantsAssumption DEF OthersKeep
    <3> QED
      BY <1>1, <2>1, <3>1, <3>2, <3>3 DEF Newborn
  <2> QED
    BY <2>2, <2>3
<1> QED
  BY <1>3, <1>4, <1>5, <1>6 DEF LifeInv

LEMMA BeginLife ==
    ASSUME MapInv, NEW t \in Threads, OthersKeep(t), Begin(t)
    PROVE  LifeInv'
<1>1. /\ pc'[t] \in {"ns_new", "ds_find", "gf_find", "pr_lock"}
      /\ obj' = obj /\ streams' = streams /\ vdo' = vdo /\ vdoId' = vdoId
  BY DEF Begin, Goto, Start, Ops, vdoVars, MapInv, TypeInv, TypeOK
<1>2. Mapped' /\ Born'
  BY <1>1 DEF MapInv, LifeInv, Mapped, Born, Live
<1>3. \A w \in Threads : pc'[w] \in {"ns_emplace", "ds_erase", "ds_stop"} =>
                            pc[w] = pc'[w] /\ call'[w] = call[w]
  BY <1>1 DEF OthersKeep
<1>4. ASSUME NEW u \in Threads PROVE Newborn(u)' /\ Deleting(u)'
  BY <1>1, <1>3 DEF MapInv, LifeInv, Newborn, Deleting
<1> QED
  BY <1>2, <1>4 DEF LifeInv

LEMMA MapInit == Init => MapInv
<1> SUFFICES ASSUME Init PROVE MapInv
  OBVIOUS
<1>1. TypeInv
  BY TypeInit
<1>2. LocksHeld /\ LifeInv
  BY ConstantsAssumption
  DEF Init, LocksHeld, MutexLabels, InferenceLabels, LifeInv, Mapped, Born,
      Newborn, Deleting
<1> QED
  BY <1>1, <1>2 DEF MapInv

LEMMA MapStep == MapInv /\ [Next]_vars => MapInv'
<1> SUFFICES ASSUME MapInv, [Next]_vars PROVE MapInv'
  OBVIOUS
<1>1. TypeInv'
  BY TypeStep DEF MapInv
<1>2. ASSUME NEW t \in Threads, Step(t) \/ Begin(t) PROVE LocksHeld' /\ LifeInv'
  <2>1. OthersKeep(t) /\ LocksHeld'
    BY <1>2, LocksStep DEF MapInv, Step
  <2>2. CASE Begin(t)
    BY <2>1, <2>2, BeginLife
  <2>3. CASE Handler(t)
    <3>1. \/ NsNew(t) \/ NsEmplace(t) \/ NsStart(t) \/ DsErase(t) \/ DsStop(t)
          \/ Quiet(t)
      BY <2>3, HandlerShapes DEF MapInv
    <3> QED
      BY <2>1, <3>1, NewLife, EmplaceLife, StartLife, EraseLife, StopLife,
         QuietLife
  <2> QED
    BY <1>2, <2>1, <2>2, <2>3 DEF Step
<1>3. CASE UNCHANGED <<threadVars, streams, mutex, inferenceMutex, vdoVars>>
  BY <1>1, <1>3
  DEF threadVars, vdoVars, MapInv, LocksHeld, LifeInv, Mapped, Born, Newborn,
      Deleting, Live
<1> QED
  BY <1>1, <1>2, <1>3 DEF MapInv, Next, Rest, Crash, vars

LEMMA MapInvariant == Spec => []MapInv
  BY MapInit, MapStep, PTL DEF Spec

\* The id of a stream that NewStream is about to put into the map has no entry,
\* for any number of threads, streams and ids and whatever clients do: emplace
\* inserts. DeleteStream erases the entry before it gives the id back, so ids
\* that VDO uses again do not find a predecessor's entry.
THEOREM IdsFreshInMap == Spec => []EmplaceInserts
<1>1. MapInv => EmplaceInserts
  BY DEF MapInv, LifeInv, Newborn, EmplaceInserts
<1> QED
  BY <1>1, MapInvariant, PTL

-----------------------------------------------------------------------------
(* Careful clients, who use only the ids they were told and delete a stream *)
(* when no call on it is pending, never make a handler use what is gone.   *)

DeleteLabels == {"ds_find", "ds_erase", "ds_stop"}

InUse(i) == \E o \in Live : vdoId[o] = i

\* The ids that clients know are of live streams.
KnownInUse == \A i \in known : InUse(i)

\* A DeleteStream is the only call on its id, which no client knows any more and
\* which VDO gives to no other stream yet.
Reserved(t) == call[t].id \notin known /\ InUse(call[t].id)
Alone(t) ==
    pc[t] \in DeleteLabels =>
        /\ Reserved(t)
        /\ \A u \in Threads \ {t} : pc[u] # "idle" => call[u].id # call[t].id

\* The stream that is started or deleted is live and has the call's id.
Own(t) ==
    pc[t] \in {"ns_start", "ds_erase", "ds_stop"} =>
        obj[t] \in Live /\ vdoId[obj[t]] = call[t].id

\* The stream that a handler found in the map is still there.
Using(t) == pc[t] \in UseLabels => streams[call[t].id] = obj[t]

CareInv    == KnownInUse /\ \A t \in Threads : Alone(t) /\ Own(t) /\ Using(t)
CarefulInv == MapInv /\ CareInv

\* A step that begins no call and gives no call an id.
LEMMA AloneKept ==
    ASSUME CarefulInv, NEW t \in Threads, OthersKeep(t),
           pc'[t] = "idle" \/ (pc[t] # "idle" /\ call'[t] = call[t]),
           pc'[t] \in DeleteLabels => pc[t] \in DeleteLabels,
           \A u \in Threads : pc'[u] \in DeleteLabels => Reserved(u)'
    PROVE  \A u \in Threads : Alone(u)'
<1> SUFFICES ASSUME NEW u \in Threads, pc'[u] \in DeleteLabels
             PROVE  Alone(u)'
  BY DEF Alone
<1>1. /\ pc[u] \in DeleteLabels /\ call'[u] = call[u]
  <2>1. "idle" \notin DeleteLabels
    BY DEF DeleteLabels
  <2> QED
    BY <2>1 DEF OthersKeep
<1>2. \A w \in Threads : pc'[w] # "idle" => pc[w] # "idle" /\ call'[w] = call[w]
  BY DEF OthersKeep
<1>3. \A w \in Threads \ {u} : pc[w] # "idle" => call[w].id # call[u].id
  BY <1>1 DEF CarefulInv, CareInv, Alone
<1>4. Reserved(u)'
  OBVIOUS
<1>5. \A w \in Threads \ {u} : pc'[w] # "idle" => call'[w].id # call'[u].id
  BY <1>1, <1>2, <1>3
<1> QED
  BY <1>4, <1>5 DEF Alone

\* An id stays in use as long as no stream is released.
LEMMA InUseKept ==
    ASSUME NEW i, InUse(i),
           \A o \in Live : o \in Live' /\ vdoId'[o] = vdoId[o]
    PROVE  InUse(i)'
BY DEF InUse

LEMMA ReservedKept ==
    ASSUME NEW u \in Threads, Reserved(u), call'[u] = call[u],
           call[u].id \notin known',
           \A o \in Live : vdoId[o] = call[u].id =>
               o \in Live' /\ vdoId'[o] = vdoId[o]
    PROVE  Reserved(u)'
<1>1. PICK o \in Live : vdoId[o] = call[u].id
  BY DEF Reserved, InUse
<1>2. o \in Live' /\ vdoId'[o] = call'[u].id
  BY <1>1
<1> QED
  BY <1>2 DEF Reserved, InUse

LEMMA QuietCare ==
    ASSUME CarefulInv, NEW t \in Threads, pc[t] # "idle", OthersKeep(t), Quiet(t)
    PROVE  CareInv'
<1>1. UNCHANGED <<streams, vdo, vdoId, known>>
  BY DEF Quiet
<1>2. Live' = Live /\ KnownInUse'
  BY <1>1 DEF CarefulInv, CareInv, KnownInUse, InUse, Live
<1>3. pc'[t] \in DeleteLabels => pc[t] \in DeleteLabels
  BY DEF Quiet, DeleteLabels, UseLabels
<1>4. pc'[t] = "idle" \/ call'[t] = call[t]
  BY DEF Quiet
<1>5. \A u \in Threads : Alone(u)'
  <2>1. ASSUME NEW u \in Threads, pc'[u] \in DeleteLabels PROVE Reserved(u)'
    <3>1. pc[u] \in DeleteLabels /\ call'[u] = call[u]
      BY <1>3, <1>4, <2>1 DEF OthersKeep, DeleteLabels
    <3>2. Reserved(u)
      BY <3>1 DEF CarefulInv, CareInv, Alone
    <3>3. call[u].id \notin known'
      BY <1>1, <3>2 DEF Reserved
    <3> QED
      BY <1>1, <1>2, <3>1, <3>2, <3>3, ReservedKept
  <2> QED
    BY <1>3, <1>4, <2>1, AloneKept
<1>6. Own(t)' /\ Using(t)'
  <2>1. CASE pc'[t] \in UseLabels /\ obj'[t] = streams[call[t].id]
             /\ obj'[t] # None /\ pc[t] \in MapFind /\ call'[t] = call[t]
    <3>1. call[t].id \in StreamIds
      BY <2>1 DEF MapFind, CarefulInv, MapInv, TypeInv, LocalsSet
    <3>2. obj'[t] \in Live /\ vdoId[obj'[t]] = call[t].id
      BY <2>1, <3>1 DEF CarefulInv, MapInv, LifeInv, Mapped
    <3> QED
      BY <1>1, <1>2, <2>1, <3>2 DEF Own, Using
  <2>2. CASE pc'[t] = "idle" \/ pc'[t] = "gi_find"
    BY <2>2 DEF Own, Using, UseLabels
  <2>3. CASE {pc[t], pc'[t]} \subseteq UseLabels \ {"ds_erase"}
             /\ obj'[t] = obj[t] /\ call'[t] = call[t]
    BY <1>1, <2>3 DEF Own, Using, UseLabels, CarefulInv, CareInv
  <2> QED
    BY <2>1, <2>2, <2>3 DEF Quiet
<1>7. ASSUME NEW u \in Threads, u # t PROVE Own(u)' /\ Using(u)'
  BY <1>1, <1>2, <1>7 DEF OthersKeep, Own, Using, CarefulInv, CareInv
<1> QED
  BY <1>2, <1>5, <1>6, <1>7 DEF CareInv

LEMMA NewCare ==
    ASSUME CarefulInv, NEW t \in Threads, OthersKeep(t), NsNew(t)
    PROVE  CareInv'
<1>1. CASE Return(t, "INTERNAL") /\ UNCHANGED <<vdo, vdoId>>
  <2>1. Quiet(t) /\ pc[t] # "idle"
    BY <1>1, QuietReturn
    DEF NsNew, Quiet, CarefulInv, MapInv, Replies, clientVars
  <2> QED
    BY <2>1, QuietCare
<1>2. CASE \E o \in Streams, i \in FreeIds :
              /\ vdo[o] = "unborn"
              /\ vdo' = [vdo EXCEPT ![o] = "created"]
              /\ vdoId' = [vdoId EXCEPT ![o] = i]
              /\ call' = [call EXCEPT ![t].id = i]
              /\ obj' = [obj EXCEPT ![t] = o]
              /\ Goto(t, "ns_emplace")
  <2>1. PICK o \in Streams, i \in FreeIds :
              /\ vdo[o] = "unborn"
              /\ vdo' = [vdo EXCEPT ![o] = "created"]
              /\ vdoId' = [vdoId EXCEPT ![o] = i]
              /\ call' = [call EXCEPT ![t].id = i]
              /\ Goto(t, "ns_emplace")
    BY <1>2
  <2>2. streams' = streams /\ known' = known
    BY DEF NsNew, clientVars
  <2>3. pc'[t] = "ns_emplace" /\ call'[t].id = i
    BY <2>1 DEF Goto, CarefulInv, MapInv, TypeInv, TypeOK
  <2>4. \A p \in Live : p \in Live' /\ vdoId'[p] = vdoId[p]
    BY <2>1 DEF Live, CarefulInv, MapInv, TypeInv, TypeOK
  <2>5. ~InUse(i)
    BY DEF FreeIds, InUse, Live
  <2>6. KnownInUse'
    BY <2>2, <2>4, InUseKept DEF KnownInUse, CarefulInv, CareInv
  <2>7. ASSUME NEW u \in Threads PROVE Alone(u)' /\ Own(u)' /\ Using(u)'
    <3>1. CASE u = t
      BY <2>3, <3>1 DEF Alone, Own, Using, DeleteLabels, UseLabels
    <3>2. CASE u # t
      <4>1. pc'[u] = pc[u] /\ obj'[u] = obj[u] /\ call'[u] = call[u]
        BY <3>2 DEF OthersKeep
      <4>2. Own(u)' /\ Using(u)'
        BY <2>2, <2>4, <4>1 DEF Own, Using, CarefulInv, CareInv
      <4>3. ASSUME pc[u] \in DeleteLabels
            PROVE  /\ Reserved(u)'
                   /\ \A w \in Threads \ {u} :
                        pc'[w] # "idle" => call'[w].id # call[u].id
        <5>1. /\ Reserved(u)
              /\ \A w \in Threads \ {u} :
                   pc[w] # "idle" => call[w].id # call[u].id
          BY <4>3 DEF CarefulInv, CareInv, Alone
        <5>2. Reserved(u)'
          BY <2>2, <2>4, <4>1, <5>1, ReservedKept DEF Reserved
        <5>3. call[u].id # i
          BY <2>5, <5>1 DEF Reserved
        <5> QED
          BY <2>3, <5>1, <5>2, <5>3 DEF OthersKeep
      <4>4. Alone(u)'
        BY <4>1, <4>3 DEF Alone
      <4> QED
        BY <4>2, <4>4
    <3> QED
      BY <3>1, <3>2
  <2> QED
    BY <2>6, <2>7 DEF CareInv
<1> QED
  BY <1>1, <1>2 DEF NsNew

LEMMA EmplaceCare ==
    ASSUME CarefulInv, NEW t \in Threads, OthersKeep(t), NsEmplace(t)
    PROVE  CareInv'
<1>1. /\ pc[t] = "ns_emplace" /\ pc'[t] = "ns_start"
      /\ obj' = obj /\ call' = call /\ vdo' = vdo /\ vdoId' = vdoId
      /\ known' = known
      /\ obj[t] \in Streams /\ call[t].id \in StreamIds
  BY DEF NsEmplace, Goto, vdoVars, clientVars, CarefulInv, MapInv, TypeInv,
         TypeOK, LocalsSet, ObjLabels
<1>2. \A i \in StreamIds : streams[i] # None => streams'[i] = streams[i]
  BY <1>1 DEF NsEmplace, CarefulInv, MapInv, TypeInv, TypeOK
<1>3. Live' = Live /\ KnownInUse'
  BY <1>1 DEF CarefulInv, CareInv, KnownInUse, InUse, Live
<1>4. \A u \in Threads : Alone(u)'
  <2>1. ASSUME NEW u \in Threads, pc'[u] \in DeleteLabels PROVE Reserved(u)'
    <3>1. pc[u] \in DeleteLabels
      BY <1>1, <2>1 DEF OthersKeep, DeleteLabels
    <3> QED
      BY <1>1, <1>3, <3>1
      DEF CarefulInv, CareInv, Alone, Reserved, InUse
  <2>2. pc'[t] \notin DeleteLabels
    BY <1>1 DEF DeleteLabels
  <2> QED
    BY <1>1, <2>1, <2>2, AloneKept
<1>5. Own(t)' /\ Using(t)'
  <2>1. vdo[obj[t]] = "created" /\ vdoId[obj[t]] = call[t].id
    BY <1>1 DEF CarefulInv, MapInv, LifeInv, Newborn
  <2> QED
    BY <1>1, <1>3, <2>1 DEF Own, Using, UseLabels, Live
<1>6. ASSUME NEW u \in Threads, u # t PROVE Own(u)' /\ Using(u)'
  <2>1. pc'[u] = pc[u]
    BY <1>6 DEF OthersKeep
  <2>2. Own(u)'
    BY <1>1, <1>3, <2>1 DEF Own, CarefulInv, CareInv
  <2>3. pc[u] \in UseLabels => obj[u] \in Streams /\ call[u].id \in StreamIds
    BY DEF UseLabels, CarefulInv, MapInv, TypeInv, LocalsSet, ObjLabels
  <2>4. Using(u)'
    BY <1>1, <1>2, <2>1, <2>3, ConstantsAssumption DEF Using, CarefulInv, CareInv
  <2> QED
    BY <2>2, <2>4
<1> QED
  BY <1>3, <1>4, <1>5, <1>6 DEF CareInv

\* The stream that starts is live, so its id may be told to the client.
LEMMA StartCare ==
    ASSUME CarefulInv, NEW t \in Threads, OthersKeep(t), NsStart(t)
    PROVE  CareInv'
<1>1. /\ pc[t] = "ns_start" /\ pc'[t] = "idle"
      /\ streams' = streams /\ vdoId' = vdoId
  BY QuietReturn DEF NsStart, CarefulInv, MapInv, Replies
<1>2. obj[t] \in Live /\ vdoId[obj[t]] = call[t].id
  BY <1>1 DEF CarefulInv, CareInv, Own
<1>3. Live' = Live
  BY <1>2 DEF NsStart, Live, CarefulInv, MapInv, TypeInv, TypeOK
<1>4. known' \subseteq known \union {call[t].id}
  BY DEF NsStart
<1>5. KnownInUse'
  BY <1>1, <1>2, <1>3, <1>4 DEF KnownInUse, InUse, CarefulInv, CareInv
<1>6. \A u \in Threads : Alone(u)'
  <2>1. ASSUME NEW u \in Threads, pc'[u] \in DeleteLabels PROVE Reserved(u)'
    <3>1. u # t /\ pc[u] \in DeleteLabels /\ call'[u] = call[u]
      BY <1>1, <2>1 DEF OthersKeep, DeleteLabels
    <3>2. Reserved(u) /\ call[t].id # call[u].id
      BY <1>1, <3>1 DEF CarefulInv, CareInv, Alone
    <3>3. call[u].id \notin known'
      BY <1>4, <3>2 DEF Reserved
    <3> QED
      BY <1>1, <1>3, <3>1, <3>2, <3>3, ReservedKept
  <2>2. pc'[t] \notin DeleteLabels
    BY <1>1 DEF DeleteLabels
  <2> QED
    BY <1>1, <2>1, <2>2, AloneKept
<1>7. Own(t)' /\ Using(t)'
  BY <1>1 DEF Own, Using, UseLabels
<1>8. ASSUME NEW u \in Threads, u # t PROVE Own(u)' /\ Using(u)'
  BY <1>1, <1>3, <1>8 DEF OthersKeep, Own, Using, CarefulInv, CareInv
<1> QED
  BY <1>5, <1>6, <1>7, <1>8 DEF CareInv

\* No other handler uses the entry that is erased.
LEMMA EraseCare ==
    ASSUME CarefulInv, NEW t \in Threads, OthersKeep(t), DsErase(t)
    PROVE  CareInv'
<1>1. /\ pc[t] = "ds_erase" /\ pc'[t] = "ds_stop"
      /\ obj' = obj /\ call' = call /\ vdo' = vdo /\ vdoId' = vdoId
      /\ known' = known
      /\ call[t].id \in StreamIds
  BY DEF DsErase, Goto, vdoVars, clientVars, CarefulInv, MapInv, TypeInv,
         TypeOK, LocalsSet
<1>2. \A i \in StreamIds : i # call[t].id => streams'[i] = streams[i]
  BY <1>1 DEF DsErase, CarefulInv, MapInv, TypeInv, TypeOK
<1>3. Live' = Live /\ KnownInUse'
  BY <1>1 DEF CarefulInv, CareInv, KnownInUse, InUse, Live
<1>4. pc[t] \in DeleteLabels /\ pc'[t] \in DeleteLabels
  BY <1>1 DEF DeleteLabels
<1>5. \A u \in Threads : Alone(u)'
  <2>1. ASSUME NEW u \in Threads, pc'[u] \in DeleteLabels PROVE Reserved(u)'
    <3>1. pc[u] \in DeleteLabels
      BY <1>4, <2>1 DEF OthersKeep
    <3> QED
      BY <1>1, <1>3, <3>1
      DEF CarefulInv, CareInv, Alone, Reserved, InUse
  <2> QED
    BY <1>1, <1>4, <2>1, AloneKept
<1>6. Own(t)' /\ Using(t)'
  BY <1>1, <1>3 DEF Own, Using, UseLabels, CarefulInv, CareInv
<1>7. ASSUME NEW u \in Threads, u # t PROVE Own(u)' /\ Using(u)'
  <2>1. pc'[u] = pc[u]
    BY <1>7 DEF OthersKeep
  <2>2. Own(u)'
    BY <1>1, <1>3, <2>1 DEF Own, CarefulInv, CareInv
  <2>3. pc[u] \in UseLabels => call[u].id \in StreamIds /\ pc[u] # "idle"
    BY DEF UseLabels, CarefulInv, MapInv, TypeInv, LocalsSet
  <2>4. pc[u] \in UseLabels => call[u].id # call[t].id
    BY <1>4, <1>7, <2>3 DEF CarefulInv, CareInv, Alone
  <2>5. Using(u)'
    BY <1>1, <1>2, <2>1, <2>3, <2>4 DEF Using, CarefulInv, CareInv
  <2> QED
    BY <2>2, <2>5
<1> QED
  BY <1>3, <1>5, <1>6, <1>7 DEF CareInv

\* The stream that is released has the id of this call only, which no client
\* knows and no other call has.
LEMMA StopCare ==
    ASSUME CarefulInv, NEW t \in Threads, OthersKeep(t), DsStop(t)
    PROVE  CareInv'
<1>1. /\ pc[t] = "ds_stop" /\ pc'[t] = "idle"
      /\ streams' = streams /\ vdoId' = vdoId /\ known' = known
  BY QuietReturn DEF DsStop, CarefulInv, MapInv, Replies, clientVars
<1>2. /\ vdoId[obj[t]] = call[t].id /\ Reserved(t)
      /\ \A u \in Threads \ {t} : pc[u] # "idle" => call[u].id # call[t].id
  BY <1>1 DEF CarefulInv, CareInv, Own, Alone, DeleteLabels
<1>3. \A o \in Live : vdoId[o] # call[t].id => o \in Live' /\ vdoId'[o] = vdoId[o]
  BY <1>1, <1>2 DEF DsStop, Live, CarefulInv, MapInv, TypeInv, TypeOK
<1>4. KnownInUse'
  <2> SUFFICES ASSUME NEW i \in known PROVE InUse(i)'
    BY <1>1 DEF KnownInUse
  <2>1. PICK o \in Live : vdoId[o] = i
    BY DEF CarefulInv, CareInv, KnownInUse, InUse
  <2>2. i # call[t].id
    BY <1>2 DEF Reserved
  <2> QED
    BY <1>3, <2>1, <2>2 DEF InUse
<1>5. \A u \in Threads : Alone(u)'
  <2>1. ASSUME NEW u \in Threads, pc'[u] \in DeleteLabels PROVE Reserved(u)'
    <3>1. u # t /\ pc[u] \in DeleteLabels /\ call'[u] = call[u]
      BY <1>1, <2>1 DEF OthersKeep, DeleteLabels
    <3>2. Reserved(u) /\ call[u].id # call[t].id
      BY <1>2, <3>1 DEF CarefulInv, CareInv, Alone, DeleteLabels
    <3>3. call[u].id \notin known'
      BY <1>1, <3>2 DEF Reserved
    <3> QED
      BY <1>3, <3>1, <3>2, <3>3, ReservedKept
  <2>2. pc'[t] \notin DeleteLabels
    BY <1>1 DEF DeleteLabels
  <2> QED
    BY <1>1, <2>1, <2>2, AloneKept
<1>6. Own(t)' /\ Using(t)'
  BY <1>1 DEF Own, Using, UseLabels
<1>7. ASSUME NEW u \in Threads, u # t PROVE Own(u)' /\ Using(u)'
  <2>1. pc'[u] = pc[u] /\ obj'[u] = obj[u] /\ call'[u] = call[u]
    BY <1>7 DEF OthersKeep
  <2>2. Using(u)'
    BY <1>1, <2>1 DEF Using, CarefulInv, CareInv
  <2>3. ASSUME pc[u] \in {"ns_start", "ds_erase", "ds_stop"}
        PROVE  obj[u] \in Live' /\ vdoId'[obj[u]] = call[u].id
    <3>1. obj[u] \in Live /\ vdoId[obj[u]] = call[u].id
      BY <2>3 DEF Own, CarefulInv, CareInv
    <3>2. call[u].id # call[t].id
      BY <1>2, <1>7, <2>3
    <3> QED
      BY <1>3, <3>1, <3>2
  <2> QED
    BY <2>1, <2>2, <2>3 DEF Own
<1> QED
  BY <1>4, <1>5, <1>6, <1>7 DEF CareInv

\* A careful client begins a call on an id it knows, which no DeleteStream has,
\* and forgets the id when it deletes the stream.
LEMMA BeginCare ==
    ASSUME Careful, CarefulInv, NEW t \in Threads, OthersKeep(t), Begin(t)
    PROVE  CareInv'
<1>1. PICK op \in Ops, i \in StreamIds, r \in Refs :
        /\ MayBegin(op, i)
        /\ Goto(t, Start[op])
        /\ call' = [call EXCEPT ![t] =
                      [op |-> op, ref |-> r,
                       id |-> IF op = "NewStream" THEN None ELSE i]]
        /\ known' = IF op = "DeleteStream" THEN known \ {i} ELSE known
  BY DEF Begin
<1>2. /\ obj' = obj /\ streams' = streams /\ vdo' = vdo /\ vdoId' = vdoId
      /\ pc[t] = "idle"
  BY DEF Begin, vdoVars
<1>3. /\ op # "NewStream" => i \in known
      /\ op = "DeleteStream" =>
           \A u \in Threads : pc[u] # "idle" => call[u].id # i
  BY <1>1 DEF MayBegin, Busy
<1>4. /\ pc'[t] \in {"ns_new", "ds_find", "gf_find", "pr_lock"}
      /\ pc'[t] = "ds_find" => op = "DeleteStream"
  BY <1>1 DEF Goto, Start, Ops, CarefulInv, MapInv, TypeInv, TypeOK
<1>5. call'[t].id = IF op = "NewStream" THEN None ELSE i
  BY <1>1 DEF CarefulInv, MapInv, TypeInv, TypeOK
<1>6. Live' = Live /\ known' \subseteq known
  BY <1>1, <1>2 DEF Live
<1>7. KnownInUse'
  BY <1>2, <1>6 DEF KnownInUse, InUse, CarefulInv, CareInv
<1>8. Alone(t)'
  <2> SUFFICES ASSUME pc'[t] \in DeleteLabels PROVE Alone(t)'
    BY DEF Alone
  <2>1. op = "DeleteStream"
    BY <1>4 DEF DeleteLabels
  <2>2. call'[t].id = i /\ i \in known /\ i \notin known'
    BY <1>1, <1>3, <1>5, <2>1
  <2>3. InUse(i)
    BY <2>2 DEF CarefulInv, CareInv, KnownInUse
  <2>4. Reserved(t)'
    BY <1>2, <1>6, <2>2, <2>3 DEF Reserved, InUse
  <2>5. \A u \in Threads \ {t} : pc'[u] # "idle" => call'[u].id # call'[t].id
    BY <1>3, <2>1, <2>2 DEF OthersKeep
  <2> QED
    BY <2>4, <2>5 DEF Alone
<1>9. ASSUME NEW u \in Threads, u # t PROVE Alone(u)'
  <2> SUFFICES ASSUME pc'[u] \in DeleteLabels PROVE Alone(u)'
    BY DEF Alone
  <2>1. pc[u] \in DeleteLabels /\ call'[u] = call[u]
    BY <1>9 DEF OthersKeep
  <2>2. /\ Reserved(u)
        /\ \A w \in Threads \ {u} : pc[w] # "idle" => call[w].id # call[u].id
    BY <2>1 DEF CarefulInv, CareInv, Alone
  <2>3. call[u].id \notin known'
    BY <1>6, <2>2 DEF Reserved
  <2>4. Reserved(u)'
    BY <1>2, <1>6, <2>1, <2>2, <2>3, ReservedKept
  <2>5. call[u].id # call'[t].id
    <3>1. call[u].id \in StreamIds
      BY <2>1 DEF DeleteLabels, CarefulInv, MapInv, TypeInv, LocalsSet
    <3> QED
      BY <1>3, <1>5, <2>2, <3>1, ConstantsAssumption DEF Reserved
  <2>6. \A w \in Threads \ {u} : pc'[w] # "idle" => call'[w].id # call'[u].id
    BY <2>1, <2>2, <2>5 DEF OthersKeep
  <2> QED
    BY <2>4, <2>6 DEF Alone
<1>10. ASSUME NEW u \in Threads PROVE Own(u)' /\ Using(u)'
  <2>1. CASE u = t
    BY <1>4, <2>1 DEF Own, Using, UseLabels
  <2>2. CASE u # t
    BY <1>2, <1>6, <2>2 DEF OthersKeep, Own, Using, CarefulInv, CareInv
  <2> QED
    BY <2>1, <2>2
<1> QED
  BY <1>7, <1>8, <1>9, <1>10 DEF CareInv

LEMMA CarefulInit == Init => CarefulInv
<1> SUFFICES ASSUME Init PROVE CarefulInv
  OBVIOUS
<1>1. CareInv
  BY DEF Init, CareInv, KnownInUse, Alone, Own, Using, DeleteLabels, UseLabels
<1> QED
  BY <1>1, MapInit DEF CarefulInv

LEMMA CarefulStep ==
    ASSUME Careful
    PROVE  CarefulInv /\ [Next]_vars => CarefulInv'
<1> SUFFICES ASSUME CarefulInv, [Next]_vars PROVE CarefulInv'
  OBVIOUS
<1>1. MapInv'
  BY MapStep DEF CarefulInv
<1>2. ASSUME NEW t \in Threads, Step(t) \/ Begin(t) PROVE CareInv'
  <2>1. OthersKeep(t)
    BY <1>2, LocksStep DEF CarefulInv, MapInv, Step
  <2>2. CASE Begin(t)
    BY <2>1, <2>2, BeginCare
  <2>3. CASE Handler(t)
    <3>1. \/ NsNew(t) \/ NsEmplace(t) \/ NsStart(t) \/ DsErase(t) \/ DsStop(t)
          \/ Quiet(t)
      BY <2>3, HandlerShapes DEF CarefulInv, MapInv
    <3>2. pc[t] # "idle"
      BY <2>3
      DEF Handler, NsNew, NsEmplace, NsStart, DsFind, DsErase, DsStop, GfFind,
          GfSaved, GfCopy, GfGet, GfUnref, PrLock, GiFind, GiEvict, GiGet,
          GiSave, PrCopy
    <3> QED
      BY <2>1, <3>1, <3>2, NewCare, EmplaceCare, StartCare, EraseCare, StopCare,
         QuietCare
  <2> QED
    BY <1>2, <2>2, <2>3 DEF Step
<1>3. CASE UNCHANGED <<threadVars, streams, vdoVars, clientVars>>
  <2>1. CareInv'
    BY <1>3
    DEF threadVars, vdoVars, clientVars, CarefulInv, CareInv, KnownInUse, Alone,
        Reserved, Own, Using, InUse, Live
  <2> QED
    BY <1>1, <2>1 DEF CarefulInv
<1> QED
  BY <1>1, <1>2, <1>3 DEF CarefulInv, Next, Rest, Crash, vars

\* When clients use only the ids they were told and delete a stream only when no
\* call on it is pending, no handler uses a map node that was erased or a VDO
\* stream that was released after it looked them up, for any number of threads,
\* streams and calls. The assumption is on the clients, not on the server, and
\* it is needed: without it the handlers of one stream are not ordered.
THEOREM CarefulClientsSafe ==
    ASSUME Careful
    PROVE  Spec => []NoDanglingUse
<1>1. ASSUME CarefulInv, NEW t \in Threads PROVE ~Dangling(t)
  <2>1. ~DanglingNode(t)
    BY <1>1 DEF DanglingNode, UseLabels, CarefulInv, CareInv, Using
  <2>2. pc[t] \in {"ns_start", "ds_stop"} => vdo[obj[t]] # "freed"
    BY <1>1 DEF CarefulInv, CareInv, Own, Live
  <2>3. pc[t] \in UseLabels => vdo[obj[t]] # "freed"
    <3> SUFFICES ASSUME pc[t] \in UseLabels PROVE vdo[obj[t]] # "freed"
      OBVIOUS
    <3>1. /\ call[t].id \in StreamIds /\ obj[t] \in Streams
          /\ streams[call[t].id] = obj[t]
      BY <1>1
      DEF UseLabels, CarefulInv, MapInv, TypeInv, LocalsSet, ObjLabels, CareInv,
          Using
    <3> QED
      BY <1>1, <3>1, ConstantsAssumption
      DEF CarefulInv, MapInv, LifeInv, Mapped, Live
  <2>4. ~DanglingStream(t)
    BY <2>2, <2>3 DEF DanglingStream, UseLabels
  <2> QED
    BY <2>1, <2>4 DEF Dangling
<1>2. CarefulInv => NoDanglingUse
  BY <1>1 DEF NoDanglingUse
<1>3. Spec => []CarefulInv
  BY CarefulInit, CarefulStep, PTL DEF Spec
<1> QED
  BY <1>2, <1>3, PTL
=============================================================================
