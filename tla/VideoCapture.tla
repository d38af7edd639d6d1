---------------------------- MODULE VideoCapture ----------------------------
(***************************************************************************)
(* The video capture service (video_capture.cpp) with its callers: gRPC    *)
(* handler threads that run NewStream, DeleteStream and GetFrame, and the  *)
(* part of Inference::Predict that captures an image (inference.cpp),      *)
(* which holds the inference mutex around GetImgDataFromStream.            *)
(*                                                                         *)
(* A handler is cut at every access to state that other threads share: the *)
(* map _streams, the queues of saved frames, the VDO streams and buffers.  *)
(* The map is used without a lock, so a find, emplace or erase that runs   *)
(* during another thread's write is a data race, and a node or VDO stream  *)
(* may be gone when a handler uses it. Both are undefined behaviour: the   *)
(* thread goes on with the stale contents or the process dies (Crash).     *)
(***************************************************************************)
EXTENDS Naturals, Sequences, FiniteSets

CONSTANTS
    Threads,          \* gRPC handler threads
    Streams,          \* VdoStream objects; an object is created once
    StreamIds,        \* the ids VDO gives to streams; reused after release
    Refs,             \* the frame references clients ask for; 0: a new frame
    MaxSavedFrames,   \* MAX_NBR_SAVED_FRAMES
    RefModulus,       \* 2^32, the width of a frame reference
    CallBudget,       \* [Ops -> Nat]: how often clients start each operation
    Careful,          \* clients delete a stream only when done with it
    Stalled,          \* stream ids whose camera delivers no frame, ever
    None

\* The calls of the VideoCapture service, and that of the inference service that
\* comes here (src/apis/predict_additions.patch adds stream_id to its request).
Ops == {"NewStream", "DeleteStream", "GetFrame", "Predict"}

ASSUME ConstantsAssumption ==
    /\ MaxSavedFrames \in Nat /\ MaxSavedFrames >= 2
    /\ RefModulus \in Nat /\ RefModulus > MaxSavedFrames
    /\ Refs \subseteq Nat
    /\ CallBudget \in [Ops -> Nat]
    /\ Careful \in BOOLEAN
    /\ Stalled \subseteq StreamIds
    /\ None \notin Streams /\ None \notin Threads /\ None \notin StreamIds
    /\ None \notin Streams \X Nat

VARIABLES
    pc, call, obj, buf, reply,      \* per thread: control point, request,
                                    \* stream found, buffer in use, answer
    streams, buffers,               \* Capture::_streams and Stream::buffers
    mutex, inferenceMutex,          \* Capture::_mutex and Inference::_mutex
    vdo, vdoId, produced, held,     \* VDO: state and id of a stream, buffers
                                    \* taken from it, references not given back
    issued,                         \* history: the frames saved per stream
    known, budget,                  \* clients: ids they were told, calls left
    crashed                         \* the process died of undefined behaviour

threadVars == <<pc, call, obj, buf, reply>>
queueVars  == <<buffers, issued>>
vdoVars    == <<vdo, vdoId, produced, held>>
clientVars == <<known, budget>>
vars == <<threadVars, streams, queueVars, mutex, inferenceMutex, vdoVars,
          clientVars, crashed>>

Buffers == Streams \X Nat
Frame   == [id : Nat, buf : Buffers]
Start   == [NewStream |-> "ns_new", DeleteStream |-> "ds_find",
            GetFrame |-> "gf_find", Predict |-> "pr_lock"]
Labels  == {"idle", "ns_new", "ns_emplace", "ns_start", "ds_find", "ds_erase",
            "ds_stop", "gf_find", "gf_saved", "gf_copy", "gf_get", "gf_unref",
            "pr_lock", "gi_find", "gi_evict", "gi_get", "gi_save", "pr_copy"}
Replies == {"none", "OK", "INTERNAL", "FAILED_PRECONDITION", "NOT_FOUND",
            "CANCELLED"}
NoCall  == [op |-> "none", id |-> None, ref |-> 0]

Init ==
    /\ pc = [t \in Threads |-> "idle"]
    /\ call = [t \in Threads |-> NoCall]
    /\ obj = [t \in Threads |-> None]
    /\ buf = [t \in Threads |-> None]
    /\ reply = [t \in Threads |-> "none"]
    /\ streams = [i \in StreamIds |-> None]
    /\ buffers = [o \in Streams |-> << >>]
    /\ mutex = None /\ inferenceMutex = None
    /\ vdo = [o \in Streams |-> "unborn"]
    /\ vdoId = [o \in Streams |-> None]
    /\ produced = [o \in Streams |-> 0]
    /\ held = {}
    /\ issued = [o \in Streams |-> << >>]
    /\ known = {} /\ budget = CallBudget
    /\ crashed = FALSE

-----------------------------------------------------------------------------
(* Steps of a thread.                                                      *)

Goto(t, to) == pc' = [pc EXCEPT ![t] = to]

Released(m, t) == IF m = t THEN None ELSE m

\* The handler answers s; its locals and its scoped locks go.
Return(t, s) ==
    /\ Goto(t, "idle")
    /\ reply' = [reply EXCEPT ![t] = s]
    /\ call' = [call EXCEPT ![t] = NoCall]
    /\ obj' = [obj EXCEPT ![t] = None]
    /\ buf' = [buf EXCEPT ![t] = None]
    /\ mutex' = Released(mutex, t)
    /\ inferenceMutex' = Released(inferenceMutex, t)

MapWrite == {"ns_emplace", "ds_erase"}
MapFind  == {"ds_find", "gf_find", "gi_find"}

\* Thread t is at an access to _streams that races with another thread's.
MapRace(t) ==
    \E u \in Threads \ {t} :
        \/ pc[t] \in MapWrite /\ pc[u] \in MapWrite \union MapFind
        \/ pc[t] \in MapFind /\ pc[u] \in MapWrite

\* And both write.
WriteRace(t) ==
    pc[t] \in MapWrite /\ \E u \in Threads \ {t} : pc[u] \in MapWrite

\* Thread t is about to use a map node that was erased, or a VDO stream that
\* was released, since it found them.
DanglingNode(t) ==
    /\ pc[t] \in {"ds_erase", "gf_saved", "gf_copy", "gi_evict", "gi_save"}
    /\ streams[call[t].id] # obj[t]
DanglingStream(t) ==
    /\ pc[t] \in {"ns_start", "ds_stop", "gf_get", "gf_unref", "gi_evict",
                  "gi_get", "gi_save"}
    /\ vdo[obj[t]] = "freed"
Dangling(t) == DanglingNode(t) \/ DanglingStream(t)

Crash(t) ==
    /\ Dangling(t) \/ MapRace(t)
    /\ crashed' = TRUE
    /\ UNCHANGED <<threadVars, streams, queueVars, mutex, inferenceMutex,
                   vdoVars, clientVars>>

\* _streams.find: hit goes on with the stream found, miss answers s. During a
\* write by another thread the search may also miss a stream that is there.
Find(t, hit, s) ==
    LET o == streams[call[t].id] IN
    /\ \/ /\ o # None
          /\ Goto(t, hit)
          /\ obj' = [obj EXCEPT ![t] = o]
          /\ UNCHANGED <<call, buf, reply, mutex, inferenceMutex>>
       \/ /\ o = None \/ MapRace(t)
          /\ Return(t, s)
    /\ UNCHANGED <<streams, queueVars, vdoVars, clientVars, crashed>>

\* Mutant: after a failure the thread returns with its mutexes locked.
GetBufferKeepsLock(t, next, s) ==
    /\ call[t].id \notin Stalled
    /\ Goto(t, "idle")
    /\ UNCHANGED <<call, obj, buf, reply, mutex, inferenceMutex, streams,
                   queueVars, vdoVars, clientVars, crashed>>

\* vdo_stream_get_buffer: a started stream delivers its next buffer to t, any
\* stream may fail and answer s; the camera of a stalled one never answers.
GetBuffer(t, next, s) ==
    LET o == obj[t]
        b == <<o, produced[o] + 1>> IN
    /\ call[t].id \notin Stalled
    /\ \/ /\ vdo[o] = "started"
          /\ produced' = [produced EXCEPT ![o] = @ + 1]
          /\ held' = held \union {b}
          /\ buf' = [buf EXCEPT ![t] = b]
          /\ Goto(t, next)
          /\ UNCHANGED <<call, obj, reply, mutex, inferenceMutex>>
       \/ /\ Return(t, s)
          /\ UNCHANGED <<produced, held>>
    /\ UNCHANGED <<streams, queueVars, vdo, vdoId, clientVars, crashed>>

-----------------------------------------------------------------------------
(* NewStream                                                               *)

FreeIds == StreamIds \ {vdoId[o] : o \in {p \in Streams : vdo[p] # "freed"}}

NsNew(t) ==
    /\ pc[t] = "ns_new"
    /\ \/ \E o \in Streams, i \in FreeIds :
              /\ vdo[o] = "unborn"
              /\ vdo' = [vdo EXCEPT ![o] = "created"]
              /\ vdoId' = [vdoId EXCEPT ![o] = i]
              /\ call' = [call EXCEPT ![t].id = i]
              /\ obj' = [obj EXCEPT ![t] = o]
              /\ Goto(t, "ns_emplace")
              /\ UNCHANGED <<buf, reply, mutex, inferenceMutex>>
       \/ /\ Return(t, "INTERNAL")
          /\ UNCHANGED <<vdo, vdoId>>
    /\ UNCHANGED <<streams, queueVars, produced, held, clientVars, crashed>>

\* emplace leaves the map alone when it has the id; in a race with another write
\* the new node can get lost.
NsEmplace(t) ==
    LET i == call[t].id IN
    /\ pc[t] = "ns_emplace"
    /\ \/ streams' = IF streams[i] = None
                       THEN [streams EXCEPT ![i] = obj[t]] ELSE streams
       \/ WriteRace(t) /\ UNCHANGED streams
    /\ Goto(t, "ns_start")
    /\ UNCHANGED <<call, obj, buf, reply, queueVars, mutex, inferenceMutex,
                   vdoVars, clientVars, crashed>>

\* When the start fails, the stream stays in the map. One that another call has
\* released meanwhile stays released, whatever VDO answers.
NsStart(t) ==
    /\ pc[t] = "ns_start"
    /\ \/ /\ vdo' = [vdo EXCEPT ![obj[t]] =
                        IF @ = "freed" THEN "freed" ELSE "started"]
          /\ known' = known \union {call[t].id}
          /\ Return(t, "OK")
       \/ /\ UNCHANGED <<vdo, known>>
          /\ Return(t, "INTERNAL")
    /\ UNCHANGED <<streams, queueVars, vdoId, produced, held, budget, crashed>>

-----------------------------------------------------------------------------
(* DeleteStream: the saved frames go with the node, their VDO buffers are  *)
(* not given back.                                                         *)

DsFind(t) == pc[t] = "ds_find" /\ Find(t, "ds_erase", "FAILED_PRECONDITION")

\* Mutant: the entry stays in the map.
DsEraseNot(t) ==
    /\ pc[t] = "ds_erase"
    /\ Goto(t, "ds_stop")
    /\ UNCHANGED <<call, obj, buf, reply, streams, queueVars, mutex,
                   inferenceMutex, vdoVars, clientVars, crashed>>
\* Mutant: the stream is released first and erased from the map after that.
DsEraseLate(t) ==
    LET o == obj[t] IN
    /\ pc[t] = "ds_erase"
    /\ \/ /\ vdo[o] # "freed"
          /\ vdo' = [vdo EXCEPT ![o] = "freed"]
          /\ UNCHANGED <<threadVars, streams, mutex, inferenceMutex>>
       \/ /\ vdo[o] = "freed"
          /\ streams' = [streams EXCEPT ![call[t].id] = None]
          /\ Return(t, "OK")
          /\ UNCHANGED vdo
    /\ UNCHANGED <<queueVars, vdoId, produced, held, clientVars, crashed>>

DsErase(t) ==
    LET i == call[t].id IN
    /\ pc[t] = "ds_erase"
    /\ streams' = IF streams[i] = obj[t]
                    THEN [streams EXCEPT ![i] = None] ELSE streams
    /\ Goto(t, "ds_stop")
    /\ UNCHANGED <<call, obj, buf, reply, queueVars, mutex, inferenceMutex,
                   vdoVars, clientVars, crashed>>

DsStop(t) ==
    /\ pc[t] = "ds_stop"
    /\ vdo' = [vdo EXCEPT ![obj[t]] = "freed"]
    /\ Return(t, "OK")
    /\ UNCHANGED <<streams, queueVars, vdoId, produced, held, clientVars,
                   crashed>>

-----------------------------------------------------------------------------
(* GetFrame and GetDataFromSavedFrame                                      *)

\* Mutant: GetFrame takes Capture::_mutex first, for new frames too.
GfFindLocked(t) ==
    /\ pc[t] = "gf_find"
    /\ mutex = None
    /\ Find(t, IF call[t].ref > 0 THEN "gf_saved" ELSE "gf_get",
            "FAILED_PRECONDITION")

GfFind(t) ==
    /\ pc[t] = "gf_find"
    /\ Find(t, IF call[t].ref > 0 THEN "gf_saved" ELSE "gf_get",
            "FAILED_PRECONDITION")

\* Mutant: the first frame that is not older than the reference will do.
GfSavedNewer(t) ==
    LET q == buffers[obj[t]] IN
    /\ pc[t] = "gf_saved"
    /\ mutex = None
    /\ \/ \E k \in DOMAIN q :
              /\ q[k].id >= call[t].ref
              /\ \A j \in 1 .. (k - 1) : q[j].id < call[t].ref
              /\ buf' = [buf EXCEPT ![t] = q[k].buf]
              /\ mutex' = t
              /\ Goto(t, "gf_copy")
              /\ UNCHANGED <<call, obj, reply, inferenceMutex>>
       \/ /\ \A k \in DOMAIN q : q[k].id < call[t].ref
          /\ Return(t, "NOT_FOUND")
    /\ UNCHANGED <<streams, queueVars, vdoVars, clientVars, crashed>>

\* Lock, find_if over the queue.
GfSaved(t) ==
    LET q == buffers[obj[t]] IN
    /\ pc[t] = "gf_saved"
    /\ mutex = None
    /\ \/ \E k \in DOMAIN q :
              /\ q[k].id = call[t].ref
              /\ \A j \in 1 .. (k - 1) : q[j].id # call[t].ref
              /\ buf' = [buf EXCEPT ![t] = q[k].buf]
              /\ mutex' = t
              /\ Goto(t, "gf_copy")
              /\ UNCHANGED <<call, obj, reply, inferenceMutex>>
       \/ /\ \A k \in DOMAIN q : q[k].id # call[t].ref
          /\ Return(t, "NOT_FOUND")
    /\ UNCHANGED <<streams, queueVars, vdoVars, clientVars, crashed>>

\* The data goes into the response; it may be impossible to get.
GfCopy(t) ==
    /\ pc[t] = "gf_copy"
    /\ Return(t, "OK") \/ Return(t, "NOT_FOUND")
    /\ UNCHANGED <<streams, queueVars, vdoVars, clientVars, crashed>>

GfGet(t) == pc[t] = "gf_get" /\ GetBuffer(t, "gf_unref", "INTERNAL")

\* Mutant: the error path returns without giving the buffer back.
GfUnrefLeak(t) ==
    /\ pc[t] = "gf_unref"
    /\ \/ Return(t, "OK") /\ held' = held \ {buf[t]}
       \/ Return(t, "INTERNAL") /\ UNCHANGED held
    /\ UNCHANGED <<streams, queueVars, vdo, vdoId, produced, clientVars,
                   crashed>>

\* The data is copied, or is null, and the buffer given back either way.
GfUnref(t) ==
    /\ pc[t] = "gf_unref"
    /\ held' = held \ {buf[t]}
    /\ Return(t, "OK") \/ Return(t, "INTERNAL")
    /\ UNCHANGED <<streams, queueVars, vdo, vdoId, produced, clientVars,
                   crashed>>

-----------------------------------------------------------------------------
(* Predict on an image from a stream, with GetImgDataFromStream            *)

\* Mutant: Predict does not take the inference mutex.
PrLockNone(t) ==
    /\ pc[t] = "pr_lock"
    /\ Goto(t, "gi_find")
    /\ UNCHANGED <<call, obj, buf, reply, streams, queueVars, mutex,
                   inferenceMutex, vdoVars, clientVars, crashed>>

PrLock(t) ==
    /\ pc[t] = "pr_lock"
    /\ inferenceMutex = None
    /\ inferenceMutex' = t
    /\ Goto(t, "gi_find")
    /\ UNCHANGED <<call, obj, buf, reply, streams, queueVars, mutex, vdoVars,
                   clientVars, crashed>>

GiFind(t) == pc[t] = "gi_find" /\ Find(t, "gi_evict", "CANCELLED")

\* Mutants: evict when the length satisfies Full, keep Keep(queue).
GiEvictWhen(t, Full(_), Keep(_)) ==
    LET q == buffers[obj[t]] IN
    /\ pc[t] = "gi_evict"
    /\ mutex = None
    /\ mutex' = t
    /\ Goto(t, "gi_get")
    /\ IF Full(Len(q))
         THEN /\ buffers' = [buffers EXCEPT ![obj[t]] = Keep(q)]
              /\ held' = held \ {q[k].buf : k \in 1 .. Len(q) - Len(Keep(q))}
         ELSE UNCHANGED <<buffers, held>>
    /\ UNCHANGED <<call, obj, buf, reply, streams, issued, inferenceMutex, vdo,
                   vdoId, produced, clientVars, crashed>>
GiEvictLate(t)  == GiEvictWhen(t, LAMBDA n : n > MaxSavedFrames, Tail)
GiEvictEarly(t) == GiEvictWhen(t, LAMBDA n : n >= MaxSavedFrames - 1, Tail)
GiEvictAll(t)   == GiEvictWhen(t, LAMBDA n : n >= MaxSavedFrames,
                               LAMBDA q : << >>)

\* Lock, MaybeDeleteOldestFrame.
GiEvict(t) ==
    LET o == obj[t] IN
    /\ pc[t] = "gi_evict"
    /\ mutex = None
    /\ mutex' = t
    /\ Goto(t, "gi_get")
    /\ IF Len(buffers[o]) >= MaxSavedFrames
         THEN /\ buffers' = [buffers EXCEPT ![o] = Tail(@)]
              /\ held' = held \ {Head(buffers[o]).buf}
         ELSE UNCHANGED <<buffers, held>>
    /\ UNCHANGED <<call, obj, buf, reply, streams, issued, inferenceMutex, vdo,
                   vdoId, produced, clientVars, crashed>>

GiGet(t) == pc[t] = "gi_get" /\ GetBuffer(t, "gi_save", "CANCELLED")

\* Mutant: the queue is not tested for being empty, the value read is garbage.
NextRefUnchecked(q) ==
    IF q = << >> THEN None ELSE (q[Len(q)].id + 1) % RefModulus
\* Mutant: the reference is the position in the queue.
NextRefPosition(q) == Len(q) + 1

\* SaveFrame's reference: one more than the last saved one, from 1 on.
NextRef(q) == IF q = << >> THEN 1 ELSE (q[Len(q)].id + 1) % RefModulus

\* Mutant: a buffer without data is not given back.
GiSaveLeak(t) ==
    /\ pc[t] = "gi_save"
    /\ Return(t, "CANCELLED")
    /\ UNCHANGED <<streams, queueVars, vdoVars, clientVars, crashed>>

\* SaveFrame and unlock; without data, the buffer is given back instead.
GiSave(t) ==
    LET o == obj[t]
        f == [id |-> NextRef(buffers[o]), buf |-> buf[t]] IN
    /\ pc[t] = "gi_save"
    /\ \/ /\ buffers' = [buffers EXCEPT ![o] = Append(@, f)]
          /\ issued' = [issued EXCEPT ![o] = Append(@, f)]
          /\ mutex' = Released(mutex, t)
          /\ Goto(t, "pr_copy")
          /\ UNCHANGED <<call, obj, buf, reply, inferenceMutex, held>>
       \/ /\ held' = held \ {buf[t]}
          /\ Return(t, "CANCELLED")
          /\ UNCHANGED queueVars
    /\ UNCHANGED <<streams, vdo, vdoId, produced, clientVars, crashed>>

\* The data is copied to a file under the inference mutex. The request may have
\* another input, captured in the same way (each capture spends the budget);
\* what larod does next does not concern this module, except that it can fail.
PrCopy(t) ==
    /\ pc[t] = "pr_copy"
    /\ \/ /\ Return(t, "OK") \/ Return(t, "CANCELLED")
          /\ UNCHANGED budget
       \/ /\ budget["Predict"] > 0
          /\ budget' = [budget EXCEPT !["Predict"] = @ - 1]
          /\ Goto(t, "gi_find")
          /\ obj' = [obj EXCEPT ![t] = None]
          /\ buf' = [buf EXCEPT ![t] = None]
          /\ UNCHANGED <<call, reply, mutex, inferenceMutex>>
    /\ UNCHANGED <<streams, queueVars, vdoVars, known, crashed>>

-----------------------------------------------------------------------------
(* Clients and the specification                                           *)

Busy == {t \in Threads : pc[t] # "idle"}

\* Clients may send anything at any time. Careful ones use only the ids they
\* were told, and delete a stream when no call on it is pending.
MayBegin(op, i) ==
    Careful => /\ op # "NewStream" => i \in known
               /\ op = "DeleteStream" => \A u \in Busy : call[u].id # i

\* gRPC hands thread t a request. A client that deletes an id forgets it.
Begin(t) ==
    \E op \in Ops, i \in StreamIds, r \in Refs :
        /\ pc[t] = "idle"
        /\ budget[op] > 0
        /\ op # "GetFrame" => r = 0
        /\ MayBegin(op, i)
        /\ Goto(t, Start[op])
        /\ call' = [call EXCEPT ![t] =
                      [op |-> op, ref |-> r,
                       id |-> IF op = "NewStream" THEN None ELSE i]]
        /\ reply' = [reply EXCEPT ![t] = "none"]
        /\ budget' = [budget EXCEPT ![op] = @ - 1]
        /\ known' = IF op = "DeleteStream" THEN known \ {i} ELSE known
        /\ UNCHANGED <<obj, buf, streams, queueVars, mutex, inferenceMutex,
                       vdoVars, crashed>>

Handler(t) ==
    \/ NsNew(t) \/ NsEmplace(t) \/ NsStart(t)
    \/ DsFind(t) \/ DsErase(t) \/ DsStop(t)
    \/ GfFind(t) \/ GfSaved(t) \/ GfCopy(t) \/ GfGet(t) \/ GfUnref(t)
    \/ PrLock(t) \/ GiFind(t) \/ GiEvict(t) \/ GiGet(t) \/ GiSave(t)
    \/ PrCopy(t)

Step(t) == ~crashed /\ Handler(t)

\* A server without requests waits, a dead one stays dead.
Rest == (crashed \/ Busy = {}) /\ UNCHANGED vars

Next == \/ \E t \in Threads : Step(t) \/ (~crashed /\ (Begin(t) \/ Crash(t)))
        \/ Rest

Spec == Init /\ [][Next]_vars

\* The operating system runs every thread that can run.
FairSpec == Spec /\ \A t \in Threads : WF_vars(Step(t))
-----------------------------------------------------------------------------
(* Properties                                                              *)

\* Every variable has its type.
TypeOK ==
    /\ pc \in [Threads -> Labels]
    /\ call \in [Threads -> [op : Ops \union {"none"}, ref : Nat,
                             id : StreamIds \union {None}]]
    /\ obj \in [Threads -> Streams \union {None}]
    /\ buf \in [Threads -> Buffers \union {None}]
    /\ reply \in [Threads -> Replies]
    /\ streams \in [StreamIds -> Streams \union {None}]
    /\ buffers \in [Streams -> Seq(Frame)]
    /\ mutex \in Threads \union {None}
    /\ inferenceMutex \in Threads \union {None}
    /\ vdo \in [Streams -> {"unborn", "created", "started", "freed"}]
    /\ vdoId \in [Streams -> StreamIds \union {None}]
    /\ produced \in [Streams -> Nat]
    /\ held \subseteq Buffers
    /\ issued \in [Streams -> Seq(Frame)]
    /\ known \subseteq StreamIds
    /\ budget \in [Ops -> Nat]
    /\ crashed \in BOOLEAN

\* The queue of a stream holds exactly the frames saved last, in their order,
\* never more than MaxSavedFrames and, once there were as many, never fewer than
\* MaxSavedFrames - 1: not even between MaybeDeleteOldestFrame and SaveFrame, or
\* after a capture that failed there.
SavedIsWindow ==
    \A o \in Streams :
        LET q == Len(buffers[o])
            n == Len(issued[o]) IN
        /\ q <= MaxSavedFrames
        /\ q <= n
        /\ n < MaxSavedFrames - 1 => q = n
        /\ n >= MaxSavedFrames - 1 => q >= MaxSavedFrames - 1
        /\ \A k \in 1 .. q : buffers[o][k] = issued[o][n - q + k]

\* The references of a stream count 1, 2, 3, ... without gap or repetition up to
\* the width of the type: failed captures, evictions and predictions of other
\* threads never make SaveFrame start over or skip.
RefsInOrder ==
    \A o \in Streams : \A j \in DOMAIN issued[o] :
        issued[o][j].id = j % RefModulus

\* The VDO buffers not given back are those in the queues (of deleted streams
\* too: DeleteStream drops the queue only) and those in the hand of a handler
\* that will give them back or save them, each in one place: no buffer is given
\* back twice, none is lost on an error path, none is given back while saved.
Queued(o) == {buffers[o][k].buf : k \in DOMAIN buffers[o]}
InHand    == {t \in Threads : pc[t] \in {"gf_unref", "gi_save"}}
BufferOwnership ==
    /\ held = (UNION {Queued(o) : o \in Streams}) \union {buf[t] : t \in InHand}
    /\ \A o \in Streams : \A j, k \in DOMAIN buffers[o] :
         j # k => buffers[o][j].buf # buffers[o][k].buf
    /\ \A t \in InHand :
         /\ \A o \in Streams : buf[t] \notin Queued(o)
         /\ \A u \in InHand \ {t} : buf[u] # buf[t]

\* A handler reads the data of a buffer only while the buffer is held: Predict
\* after it has released Capture::_mutex, since no other Predict can evict the
\* frame before it is copied, GetFrame since it keeps the mutex.
CopyFromHeld ==
    \A t \in Threads : pc[t] \in {"gf_copy", "pr_copy"} => buf[t] \in held

\* The saved frame that GetFrame found is the last one saved under the reference
\* asked for on the stream it looked up, and so it is when it is copied.
SavedAnswerRight ==
    \A t \in Threads : pc[t] = "gf_copy" =>
        \E j \in DOMAIN issued[obj[t]] :
            /\ issued[obj[t]][j] = [id |-> call[t].ref, buf |-> buf[t]]
            /\ \A k \in DOMAIN issued[obj[t]] :
                 k > j => issued[obj[t]][k].id # call[t].ref

\* The id VDO gave to a new stream has no entry in the map, so emplace inserts:
\* DeleteStream erases the entry before it releases the stream and its id.
EmplaceInserts ==
    \A t \in Threads : pc[t] = "ns_emplace" => streams[call[t].id] = None

\* No handler uses a map node that was erased or a VDO stream that was released
\* after it looked them up.
NoDanglingUse == \A t \in Threads : ~Dangling(t)

\* GetFrame serves "a frame from a specific stream": from its lookup to its answer
\* the stream that it has found is neither erased from the map nor released.
GetFrameKeepsStream ==
    \A t \in Threads :
        pc[t] \in {"gf_saved", "gf_copy", "gf_get", "gf_unref"} => ~Dangling(t)

\* Who waits for a mutex waits for a call that is under way and, if that one waits
\* for the other mutex, for one that waits for none: the mutexes are taken in one
\* order and released on every way out of a handler.
WaitsForMutex(t) ==
    \/ pc[t] = "pr_lock" /\ inferenceMutex # None
    \/ pc[t] \in {"gf_saved", "gi_evict"} /\ mutex # None
Holder(t) == IF pc[t] = "pr_lock" THEN inferenceMutex ELSE mutex
NoLockCycle ==
    \A t \in Threads : WaitsForMutex(t) =>
        LET u == Holder(t) IN
        /\ u \in Busy
        /\ WaitsForMutex(u) => /\ Holder(u) \in Busy
                              /\ ~WaitsForMutex(Holder(u))

\* GetFrame answers that a saved frame is not there only if the frame is not
\* among the MaxSavedFrames - 1 saved last on the stream at that time.
RecentFramesServed ==
    [][\A t \in Threads :
         pc[t] = "gf_saved" /\ reply'[t] = "NOT_FOUND" =>
             \A j \in DOMAIN issued[obj[t]] :
                 j > Len(issued[obj[t]]) - (MaxSavedFrames - 1) =>
                     issued[obj[t]][j].id # call[t].ref]_vars

\* "Stream not found" is the answer only for an id no client was told or one
\* that was deleted.
KnownStreamFound ==
    [][\A t \in Threads :
         pc[t] = "gf_find" /\ reply'[t] = "FAILED_PRECONDITION" =>
             call[t].id \notin known]_vars

\* Every call returns, unless it waits for a frame of a stalled camera itself or
\* for a mutex of a prediction that does. In particular no handler keeps a mutex
\* on any of its ways out, and no two handlers wait for each other.
AtStalledCamera(t) ==
    pc[t] \in {"gf_get", "gi_get"} /\ call[t].id \in Stalled
BlockedByCamera(t) ==
    \/ AtStalledCamera(t)
    \/ \E u \in Threads :
         /\ AtStalledCamera(u)
         /\ \/ pc[t] = "pr_lock" /\ inferenceMutex = u
            \/ pc[t] \in {"gi_evict", "gf_saved"} /\ mutex = u
EveryCallReturns ==
    \A t \in Threads :
        pc[t] # "idle" ~> pc[t] = "idle" \/ crashed \/ BlockedByCamera(t)

\* A GetFrame for a new frame of a live camera returns even while predictions
\* wait, with both mutexes locked, for a frame of a stalled one.
NewFrameDespiteStall ==
    \A t \in Threads : \A i \in StreamIds \ Stalled :
        call[t] = [op |-> "GetFrame", ref |-> 0, id |-> i] ~>
            pc[t] = "idle" \/ crashed

\* The saved frames behave like the store of FrameStore.
Store == INSTANCE FrameStore WITH
    Capacity <- MaxSavedFrames,
    history <- [o \in Streams |->
                  [j \in DOMAIN issued[o] |-> issued[o][j].buf]],
    window <- [o \in Streams |-> Len(buffers[o])]
StoreSpec == Store!Spec
=============================================================================
