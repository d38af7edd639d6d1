# ACAP Runtime in TLA+

This directory holds TLA+ modules that model the server of this repository, the
TLC configurations that check them on small instances, and proofs for the TLA+
proof system (tlapm). Paths such as `video_capture.cpp:184` are relative to
`src/src/`.

## 1. The system

ACAP Runtime is one process. `AcapRuntime` (`acap_runtime.cpp`) parses options,
builds a gRPC server with three services and waits in a GLib main loop until a
signal stops it. gRPC runs every request in a thread of its own pool, so any two
handlers, also of the same service, run at the same time.

| part | state | operations | talks to |
| --- | --- | --- | --- |
| video capture service, `video_capture.cpp` | `_streams`: id -> VDO stream and queue of saved frames; `_mutex` | `NewStream`, `DeleteStream`, `GetFrame`; `GetImgDataFromStream` for the inference service | VDO (camera streams and buffers) |
| inference service, `inference.cpp` | `_conn`, `_models`: name -> larod model; members for the tensors and the preprocessing of the running prediction; `_mutex` | constructor, `Predict`, destructor | larod (inference), the capture service by a direct call, temporary files |
| parameter service, `parameter.cpp` | one axparameter handle | `GetValues` | axparameter |
| runtime, `acap_runtime.cpp`, `main.c` | main loop, server | start, signals, shutdown | all services |
| helpers, `util.cpp`, `read_text.cc` | none | read a parameter, read a file | runtime |

How they interact:

* `Predict` with a stream id calls `GetImgDataFromStream` on the capture service
  while it holds `Inference::_mutex`; inside, `Capture::_mutex` is taken. That
  call captures a frame, saves it in the stream's queue under a reference and
  returns a bare pointer to its data.
* A client takes the reference from the answer and fetches the same frame with
  `GetFrame`, from another thread, while further predictions evict old frames.
* `DeleteStream` takes no lock. `_streams` and `_models` are `std::map`s that are
  searched and changed without one.

What is hard in this code, and what makes each part correct:

* **Capture service.** Threads meet in an unlocked map, in queues locked by one
  mutex for all streams, and in VDO buffers whose lifetime is kept by hand.
  Correct means: the queue holds the frames saved last and at most
  `MAX_NBR_SAVED_FRAMES`; no two frames in a queue have the same reference, however
  often references wrap; each VDO buffer is given back once; nobody copies from a buffer given
  back; a recent frame can be fetched; no handler uses a stream that is gone; a
  camera that stalls stops as little as possible.
* **Inference service.** Some twenty calls in a row can fail, each leaving other
  objects to clean up; the state of a prediction is in members; models are loaded
  outside the lock; data goes through files identified by numbers that the
  process shares. Correct means: a prediction works on its own tensors and one
  model, binds every input of the request to a tensor of its own, loses nothing
  on any way out, resizes every image that needs it, answers with every output of
  the model under its type and with the reference of the frame it used, and
  returns.
* **Runtime.** Signals race with the start and the end of the main loop;
  shutdown waits for handlers that may be stuck in a camera; requests come as
  soon as the server is built; whatever fails on the way, services are destroyed
  in the reverse order of their construction. Correct means: no handler runs on a
  service before its constructor or after its destructor, a signal to the waiting
  server ends it, and the settings are those of the options and parameters.
* **Parameter service, helpers.** No state shared between requests.

`PROJECT.json` lists the components, and under `hazards` every place where this
code can go wrong in a way a test hardly reaches, with the property that covers
it or the reason why none does.

## 2. The modules

| module | what it is |
| --- | --- |
| `FrameStore` | abstract: what the saved frames promise, without threads, locks, map or references |
| `VideoCapture` | the capture service, its callers and VDO, at the grain of accesses to shared state |
| `Inference` | the inference service, its model cache, larod objects and temporary files |
| `TensorTypes` | the tables between larod's and TensorFlow's types, used by Inference |
| `ServiceLife` | abstract: when handlers may run on a service object |
| `Runtime` | the process: start-up, parameters, services and server, main loop, signals, shutdown |
| `FrameStoreProofs` | the theorem about the abstract store |
| `VideoCaptureProofs` | theorems about the saved frames, the buffers and the mutexes of VideoCapture |
| `StreamLifeProofs` | theorems about its streams: the map, the VDO objects and their ids |
| `InferenceProofs`, `RuntimeProofs` | theorems about Inference and Runtime |
| `MCVideoCapture`, `MCInference`, `MCRuntime` | instances for TLC, with their `.cfg` files |

A definition with "Mutant" in its comment is a wrong variant of the definition
that follows it. It is no part of any specification: `PROJECT.json` pairs it with
a property, which TLC finds violated when the variant takes the definition's
place. That shows that the property depends on the code.

### VideoCapture

A thread has a control point `pc`, its request `call`, the stream it found `obj`
and the buffer in its hand `buf`. The actions are the handlers, cut where they
touch something shared:

| handler | actions |
| --- | --- |
| `NewStream` (46-79) | `NsNew` (VDO stream and id), `NsEmplace`, `NsStart` |
| `DeleteStream` (82-100) | `DsFind`, `DsErase`, `DsStop` |
| `GetFrame` (104-158), `GetDataFromSavedFrame` (235-259) | `GfFind`, then for a saved frame `GfSaved` (lock and search) and `GfCopy`, for a new one `GfGet` and `GfUnref` |
| `Predict` (`inference.cpp:186-211`), `GetImgDataFromStream` (161-204) | `PrLock`, `GiFind`, `GiEvict` (lock, `MaybeDeleteOldestFrame`), `GiGet`, `GiSave` (`SaveFrame`, unlock), `PrCopy` |

`streams` is `_streams`; `buffers[o]` is the queue in the node of stream object
`o`, and stays what it was when the node is erased, so that a thread with a stale
iterator has something to read. `vdo`, `vdoId`, `produced`, `held` are VDO: the
state of a stream, its id (reused after release), how many buffers it has
delivered, which were not given back. `issued` is a history variable: all frames
ever saved on a stream.

Undefined behaviour is a choice. Two threads at `_streams` of which one writes
(`MapRace`) may make a search miss an entry or kill the process (`Crash`), and if
both write (`WriteRace`), an inserted entry may get lost. An `erase` in a race
does what it should or the process dies; of all else a corrupted tree could do
the model has nothing. A thread that uses an erased node or a released stream
(`Dangling`) goes on with the old contents or crashes. The searches are one step
with the use of what they find in the next lines (111 with 116, 169 with 175):
an erase in between shows as one before the next step, which uses the same node.

`Careful` says what clients do: anything at any time (FALSE), or only use ids
they were told and delete a stream when no call on it is pending (TRUE).
`Stalled` names the streams whose camera never delivers a frame.

### Inference

`Predict` is cut at each call to larod, to the capture service, or on a file.
`member[k]` says which thread has created the larod object that the member
pointer `k` points to, `live[k]` how many such objects there are: when a member
is overwritten, `live` goes on counting the lost one. `fd` gives the owner of
each file number; a new file gets the lowest free one, as POSIX demands, and
closing a number closes the file of whoever has it. `files[t]` is `inFiles`
followed by `outFiles` (in `LoadModel`, the model file). `job[t]` holds the other
locals, among them `frameRef`, which starts as "garbage" since line 144 does not
initialise it.

The image itself is reduced to two facts: whether it is a file in shared memory
(`DT_STRING`), and what the comparison of its size with the model's says. That is
a set: with fewer than three dimensions in the request, lines 742-743 read
dimensions nobody wrote, and either outcome is possible. `bound` lists, tensor by
tensor, the input of the request and the source of its image, in any order of the
inputs, since a protobuf map has none. `Respond` builds the answer of
`LarodOutputToPredictResponse` from the model's output tensors, the tables in
TensorTypes and the files on the list. It asks that each number it reads from is
open, not whose it is: `pread` reads whatever file has the number, and a file
that is shorter than the tensor leaves the rest of the answer zero without an
error, since line 983 looks for a negative result only. `GetImgDataFromStream` appears as a call
that may fail; VideoCapture has its inside. In this module it always returns. It
would not with a stalled camera, as the run `live` takes into account.

Inference does not know the server: that `Begin` happens only when the service is
constructed, and `Destroy` only when every thread is idle, is what ServiceLife
promises and Runtime is shown to keep (`InferenceLivesInOrder`).

The races at `_models` are those at `_streams`: a search during an insert may miss
an entry (`MapRace`), two inserts at once may lose one (`WriteRace`), and either
may end the process.

### Runtime and ServiceLife

`pc` is the main thread in `AcapRuntime` and `RunServer`:

| code | actions |
| --- | --- |
| `init_signals` (68-78), options (189-229) | `InitSignals`, `ParseOptions` |
| parameters (230-251), `get_parameter_value` | `ReadParameter`, once for each of the four |
| credentials (100-113), `read_text` | `Credentials` |
| the services and `BuildAndStart` (116-130) | `Construct`, four times |
| socket (132-140) | `OwnSocket` |
| `sleep` or `g_main_loop_new`, `g_main_loop_run`, `g_main_loop_unref` (143-151) | `Wait`, `WakeUp`, `RunLoop`, `Poll`, `LeaveLoop`, `ReleaseLoop` |
| `Shutdown` (154), also in the server's destructor | `Refuse`, `Drained` |
| destructors (155), also when an exception unwinds | `Destroy`, `Return` |
| `handle_signals` (56-63) | `Signal`, possible at any time |

`built` counts the locals of `RunServer` that exist, in the order of `Locals`. `Throw` goes to the same
unwinding as a normal end, because C++ does. `loop` is what the static variable
of that name points to; it is never reset, so after `ReleaseLoop` it dangles, and
`Quit` may crash. `g_main_loop_run` is cut where GLib takes and releases the lock
of the loop's context: a signal handler that runs while the main thread holds it
hangs there ("hung"), which the code allows, since `g_main_loop_quit` is not safe
in a signal handler.

A device parameter's value is reduced to what `strcmp` with "yes" and `atoi` find
in it. The pointer `get_parameter_value` returns is into a string that is gone,
so for a parameter that exists any value may be read; one that does not exist, or
whose `fgets` a signal interrupts, reads as "", which is a literal and safe.

Handlers are abstract here: `serving[t]` is the service whose handler runs in
thread `t`, `stuck` those that wait for a camera forever. `GetValues`, which has
no state, is the parameter service's handler in full.

ServiceLife has a phase and the set of threads in handlers. Runtime implements it
twice, by two mappings of the same variables: for the inference service, and for
the capture service, which handlers of the inference service use as well.

## 3. What TLC checks

| run | instance | shows |
| --- | --- | --- |
| `sharing` | 3 threads, 2 streams one after the other under one id, queue of 3, references modulo 5, up to 5 predictions and 2 `GetFrame`, careful clients | `SavedIsWindow`, `RefsInOrder`, `BufferOwnership`, `CopyFromHeld`, `SavedAnswerRight`, `RecentFramesServed`, `NoLockCycle`, `NoDanglingUse` (the discipline of the clients is enough), and that VideoCapture implements FrameStore (`StoreSpec`) |
| `churn` | 3 threads, 2 stream objects that share one id, clients not careful | `TypeOK`, `EmplaceInserts`, `BufferOwnership` with deletions, races and stale iterators |
| `live` | 2 threads, 2 streams, one camera stalls; weak fairness | `EveryCallReturns`, `NewFrameDespiteStall` |
| `predict` | 2 threads, 2 predictions, one model preloaded and one loaded on use, requests with a resized image from a stream, a file and a resized image, a wrong number of inputs | `TypeOK`, `OwnTensors`, `NoObjectLost`, `NoFileLost`, `PreprocessedIfNeeded`, `FrameReferenceOfCapture`, `InputsBound`, `AnswerMatchesModel` (as to numbers, sizes and types; nothing of the contents), `OneModelPerPrediction`, `EveryPredictReturns` |
| `life` | 2 handler threads, 2 requests, 2 signals, three command lines (socket file; port with `-t`; `-o`), every subset of stored parameters; weak fairness | `TypeOK`, `CrashTakesTwoSignals`, `CaptureLivesInOrder`, `InferenceLivesInOrder` (refinements of ServiceLife), `StopsWhenAsked` |

Runs that end in a violation, because the code does not do what it says:

| run | property | what the code does |
| --- | --- | --- |
| `dangling` | `GetFrameKeepsStream` | `DeleteStream` by one client erases the node that the `GetFrame` of another has found, and `GetFrame` searches the queue in the erased node; both clients use only the id they were told |
| `race` | `KnownStreamFound` | "Stream not found" for a stream the client was told, while another is being created |
| `files` | `FilesIntact` | `CloseTmpFile` closes a number twice; the second time it may be the model file of another prediction (or a client's connection, which is a number of the same table and is not modelled) |
| `twice` | `LoadedModelGetsEntry` | two predictions miss the same model and load it; the second `insert` finds the entry taken, and its model stays in larod, where the destructor does not find it |
| `resize` | `PreprocessedIfNeeded` | with two images to resize, the first is never resized |
| `source` | `StreamImageUsed` | a shared memory file in the request wins over the stream, and `frame_reference` is an uninitialised local |
| `parameters` | `OptionKeptWithoutParameter` | with `-o`, a parameter that does not exist sets port and chip to 0 |

**Bounds.** `CallBudget` bounds how many requests clients send. `sharing` needs
five predictions: three fill the queue, the fourth and fifth evict, and the
reference wraps to 0 at the fifth; two `GetFrame` calls by other threads can
race with them. A second stream and a deletion let a queue, its references and
its buffers outlive their entry in the map. `churn` has two of each call on the
stream's life, so that an id is reused while a third thread still has the old
stream in hand. In `predict`, a thread that returns leaves nothing behind but the
cached model, so two predictions at once cover what a third could meet, except a
third thread in the lock's queue. Six file numbers are what one prediction (five)
and one load need; running out of them is one of the failures. In `life`, two
signals are needed for a crash, and a third could only come after it or be
another lost one; two handlers let one be stuck while the other ends.
`ChipModulus` stands for 2^64; -1 is among the values.
`MaxSavedFrames` is the code's 3. `RefModulus` stands for 2^32 and need only be larger than the queue.
`dangling` needs one
stream, one `GetFrame` and one `DeleteStream`; `InformedSpec` leaves out the calls
with ids no client was told, which could reach a stream before `NewStream` has
answered. `twice` needs two threads with one prediction each.
`Refs` has 0 and a reference that is saved, kept and then evicted in the run. In the
run `predict` a request has at most one image to resize; two are the subject of
the run `resize`.

**Symmetry** of threads and stream objects is used only in runs without liveness
properties.

**Fairness.** `FairSpec` asks weak fairness of each thread's next step: the
operating system runs every thread that can run. Nothing is asked of clients.
For mutexes, weak fairness is enough only because the number of calls is bounded;
`std::mutex` does not promise that a waiting thread ever wins against an endless
stream of newcomers, and neither do these properties. A camera in `Stalled`
disables the step that waits for it. `EveryCallReturns` excepts a handler that
waits for such a camera and those that wait for a mutex it holds.

In Runtime, fairness is asked of the main thread and of each handler that is not
stuck; signals and requests may stop coming. `StopsWhenAsked` excepts a stuck
handler, for which `Shutdown` waits without a deadline, and the hang in
`g_main_loop_quit`; it says nothing of signals before the server waits, which the
code may lose.

**Deadlock** is checked in all passing runs except `live`, where handlers wait
for the stalled camera forever, as in the code.

## 4. What is proved

For all values of the constants that satisfy the `ConstantsAssumption` of each
module: any number of threads, streams, models, requests, signals and calls; any
queue length of at least 2; any reference width larger than the queue; map races
and stale iterators included.

| theorem | states |
| --- | --- |
| **`VideoCaptureProofs`** | |
| `TypeCorrect` | `Spec => []TypeOK` |
| `SavedFramesAreWindow` | `Spec => []SavedIsWindow` |
| `ReferencesInOrder` | `Spec => []RefsInOrder` |
| `BuffersOwned` | `Spec => []BufferOwnership` |
| `CopiesFromHeld` | `Spec => []CopyFromHeld` |
| `AnswersRight` | `Spec => []SavedAnswerRight` |
| `RecentFramesAnswered` | `Spec => RecentFramesServed`, an action property |
| `FramesImplementStore` | `Spec => StoreSpec`, the refinement |
| `LocksFree` | `Spec => []NoLockCycle` |
| **`StreamLifeProofs`** | |
| `IdsFreshInMap` | `Spec => []EmplaceInserts` |
| `CarefulClientsSafe` | `Careful` implies `Spec => []NoDanglingUse` |
| **`FrameStoreProofs`** | |
| `RecentFramesKept` | what the abstract store promises |
| **`InferenceProofs`** | |
| `TypeCorrect` | `Spec => []TypeOK` |
| `TensorsOwned` | `Spec => []OwnTensors` |
| `FilesKept` | `Spec => []NoFileLost` |
| `ModelKept` | `Spec => OneModelPerPrediction`, an action property |
| `AllInputsBound` | `Spec => []InputsBound` |
| `FrameReferenceRight` | `Spec => []FrameReferenceOfCapture` |
| `AnswerComplete` | `Spec => []AnswerMatchesModel` |
| `ObjectsKept` | `OneResized` implies `Spec => []NoObjectLost` |
| `Preprocessed` | `OneResized` implies `Spec => []PreprocessedIfNeeded` |
| **`RuntimeProofs`** | |
| `TypeCorrect` | `Spec => []TypeOK` |
| `CaptureLifeImplemented`, `InferenceLifeImplemented` | `Spec => CaptureLivesInOrder`, `Spec => InferenceLivesInOrder`: Runtime implements ServiceLife |
| `OneSignalIsSafe` | `Spec => []CrashTakesTwoSignals` |

Three theorems have a hypothesis beside the constants' assumptions, each with a run
that shows what happens without it:

* `CarefulClientsSafe` assumes `Careful`, the discipline of the clients. The
  server asks for none; the run `dangling` shows what happens without it, for
  clients that at least use only ids they were told: the part of `NoDanglingUse`
  that is about `GetFrame` (`GetFrameKeepsStream`) is violated. A `Predict` that
  has found a stream is exposed in the same way.
* `ObjectsKept` and `Preprocessed` assume `OneResized`: a request has at most one
  image that may be of another size than the model's. The requests of the run `predict` satisfy it; the run
  `resize` shows that two such images lose the first one's preprocessing.

### VideoCapture

The argument is in three layers, each an inductive invariant that contains the
one before:

1. `TypeInv` adds to `TypeOK` that a handler has a stream, a buffer or an id at
   the control points where it uses one (`LocalsSet`).
2. `WindowInv` adds that the control points between locking and unlocking are
   reached by the holder of the mutex only (`LocksHeld`), and that between
   `MaybeDeleteOldestFrame` and `SaveFrame` the queue has room (`RoomLeft`).
   Neither `SavedIsWindow` nor `RefsInOrder` is inductive without it: two threads
   between eviction and save would overfill the queue. Only `GiEvict` and
   `GiSave` change a queue, which lemma `QueuesKept` establishes once.
   `NextRefCounts` needs that modular counting has no gap, from the uniqueness of
   quotient and remainder (`DivisionUnique`, `RemainderIs`).
3. `OwnerInv` adds who owns a VDO buffer (`Owned`): queued, or in one hand; a
   buffer's number is not above what VDO has delivered, so a new one is new; a
   buffer that a handler is copying is still queued with the handler's stream.
   The last needs both mutexes: `GetFrame` copies under `Capture::_mutex`, which
   eviction takes too; `Predict` copies after it has released that, but still
   under `Inference::_mutex`, without which no other prediction evicts.

`RecentFramesAnswered` adds to `WindowInv` that a running handler has not
answered yet, and `FramesImplementStore` maps each step to a step of FrameStore:
`GiSave` to `Save`, `GiEvict` on a full queue to `Drop`, the others to a stutter.

`AnswersRight` holds however often references wrap, although a reference then
names many frames of the stream: the frames in the queue are the last of the history, fewer than
the width of a reference, so any later frame has another remainder
(`RemaindersDiffer`, `QueuedIsLast`). That the answer stays right while it is
copied needs the mutex, which keeps `SaveFrame` of other threads out.

`LocksFree` needs the converse of `LocksHeld` (`LocksScoped`): a mutex that is
locked has an owner inside its critical section. Since those who own
`Capture::_mutex` wait for no mutex and those who own `Inference::_mutex` at most
for that one, no circle can close. This is the safety part of
`EveryCallReturns`.

In `StreamLifeProofs`, `MapInv` relates three things that handlers change in
separate steps: the entry in the map, the state of the VDO stream and its id. An
entry is of a live stream with the entry's id (`Mapped`); a stream made by
`NewStream` and not yet in the map is in no other hand, and no other call has
its id (`Newborn`); a stream about to be released is in no entry (`Deleting`),
since `DeleteStream` erases first. `EmplaceInserts` follows. The invariant holds
for any clients, also those that delete a stream by a guessed id before its
`NewStream` has answered.

For careful clients, `CareInv` adds that ids clients know are of live streams;
that a `DeleteStream` is the only call on its id, which no client knows any more
and VDO gives to nobody yet (`Alone`); that the stream being started or deleted
is live and the call's own (`Own`); and that what a handler found in the map is
still there (`Using`). It takes all four: a new call on the id is kept away by
`known`, a new stream under it by VDO, and a call in progress by the clients.

### Inference

Two chains of inductive invariants, and one that joins them:

1. `TypeInv` adds to `TypeOK` that a member that is set points to an object that
   exists (`MembersLive`) and that a handler has the locals its control point
   uses (`Locals`). `MemberInv` adds mutual exclusion: exactly the owner of the
   mutex is at a locked control point, and only its members are set
   (`Exclusive`); it also says which members exist where (`MembersOf`).
   `OwnTensors` follows.
2. `ModelInv` adds that the models in the map and in the hands of threads are
   loaded, and that handlers run only on a constructed service; a model is looked
   up outside the mutex, but none is deleted before the destructor. `ModelKept`
   is an action property over it.
3. `BindInv` adds that the inputs bound so far are distinct inputs of the request
   and as many as the list has entries, so that a list as long as the model's
   inputs leaves none out (with the cardinality theorems of the library).
   `ResponseInv` follows the status, the frame reference and the answer from
   where they are set to the reply.
4. `ObjectInv`, under `OneResized`, says that there is one object per member that
   is set and that the members still to be created (`ToCome`) are not set
   (`ObjectsOf`), so no creation overwrites one; and that a resized image is
   either still to do, or the one the preprocessing members are for
   (`PreprocessingOf`). With two such images the second creation overwrites the
   first, which is where the proof uses the hypothesis.

`NoFileLost` is inductive with `TypeInv`, which has that a handler that returns has
an empty list of files: every way out goes through the loops that close it.
`AnswerComplete` uses lemma `Tables` on the tables of types: the type of an answer
leads back to larod's, except for the two that TensorFlow's table lacks, and the
size of an element is the width in the name of its type (`Bits`). It is about
which number is read, how many bytes are answered and under which type. That the
file with the number is still the prediction's own is another matter: `FilesIntact`
says it, and the run `files` refutes it.

`ObjectsKept` is about the six members: tensors, map and preprocessing model. A
model that `LoadModel` loads and then drops is the subject of the run `twice`.

### Runtime

`TypeInv` adds to `TypeOK` what ties the control point to the locals
(`Stack`): none exist before the services are constructed, all do from the socket
to the end of `Shutdown`, and while a handler runs or the server accepts
requests. `EveryStepIsLifeStep` shows for any service and any set of services
whose handlers use it that each step is a step of ServiceLife or a stutter; the
two refinement theorems are instances of it. `Warned` counts the signals that
must have come for the main loop to have ended.

### Only model-checked

Liveness: `EveryCallReturns`, `NewFrameDespiteStall`, `EveryPredictReturns`,
`StopsWhenAsked`. They need fairness and so `ENABLED`, which the proof system
cannot reason about. The properties of the runs that end in a violation are false
and have counterexamples instead.

### Modelled, without a property

What the code does every time, against its docs or to nobody's benefit, has no
property that a run could only refute again: the saved frame whose reference
wraps to 0 after 2^32 predictions is not fetched, as `GetFrame` takes 0 for a new
frame; a prediction without a stream answers with the uninitialised `frame_ref`,
although `predict_additions.patch:20-21` says the field "is only set if stream_id
was included in the request"; a stream whose start fails stays in the map; a
negative chip number becomes a huge one. A prediction whose second search at line
177 runs during another thread's insert may answer "Unknown model" for the model
it has just loaded, the race that `race` shows at `_streams`.

## 5. Not modelled

* Data: pixels and their format (a captured frame of the model's own size goes
  into it as YUV, unconverted), dimensions, names of inputs, wording of errors,
  logging, frame timestamps and type, contents of files (a short `fwrite` in
  `CreateTmpFile` or a short `pread` in `LarodOutputToPredictResponse` goes
  unnoticed by the code), values of parameters in `GetValues`.
* Malformed requests beyond a wrong number of inputs or dimensions: a `DT_STRING`
  without a string (line 757 of `inference.cpp`), a shape with more dimensions
  than `larodTensorDims` holds (lines 722-724).
* What else uses the process's file numbers: gRPC's sockets, larod's connection.
* Buffers of a deleted stream: `BufferOwnership` counts them as held by the queue
  of the erased node; what VDO does with them when it releases the stream is not
  in this repository.
* The `USE_MEMFD_CREATE` variant of the temporary files, which the Makefile does
  not build.
* Failures of `larodDeleteModel` for a preprocessing model and of
  `vdo_stream_buffer_unref`: the code logs or ignores them and there is nothing
  it could do.
* Tests, build files, generated protobuf code.

## 6. Plan

Done: all modules above, their runs, and a theorem for every safety invariant,
action property and refinement that a passing run checks.

Next:

1. Where a violation has a smallest sufficient condition, prove that it is one:
   for `files`, that no file of the service is closed by another when at most one
   thread at a time has files (as `Predict` has under its mutex, and `LoadModel`
   has not), which needs the other users of file numbers in the model;
   for `source`, that requests with exactly one source for each image are
   answered as documented.
2. Inference on top of VideoCapture: that the call Inference sees as one step that
   may fail is what VideoCapture does between `PrLock` and `PrCopy`.
