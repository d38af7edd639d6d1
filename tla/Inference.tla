----------------------------- MODULE Inference -----------------------------
(***************************************************************************)
(* The inference service (inference.cpp): gRPC handler threads run Predict *)
(* on one larod connection. Finding and loading the model is not locked;   *)
(* the rest of Predict runs under Inference::_mutex, works on larod        *)
(* objects that class members point to, and hands data to larod in         *)
(* temporary files, by number: the number of a file that was closed goes   *)
(* to the next file that any thread opens, whatever it is for.             *)
(*                                                                         *)
(* Every call on larod, on the video capture service (VideoCapture.tla has *)
(* that part of Predict) and on files may fail.                            *)
(***************************************************************************)
EXTENDS Naturals, Sequences, FiniteSetsExt, TensorTypes

CONSTANTS
    Threads,      \* gRPC handler threads
    Models,       \* names of model files
    Startup,      \* Seq(Models): the models given on the command line
    Inputs,       \* [Models -> Nat]: tensors of a model
    Outputs,      \* [Models -> Seq(Tensor)]
    Requests,     \* the predictions clients ask for, see Request
    Fds,          \* file numbers
    CallBudget,   \* how many predictions clients ask for in all
    None

\* An output tensor of a model.
Tensor == [name : STRING, type : LarodTypes, elements : Nat]

\* stream: stream_id is not 0. inputs: whether an image is a file in shared
\* memory (DT_STRING), and what a comparison of its size with the model's can
\* say: either, when the shape has fewer than three dimensions, since those
\* compared are then what the stack holds.
Request == [model : Models, stream : BOOLEAN,
            inputs : Seq([file : BOOLEAN, resize : SUBSET BOOLEAN])]

ASSUME ConstantsAssumption ==
    /\ Startup \in Seq(Models)
    /\ Inputs \in [Models -> Nat] /\ Outputs \in [Models -> Seq(Tensor)]
    /\ Requests \subseteq Request
    /\ Fds \subseteq Nat
    /\ CallBudget \in Nat
    /\ None \notin Threads /\ None \notin Requests

VARIABLES
    phase, conn,             \* life of the service; _conn # nullptr
    models, loaded, loads,   \* _models (0: no entry); models loaded in larod;
                             \* the number of the last one
    mutex,                   \* _mutex
    member, live,            \* the members for larod objects: who created the
                             \* object; how many such objects there are
    fd,                      \* who opened the file that has a number
    pc, job, files,          \* per thread: control point, locals, files to
                             \* close
    budget, crashed          \* requests clients may still send; the process
                             \* died

fileVars  == <<fd, files>>
modelVars == <<models, loaded, loads>>
larodVars == <<member, live>>
serveVars == <<phase, conn, budget, crashed>>
vars == <<serveVars, modelVars, larodVars, fileVars, mutex, pc, job>>

Kinds  == {"inputs", "outputs", "ppMap", "ppModel", "ppInputs", "ppOutputs"}
Locked == {"inputs", "input", "pp_map", "pp_model", "pp_inputs", "pp_outputs",
           "pp_file", "ref", "outputs", "out_file", "run_pp", "infer",
           "respond", "cleanup", "close", "close_fd"}
Labels == Locked \union {"idle", "find", "load_open", "load_larod",
                         "load_close", "load_insert", "refind", "lock"}

\* What an input tensor is bound to: an input of the request, and where its
\* image is from.
Binding == [input : Nat, from : {"file", "stream", "request"}]
\* An output in the response: its type, its size in bytes, the file it is from.
Output == [name : STRING, dtype : TfTypes, size : Nat, file : Nat]

\* The locals of Predict: the request, the model LoadModel got, the bindings of
\* _inputTensors so far, the input the preprocessing members are for, those
\* preprocessed, the files of _outputTensors, frame_ref; the frame reference and
\* the outputs in the response.
Job == [req : Requests \union {None}, handle : Nat, bound : Seq(Binding),
        ppFor : Nat, resized : SUBSET Nat, outs : Seq(Nat),
        frameRef : {"garbage", "captured"},
        response : {"unset", "garbage", "captured"},
        answer : SUBSET Output, status : {"OK", "CANCELLED"}]
NewJob == [req |-> None, handle |-> 0, bound |-> << >>, ppFor |-> 0,
           resized |-> {}, outs |-> << >>, frameRef |-> "garbage",
           response |-> "unset", answer |-> {}, status |-> "CANCELLED"]

Resized(r) == {i \in DOMAIN r.inputs : r.inputs[i].resize = {TRUE}}
Todo(t) == DOMAIN job[t].req.inputs \ {b.input : b \in Range(job[t].bound)}

Init ==
    /\ phase = "starting" /\ conn = FALSE
    /\ models = [m \in Models |-> 0] /\ loaded = {} /\ loads = 0
    /\ mutex = None
    /\ member = [k \in Kinds |-> None] /\ live = [k \in Kinds |-> 0]
    /\ fd = [n \in Fds |-> None]
    /\ pc = [t \in Threads |-> "idle"]
    /\ job = [t \in Threads |-> NewJob]
    /\ files = [t \in Threads |-> << >>]
    /\ budget = CallBudget /\ crashed = FALSE

-----------------------------------------------------------------------------
(* Files. A new file gets the lowest free number; a number is closed for     *)
(* whoever has it now.                                                       *)

Free   == {n \in Fds : fd[n] = None}
Lowest == CHOOSE n \in Free : \A k \in Free : n <= k

\* stdio: the file is a FILE, not a number alone.
OpenFile(t, stdio) ==
    /\ Free # {}
    /\ fd' = [fd EXCEPT ![Lowest] = t]
    /\ files' = [files EXCEPT
                   ![t] = Append(@, [fd |-> Lowest, stdio |-> stdio])]
CloseNumber(n) == fd' = [fd EXCEPT ![n] = None]

-----------------------------------------------------------------------------
(* Steps of a thread.                                                        *)

Goto(t, to)   == pc' = [pc EXCEPT ![t] = to]
SetJob(t, j)  == job' = [job EXCEPT ![t] = j]

\* Mutant: the mutex stays locked.
ReturnLocked(t) ==
    /\ Goto(t, "idle")
    /\ SetJob(t, NewJob)
    /\ UNCHANGED mutex

\* Predict returns: its locals go, the scoped lock too.
Return(t) ==
    /\ Goto(t, "idle")
    /\ SetJob(t, NewJob)
    /\ mutex' = IF mutex = t THEN None ELSE mutex

\* Thread t is at an access to _models that races with another thread's insert.
MapRace(t) ==
    \E u \in Threads \ {t} :
        \/ pc[t] = "load_insert" /\ pc[u] \in {"find", "refind", "load_insert"}
        \/ pc[t] \in {"find", "refind"} /\ pc[u] = "load_insert"

\* And both insert.
WriteRace(t) ==
    \E u \in Threads \ {t} : pc[t] = "load_insert" /\ pc[u] = "load_insert"

Crash(t) ==
    /\ MapRace(t)
    /\ crashed' = TRUE
    /\ UNCHANGED <<phase, conn, budget, modelVars, larodVars, fileVars,
                   mutex, pc, job>>

\* _models.find; during another thread's insert it may miss an entry.
Hit(t)  == models[job[t].req.model] # 0
Miss(t) == models[job[t].req.model] = 0 \/ MapRace(t)

Find(t) ==
    /\ pc[t] = "find"
    /\ \/ ~conn /\ Return(t)
       \/ conn /\ Hit(t) /\ Goto(t, "lock") /\ UNCHANGED <<job, mutex>>
       \/ /\ conn /\ Miss(t)
          /\ Goto(t, "load_open")
          /\ UNCHANGED <<job, mutex>>
    /\ UNCHANGED <<serveVars, modelVars, larodVars, fileVars>>

Refind(t) ==
    /\ pc[t] = "refind"
    /\ \/ Hit(t) /\ Goto(t, "lock") /\ UNCHANGED <<job, mutex>>
       \/ Miss(t) /\ Return(t)
    /\ UNCHANGED <<serveVars, modelVars, larodVars, fileVars>>

-----------------------------------------------------------------------------
(* LoadModel, without a lock                                                 *)

LoadOpen(t) ==
    /\ pc[t] = "load_open"
    /\ \/ /\ OpenFile(t, TRUE)
          /\ Goto(t, "load_larod")
          /\ UNCHANGED <<job, mutex>>
       \/ Return(t) /\ UNCHANGED fileVars
    /\ UNCHANGED <<serveVars, modelVars, larodVars>>

LoadLarod(t) ==
    /\ pc[t] = "load_larod"
    /\ Goto(t, "load_close")
    /\ \/ /\ loads' = loads + 1
          /\ loaded' = loaded \union {loads + 1}
          /\ SetJob(t, [job[t] EXCEPT !.handle = loads + 1])
       \/ UNCHANGED <<loads, loaded, job>>
    /\ UNCHANGED <<serveVars, models, larodVars, fileVars, mutex>>

LoadClose(t) ==
    /\ pc[t] = "load_close"
    /\ CloseNumber(files[t][1].fd)
    /\ files' = [files EXCEPT ![t] = << >>]
    /\ IF job[t].handle = 0
         THEN Return(t)
         ELSE Goto(t, "load_insert") /\ UNCHANGED <<job, mutex>>
    /\ UNCHANGED <<serveVars, modelVars, larodVars>>

\* Mutant: the entry that is there is overwritten.
LoadInsertOverwrites(t) ==
    /\ pc[t] = "load_insert"
    /\ models' = [models EXCEPT ![job[t].req.model] = job[t].handle]
    /\ Goto(t, "refind")
    /\ UNCHANGED <<serveVars, loaded, loads, larodVars, fileVars, mutex, job>>

\* insert leaves an entry that is there alone; then the model just loaded has
\* none. In a race with another insert the new entry can get lost.
LoadInsert(t) ==
    LET m == job[t].req.model IN
    /\ pc[t] = "load_insert"
    /\ \/ models' = IF models[m] = 0
                      THEN [models EXCEPT ![m] = job[t].handle] ELSE models
       \/ WriteRace(t) /\ UNCHANGED models
    /\ Goto(t, "refind")
    /\ UNCHANGED <<serveVars, loaded, loads, larodVars, fileVars, mutex, job>>

-----------------------------------------------------------------------------
(* Predict under the lock: SetupInputTensors, SetupPreprocessing,            *)
(* SetupOutputTensors, the jobs, the response. A failure goes to the cleanup.*)

Fail(t) == Goto(t, "cleanup")

\* Mutant: Predict does not wait for the mutex.
LockNone(t) ==
    /\ pc[t] = "lock"
    /\ mutex' = t
    /\ member' = [k \in Kinds |-> None]
    /\ Goto(t, "inputs")
    /\ UNCHANGED <<serveVars, modelVars, live, fileVars, job>>

\* Lock and clear the members.
Lock(t) ==
    /\ pc[t] = "lock"
    /\ mutex = None
    /\ mutex' = t
    /\ member' = [k \in Kinds |-> None]
    /\ Goto(t, "inputs")
    /\ UNCHANGED <<serveVars, modelVars, live, fileVars, job>>

\* larod creates an object for member k and t goes on to one of next, or it does
\* not and the member is null.
Create(t, k, next) ==
    /\ \/ /\ member' = [member EXCEPT ![k] = t]
          /\ live' = [live EXCEPT ![k] = @ + 1]
          /\ \E to \in next : Goto(t, to)
       \/ /\ member' = [member EXCEPT ![k] = None]
          /\ Fail(t)
          /\ UNCHANGED live
    /\ UNCHANGED <<serveVars, modelVars, fileVars, mutex, job>>

\* Mutant: the number of inputs is not looked at.
CreateInputsUnchecked(t) == pc[t] = "inputs" /\ Create(t, "inputs", {"input"})

\* A request with the wrong number of inputs fails.
CreateInputs(t) ==
    /\ pc[t] = "inputs"
    /\ Create(t, "inputs",
              IF Len(job[t].req.inputs) = Inputs[job[t].req.model]
                THEN {"input"} ELSE {"cleanup"})

\* SetupPreprocessing as far as the resizing. The inputs are a map, taken in any
\* order, for one tensor after the other; their names are not looked at. The
\* image comes from the shared memory file, else from the stream, else from the
\* request; the latter two go to a temporary file.
SetupInput(t) ==
    /\ pc[t] = "input"
    /\ \/ Todo(t) = {} /\ Goto(t, "ref") /\ UNCHANGED <<fileVars, job>>
       \/ Todo(t) # {} /\ Fail(t) /\ UNCHANGED <<fileVars, job>>
       \/ \E i \in Todo(t) :
            LET in   == job[t].req.inputs[i]
                from == IF in.file THEN "file"
                        ELSE IF job[t].req.stream THEN "stream" ELSE "request"
            IN  /\ OpenFile(t, ~in.file)
                /\ SetJob(t, [job[t] EXCEPT
                                !.bound = Append(@, [input |-> i, from |-> from]),
                                !.frameRef = IF from = "stream" THEN "captured"
                                                                ELSE @])
                /\ \/ TRUE \in in.resize /\ Goto(t, "pp_map")
                   \/ FALSE \in in.resize /\ (Goto(t, "input") \/ Fail(t))
    /\ UNCHANGED <<serveVars, modelVars, larodVars, mutex>>

PpMap(t)     == pc[t] = "pp_map" /\ Create(t, "ppMap", {"pp_model", "cleanup"})
PpModel(t)   == pc[t] = "pp_model" /\ Create(t, "ppModel", {"pp_inputs"})
PpInputs(t)  == pc[t] = "pp_inputs" /\ Create(t, "ppInputs", {"pp_outputs"})
PpOutputs(t) == pc[t] = "pp_outputs" /\ Create(t, "ppOutputs", {"pp_file"})

\* The intermediate file, between the preprocessing and the model.
PpFile(t) ==
    /\ pc[t] = "pp_file"
    /\ \/ /\ OpenFile(t, TRUE)
          /\ Goto(t, "input")
          /\ SetJob(t, [job[t] EXCEPT
                          !.ppFor = job[t].bound[Len(job[t].bound)].input])
       \/ OpenFile(t, TRUE) /\ Fail(t) /\ UNCHANGED job
       \/ Fail(t) /\ UNCHANGED <<fileVars, job>>
    /\ UNCHANGED <<serveVars, modelVars, larodVars, mutex>>

\* Mutant: the response is not told the reference.
SetFrameReferenceNot(t) ==
    /\ pc[t] = "ref"
    /\ Goto(t, "outputs")
    /\ UNCHANGED <<serveVars, modelVars, larodVars, fileVars, mutex, job>>

\* The local frame_ref goes into the response. If no frame was captured it was
\* never written: its value, 0 or not, is what the stack holds.
SetFrameReference(t) ==
    /\ pc[t] = "ref"
    /\ Goto(t, "outputs")
    /\ \E v \in {job[t].frameRef} \union
                (IF job[t].frameRef = "garbage" THEN {"unset"} ELSE {}) :
         SetJob(t, [job[t] EXCEPT !.response = v])
    /\ UNCHANGED <<serveVars, modelVars, larodVars, fileVars, mutex>>

\* A model without outputs fails.
CreateOutputs(t) ==
    /\ pc[t] = "outputs"
    /\ Create(t, "outputs",
              IF Outputs[job[t].req.model] # << >> THEN {"out_file"}
                                               ELSE {"cleanup"})

\* The file of the next output tensor is made, and larod takes it.
OutFileSet(t) ==
    /\ OpenFile(t, TRUE)
    /\ SetJob(t, [job[t] EXCEPT !.outs = Append(@, Lowest)])
    /\ Goto(t, IF Len(job[t].outs) + 1 = Len(Outputs[job[t].req.model])
                 THEN "run_pp" ELSE "out_file")

\* Mutant: the file goes on the list only when larod has taken it.
OutFileUnlisted(t) ==
    /\ pc[t] = "out_file"
    /\ \/ OutFileSet(t)
       \/ /\ Free # {}
          /\ fd' = [fd EXCEPT ![Lowest] = t]
          /\ Fail(t)
          /\ UNCHANGED <<files, job>>
    /\ UNCHANGED <<serveVars, modelVars, larodVars, mutex>>

OutFile(t) ==
    /\ pc[t] = "out_file"
    /\ \/ OutFileSet(t)
       \/ OpenFile(t, TRUE) /\ Fail(t) /\ UNCHANGED job
       \/ Fail(t) /\ UNCHANGED <<fileVars, job>>
    /\ UNCHANGED <<serveVars, modelVars, larodVars, mutex>>

\* Mutant: the answer to the preprocessing job is not looked at.
RunPreprocessingUnchecked(t) ==
    /\ pc[t] = "run_pp"
    /\ Goto(t, "infer")
    /\ \/ /\ member["ppInputs"] # None
          /\ SetJob(t, [job[t] EXCEPT !.resized = @ \union {job[t].ppFor}])
       \/ UNCHANGED job
    /\ UNCHANGED <<serveVars, modelVars, larodVars, fileVars, mutex>>

\* The preprocessing job, if there are preprocessing inputs.
RunPreprocessing(t) ==
    /\ pc[t] = "run_pp"
    /\ \/ member["ppInputs"] = None /\ Goto(t, "infer") /\ UNCHANGED job
       \/ /\ member["ppInputs"] # None
          /\ Goto(t, "infer")
          /\ SetJob(t, [job[t] EXCEPT !.resized = @ \union {job[t].ppFor}])
       \/ member["ppInputs"] # None /\ Fail(t) /\ UNCHANGED job
    /\ UNCHANGED <<serveVars, modelVars, larodVars, fileVars, mutex>>

RunInference(t) ==
    /\ pc[t] = "infer"
    /\ Goto(t, "respond") \/ Fail(t)
    /\ UNCHANGED <<serveVars, modelVars, larodVars, fileVars, mutex, job>>

\* Mutant: the files of the inputs are taken for those of the outputs.
OutFdFirst(t, k) == files[t][k].fd

\* outFiles[k]: files holds inFiles and then outFiles.
OutFd(t, k) == files[t][Len(files[t]) - Len(job[t].outs) + k].fd

\* LarodOutputToPredictResponse. The outputs are a map by name: of two with the
\* same name the last stays. A larod tensor without a type is an error, and so is
\* a number that no file has; pread reads whatever file has it by now, and leaves
\* zeros where that is too short.
Respond(t) ==
    LET outputs   == Outputs[job[t].req.model]
        Last(n)   == Max({k \in DOMAIN outputs : outputs[k].name = n})
        Answer(n) == LET o == outputs[Last(n)] IN
            [name  |-> n,
             dtype |-> LarodToTfDataType[o.type],
             size  |-> LarodDataTypeSize[o.type] * o.elements,
             file  |-> OutFd(t, Last(n))] IN
    /\ pc[t] = "respond"
    /\ Goto(t, "cleanup")
    /\ \/ /\ \A o \in Range(outputs) : o.type # "INVALID"
          /\ \A k \in DOMAIN outputs : fd[OutFd(t, k)] # None
          /\ SetJob(t, [job[t] EXCEPT
                          !.status = "OK",
                          !.answer = {Answer(o.name) : o \in Range(outputs)}])
       \/ UNCHANGED job
    /\ UNCHANGED <<serveVars, modelVars, larodVars, fileVars, mutex>>

\* Mutants: the map is forgotten; null members are destroyed too.
CleanupOf(t, Destroyed(_)) ==
    /\ pc[t] = "cleanup"
    /\ member' = [k \in Kinds |-> None]
    /\ live' = [k \in Kinds |-> IF Destroyed(k) THEN live[k] - 1 ELSE live[k]]
    /\ Goto(t, "close")
    /\ UNCHANGED <<serveVars, modelVars, fileVars, mutex, job>>
CleanupWithoutMap(t) ==
    CleanupOf(t, LAMBDA k : k # "ppMap" /\ member[k] # None)
CleanupUnchecked(t) == CleanupOf(t, LAMBDA k : TRUE)

\* predict_error: what the members point to is destroyed.
Cleanup(t) ==
    /\ pc[t] = "cleanup"
    /\ member' = [k \in Kinds |-> None]
    /\ live' = [k \in Kinds |->
                  IF member[k] = None THEN live[k] ELSE live[k] - 1]
    /\ Goto(t, "close")
    /\ UNCHANGED <<serveVars, modelVars, fileVars, mutex, job>>

\* CloseTmpFile closes a FILE with fclose, which closes its number, and then the
\* number. After the last file Predict returns.
Close(t) ==
    /\ pc[t] = "close"
    /\ \/ files[t] = << >> /\ Return(t) /\ UNCHANGED fd
       \/ /\ files[t] # << >>
          /\ IF files[t][1].stdio THEN CloseNumber(files[t][1].fd)
                                  ELSE UNCHANGED fd
          /\ Goto(t, "close_fd")
          /\ UNCHANGED <<job, mutex>>
    /\ UNCHANGED <<serveVars, modelVars, larodVars, files>>

CloseFd(t) ==
    /\ pc[t] = "close_fd"
    /\ CloseNumber(files[t][1].fd)
    /\ files' = [files EXCEPT ![t] = Tail(@)]
    /\ Goto(t, "close")
    /\ UNCHANGED <<serveVars, modelVars, larodVars, mutex, job>>

-----------------------------------------------------------------------------
(* The life of the service and its surroundings                              *)

\* The constructor. Without a chip there is no connection. A model that cannot
\* be loaded ends the program; a name given twice is loaded twice.
Construct ==
    LET positions(m) == {i \in DOMAIN Startup : Startup[i] = m} IN
    /\ phase = "starting"
    /\ \/ phase' = "serving" /\ UNCHANGED <<conn, modelVars>>
       \/ /\ phase' = "failed"
          /\ loads' \in {0} \union 0 .. (Len(Startup) - 1)
          /\ loaded' = 1 .. loads'
          /\ UNCHANGED <<conn, models>>
       \/ /\ phase' = "serving" /\ conn' = TRUE
          /\ loads' = Len(Startup) /\ loaded' = DOMAIN Startup
          /\ models' = [m \in Models |->
                          IF positions(m) = {} THEN 0
                          ELSE CHOOSE i \in positions(m) :
                                 \A k \in positions(m) : i <= k]
    /\ UNCHANGED <<budget, crashed, larodVars, fileVars, mutex, pc, job>>

\* The destructor, after the server's Shutdown has waited for all handlers: the
\* models that have an entry are deleted, which can fail.
Destroy ==
    /\ phase = "serving"
    /\ \A t \in Threads : pc[t] = "idle"
    /\ phase' = "down" /\ conn' = FALSE
    /\ \E kept \in SUBSET {models[m] : m \in Models} :
         loaded' = loaded \ ({models[m] : m \in Models} \ kept)
    /\ models' = [m \in Models |-> 0]
    /\ UNCHANGED <<loads, budget, crashed, larodVars, fileVars, mutex, pc,
                   job>>

\* gRPC hands thread t a request.
Begin(t) ==
    /\ phase = "serving"
    /\ pc[t] = "idle"
    /\ budget > 0
    /\ budget' = budget - 1
    /\ \E r \in Requests :
         SetJob(t, [NewJob EXCEPT !.req = r])
    /\ Goto(t, "find")
    /\ UNCHANGED <<phase, conn, crashed, modelVars, larodVars, fileVars, mutex>>

Handler(t) ==
    \/ Find(t) \/ LoadOpen(t) \/ LoadLarod(t) \/ LoadClose(t) \/ LoadInsert(t)
    \/ Refind(t) \/ Lock(t) \/ CreateInputs(t) \/ SetupInput(t)
    \/ PpMap(t) \/ PpModel(t) \/ PpInputs(t) \/ PpOutputs(t) \/ PpFile(t)
    \/ SetFrameReference(t) \/ CreateOutputs(t) \/ OutFile(t)
    \/ RunPreprocessing(t) \/ RunInference(t) \/ Respond(t)
    \/ Cleanup(t) \/ Close(t) \/ CloseFd(t)

Step(t) == ~crashed /\ Handler(t)

\* The service rests when it has nothing to do, or is no more.
Rest == /\ phase # "starting" /\ (crashed \/ \A t \in Threads : pc[t] = "idle")
        /\ UNCHANGED vars

Next == \/ \E t \in Threads : Step(t) \/ (~crashed /\ (Begin(t) \/ Crash(t)))
        \/ ~crashed /\ (Construct \/ Destroy)
        \/ Rest

Spec == Init /\ [][Next]_vars

\* The operating system runs every thread that can run.
FairSpec == Spec /\ \A t \in Threads : WF_vars(Step(t))
-----------------------------------------------------------------------------
(* Properties                                                                *)

\* Every variable has its type.
TypeOK ==
    /\ phase \in {"starting", "serving", "down", "failed"}
    /\ conn \in BOOLEAN
    /\ models \in [Models -> Nat] /\ loaded \subseteq Nat /\ loads \in Nat
    /\ mutex \in Threads \union {None}
    /\ member \in [Kinds -> Threads \union {None}] /\ live \in [Kinds -> Nat]
    /\ fd \in [Fds -> Threads \union {None}]
    /\ pc \in [Threads -> Labels]
    /\ job \in [Threads -> Job]
    /\ files \in [Threads -> Seq([fd : Fds, stdio : BOOLEAN])]
    /\ budget \in Nat /\ crashed \in BOOLEAN

\* A prediction works on one model from the lookup to the cleanup: no other
\* thread replaces the model or deletes it from larod, in particular not one
\* that has loaded the same file at the same time.
OneModelPerPrediction ==
    [][\A t \in Threads : pc[t] \in Locked \union {"lock"} =>
         LET m == job[t].req.model IN
         /\ models[m] \in loaded
         /\ models'[m] = models[m]
         /\ models[m] \in loaded']_vars

\* The models that are loaded have an entry, so that the destructor, "deleting
\* loaded models", finds them: LoadModel never comes with one to an entry that is
\* taken, where insert would drop it.
LoadedModelGetsEntry ==
    [][\A t \in Threads :
         pc[t] = "load_insert" /\ pc'[t] = "refind" =>
             models[job[t].req.model] = 0]_vars

\* What a prediction runs in larod are the tensors it has created itself, and
\* the preprocessing is its own: no other thread puts its objects into the
\* members.
OwnTensors ==
    \A t \in Threads :
        /\ pc[t] \in {"run_pp", "infer", "respond"} =>
             member["inputs"] = t /\ member["outputs"] = t
        /\ pc[t] \in Locked => \A k \in Kinds : member[k] \in {t, None}

\* No tensor, map or preprocessing model that a prediction creates in larod is
\* lost: each one is pointed to by its member, and none is left when no prediction
\* runs, whatever step of the last one failed. (With at most one image to resize
\* in a request. The models that are predicted with are LoadedModelGetsEntry's.)
NoObjectLost ==
    /\ \A k \in Kinds : live[k] = IF member[k] = None THEN 0 ELSE 1
    /\ mutex = None => \A k \in Kinds : member[k] = None

\* A file that a prediction opened stays on its list until its number is closed:
\* no way out of Predict or LoadModel leaves a file open.
NoFileLost ==
    \A n \in Fds : fd[n] \in Threads =>
        /\ pc[fd[n]] # "idle"
        /\ \E k \in DOMAIN files[fd[n]] : files[fd[n]][k].fd = n

\* "Run preprocessing if needed": when the inference starts, every image of
\* another size than the model's has been resized.
PreprocessedIfNeeded ==
    \A t \in Threads : pc[t] = "infer" =>
        Resized(job[t].req) \subseteq job[t].resized

\* A prediction for an image from a stream that answers OK answers with the
\* reference of a frame captured for it.
FrameReferenceOfCapture ==
    \A t \in Threads :
        /\ job[t].status = "OK"
        /\ job[t].req.stream
        /\ \E i \in DOMAIN job[t].req.inputs : ~job[t].req.inputs[i].file
        => job[t].response = "captured"

\* The inference starts with every input tensor bound to another input of the
\* request and every input bound, whatever the order; no step of the set-up goes
\* past the last tensor.
InputsBound ==
    \A t \in Threads :
        LET bound == job[t].bound IN
        /\ bound # << >> => Len(bound) <= Inputs[job[t].req.model]
        /\ pc[t] = "infer" =>
             /\ Len(bound) = Inputs[job[t].req.model]
             /\ {b.input : b \in Range(bound)} = DOMAIN job[t].req.inputs

\* An answer has each output of the model (where no other has its name): exactly as
\* many bytes as its elements take, read from the number that larod was given for
\* this output and no other, under a type that a client can translate back to the
\* tensor's; only a FLOAT16 or FLOAT64 has no type. Nothing is said of what the
\* bytes are: larod and pread use the file that has the number (FilesIntact tells
\* whether that is still the prediction's), and may write and read less.
AnswerMatchesModel ==
    \A t \in Threads : job[t].status = "OK" =>
        LET outputs == Outputs[job[t].req.model] IN
        \A k \in DOMAIN outputs :
            LET o == outputs[k] IN
            \/ \E j \in DOMAIN outputs \ {k} : outputs[j].name = o.name
            \/ \E a \in job[t].answer :
               /\ a.name = o.name
               /\ a.file = job[t].outs[k]
               /\ 8 * a.size = Bits[o.type] * o.elements
               /\ TfToLarodDataType[a.dtype] =
                    IF o.type \in {"FLOAT16", "FLOAT64"} THEN "INVALID" ELSE o.type

\* "The prediction will be run using an image captured from this stream, instead
\* of using the input tensors", if a stream is in the request, and answers with "a
\* reference to the frame used to run the prediction".
StreamImageUsed ==
    \A t \in Threads : job[t].status = "OK" /\ job[t].req.stream =>
        /\ \A b \in Range(job[t].bound) : b.from = "stream"
        /\ job[t].bound # << >> => job[t].response = "captured"

\* The file a handler has opened is open until that handler closes it: no thread
\* closes a file of another.
FilesIntact ==
    \A t \in Threads : \A k \in DOMAIN files[t] :
        k > 1 \/ pc[t] # "close_fd" => fd[files[t][k].fd] = t

\* Every prediction returns: no way out keeps the mutex.
EveryPredictReturns ==
    \A t \in Threads : pc[t] # "idle" ~> pc[t] = "idle" \/ crashed
=============================================================================
