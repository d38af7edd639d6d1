--------------------------- MODULE InferenceProofs ---------------------------
(***************************************************************************)
(* Theorems about Inference, for any number of threads, models, requests   *)
(* and file numbers.                                                       *)
(***************************************************************************)
EXTENDS Inference, Integers, FiniteSetTheorems, SequenceTheorems, WellFoundedInduction,
        TLAPS

-----------------------------------------------------------------------------
(* Operators                                                                *)

\* A set of numbers has a smallest.
LEMMA Smallest ==
    ASSUME NEW S \in SUBSET Nat, S # {}
    PROVE  \E n \in S : \A k \in S : n <= k
<1> DEFINE R == {p \in Nat \X Nat : p[1] < p[2]}
<1>1. IsWellFoundedOn(R, Nat)
  BY NatLessThanWellFounded DEF OpToRel
<1>2. \E n \in S : \A k \in S : <<k, n>> \notin R
  <2> HIDE DEF R
  <2> QED
    BY <1>1, WFMin
<1>3. \A k, n \in Nat : <<k, n>> \notin R => n <= k
  OBVIOUS
<1> QED
  <2> HIDE DEF R
  <2> QED
    BY <1>2, <1>3

\* A set of numbers with a bound has a largest, which Max returns.
LEMMA MaxOf ==
    ASSUME NEW n \in Nat, NEW S \in SUBSET (1 .. n), S # {}
    PROVE  Max(S) \in S /\ \A k \in S : Max(S) >= k
<1> DEFINE Down == {n - k : k \in S}
<1>1. PICK d \in Down : \A e \in Down : d <= e
  <2>1. \A k \in S : n - k \in Nat
    OBVIOUS
  <2>2. Down \in SUBSET Nat /\ Down # {}
    BY <2>1
  <2> HIDE DEF Down
  <2> QED
    BY <2>2, Smallest
<1>2. PICK m \in S : d = n - m
  OBVIOUS
<1>3. \A k \in S : m >= k
  <2> TAKE k \in S
  <2>1. d <= n - k
    BY <1>1
  <2> QED
    BY <1>2, <2>1
<1> QED
  BY <1>3 DEF Max

\* The lowest free file number is a free one.
LEMMA LowestIsFree == Free # {} => Lowest \in Free
<1>1. Free \in SUBSET Nat
  BY ConstantsAssumption DEF ConstantsAssumption, Free
<1> QED
  BY <1>1, Smallest DEF Lowest

\* The tables of types give types and sizes. A type of TensorFlow's leads back
\* to larod's, except to those it has no type for; a size is the type's width.
LEMMA Tables ==
    ASSUME NEW l \in LarodTypes
    PROVE  /\ LarodToTfDataType[l] \in TfTypes
           /\ TfToLarodDataType[LarodToTfDataType[l]] =
                IF l \in {"FLOAT16", "FLOAT64"} THEN "INVALID" ELSE l
           /\ LarodDataTypeSize[l] \in Nat
           /\ l # "INVALID" => Bits[l] = 8 * LarodDataTypeSize[l]
BY DEF LarodTypes, TfTypes, Common, LarodToTfDataType, TfToLarodDataType,
       LarodDataTypeSize, Bits
-----------------------------------------------------------------------------
(* Types. TypeOK is not inductive: a handler takes the head of its files, the *)
(* last of its bindings and the files of its outputs where they exist.        *)

\* Control points at which a handler has no file open; those of LoadModel at
\* which it has the model's; those of the preprocessing of an input.
NoFile  == {"idle", "find", "load_open", "load_insert", "refind", "lock", "inputs"}
Loading == {"load_larod", "load_close"}
Preprocessing == {"pp_map", "pp_model", "pp_inputs", "pp_outputs", "pp_file"}
\* Those from the first output on.
Answering == {"out_file", "run_pp", "infer", "respond"}

\* The last files on the list are those of the outputs.
OutFilesListed(t) ==
    LET n == Len(job[t].outs) IN
    /\ n <= Len(files[t])
    /\ \A k \in 1 .. n : OutFd(t, k) = job[t].outs[k]

\* The locals of Predict at its control points.
Locals(t) ==
    LET n == Len(job[t].outs)
        m == Len(Outputs[job[t].req.model]) IN
    /\ pc[t] # "idle" => job[t].req \in Requests
    /\ pc[t] \in NoFile => files[t] = << >>
    /\ pc[t] \in Loading => Len(files[t]) = 1
    /\ pc[t] = "close_fd" => files[t] # << >>
    /\ pc[t] \in Preprocessing => job[t].bound # << >>
    /\ pc[t] \in Answering => OutFilesListed(t)
    /\ pc[t] \notin Answering \union {"cleanup", "close", "close_fd"} => n = 0
    /\ pc[t] = "out_file" => n < m
    /\ pc[t] \in {"run_pp", "infer", "respond"} => n = m

\* What a member points to exists.
MembersLive == \A k \in Kinds : member[k] # None => live[k] >= 1

TypeInv == TypeOK /\ MembersLive /\ \A t \in Threads : Locals(t)

\* A step of a thread leaves the locals of the others alone.
LEMMA OwnLocalsOnly ==
    ASSUME TypeOK, NEW t \in Threads, Handler(t), NEW u \in Threads \ {t}
    PROVE  pc'[u] = pc[u] /\ job'[u] = job[u] /\ files'[u] = files[u]
<1> USE DEF TypeOK, Goto, SetJob, Return, OpenFile, fileVars
<1>1. CASE Find(t) \/ Refind(t)
  BY <1>1 DEF Find, Refind
<1>2. CASE LoadOpen(t) \/ LoadLarod(t) \/ LoadClose(t) \/ LoadInsert(t)
  BY <1>2 DEF LoadOpen, LoadLarod, LoadClose, LoadInsert
<1>3. CASE Lock(t) \/ CreateInputs(t) \/ CreateOutputs(t)
  BY <1>3 DEF Lock, CreateInputs, CreateOutputs, Create, Fail
<1>4. CASE PpMap(t) \/ PpModel(t) \/ PpInputs(t) \/ PpOutputs(t)
  BY <1>4 DEF PpMap, PpModel, PpInputs, PpOutputs, Create, Fail
<1>5. CASE SetupInput(t) \/ PpFile(t)
  BY <1>5 DEF SetupInput, PpFile, Fail
<1>6. CASE SetFrameReference(t) \/ OutFile(t)
  BY <1>6 DEF SetFrameReference, OutFile, OutFileSet, Fail
<1>7. CASE RunPreprocessing(t) \/ RunInference(t) \/ Respond(t)
  BY <1>7 DEF RunPreprocessing, RunInference, Respond, Fail
<1>8. CASE Cleanup(t) \/ Close(t) \/ CloseFd(t)
  BY <1>8 DEF Cleanup, Close, CloseFd
<1> QED
  BY <1>1, <1>2, <1>3, <1>4, <1>5, <1>6, <1>7, <1>8 DEF Handler

\* A thread's list of files, and its locals, can become another.
LEMMA FilesTyped ==
    ASSUME TypeOK, NEW t \in Threads,
           NEW s \in Seq([fd : Fds, stdio : BOOLEAN]),
           files' = [files EXCEPT ![t] = s]
    PROVE  /\ files' \in [Threads -> Seq([fd : Fds, stdio : BOOLEAN])]
           /\ files'[t] = s
BY DEF TypeOK

LEMMA SetJobTyped ==
    ASSUME TypeOK, NEW t \in Threads, NEW j \in Job, SetJob(t, j)
    PROVE  job' \in [Threads -> Job] /\ job'[t] = j
BY DEF TypeOK, SetJob

\* What a file that is opened does to the types.
LEMMA OpenFileTyped ==
    ASSUME TypeOK, NEW t \in Threads, NEW b, b \in BOOLEAN, OpenFile(t, b)
    PROVE  /\ Lowest \in Fds /\ Lowest \in Nat /\ fd[Lowest] = None
           /\ fd' = [fd EXCEPT ![Lowest] = t]
           /\ fd' \in [Fds -> Threads \union {None}]
           /\ files' \in [Threads -> Seq([fd : Fds, stdio : BOOLEAN])]
           /\ files'[t] = Append(files[t], [fd |-> Lowest, stdio |-> b])
           /\ Len(files'[t]) = Len(files[t]) + 1
<1>1. Lowest \in Fds /\ Lowest \in Nat /\ fd[Lowest] = None
  BY LowestIsFree, ConstantsAssumption DEF OpenFile, Free, ConstantsAssumption
<1>2. [fd |-> Lowest, stdio |-> b] \in [fd : Fds, stdio : BOOLEAN]
  BY <1>1
<1>3. fd' \in [Fds -> Threads \union {None}]
  BY <1>1 DEF OpenFile, TypeOK
<1>4. files'[t] = Append(files[t], [fd |-> Lowest, stdio |-> b])
  BY DEF OpenFile, TypeOK
<1> HIDE <1>1
<1>5. files' \in [Threads -> Seq([fd : Fds, stdio : BOOLEAN])]
  BY <1>2 DEF OpenFile, TypeOK
<1>6. Len(files'[t]) = Len(files[t]) + 1
  BY <1>2, <1>4 DEF TypeOK
<1> QED
  BY <1>1, <1>3, <1>4, <1>5, <1>6 DEF OpenFile

\* A handler that returns has closed its files; its other locals go.
LEMMA ReturnTyped ==
    ASSUME TypeInv, NEW t \in Threads, Return(t), files'[t] = << >>
    PROVE  /\ pc' = [pc EXCEPT ![t] = "idle"] /\ pc' \in [Threads -> Labels]
           /\ job' \in [Threads -> Job]
           /\ mutex' \in Threads \union {None}
           /\ Locals(t)'
<1>1. NewJob \in Job
  BY DEF NewJob, Job
<1>2. pc' = [pc EXCEPT ![t] = "idle"] /\ pc' \in [Threads -> Labels]
  BY DEF Return, Goto, TypeInv, TypeOK, Labels
<1>3. job' \in [Threads -> Job] /\ job'[t] = NewJob
  BY <1>1 DEF Return, SetJob, TypeInv, TypeOK
<1>4. mutex' \in Threads \union {None}
  BY DEF Return, TypeInv, TypeOK
<1>5. Locals(t)'
  <2>1. pc'[t] = "idle" /\ job'[t].outs = << >>
    BY <1>2, <1>3 DEF TypeInv, TypeOK, NewJob
  <2> QED
    BY <2>1 DEF Locals, NoFile, Loading, Preprocessing, Answering
<1> QED
  BY <1>2, <1>3, <1>4, <1>5

\* A member that larod creates an object for, or does not.
LEMMA CreateTyped ==
    ASSUME TypeInv, NEW t \in Threads, NEW k \in Kinds, NEW next \in SUBSET Labels,
           Create(t, k, next)
    PROVE  /\ TypeOK' /\ MembersLive'
           /\ pc'[t] \in next \union {"cleanup"}
           /\ files'[t] = files[t] /\ job'[t] = job[t]
<1>1. \E to \in next \union {"cleanup"} : pc' = [pc EXCEPT ![t] = to]
  BY DEF Create, Goto, Fail
<1>2. "cleanup" \in Labels
  BY DEF Labels, Locked
<1>3. pc' \in [Threads -> Labels] /\ pc'[t] \in next \union {"cleanup"}
  BY <1>1, <1>2 DEF TypeInv, TypeOK
<1>4. /\ member \in [Kinds -> Threads \union {None}] /\ live \in [Kinds -> Nat]
      /\ \A i \in Kinds : member[i] # None => live[i] >= 1
  BY DEF TypeInv, TypeOK, MembersLive
<1>5. \/ member' = [member EXCEPT ![k] = t] /\ live' = [live EXCEPT ![k] = @ + 1]
      \/ member' = [member EXCEPT ![k] = None] /\ live' = live
  BY DEF Create
<1>6. member' \in [Kinds -> Threads \union {None}] /\ live' \in [Kinds -> Nat]
  BY <1>4, <1>5
<1>7. MembersLive'
  BY <1>4, <1>5 DEF MembersLive
<1> QED
  BY <1>3, <1>6, <1>7
  DEF Create, TypeInv, TypeOK, serveVars, modelVars, fileVars

\* The model of a request is one, and its outputs are a list.
LEMMA RequestTyped ==
    ASSUME NEW r \in Requests
    PROVE  /\ r \in Request /\ r.model \in Models
           /\ Inputs[r.model] \in Nat /\ Outputs[r.model] \in Seq(Tensor)
           /\ DOMAIN r.inputs = 1 .. Len(r.inputs) /\ Len(r.inputs) \in Nat
           /\ \A i \in DOMAIN r.inputs : /\ i \in Nat
                                         /\ r.inputs[i].file \in BOOLEAN
                                         /\ r.inputs[i].resize \in SUBSET BOOLEAN
<1>1. r \in Request /\ r.model \in Models
  BY ConstantsAssumption DEF ConstantsAssumption, Request
<1>2. r.inputs \in Seq([file : BOOLEAN, resize : SUBSET BOOLEAN])
  BY <1>1 DEF Request
<1>3. DOMAIN r.inputs = 1 .. Len(r.inputs) /\ Len(r.inputs) \in Nat
  BY <1>2
<1>4. \A i \in DOMAIN r.inputs :
        r.inputs[i] \in [file : BOOLEAN, resize : SUBSET BOOLEAN]
  BY <1>2, <1>3, ElementOfSeq
<1>5. Inputs[r.model] \in Nat /\ Outputs[r.model] \in Seq(Tensor)
  BY <1>1, ConstantsAssumption DEF ConstantsAssumption
<1> QED
  BY <1>1, <1>3, <1>4, <1>5

\* Up to the lock, the steps keep the types and the invariant of the locals.
LEMMA LoadingTyped ==
    ASSUME TypeInv, NEW t \in Threads,
           \/ Find(t) \/ Refind(t) \/ LoadOpen(t) \/ LoadLarod(t)
           \/ LoadClose(t) \/ LoadInsert(t) \/ Lock(t)
    PROVE  TypeOK' /\ MembersLive' /\ Locals(t)'
<1> USE DEF TypeInv
<1>1. CASE Find(t) \/ Refind(t)
  <2>1. files' = files /\ files[t] = << >> /\ job[t].req \in Requests
    BY <1>1 DEF Find, Refind, Locals, NoFile, fileVars
  <2>2. CASE Return(t)
    BY <1>1, <2>1, <2>2, ReturnTyped
    DEF Find, Refind, TypeOK, MembersLive, serveVars, modelVars, larodVars,
        fileVars
  <2>3. CASE ~Return(t)
    <3>1. pc' \in [Threads -> Labels] /\ pc'[t] \in {"lock", "load_open"}
      BY <1>1, <2>3 DEF Find, Refind, Goto, TypeOK, Labels
    <3> QED
      BY <1>1, <2>1, <2>3, <3>1
      DEF Find, Refind, TypeOK, MembersLive, Locals, NoFile, Loading,
          Preprocessing, Answering, serveVars, modelVars, larodVars, fileVars
  <2> QED
    BY <2>2, <2>3
<1>2. CASE LoadOpen(t)
  <2>1. files[t] = << >> /\ job[t].req \in Requests /\ Len(job[t].outs) = 0
    BY <1>2 DEF LoadOpen, Locals, NoFile, Answering
  <2>2. CASE Return(t)
    <3>1. fileVars' = fileVars
      BY <1>2, <2>2 DEF LoadOpen, Return, Goto, TypeOK
    <3> QED
      BY <1>2, <2>1, <2>2, <3>1, ReturnTyped
      DEF LoadOpen, TypeOK, MembersLive, serveVars, modelVars, larodVars, fileVars
  <2>3. CASE OpenFile(t, TRUE) /\ Goto(t, "load_larod") /\ UNCHANGED <<job, mutex>>
    <3>1. pc' \in [Threads -> Labels] /\ pc'[t] = "load_larod"
      BY <2>3 DEF Goto, TypeOK, Labels
    <3>2. /\ fd' \in [Fds -> Threads \union {None}]
          /\ files' \in [Threads -> Seq([fd : Fds, stdio : BOOLEAN])]
          /\ Len(files'[t]) = Len(files[t]) + 1
      BY <2>3, OpenFileTyped
    <3>3. Len(files'[t]) = 1
      BY <2>1, <3>2
    <3> QED
      BY <1>2, <2>1, <2>3, <3>1, <3>2, <3>3
      DEF LoadOpen, TypeOK, MembersLive, Locals, NoFile, Loading,
          Preprocessing, Answering, serveVars, modelVars, larodVars
  <2> QED
    BY <1>2, <2>2, <2>3 DEF LoadOpen
<1>3. CASE LoadLarod(t)
  <2>1. Len(files[t]) = 1 /\ job[t].req \in Requests /\ Len(job[t].outs) = 0
    BY <1>3 DEF LoadLarod, Locals, Loading, Answering
  <2>2. pc' \in [Threads -> Labels] /\ pc'[t] = "load_close"
    BY <1>3 DEF LoadLarod, Goto, TypeOK, Labels
  <2>3. loaded' \subseteq Nat /\ loads' \in Nat /\ loads + 1 \in Nat
    BY <1>3 DEF LoadLarod, TypeOK
  <2>4. /\ job' \in [Threads -> Job]
        /\ job'[t].req = job[t].req /\ job'[t].outs = job[t].outs
    <3>1. CASE UNCHANGED job
      BY <3>1 DEF TypeOK
    <3>2. CASE SetJob(t, [job[t] EXCEPT !.handle = loads + 1])
      <4>1. [job[t] EXCEPT !.handle = loads + 1] \in Job
        BY <2>3 DEF TypeOK, Job
      <4> QED
        BY <3>2, <4>1 DEF SetJob, TypeOK, Job
    <3> QED
      BY <1>3, <3>1, <3>2 DEF LoadLarod
  <2> QED
    BY <1>3, <2>1, <2>2, <2>3, <2>4
    DEF LoadLarod, TypeOK, MembersLive, Locals, NoFile, Loading, Preprocessing,
        Answering, serveVars, larodVars, fileVars
<1>4. CASE LoadClose(t)
  <2>1. job[t].req \in Requests /\ Len(job[t].outs) = 0
    BY <1>4 DEF LoadClose, Locals, Answering
  <2>2. /\ fd' \in [Fds -> Threads \union {None}]
        /\ files' \in [Threads -> Seq([fd : Fds, stdio : BOOLEAN])]
        /\ files'[t] = << >>
    <3>1. fd' \in [Fds -> Threads \union {None}]
      BY <1>4 DEF LoadClose, CloseNumber, TypeOK
    <3>2. files' = [files EXCEPT ![t] = << >>]
      BY <1>4 DEF LoadClose
    <3> QED
      BY <3>1, <3>2, FilesTyped, EmptySeq
  <2>3. CASE Return(t)
    BY <1>4, <2>2, <2>3, ReturnTyped
    DEF LoadClose, TypeOK, MembersLive, serveVars, modelVars, larodVars
  <2>4. CASE Goto(t, "load_insert") /\ UNCHANGED <<job, mutex>>
    <3>1. pc' \in [Threads -> Labels] /\ pc'[t] = "load_insert"
      BY <2>4 DEF Goto, TypeOK, Labels
    <3> QED
      BY <1>4, <2>1, <2>2, <2>4, <3>1
      DEF LoadClose, TypeOK, MembersLive, Locals, NoFile, Loading,
          Preprocessing, Answering, serveVars, modelVars, larodVars
  <2> QED
    BY <1>4, <2>3, <2>4 DEF LoadClose
<1>5. CASE LoadInsert(t)
  <2>1. /\ files[t] = << >> /\ Len(job[t].outs) = 0
        /\ job[t].req \in Requests /\ job[t].req.model \in Models
        /\ job[t].handle \in Nat
    BY <1>5, RequestTyped DEF LoadInsert, Locals, NoFile, Answering, TypeOK, Job
  <2>2. pc' \in [Threads -> Labels] /\ pc'[t] = "refind"
    BY <1>5 DEF LoadInsert, Goto, TypeOK, Labels
  <2>3. models' \in [Models -> Nat]
    BY <1>5, <2>1 DEF LoadInsert, TypeOK
  <2> QED
    BY <1>5, <2>1, <2>2, <2>3
    DEF LoadInsert, TypeOK, MembersLive, Locals, NoFile, Loading,
        Preprocessing, Answering, serveVars, larodVars, fileVars
<1>6. CASE Lock(t)
  <2>1. files[t] = << >> /\ job[t].req \in Requests /\ Len(job[t].outs) = 0
    BY <1>6 DEF Lock, Locals, NoFile, Answering
  <2>2. pc' \in [Threads -> Labels] /\ pc'[t] = "inputs"
    BY <1>6 DEF Lock, Goto, TypeOK, Labels, Locked
  <2>3. member' \in [Kinds -> Threads \union {None}] /\ MembersLive'
    BY <1>6 DEF Lock, MembersLive
  <2> QED
    BY <1>6, <2>1, <2>2, <2>3
    DEF Lock, TypeOK, Locals, NoFile, Loading, Preprocessing, Answering,
        serveVars, modelVars, fileVars
<1> QED
  BY <1>1, <1>2, <1>3, <1>4, <1>5, <1>6

\* The steps of the set-up do.
LEMMA SetupTyped ==
    ASSUME TypeInv, NEW t \in Threads,
           \/ CreateInputs(t) \/ SetupInput(t) \/ PpMap(t) \/ PpModel(t)
           \/ PpInputs(t) \/ PpOutputs(t) \/ PpFile(t)
           \/ SetFrameReference(t) \/ CreateOutputs(t)
    PROVE  TypeOK' /\ MembersLive' /\ Locals(t)'
<1> USE DEF TypeInv
<1>0. /\ job[t].req \in Requests /\ Len(job[t].outs) = 0
      /\ job[t] \in Job /\ job[t].bound \in Seq(Binding)
  BY DEF CreateInputs, SetupInput, PpMap, PpModel, PpInputs, PpOutputs, PpFile,
     SetFrameReference, CreateOutputs, Locals, Answering, TypeOK, Job
<1>1. CASE \/ CreateInputs(t) \/ PpMap(t) \/ PpModel(t) \/ PpInputs(t)
           \/ PpOutputs(t)
  <2>1. /\ TypeOK' /\ MembersLive' /\ files'[t] = files[t] /\ job'[t] = job[t]
        /\ pc'[t] \in {"input", "cleanup"} \union Preprocessing
        /\ pc'[t] \in Preprocessing => pc[t] \in Preprocessing
    BY <1>1, CreateTyped
    DEF CreateInputs, PpMap, PpModel, PpInputs, PpOutputs, Kinds, Labels, Locked,
        Preprocessing
  <2> QED
    BY <1>0, <2>1 DEF Locals, NoFile, Loading, Preprocessing, Answering
<1>2. CASE SetupInput(t)
  <2>1. CASE (Goto(t, "ref") \/ Fail(t)) /\ UNCHANGED <<fileVars, job>>
    <3>1. pc' \in [Threads -> Labels] /\ pc'[t] \in {"ref", "cleanup"}
      BY <2>1 DEF Goto, Fail, TypeOK, Labels, Locked
    <3> QED
      BY <1>0, <1>2, <2>1, <3>1
      DEF SetupInput, TypeOK, MembersLive, Locals, NoFile, Loading,
          Preprocessing, Answering, serveVars, modelVars, larodVars, fileVars
  <2>2. CASE ~((Goto(t, "ref") \/ Fail(t)) /\ UNCHANGED <<fileVars, job>>)
    <3> DEFINE r == job[t].req
               From(i) == IF r.inputs[i].file THEN "file"
                          ELSE IF r.stream THEN "stream" ELSE "request"
               After(i) == [job[t] EXCEPT
                             !.bound = Append(@, [input |-> i, from |-> From(i)]),
                             !.frameRef = IF From(i) = "stream" THEN "captured"
                                                                ELSE @]
    <3>1. PICK i \in Todo(t) :
            /\ OpenFile(t, ~r.inputs[i].file)
            /\ SetJob(t, After(i))
            /\ Goto(t, "pp_map") \/ Goto(t, "input") \/ Fail(t)
      BY <1>2, <2>2 DEF SetupInput
    <3>2. i \in Nat
      BY <1>0, RequestTyped DEF Todo
    <3>3. /\ After(i) \in Job /\ After(i).req = r /\ After(i).outs = job[t].outs
          /\ After(i).bound # << >>
      <4>1. [input |-> i, from |-> From(i)] \in Binding
        BY <3>2 DEF Binding
      <4>2. /\ Append(job[t].bound, [input |-> i, from |-> From(i)]) \in Seq(Binding)
            /\ Append(job[t].bound, [input |-> i, from |-> From(i)]) # << >>
        BY <1>0, <4>1, AppendProperties
      <4> QED
        BY <1>0, <4>2 DEF Job
    <3>4. job' \in [Threads -> Job] /\ job'[t] = After(i)
      BY <3>1, <3>3, SetJobTyped
    <3>5. /\ fd' \in [Fds -> Threads \union {None}]
          /\ files' \in [Threads -> Seq([fd : Fds, stdio : BOOLEAN])]
      BY <3>1, OpenFileTyped
    <3>6. pc' \in [Threads -> Labels] /\ pc'[t] \in {"pp_map", "input", "cleanup"}
      BY <3>1 DEF Goto, Fail, TypeOK, Labels, Locked
    <3> HIDE DEF After
    <3> QED
      BY <1>0, <1>2, <3>3, <3>4, <3>5, <3>6
      DEF SetupInput, TypeOK, MembersLive, Locals, NoFile, Loading,
          Preprocessing, Answering, serveVars, modelVars, larodVars
  <2> QED
    BY <2>1, <2>2
<1>3. CASE PpFile(t)
  <2> DEFINE last == job[t].bound[Len(job[t].bound)].input
  <2>1. last \in Nat
    <3>1. job[t].bound # << >>
      BY <1>3 DEF PpFile, Locals, Preprocessing
    <3>2. Len(job[t].bound) \in 1 .. Len(job[t].bound)
      BY <1>0, <3>1, EmptySeq
    <3>3. job[t].bound[Len(job[t].bound)] \in Binding
      BY <1>0, <3>2, ElementOfSeq
    <3> QED
      BY <3>3 DEF Binding
  <2>2. /\ job' \in [Threads -> Job]
        /\ job'[t].req = job[t].req /\ job'[t].outs = job[t].outs
    <3>1. CASE UNCHANGED job
      BY <3>1 DEF TypeOK
    <3>2. CASE SetJob(t, [job[t] EXCEPT !.ppFor = last])
      <4>1. [job[t] EXCEPT !.ppFor = last] \in Job
        BY <1>0, <2>1 DEF Job
      <4>2. job' \in [Threads -> Job] /\ job'[t] = [job[t] EXCEPT !.ppFor = last]
        BY <3>2, <4>1, SetJobTyped
      <4> QED
        BY <1>0, <4>2 DEF Job
    <3> QED
      BY <1>3, <3>1, <3>2 DEF PpFile
  <2>3. /\ fd' \in [Fds -> Threads \union {None}]
        /\ files' \in [Threads -> Seq([fd : Fds, stdio : BOOLEAN])]
    <3>1. CASE OpenFile(t, TRUE)
      BY <3>1, OpenFileTyped
    <3>2. CASE UNCHANGED fileVars
      BY <3>2 DEF TypeOK, fileVars
    <3> QED
      BY <1>3, <3>1, <3>2 DEF PpFile
  <2>4. pc' \in [Threads -> Labels] /\ pc'[t] \in {"input", "cleanup"}
    BY <1>3 DEF PpFile, Goto, Fail, TypeOK, Labels, Locked
  <2> QED
    BY <1>0, <1>3, <2>2, <2>3, <2>4
    DEF PpFile, TypeOK, MembersLive, Locals, NoFile, Loading,
        Preprocessing, Answering, serveVars, modelVars, larodVars
<1>4. CASE SetFrameReference(t)
  <2>1. PICK v \in {"unset", "garbage", "captured"} :
          SetJob(t, [job[t] EXCEPT !.response = v])
    BY <1>0, <1>4 DEF SetFrameReference, Job
  <2>2. [job[t] EXCEPT !.response = v] \in Job
    BY <1>0 DEF Job
  <2>3. job' \in [Threads -> Job] /\ job'[t] = [job[t] EXCEPT !.response = v]
    BY <2>1, <2>2, SetJobTyped
  <2>4. pc' \in [Threads -> Labels] /\ pc'[t] = "outputs"
    BY <1>4 DEF SetFrameReference, Goto, TypeOK, Labels, Locked
  <2>5. job'[t].req = job[t].req /\ job'[t].outs = job[t].outs
    BY <1>0, <2>3 DEF Job
  <2> QED
    BY <1>0, <1>4, <2>3, <2>4, <2>5
    DEF SetFrameReference, TypeOK, MembersLive, Locals, NoFile, Loading,
        Preprocessing, Answering, serveVars, modelVars, larodVars, fileVars
<1>5. CASE CreateOutputs(t)
  <2> DEFINE outputs == Outputs[job[t].req.model]
  <2>1. /\ TypeOK' /\ MembersLive' /\ files'[t] = files[t] /\ job'[t] = job[t]
        /\ pc'[t] \in {"out_file", "cleanup"}
        /\ pc'[t] = "out_file" => outputs # << >>
    <3>1. CASE outputs = << >>
      BY <1>5, <3>1, CreateTyped DEF CreateOutputs, Kinds, Labels, Locked
    <3>2. CASE outputs # << >>
      BY <1>5, <3>2, CreateTyped DEF CreateOutputs, Kinds, Labels, Locked
    <3> QED
      BY <3>1, <3>2
  <2>2. outputs # << >> => Len(outputs) > 0
    BY <1>0, RequestTyped, EmptySeq
  <2>3. Len(files[t]) \in Nat
    BY DEF TypeOK
  <2>4. OutFilesListed(t)'
    BY <1>0, <2>1, <2>3 DEF OutFilesListed
  <2> QED
    BY <1>0, <2>1, <2>2, <2>4
    DEF Locals, NoFile, Loading, Preprocessing, Answering
<1> QED
  BY <1>1, <1>2, <1>3, <1>4, <1>5

\* The last output of a name, and what the response says of it.
LastOf(outputs, n) == Max({k \in DOMAIN outputs : outputs[k].name = n})
AnswerOf(t, n) ==
    LET outputs == Outputs[job[t].req.model]
        o       == outputs[LastOf(outputs, n)] IN
    [name  |-> n,
     dtype |-> LarodToTfDataType[o.type],
     size  |-> LarodDataTypeSize[o.type] * o.elements,
     file  |-> OutFd(t, LastOf(outputs, n))]
Answered(t) ==
    [job[t] EXCEPT
       !.status = "OK",
       !.answer = {AnswerOf(t, o.name) : o \in Range(Outputs[job[t].req.model])}]

LEMMA RespondAnswers ==
    ASSUME NEW t, Respond(t)
    PROVE  /\ Goto(t, "cleanup")
           /\ \/ /\ \A o \in Range(Outputs[job[t].req.model]) : o.type # "INVALID"
                 /\ SetJob(t, Answered(t))
              \/ UNCHANGED job
BY DEF Respond, Answered, AnswerOf, LastOf

\* The answer about an output is of the last one with its name, and from the file
\* number that larod was given for that one.
LEMMA AnswerTyped ==
    ASSUME TypeInv, NEW t \in Threads, pc[t] = "respond",
           NEW outputs, outputs = Outputs[job[t].req.model],
           NEW k \in DOMAIN outputs
    PROVE  LET last == LastOf(outputs, outputs[k].name) IN
           /\ last \in DOMAIN outputs /\ outputs[last].name = outputs[k].name
           /\ last >= k
           /\ outputs[last] \in Tensor
           /\ OutFd(t, last) = job[t].outs[last]
           /\ AnswerOf(t, outputs[k].name) \in Output
<1> DEFINE n    == outputs[k].name
           last == LastOf(outputs, n)
<1>1. /\ outputs \in Seq(Tensor) /\ DOMAIN outputs = 1 .. Len(outputs)
      /\ Len(outputs) \in Nat
  <2>1. job[t].req \in Requests
    BY DEF TypeInv, Locals
  <2> QED
    BY <2>1, RequestTyped
<1>2. /\ last \in DOMAIN outputs /\ outputs[last].name = outputs[k].name
      /\ last >= k
  <2> DEFINE S == {i \in DOMAIN outputs : outputs[i].name = n}
  <2>1. S \in SUBSET (1 .. Len(outputs)) /\ k \in S
    BY <1>1
  <2>2. Max(S) \in S /\ Max(S) >= k
    <3> HIDE DEF S
    <3> QED
      BY <1>1, <2>1, MaxOf
  <2> QED
    BY <2>2 DEF LastOf
<1> HIDE DEF last
<1>3. outputs[last] \in Tensor
  BY <1>1, <1>2, ElementOfSeq
<1>4. /\ OutFd(t, last) = job[t].outs[last] /\ job[t].outs[last] \in Nat
  <2>1. /\ Len(job[t].outs) = Len(outputs) /\ OutFilesListed(t)
        /\ job[t].outs \in Seq(Nat)
    BY DEF TypeInv, TypeOK, Locals, Answering, Job
  <2> QED
    BY <1>1, <1>2, <2>1, ElementOfSeq DEF OutFilesListed
<1>5. AnswerOf(t, n) \in Output
  <2>1. /\ n \in STRING /\ outputs[last].type \in LarodTypes
        /\ outputs[last].elements \in Nat
    BY <1>2, <1>3 DEF Tensor
  <2>2. /\ LarodToTfDataType[outputs[last].type] \in TfTypes
        /\ LarodDataTypeSize[outputs[last].type] \in Nat
    BY <2>1, Tables
  <2>3. \A a, b \in Nat : a * b \in Nat
    OBVIOUS
  <2>4. LarodDataTypeSize[outputs[last].type] * outputs[last].elements \in Nat
    BY <2>1, <2>2, <2>3
  <2> QED
    BY <1>4, <2>1, <2>2, <2>4 DEF AnswerOf, Output, last
<1> QED
  BY <1>2, <1>3, <1>4, <1>5 DEF last

\* From the files of the outputs to the return, the types and the invariant of
\* the locals stay.
LEMMA AnsweringTyped ==
    ASSUME TypeInv, NEW t \in Threads,
           \/ OutFile(t) \/ RunPreprocessing(t) \/ RunInference(t)
           \/ Respond(t) \/ Cleanup(t) \/ Close(t) \/ CloseFd(t)
    PROVE  TypeOK' /\ MembersLive' /\ Locals(t)'
<1> USE DEF TypeInv
<1>0. /\ job[t].req \in Requests /\ job[t] \in Job
      /\ job[t].outs \in Seq(Nat) /\ Len(job[t].outs) \in Nat
      /\ files[t] \in Seq([fd : Fds, stdio : BOOLEAN]) /\ Len(files[t]) \in Nat
      /\ Len(Outputs[job[t].req.model]) \in Nat
  <2>1. job[t].req \in Requests
    BY DEF OutFile, RunPreprocessing, RunInference, Respond, Cleanup, Close,
           CloseFd, Locals
  <2>2. job[t] \in Job /\ job[t].outs \in Seq(Nat)
    BY DEF TypeOK, Job
  <2>3. files[t] \in Seq([fd : Fds, stdio : BOOLEAN])
    BY DEF TypeOK
  <2>4. Outputs[job[t].req.model] \in Seq(Tensor)
    BY <2>1, RequestTyped
  <2> QED
    BY <2>1, <2>2, <2>3, <2>4, LenProperties
<1>1. CASE OutFile(t)
  <2> DEFINE n == Len(job[t].outs)
  <2>0. n < Len(Outputs[job[t].req.model]) /\ OutFilesListed(t)
    BY <1>1 DEF OutFile, Locals, Answering
  <2>1. CASE OutFileSet(t)
    <3> DEFINE j == [job[t] EXCEPT !.outs = Append(@, Lowest)]
    <3>1. /\ Lowest \in Nat
          /\ fd' \in [Fds -> Threads \union {None}]
          /\ files' \in [Threads -> Seq([fd : Fds, stdio : BOOLEAN])]
          /\ files'[t] = Append(files[t], [fd |-> Lowest, stdio |-> TRUE])
          /\ Lowest \in Fds
      BY <2>1, OpenFileTyped DEF OutFileSet
    <3>2. /\ j \in Job /\ j.req = job[t].req
          /\ j.outs = Append(job[t].outs, Lowest)
      <4>1. Append(job[t].outs, Lowest) \in Seq(Nat)
        BY <1>0, <3>1, AppendProperties
      <4> QED
        BY <1>0, <4>1 DEF Job
    <3>3. job' \in [Threads -> Job] /\ job'[t] = j
      BY <2>1, <3>2, SetJobTyped DEF OutFileSet
    <3>4. /\ pc' \in [Threads -> Labels] /\ pc'[t] \in {"run_pp", "out_file"}
          /\ pc'[t] = "run_pp" <=> n + 1 = Len(Outputs[job[t].req.model])
      BY <2>1 DEF OutFileSet, Goto, TypeOK, Labels, Locked
    <3>5. /\ Len(job'[t].outs) = n + 1
          /\ \A k \in 1 .. n : job'[t].outs[k] = job[t].outs[k]
          /\ job'[t].outs[n + 1] = Lowest
      BY <1>0, <3>1, <3>2, <3>3, AppendProperties
    <3>6. /\ Len(files'[t]) = Len(files[t]) + 1
          /\ \A k \in 1 .. Len(files[t]) : files'[t][k] = files[t][k]
          /\ files'[t][Len(files[t]) + 1].fd = Lowest
      <4>1. [fd |-> Lowest, stdio |-> TRUE] \in [fd : Fds, stdio : BOOLEAN]
        BY <3>1
      <4> QED
        BY <1>0, <3>1, <4>1, AppendProperties
    <3>7. OutFilesListed(t)'
      <4>1. PICK l \in Nat, m \in Nat : l = Len(files[t]) /\ m = n
        BY <1>0
      <4>2. \A k \in 1 .. m : files[t][l - m + k].fd = job[t].outs[k]
        BY <2>0, <4>1 DEF OutFilesListed, OutFd
      <4>3. m <= l
        BY <2>0, <4>1 DEF OutFilesListed
      <4>4. ASSUME NEW k \in 1 .. m + 1
            PROVE  files'[t][l - m + k].fd = job'[t].outs[k]
        <5>1. CASE k = m + 1
          <6>1. l - m + k = l + 1
            BY <5>1
          <6> QED
            BY <3>5, <3>6, <4>1, <5>1, <6>1
        <5>2. CASE k \in 1 .. m
          <6>1. l - m + k \in 1 .. l
            BY <4>3, <5>2
          <6> QED
            BY <3>5, <3>6, <4>1, <4>2, <5>2, <6>1
        <5>3. k = m + 1 \/ k \in 1 .. m
          BY <4>1
        <5> QED
          BY <5>1, <5>2, <5>3
      <4>5. (l + 1) - (m + 1) = l - m /\ m + 1 <= l + 1
        BY <4>3
      <4> QED
        BY <3>5, <3>6, <4>1, <4>4, <4>5 DEF OutFilesListed, OutFd
    <3>8. Locals(t)'
      <4>1. /\ job'[t].req = job[t].req
            /\ pc'[t] \in Answering
            /\ pc'[t] \notin {"idle", "close_fd", "infer", "respond"}
            /\ pc'[t] \notin NoFile \union Loading \union Preprocessing
        BY <3>2, <3>3, <3>4 DEF Answering, NoFile, Loading, Preprocessing
      <4> QED
        BY <1>0, <2>0, <3>4, <3>5, <3>7, <4>1 DEF Locals
    <3> HIDE DEF j
    <3> QED
      BY <1>1, <3>1, <3>3, <3>4, <3>8
      DEF OutFile, TypeOK, MembersLive, serveVars, modelVars, larodVars
  <2>2. CASE (OpenFile(t, TRUE) \/ UNCHANGED fileVars) /\ Fail(t) /\ UNCHANGED job
    <3>1. /\ fd' \in [Fds -> Threads \union {None}]
          /\ files' \in [Threads -> Seq([fd : Fds, stdio : BOOLEAN])]
      <4>1. CASE OpenFile(t, TRUE)
        BY <4>1, OpenFileTyped
      <4>2. CASE UNCHANGED fileVars
        BY <4>2 DEF TypeOK, fileVars
      <4> QED
        BY <2>2, <4>1, <4>2
    <3>2. pc' \in [Threads -> Labels] /\ pc'[t] = "cleanup"
      BY <2>2 DEF Fail, Goto, TypeOK, Labels, Locked
    <3> QED
      BY <1>0, <1>1, <2>2, <3>1, <3>2
      DEF OutFile, TypeOK, MembersLive, Locals, NoFile, Loading,
          Preprocessing, Answering, serveVars, modelVars, larodVars
  <2> QED
    BY <1>1, <2>1, <2>2 DEF OutFile
<1>2. CASE RunPreprocessing(t)
  <2>1. pc' \in [Threads -> Labels] /\ pc'[t] \in {"infer", "cleanup"}
    BY <1>2 DEF RunPreprocessing, Goto, Fail, TypeOK, Labels, Locked
  <2>2. /\ job' \in [Threads -> Job]
        /\ job'[t].req = job[t].req /\ job'[t].outs = job[t].outs
    <3> DEFINE j == [job[t] EXCEPT !.resized = @ \union {job[t].ppFor}]
    <3>1. j \in Job /\ j.req = job[t].req /\ j.outs = job[t].outs
      BY <1>0 DEF Job
    <3>2. CASE SetJob(t, j)
      BY <3>1, <3>2, SetJobTyped
    <3>3. CASE UNCHANGED job
      BY <3>3 DEF TypeOK
    <3> QED
      BY <1>2, <3>2, <3>3 DEF RunPreprocessing
  <2>3. files'[t] = files[t] /\ OutFilesListed(t)
    BY <1>2 DEF RunPreprocessing, fileVars, Locals, Answering
  <2>4. OutFilesListed(t)' /\ Len(job[t].outs) = Len(Outputs[job[t].req.model])
    BY <1>2, <2>2, <2>3 DEF RunPreprocessing, OutFilesListed, OutFd, Locals
  <2> QED
    BY <1>0, <1>2, <2>1, <2>2, <2>3, <2>4
    DEF RunPreprocessing, TypeOK, MembersLive, Locals, NoFile, Loading,
        Preprocessing, Answering, serveVars, modelVars, larodVars, fileVars
<1>3. CASE RunInference(t)
  <2>1. pc' \in [Threads -> Labels] /\ pc'[t] \in {"respond", "cleanup"}
    BY <1>3 DEF RunInference, Goto, Fail, TypeOK, Labels, Locked
  <2>2. /\ files'[t] = files[t] /\ OutFilesListed(t) /\ job'[t] = job[t]
        /\ Len(job[t].outs) = Len(Outputs[job[t].req.model])
    BY <1>3 DEF RunInference, fileVars, Locals, Answering
  <2>3. OutFilesListed(t)'
    BY <2>2 DEF OutFilesListed, OutFd
  <2> QED
    BY <1>0, <1>3, <2>1, <2>2, <2>3
    DEF RunInference, TypeOK, MembersLive, Locals, NoFile, Loading,
        Preprocessing, Answering, serveVars, modelVars, larodVars, fileVars
<1>4. CASE Respond(t)
  <2> DEFINE outputs == Outputs[job[t].req.model]
  <2>1. pc[t] = "respond"
    BY <1>4 DEF Respond
  <2>2. pc' \in [Threads -> Labels] /\ pc'[t] = "cleanup"
    BY <1>4 DEF Respond, Goto, TypeOK, Labels, Locked
  <2>3. job' \in [Threads -> Job] /\ job'[t].req = job[t].req
    <3>1. {AnswerOf(t, o.name) : o \in Range(outputs)} \subseteq Output
      <4>1. \A k \in DOMAIN outputs : AnswerOf(t, outputs[k].name) \in Output
        BY <2>1, AnswerTyped
      <4> QED
        BY <4>1 DEF Range
    <3>2. Answered(t) \in Job /\ Answered(t).req = job[t].req
      BY <1>0, <3>1 DEF Answered, Job
    <3>3. CASE SetJob(t, Answered(t))
      BY <3>2, <3>3, SetJobTyped
    <3>4. CASE UNCHANGED job
      BY <3>4 DEF TypeOK
    <3> QED
      BY <1>4, <3>3, <3>4, RespondAnswers
  <2> QED
    BY <1>0, <1>4, <2>2, <2>3
    DEF Respond, TypeOK, MembersLive, Locals, NoFile, Loading, Preprocessing,
        Answering, serveVars, modelVars, larodVars, fileVars
<1>5. CASE Cleanup(t)
  <2>1. pc' \in [Threads -> Labels] /\ pc'[t] = "close"
    BY <1>5 DEF Cleanup, Goto, TypeOK, Labels, Locked
  <2>2. member' \in [Kinds -> Threads \union {None}] /\ MembersLive'
    BY <1>5 DEF Cleanup, MembersLive
  <2>3. live' \in [Kinds -> Nat]
    <3>1. \A k \in Kinds : IF member[k] = None THEN live[k] \in Nat
                                               ELSE live[k] - 1 \in Nat
      BY DEF MembersLive, TypeOK
    <3> QED
      BY <1>5, <3>1 DEF Cleanup
  <2> QED
    BY <1>0, <1>5, <2>1, <2>2, <2>3
    DEF Cleanup, TypeOK, Locals, NoFile, Loading, Preprocessing, Answering,
        serveVars, modelVars, fileVars
<1>6. CASE Close(t)
  <2>1. CASE files[t] = << >>
    <3>1. Return(t) /\ UNCHANGED <<fd, files>>
      BY <1>6, <2>1 DEF Close
    <3> QED
      BY <1>6, <2>1, <3>1, ReturnTyped
      DEF Close, TypeOK, MembersLive, serveVars, modelVars, larodVars
  <2>2. CASE files[t] # << >>
    <3>1. pc' \in [Threads -> Labels] /\ pc'[t] = "close_fd"
      BY <1>6, <2>2 DEF Close, Goto, TypeOK, Labels, Locked
    <3>2. fd' \in [Fds -> Threads \union {None}]
      BY <1>6, <2>2 DEF Close, CloseNumber, TypeOK
    <3> QED
      BY <1>0, <1>6, <2>2, <3>1, <3>2
      DEF Close, TypeOK, MembersLive, Locals, NoFile, Loading, Preprocessing,
          Answering, serveVars, modelVars, larodVars
  <2> QED
    BY <2>1, <2>2
<1>7. CASE CloseFd(t)
  <2>1. files[t] # << >>
    BY <1>7 DEF CloseFd, Locals
  <2>2. files' \in [Threads -> Seq([fd : Fds, stdio : BOOLEAN])]
    BY <1>0, <1>7, <2>1, FilesTyped, HeadTailProperties DEF CloseFd
  <2>3. fd' \in [Fds -> Threads \union {None}]
    BY <1>7 DEF CloseFd, CloseNumber, TypeOK
  <2>4. pc' \in [Threads -> Labels] /\ pc'[t] = "close"
    BY <1>7 DEF CloseFd, Goto, TypeOK, Labels, Locked
  <2> QED
    BY <1>0, <1>7, <2>2, <2>3, <2>4
    DEF CloseFd, TypeOK, MembersLive, Locals, NoFile, Loading, Preprocessing,
        Answering, serveVars, modelVars, larodVars
<1> QED
  BY <1>1, <1>2, <1>3, <1>4, <1>5, <1>6, <1>7

\* The locals of a thread that a step leaves alone.
LEMMA LocalsKept ==
    ASSUME NEW u, Locals(u),
           pc'[u] = pc[u], job'[u] = job[u], files'[u] = files[u]
    PROVE  Locals(u)'
<1>1. OutFilesListed(u)' = OutFilesListed(u)
  BY DEF OutFilesListed, OutFd
<1> QED
  BY <1>1 DEF Locals

\* A step of a handler keeps the invariant of every thread's locals.
LEMMA HandlerTyped ==
    ASSUME TypeInv, NEW t \in Threads, Handler(t)
    PROVE  TypeInv'
<1>1. TypeOK' /\ MembersLive' /\ Locals(t)'
  BY LoadingTyped, SetupTyped, AnsweringTyped DEF Handler
<1>2. \A u \in Threads \ {t} : Locals(u)'
  BY OwnLocalsOnly, LocalsKept DEF TypeInv
<1> QED
  BY <1>1, <1>2 DEF TypeInv

\* The constructor enters each model under the first position of its name.
LEMMA ConstructModels ==
    ASSUME Construct
    PROVE  \/ UNCHANGED <<models, loaded, loads>>
           \/ /\ phase' = "failed" /\ UNCHANGED models
              /\ loads' \in Nat /\ loaded' \subseteq Nat
           \/ /\ models' \in [Models -> Nat]
              /\ loads' \in Nat /\ loaded' \subseteq Nat
              /\ \A m \in Models : models'[m] # 0 => models'[m] \in loaded'
<1> DEFINE positions(m) == {i \in DOMAIN Startup : Startup[i] = m}
           first(m) == CHOOSE i \in positions(m) : \A k \in positions(m) : i <= k
<1>1. DOMAIN Startup = 1 .. Len(Startup) /\ Len(Startup) \in Nat
  BY ConstantsAssumption, LenProperties DEF ConstantsAssumption
<1>2. CASE phase' = "serving" /\ UNCHANGED <<conn, modelVars>>
  BY <1>2 DEF modelVars
<1>3. CASE /\ phase' = "failed" /\ UNCHANGED <<conn, models>>
           /\ loads' \in {0} \union 0 .. (Len(Startup) - 1)
           /\ loaded' = 1 .. loads'
  BY <1>1, <1>3
<1>4. CASE /\ loads' = Len(Startup) /\ loaded' = DOMAIN Startup
           /\ models' = [m \in Models |->
                           IF positions(m) = {} THEN 0 ELSE first(m)]
  <2>1. ASSUME NEW m \in Models, positions(m) # {}
        PROVE  first(m) \in DOMAIN Startup
    <3>1. positions(m) \in SUBSET Nat /\ positions(m) \in SUBSET DOMAIN Startup
      BY <1>1
    <3> HIDE DEF positions
    <3>2. first(m) \in positions(m)
      BY <2>1, <3>1, Smallest
    <3> QED
      BY <3>1, <3>2
  <2> HIDE DEF positions, first
  <2> QED
    BY <1>1, <1>4, <2>1
<1> QED
  BY <1>2, <1>3, <1>4 DEF Construct

LEMMA TypeInit == Init => TypeInv
<1> SUFFICES ASSUME Init PROVE TypeInv
  OBVIOUS
<1>1. NewJob \in Job /\ Len(NewJob.outs) = 0
  BY DEF NewJob, Job
<1>2. /\ job \in [Threads -> Job] /\ \A t \in Threads : job[t] = NewJob
      /\ \A t \in Threads : pc[t] = "idle" /\ files[t] = << >>
  BY <1>1 DEF Init
<1>3. /\ pc \in [Threads -> Labels]
      /\ files \in [Threads -> Seq([fd : Fds, stdio : BOOLEAN])]
  BY DEF Init, Labels
<1>4. TypeOK
  BY <1>2, <1>3, ConstantsAssumption DEF ConstantsAssumption, Init, TypeOK
<1>5. MembersLive
  BY DEF Init, MembersLive
<1>6. \A t \in Threads : Locals(t)
  BY <1>1, <1>2 DEF Locals, NoFile, Loading, Preprocessing, Answering
<1> QED
  BY <1>4, <1>5, <1>6 DEF TypeInv

LEMMA TypeStep == TypeInv /\ [Next]_vars => TypeInv'
<1> SUFFICES ASSUME TypeInv, [Next]_vars PROVE TypeInv'
  OBVIOUS
<1> USE DEF TypeInv
<1>1. ASSUME NEW t \in Threads, Step(t) PROVE TypeInv'
  BY <1>1, HandlerTyped DEF Step
<1>2. ASSUME NEW t \in Threads, Begin(t) PROVE TypeInv'
  <2>1. PICK r \in Requests : SetJob(t, [NewJob EXCEPT !.req = r])
    BY <1>2 DEF Begin
  <2>2. [NewJob EXCEPT !.req = r] \in Job
    <3>1. NewJob \in Job
      BY DEF NewJob, Job
    <3> QED
      BY <3>1 DEF Job
  <2>3. /\ job' \in [Threads -> Job]
        /\ job'[t].req = r /\ Len(job'[t].outs) = 0
    BY <2>1, <2>2, SetJobTyped DEF NewJob
  <2>4. /\ pc' \in [Threads -> Labels] /\ pc'[t] = "find"
        /\ \A u \in Threads \ {t} : pc'[u] = pc[u] /\ job'[u] = job[u]
    BY <1>2, <2>1 DEF Begin, Goto, SetJob, TypeOK, Labels
  <2>5. files[t] = << >> /\ files' = files
    BY <1>2 DEF Begin, Locals, NoFile, fileVars
  <2>6. Locals(t)'
    BY <2>3, <2>4, <2>5 DEF Locals, NoFile, Loading, Preprocessing, Answering
  <2>7. \A u \in Threads \ {t} : Locals(u)'
    BY <2>4, <2>5, LocalsKept
  <2>8. budget' \in Nat /\ MembersLive'
    BY <1>2 DEF Begin, TypeOK, MembersLive, larodVars
  <2> QED
    BY <1>2, <2>3, <2>4, <2>6, <2>7, <2>8
    DEF Begin, TypeOK, modelVars, larodVars, fileVars
<1>3. CASE (\E t \in Threads : Crash(t)) \/ Rest \/ UNCHANGED vars
  <2>1. /\ UNCHANGED <<phase, conn, budget, modelVars, larodVars, fileVars,
                      mutex, pc, job>>
        /\ crashed' \in BOOLEAN
    BY <1>3 DEF Crash, Rest, vars, serveVars, TypeOK
  <2> QED
    BY <2>1 DEF TypeOK, MembersLive, Locals, OutFilesListed, OutFd, modelVars,
                larodVars, fileVars
<1>4. CASE Construct
  <2>1. /\ models' \in [Models -> Nat] /\ loaded' \subseteq Nat /\ loads' \in Nat
        /\ phase' \in {"serving", "failed"} /\ conn' \in BOOLEAN
    BY <1>4, ConstructModels DEF Construct, TypeOK
  <2> QED
    BY <1>4, <2>1
    DEF Construct, TypeOK, MembersLive, Locals, OutFilesListed, OutFd,
        larodVars, fileVars
<1>5. CASE Destroy
  BY <1>5 DEF Destroy, TypeOK, MembersLive, Locals, OutFilesListed, OutFd,
              larodVars, fileVars
<1> QED
  BY <1>1, <1>2, <1>3, <1>4, <1>5 DEF Next

\* TypeInv always holds.
LEMMA TypeInvariant == Spec => []TypeInv
BY TypeInit, TypeStep, PTL DEF Spec

\* Every variable has its type, for any number of threads, models and requests.
THEOREM TypeCorrect == Spec => []TypeOK
<1>1. TypeInv => TypeOK
  BY DEF TypeInv
<1> QED
  BY <1>1, TypeInvariant, PTL

-----------------------------------------------------------------------------
(* The mutex and the members                                                  *)

\* Control points from the first input on, and those at which no larod object
\* exists.
Setup == {"input", "ref", "outputs"} \union Preprocessing
Bare  == {"inputs", "close", "close_fd"}

\* The mutex is held exactly from Lock to the return, and the members are of the
\* thread that holds it: Locked is a critical section, by the mutex alone.
Exclusive ==
    /\ \A t \in Threads : pc[t] \in Locked <=> mutex = t
    /\ \A k \in Kinds : member[k] \in {mutex, None}

\* The members at the control points of Predict.
MembersOf(t) ==
    /\ pc[t] \in Setup \union Answering => member["inputs"] = t
    /\ pc[t] \in Answering => member["outputs"] = t
    /\ pc[t] \in Bare => \A k \in Kinds : member[k] = None

MemberInv == TypeInv /\ Exclusive /\ \A t \in Threads : MembersOf(t)

\* A handler without the mutex leaves it and the members alone.
LEMMA UnlockedSteps ==
    ASSUME MemberInv, NEW t \in Threads, Handler(t), pc[t] \notin Locked,
           ~Lock(t)
    PROVE  UNCHANGED <<mutex, member>> /\ pc'[t] \notin Locked
<1>1. mutex # t
  BY DEF MemberInv, Exclusive
<1>2. /\ \/ Find(t) \/ Refind(t) \/ LoadOpen(t) \/ LoadLarod(t)
         \/ LoadClose(t) \/ LoadInsert(t)
  BY DEF Handler, Locked, CreateInputs, SetupInput, PpMap, PpModel, PpInputs,
     PpOutputs, PpFile, SetFrameReference, CreateOutputs, OutFile,
     RunPreprocessing, RunInference, Respond, Cleanup, Close, CloseFd
<1>3. pc \in [Threads -> Labels]
  BY DEF MemberInv, TypeInv, TypeOK
<1>4. CASE Find(t) \/ Refind(t) \/ LoadOpen(t)
  BY <1>1, <1>3, <1>4
  DEF Find, Refind, LoadOpen, Return, Goto, larodVars, Locked
<1>5. CASE LoadLarod(t) \/ LoadClose(t) \/ LoadInsert(t)
  BY <1>1, <1>3, <1>5
  DEF LoadLarod, LoadClose, LoadInsert, Return, Goto, larodVars, Locked
<1> QED
  BY <1>2, <1>4, <1>5

\* A handler with the mutex keeps it until it returns, and then the members are
\* null.
LEMMA LockedSteps ==
    ASSUME MemberInv, NEW t \in Threads, Handler(t), pc[t] \in Locked
    PROVE  /\ \/ mutex' = t /\ pc'[t] \in Locked
              \/ mutex' = None /\ pc'[t] = "idle" /\ \A k \in Kinds : member'[k] = None
           /\ \A k \in Kinds : member'[k] \in {t, None}
           /\ MembersOf(t)'
<1> USE DEF MemberInv, TypeInv, TypeOK, Goto, Fail, Setup, Bare, Locked,
            Preprocessing, Answering, larodVars
<1>1. /\ mutex = t /\ \A k \in Kinds : member[k] \in {t, None}
      /\ MembersOf(t)
  BY DEF Exclusive
<1>2. ~(Find(t) \/ Refind(t) \/ LoadOpen(t) \/ LoadLarod(t) \/ LoadClose(t)
        \/ LoadInsert(t) \/ Lock(t))
  BY DEF Find, Refind, LoadOpen, LoadLarod, LoadClose, LoadInsert, Lock
<1>3. ASSUME NEW k \in Kinds, NEW next \in SUBSET Labels, Create(t, k, next)
      PROVE  /\ mutex' = t /\ pc'[t] \in next \union {"cleanup"}
             /\ pc'[t] # "cleanup" => member'[k] = t
             /\ member'[k] \in {t, None}
             /\ \A i \in Kinds \ {k} : member'[i] = member[i]
  BY <1>1, <1>3 DEF Create
<1>4. CASE CreateInputs(t)
  <2>1. /\ mutex' = t /\ pc'[t] \in {"input", "cleanup"}
        /\ pc'[t] # "cleanup" => member'["inputs"] = t
        /\ \A k \in Kinds : member'[k] \in {t, None}
    <3>1. /\ "inputs" \in Kinds
          /\ {"input"} \in SUBSET Labels /\ {"cleanup"} \in SUBSET Labels
      BY DEF Kinds, Labels
    <3>2. Create(t, "inputs", {"input"}) \/ Create(t, "inputs", {"cleanup"})
      BY <1>4 DEF CreateInputs
    <3> QED
      BY <1>1, <1>3, <3>1, <3>2
  <2> QED
    BY <2>1 DEF MembersOf
<1>5. CASE PpMap(t) \/ PpModel(t) \/ PpInputs(t) \/ PpOutputs(t)
  <2>1. PICK k \in {"ppMap", "ppModel", "ppInputs", "ppOutputs"} :
          Create(t, k, Preprocessing \union {"cleanup"})
    BY <1>5 DEF PpMap, PpModel, PpInputs, PpOutputs, Create
  <2>2. k \in Kinds /\ k # "inputs"
    BY DEF Kinds
  <2>3. Preprocessing \union {"cleanup"} \in SUBSET Labels
    BY DEF Labels
  <2>4. /\ mutex' = t /\ pc'[t] \in Preprocessing \union {"cleanup"}
        /\ \A i \in Kinds : member'[i] \in {t, None}
        /\ member'["inputs"] = member["inputs"]
    BY <1>1, <1>3, <2>1, <2>2, <2>3 DEF Kinds
  <2>5. member["inputs"] = t
    BY <1>1, <1>5 DEF PpMap, PpModel, PpInputs, PpOutputs, MembersOf
  <2> QED
    BY <2>4, <2>5 DEF MembersOf
<1>6. CASE CreateOutputs(t)
  <2>1. /\ mutex' = t /\ pc'[t] \in {"out_file", "cleanup"}
        /\ pc'[t] # "cleanup" => member'["outputs"] = t
        /\ \A k \in Kinds : member'[k] \in {t, None}
        /\ member'["inputs"] = member["inputs"]
    <3>1. /\ "outputs" \in Kinds /\ "inputs" \in Kinds
          /\ {"out_file"} \in SUBSET Labels /\ {"cleanup"} \in SUBSET Labels
      BY DEF Kinds, Labels
    <3>2. Create(t, "outputs", {"out_file"}) \/ Create(t, "outputs", {"cleanup"})
      BY <1>6 DEF CreateOutputs
    <3> QED
      BY <1>1, <1>3, <3>1, <3>2
  <2>2. member["inputs"] = t
    BY <1>1, <1>6 DEF CreateOutputs, MembersOf
  <2> QED
    BY <2>1, <2>2 DEF MembersOf
<1>7. CASE SetupInput(t) \/ PpFile(t) \/ SetFrameReference(t)
  BY <1>1, <1>7 DEF SetupInput, PpFile, SetFrameReference, MembersOf
<1>8. CASE OutFile(t) \/ RunPreprocessing(t) \/ RunInference(t) \/ Respond(t)
  BY <1>1, <1>8
  DEF OutFile, OutFileSet, RunPreprocessing, RunInference, Respond, MembersOf
<1>9. CASE Cleanup(t)
  BY <1>1, <1>9 DEF Cleanup, MembersOf
<1>10. CASE Close(t) \/ CloseFd(t)
  BY <1>1, <1>10 DEF Close, CloseFd, Return, MembersOf
<1> QED
  BY <1>2, <1>4, <1>5, <1>6, <1>7, <1>8, <1>9, <1>10 DEF Handler

LEMMA MemberStep == MemberInv /\ [Next]_vars => MemberInv'
<1> SUFFICES ASSUME MemberInv, [Next]_vars PROVE MemberInv'
  OBVIOUS
<1>1. TypeInv'
  BY TypeStep DEF MemberInv
<1>2. None \notin Threads
  BY ConstantsAssumption DEF ConstantsAssumption
<1>3. ASSUME NEW t \in Threads, Handler(t) PROVE MemberInv'
  <2>1. \A u \in Threads \ {t} : pc'[u] = pc[u]
    BY <1>3, OwnLocalsOnly DEF MemberInv, TypeInv
  <2>2. CASE pc[t] \notin Locked /\ ~Lock(t)
    <3>1. UNCHANGED <<mutex, member>> /\ pc'[t] \notin Locked
      BY <1>3, <2>2, UnlockedSteps
    <3>2. MembersOf(t)'
      BY <3>1 DEF MembersOf, Setup, Answering, Bare, Preprocessing, Locked
    <3> QED
      BY <1>1, <2>1, <2>2, <3>1, <3>2 DEF MemberInv, Exclusive, MembersOf
  <2>3. CASE Lock(t)
    <3>1. /\ mutex = None /\ mutex' = t /\ pc'[t] = "inputs"
          /\ \A k \in Kinds : member'[k] = None
      BY <2>3 DEF Lock, Goto, MemberInv, TypeInv, TypeOK
    <3>2. \A u \in Threads \ {t} : pc'[u] \notin Locked
      BY <1>2, <2>1, <3>1 DEF MemberInv, Exclusive
    <3> QED
      BY <1>1, <3>1, <3>2
      DEF MemberInv, Exclusive, MembersOf, Setup, Answering, Bare,
          Preprocessing, Locked
  <2>4. CASE pc[t] \in Locked
    <3>1. \A u \in Threads \ {t} : pc'[u] \notin Locked
      BY <2>1, <2>4 DEF MemberInv, Exclusive
    <3>2. /\ \/ mutex' = t /\ pc'[t] \in Locked
             \/ mutex' = None /\ pc'[t] = "idle" /\ \A k \in Kinds : member'[k] = None
          /\ \A k \in Kinds : member'[k] \in {t, None}
          /\ MembersOf(t)'
      BY <1>3, <2>4, LockedSteps
    <3>3. \A u \in Threads \ {t} : MembersOf(u)'
      BY <3>1 DEF MembersOf, Setup, Answering, Bare, Preprocessing, Locked
    <3>4. Exclusive'
      BY <1>2, <3>1, <3>2 DEF Exclusive, Locked
    <3> QED
      BY <1>1, <3>2, <3>3, <3>4 DEF MemberInv
  <2> QED
    BY <2>2, <2>3, <2>4
<1>4. ASSUME NEW t \in Threads, Begin(t) PROVE MemberInv'
  <2>1. /\ pc[t] = "idle" /\ pc' = [pc EXCEPT ![t] = "find"]
        /\ UNCHANGED <<mutex, member>> /\ pc \in [Threads -> Labels]
    BY <1>4 DEF Begin, Goto, larodVars, MemberInv, TypeInv, TypeOK
  <2> QED
    BY <1>1, <2>1 DEF MemberInv, Exclusive, MembersOf, Setup, Answering, Bare,
                      Preprocessing, Locked
<1>5. CASE (\E t \in Threads : Crash(t)) \/ Construct \/ Destroy \/ Rest
           \/ UNCHANGED vars
  <2>1. UNCHANGED <<mutex, member, pc>>
    BY <1>5 DEF Crash, Construct, Destroy, Rest, vars, larodVars
  <2> QED
    BY <1>1, <2>1 DEF MemberInv, Exclusive, MembersOf
<1> QED
  BY <1>3, <1>4, <1>5 DEF Next, Step

\* MemberInv always holds.
LEMMA MemberInvariant == Spec => []MemberInv
<1>1. Init => MemberInv
  BY TypeInit, ConstantsAssumption
  DEF ConstantsAssumption, Init, MemberInv, Exclusive, MembersOf, Setup,
      Answering, Bare, Preprocessing, Locked
<1> QED
  BY <1>1, MemberStep, PTL DEF Spec

\* What a prediction runs in larod are tensors it has created itself, for any
\* number of threads: the mutex suffices.
THEOREM TensorsOwned == Spec => []OwnTensors
<1>1. MemberInv => OwnTensors
  BY DEF MemberInv, Exclusive, MembersOf, OwnTensors, Answering
<1> QED
  BY <1>1, MemberInvariant, PTL

-----------------------------------------------------------------------------
(* Files                                                                      *)

\* What a handler does with files: nothing, and then it returns only without
\* any; it opens one; it closes the number of the first on its list, which stays
\* on the list, or goes.
CloseFirst(t) == files[t] # << >> /\ CloseNumber(files[t][1].fd)
LEMMA FileSteps ==
    ASSUME TypeInv, NEW t \in Threads, Handler(t)
    PROVE  \/ UNCHANGED <<fd, files>> /\ (pc'[t] = "idle" => files[t] = << >>)
           \/ (\E b \in BOOLEAN : OpenFile(t, b)) /\ pc'[t] # "idle"
           \/ /\ CloseFirst(t) /\ Len(files[t]) = 1
              /\ files' = [files EXCEPT ![t] = << >>]
           \/ CloseFirst(t) /\ UNCHANGED files /\ pc'[t] # "idle"
           \/ /\ CloseFirst(t) /\ files' = [files EXCEPT ![t] = Tail(@)]
              /\ pc'[t] # "idle"
<1> USE DEF Goto, Fail, Return, fileVars
<1>0. pc \in [Threads -> Labels] /\ Locals(t)
  BY DEF TypeInv, TypeOK
<1>1. CASE Find(t) \/ Refind(t) \/ LoadOpen(t)
  BY <1>0, <1>1 DEF Find, Refind, LoadOpen, Locals, NoFile
<1>2. CASE LoadLarod(t) \/ LoadInsert(t) \/ Lock(t)
  BY <1>0, <1>2 DEF LoadLarod, LoadInsert, Lock
<1>3. CASE LoadClose(t)
  <2>1. Len(files[t]) = 1 /\ files[t] \in Seq([fd : Fds, stdio : BOOLEAN])
    BY <1>0, <1>3 DEF LoadClose, Locals, Loading, TypeInv, TypeOK
  <2>2. files[t] # << >>
    BY <2>1, EmptySeq
  <2> QED
    BY <1>3, <2>1, <2>2 DEF LoadClose, CloseFirst
<1>4. ASSUME NEW k, NEW next, "idle" \notin next, Create(t, k, next)
      PROVE  UNCHANGED <<fd, files>> /\ pc'[t] # "idle"
  BY <1>0, <1>4 DEF Create
<1>5. CASE CreateInputs(t) \/ CreateOutputs(t)
  BY <1>4, <1>5 DEF CreateInputs, CreateOutputs
<1>6. CASE PpMap(t) \/ PpModel(t) \/ PpInputs(t) \/ PpOutputs(t)
  BY <1>4, <1>6 DEF PpMap, PpModel, PpInputs, PpOutputs
<1>7. CASE SetupInput(t)
  <2>1. \/ UNCHANGED fileVars
        \/ \E i \in Todo(t) : OpenFile(t, ~job[t].req.inputs[i].file)
    BY <1>7 DEF SetupInput
  <2>2. pc'[t] # "idle"
    BY <1>0, <1>7 DEF SetupInput
  <2> QED
    BY <2>1, <2>2
<1>8. CASE PpFile(t)
  BY <1>0, <1>8 DEF PpFile
<1>9. CASE OutFile(t)
  BY <1>0, <1>9 DEF OutFile, OutFileSet
<1>10. CASE SetFrameReference(t) \/ RunPreprocessing(t) \/ RunInference(t)
            \/ Respond(t) \/ Cleanup(t)
  BY <1>0, <1>10
  DEF SetFrameReference, RunPreprocessing, RunInference, Respond, Cleanup
<1>11. CASE Close(t)
  BY <1>0, <1>11 DEF Close, CloseFirst
<1>12. CASE CloseFd(t)
  BY <1>0, <1>12 DEF CloseFd, CloseFirst, Locals
<1> QED
  BY <1>1, <1>2, <1>3, <1>5, <1>6, <1>7, <1>8, <1>9, <1>10, <1>11, <1>12
  DEF Handler

\* The file with number n is on the list of the thread that opened it.
Listed(n) == fd[n] \in Threads =>
    pc[fd[n]] # "idle" /\ \E k \in DOMAIN files[fd[n]] : files[fd[n]][k].fd = n

LEMMA FileStep == TypeInv /\ NoFileLost /\ [Next]_vars => NoFileLost'
<1> SUFFICES ASSUME TypeInv, NoFileLost, [Next]_vars, NEW n \in Fds
             PROVE  Listed(n)'
  BY DEF NoFileLost, Listed
<1> USE DEF Listed
<1>1. ASSUME NEW t \in Threads, Handler(t) PROVE Listed(n)'
  <2>1. \A u \in Threads \ {t} : pc'[u] = pc[u] /\ files'[u] = files[u]
    BY <1>1, OwnLocalsOnly DEF TypeInv
  <2>2. Listed(n) /\ fd \in [Fds -> Threads \union {None}]
    BY DEF NoFileLost, TypeInv, TypeOK
  <2>3. files[t] \in Seq([fd : Fds, stdio : BOOLEAN])
    BY DEF TypeInv, TypeOK
  <2>4. CASE UNCHANGED <<fd, files>> /\ (pc'[t] = "idle" => files[t] = << >>)
    BY <2>1, <2>2, <2>4
  <2>5. CASE (\E b \in BOOLEAN : OpenFile(t, b)) /\ pc'[t] # "idle"
    <3>1. PICK b \in BOOLEAN : OpenFile(t, b)
      BY <2>5
    <3> DEFINE new == [fd |-> Lowest, stdio |-> b]
    <3>2. /\ fd' = [fd EXCEPT ![Lowest] = t] /\ Lowest \in Fds
          /\ files'[t] = Append(files[t], new)
          /\ new \in [fd : Fds, stdio : BOOLEAN] /\ new.fd = Lowest
      BY <3>1, OpenFileTyped DEF TypeInv
    <3> HIDE DEF new
    <3>3. /\ DOMAIN files'[t] = 1 .. Len(files[t]) + 1
          /\ DOMAIN files[t] = 1 .. Len(files[t]) /\ Len(files[t]) \in Nat
          /\ files'[t][Len(files[t]) + 1] = new
          /\ \A k \in DOMAIN files[t] : files'[t][k] = files[t][k]
      BY <2>3, <3>2, AppendProperties, LenProperties
    <3>4. CASE n = Lowest
      BY <2>2, <2>5, <3>2, <3>3, <3>4
    <3>5. CASE n # Lowest /\ fd[n] = t
      <4>1. PICK k \in DOMAIN files[t] : files[t][k].fd = n
        BY <2>2, <3>5
      <4> QED
        BY <2>2, <2>5, <3>2, <3>3, <3>5, <4>1
    <3>6. CASE n # Lowest /\ fd[n] # t
      BY <2>1, <2>2, <3>2, <3>6
    <3> QED
      BY <3>4, <3>5, <3>6
  <2>6. CASE /\ CloseFirst(t)
             /\ \/ Len(files[t]) = 1
                \/ UNCHANGED files /\ pc'[t] # "idle"
                \/ files' = [files EXCEPT ![t] = Tail(@)] /\ pc'[t] # "idle"
    <3>1. fd' = [fd EXCEPT ![files[t][1].fd] = None] /\ None \notin Threads
      BY <2>6, ConstantsAssumption DEF CloseFirst, CloseNumber, ConstantsAssumption
    <3>2. CASE fd[n] # t \/ n = files[t][1].fd
      BY <2>1, <2>2, <3>1, <3>2
    <3>3. CASE fd[n] = t /\ n # files[t][1].fd
      <4>1. PICK k \in DOMAIN files[t] : files[t][k].fd = n
        BY <2>2, <3>3
      <4>2. k \in 2 .. Len(files[t]) /\ Len(files[t]) \in Nat
        BY <2>3, <3>3, <4>1, LenProperties
      <4>3. pc'[t] # "idle"
        BY <2>6, <4>2
      <4>4. CASE UNCHANGED files
        BY <2>2, <3>1, <3>3, <4>1, <4>3, <4>4
      <4>5. CASE files' = [files EXCEPT ![t] = Tail(@)]
        <5>1. files'[t] = Tail(files[t])
          BY <4>5 DEF TypeInv, TypeOK
        <5>2. /\ DOMAIN files'[t] = 1 .. Len(files[t]) - 1
              /\ \A i \in 1 .. Len(files[t]) - 1 : files'[t][i] = files[t][i + 1]
          BY <2>3, <2>6, <5>1, HeadTailProperties, LenProperties DEF CloseFirst
        <5>3. k - 1 \in DOMAIN files'[t] /\ files'[t][k - 1].fd = n
          BY <4>1, <4>2, <5>2
        <5> QED
          BY <2>2, <3>1, <3>3, <4>3, <5>3
      <4> QED
        BY <2>6, <4>2, <4>4, <4>5
    <3> QED
      BY <3>2, <3>3
  <2> QED
    BY <1>1, <2>4, <2>5, <2>6, FileSteps
<1>2. ASSUME NEW t \in Threads, Begin(t) PROVE Listed(n)'
  BY <1>2 DEF Begin, Goto, fileVars, NoFileLost, TypeInv, TypeOK
<1>3. CASE (\E t \in Threads : Crash(t)) \/ Construct \/ Destroy \/ Rest
           \/ UNCHANGED vars
  BY <1>3 DEF Crash, Construct, Destroy, Rest, vars, fileVars, NoFileLost
<1> QED
  BY <1>1, <1>2, <1>3 DEF Next, Step

\* No way out of Predict or LoadModel leaves a file open, for any number of
\* threads, requests and files, and whatever fails.
THEOREM FilesKept == Spec => []NoFileLost
<1>1. Init => NoFileLost
  BY ConstantsAssumption DEF ConstantsAssumption, Init, NoFileLost
<1> QED
  BY <1>1, FileStep, TypeInvariant, PTL DEF Spec

-----------------------------------------------------------------------------
(* What a step of a handler changes of its own locals                         *)

\* The action a handler takes at a control point.
LEMMA HandlerAt ==
    ASSUME NEW t, Handler(t)
    PROVE  /\ pc[t] # "idle"
           /\ pc[t] = "inputs" => CreateInputs(t)
           /\ pc[t] = "input" => SetupInput(t)
           /\ pc[t] = "pp_map" => PpMap(t)
           /\ pc[t] = "pp_model" => PpModel(t)
           /\ pc[t] = "pp_inputs" => PpInputs(t)
           /\ pc[t] = "pp_outputs" => PpOutputs(t)
           /\ pc[t] = "pp_file" => PpFile(t)
           /\ pc[t] = "ref" => SetFrameReference(t)
           /\ pc[t] = "outputs" => CreateOutputs(t)
           /\ pc[t] = "out_file" => OutFile(t)
           /\ pc[t] = "run_pp" => RunPreprocessing(t)
           /\ pc[t] = "infer" => RunInference(t)
           /\ pc[t] = "respond" => Respond(t)
           /\ pc[t] = "cleanup" => Cleanup(t)
           /\ pc[t] = "close" => Close(t)
           /\ pc[t] = "close_fd" => CloseFd(t)
BY DEF Handler, Find, Refind, LoadOpen, LoadLarod, LoadClose, LoadInsert,
       Lock, CreateInputs, SetupInput, PpMap, PpModel, PpInputs, PpOutputs,
       PpFile, SetFrameReference, CreateOutputs, OutFile, RunPreprocessing,
       RunInference, Respond, Cleanup, Close, CloseFd

\* A step of the set-up of the inputs: there is none left, it fails, or it binds
\* one that is left.
Binds(t, i) ==
    LET j == job[t]  k == job'[t]  in == j.req.inputs[i] IN
    /\ \E from : k.bound = Append(j.bound, [input |-> i, from |-> from])
    /\ k.req = j.req /\ k.handle = j.handle /\ k.ppFor = j.ppFor
    /\ k.resized = j.resized /\ k.outs = j.outs /\ k.response = j.response
    /\ k.status = j.status /\ k.answer = j.answer
    /\ k.frameRef \in {j.frameRef, "captured"}
    /\ j.req.stream /\ ~in.file => k.frameRef = "captured"
    /\ \/ pc'[t] = "pp_map" /\ TRUE \in in.resize
       \/ pc'[t] \in {"input", "cleanup"} /\ FALSE \in in.resize
LEMMA SetupInputSteps ==
    ASSUME TypeInv, NEW t \in Threads, SetupInput(t)
    PROVE  /\ pc[t] = "input"
           /\ \/ UNCHANGED job /\ Todo(t) = {} /\ pc'[t] = "ref"
              \/ UNCHANGED job /\ Todo(t) # {} /\ pc'[t] = "cleanup"
              \/ \E i \in Todo(t) : Binds(t, i)
<1>0. /\ pc \in [Threads -> Labels] /\ job \in [Threads -> Job] /\ job[t] \in Job
  BY DEF TypeInv, TypeOK
<1>1. CASE \/ Todo(t) = {} /\ Goto(t, "ref") /\ UNCHANGED job
           \/ Todo(t) # {} /\ Fail(t) /\ UNCHANGED job
  BY <1>0, <1>1 DEF SetupInput, Goto, Fail
<1>2. ASSUME NEW i \in Todo(t), NEW in, in = job[t].req.inputs[i], NEW from,
             from = IF in.file THEN "file"
                    ELSE IF job[t].req.stream THEN "stream" ELSE "request",
             SetJob(t, [job[t] EXCEPT
                          !.bound = Append(@, [input |-> i, from |-> from]),
                          !.frameRef = IF from = "stream" THEN "captured" ELSE @]),
             \/ TRUE \in in.resize /\ Goto(t, "pp_map")
             \/ FALSE \in in.resize /\ (Goto(t, "input") \/ Fail(t))
      PROVE  Binds(t, i)
  <2> DEFINE new == [job[t] EXCEPT
                          !.bound = Append(@, [input |-> i, from |-> from]),
                          !.frameRef = IF from = "stream" THEN "captured" ELSE @]
  <2>1. job'[t] = new
    BY <1>0, <1>2 DEF SetJob
  <2>2. /\ new.bound = Append(job[t].bound, [input |-> i, from |-> from])
        /\ new.frameRef = IF from = "stream" THEN "captured" ELSE job[t].frameRef
        /\ new.req = job[t].req /\ new.handle = job[t].handle
        /\ new.ppFor = job[t].ppFor /\ new.resized = job[t].resized
        /\ new.outs = job[t].outs /\ new.response = job[t].response
        /\ new.status = job[t].status /\ new.answer = job[t].answer
    BY <1>0 DEF Job
  <2>3. \/ pc'[t] = "pp_map" /\ TRUE \in in.resize
        \/ pc'[t] \in {"input", "cleanup"} /\ FALSE \in in.resize
    BY <1>0, <1>2 DEF Goto, Fail
  <2> HIDE DEF new
  <2> QED
    BY <1>2, <2>1, <2>2, <2>3 DEF Binds
<1> QED
  BY <1>1, <1>2 DEF SetupInput

\* Each local is changed at one control point only, and reset by the return.
LEMMA LocalSteps ==
    ASSUME TypeInv, NEW t \in Threads, Handler(t)
    PROVE  LET j == job[t]  k == job'[t] IN
           \/ pc'[t] = "idle" /\ k = NewJob
           \/ /\ pc'[t] # "idle" /\ k.req = j.req
              /\ pc[t] # "load_larod" => k.handle = j.handle
              /\ pc[t] # "input" => k.bound = j.bound /\ k.frameRef = j.frameRef
              /\ pc[t] # "pp_file" => k.ppFor = j.ppFor
              /\ pc[t] # "run_pp" => k.resized = j.resized
              /\ pc[t] # "out_file" => k.outs = j.outs
              /\ pc[t] # "ref" => k.response = j.response
              /\ pc[t] # "respond" => k.status = j.status /\ k.answer = j.answer
<1> USE DEF Goto, Fail
<1>0. /\ pc \in [Threads -> Labels] /\ job[t] \in Job
      /\ job \in [Threads -> Job]
  BY DEF TypeInv, TypeOK
<1>1. CASE Find(t) \/ Refind(t) \/ LoadOpen(t) \/ LoadClose(t) \/ Close(t)
  BY <1>0, <1>1 DEF Find, Refind, LoadOpen, LoadClose, Close, Return, SetJob
<1>2. CASE LoadLarod(t) \/ SetFrameReference(t) \/ RunPreprocessing(t)
  BY <1>0, <1>2 DEF LoadLarod, SetFrameReference, RunPreprocessing, SetJob, Job
<1>3. CASE SetupInput(t)
  BY <1>3, SetupInputSteps DEF Binds
<1>4. CASE PpFile(t)
  <2>1. pc[t] = "pp_file" /\ pc'[t] \in {"input", "cleanup"}
    BY <1>0, <1>4 DEF PpFile
  <2>2. \/ job'[t] = job[t]
        \/ \E i : job'[t] = [job[t] EXCEPT !.ppFor = i]
    BY <1>0, <1>4 DEF PpFile, SetJob
  <2> QED
    BY <1>0, <2>1, <2>2 DEF Job
<1>5. CASE OutFile(t)
  <2>1. pc[t] = "out_file" /\ pc'[t] \in {"run_pp", "out_file", "cleanup"}
    BY <1>0, <1>5 DEF OutFile, OutFileSet
  <2>2. \/ job'[t] = job[t]
        \/ \E i : job'[t] = [job[t] EXCEPT !.outs = i]
    BY <1>0, <1>5 DEF OutFile, OutFileSet, SetJob
  <2> QED
    BY <1>0, <2>1, <2>2 DEF Job
<1>6. CASE Respond(t)
  <2>1. pc[t] = "respond" /\ pc'[t] = "cleanup"
    BY <1>0, <1>6 DEF Respond
  <2>2. job'[t] = job[t] \/ job'[t] = Answered(t)
    BY <1>0, <1>6, RespondAnswers DEF SetJob
  <2> QED
    BY <1>0, <2>1, <2>2 DEF Answered, Job
<1>7. CASE LoadInsert(t) \/ Lock(t) \/ RunInference(t) \/ Cleanup(t) \/ CloseFd(t)
  BY <1>0, <1>7 DEF LoadInsert, Lock, RunInference, Cleanup, CloseFd
<1>8. ASSUME NEW k, NEW next, "idle" \notin next, Create(t, k, next)
      PROVE  UNCHANGED job /\ pc'[t] # "idle"
  BY <1>0, <1>8 DEF Create
<1>9. CASE CreateInputs(t) \/ CreateOutputs(t)
  BY <1>8, <1>9 DEF CreateInputs, CreateOutputs
<1>10. CASE PpMap(t) \/ PpModel(t) \/ PpInputs(t) \/ PpOutputs(t)
  BY <1>8, <1>10 DEF PpMap, PpModel, PpInputs, PpOutputs
<1> QED
  BY <1>1, <1>2, <1>3, <1>4, <1>5, <1>6, <1>7, <1>9, <1>10 DEF Handler

\* The control points are reached in order.
LEMMA ControlSteps ==
    ASSUME TypeInv, NEW t \in Threads, Handler(t)
    PROVE  LET from == pc[t]  to == pc'[t] IN
           /\ to = "idle" => from \in {"find", "refind", "load_open",
                                       "load_close", "close"}
           /\ to \notin Locked \union {"idle"} => from \notin Locked
           /\ to = "load_insert" => from = "load_close" /\ job[t].handle # 0
           /\ to = "lock" => from \in {"find", "refind"} /\ Hit(t)
           /\ to \in {"inputs"} => Lock(t)
           /\ to = "input" => from \in {"inputs", "input", "pp_file"}
           /\ to = "pp_map" => from = "input"
           /\ to = "pp_model" => from = "pp_map"
           /\ to = "pp_inputs" => from = "pp_model"
           /\ to = "pp_outputs" => from = "pp_inputs"
           /\ to = "pp_file" => from = "pp_outputs"
           /\ to = "ref" => from = "input"
           /\ to = "outputs" => from = "ref"
           /\ to = "out_file" => from \in {"outputs", "out_file"}
           /\ to = "run_pp" => from = "out_file"
           /\ to = "infer" => from = "run_pp"
           /\ to = "respond" => from = "infer"
           /\ to = "cleanup" => from \in (Locked \ Bare) \union {"inputs"}
           /\ to \in {"close", "close_fd"} =>
                from \in {"cleanup", "close", "close_fd"}
<1> USE DEF Goto, Fail, Locked, Bare
<1>0. pc \in [Threads -> Labels]
  BY DEF TypeInv, TypeOK
<1>1. CASE Find(t) \/ Refind(t) \/ LoadOpen(t) \/ LoadClose(t) \/ Close(t)
  BY <1>0, <1>1 DEF Find, Refind, LoadOpen, LoadClose, Close, Return
<1>2. CASE LoadLarod(t) \/ SetFrameReference(t) \/ RunPreprocessing(t)
  BY <1>0, <1>2 DEF LoadLarod, SetFrameReference, RunPreprocessing
<1>3. CASE SetupInput(t)
  <2>1. pc[t] = "input" /\ pc'[t] \in {"ref", "cleanup", "pp_map", "input"}
    BY <1>3, SetupInputSteps DEF Binds
  <2> QED
    BY <2>1
<1>4. CASE PpFile(t) \/ OutFile(t) \/ Respond(t)
  <2>1. \/ pc[t] = "pp_file" /\ pc'[t] \in {"input", "cleanup"}
        \/ pc[t] = "out_file" /\ pc'[t] \in {"run_pp", "out_file", "cleanup"}
        \/ pc[t] = "respond" /\ pc'[t] = "cleanup"
    BY <1>0, <1>4 DEF PpFile, OutFile, OutFileSet, Respond
  <2> QED
    BY <2>1
<1>6. CASE LoadInsert(t) \/ Lock(t) \/ RunInference(t) \/ Cleanup(t) \/ CloseFd(t)
  BY <1>0, <1>6 DEF LoadInsert, Lock, RunInference, Cleanup, CloseFd
<1>7. ASSUME NEW k, NEW next, Create(t, k, next)
      PROVE  pc'[t] \in next \union {"cleanup"}
  BY <1>0, <1>7 DEF Create
<1>8. CASE CreateInputs(t) \/ CreateOutputs(t)
  <2>1. \/ pc[t] = "inputs" /\ pc'[t] \in {"input", "cleanup"}
        \/ pc[t] = "outputs" /\ pc'[t] \in {"out_file", "cleanup"}
    BY <1>7, <1>8 DEF CreateInputs, CreateOutputs
  <2> QED
    BY <2>1
<1>9. CASE PpMap(t) \/ PpModel(t) \/ PpInputs(t) \/ PpOutputs(t)
  <2>1. \/ pc[t] = "pp_map" /\ pc'[t] \in {"pp_model", "cleanup"}
        \/ pc[t] = "pp_model" /\ pc'[t] \in {"pp_inputs", "cleanup"}
        \/ pc[t] = "pp_inputs" /\ pc'[t] \in {"pp_outputs", "cleanup"}
        \/ pc[t] = "pp_outputs" /\ pc'[t] \in {"pp_file", "cleanup"}
    BY <1>7, <1>9 DEF PpMap, PpModel, PpInputs, PpOutputs
  <2> QED
    BY <2>1
<1> QED
  BY <1>1, <1>2, <1>3, <1>4, <1>6, <1>8, <1>9 DEF Handler

-----------------------------------------------------------------------------
(* The models                                                                 *)

\* What is entered is loaded, and so is what a handler has loaded itself; a
\* handler at the lock or past it has found an entry. No entry is there, and no
\* handler, before the service serves.
ModelOf(t) ==
    /\ pc[t] = "load_insert" => job[t].handle # 0
    /\ pc[t] # "idle" /\ job[t].handle # 0 => job[t].handle \in loaded
    /\ pc[t] \in Locked \union {"lock"} => models[job[t].req.model] # 0

ModelInv ==
    /\ TypeInv
    /\ phase = "starting" =>
         /\ \A t \in Threads : pc[t] = "idle"
         /\ \A m \in Models : models[m] = 0
    /\ \A m \in Models : models[m] # 0 => models[m] \in loaded
    /\ \A t \in Threads : ModelOf(t)

\* A handler enters at most the model it has loaded, and only where no entry is;
\* none deletes a model from larod.
LEMMA ModelSteps ==
    ASSUME TypeInv, NEW t \in Threads, Handler(t)
    PROVE  /\ phase' = phase /\ loaded \subseteq loaded'
           /\ \/ models' = models
              \/ /\ pc[t] = "load_insert" /\ models[job[t].req.model] = 0
                 /\ models' = [models EXCEPT ![job[t].req.model] = job[t].handle]
           /\ pc[t] = "load_larod" =>
                job'[t].handle \in {job[t].handle} \union loaded'
<1> USE DEF modelVars, serveVars
<1>1. CASE Find(t) \/ Refind(t) \/ LoadOpen(t) \/ LoadClose(t) \/ Lock(t)
  BY <1>1 DEF Find, Refind, LoadOpen, LoadClose, Lock
<1>2. CASE LoadLarod(t)
  <2>1. job \in [Threads -> Job] /\ job[t] \in Job
    BY DEF TypeInv, TypeOK
  <2> QED
    BY <1>2, <2>1 DEF LoadLarod, SetJob, Job
<1>3. CASE LoadInsert(t)
  BY <1>3 DEF LoadInsert
<1>4. CASE CreateInputs(t) \/ CreateOutputs(t)
  BY <1>4 DEF CreateInputs, CreateOutputs, Create
<1>5. CASE PpMap(t) \/ PpModel(t) \/ PpInputs(t) \/ PpOutputs(t)
  BY <1>5 DEF PpMap, PpModel, PpInputs, PpOutputs, Create
<1>6. CASE SetupInput(t) \/ PpFile(t) \/ OutFile(t) \/ SetFrameReference(t)
  BY <1>6 DEF SetupInput, PpFile, OutFile, SetFrameReference
<1>7. CASE RunPreprocessing(t) \/ RunInference(t) \/ Respond(t)
  BY <1>7 DEF RunPreprocessing, RunInference, Respond
<1>8. CASE Cleanup(t) \/ Close(t) \/ CloseFd(t)
  BY <1>8 DEF Cleanup, Close, CloseFd
<1> QED
  BY <1>1, <1>2, <1>3, <1>4, <1>5, <1>6, <1>7, <1>8 DEF Handler

LEMMA ModelStep == ModelInv /\ [Next]_vars => ModelInv'
<1> SUFFICES ASSUME ModelInv, [Next]_vars PROVE ModelInv'
  OBVIOUS
<1> USE DEF ModelInv
<1>1. TypeInv' /\ TypeInv /\ models \in [Models -> Nat] /\ pc \in [Threads -> Labels]
  BY TypeStep DEF TypeInv, TypeOK
<1>2. \A t \in Threads : pc[t] # "idle" => job[t].req.model \in Models
  BY <1>1, RequestTyped DEF TypeInv, Locals
<1>3. ASSUME NEW t \in Threads, Handler(t) PROVE ModelInv'
  <2>1. /\ phase' = phase /\ loaded \subseteq loaded'
        /\ \/ models' = models
           \/ /\ pc[t] = "load_insert" /\ models[job[t].req.model] = 0
              /\ models' = [models EXCEPT ![job[t].req.model] = job[t].handle]
    BY <1>1, <1>3, ModelSteps
  <2>2. pc[t] # "idle" /\ phase # "starting"
    <3>1. pc[t] # "idle"
      BY <1>3, HandlerAt
    <3> QED
      BY <3>1
  <2>3. ModelOf(t)
    OBVIOUS
  <2>4. \A m \in Models : /\ models[m] # 0 => models'[m] = models[m]
                          /\ models'[m] # 0 => models'[m] \in loaded'
    BY <1>1, <1>2, <2>1, <2>2, <2>3 DEF ModelOf
  <2>5. ModelOf(t)'
    <3>1. pc'[t] # "idle" =>
            /\ job'[t].req = job[t].req
            /\ job'[t].handle = job[t].handle \/ job'[t].handle \in loaded'
      BY <1>1, <1>3, LocalSteps, ModelSteps
    <3>2. pc'[t] # "idle" /\ job'[t].handle # 0 => job'[t].handle \in loaded'
      BY <2>1, <2>2, <2>3, <3>1 DEF ModelOf
    <3>3. pc'[t] = "load_insert" => job'[t].handle # 0
      <4>1. pc'[t] = "load_insert" => pc[t] = "load_close" /\ job[t].handle # 0
        BY <1>1, <1>3, ControlSteps
      <4>2. pc'[t] # "idle" /\ pc[t] = "load_close" => job'[t].handle = job[t].handle
        BY <1>1, <1>3, LocalSteps
      <4> QED
        BY <4>1, <4>2
    <3>4. pc'[t] \in Locked \union {"lock"} => models[job[t].req.model] # 0
      <4>1. pc'[t] = "lock" => models[job[t].req.model] # 0
        BY <1>1, <1>3, ControlSteps DEF Hit
      <4>2. pc'[t] \in Locked => pc[t] \in Locked \union {"lock"}
        BY <1>1, <1>3, ControlSteps DEF Locked, Bare, Lock
      <4> QED
        BY <2>3, <4>1, <4>2 DEF ModelOf
    <3> QED
      BY <1>2, <2>2, <2>4, <3>1, <3>2, <3>3, <3>4 DEF ModelOf, Locked
  <2>6. \A u \in Threads \ {t} : ModelOf(u)'
    <3> SUFFICES ASSUME NEW u \in Threads \ {t} PROVE ModelOf(u)'
      OBVIOUS
    <3>1. pc'[u] = pc[u] /\ job'[u] = job[u]
      BY <1>1, <1>3, OwnLocalsOnly DEF TypeInv
    <3> QED
      BY <1>2, <2>1, <2>4, <3>1 DEF ModelOf, Locked
  <2> QED
    BY <1>1, <2>1, <2>2, <2>4, <2>5, <2>6
<1>4. ASSUME NEW t \in Threads, Begin(t) PROVE ModelInv'
  <2>1. PICK r \in Requests : SetJob(t, [NewJob EXCEPT !.req = r])
    BY <1>4 DEF Begin
  <2>2. /\ UNCHANGED <<phase, models, loaded>> /\ phase = "serving"
        /\ pc' = [pc EXCEPT ![t] = "find"]
    BY <1>4 DEF Begin, Goto, modelVars
  <2>3. job'[t].handle = 0 /\ \A u \in Threads \ {t} : job'[u] = job[u]
    BY <1>1, <2>1 DEF SetJob, NewJob, TypeInv, TypeOK
  <2> QED
    BY <1>1, <2>2, <2>3 DEF ModelOf, Locked
<1>5. CASE Construct
  <2>1. /\ \A t \in Threads : pc'[t] = "idle"
        /\ phase' # "starting"
    BY <1>5 DEF Construct
  <2>2. \A m \in Models : models'[m] # 0 => models'[m] \in loaded'
    <3>1. phase = "starting" /\ \A m \in Models : models[m] = 0
      BY <1>5 DEF Construct
    <3> QED
      BY <1>5, <3>1, ConstructModels
  <2> QED
    BY <1>1, <2>1, <2>2 DEF ModelOf, Locked
<1>6. CASE Destroy
  BY <1>1, <1>6 DEF Destroy, ModelOf, Locked
<1>7. CASE (\E t \in Threads : Crash(t)) \/ Rest \/ UNCHANGED vars
  <2>1. UNCHANGED <<phase, models, loaded, pc, job>>
    BY <1>7 DEF Crash, Rest, vars, serveVars, modelVars
  <2> QED
    BY <1>1, <2>1 DEF ModelOf
<1> QED
  BY <1>3, <1>4, <1>5, <1>6, <1>7 DEF Next, Step

\* ModelInv always holds.
LEMMA ModelInvariant == Spec => []ModelInv
<1>1. Init => ModelInv
  BY TypeInit DEF Init, ModelInv, ModelOf, Locked
<1> QED
  BY <1>1, ModelStep, PTL DEF Spec

\* The model of a prediction stays entered and loaded while the prediction is at
\* the lock or past it, though other threads look up, load and enter models
\* without a lock: for any number of threads and models.
OneModel(t) ==
    LET m == job[t].req.model IN
    pc[t] \in Locked \union {"lock"} =>
      models[m] \in loaded /\ models'[m] = models[m] /\ models[m] \in loaded'
LEMMA OneModelStep == ModelInv /\ [Next]_vars => \A t \in Threads : OneModel(t)
<1> SUFFICES ASSUME ModelInv, [Next]_vars, NEW t \in Threads,
                    pc[t] \in Locked \union {"lock"}
             PROVE  OneModel(t)
  BY DEF OneModel
<1> DEFINE m == job[t].req.model
<1>1. /\ pc[t] # "idle" /\ phase # "starting"
      /\ m \in Models /\ models[m] # 0 /\ models[m] \in loaded
  <2>1. pc[t] # "idle"
    BY DEF Locked
  <2>2. m \in Models
    BY <2>1, RequestTyped DEF ModelInv, TypeInv, Locals
  <2> QED
    BY <2>1, <2>2 DEF ModelInv, ModelOf
<1>2. ASSUME NEW u \in Threads, Handler(u) PROVE OneModel(t)
  <2>1. models \in [Models -> Nat]
    BY DEF ModelInv, TypeInv, TypeOK
  <2> QED
    BY <1>1, <1>2, <2>1, ModelSteps DEF OneModel, ModelInv
<1>3. CASE (\E u \in Threads : Begin(u) \/ Crash(u)) \/ Rest \/ UNCHANGED vars
  BY <1>1, <1>3 DEF Begin, Crash, Rest, vars, modelVars, OneModel
<1>4. ~Construct /\ ~Destroy
  BY <1>1 DEF Construct, Destroy
<1> QED
  BY <1>2, <1>3, <1>4 DEF Next, Step

\* A prediction works on one model from the lookup to the cleanup.
THEOREM ModelKept == Spec => OneModelPerPrediction
<1>1. ModelInv /\ [Next]_vars =>
        [\A t \in Threads : pc[t] \in Locked \union {"lock"} =>
           LET m == job[t].req.model IN
           /\ models[m] \in loaded
           /\ models'[m] = models[m]
           /\ models[m] \in loaded']_vars
  BY OneModelStep DEF OneModel
<1> QED
  BY <1>1, ModelInvariant, PTL DEF Spec, OneModelPerPrediction

-----------------------------------------------------------------------------
(* The bindings of the input tensors                                          *)

\* The inputs that are bound.
Bound(t) == {b.input : b \in Range(job[t].bound)}

\* Bound are different inputs of the request, which are as many as the model
\* takes; none before the members are made, and from the frame reference on none
\* is left.
BindingsOf(t) ==
    LET r == job[t].req IN
    /\ pc[t] \in Setup \union Answering \/ job[t].bound # << >> =>
         Len(r.inputs) = Inputs[r.model]
    /\ pc[t] \notin Locked \ {"inputs"} => job[t].bound = << >>
    /\ pc[t] # "idle" => Bound(t) \subseteq DOMAIN r.inputs
    /\ Cardinality(Bound(t)) = Len(job[t].bound)
    /\ pc[t] \in {"ref", "outputs"} \union Answering => Todo(t) = {}

BindInv == TypeInv /\ \A t \in Threads : BindingsOf(t)

\* What is in a list to which an element was appended.
LEMMA RangeOfAppend ==
    ASSUME NEW S, NEW s \in Seq(S), NEW e \in S
    PROVE  Range(Append(s, e)) = Range(s) \union {e}
<1>1. /\ DOMAIN Append(s, e) = 1 .. Len(s) + 1 /\ Len(s) \in Nat
      /\ DOMAIN s = 1 .. Len(s)
      /\ \A k \in 1 .. Len(s) : Append(s, e)[k] = s[k]
      /\ Append(s, e)[Len(s) + 1] = e
  BY AppendProperties, LenProperties
<1>2. DOMAIN Append(s, e) = DOMAIN s \union {Len(s) + 1}
  BY <1>1
<1> QED
  BY <1>1, <1>2 DEF Range

\* The inputs of a request are finitely many.
LEMMA InputsFinite ==
    ASSUME NEW r \in Requests, NEW B \in SUBSET DOMAIN r.inputs
    PROVE  /\ IsFiniteSet(B)
           /\ Cardinality(B) <= Len(r.inputs)
           /\ Cardinality(DOMAIN r.inputs) = Len(r.inputs)
<1>1. DOMAIN r.inputs = 1 .. Len(r.inputs) /\ Len(r.inputs) \in Nat
  BY RequestTyped
<1>2. /\ IsFiniteSet(DOMAIN r.inputs)
      /\ Cardinality(DOMAIN r.inputs) = Len(r.inputs)
  BY <1>1, FS_Interval
<1> QED
  BY <1>2, FS_Subset

\* A step that binds an input leaves one less to bind.
LEMMA BindsOne ==
    ASSUME TypeInv, NEW t \in Threads, pc[t] # "idle", BindingsOf(t),
           NEW i \in Todo(t), Binds(t, i), TypeInv'
    PROVE  /\ Bound(t)' = Bound(t) \union {i} /\ i \notin Bound(t)
           /\ Len(job'[t].bound) = Len(job[t].bound) + 1
           /\ job'[t].bound[Len(job'[t].bound)].input = i
           /\ Cardinality(Bound(t)') = Len(job'[t].bound)
<1> DEFINE s == job[t].bound
<1>1. PICK from : job'[t].bound = Append(s, [input |-> i, from |-> from])
  BY DEF Binds
<1> DEFINE e == [input |-> i, from |-> from]
           S == Range(s) \union {e}
<1>2. s \in Seq(S) /\ Len(s) \in Nat
  <2>1. s \in Seq(Binding)
    BY DEF TypeInv, TypeOK, Job
  <2>2. DOMAIN s = 1 .. Len(s) /\ Len(s) \in Nat
    BY <2>1
  <2>3. s = [k \in 1 .. Len(s) |-> s[k]]
    BY <2>1, <2>2
  <2>4. \A k \in 1 .. Len(s) : s[k] \in S
    BY <2>2 DEF Range
  <2> HIDE DEF s, S
  <2> QED
    BY <2>2, <2>3, <2>4
<1>3. /\ Range(Append(s, e)) = Range(s) \union {e}
      /\ Len(Append(s, e)) = Len(s) + 1
      /\ Append(s, e)[Len(s) + 1] = e
  <2>1. e \in S
    OBVIOUS
  <2> HIDE DEF S, e, s
  <2> QED
    BY <1>2, <2>1, RangeOfAppend, AppendProperties
<1>4. Bound(t)' = Bound(t) \union {i}
  <2>1. Range(job'[t].bound) = Range(s) \union {e}
    BY <1>1, <1>3
  <2>2. {b.input : b \in Range(s) \union {e}} =
          {b.input : b \in Range(s)} \union {i}
    <3>1. e.input = i
      OBVIOUS
    <3> HIDE DEF e, s
    <3> QED
      BY <3>1
  <2> QED
    BY <2>1, <2>2 DEF Bound
<1>5. i \notin Bound(t)
  BY DEF Todo, Bound
<1>6. IsFiniteSet(Bound(t)) /\ Cardinality(Bound(t)) = Len(s)
  BY InputsFinite DEF TypeInv, Locals, BindingsOf
<1>7. Cardinality(Bound(t) \union {i}) = Len(s) + 1
  BY <1>5, <1>6, FS_AddElement
<1> QED
  BY <1>1, <1>3, <1>4, <1>5, <1>7

LEMMA BindStep == BindInv /\ [Next]_vars => BindInv'
<1> SUFFICES ASSUME BindInv, [Next]_vars PROVE BindInv'
  OBVIOUS
<1> USE DEF BindInv
<1>1. TypeInv' /\ TypeInv /\ job \in [Threads -> Job] /\ pc \in [Threads -> Labels]
  BY TypeStep DEF TypeInv, TypeOK
<1>2. ASSUME NEW u, BindingsOf(u), job'[u] = job[u], pc'[u] = pc[u]
      PROVE  BindingsOf(u)'
  BY <1>2 DEF BindingsOf, Bound, Todo
<1>3. ASSUME NEW u, job'[u].bound = << >>, pc'[u] \in {"idle", "find"}
      PROVE  BindingsOf(u)'
  <2>1. Bound(u)' = {} /\ Len(job'[u].bound) = 0
    BY <1>3 DEF Bound, Range
  <2>2. Cardinality(Bound(u)') = 0
    BY <2>1, FS_EmptySet
  <2> QED
    BY <1>3, <2>1, <2>2 DEF BindingsOf, Setup, Answering, Preprocessing
<1>4. ASSUME NEW t \in Threads, Handler(t) PROVE BindInv'
  <2>1. \A u \in Threads \ {t} : BindingsOf(u)'
    BY <1>1, <1>2, <1>4, OwnLocalsOnly DEF TypeInv
  <2>2. BindingsOf(t)
    OBVIOUS
  <2>3. CASE pc'[t] = "idle"
    <3>1. job'[t] = NewJob
      BY <1>1, <1>4, <2>3, LocalSteps
    <3> QED
      BY <1>1, <1>3, <2>1, <2>3, <3>1 DEF NewJob
  <2>4. CASE pc'[t] # "idle" /\ pc[t] = "input"
    <3>1. SetupInput(t)
      BY <1>4, <2>4, HandlerAt
    <3>2. CASE /\ UNCHANGED job
               /\ \/ Todo(t) = {} /\ pc'[t] = "ref"
                  \/ Todo(t) # {} /\ pc'[t] = "cleanup"
      <4>1. BindingsOf(t)'
        BY <2>2, <2>4, <3>2
        DEF BindingsOf, Bound, Todo, Setup, Answering, Preprocessing, Locked
      <4> QED
        BY <1>1, <2>1, <4>1
    <3>3. ASSUME NEW i \in Todo(t), Binds(t, i) PROVE BindingsOf(t)'
      <4>1. /\ Bound(t)' = Bound(t) \union {i} /\ i \in DOMAIN job[t].req.inputs
            /\ Cardinality(Bound(t)') = Len(job'[t].bound)
        BY <1>1, <2>2, <2>4, <3>3, BindsOne DEF Todo
      <4>2. /\ job'[t].req = job[t].req /\ pc'[t] \in {"pp_map", "input", "cleanup"}
        BY <3>3 DEF Binds
      <4>3. Len(job[t].req.inputs) = Inputs[job[t].req.model]
        BY <2>2, <2>4 DEF BindingsOf, Setup
      <4> QED
        BY <2>2, <2>4, <4>1, <4>2, <4>3 DEF BindingsOf, Answering, Locked
    <3> QED
      BY <1>1, <2>1, <3>1, <3>2, <3>3, SetupInputSteps
  <2>5. CASE pc'[t] # "idle" /\ pc[t] # "input"
    <3>1. job'[t].req = job[t].req /\ job'[t].bound = job[t].bound
      BY <1>1, <1>4, <2>5, LocalSteps
    <3>2. pc[t] # "idle"
      BY <1>4, HandlerAt
    <3>3. pc'[t] \in Setup \union Answering =>
            Len(job[t].req.inputs) = Inputs[job[t].req.model]
      <4>1. CASE pc[t] = "inputs"
        <5>1. CreateInputs(t)
          BY <1>4, <4>1, HandlerAt
        <5> QED
          BY <1>1, <5>1 DEF CreateInputs, Create, Goto, Fail, Setup, Answering,
                       Preprocessing
      <4>2. pc'[t] \in Setup \union Answering /\ pc[t] # "inputs" =>
              pc[t] \in Setup \union Answering
        BY <1>1, <1>4, ControlSteps DEF Setup, Answering, Preprocessing
      <4> QED
        BY <2>2, <4>1, <4>2 DEF BindingsOf
    <3>4. pc'[t] \in {"ref", "outputs"} \union Answering =>
            pc[t] \in {"ref", "outputs"} \union Answering
      BY <1>1, <1>4, <2>5, ControlSteps DEF Answering
    <3>5. pc'[t] \notin Locked \ {"inputs"} => pc[t] \notin Locked \ {"inputs"}
      <4>1. pc'[t] = "inputs" => pc[t] = "lock"
        BY <1>1, <1>4, ControlSteps DEF Lock
      <4>2. pc'[t] \notin Locked => pc[t] \notin Locked
        BY <1>1, <1>4, <2>5, ControlSteps
      <4> QED
        BY <4>1, <4>2 DEF Locked
    <3>6. BindingsOf(t)'
      BY <2>2, <2>5, <3>1, <3>2, <3>3, <3>4, <3>5 DEF BindingsOf, Bound, Todo
    <3> QED
      BY <1>1, <2>1, <3>6
  <2> QED
    BY <2>3, <2>4, <2>5
<1>5. ASSUME NEW t \in Threads, Begin(t) PROVE BindInv'
  <2>1. PICK r \in Requests : job' = [job EXCEPT ![t] = [NewJob EXCEPT !.req = r]]
    BY <1>5 DEF Begin, SetJob
  <2>2. job'[t].bound = << >> /\ pc' = [pc EXCEPT ![t] = "find"]
    BY <1>1, <1>5, <2>1 DEF NewJob, Begin, Goto
  <2>3. \A u \in Threads \ {t} : job'[u] = job[u] /\ pc'[u] = pc[u]
    BY <1>1, <2>1, <2>2
  <2> QED
    BY <1>1, <1>2, <1>3, <2>2, <2>3
<1>6. CASE (\E t \in Threads : Crash(t)) \/ Construct \/ Destroy \/ Rest
           \/ UNCHANGED vars
  <2>1. UNCHANGED <<pc, job>>
    BY <1>6 DEF Crash, Construct, Destroy, Rest, vars
  <2> QED
    BY <1>1, <1>2, <2>1
<1> QED
  BY <1>4, <1>5, <1>6 DEF Next, Step

\* BindInv always holds.
LEMMA BindInvariant == Spec => []BindInv
<1>1. ASSUME Init PROVE BindInv
  <2> SUFFICES ASSUME NEW t \in Threads PROVE BindingsOf(t)
    BY <1>1, TypeInit DEF BindInv
  <2>1. job[t].bound = << >> /\ pc[t] = "idle"
    BY <1>1 DEF Init, NewJob
  <2>2. Bound(t) = {} /\ Len(job[t].bound) = 0
    BY <2>1 DEF Bound, Range
  <2>3. Cardinality(Bound(t)) = 0
    BY <2>2, FS_EmptySet
  <2> QED
    BY <2>1, <2>2, <2>3 DEF BindingsOf, Setup, Answering, Preprocessing
<1> QED
  BY <1>1, BindStep, PTL DEF Spec

\* The inference starts with every input tensor bound to another input of the
\* request and every input bound, for any number of inputs and in any order.
THEOREM AllInputsBound == Spec => []InputsBound
<1>1. ASSUME BindInv PROVE InputsBound
  <2> SUFFICES ASSUME NEW t \in Threads
               PROVE  LET r == job[t].req  n == Len(job[t].bound) IN
                      /\ job[t].bound # << >> => n <= Inputs[r.model]
                      /\ pc[t] = "infer" =>
                           n = Inputs[r.model] /\ Bound(t) = DOMAIN r.inputs
    BY DEF InputsBound, Bound
  <2> DEFINE r == job[t].req
  <2>1. BindingsOf(t) /\ Locals(t)
    BY <1>1 DEF BindInv, TypeInv
  <2>2. CASE pc[t] = "idle"
    BY <2>1, <2>2 DEF BindingsOf, Locked
  <2>3. CASE pc[t] # "idle"
    <3>1. r \in Requests /\ Bound(t) \in SUBSET DOMAIN r.inputs
      BY <2>1, <2>3 DEF Locals, BindingsOf
    <3>2. /\ Cardinality(Bound(t)) <= Len(r.inputs)
          /\ Cardinality(DOMAIN r.inputs) = Len(r.inputs)
      BY <3>1, InputsFinite
    <3>3. pc[t] = "infer" => Bound(t) = DOMAIN r.inputs
      BY <2>1, <3>1 DEF BindingsOf, Answering, Todo, Bound
    <3>4. /\ job[t].bound # << >> => Len(r.inputs) = Inputs[r.model]
          /\ pc[t] = "infer" => Len(r.inputs) = Inputs[r.model]
          /\ Cardinality(Bound(t)) = Len(job[t].bound)
      BY <2>1 DEF BindingsOf, Answering
    <3> QED
      BY <3>2, <3>3, <3>4
  <2> QED
    BY <2>2, <2>3
<1> QED
  BY <1>1, BindInvariant, PTL

-----------------------------------------------------------------------------
(* The response                                                               *)

\* Only a prediction that has responded is OK, and then it cleans up.
StatusOf(t) ==
    job[t].status = "OK" => pc[t] \in {"cleanup", "close", "close_fd"}

\* When the image of a bound input was to come from the stream, a frame was
\* captured; from the outputs on, the response has its reference.
ImageNeeded(t, S) ==
    job[t].req.stream /\ \E i \in S : ~job[t].req.inputs[i].file
FrameOf(t) ==
    /\ pc[t] # "idle" /\ ImageNeeded(t, Bound(t)) => job[t].frameRef = "captured"
    /\ pc[t] \in {"outputs"} \union Answering \/ job[t].status = "OK" =>
         (ImageNeeded(t, DOMAIN job[t].req.inputs) => job[t].response = "captured")

\* The answer has output k of the model, unless another has its name.
AnswerHas(t, k) ==
    LET outputs == Outputs[job[t].req.model]
        o       == outputs[k] IN
    \/ \E j \in DOMAIN outputs \ {k} : outputs[j].name = o.name
    \/ \E a \in job[t].answer :
       /\ a.name = o.name
       /\ a.file = job[t].outs[k]
       /\ 8 * a.size = Bits[o.type] * o.elements
       /\ TfToLarodDataType[a.dtype] =
            IF o.type \in {"FLOAT16", "FLOAT64"} THEN "INVALID" ELSE o.type
AnswerOfJob(t) ==
    job[t].status = "OK" =>
      \A k \in DOMAIN Outputs[job[t].req.model] : AnswerHas(t, k)

ResponseInv ==
    /\ BindInv
    /\ \A t \in Threads : StatusOf(t) /\ FrameOf(t) /\ AnswerOfJob(t)

\* The response that Respond makes has every output.
LEMMA RespondComplete ==
    ASSUME TypeInv, NEW t \in Threads, pc[t] = "respond",
           NEW outputs, outputs = Outputs[job[t].req.model],
           \A o \in Range(outputs) : o.type # "INVALID",
           NEW k \in DOMAIN outputs,
           ~ \E j \in DOMAIN outputs \ {k} : outputs[j].name = outputs[k].name
    PROVE  LET a == AnswerOf(t, outputs[k].name)
               o == outputs[k] IN
           /\ a.name = o.name
           /\ a.file = job[t].outs[k]
           /\ 8 * a.size = Bits[o.type] * o.elements
           /\ TfToLarodDataType[a.dtype] =
                IF o.type \in {"FLOAT16", "FLOAT64"} THEN "INVALID" ELSE o.type
<1> DEFINE o == outputs[k]
           a == AnswerOf(t, o.name)
<1>1. /\ LastOf(outputs, o.name) = k /\ OutFd(t, k) = job[t].outs[k]
      /\ o \in Tensor
  BY AnswerTyped
<1>2. /\ a.name = o.name /\ a.dtype = LarodToTfDataType[o.type]
      /\ a.size = LarodDataTypeSize[o.type] * o.elements
      /\ a.file = job[t].outs[k]
  BY <1>1 DEF AnswerOf
<1>3. o.type \in LarodTypes /\ o.elements \in Nat /\ o.type # "INVALID"
  BY <1>1 DEF Tensor, Range
<1>4. /\ LarodDataTypeSize[o.type] \in Nat
      /\ Bits[o.type] = 8 * LarodDataTypeSize[o.type]
      /\ TfToLarodDataType[LarodToTfDataType[o.type]] =
           IF o.type \in {"FLOAT16", "FLOAT64"} THEN "INVALID" ELSE o.type
  BY <1>3, Tables
<1>5. \A x, y \in Nat : 8 * (x * y) = (8 * x) * y
  OBVIOUS
<1>6. 8 * a.size = Bits[o.type] * o.elements
  BY <1>2, <1>3, <1>4, <1>5
<1> QED
  BY <1>2, <1>4, <1>6

LEMMA ResponseStep == ResponseInv /\ [Next]_vars => ResponseInv'
<1> SUFFICES ASSUME ResponseInv, [Next]_vars PROVE ResponseInv'
  OBVIOUS
<1> DEFINE Kept(u) == StatusOf(u)' /\ FrameOf(u)' /\ AnswerOfJob(u)'
<1>1. /\ BindInv' /\ TypeInv' /\ TypeInv
      /\ job \in [Threads -> Job] /\ pc \in [Threads -> Labels]
  BY BindStep DEF ResponseInv, BindInv, TypeInv, TypeOK
<1>2. ASSUME NEW u \in Threads, job'[u] = job[u], pc'[u] = pc[u] PROVE Kept(u)
  BY <1>2 DEF ResponseInv, StatusOf, FrameOf, ImageNeeded, AnswerOfJob, AnswerHas,
              Bound
<1>3. ASSUME NEW u \in Threads, pc'[u] \in {"idle", "find"},
             job'[u].bound = << >>, job'[u].status = "CANCELLED"
      PROVE  Kept(u)
  <2>1. Bound(u)' = {}
    BY <1>3 DEF Bound, Range
  <2> QED
    BY <1>3, <2>1 DEF StatusOf, FrameOf, ImageNeeded, AnswerOfJob, Answering
<1>4. ASSUME NEW t \in Threads, Handler(t) PROVE ResponseInv'
  <2>1. \A u \in Threads \ {t} : Kept(u)
    BY <1>1, <1>2, <1>4, OwnLocalsOnly DEF TypeInv
  <2>2. StatusOf(t) /\ FrameOf(t) /\ AnswerOfJob(t) /\ BindingsOf(t) /\ pc[t] # "idle"
    BY <1>4, HandlerAt DEF ResponseInv, BindInv
  <2> SUFFICES Kept(t)
    BY <1>1, <2>1 DEF ResponseInv
  <2>3. CASE pc'[t] = "idle"
    <3>1. job'[t].bound = << >> /\ job'[t].status = "CANCELLED"
      BY <1>1, <1>4, <2>3, LocalSteps DEF NewJob
    <3> QED
      BY <1>3, <2>3, <3>1
  <2>4. CASE pc'[t] # "idle" /\ pc[t] = "input"
    <3>1. job[t].status # "OK"
      BY <2>2, <2>4 DEF StatusOf
    <3>2. CASE UNCHANGED job /\ pc'[t] \in {"ref", "cleanup"}
      BY <2>2, <2>4, <3>1, <3>2
      DEF StatusOf, FrameOf, ImageNeeded, AnswerOfJob, Bound, Answering
    <3>3. ASSUME NEW i \in Todo(t), Binds(t, i) PROVE Kept(t)
      <4>1. Bound(t)' = Bound(t) \union {i}
        BY <1>1, <2>2, <3>3, BindsOne
      <4>2. /\ job'[t].req = job[t].req /\ job'[t].status # "OK"
            /\ pc'[t] \in {"pp_map", "input", "cleanup"}
            /\ job[t].frameRef = "captured" => job'[t].frameRef = "captured"
            /\ job[t].req.stream /\ ~job[t].req.inputs[i].file =>
                 job'[t].frameRef = "captured"
        BY <3>1, <3>3 DEF Binds
      <4> QED
        BY <2>2, <2>4, <4>1, <4>2
        DEF StatusOf, FrameOf, ImageNeeded, AnswerOfJob, Answering
    <3>4. SetupInput(t)
      BY <1>4, <2>4, HandlerAt
    <3> QED
      BY <1>1, <3>2, <3>3, <3>4, SetupInputSteps
  <2>5. CASE pc'[t] # "idle" /\ pc[t] = "ref"
    <3>1. job[t].status # "OK" /\ Todo(t) = {}
      BY <2>2, <2>5 DEF StatusOf, BindingsOf
    <3>2. /\ pc'[t] = "outputs" /\ job'[t].status = job[t].status
          /\ job'[t].req = job[t].req /\ job'[t].bound = job[t].bound
          /\ job'[t].frameRef = job[t].frameRef
          /\ job[t].frameRef = "captured" => job'[t].response = "captured"
      <4>1. SetFrameReference(t)
        BY <1>4, <2>5, HandlerAt
      <4> QED
        BY <1>1, <4>1 DEF SetFrameReference, Goto, SetJob, Job
    <3>3. ImageNeeded(t, DOMAIN job[t].req.inputs) => job[t].frameRef = "captured"
      BY <2>2, <3>1 DEF FrameOf, ImageNeeded, Todo, Bound
    <3> QED
      BY <2>2, <3>1, <3>2, <3>3
      DEF StatusOf, FrameOf, ImageNeeded, AnswerOfJob, Bound, Answering
  <2>6. CASE pc'[t] # "idle" /\ pc[t] = "respond"
    <3>1. /\ pc'[t] = "cleanup"
          /\ job'[t].req = job[t].req /\ job'[t].bound = job[t].bound
          /\ job'[t].frameRef = job[t].frameRef
          /\ job'[t].response = job[t].response /\ job'[t].outs = job[t].outs
      <4>1. Respond(t)
        BY <1>4, <2>6, HandlerAt
      <4>2. pc'[t] = "cleanup"
        BY <1>1, <4>1 DEF Respond, Goto
      <4> QED
        BY <1>1, <1>4, <2>6, <4>2, LocalSteps
    <3>2. StatusOf(t)' /\ FrameOf(t)'
      BY <2>2, <2>6, <3>1 DEF StatusOf, FrameOf, ImageNeeded, Bound, Answering
    <3>3. ASSUME job'[t].status = "OK",
                 NEW outputs, outputs = Outputs[job[t].req.model],
                 NEW k \in DOMAIN outputs
          PROVE  AnswerHas(t, k)'
      <4>1. job[t].status # "OK"
        BY <2>2, <2>6 DEF StatusOf
      <4>2. /\ \A o \in Range(outputs) : o.type # "INVALID"
            /\ job'[t] = Answered(t)
        BY <1>1, <1>4, <2>6, <3>3, <4>1, HandlerAt, RespondAnswers DEF SetJob
      <4>3. job'[t].answer = {AnswerOf(t, o.name) : o \in Range(outputs)}
        BY <1>1, <3>3, <4>2 DEF Answered, Job
      <4>4. outputs[k] \in Range(outputs)
        BY DEF Range
      <4>5. AnswerOf(t, outputs[k].name) \in job'[t].answer
        BY <4>3, <4>4
      <4> QED
        BY <1>1, <2>6, <3>1, <3>3, <4>2, <4>5, RespondComplete DEF AnswerHas
    <3> QED
      BY <3>1, <3>2, <3>3 DEF AnswerOfJob
  <2>7. CASE pc'[t] # "idle" /\ pc[t] \notin {"input", "ref", "respond"}
    <3>1. /\ job'[t].req = job[t].req /\ job'[t].bound = job[t].bound
          /\ job'[t].frameRef = job[t].frameRef
          /\ job'[t].response = job[t].response
          /\ job'[t].status = job[t].status /\ job'[t].answer = job[t].answer
          /\ pc[t] # "out_file" => job'[t].outs = job[t].outs
      BY <1>1, <1>4, <2>7, LocalSteps
    <3>2. pc[t] \in {"cleanup", "close", "close_fd"} =>
            pc'[t] \in {"cleanup", "close", "close_fd"}
      BY <1>1, <1>4, <2>7, HandlerAt DEF Cleanup, Close, CloseFd, Return, Goto
    <3>3. pc'[t] \in {"outputs"} \union Answering =>
            pc[t] \in {"outputs"} \union Answering
      BY <1>1, <1>4, <2>7, ControlSteps DEF Answering
    <3>4. StatusOf(t)' /\ FrameOf(t)'
      BY <2>2, <3>1, <3>2, <3>3 DEF StatusOf, FrameOf, ImageNeeded, Bound
    <3>5. AnswerOfJob(t)'
      BY <2>2, <3>1 DEF StatusOf, AnswerOfJob, AnswerHas
    <3> QED
      BY <3>4, <3>5
  <2> QED
    BY <2>3, <2>4, <2>5, <2>6, <2>7
<1>5. ASSUME NEW t \in Threads, Begin(t) PROVE ResponseInv'
  <2>1. PICK r \in Requests : job' = [job EXCEPT ![t] = [NewJob EXCEPT !.req = r]]
    BY <1>5 DEF Begin, SetJob
  <2>2. /\ job'[t].bound = << >> /\ job'[t].status = "CANCELLED"
        /\ pc' = [pc EXCEPT ![t] = "find"]
    BY <1>1, <1>5, <2>1 DEF NewJob, Begin, Goto
  <2>3. \A u \in Threads \ {t} : job'[u] = job[u] /\ pc'[u] = pc[u]
    BY <1>1, <2>1, <2>2
  <2>4. \A u \in Threads : Kept(u)
    BY <1>1, <1>2, <1>3, <2>2, <2>3
  <2> QED
    BY <1>1, <2>4 DEF ResponseInv
<1>6. CASE (\E t \in Threads : Crash(t)) \/ Construct \/ Destroy \/ Rest
           \/ UNCHANGED vars
  <2>1. UNCHANGED <<pc, job>>
    BY <1>6 DEF Crash, Construct, Destroy, Rest, vars
  <2>2. \A u \in Threads : Kept(u)
    BY <1>2, <2>1
  <2> QED
    BY <1>1, <2>2 DEF ResponseInv
<1> QED
  BY <1>4, <1>5, <1>6 DEF Next, Step

\* ResponseInv always holds.
LEMMA ResponseInvariant == Spec => []ResponseInv
<1>1. ASSUME Init, BindInv PROVE ResponseInv
  <2> SUFFICES ASSUME NEW t \in Threads
               PROVE  StatusOf(t) /\ FrameOf(t) /\ AnswerOfJob(t)
    BY <1>1 DEF ResponseInv
  <2>1. job[t].status = "CANCELLED" /\ pc[t] = "idle"
    BY <1>1 DEF Init, NewJob
  <2> QED
    BY <2>1 DEF StatusOf, FrameOf, AnswerOfJob, Answering
<1> QED
  BY <1>1, BindInvariant, ResponseStep, PTL DEF Spec

\* A prediction for an image from a stream that answers OK answers with the
\* reference of a frame captured for it, however many inputs there are and in
\* whatever order they are bound.
THEOREM FrameReferenceRight == Spec => []FrameReferenceOfCapture
<1>1. ResponseInv => FrameReferenceOfCapture
  BY DEF ResponseInv, FrameOf, ImageNeeded, FrameReferenceOfCapture
<1> QED
  BY <1>1, ResponseInvariant, PTL

\* An answer has each output of the model: read from the file number larod was
\* given for this output, with exactly the bytes its elements take, under a type
\* that leads back to the tensor's. For any model; of the contents it says nothing.
THEOREM AnswerComplete == Spec => []AnswerMatchesModel
<1>1. ResponseInv => AnswerMatchesModel
  BY DEF ResponseInv, AnswerOfJob, AnswerHas, AnswerMatchesModel
<1> QED
  BY <1>1, ResponseInvariant, PTL

-----------------------------------------------------------------------------
(* The larod objects and the preprocessing, for requests with at most one      *)
(* image to resize. With two, the objects for the first are lost               *)
(* (MCInference_resize shows it).                                              *)

MayResize(r, i) == TRUE \in r.inputs[i].resize
OneResized == \A r \in Requests : \A i, j \in DOMAIN r.inputs :
                MayResize(r, i) /\ MayResize(r, j) => i = j

LastBound(t) == job[t].bound[Len(job[t].bound)].input
PpKinds == {"ppMap", "ppModel", "ppInputs", "ppOutputs"}

\* The control points that create objects, and for which members.
Creating == {<<"inputs", "inputs">>, <<"outputs", "outputs">>,
             <<"pp_map", "ppMap">>, <<"pp_model", "ppModel">>,
             <<"pp_inputs", "ppInputs">>, <<"pp_outputs", "ppOutputs">>}

\* The members for which a prediction may still create an object.
ToCome(t) ==
    {k \in Kinds :
       \/ pc[t] = "inputs"
       \/ pc[t] \in Setup /\ k = "outputs"
       \/ /\ pc[t] = "input" /\ k \in PpKinds
          /\ \E i \in Todo(t) : MayResize(job[t].req, i)
       \/ pc[t] = "pp_map" /\ k \in PpKinds
       \/ pc[t] = "pp_model" /\ k \in PpKinds \ {"ppMap"}
       \/ pc[t] = "pp_inputs" /\ k \in {"ppInputs", "ppOutputs"}
       \/ pc[t] = "pp_outputs" /\ k = "ppOutputs"}

\* A member that is not null points to the only object for it there is; the image
\* that the preprocessing members are for is the only one, so those still to be
\* made are null.
OneEach == \A k \in Kinds : live[k] = IF member[k] = None THEN 0 ELSE 1
ObjectsOf(t) ==
    /\ \A k \in ToCome(t) : member[k] = None
    /\ pc[t] \in Preprocessing =>
         LastBound(t) \in Bound(t) /\ MayResize(job[t].req, LastBound(t))

\* An image to resize is still to be bound, or the preprocessing for it is being
\* made, or is made; when the inference starts it has run.
PreprocessingOf(t) ==
    LET j == job[t] IN
    /\ pc[t] \in {"pp_outputs", "pp_file"} => member["ppInputs"] = t
    /\ pc[t] \in Setup \union {"out_file", "run_pp"} =>
         \A i \in Resized(j.req) :
           \/ i \in Todo(t)
           \/ pc[t] \in Preprocessing /\ i = LastBound(t)
           \/ j.ppFor = i /\ member["ppInputs"] = t
    /\ pc[t] = "infer" => Resized(j.req) \subseteq j.resized

ObjectInv ==
    /\ MemberInv /\ BindInv /\ OneEach
    /\ \A t \in Threads : ObjectsOf(t) /\ PreprocessingOf(t)

\* What a step of a handler does to the members and their objects.
Created(t, k) ==
    /\ \A i \in Kinds \ {k} : member'[i] = member[i] /\ live'[i] = live[i]
    /\ \/ member'[k] = t /\ live'[k] = live[k] + 1
       \/ member'[k] = None /\ live'[k] = live[k] /\ pc'[t] = "cleanup"
LEMMA ObjectSteps ==
    ASSUME TypeInv, NEW t \in Threads, Handler(t)
    PROVE  \/ /\ UNCHANGED <<member, live>> /\ ~Lock(t)
              /\ \A k \in Kinds : <<pc[t], k>> \notin Creating
           \/ \E k \in Kinds : <<pc[t], k>> \in Creating /\ Created(t, k)
           \/ Lock(t) /\ \A k \in Kinds : member'[k] = None /\ live'[k] = live[k]
           \/ /\ pc[t] = "cleanup" /\ pc'[t] = "close"
              /\ \A k \in Kinds :
                   /\ member'[k] = None
                   /\ live'[k] = IF member[k] = None THEN live[k] ELSE live[k] - 1
<1> USE DEF larodVars, Creating
<1>0. /\ pc \in [Threads -> Labels]
      /\ member \in [Kinds -> Threads \union {None}] /\ live \in [Kinds -> Nat]
  BY DEF TypeInv, TypeOK
<1>1. CASE Find(t) \/ Refind(t) \/ LoadOpen(t) \/ LoadLarod(t) \/ LoadClose(t)
           \/ LoadInsert(t)
  BY <1>1 DEF Find, Refind, LoadOpen, LoadLarod, LoadClose, LoadInsert, Lock
<1>2. CASE Lock(t)
  BY <1>2 DEF Lock
<1>3. ASSUME NEW k \in Kinds, NEW next, Create(t, k, next) PROVE Created(t, k)
  BY <1>0, <1>3 DEF Create, Created, Goto, Fail
<1>4. /\ "inputs" \in Kinds /\ "outputs" \in Kinds /\ "ppMap" \in Kinds
      /\ "ppModel" \in Kinds /\ "ppInputs" \in Kinds /\ "ppOutputs" \in Kinds
  BY DEF Kinds
<1>5. CASE CreateInputs(t) \/ CreateOutputs(t)
  BY <1>3, <1>4, <1>5 DEF CreateInputs, CreateOutputs
<1>6. CASE PpMap(t) \/ PpModel(t) \/ PpInputs(t) \/ PpOutputs(t)
  BY <1>3, <1>4, <1>6 DEF PpMap, PpModel, PpInputs, PpOutputs
<1>7. CASE SetupInput(t) \/ PpFile(t) \/ OutFile(t) \/ SetFrameReference(t)
  BY <1>7 DEF SetupInput, PpFile, OutFile, SetFrameReference, Lock
<1>8. CASE RunPreprocessing(t) \/ RunInference(t) \/ Respond(t)
  BY <1>8 DEF RunPreprocessing, RunInference, Respond, Lock
<1>9. CASE Cleanup(t)
  BY <1>0, <1>9 DEF Cleanup, Goto
<1>10. CASE Close(t) \/ CloseFd(t)
  BY <1>10 DEF Close, CloseFd, Lock
<1> QED
  BY <1>1, <1>2, <1>5, <1>6, <1>7, <1>8, <1>9, <1>10 DEF Handler

\* What a step does to the bindings: it binds one input, and then it resizes it or
\* may leave it, or none is left, or the bindings stay. Those left never grow.
LEMMA TodoSteps ==
    ASSUME BindInv, BindInv', NEW t \in Threads, Handler(t), pc'[t] # "idle"
    PROVE  /\ job'[t].req = job[t].req
           /\ \/ job'[t].bound = job[t].bound /\ Todo(t)' = Todo(t)
                 /\ Bound(t)' = Bound(t) /\ LastBound(t)' = LastBound(t)
                 /\ (pc[t] = "input" => pc'[t] \in {"ref", "cleanup"})
              \/ \E i \in Todo(t) :
                   /\ pc[t] = "input" /\ Todo(t)' = Todo(t) \ {i}
                   /\ Bound(t)' = Bound(t) \union {i} /\ LastBound(t)' = i
                   /\ \/ pc'[t] = "pp_map" /\ MayResize(job[t].req, i)
                      \/ /\ pc'[t] \in {"input", "cleanup"}
                         /\ FALSE \in job[t].req.inputs[i].resize
                   /\ job'[t].ppFor = job[t].ppFor
                   /\ job'[t].resized = job[t].resized
<1>0. TypeInv /\ TypeInv' /\ BindingsOf(t) /\ pc[t] # "idle"
  BY HandlerAt DEF BindInv
<1>1. CASE pc[t] # "input"
  <2>1. job'[t].req = job[t].req /\ job'[t].bound = job[t].bound
    BY <1>0, <1>1, LocalSteps
  <2> QED
    BY <1>1, <2>1 DEF Todo, Bound, LastBound
<1>2. CASE pc[t] = "input"
  <2>1. SetupInput(t)
    BY <1>2, HandlerAt
  <2>2. CASE UNCHANGED job /\ pc'[t] \in {"ref", "cleanup"}
    BY <2>2 DEF Todo, Bound, LastBound
  <2>3. ASSUME NEW i \in Todo(t), Binds(t, i)
        PROVE  /\ job'[t].req = job[t].req
               /\ Todo(t)' = Todo(t) \ {i}
               /\ Bound(t)' = Bound(t) \union {i} /\ LastBound(t)' = i
               /\ \/ pc'[t] = "pp_map" /\ MayResize(job[t].req, i)
                  \/ /\ pc'[t] \in {"input", "cleanup"}
                     /\ FALSE \in job[t].req.inputs[i].resize
               /\ job'[t].ppFor = job[t].ppFor
               /\ job'[t].resized = job[t].resized
    <3>1. /\ Bound(t)' = Bound(t) \union {i} /\ LastBound(t)' = i
      BY <1>0, <2>3, BindsOne DEF LastBound
    <3>2. job'[t].req = job[t].req
      BY <2>3 DEF Binds
    <3>3. Todo(t)' = Todo(t) \ {i}
      BY <3>1, <3>2 DEF Todo, Bound
    <3> QED
      BY <2>3, <3>1, <3>2, <3>3 DEF Binds, MayResize
  <2> QED
    BY <1>0, <1>2, <2>1, <2>2, <2>3, SetupInputSteps
<1> QED
  BY <1>1, <1>2

\* The members for which objects are to come only get fewer; the one for which a
\* step creates an object is one of them, and is no more.
LEMMA ToComeSteps ==
    ASSUME OneResized, BindInv, BindInv', NEW t \in Threads, Handler(t),
           ~Lock(t), ObjectsOf(t)
    PROVE  /\ ToCome(t)' \subseteq ToCome(t)
           /\ \A k \in Kinds : <<pc[t], k>> \in Creating =>
                k \in ToCome(t) /\ k \notin ToCome(t)'
<1> USE DEF ToCome, Creating, Setup, Preprocessing, PpKinds, Kinds
<1>0. TypeInv
  BY DEF BindInv
<1>1. CASE pc'[t] \notin {"input"} \union Setup
  <2>1. pc'[t] # "inputs"
    BY <1>0, ControlSteps
  <2>2. ToCome(t)' = {}
    BY <1>1, <2>1
  <2> QED
    BY <2>2
<1>2. CASE pc'[t] \in Preprocessing
  <2>1. CASE pc'[t] = "pp_map"
    <3>1. pc[t] = "input" /\ \E i \in Todo(t) : MayResize(job[t].req, i)
      BY <1>0, <2>1, ControlSteps, TodoSteps
    <3> QED
      BY <2>1, <3>1
  <2>2. CASE pc'[t] # "pp_map"
    BY <1>0, <1>2, <2>2, ControlSteps
  <2> QED
    BY <2>1, <2>2
<1>3. CASE pc'[t] \in {"ref", "outputs"}
  BY <1>0, <1>3, ControlSteps
<1>4. CASE pc'[t] = "input"
  <2>1. pc[t] \in {"inputs", "input", "pp_file"}
    BY <1>0, <1>4, ControlSteps
  <2>2. CASE pc[t] = "inputs"
    <3>1. pc'[t] = "input" => Todo(t)' = Todo(t) /\ job'[t].req = job[t].req
      BY <2>2, TodoSteps
    <3> QED
      BY <1>4, <2>2, <3>1
  <2>3. CASE pc[t] = "input"
    <3>1. Todo(t)' \subseteq Todo(t) /\ job'[t].req = job[t].req
      BY <1>4, <2>3, TodoSteps
    <3> QED
      BY <1>4, <2>3, <3>1
  <2>4. CASE pc[t] = "pp_file"
    <3>1. Todo(t)' = Todo(t) /\ job'[t].req = job[t].req
      BY <1>4, <2>4, TodoSteps
    <3>2. /\ LastBound(t) \in Bound(t) /\ MayResize(job[t].req, LastBound(t))
          /\ Bound(t) \subseteq DOMAIN job[t].req.inputs
          /\ job[t].req \in Requests
      BY <2>4 DEF ObjectsOf, BindInv, TypeInv, Locals, BindingsOf
    <3>3. \A i \in Todo(t) : ~MayResize(job[t].req, i)
      BY <3>2 DEF OneResized, Todo, Bound
    <3> QED
      BY <1>4, <2>4, <3>1, <3>3
  <2> QED
    BY <2>1, <2>2, <2>3, <2>4
<1> QED
  BY <1>1, <1>2, <1>3, <1>4

\* A step of a handler leaves one object for each member that is not null; those
\* still to be made are null.
LEMMA ObjectsStep ==
    ASSUME OneResized, ObjectInv, MemberInv', BindInv',
           NEW t \in Threads, Handler(t)
    PROVE  OneEach' /\ ObjectsOf(t)'
<1>0. /\ MemberInv /\ BindInv /\ OneEach /\ ObjectsOf(t) /\ TypeInv
      /\ live \in [Kinds -> Nat] /\ t # None
  BY ConstantsAssumption
  DEF ObjectInv, MemberInv, TypeInv, TypeOK, ConstantsAssumption
<1>1. \A k \in ToCome(t)' : k \in Kinds
  BY DEF ToCome
<1>2. /\ OneEach' /\ \A k \in ToCome(t)' : member'[k] = None
  <2>1. CASE UNCHANGED <<member, live>> /\ ~Lock(t)
    <3>1. ToCome(t)' \subseteq ToCome(t)
      BY <1>0, <2>1, ToComeSteps
    <3> QED
      BY <1>0, <2>1, <3>1 DEF OneEach, ObjectsOf
  <2>2. ASSUME NEW k \in Kinds, <<pc[t], k>> \in Creating, Created(t, k)
        PROVE  OneEach' /\ \A i \in ToCome(t)' : member'[i] = None
    <3>1. ~Lock(t)
      BY <2>2 DEF Lock, Creating
    <3>2. /\ ToCome(t)' \subseteq ToCome(t) /\ k \in ToCome(t)
          /\ k \notin ToCome(t)'
      BY <1>0, <2>2, <3>1, ToComeSteps
    <3>3. member[k] = None /\ live[k] = 0
      BY <1>0, <3>2 DEF OneEach, ObjectsOf
    <3> QED
      BY <1>0, <1>1, <2>2, <3>2, <3>3 DEF OneEach, ObjectsOf, Created
  <2>3. CASE Lock(t) /\ \A k \in Kinds : member'[k] = None /\ live'[k] = live[k]
    <3>1. \A k \in Kinds : member[k] = None
      BY <1>0, <2>3 DEF Lock, MemberInv, Exclusive
    <3> QED
      BY <1>0, <1>1, <2>3, <3>1 DEF OneEach
  <2>4. CASE \A k \in Kinds :
               /\ member'[k] = None
               /\ live'[k] = IF member[k] = None THEN live[k] ELSE live[k] - 1
    BY <1>0, <1>1, <2>4 DEF OneEach
  <2> QED
    BY <1>0, <2>1, <2>2, <2>3, <2>4, ObjectSteps
<1>3. ASSUME pc'[t] \in Preprocessing
      PROVE  /\ LastBound(t)' \in Bound(t)'
             /\ MayResize(job'[t].req, LastBound(t)')
  <2>1. /\ pc'[t] # "idle"
        /\ pc'[t] # "pp_map" => pc[t] \in Preprocessing
        /\ pc'[t] = "pp_map" => pc[t] = "input"
    BY <1>0, <1>3, ControlSteps DEF Preprocessing
  <2>2. CASE pc'[t] # "pp_map"
    <3>1. pc[t] \in Preprocessing /\ pc[t] # "input"
      BY <2>1, <2>2 DEF Preprocessing
    <3>2. /\ LastBound(t)' = LastBound(t) /\ Bound(t)' = Bound(t)
          /\ job'[t].req = job[t].req
      BY <1>0, <2>1, <3>1, TodoSteps
    <3> QED
      BY <1>0, <3>1, <3>2 DEF ObjectsOf
  <2>3. CASE pc'[t] = "pp_map"
    BY <1>0, <2>1, <2>3, TodoSteps
  <2> QED
    BY <2>2, <2>3
<1> QED
  BY <1>2, <1>3 DEF ObjectsOf

\* A step of a handler keeps track of the image to resize.
LEMMA PreprocessingStep ==
    ASSUME OneResized, ObjectInv, BindInv', NEW t \in Threads, Handler(t)
    PROVE  PreprocessingOf(t)'
<1> DEFINE j == job[t]
           R == Resized(j.req)
<1>0. /\ BindInv /\ ObjectsOf(t) /\ PreprocessingOf(t) /\ BindingsOf(t)
      /\ TypeInv /\ TypeInv' /\ t # None
      /\ job \in [Threads -> Job] /\ pc \in [Threads -> Labels]
  BY ConstantsAssumption
  DEF ObjectInv, BindInv, TypeInv, TypeOK, ConstantsAssumption
<1>1. pc'[t] # "idle" =>
        /\ job'[t].req = j.req /\ Resized(job'[t].req) = R
        /\ pc[t] # "pp_file" => job'[t].ppFor = j.ppFor
        /\ pc[t] # "run_pp" => job'[t].resized = j.resized
  BY <1>0, LocalSteps
<1>2. pc'[t] \in {"pp_outputs", "pp_file"} => member'["ppInputs"] = t
  <2>1. "ppInputs" \in Kinds
    BY DEF Kinds
  <2>2. /\ pc'[t] = "pp_outputs" => pc[t] = "pp_inputs"
        /\ pc'[t] = "pp_file" => pc[t] = "pp_outputs"
    BY <1>0, ControlSteps
  <2>3. CASE pc'[t] = "pp_outputs"
    <3>1. pc[t] = "pp_inputs" /\ ~Lock(t) /\ <<pc[t], "ppInputs">> \in Creating
      BY <2>2, <2>3 DEF Lock, Creating
    <3>2. PICK k \in Kinds : <<pc[t], k>> \in Creating /\ Created(t, k)
      BY <1>0, <2>1, <3>1, ObjectSteps
    <3>3. k = "ppInputs"
      BY <3>1, <3>2 DEF Creating
    <3> QED
      BY <2>3, <3>2, <3>3 DEF Created
  <2>4. CASE pc'[t] = "pp_file"
    BY <1>0, <2>1, <2>2, <2>4, ObjectSteps
    DEF Creating, Created, PreprocessingOf, Lock
  <2> QED
    BY <2>3, <2>4
<1>3. ASSUME pc'[t] \in Setup \union {"out_file", "run_pp"}, NEW i \in R
      PROVE  \/ i \in Todo(t)'
             \/ pc'[t] \in Preprocessing /\ i = LastBound(t)'
             \/ job'[t].ppFor = i /\ member'["ppInputs"] = t
  <2>1. pc'[t] # "idle" /\ pc[t] # "idle"
    BY <1>3, HandlerAt DEF Setup, Preprocessing
  <2>2. j.req \in Requests /\ i \in DOMAIN j.req.inputs /\ MayResize(j.req, i)
        /\ FALSE \notin j.req.inputs[i].resize
    BY <1>0, <2>1 DEF TypeInv, Locals, Resized, MayResize
  <2>3. CASE pc[t] = "inputs"
    <3>1. Bound(t) = {} /\ Todo(t)' = Todo(t)
      <4>1. job[t].bound = << >>
        BY <1>0, <2>3 DEF BindingsOf
      <4>2. Bound(t) = {}
        BY <4>1 DEF Bound, Range
      <4>3. Todo(t)' = Todo(t)
        BY <1>0, <2>1, <2>3, TodoSteps
      <4> QED
        BY <4>2, <4>3
    <3> QED
      BY <2>2, <3>1 DEF Todo, Bound
  <2>4. CASE pc[t] # "inputs"
    <3>1. pc[t] \in Setup \union {"out_file", "run_pp"}
      BY <1>0, <1>3, <2>4, ControlSteps DEF Setup, Preprocessing
    <3>2. \/ i \in Todo(t)
          \/ pc[t] \in Preprocessing /\ i = LastBound(t)
          \/ j.ppFor = i /\ member["ppInputs"] = t
      BY <1>0, <3>1 DEF PreprocessingOf
    <3>3. member["ppInputs"] = t => member'["ppInputs"] = t
      <4>1. "ppInputs" \in Kinds
        BY DEF Kinds
      <4>2. pc'[t] # "cleanup" /\ pc[t] # "cleanup" /\ ~Lock(t)
        BY <1>3, <3>1 DEF Setup, Preprocessing, Lock
      <4> QED
        BY <1>0, <4>1, <4>2, ObjectSteps DEF Created
    <3>4. CASE i \in Todo(t)
      <4>1. CASE Todo(t)' = Todo(t)
        BY <3>4, <4>1
      <4>2. ASSUME NEW k \in Todo(t), Todo(t)' = Todo(t) \ {k},
                   LastBound(t)' = k,
                   pc'[t] = "pp_map" \/ FALSE \in j.req.inputs[k].resize
            PROVE  i \in Todo(t)' \/ (pc'[t] \in Preprocessing /\ i = LastBound(t)')
        BY <2>2, <3>4, <4>2 DEF Preprocessing
      <4> QED
        BY <1>0, <2>1, <4>1, <4>2, TodoSteps
    <3>5. CASE pc[t] \in Preprocessing \ {"pp_file"} /\ i = LastBound(t)
      <4>1. LastBound(t)' = LastBound(t)
        BY <1>0, <2>1, <3>5, TodoSteps DEF Preprocessing
      <4>2. pc'[t] \in Preprocessing
        BY <1>0, <1>3, <3>5, ControlSteps DEF Setup, Preprocessing
      <4> QED
        BY <3>5, <4>1, <4>2
    <3>6. CASE pc[t] = "pp_file"
      <4>1. PpFile(t) /\ pc'[t] # "cleanup"
        BY <1>3, <3>6, HandlerAt DEF Setup, Preprocessing
      <4>2. job'[t].ppFor = LastBound(t)
        <5>1. SetJob(t, [j EXCEPT !.ppFor = LastBound(t)])
          BY <1>0, <4>1 DEF PpFile, Fail, Goto, LastBound
        <5>2. j \in Job
          BY <1>0
        <5>3. [j EXCEPT !.ppFor = LastBound(t)].ppFor = LastBound(t)
          BY <5>2 DEF Job
        <5> QED
          BY <1>0, <5>1, <5>3 DEF SetJob
      <4>3. member["ppInputs"] = t
        BY <1>0, <3>6 DEF PreprocessingOf
      <4>4. /\ LastBound(t) \in DOMAIN j.req.inputs
            /\ MayResize(j.req, LastBound(t))
        BY <1>0, <2>1, <3>6 DEF ObjectsOf, BindingsOf, Preprocessing
      <4>5. i = LastBound(t)
        BY <2>2, <4>4 DEF OneResized
      <4> QED
        BY <3>3, <4>2, <4>3, <4>5
    <3>7. CASE j.ppFor = i /\ member["ppInputs"] = t /\ pc[t] # "pp_file"
      BY <1>1, <2>1, <3>3, <3>7
    <3> QED
      BY <3>2, <3>4, <3>5, <3>6, <3>7
  <2> QED
    BY <2>3, <2>4
<1>4. ASSUME pc'[t] = "infer" PROVE R \subseteq job'[t].resized
  <2>1. pc[t] = "run_pp" /\ RunPreprocessing(t)
    BY <1>0, <1>4, ControlSteps, HandlerAt
  <2>2. \A i \in R : j.ppFor = i /\ member["ppInputs"] = t
    BY <1>0, <2>1 DEF PreprocessingOf, BindingsOf, Answering, Preprocessing
  <2>3. member["ppInputs"] = t => job'[t].resized = j.resized \union {j.ppFor}
    BY <1>0, <1>4, <2>1 DEF RunPreprocessing, Fail, Goto, SetJob, Job
  <2> QED
    BY <2>2, <2>3
<1> QED
  <2>1. pc'[t] \in {"infer"} \union Setup \union {"out_file", "run_pp"} =>
          Resized(job'[t].req) = R
    BY <1>1 DEF Setup, Preprocessing
  <2> QED
    BY <1>2, <1>3, <1>4, <2>1 DEF PreprocessingOf

LEMMA ObjectStep == OneResized /\ ObjectInv /\ [Next]_vars => ObjectInv'
<1> SUFFICES ASSUME OneResized, ObjectInv, [Next]_vars PROVE ObjectInv'
  OBVIOUS
<1> DEFINE Kept(u) == ObjectsOf(u)' /\ PreprocessingOf(u)'
<1>1. MemberInv' /\ BindInv'
  BY MemberStep, BindStep DEF ObjectInv
<1>2. /\ TypeInv /\ job \in [Threads -> Job] /\ pc \in [Threads -> Labels]
      /\ MemberInv /\ BindInv
  BY DEF ObjectInv, BindInv, TypeInv, TypeOK
<1>3. ASSUME NEW u, pc'[u] \notin Locked PROVE Kept(u)
  BY <1>3 DEF ObjectsOf, PreprocessingOf, ToCome, Setup, Preprocessing, Locked
<1>4. ASSUME NEW t \in Threads, Handler(t) PROVE ObjectInv'
  <2>1. OneEach' /\ Kept(t)
    BY <1>1, <1>4, ObjectsStep, PreprocessingStep
  <2>2. ASSUME NEW u \in Threads \ {t} PROVE Kept(u)
    <3>1. pc'[u] = pc[u] /\ job'[u] = job[u]
      BY <1>2, <1>4, OwnLocalsOnly DEF TypeInv
    <3>2. CASE pc[u] \notin Locked
      BY <1>3, <3>1, <3>2
    <3>3. CASE pc[u] \in Locked
      <4>1. mutex = u /\ pc[t] \notin Locked /\ None \notin Threads
        BY <1>2, <3>3, ConstantsAssumption
        DEF MemberInv, Exclusive, ConstantsAssumption
      <4>2. ~Lock(t)
        BY <4>1 DEF Lock
      <4>3. member' = member
        BY <1>2, <1>4, <4>1, <4>2, UnlockedSteps
      <4> QED
        BY <3>1, <4>3
        DEF ObjectInv, ObjectsOf, PreprocessingOf, ToCome, Todo, Bound, LastBound
    <3> QED
      BY <3>2, <3>3
  <2> QED
    BY <1>1, <2>1, <2>2 DEF ObjectInv
<1>5. ASSUME NEW t \in Threads, Begin(t) PROVE ObjectInv'
  <2>1. PICK r \in Requests : job' = [job EXCEPT ![t] = [NewJob EXCEPT !.req = r]]
    BY <1>5 DEF Begin, SetJob
  <2>2. pc' = [pc EXCEPT ![t] = "find"] /\ UNCHANGED <<member, live>>
    BY <1>5 DEF Begin, Goto, larodVars
  <2>3. \A u \in Threads \ {t} : job'[u] = job[u] /\ pc'[u] = pc[u]
    BY <1>2, <2>1, <2>2
  <2>4. \A u \in Threads \ {t} : Kept(u)
    BY <2>2, <2>3
    DEF ObjectInv, ObjectsOf, PreprocessingOf, ToCome, Todo, Bound, LastBound
  <2>5. Kept(t)
    BY <1>2, <1>3, <2>2 DEF Locked
  <2> QED
    BY <1>1, <2>2, <2>4, <2>5 DEF ObjectInv, OneEach
<1>6. CASE (\E t \in Threads : Crash(t)) \/ Construct \/ Destroy \/ Rest
           \/ UNCHANGED vars
  <2>1. UNCHANGED <<pc, job, member, live>>
    BY <1>6 DEF Crash, Construct, Destroy, Rest, vars, larodVars
  <2> QED
    BY <1>1, <2>1
    DEF ObjectInv, OneEach, ObjectsOf, PreprocessingOf, ToCome, Todo, Bound,
        LastBound
<1> QED
  BY <1>4, <1>5, <1>6 DEF Next, Step

\* ObjectInv always holds when no request has two images to resize.
LEMMA ObjectInvariant == ASSUME OneResized PROVE Spec => []ObjectInv
<1>1. ASSUME Init, MemberInv, BindInv PROVE ObjectInv
  BY <1>1
  DEF ObjectInv, OneEach, ObjectsOf, PreprocessingOf, ToCome, Init, Setup,
      Preprocessing
<1>2. OneResized
  OBVIOUS
<1> QED
  BY <1>1, <1>2, MemberInvariant, BindInvariant, ObjectStep, PTL DEF Spec

\* No tensors, map or preprocessing model that a prediction creates are lost,
\* whatever step of it fails, for requests with at most one image to resize and
\* any number of threads. (Of the models of LoadModel it says nothing.)
THEOREM ObjectsKept == ASSUME OneResized PROVE Spec => []NoObjectLost
<1>1. ObjectInv => NoObjectLost
  BY DEF ObjectInv, OneEach, MemberInv, Exclusive, NoObjectLost
<1>2. Spec => []ObjectInv
  BY ObjectInvariant
<1> QED
  BY <1>1, <1>2, PTL

\* When the inference starts, the image of another size than the model's, of
\* which a request has at most one, has been resized.
THEOREM Preprocessed == ASSUME OneResized PROVE Spec => []PreprocessedIfNeeded
<1>1. ObjectInv => PreprocessedIfNeeded
  BY DEF ObjectInv, PreprocessingOf, PreprocessedIfNeeded
<1>2. Spec => []ObjectInv
  BY ObjectInvariant
<1> QED
  BY <1>1, <1>2, PTL
=============================================================================
