------------------------------- MODULE Runtime -------------------------------
(***************************************************************************)
(* The process: AcapRuntime and RunServer (acap_runtime.cpp) in the main   *)
(* thread, the signals that interrupt it, the device parameters it reads   *)
(* (util.cpp), the services it constructs and destroys, and the threads in *)
(* which gRPC runs their handlers. What handlers do is in VideoCapture and *)
(* Inference; here they run, may wait for a camera forever, or return.     *)
(*                                                                         *)
(* The locals of RunServer that C++ destroys at its end, in reverse order, *)
(* also when an exception leaves it, are Locals; built counts them.        *)
(***************************************************************************)
EXTENDS Integers, Sequences

CONSTANTS
    Threads,        \* gRPC handler threads
    Options,        \* command lines, see Option
    Values,         \* what strcmp and atoi may find in a parameter's value
    ChipModulus,    \* 2^64, the width of chipId
    SignalBudget,   \* how many signals the process gets
    CallBudget,     \* how many requests clients send
    None

Services   == {"parameter", "capture", "inference"}
Parameters == <<"Verbose", "IpPort", "ChipId", "UseTLS">>
Value      == [yes : BOOLEAN, int : Int]
Empty      == [yes |-> FALSE, int |-> 0]    \* the value ""
Settings   == [IpPort : Int, ChipId : Nat, UseTLS : BOOLEAN]
\* -o, -t, and what else the options say.
Option     == [override : BOOLEAN, timed : BOOLEAN, IpPort : Int, ChipId : Int,
               UseTLS : BOOLEAN]

ASSUME ConstantsAssumption ==
    /\ Options \subseteq Option /\ Values \subseteq Value
    /\ ChipModulus \in Nat /\ ChipModulus > 1
    /\ SignalBudget \in Nat /\ CallBudget \in Nat
    /\ None \notin Services

VARIABLES
    pc, ret,               \* main thread: control point, what it returns
    options, stored, next, conf,   \* the command line, the parameters that
                           \* exist, the next one to read, the settings
    built, accepting,      \* how many Locals exist; the server takes requests
    loop,                  \* what the static variable loop points to
    serving, stuck,        \* handler threads: the service they run, and those
                           \* that wait for a camera forever
    signals, interrupted,  \* signals so far; one came during a blocking call
    asked,                 \* history: one came when the server was waiting
    calls                  \* requests clients may still send

mainVars   == <<pc, ret>>
confVars   == <<options, stored, next, conf>>
serverVars == <<built, accepting, loop>>
threadVars == <<serving, stuck, calls>>
signalVars == <<signals, interrupted, asked>>
vars == <<mainVars, confVars, serverVars, threadVars, signalVars>>

\* Mutant: the chip keeps the sign of the option.
AsChipSigned(n) == n

\* atoi into a uint64_t.
AsChip(n) == n % ChipModulus
Chosen(o) == [IpPort |-> o.IpPort, ChipId |-> AsChip(o.ChipId),
              UseTLS |-> o.UseTLS]

Init ==
    /\ pc = "init" /\ ret = "none"
    /\ options \in Options /\ stored \in SUBSET {Parameters[k] : k \in DOMAIN Parameters}
    /\ next = 1 /\ conf = Chosen(options)
    /\ built = 0 /\ accepting = FALSE /\ loop = "null"
    /\ serving = [t \in Threads |-> None] /\ stuck = {}
    /\ signals = 0 /\ interrupted = FALSE /\ asked = FALSE
    /\ calls = CallBudget

-----------------------------------------------------------------------------
(* The main thread, before the server                                       *)

Goto(to) == pc' = to /\ UNCHANGED ret

\* An exception leaves RunServer; AcapRuntime catches it when all is destroyed.
Throw == pc' = "unwind" /\ ret' = "EXIT_FAILURE"

InitSignals ==
    /\ pc = "init"
    /\ Goto("options")
    /\ UNCHANGED <<confVars, serverVars, threadVars, signalVars>>

\* -h and an unknown option end here.
ParseOptions ==
    /\ pc = "options"
    /\ \/ Goto(IF options.override THEN "param" ELSE "creds")
       \/ pc' = "ended" /\ ret' \in {"EXIT_SUCCESS", "EXIT_FAILURE"}
    /\ UNCHANGED <<confVars, serverVars, threadVars, signalVars>>

\* What the settings become when parameter p reads as v.
Override(p, v) ==
    CASE p = "IpPort" -> [conf EXCEPT !.IpPort = v.int]
      [] p = "ChipId" -> [conf EXCEPT !.ChipId = AsChip(v.int)]
      [] p = "UseTLS" -> [conf EXCEPT !.UseTLS = @ \/ v.yes]
      [] OTHER -> conf

\* get_parameter_value. A parameter that does not exist reads as the empty
\* string, and so does any when a signal interrupts fgets. The value of one that
\* exists is used after the string that held it is gone: it may be anything. An
\* exception of popen's failure is thrown outside the try block and ends the
\* process.
ReadParameter ==
    LET p == Parameters[next] IN
    /\ pc = "param"
    /\ interrupted' = FALSE
    /\ \/ /\ \E v \in (IF p \in stored THEN Values ELSE {Empty}) \union
                     (IF interrupted THEN {Empty} ELSE {}) :
                conf' = Override(p, v)
          /\ next' = next + 1
          /\ Goto(IF next = Len(Parameters) THEN "creds" ELSE "param")
       \/ Goto("aborted") /\ UNCHANGED <<next, conf>>
    /\ UNCHANGED <<options, stored, serverVars, threadVars, signals, asked>>

\* With TLS, a certificate or key that cannot be read throws.
Credentials ==
    /\ pc = "creds"
    /\ Goto("construct") \/ (conf.UseTLS /\ Throw)
    /\ UNCHANGED <<confVars, serverVars, threadVars, signalVars>>

-----------------------------------------------------------------------------
(* The services and the server                                              *)

\* Mutant: the server starts before the inference service is there.
LocalsSwapped == <<"parameter", "capture", "server", "inference">>

\* In the order in which they are constructed.
Locals == <<"parameter", "capture", "inference", "server">>

\* Whether the constructor can throw, or BuildAndStart fail. Without a chip the
\* inference service does not connect to larod.
MayFail(local) ==
    \/ local \in {"parameter", "server"}
    \/ local = "inference" /\ conf.ChipId > 0

Construct ==
    LET local == Locals[built + 1] IN
    /\ pc = "construct"
    /\ \/ /\ built' = built + 1
          /\ accepting' = (local = "server")
          /\ Goto(IF local = "server"
                    THEN IF conf.IpPort = 0 THEN "socket" ELSE "wait"
                    ELSE "construct")
       \/ MayFail(local) /\ Throw /\ UNCHANGED <<built, accepting>>
    /\ UNCHANGED <<confVars, loop, threadVars, signalVars>>

\* chown and chmod of the Unix domain socket, when clients may be there already.
OwnSocket ==
    /\ pc = "socket"
    /\ Goto("wait") \/ Throw
    /\ UNCHANGED <<confVars, serverVars, threadVars, signalVars>>

\* Mutant: the loop is released before it runs.
WaitReleased ==
    /\ pc = "wait"
    /\ \/ options.timed /\ Goto("sleep") /\ UNCHANGED loop
       \/ ~options.timed /\ Goto("run") /\ loop' = "released"
    /\ UNCHANGED <<confVars, built, accepting, threadVars, signalVars>>

\* Sleep, or make the main loop.
Wait ==
    /\ pc = "wait"
    /\ \/ options.timed /\ Goto("sleep") /\ UNCHANGED loop
       \/ ~options.timed /\ Goto("run") /\ loop' = "made"
    /\ UNCHANGED <<confVars, built, accepting, threadVars, signalVars>>

\* The time is over or a signal has interrupted sleep.
WakeUp ==
    /\ pc = "sleep"
    /\ Goto("shutdown")
    /\ interrupted' = FALSE
    /\ UNCHANGED <<confVars, serverVars, threadVars, signals, asked>>

\* g_main_loop_run, which holds the lock of its context (enter), waits without
\* it (loop), and after the call of quit takes it once more (leave).
RunLoop ==
    /\ pc = "run"
    /\ Goto("enter")
    /\ loop' = "running"
    /\ UNCHANGED <<confVars, built, accepting, threadVars, signalVars>>
Poll ==
    /\ pc = "enter"
    /\ Goto("loop")
    /\ UNCHANGED <<confVars, serverVars, threadVars, signalVars>>
LeaveLoop ==
    /\ pc = "loop" /\ loop # "running"
    /\ Goto("leave")
    /\ UNCHANGED <<confVars, serverVars, threadVars, signalVars>>
ReleaseLoop ==
    /\ pc = "leave"
    /\ Goto("shutdown")
    /\ loop' = "released"
    /\ UNCHANGED <<confVars, built, accepting, threadVars, signalVars>>

-----------------------------------------------------------------------------
(* The end                                                                  *)

Idle == \A t \in Threads : serving[t] = None

\* Shutdown, called by RunServer or by the server's destructor, refuses new
\* requests and waits for the handlers without a deadline.
Refuse ==
    /\ pc \in {"shutdown", "unwind"} /\ accepting
    /\ accepting' = FALSE
    /\ UNCHANGED <<mainVars, confVars, built, loop, threadVars, signalVars>>

Drained ==
    /\ pc = "shutdown" /\ ~accepting /\ Idle
    /\ pc' = "unwind" /\ ret' = "EXIT_SUCCESS"
    /\ UNCHANGED <<confVars, serverVars, threadVars, signalVars>>

\* Mutant: the server's destructor does not wait for the handlers.
DestroyAtOnce ==
    /\ pc = "unwind" /\ built > 0
    /\ built' = built - 1
    /\ accepting' = FALSE
    /\ UNCHANGED <<mainVars, confVars, loop, threadVars, signalVars>>

\* The last local goes; the server not before it has shut down.
Destroy ==
    /\ pc = "unwind" /\ built > 0
    /\ Locals[built] = "server" => ~accepting /\ Idle
    /\ built' = built - 1
    /\ UNCHANGED <<mainVars, confVars, accepting, loop, threadVars, signalVars>>

Return ==
    /\ pc = "unwind" /\ built = 0
    /\ Goto("ended")
    /\ UNCHANGED <<confVars, serverVars, threadVars, signalVars>>

-----------------------------------------------------------------------------
(* Signals, and the handlers of requests                                    *)

Alive == pc \notin {"ended", "aborted", "killed", "crashed"}

\* Mutant: the signal does not stop the loop.
QuitNot == UNCHANGED <<mainVars, loop>>

\* handle_signals calls g_main_loop_quit, which ignores NULL, has no effect on a
\* loop that does not run yet, and takes the lock of the loop's context: when
\* the main thread, which runs the handler, holds it, that is forever. What it
\* does to a released loop is undefined.
Quit ==
    \/ pc \in {"enter", "leave"} /\ Goto("hung") /\ UNCHANGED loop
    \/ /\ pc \notin {"enter", "leave"}
       /\ loop' = IF loop = "running" THEN "made" ELSE loop
       /\ UNCHANGED mainVars
    \/ loop = "released" /\ Goto("crashed") /\ UNCHANGED loop

\* SIGINT, SIGTERM or SIGQUIT. Before InitSignals it kills the process.
Signal ==
    /\ Alive /\ pc # "hung" /\ signals < SignalBudget
    /\ signals' = signals + 1
    /\ interrupted' = (interrupted \/ pc \in {"param", "sleep"})
    /\ asked' = (asked \/ pc \in {"loop", "sleep"})
    /\ \/ pc = "init" /\ Goto("killed") /\ UNCHANGED loop
       \/ pc # "init" /\ Quit
    /\ UNCHANGED <<confVars, built, accepting, threadVars>>

\* gRPC runs a request for one of the services.
Begin(t) ==
    /\ Alive /\ accepting /\ calls > 0
    /\ serving[t] = None
    /\ \E s \in Services : serving' = [serving EXCEPT ![t] = s]
    /\ calls' = calls - 1
    /\ UNCHANGED <<mainVars, confVars, serverVars, stuck, signalVars>>

\* A handler that takes pictures meets a camera that stalls.
Stall(t) ==
    /\ Alive /\ serving[t] \in {"capture", "inference"}
    /\ stuck' = stuck \union {t}
    /\ UNCHANGED <<mainVars, confVars, serverVars, serving, calls, signalVars>>

\* Parameter::GetValues answers, whether or not the key is valid and found.
GetValues(t) ==
    /\ Alive /\ serving[t] = "parameter"
    /\ serving' = [serving EXCEPT ![t] = None]
    /\ UNCHANGED <<mainVars, confVars, serverVars, stuck, calls, signalVars>>

\* A handler of the other services returns.
End(t) ==
    /\ Alive /\ serving[t] \in {"capture", "inference"} /\ t \notin stuck
    /\ serving' = [serving EXCEPT ![t] = None]
    /\ UNCHANGED <<mainVars, confVars, serverVars, stuck, calls, signalVars>>

Main == \/ InitSignals \/ ParseOptions \/ ReadParameter \/ Credentials
        \/ Construct \/ OwnSocket \/ Wait \/ WakeUp \/ RunLoop \/ Poll
        \/ LeaveLoop \/ ReleaseLoop \/ Refuse \/ Drained \/ Destroy \/ Return

Handle(t) == GetValues(t) \/ End(t)

\* The process is no more, or waits for what may never come.
Rest == (~Alive \/ pc \in {"loop", "shutdown", "unwind", "hung"}) /\ UNCHANGED vars

Next == \/ Main \/ Signal \/ Rest
        \/ \E t \in Threads : Begin(t) \/ Stall(t) \/ Handle(t)

Spec == Init /\ [][Next]_vars

\* The operating system runs every thread that can run, and time passes.
FairSpec == Spec /\ WF_vars(Main) /\ \A t \in Threads : WF_vars(Handle(t))
-----------------------------------------------------------------------------
(* Properties                                                               *)

\* Every variable has its type.
TypeOK ==
    /\ pc \in {"init", "options", "param", "creds", "construct", "socket",
               "wait", "sleep", "run", "enter", "loop", "leave", "shutdown",
               "unwind", "ended", "aborted", "killed", "crashed", "hung"}
    /\ ret \in {"none", "EXIT_SUCCESS", "EXIT_FAILURE"}
    /\ options \in Options /\ conf \in Settings
    /\ stored \subseteq {Parameters[k] : k \in DOMAIN Parameters}
    /\ next \in 1 .. Len(Parameters) + 1
    /\ built \in 0 .. Len(Locals)
    /\ accepting \in BOOLEAN
    /\ loop \in {"null", "made", "running", "released"}
    /\ serving \in [Threads -> Services \union {None}]
    /\ stuck \subseteq Threads
    /\ signals \in Nat /\ calls \in Nat
    /\ interrupted \in BOOLEAN /\ asked \in BOOLEAN

Built(s) == \E k \in 1 .. built : Locals[k] = s

\* What ServiceLife sees of service s, whose object the handlers of users use.
Phase(s) == IF Built(s) THEN "serving"
            ELSE IF pc = "unwind" \/ ~Alive THEN "gone" ELSE "starting"
Using(users) == {t \in Threads : serving[t] \in users}

\* Each service object keeps the promise of ServiceLife: whatever fails during
\* the start or ends the server, no handler runs on an object before its
\* constructor or after its destructor. Predict uses the capture service too,
\* which therefore has to outlive the inference service.
CaptureLife == INSTANCE ServiceLife WITH
    phase <- Phase("capture"), active <- Using({"capture", "inference"})
InferenceLife == INSTANCE ServiceLife WITH
    phase <- Phase("inference"), active <- Using({"inference"})
CaptureLivesInOrder   == CaptureLife!Spec
InferenceLivesInOrder == InferenceLife!Spec

\* A single signal never makes the process use a main loop that is released:
\* only a second one, during the shutdown, does.
CrashTakesTwoSignals == pc = "crashed" => signals >= 2

\* A signal that arrives when the server waits, in the loop or in sleep, ends
\* the process, also when requests are under way, unless a handler waits for a
\* camera forever or a further signal hangs the main thread on a lock it holds.
StopsWhenAsked == asked ~> ~Alive \/ stuck # {} \/ pc = "hung"

\* A parameter that cannot be read leaves the option of the command line as it
\* is: get_parameter_value says so by NULL, which AcapRuntime tests.
OptionKeptWithoutParameter ==
    \A k \in 1 .. next - 1 :
        LET p == Parameters[k] IN
        p \in {"IpPort", "ChipId"} \ stored => conf[p] = Chosen(options)[p]
=============================================================================
