---------------------------- MODULE RuntimeProofs ----------------------------
(***************************************************************************)
(* Theorems about Runtime: its types, that each service object lives as    *)
(* ServiceLife promises, and that one signal alone does not use a released *)
(* main loop.                                                              *)
(***************************************************************************)
EXTENDS Runtime, TLAPS

-----------------------------------------------------------------------------
(* Types                                                                    *)

\* The locals of RunServer, one by one.
LEMMA LocalsAre ==
    /\ Len(Locals) = 4
    /\ Locals[1] = "parameter" /\ Locals[2] = "capture"
    /\ Locals[3] = "inference" /\ Locals[4] = "server"
BY DEF Locals

\* The parameters, one by one.
LEMMA ParametersAre ==
    /\ Len(Parameters) = 4
    /\ Parameters[1] = "Verbose" /\ Parameters[2] = "IpPort"
    /\ Parameters[3] = "ChipId" /\ Parameters[4] = "UseTLS"
BY DEF Parameters

\* A chip number is what its type can hold.
LEMMA ChipType == \A n \in Int : AsChip(n) \in Nat
<1> ChipModulus \in Nat /\ ChipModulus > 1 BY ConstantsAssumption DEF ConstantsAssumption
<1> QED BY DEF AsChip

\* What a parameter reads as leaves settings of the right type.
LEMMA OverrideType ==
    ASSUME conf \in Settings, NEW p, NEW v \in Values \union {Empty}
    PROVE  Override(p, v) \in Settings
<1>1. v \in Value
  <2>1. Empty \in Value
    BY DEF Empty, Value
  <2> QED
    BY <2>1, ConstantsAssumption DEF ConstantsAssumption
<1>2. AsChip(v.int) \in Nat
  BY <1>1, ChipType DEF Value
<1>3. CASE p = "IpPort" \/ p = "ChipId"
  BY <1>1, <1>2, <1>3 DEF Override, Settings, Value
<1>4. CASE p = "UseTLS"
  BY <1>1, <1>4 DEF Override, Settings, Value
<1>5. CASE p \notin {"IpPort", "ChipId", "UseTLS"}
  BY <1>5 DEF Override
<1> QED
  BY <1>3, <1>4, <1>5

\* The options of the command line do too.
LEMMA ChosenType == \A o \in Options : Chosen(o) \in Settings
<1> SUFFICES ASSUME NEW o \in Options PROVE Chosen(o) \in Settings OBVIOUS
<1>1. o \in Option
  BY ConstantsAssumption DEF ConstantsAssumption
<1>2. AsChip(o.ChipId) \in Nat
  BY <1>1, ChipType DEF Option
<1> QED
  BY <1>1, <1>2 DEF Chosen, Settings, Option

\* Control points at which no local exists, and those at which all do.
Before == {"init", "options", "param", "creds"}
During == {"socket", "wait", "sleep", "run", "enter", "loop", "leave",
           "shutdown", "hung"}

\* Locals are made one after the other; while a handler runs, all exist.
Stack ==
    /\ pc \in Before => built = 0
    /\ pc = "construct" => built < 4
    /\ pc \in During => built = 4
    /\ accepting => built = 4
    /\ ~Idle => built = 4

\* What makes TypeOK inductive: the tuples are not indexed past their ends.
TypeInv ==
    /\ TypeOK
    /\ pc \in {"init", "options", "param"} => next <= 4
    /\ Stack

LEMMA TypeInit == Init => TypeInv
<1> SUFFICES ASSUME Init PROVE TypeInv
  OBVIOUS
<1>1. conf \in Settings
  BY ChosenType DEF Init
<1>2. accepting \in BOOLEAN /\ interrupted \in BOOLEAN /\ asked \in BOOLEAN
  BY DEF Init
<1>3. built \in 0 .. Len(Locals) /\ next \in 1 .. Len(Parameters) + 1
  BY LocalsAre, ParametersAre DEF Init
<1>4. signals \in Nat /\ calls \in Nat
  BY ConstantsAssumption DEF ConstantsAssumption, Init
<1>5. serving \in [Threads -> Services \union {None}]
  BY DEF Init
<1>6. TypeOK
  BY <1>1, <1>2, <1>3, <1>4, <1>5 DEF Init, TypeOK
<1> QED
  BY <1>6 DEF Init, TypeInv, Stack, Before, During, Idle

LEMMA TypeStep == TypeInv /\ [Next]_vars => TypeInv'
<1> SUFFICES ASSUME TypeInv, [Next]_vars PROVE TypeInv'
  OBVIOUS
<1> USE LocalsAre, ParametersAre
    DEF TypeInv, TypeOK, Stack, Before, During, Idle, Goto, Throw
<1>1. CASE InitSignals
  BY <1>1 DEF InitSignals, confVars, serverVars, threadVars, signalVars
<1>2. CASE ParseOptions
  BY <1>2 DEF ParseOptions, confVars, serverVars, threadVars, signalVars
<1>3. CASE ReadParameter
  <2>1. conf' \in Settings
    BY <1>3, OverrideType DEF ReadParameter
  <2>2. /\ next' \in 1 .. 5 /\ pc' \in {"param", "creds", "aborted"}
        /\ pc' = "param" => next' <= 4
        /\ ret' = ret /\ built = 0
    BY <1>3 DEF ReadParameter
  <2>3. /\ UNCHANGED <<options, stored, built, accepting, loop, serving, stuck,
                       calls, signals, asked>>
        /\ interrupted' \in BOOLEAN
    BY <1>3 DEF ReadParameter, serverVars, threadVars
  <2> QED
    BY <2>1, <2>2, <2>3
<1>4. CASE Credentials
  BY <1>4 DEF Credentials, confVars, serverVars, threadVars, signalVars
<1>5. CASE Construct
  <2>1. built \in 0 .. 3 /\ ~accepting /\ Idle
    BY <1>5 DEF Construct
  <2>2. CASE built' = built + 1
    <3>1. /\ accepting' = (built = 3)
          /\ built = 3 => pc' \in {"socket", "wait"}
          /\ built # 3 => pc' = "construct"
          /\ ret' \in {"none", "EXIT_SUCCESS", "EXIT_FAILURE"}
      BY <1>5, <2>1, <2>2 DEF Construct
    <3> QED
      BY <1>5, <2>1, <2>2, <3>1 DEF Construct, confVars, threadVars, signalVars
  <2>3. CASE UNCHANGED built
    <3>1. pc' = "unwind" /\ ret' = "EXIT_FAILURE" /\ UNCHANGED accepting
      BY <1>5, <2>1, <2>3 DEF Construct
    <3> QED
      BY <1>5, <2>1, <2>3, <3>1
      DEF Construct, confVars, threadVars, signalVars
  <2> QED
    BY <1>5, <2>2, <2>3 DEF Construct
<1>6. CASE OwnSocket
  BY <1>6 DEF OwnSocket, confVars, serverVars, threadVars, signalVars
<1>7. CASE Wait
  BY <1>7 DEF Wait, confVars, threadVars, signalVars
<1>8. CASE WakeUp
  BY <1>8 DEF WakeUp, confVars, serverVars, threadVars
<1>9. CASE RunLoop \/ Poll \/ LeaveLoop \/ ReleaseLoop
  BY <1>9 DEF RunLoop, Poll, LeaveLoop, ReleaseLoop, confVars, serverVars,
              threadVars, signalVars
<1>10. CASE Refuse \/ Drained \/ Return
  <2>1. CASE Refuse
    BY <2>1 DEF Refuse, mainVars, confVars, threadVars, signalVars
  <2>2. CASE Drained
    BY <2>2 DEF Drained, confVars, serverVars, threadVars, signalVars
  <2>3. CASE Return
    BY <2>3 DEF Return, confVars, serverVars, threadVars, signalVars
  <2> QED
    BY <1>10, <2>1, <2>2, <2>3
<1>11. CASE Destroy
  <2>1. built \in 1 .. 4 /\ ~accepting /\ Idle
    BY <1>11 DEF Destroy
  <2> QED
    BY <1>11, <2>1 DEF Destroy, mainVars, confVars, threadVars, signalVars
<1>12. CASE Signal
  <2>1. /\ pc' \in {pc, "hung", "crashed", "killed"}
        /\ pc' = "hung" => built = 4
        /\ loop' \in {loop, "made"} /\ ret' = ret
    BY <1>12 DEF Signal, Quit, mainVars
  <2> QED
    BY <1>12, <2>1 DEF Signal, confVars, threadVars
<1>13. ASSUME NEW t \in Threads, Begin(t) PROVE TypeInv'
  <2>1. serving' \in [Threads -> Services \union {None}] /\ built = 4
    BY <1>13 DEF Begin
  <2> QED
    BY <1>13, <2>1
    DEF Begin, mainVars, confVars, serverVars, signalVars
<1>14. ASSUME NEW t \in Threads, Stall(t) \/ Handle(t) PROVE TypeInv'
  <2>1. serving[t] # None /\ built = 4
    BY <1>14, ConstantsAssumption
    DEF ConstantsAssumption, Stall, Handle, GetValues, End, Services
  <2> QED
    BY <1>14, <2>1 DEF Stall, Handle, GetValues, End, mainVars, confVars,
                       serverVars, signalVars
<1>15. CASE UNCHANGED vars
  BY <1>15 DEF vars, mainVars, confVars, serverVars, threadVars, signalVars
<1> QED
  BY <1>1, <1>2, <1>3, <1>4, <1>5, <1>6, <1>7, <1>8, <1>9, <1>10, <1>11,
     <1>12, <1>13, <1>14, <1>15 DEF Next, Main, Rest

\* TypeInv always holds.
LEMMA TypeInvariant == Spec => []TypeInv
BY TypeInit, TypeStep, PTL DEF Spec

\* Every variable has its type, for any number of threads, signals and requests
\* and any options and parameters.
THEOREM TypeCorrect == Spec => []TypeOK
<1>1. TypeInv => TypeOK
  BY DEF TypeInv
<1> QED
  BY <1>1, TypeInvariant, PTL

-----------------------------------------------------------------------------
(* The life of the services                                                 *)

\* A service is built when its position in Locals is reached; the server comes
\* after all services.
LEMMA BuiltUpTo ==
    ASSUME NEW s \in Services
    PROVE  \E n \in 1 .. 3 : \A b \in 0 .. 4 :
             (\E k \in 1 .. b : Locals[k] = s) <=> b >= n
<1>1. CASE s = "parameter"
  <2>1. \A b \in 0 .. 4 : (\E k \in 1 .. b : Locals[k] = s) <=> b >= 1
    BY <1>1, LocalsAre
  <2> QED
    BY <2>1
<1>2. CASE s = "capture"
  <2>1. \A b \in 0 .. 4 : (\E k \in 1 .. b : Locals[k] = s) <=> b >= 2
    BY <1>2, LocalsAre
  <2> QED
    BY <2>1
<1>3. CASE s = "inference"
  <2>1. \A b \in 0 .. 4 : (\E k \in 1 .. b : Locals[k] = s) <=> b >= 3
    BY <1>3, LocalsAre
  <2> QED
    BY <2>1
<1> QED
  BY <1>1, <1>2, <1>3 DEF Services

\* What may happen in a step to a service and the handlers that use it.
LifeStep(s, users) ==
    \/ UNCHANGED Phase(s) /\ UNCHANGED Using(users)
    \/ /\ Phase(s) = "starting" /\ Phase(s)' = "serving"
       /\ UNCHANGED Using(users)
    \/ /\ Phase(s) # "gone" /\ Using(users) = {}
       /\ Phase(s)' = "gone"
       /\ UNCHANGED Using(users)
    \/ \E t \in Threads :
         /\ Phase(s) = "serving" /\ t \notin Using(users)
         /\ Using(users)' = Using(users) \union {t}
         /\ UNCHANGED Phase(s)
    \/ \E t \in Threads :
         /\ t \in Using(users)
         /\ Using(users)' = Using(users) \ {t}
         /\ UNCHANGED Phase(s)

\* Every step of the process is such a step, for each service: a handler starts
\* only when all services exist, and a service goes only when no handler runs.
LEMMA EveryStepIsLifeStep ==
    ASSUME TypeInv, [Next]_vars,
           NEW s \in Services, NEW users \in SUBSET Services
    PROVE  LifeStep(s, users)
<1>1. TypeInv'
  BY TypeStep
<1>2. PICK n \in 1 .. 3 : \A b \in 0 .. 4 :
        (\E k \in 1 .. b : Locals[k] = s) <=> b >= n
  BY BuiltUpTo
<1>3. /\ built \in 0 .. 4 /\ built' \in 0 .. 4
      /\ Built(s) <=> built >= n
      /\ Built(s)' <=> built' >= n
  BY <1>1, <1>2, LocalsAre DEF TypeInv, TypeOK, Built
<1>4. built < 4 => Using(users) = {}
  BY ConstantsAssumption
  DEF ConstantsAssumption, TypeInv, Stack, Idle, Using
<1> DEFINE Dead(p) == p \in {"ended", "aborted", "killed", "crashed"}
<1>5. Phase(s) = IF built >= n THEN "serving"
                 ELSE IF pc = "unwind" \/ Dead(pc) THEN "gone" ELSE "starting"
  BY <1>3 DEF Phase, Alive
<1>6. Phase(s)' = IF built' >= n THEN "serving"
                  ELSE IF pc' = "unwind" \/ Dead(pc') THEN "gone"
                  ELSE "starting"
  BY <1>3 DEF Phase, Alive
<1>7. ASSUME UNCHANGED serving,
             built' = built \/ built' = built + 1 \/ built' = built - 1,
             built' = built + 1 => ~(pc = "unwind" \/ Dead(pc)),
             built' = built - 1 => (built' < 3 => Using(users) = {}),
             built' = built - 1 => pc = "unwind" /\ pc' = "unwind",
             pc = "unwind" \/ Dead(pc) => pc' = "unwind" \/ Dead(pc')
      PROVE  LifeStep(s, users)
  <2>1. UNCHANGED Using(users)
    BY <1>7 DEF Using
  <2> QED
    BY <1>3, <1>4, <1>5, <1>6, <1>7, <2>1 DEF LifeStep
<1>8. CASE Construct
  BY <1>7, <1>8, LocalsAre, <1>3
  DEF Construct, Goto, Throw, confVars, threadVars, signalVars
<1>9. CASE Destroy
  <2>1. built' < 3 => Using(users) = {}
    BY <1>3, <1>4, <1>9 DEF Destroy
  <2> QED
    BY <1>3, <1>7, <1>9, <2>1
    DEF Destroy, mainVars, confVars, threadVars, signalVars
<1>10. CASE \/ InitSignals \/ ParseOptions \/ ReadParameter \/ Credentials
            \/ OwnSocket \/ Wait \/ WakeUp \/ RunLoop \/ Poll \/ LeaveLoop
            \/ ReleaseLoop
  <2>1. UNCHANGED <<built, serving>> /\ ~(pc = "unwind" \/ Dead(pc))
    BY <1>10 DEF InitSignals, ParseOptions, ReadParameter, Credentials,
       OwnSocket, Wait, WakeUp, RunLoop, Poll, LeaveLoop, ReleaseLoop,
       confVars, serverVars, threadVars, signalVars
  <2> QED
    BY <1>3, <1>7, <2>1
<1>11. CASE Refuse \/ Drained \/ Return \/ UNCHANGED vars
  <2>1. /\ UNCHANGED <<built, serving>>
        /\ pc = "unwind" \/ Dead(pc) => pc' = "unwind" \/ Dead(pc')
    BY <1>11 DEF Refuse, Drained, Return, Goto, vars, mainVars, confVars,
       serverVars, threadVars, signalVars
  <2> QED
    BY <1>3, <1>7, <2>1
<1>12. CASE Signal
  <2>1. /\ UNCHANGED <<built, serving>>
        /\ pc = "unwind" \/ Dead(pc) => pc' = "unwind" \/ Dead(pc')
    BY <1>12 DEF Signal, Quit, Alive, Goto, mainVars, confVars, threadVars
  <2> QED
    BY <1>3, <1>7, <2>1
<1>13. ASSUME NEW t \in Threads, Begin(t) PROVE LifeStep(s, users)
  <2>1. PICK r \in Services : serving' = [serving EXCEPT ![t] = r]
    BY <1>13 DEF Begin
  <2>2. /\ serving[t] = None /\ serving \in [Threads -> Services \union {None}]
        /\ UNCHANGED <<built, pc>> /\ built = 4
    BY <1>13 DEF Begin, mainVars, confVars, serverVars, signalVars, TypeInv,
                 TypeOK, Stack
  <2>3. Phase(s) = "serving" /\ UNCHANGED Phase(s)
    BY <1>3, <1>5, <1>6, <2>2
  <2>4. t \notin Using(users)
    BY <2>2, ConstantsAssumption DEF ConstantsAssumption, Using
  <2>5. CASE r \in users
    <3>1. Using(users)' = Using(users) \union {t}
      BY <2>1, <2>2, <2>5 DEF Using
    <3> QED
      BY <2>3, <2>4, <3>1 DEF LifeStep
  <2>6. CASE r \notin users
    <3>1. UNCHANGED Using(users)
      BY <2>1, <2>2, <2>4, <2>6 DEF Using
    <3> QED
      BY <2>3, <3>1 DEF LifeStep
  <2> QED
    BY <2>5, <2>6
<1>14. ASSUME NEW t \in Threads, GetValues(t) \/ End(t)
       PROVE  LifeStep(s, users)
  <2>1. /\ serving' = [serving EXCEPT ![t] = None]
        /\ serving \in [Threads -> Services \union {None}]
        /\ UNCHANGED <<built, pc>>
    BY <1>14 DEF GetValues, End, mainVars, confVars, serverVars, signalVars,
                 TypeInv, TypeOK
  <2>2. UNCHANGED Phase(s)
    BY <1>5, <1>6, <2>1
  <2>3. Using(users)' = Using(users) \ {t}
    BY <2>1, ConstantsAssumption DEF ConstantsAssumption, Using
  <2>4. CASE t \in Using(users)
    BY <2>2, <2>3, <2>4 DEF LifeStep
  <2>5. CASE t \notin Using(users)
    <3>1. UNCHANGED Using(users)
      BY <2>3, <2>5
    <3> QED
      BY <2>2, <3>1 DEF LifeStep
  <2> QED
    BY <2>4, <2>5
<1>15. ASSUME NEW t \in Threads, Stall(t) PROVE LifeStep(s, users)
  <2>1. UNCHANGED <<built, pc, serving>>
    BY <1>15 DEF Stall, mainVars, confVars, serverVars, signalVars
  <2> QED
    BY <1>3, <1>7, <2>1
<1> QED
  BY <1>8, <1>9, <1>10, <1>11, <1>12, <1>13, <1>14, <1>15
  DEF Next, Main, Rest, Handle

\* A service does not exist at the start, and no handler runs.
LEMMA LifeInit ==
    ASSUME Init, NEW s \in Services, NEW users \in SUBSET Services
    PROVE  Phase(s) = "starting" /\ Using(users) = {}
BY ConstantsAssumption
DEF ConstantsAssumption, Init, Phase, Built, Using, Alive

\* Runtime implements ServiceLife for the capture service, which handlers of the
\* inference service use too: for any number of threads, and whatever fails or
\* signals come, no handler runs before its constructor or after its destructor.
THEOREM CaptureLifeImplemented == Spec => CaptureLivesInOrder
<1>1. Init => CaptureLife!Init
  BY LifeInit DEF CaptureLife!Init, Services
<1>2. TypeInv /\ [Next]_vars =>
        [CaptureLife!Next]_<<Phase("capture"), Using({"capture", "inference"})>>
  <2> SUFFICES ASSUME TypeInv, [Next]_vars
               PROVE  [CaptureLife!Next]_<<Phase("capture"),
                                          Using({"capture", "inference"})>>
    OBVIOUS
  <2>1. LifeStep("capture", {"capture", "inference"})
    BY EveryStepIsLifeStep DEF Services
  <2> QED
    BY <2>1 DEF LifeStep, CaptureLife!Next, CaptureLife!Construct,
                CaptureLife!Destroy, CaptureLife!Enter, CaptureLife!Leave
<1> QED
  BY <1>1, <1>2, TypeInvariant, PTL
  DEF Spec, CaptureLivesInOrder, CaptureLife!Spec

\* The same for the inference service: what Inference takes from its
\* surroundings holds.
THEOREM InferenceLifeImplemented == Spec => InferenceLivesInOrder
<1>1. Init => InferenceLife!Init
  BY LifeInit DEF InferenceLife!Init, Services
<1>2. TypeInv /\ [Next]_vars =>
        [InferenceLife!Next]_<<Phase("inference"), Using({"inference"})>>
  <2> SUFFICES ASSUME TypeInv, [Next]_vars
               PROVE  [InferenceLife!Next]_<<Phase("inference"),
                                            Using({"inference"})>>
    OBVIOUS
  <2>1. LifeStep("inference", {"inference"})
    BY EveryStepIsLifeStep DEF Services
  <2> QED
    BY <2>1 DEF LifeStep, InferenceLife!Next, InferenceLife!Construct,
                InferenceLife!Destroy, InferenceLife!Enter, InferenceLife!Leave
<1> QED
  BY <1>1, <1>2, TypeInvariant, PTL
  DEF Spec, InferenceLivesInOrder, InferenceLife!Spec

-----------------------------------------------------------------------------
(* Signals                                                                  *)

\* How many signals there were, where it matters. The loop ends only by one.
Warned ==
    /\ pc = "leave" \/ loop = "released" => signals >= 1
    /\ pc \in {"enter", "loop"} => loop = "running" \/ signals >= 1
    /\ pc = "crashed" => signals >= 2

LEMMA WarnedStep == TypeInv /\ Warned /\ [Next]_vars => Warned'
<1> SUFFICES ASSUME TypeInv, Warned, [Next]_vars PROVE Warned'
  OBVIOUS
<1> USE DEF Warned, Goto, Throw
<1>0. signals \in Nat
  BY DEF TypeInv, TypeOK
<1>1. CASE InitSignals \/ ParseOptions \/ Credentials \/ OwnSocket
  BY <1>1 DEF InitSignals, ParseOptions, Credentials, OwnSocket, confVars,
     serverVars, threadVars, signalVars
<1>2. CASE ReadParameter \/ Construct \/ Wait \/ WakeUp
  <2>1. CASE ReadParameter
    BY <2>1 DEF ReadParameter, serverVars, threadVars
  <2>2. CASE Construct
    <3>1. pc' \in {"construct", "socket", "wait", "unwind"}
      BY <2>2 DEF Construct
    <3> QED
      BY <2>2, <3>1 DEF Construct, confVars, threadVars, signalVars
  <2>3. CASE Wait
    BY <2>3 DEF Wait, confVars, threadVars, signalVars
  <2>4. CASE WakeUp
    BY <2>4 DEF WakeUp, confVars, serverVars, threadVars
  <2> QED
    BY <1>2, <2>1, <2>2, <2>3, <2>4
<1>3. CASE RunLoop \/ Poll \/ LeaveLoop \/ ReleaseLoop
  BY <1>3 DEF RunLoop, Poll, LeaveLoop, ReleaseLoop, confVars, serverVars,
              threadVars, signalVars
<1>4. CASE Refuse \/ Drained \/ Destroy \/ Return
  BY <1>4 DEF Refuse, Drained, Destroy, Return, mainVars, confVars,
              serverVars, threadVars, signalVars
<1>5. CASE Signal
  BY <1>0, <1>5 DEF Signal, Quit, mainVars, confVars, threadVars
<1>6. ASSUME NEW t \in Threads, Begin(t) \/ Stall(t) \/ Handle(t)
      PROVE  Warned'
  BY <1>6 DEF Begin, Stall, Handle, GetValues, End, mainVars, confVars,
              serverVars, signalVars
<1>7. CASE UNCHANGED vars
  BY <1>7 DEF vars, mainVars, confVars, serverVars, threadVars, signalVars
<1> QED
  BY <1>1, <1>2, <1>3, <1>4, <1>5, <1>6, <1>7 DEF Next, Main, Rest

\* The process uses a main loop that was released only on a second signal.
THEOREM OneSignalIsSafe == Spec => []CrashTakesTwoSignals
<1>1. Init => Warned
  BY DEF Init, Warned
<1>2. Warned => CrashTakesTwoSignals
  BY DEF Warned, CrashTakesTwoSignals
<1> QED
  BY <1>1, <1>2, WarnedStep, TypeInvariant, PTL DEF Spec
=============================================================================
