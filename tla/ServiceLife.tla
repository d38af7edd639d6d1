---------------------------- MODULE ServiceLife ----------------------------
(***************************************************************************)
(* What the life of a service object promises: handlers run only between   *)
(* the end of its constructor and the start of its destructor. Runtime     *)
(* keeps this promise for each of the three services, and Inference, which *)
(* knows nothing of the server, relies on no more than this.               *)
(***************************************************************************)
CONSTANT Threads
VARIABLES phase, active     \* active: the threads in a handler of the service

Init == phase = "starting" /\ active = {}

Construct == phase = "starting" /\ phase' = "serving" /\ UNCHANGED active

\* The object goes, or the constructor throws and there never was one.
Destroy ==
    /\ phase # "gone" /\ active = {}
    /\ phase' = "gone"
    /\ UNCHANGED active

Enter(t) ==
    /\ phase = "serving"
    /\ t \notin active
    /\ active' = active \union {t}
    /\ UNCHANGED phase

Leave(t) ==
    /\ t \in active
    /\ active' = active \ {t}
    /\ UNCHANGED phase

Next == Construct \/ Destroy \/ \E t \in Threads : Enter(t) \/ Leave(t)

Spec == Init /\ [][Next]_<<phase, active>>
=============================================================================
