--------------------------- MODULE MCVideoCapture ---------------------------
(* Small instances of VideoCapture for TLC.                                *)
EXTENDS VideoCapture, TLC

\* Budgets: how often each operation is called in a run.
Calls(new, delete, get, predict) ==
    [NewStream |-> new, DeleteStream |-> delete, GetFrame |-> get,
     Predict |-> predict]
SharingCalls == Calls(2, 1, 2, 5)
ChurnCalls   == Calls(2, 2, 1, 1)
LiveCalls    == Calls(2, 1, 2, 2)
DeleteCalls  == Calls(1, 1, 1, 0)

\* Clients that use only the ids they were told, but do not wait for each other.
Informed == \A t \in Threads :
    pc[t] = "idle" /\ call'[t].op \in Ops \ {"NewStream"} => call'[t].id \in known
InformedSpec == Init /\ [][Next /\ Informed]_vars

Symmetry == Permutations(Threads) \union Permutations(Streams)
=============================================================================
