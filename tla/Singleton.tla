----------------------------- MODULE Singleton -----------------------------
(***************************************************************************)
(* What a gate promises to a class of heavy work, without rows, owners,    *)
(* ages, heartbeats or claims: at most one run has the class.  A run that  *)
(* is at work keeps it until it is done, unless its heartbeats stopped     *)
(* coming through; then, or when the run is on its way out, another may    *)
(* take the class over.  Nobody has it after a crash.                      *)
(***************************************************************************)
CONSTANT Thread

VARIABLES at,    \* [Thread -> {"out", "working", "ending"}]
          mute   \* threads that have the class and whose heartbeats are lost

Out == [t \in Thread |-> "out"]

Init == at = Out /\ mute = {}

\* Whoever had the class is out, whether it knows of it or not.
Enter(t) == /\ at[t] = "out"
            /\ \A s \in Thread : at[s] = "working" => s \in mute
            /\ at' = [Out EXCEPT ![t] = "working"]
            /\ mute' = {}

End(t) == /\ at[t] = "working"
          /\ at' = [at EXCEPT ![t] = "ending"]
          /\ UNCHANGED mute

Leave(t) == /\ at[t] = "ending"
            /\ at' = [at EXCEPT ![t] = "out"]
            /\ mute' = mute \ {t}

Mute(t) == /\ at[t] # "out"
           /\ mute' = mute \union {t}
           /\ UNCHANGED at

Crash == at' = Out /\ mute' = {}

Next == \/ \E t \in Thread : Enter(t) \/ End(t) \/ Leave(t) \/ Mute(t)
        \/ Crash

Spec == Init /\ [][Next]_<<at, mute>>
=============================================================================
