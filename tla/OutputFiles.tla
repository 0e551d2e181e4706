---------------------------- MODULE OutputFiles -----------------------------
(***************************************************************************)
(* The life of the MP3 files as the user of the program sees it: a file is *)
(* created empty, and either becomes complete, which is announced at that  *)
(* moment, or is removed, or stays incomplete.  A complete file is final:  *)
(* no other conversion and no interruption takes it away or changes it.    *)
(***************************************************************************)
CONSTANT Sources     \* the files that are to be converted

VARIABLES
    fate,            \* "none", "incomplete", "complete" or "removed"
    announced        \* the sources that were reported as converted

outputVars == <<fate, announced>>

OutputInit ==
    /\ fate = [f \in Sources |-> "none"]
    /\ announced = {}

Create(f) ==
    /\ fate[f] = "none"
    /\ fate' = [fate EXCEPT ![f] = "incomplete"]
    /\ UNCHANGED announced

Complete(f) ==
    /\ fate[f] = "incomplete"
    /\ fate' = [fate EXCEPT ![f] = "complete"]
    /\ announced' = announced \cup {f}

Remove(f) ==
    /\ fate[f] = "incomplete"
    /\ fate' = [fate EXCEPT ![f] = "removed"]
    /\ UNCHANGED announced

OutputNext == \E f \in Sources : Create(f) \/ Complete(f) \/ Remove(f)

OutputSpec == OutputInit /\ [][OutputNext]_outputVars
=============================================================================
