----------------------------- MODULE MCProgram ------------------------------
(***************************************************************************)
(* TLC instances of Program.                                               *)
(***************************************************************************)
EXTENDS Program

CONSTANTS w1, w2, handlerThread

MCWorkers == {w1, w2}

\* On Windows a thread is made for the handler.
OnWindows == {handlerThread}

\* On POSIX the handler interrupts one of the threads.
OnPosix == {Main} \cup MCWorkers
=============================================================================
