------------------------------ MODULE Program -------------------------------
(***************************************************************************)
(* The program from its start to its return code: main() of wav2mp3.cpp    *)
(* with parse_arguments() and check_directory(), the iteration and the     *)
(* jobs of convert_wav_files.cpp as far as they print, ask for and report  *)
(* termination, and the handler of SIGINT and SIGTERM.  What is common to  *)
(* them are three mutexes: that of the tostream class, that of the         *)
(* SignalHandler class and that of the return code.                        *)
(*                                                                         *)
(* A handler runs on a thread, whose own code is suspended until it has    *)
(* returned: on POSIX one of the threads of the program, on Windows one    *)
(* that is made for it.  The mutexes are not recursive.                    *)
(***************************************************************************)
EXTENDS Integers, FiniteSets

CONSTANTS
    Main,
    Workers,        \* the threads of the pool
    HandlerThreads, \* the threads that a handler may run on
    MaxEntries,     \* bound: the entries of the directory, files of one pass each
    MaxSignals,     \* bound: the signals sent; on Windows the handler of each kind runs once
    PthreadMayFail, \* whether calls of the pthread library may fail
    None

Threads == {Main} \cup Workers \cup HandlerThreads

\* return_code.h:7
RET_CODE_OK == 0
RET_CODE_INVALID_ARGUMENTS == 1
RET_CODE_CONVERTING_SOME_FILES_FAILED == 2
RET_ABORTED_BY_SIGINT_OR_SIGTERM == 3
RET_CODE_DIR_ITER_FAILED == 4
RET_CODE_EXCEPTION_CAUGHT == 5
RET_CODE_PTHREAD_ERROR == 6
RET_CODE_LAME_ERROR == 7
Codes == 0..7

ASSUME ProgramAssumption ==
    /\ Main \notin Workers /\ IsFiniteSet(Workers) /\ Workers # {}
    /\ None \notin Workers \cup HandlerThreads \cup {Main}
    /\ None \notin Codes
    /\ MaxEntries \in Nat /\ MaxSignals \in Nat /\ PthreadMayFail \in BOOLEAN

VARIABLES
    pc,             \* where each thread is
    call,           \* the call it is in: [op, code, locked], or NoCall
    requested,      \* the last result of termination_requested() in each thread
    handler,        \* where the handler is that runs on each thread, or "none"
    owner,          \* the thread that holds each mutex, or None
    entries,        \* the entries that are yet to be visited
    signals,        \* the signals yet to be sent
    _termination_requested,
    return_code,
    exitCode,       \* what main() returns, or None before
    raised,         \* history: the codes passed to set_return_code() before main() asks for it
    late            \* history: the files begun after termination was requested

codeVars == <<_termination_requested, return_code, exitCode, raised>>
vars == <<pc, call, requested, handler, owner, entries, signals, codeVars, late>>

Ops == {"print", "termination_requested", "set_return_code", "get_return_code"}
Mutexes == {"tostream", "SignalHandler", "return_code"}

MutexOf(op) ==
    CASE op = "print" -> "tostream"
      [] op = "termination_requested" -> "SignalHandler"
      [] op \in {"set_return_code", "get_return_code"} -> "return_code"

NoCall == [op |-> "none", code |-> None, locked |-> FALSE]

MainStates == {"start", "parsed", "check", "convert", "iterate", "asked", "file failed",
               "iteration failed", "closing", "refused", "returning", "leaving", "exited"}
WorkerStates == {"idle", "encode", "asked", "lame failed", "failed"}
HandlerStates == {"none", "print", "printing", "request", "code", "coding"}

\* Mutant: the latest code wins.
LatestCode(code) == code

\* The severest code wins.
SeverestCode(code) == IF code > return_code THEN code ELSE return_code

-----------------------------------------------------------------------------
(* Calls that lock a mutex *)

\* The thread's own code runs, and is not in one of the calls below.
Runs(t) == handler[t] = "none" /\ call[t] = NoCall

\* Thread t calls op and goes on at "then" when the call has returned.
Calls(t, op, code, then) ==
    /\ call' = [call EXCEPT ![t] = [op |-> op, code |-> code, locked |-> FALSE]]
    /\ pc' = [pc EXCEPT ![t] = then]

Lock(t) ==
    /\ handler[t] = "none" /\ call[t] # NoCall /\ ~call[t].locked
    /\ owner[MutexOf(call[t].op)] = None
    /\ owner' = [owner EXCEPT ![MutexOf(call[t].op)] = t]
    /\ call' = [call EXCEPT ![t].locked = TRUE]
    /\ UNCHANGED <<pc, requested, handler, entries, signals, codeVars, late>>

\* Mutant: the mutex is not released.
ReturnsLocked(t, op) ==
    /\ handler[t] = "none" /\ call[t].op = op /\ call[t].locked
    /\ call' = [call EXCEPT ![t] = NoCall]
    /\ UNCHANGED owner

\* The end of the call: the mutex is released.
Returns(t, op) ==
    /\ handler[t] = "none" /\ call[t].op = op /\ call[t].locked
    /\ owner' = [owner EXCEPT ![MutexOf(op)] = None]
    /\ call' = [call EXCEPT ![t] = NoCall]

\* tcout << ... or tcerr << ...
PrintLine(t) ==
    /\ Returns(t, "print")
    /\ UNCHANGED <<pc, requested, handler, entries, signals, codeVars, late>>

termination_requested(t) ==
    /\ Returns(t, "termination_requested")
    /\ requested' = [requested EXCEPT ![t] = _termination_requested]
    /\ UNCHANGED <<pc, handler, entries, signals, codeVars, late>>

\* The code becomes the return code if it is more severe.
Raise(code) ==
    /\ return_code' = SeverestCode(code)
    /\ raised' = IF exitCode = None THEN raised \cup {code} ELSE raised

set_return_code(t) ==
    /\ Returns(t, "set_return_code")
    /\ Raise(call[t].code)
    /\ UNCHANGED <<pc, requested, handler, entries, signals, _termination_requested,
                   exitCode, late>>

\* Only main() calls it, and returns the result.
get_return_code ==
    /\ Returns(Main, "get_return_code")
    /\ exitCode' = return_code
    /\ pc' = [pc EXCEPT ![Main] = "leaving"]
    /\ UNCHANGED <<requested, handler, entries, signals, _termination_requested,
                   return_code, raised, late>>

-----------------------------------------------------------------------------
(* The main thread *)

\* The main thread is at a point, and continues without a call.
MainAt(here) == pc[Main] = here /\ Runs(Main)

MainGoes(there) == pc' = [pc EXCEPT ![Main] = there] /\ UNCHANGED call

\* Until all went well the arguments are held to be invalid.
ParseArguments ==
    /\ MainAt("start")
    /\ Calls(Main, "set_return_code", RET_CODE_INVALID_ARGUMENTS, "parsed")
    /\ UNCHANGED <<requested, handler, owner, entries, signals, codeVars, late>>

\* --help or --version, an error in the arguments, or none
ArgumentsParsed ==
    /\ MainAt("parsed")
    /\ \/ Calls(Main, "set_return_code", RET_CODE_OK, "refused")
       \/ MainGoes("refused")
       \/ MainGoes("check")
    /\ UNCHANGED <<requested, handler, owner, entries, signals, codeVars, late>>

\* The directory is one, or is not; nor does an empty one have an iterator.
CheckDirectory ==
    /\ MainAt("check")
    /\ \/ MainGoes("convert") /\ UNCHANGED exitCode
       \/ MainGoes("leaving") /\ exitCode' = RET_CODE_DIR_ITER_FAILED
    /\ UNCHANGED <<requested, handler, owner, entries, signals, _termination_requested,
                   return_code, raised, late>>

\* The constructor of the pool throws, or the conversion begins.
BeginConversion ==
    /\ MainAt("convert")
    /\ \/ Calls(Main, "set_return_code", RET_CODE_EXCEPTION_CAUGHT, "returning")
       \/ Calls(Main, "print", None, "iterate")
    /\ UNCHANGED <<requested, handler, owner, entries, signals, codeVars, late>>

\* Mutant: the iterator is not compared with the end.
NextEntryBehindEnd ==
    /\ MainAt("iterate")
    /\ entries' = entries - 1
    /\ Calls(Main, "termination_requested", None, "asked")
    /\ UNCHANGED <<requested, handler, owner, signals, codeVars, late>>

NextEntry ==
    /\ MainAt("iterate")
    /\ entries > 0
    /\ entries' = entries - 1
    /\ Calls(Main, "termination_requested", None, "asked")
    /\ UNCHANGED <<requested, handler, owner, signals, codeVars, late>>

EndOfIteration ==
    /\ \/ MainAt("iterate") /\ entries = 0
       \/ MainAt("asked") /\ requested[Main]
    /\ MainGoes("closing")
    /\ UNCHANGED <<requested, handler, owner, entries, signals, codeVars, late>>

\* A directory, or a file whose name does not end with .wav.
SkipEntry ==
    /\ MainAt("asked") /\ ~requested[Main]
    /\ MainGoes("iterate")
    /\ UNCHANGED <<requested, handler, owner, entries, signals, codeVars, late>>

\* convert_file() prints an error, but does not set the return code: that is
\* done only when it throws.
RejectFile ==
    /\ \/ /\ MainAt("asked") /\ ~requested[Main]
          /\ Calls(Main, "print", None, "iterate") \/ Calls(Main, "print", None, "file failed")
       \/ /\ MainAt("file failed")
          /\ Calls(Main, "set_return_code", RET_CODE_CONVERTING_SOME_FILES_FAILED, "iterate")
    /\ UNCHANGED <<requested, handler, owner, entries, signals, codeVars, late>>

\* Mutant: what termination_requested() returned is not looked at.
SubmitAlways(w) ==
    /\ MainAt("asked")
    /\ pc[w] = "idle" /\ Runs(w)
    /\ pc' = [pc EXCEPT ![Main] = "iterate", ![w] = "encode"]
    /\ late' = IF _termination_requested THEN late + 1 ELSE late
    /\ UNCHANGED <<call, requested, handler, owner, entries, signals, codeVars>>

\* convert_file() gives the file to an idle thread of the pool, or waits for one.
SubmitFile(w) ==
    /\ MainAt("asked") /\ ~requested[Main]
    /\ pc[w] = "idle" /\ Runs(w)
    /\ pc' = [pc EXCEPT ![Main] = "iterate", ![w] = "encode"]
    /\ late' = IF _termination_requested THEN late + 1 ELSE late
    /\ UNCHANGED <<call, requested, handler, owner, entries, signals, codeVars>>

\* The iterator throws: a message, and then the return code.
IterationFails ==
    /\ \/ MainAt("iterate") /\ Calls(Main, "print", None, "iteration failed")
       \/ /\ MainAt("iteration failed")
          /\ Calls(Main, "set_return_code", RET_CODE_DIR_ITER_FAILED, "closing")
    /\ UNCHANGED <<requested, handler, owner, entries, signals, codeVars, late>>

\* The destructor of the pool joins the threads.
ClosePool ==
    /\ MainAt("closing")
    /\ \A w \in Workers : pc[w] = "idle" /\ Runs(w)
    /\ MainGoes("returning")
    /\ UNCHANGED <<requested, handler, owner, entries, signals, codeVars, late>>

\* In state "refused" the handler is still installed.
Return ==
    /\ MainAt("refused") \/ MainAt("returning")
    /\ Calls(Main, "get_return_code", None, pc[Main])
    /\ UNCHANGED <<requested, handler, owner, entries, signals, codeVars, late>>

\* main() has returned, and the static mutexes are destroyed, in one step here:
\* for one that a handler on a thread of its own still holds this fails.
LeaveProcess ==
    /\ MainAt("leaving")
    /\ MainGoes("exited")
    /\ exitCode' = IF \E m \in Mutexes : owner[m] # None THEN RET_CODE_PTHREAD_ERROR ELSE exitCode
    /\ UNCHANGED <<requested, handler, owner, entries, signals, _termination_requested,
                   return_code, raised, late>>

MainSteps ==
    \/ ParseArguments \/ ArgumentsParsed \/ CheckDirectory \/ BeginConversion
    \/ NextEntry \/ EndOfIteration \/ SkipEntry \/ RejectFile \/ \E w \in Workers : SubmitFile(w)
    \/ IterationFails \/ ClosePool \/ Return \/ get_return_code
    \/ LeaveProcess

-----------------------------------------------------------------------------
(* The jobs *)

WorkerAt(w, here) == pc[w] = here /\ Runs(w)

\* The pass is over, or there is no sample, or LAME or something else fails.
EncodeFile(w) ==
    /\ WorkerAt(w, "encode")
    /\ \/ /\ \/ Calls(w, "termination_requested", None, "asked")
             \/ Calls(w, "print", None, "idle")
       \/ Calls(w, "set_return_code", RET_CODE_LAME_ERROR, "lame failed")
       \/ Calls(w, "print", None, "failed")
    /\ UNCHANGED <<requested, handler, owner, entries, signals, codeVars, late>>

\* The job was to end, or the file has been converted.
EndFile(w) ==
    /\ WorkerAt(w, "asked")
    /\ \/ /\ requested[w]
          /\ pc' = [pc EXCEPT ![w] = "idle"]
          /\ UNCHANGED call
       \/ ~requested[w] /\ Calls(w, "print", None, "idle")
    /\ UNCHANGED <<requested, handler, owner, entries, signals, codeVars, late>>

\* LameInit::check_error() throws, unless the destructor has called it.
LameFails(w) ==
    /\ WorkerAt(w, "lame failed")
    /\ \/ Calls(w, "print", None, "failed")
       \/ Calls(w, "print", None, "idle")
    /\ UNCHANGED <<requested, handler, owner, entries, signals, codeVars, late>>

\* The message has been printed: print_error() sets the return code.
JobFails(w) ==
    /\ WorkerAt(w, "failed")
    /\ Calls(w, "set_return_code", RET_CODE_CONVERTING_SOME_FILES_FAILED, "idle")
    /\ UNCHANGED <<requested, handler, owner, entries, signals, codeVars, late>>

WorkerSteps(w) == EncodeFile(w) \/ EndFile(w) \/ LameFails(w) \/ JobFails(w)

-----------------------------------------------------------------------------
(* The handler *)

\* The threads of the pool exist while main is in these states.
PoolStates == {"iterate", "asked", "file failed", "iteration failed", "closing"}

\* A signal comes while the handler is installed.  It is not interrupted itself.
Signal(t) ==
    /\ signals > 0
    /\ signals' = signals - 1
    /\ pc[Main] \notin {"returning", "leaving", "exited"}
    /\ t \in Workers => pc[Main] \in PoolStates
    /\ handler[t] = "none"
    /\ handler' = [handler EXCEPT ![t] = "print"]
    /\ UNCHANGED <<pc, call, requested, owner, entries, codeVars, late>>

HandlerGoes(t, here, there) == handler[t] = here /\ handler' = [handler EXCEPT ![t] = there]

HandlerLocks(t, m) == owner[m] = None /\ owner' = [owner EXCEPT ![m] = t]

PrintSignal(t) ==
    /\ \/ HandlerGoes(t, "print", "printing") /\ HandlerLocks(t, "tostream")
       \/ /\ HandlerGoes(t, "printing", "request")
          /\ owner' = [owner EXCEPT !["tostream"] = None]
    /\ UNCHANGED <<pc, call, requested, entries, signals, codeVars, late>>

\* Mutant: the mutex is released before the return code is set.
RequestUnguarded(t) ==
    /\ HandlerGoes(t, "request", "code")
    /\ owner["SignalHandler"] = None
    /\ _termination_requested' = TRUE
    /\ UNCHANGED <<pc, call, requested, owner, entries, signals, return_code, exitCode,
                   raised, late>>

\* _mutex is held until the handler returns.
RequestTermination(t) ==
    /\ HandlerGoes(t, "request", "code")
    /\ HandlerLocks(t, "SignalHandler")
    /\ _termination_requested' = TRUE
    /\ UNCHANGED <<pc, call, requested, entries, signals, return_code, exitCode, raised,
                   late>>

HandlerSetsCode(t) ==
    /\ \/ HandlerGoes(t, "code", "coding") /\ HandlerLocks(t, "return_code")
          /\ UNCHANGED <<return_code, raised>>
       \/ /\ HandlerGoes(t, "coding", "none")
          /\ owner' = [owner EXCEPT !["return_code"] = None, !["SignalHandler"] = None]
          /\ Raise(RET_ABORTED_BY_SIGINT_OR_SIGTERM)
    /\ UNCHANGED <<pc, call, requested, entries, signals, _termination_requested, exitCode,
                   late>>

signal_handler(t) == PrintSignal(t) \/ RequestTermination(t) \/ HandlerSetsCode(t)

-----------------------------------------------------------------------------
(* Failing calls of the pthread library *)

\* Where thread t may call it: it locks or unlocks a mutex, in a call or in the
\* handler, main makes the pool, waits for an idle thread, wakes, joins or
\* destroys them, or leaves, and an idle thread of the pool waits for a job.
MayCallPthread(t) ==
    \/ handler[t] # "none"
    \/ handler[t] = "none" /\ call[t] # NoCall
    \/ t = Main /\ Runs(Main) /\ pc[Main] \in {"convert", "asked", "closing", "leaving"}
    \/ t \in Workers /\ Runs(t) /\ pc[t] = "idle" /\ pc[Main] \in PoolStates

\* check_pthread_error() calls exit(), on whatever thread, with a code of its
\* own: the return code is not looked at.  The rest of the process ends with it.
PthreadFails(t) ==
    /\ PthreadMayFail
    /\ MayCallPthread(t)
    /\ exitCode' = RET_CODE_PTHREAD_ERROR
    /\ pc' = [pc EXCEPT ![Main] = "exited"]
    /\ UNCHANGED <<call, requested, handler, owner, entries, signals, _termination_requested,
                   return_code, raised, late>>

-----------------------------------------------------------------------------
Init ==
    /\ pc = [t \in Threads |-> IF t = Main THEN "start" ELSE "idle"]
    /\ call = [t \in Threads |-> NoCall]
    /\ requested = [t \in Threads |-> FALSE]
    /\ handler = [t \in Threads |-> "none"]
    /\ owner = [m \in Mutexes |-> None]
    /\ entries = MaxEntries
    /\ signals = MaxSignals
    /\ _termination_requested = FALSE
    /\ return_code = RET_CODE_OK
    /\ exitCode = None
    /\ raised = {}
    /\ late = 0

Exited == pc[Main] = "exited"

ThreadSteps(t) ==
    /\ ~Exited
    /\ \/ Lock(t) \/ PrintLine(t) \/ termination_requested(t) \/ set_return_code(t)
       \/ t = Main /\ MainSteps
       \/ t \in Workers /\ WorkerSteps(t)
       \/ signal_handler(t)

Next ==
    \/ \E t \in Threads : ThreadSteps(t)
    \/ ~Exited /\ \E t \in HandlerThreads : Signal(t)
    \/ ~Exited /\ \E t \in Threads : PthreadFails(t)
    \/ Exited /\ UNCHANGED vars

Spec == Init /\ [][Next]_vars

\* The scheduler runs every thread that is not blocked; no signal must come.
FairSpec == Spec /\ \A t \in Threads : WF_vars(ThreadSteps(t))

-----------------------------------------------------------------------------
(* Properties *)

TypeOK ==
    /\ \A t \in Threads :
          /\ pc[t] \in IF t = Main THEN MainStates ELSE WorkerStates
          /\ call[t].op \in Ops \cup {"none"} /\ call[t].code \in Codes \cup {None}
          /\ call[t].locked \in BOOLEAN
          /\ requested[t] \in BOOLEAN
          /\ handler[t] \in HandlerStates
    /\ \A m \in Mutexes : owner[m] \in Threads \cup {None}
    /\ entries \in 0..MaxEntries /\ signals \in 0..MaxSignals
    /\ _termination_requested \in BOOLEAN
    /\ return_code \in Codes /\ exitCode \in Codes \cup {None}
    /\ raised \subseteq Codes /\ late \in Nat

\* return_code.h:19 sorts the codes by severity: whatever the order in which the
\* threads and the handler set them, the program returns none less severe than
\* one that was set when main() asked for it.  As parse_arguments() sets a code
\* first, the program never returns RET_CODE_OK; and only the exit after a
\* failing pthread call, which does not look at the codes that were set, may
\* hide a more severe one.
ExitCodeIsSeverest ==
    Exited =>
        /\ exitCode # RET_CODE_OK
        /\ exitCode = RET_CODE_PTHREAD_ERROR \/ \A code \in raised : exitCode >= code

\* A thread that is told to stop because of a signal does so in a program whose
\* return code already says so: the handler nests the two mutexes.
SeenIsReported ==
    \A t \in Threads : requested[t] => return_code >= RET_ABORTED_BY_SIGINT_OR_SIGTERM

\* After the user has asked for the end, at most the file is begun for which
\* the iteration had just looked at the request.
OneLateFile == late <= 1

\* src/README.md:39 says that the program "can be interrupted by pressing Ctrl-C
\* or sending SIGTERM": however signals and threads interleave, it comes to an end.
ProgramExits == <>Exited
=============================================================================
