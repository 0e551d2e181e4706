---------------------------- MODULE ProgramProofs -----------------------------
(***************************************************************************)
(* Theorems about Program, for any number of threads, entries and signals, *)
(* on POSIX as well as on Windows, whether pthread calls fail or not.      *)
(***************************************************************************)
EXTENDS Program, TLAPS

\* The variables as functions and records.
Typed ==
    /\ pc \in [Threads -> MainStates \cup WorkerStates]
    /\ pc[Main] \in MainStates
    /\ \A t \in Threads : t # Main => pc[t] \in WorkerStates
    /\ call \in [Threads -> [op : Ops \cup {"none"}, code : Codes \cup {None}, locked : BOOLEAN]]
    /\ \A t \in Threads : call[t].op = "set_return_code" => call[t].code \in Codes
    /\ requested \in [Threads -> BOOLEAN]
    /\ handler \in [Threads -> HandlerStates]
    /\ owner \in [Mutexes -> Threads \cup {None}]
    /\ entries \in 0..MaxEntries /\ signals \in 0..MaxSignals
    /\ _termination_requested \in BOOLEAN
    /\ return_code \in Codes /\ exitCode \in Codes \cup {None}
    /\ raised \subseteq Codes /\ late \in Nat

\* The handler on thread t has noted the request, but has not yet returned.
Reports(t) == handler[t] \in {"code", "coding"}

InCall(t, op) == call[t].op = op /\ call[t].locked

\* Who holds the mutex of SignalHandler: a handler or a call, and not both, even
\* if they are of one thread.
MutexInv ==
    \A t \in Threads :
        /\ Reports(t) => owner["SignalHandler"] = t
        /\ InCall(t, "termination_requested") => owner["SignalHandler"] = t /\ ~Reports(t)

\* A request is reported, or its handler still holds the mutex.
RequestInv ==
    /\ _termination_requested =>
          \/ return_code >= RET_ABORTED_BY_SIGINT_OR_SIGTERM
          \/ \E t \in Threads : Reports(t)
    /\ SeenIsReported

\* Once a file was late, main() cannot take the request for absent again.
LateInv ==
    /\ pc[Main] = "asked" => call[Main].op \in {"none", "termination_requested"}
    /\ late # 0 =>
          /\ late = 1
          /\ _termination_requested
          /\ pc[Main] = "asked" /\ call[Main].op = "none" => requested[Main]

\* Before the conversion, only main() and the handler set codes.
EarlyStates == {"start", "parsed", "check", "refused"}
EarlyInv ==
    pc[Main] \in EarlyStates =>
        /\ raised \subseteq {RET_CODE_OK, RET_CODE_INVALID_ARGUMENTS,
                             RET_ABORTED_BY_SIGINT_OR_SIGTERM}
        /\ call[Main].op = "set_return_code" =>
              call[Main].code \in {RET_CODE_OK, RET_CODE_INVALID_ARGUMENTS}
        /\ \A t \in Threads \ {Main} : pc[t] = "idle" /\ call[t] = NoCall

\* The return code is at least what was set, and not 0 when it is asked for.
CodeInv ==
    /\ \A code \in raised : return_code >= code
    /\ \/ pc[Main] = "exited"
       \/ pc[Main] = "start" /\ call[Main].op = "none"
       \/ /\ pc[Main] = "parsed" /\ call[Main].op = "set_return_code"
          /\ call[Main].code = RET_CODE_INVALID_ARGUMENTS
       \/ return_code # RET_CODE_OK
    /\ pc[Main] \in {"leaving", "exited"} => exitCode # None
    /\ exitCode # None =>
          \/ exitCode = RET_CODE_PTHREAD_ERROR
          \/ exitCode # RET_CODE_OK /\ \A code \in raised : exitCode >= code

LEMMA MutexOfOps ==
  /\ MutexOf("print") = "tostream"
  /\ MutexOf("termination_requested") = "SignalHandler"
  /\ MutexOf("set_return_code") = "return_code"
  /\ MutexOf("get_return_code") = "return_code"
BY Zenon DEF MutexOf

-----------------------------------------------------------------------------
(* Types *)

LEMMA CodesTyped ==
  /\ RET_CODE_OK \in Codes /\ RET_CODE_INVALID_ARGUMENTS \in Codes
  /\ RET_CODE_CONVERTING_SOME_FILES_FAILED \in Codes
  /\ RET_ABORTED_BY_SIGINT_OR_SIGTERM \in Codes /\ RET_CODE_DIR_ITER_FAILED \in Codes
  /\ RET_CODE_EXCEPTION_CAUGHT \in Codes /\ RET_CODE_PTHREAD_ERROR \in Codes
  /\ RET_CODE_LAME_ERROR \in Codes
BY DEF Codes, RET_CODE_OK, RET_CODE_INVALID_ARGUMENTS, RET_CODE_CONVERTING_SOME_FILES_FAILED,
   RET_ABORTED_BY_SIGINT_OR_SIGTERM, RET_CODE_DIR_ITER_FAILED, RET_CODE_EXCEPTION_CAUGHT,
   RET_CODE_PTHREAD_ERROR, RET_CODE_LAME_ERROR

\* Where a thread may be.
StatesOf(t) == IF t = Main THEN MainStates ELSE WorkerStates

\* A thread that goes somewhere, and one that also begins a call, keep the types.
LEMMA GoesTyped ==
  ASSUME Typed, NEW t \in Threads, NEW there \in StatesOf(t),
         pc' = [pc EXCEPT ![t] = there],
         UNCHANGED <<call, requested, handler, owner, signals, _termination_requested,
                     return_code, raised, late>>,
         entries' \in 0..MaxEntries, exitCode' \in Codes \cup {None}
  PROVE  Typed'
<1>1. /\ pc' \in [Threads -> MainStates \cup WorkerStates]
      /\ pc'[Main] \in MainStates
      /\ \A u \in Threads : u # Main => pc'[u] \in WorkerStates
  BY DEF Typed, StatesOf, Threads
<1> QED
  BY <1>1 DEF Typed

LEMMA CallsTyped ==
  ASSUME Typed, NEW t \in Threads, NEW op \in Ops, NEW code \in Codes \cup {None},
         NEW there \in StatesOf(t),
         op = "set_return_code" => code \in Codes,
         Calls(t, op, code, there),
         UNCHANGED <<requested, handler, owner, signals, codeVars, late>>,
         entries' \in 0..MaxEntries
  PROVE  Typed'
<1>1. /\ pc' \in [Threads -> MainStates \cup WorkerStates]
      /\ pc'[Main] \in MainStates
      /\ \A u \in Threads : u # Main => pc'[u] \in WorkerStates
  BY DEF Typed, Calls, StatesOf, Threads
<1>2. call' \in [Threads -> [op : Ops \cup {"none"}, code : Codes \cup {None}, locked : BOOLEAN]]
  BY DEF Typed, Calls
<1>3. \A u \in Threads : call'[u].op = "set_return_code" => call'[u].code \in Codes
  BY DEF Typed, Calls
<1> QED
  BY <1>1, <1>2, <1>3 DEF Typed, codeVars

\* So does the end of a call, with what it has done to the other variables.
LEMMA ReturnsTyped ==
  ASSUME Typed, NEW t \in Threads, NEW op \in Ops, Returns(t, op)
  PROVE  /\ call' \in [Threads -> [op : Ops \cup {"none"}, code : Codes \cup {None},
                                   locked : BOOLEAN]]
         /\ \A u \in Threads : call'[u].op = "set_return_code" => call'[u].code \in Codes
         /\ owner' \in [Mutexes -> Threads \cup {None}]
<1>1. NoCall \in [op : Ops \cup {"none"}, code : Codes \cup {None}, locked : BOOLEAN]
  BY DEF NoCall
<1>2. NoCall.op # "set_return_code"
  BY DEF NoCall
<1> QED
  BY <1>1, <1>2 DEF Typed, Returns

\* A code that is raised is one of the known ones.
LEMMA RaiseTyped ==
  ASSUME Typed, NEW code \in Codes, Raise(code)
  PROVE  return_code' \in Codes /\ raised' \subseteq Codes
BY DEF Typed, Raise, SeverestCode

LEMMA CallStepsTyped ==
  ASSUME Typed, NEW t \in Threads,
         \/ Lock(t) \/ PrintLine(t) \/ termination_requested(t) \/ set_return_code(t)
  PROVE  Typed'
<1>1. CASE Lock(t)
  <2>1. /\ call' \in [Threads -> [op : Ops \cup {"none"}, code : Codes \cup {None},
                                  locked : BOOLEAN]]
        /\ \A u \in Threads : call'[u].op = call[u].op /\ call'[u].code = call[u].code
    BY <1>1 DEF Lock, Typed
  <2>2. owner' \in [Mutexes -> Threads \cup {None}]
    BY <1>1 DEF Lock, Typed
  <2> QED
    BY <1>1, <2>1, <2>2 DEF Lock, Typed, codeVars
<1>2. CASE PrintLine(t)
  <2>1. "print" \in Ops /\ Returns(t, "print")
    BY <1>2 DEF PrintLine, Ops
  <2> QED
    BY <1>2, <2>1, ReturnsTyped DEF PrintLine, Typed, codeVars
<1>3. CASE termination_requested(t)
  <2>1. "termination_requested" \in Ops /\ Returns(t, "termination_requested")
    BY <1>3 DEF termination_requested, Ops
  <2> QED
    BY <1>3, <2>1, ReturnsTyped DEF termination_requested, Typed, codeVars
<1>4. CASE set_return_code(t)
  <2>1. "set_return_code" \in Ops /\ Returns(t, "set_return_code")
    BY <1>4 DEF set_return_code, Ops
  <2>2. call[t].code \in Codes
    BY <2>1 DEF Typed, Returns
  <2>3. return_code' \in Codes /\ raised' \subseteq Codes
    BY <1>4, <2>2, RaiseTyped DEF set_return_code
  <2> QED
    BY <1>4, <2>1, <2>3, ReturnsTyped DEF set_return_code, Typed
<1> QED
  BY <1>1, <1>2, <1>3, <1>4

LEMMA MainStepsTyped == ASSUME Typed, MainSteps PROVE Typed'
<1> Main \in Threads
  BY DEF Threads
<1> MainStates = StatesOf(Main)
  BY DEF StatesOf
<1> Ops = {"print", "termination_requested", "set_return_code", "get_return_code"}
  BY DEF Ops
<1> USE CodesTyped
<1>1. entries \in 0..MaxEntries /\ (entries > 0 => entries - 1 \in 0..MaxEntries)
  BY ProgramAssumption DEF Typed
<1>2. exitCode \in Codes \cup {None}
  BY DEF Typed
<1>3. CASE ParseArguments
  BY <1>1, <1>3, CallsTyped DEF ParseArguments, MainStates
<1>4. CASE ArgumentsParsed
  BY <1>1, <1>2, <1>4, CallsTyped, GoesTyped DEF ArgumentsParsed, MainGoes, MainStates, codeVars
<1>5. CASE CheckDirectory
  BY <1>1, <1>2, <1>5, GoesTyped DEF CheckDirectory, MainGoes, MainStates
<1>6. CASE BeginConversion
  BY <1>1, <1>6, CallsTyped DEF BeginConversion, MainStates
<1>7. CASE NextEntry
  BY <1>1, <1>7, CallsTyped DEF NextEntry, MainStates
<1>8. CASE EndOfIteration \/ SkipEntry \/ ClosePool
  BY <1>1, <1>2, <1>8, GoesTyped DEF EndOfIteration, SkipEntry, ClosePool, MainGoes, MainStates,
     codeVars
<1>9. CASE RejectFile
  BY <1>1, <1>9, CallsTyped DEF RejectFile, MainStates
<1>10. CASE IterationFails
  BY <1>1, <1>10, CallsTyped DEF IterationFails, MainStates
<1>11. CASE Return
  BY <1>1, <1>11, CallsTyped DEF Return, MainStates, MainAt
<1>12. CASE LeaveProcess
  BY <1>1, <1>2, <1>12, GoesTyped DEF LeaveProcess, MainGoes, MainStates
<1>13. CASE get_return_code
  <2>1. Returns(Main, "get_return_code") /\ "leaving" \in MainStates
    BY <1>13 DEF get_return_code, MainStates
  <2>2. /\ pc' \in [Threads -> MainStates \cup WorkerStates]
        /\ pc'[Main] \in MainStates
        /\ \A u \in Threads : u # Main => pc'[u] \in WorkerStates
    BY <1>13, <2>1 DEF get_return_code, Typed
  <2> QED
    BY <1>13, <2>1, <2>2, ReturnsTyped DEF get_return_code, Typed
<1>14. ASSUME NEW w \in Workers, SubmitFile(w) PROVE Typed'
  <2>1. w \in Threads /\ w # Main /\ "iterate" \in MainStates /\ "encode" \in WorkerStates
    BY ProgramAssumption DEF Threads, MainStates, WorkerStates
  <2>2. pc' = [pc EXCEPT ![Main] = "iterate", ![w] = "encode"]
    BY <1>14 DEF SubmitFile
  <2>3. /\ pc' \in [Threads -> MainStates \cup WorkerStates]
        /\ pc'[Main] \in MainStates
        /\ \A u \in Threads : u # Main => pc'[u] \in WorkerStates
    BY <2>1, <2>2 DEF Typed
  <2>4. late' \in Nat
    BY <1>14 DEF SubmitFile, Typed
  <2> QED
    BY <1>14, <2>3, <2>4 DEF SubmitFile, Typed, codeVars
<1> QED
  BY <1>3, <1>4, <1>5, <1>6, <1>7, <1>8, <1>9, <1>10, <1>11, <1>12, <1>13, <1>14 DEF MainSteps

LEMMA WorkerStepsTyped == ASSUME Typed, NEW w \in Workers, WorkerSteps(w) PROVE Typed'
<1> w \in Threads /\ WorkerStates = StatesOf(w)
  BY ProgramAssumption DEF Threads, StatesOf
<1> Ops = {"print", "termination_requested", "set_return_code", "get_return_code"}
  BY DEF Ops
<1> USE CodesTyped
<1>1. entries \in 0..MaxEntries /\ exitCode \in Codes \cup {None}
  BY DEF Typed
<1>2. CASE EncodeFile(w)
  BY <1>1, <1>2, CallsTyped DEF EncodeFile, WorkerStates
<1>3. CASE EndFile(w)
  BY <1>1, <1>3, CallsTyped, GoesTyped DEF EndFile, WorkerStates, codeVars
<1>4. CASE LameFails(w) \/ JobFails(w)
  BY <1>1, <1>4, CallsTyped DEF LameFails, JobFails, WorkerStates
<1> QED
  BY <1>2, <1>3, <1>4 DEF WorkerSteps

LEMMA HandlerStepsTyped ==
  ASSUME Typed, NEW t \in Threads, signal_handler(t) \/ Signal(t) \/ PthreadFails(t)
  PROVE  Typed'
<1> Mutexes = {"tostream", "SignalHandler", "return_code"}
  BY DEF Mutexes
<1> HandlerStates = {"none", "print", "printing", "request", "code", "coding"}
  BY DEF HandlerStates
<1> USE CodesTyped
<1>1. CASE PrintSignal(t)
  <2>1. handler' \in [Threads -> HandlerStates] /\ owner' \in [Mutexes -> Threads \cup {None}]
    BY <1>1 DEF PrintSignal, HandlerGoes, HandlerLocks, Typed
  <2> QED
    BY <1>1, <2>1 DEF PrintSignal, Typed, codeVars
<1>2. CASE RequestTermination(t)
  <2>1. handler' \in [Threads -> HandlerStates] /\ owner' \in [Mutexes -> Threads \cup {None}]
    BY <1>2 DEF RequestTermination, HandlerGoes, HandlerLocks, Typed
  <2> QED
    BY <1>2, <2>1 DEF RequestTermination, Typed
<1>3. CASE HandlerSetsCode(t)
  <2>1. handler' \in [Threads -> HandlerStates] /\ owner' \in [Mutexes -> Threads \cup {None}]
    BY <1>3 DEF HandlerSetsCode, HandlerGoes, HandlerLocks, Typed
  <2>2. return_code' \in Codes /\ raised' \subseteq Codes
    BY <1>3, RaiseTyped DEF HandlerSetsCode, Typed
  <2> QED
    BY <1>3, <2>1, <2>2 DEF HandlerSetsCode, Typed
<1>4. CASE Signal(t)
  <2>1. handler' \in [Threads -> HandlerStates]
    BY <1>4 DEF Signal, Typed
  <2>2. signals' \in 0..MaxSignals
    BY <1>4, ProgramAssumption DEF Signal, Typed
  <2> QED
    BY <1>4, <2>1, <2>2 DEF Signal, Typed, codeVars
<1>5. CASE PthreadFails(t)
  <2>1. Main \in Threads /\ "exited" \in StatesOf(Main) /\ entries \in 0..MaxEntries
    BY DEF Threads, StatesOf, MainStates, Typed
  <2> QED
    BY <1>5, <2>1, GoesTyped DEF PthreadFails
<1> QED
  BY <1>1, <1>2, <1>3, <1>4, <1>5 DEF signal_handler

LEMMA TypedNext == ASSUME Typed, [Next]_vars PROVE Typed'
<1>1. CASE UNCHANGED vars
  BY <1>1 DEF vars, codeVars, Typed
<1>2. ASSUME NEW t \in Threads, ThreadSteps(t) PROVE Typed'
  BY <1>2, CallStepsTyped, MainStepsTyped, WorkerStepsTyped, HandlerStepsTyped DEF ThreadSteps
<1>3. ASSUME NEW t \in Threads, Signal(t) \/ PthreadFails(t) PROVE Typed'
  BY <1>3, HandlerStepsTyped
<1> QED
  BY <1>1, <1>2, <1>3 DEF Next, Threads

-----------------------------------------------------------------------------
(* The mutex of SignalHandler *)

\* Steps that take and release no mutex: main() and the jobs go on and begin calls.
TakesNoMutex ==
    /\ UNCHANGED <<requested, handler, owner, _termination_requested, return_code, raised>>
    /\ \A u \in Threads : call'[u] = call[u] \/ ~call'[u].locked

LEMMA BeginsUnlocked ==
  ASSUME Typed, NEW t \in Threads, NEW op, NEW code, NEW there, Calls(t, op, code, there)
  PROVE  \A u \in Threads : call'[u] = call[u] \/ ~call'[u].locked
BY DEF Typed, Calls

LEMMA MainTakesNoMutex == ASSUME Typed, MainSteps, ~get_return_code PROVE TakesNoMutex
<1> Main \in Threads
  BY DEF Threads
<1>1. CASE ParseArguments \/ BeginConversion \/ NextEntry \/ RejectFile \/ IterationFails \/ Return
  BY <1>1, BeginsUnlocked DEF ParseArguments, BeginConversion, NextEntry, RejectFile,
     IterationFails, Return, TakesNoMutex, codeVars
<1>2. CASE ArgumentsParsed
  BY <1>2, BeginsUnlocked DEF ArgumentsParsed, MainGoes, TakesNoMutex, codeVars
<1>3. CASE CheckDirectory \/ EndOfIteration \/ SkipEntry \/ ClosePool \/ LeaveProcess
  BY <1>3 DEF CheckDirectory, EndOfIteration, SkipEntry, ClosePool, LeaveProcess, MainGoes,
     TakesNoMutex, codeVars
<1>4. CASE \E w \in Workers : SubmitFile(w)
  BY <1>4 DEF SubmitFile, TakesNoMutex, codeVars
<1> QED
  BY <1>1, <1>2, <1>3, <1>4 DEF MainSteps

LEMMA WorkersTakeNoMutex ==
  ASSUME Typed, NEW w \in Workers, WorkerSteps(w) PROVE TakesNoMutex
<1> w \in Threads
  BY DEF Threads
<1>1. CASE EncodeFile(w) \/ LameFails(w) \/ JobFails(w)
  BY <1>1, BeginsUnlocked DEF EncodeFile, LameFails, JobFails, TakesNoMutex, codeVars
<1>2. CASE EndFile(w)
  BY <1>2, BeginsUnlocked DEF EndFile, TakesNoMutex, codeVars
<1> QED
  BY <1>1, <1>2 DEF WorkerSteps

\* What the end of a call that is none of termination_requested() leaves alone.
LEMMA ReturnsOther ==
  ASSUME Typed, MutexInv, NEW t \in Threads,
         NEW op \in {"print", "set_return_code", "get_return_code"},
         Returns(t, op), UNCHANGED handler
  PROVE  MutexInv'
<1>1. MutexOf(op) # "SignalHandler"
  BY MutexOfOps
<1>2. owner'["SignalHandler"] = owner["SignalHandler"]
  BY <1>1 DEF Returns, Typed, Mutexes
<1>3. \A u \in Threads : call'[u] = call[u] \/ call'[u] = NoCall
  BY DEF Returns, Typed
<1> QED
  BY <1>2, <1>3 DEF MutexInv, Reports, InCall, NoCall

LEMMA MutexInvNext == ASSUME Typed, MutexInv, [Next]_vars PROVE MutexInv'
<1>1. CASE TakesNoMutex
  BY <1>1 DEF TakesNoMutex, MutexInv, Reports, InCall
<1>2. ASSUME NEW t \in Threads, Lock(t) PROVE MutexInv'
  <2>1. /\ handler' = handler
        /\ owner[MutexOf(call[t].op)] = None
        /\ owner' = [owner EXCEPT ![MutexOf(call[t].op)] = t]
        /\ call' = [call EXCEPT ![t].locked = TRUE]
        /\ handler[t] = "none"
    BY <1>2 DEF Lock
  <2>2. \A u \in Threads : u # t => call'[u] = call[u]
    BY <2>1 DEF Typed
  <2>3. call'[t].op = call[t].op
    BY <2>1 DEF Typed
  <2>4. CASE MutexOf(call[t].op) = "SignalHandler"
    <3>1. \A u \in Threads : ~Reports(u) /\ ~InCall(u, "termination_requested")
      BY <2>1, <2>4, ProgramAssumption DEF MutexInv, Threads
    <3>2. owner'["SignalHandler"] = t
      BY <2>1, <2>4 DEF Typed, Mutexes
    <3> QED
      BY <2>1, <2>2, <3>1, <3>2 DEF MutexInv, Reports, InCall
  <2>5. CASE MutexOf(call[t].op) # "SignalHandler"
    <3>1. owner'["SignalHandler"] = owner["SignalHandler"]
      BY <2>1, <2>5 DEF Typed, Mutexes
    <3>2. ~InCall(t, "termination_requested")'
      BY <2>3, <2>5, MutexOfOps DEF InCall
    <3> QED
      BY <2>1, <2>2, <3>1, <3>2 DEF MutexInv, Reports, InCall
  <2> QED
    BY <2>4, <2>5
<1>3. ASSUME NEW t \in Threads, PrintLine(t) PROVE MutexInv'
  BY <1>3, ReturnsOther DEF PrintLine
<1>4. ASSUME NEW t \in Threads, set_return_code(t) PROVE MutexInv'
  BY <1>4, ReturnsOther DEF set_return_code
<1>5. CASE get_return_code
  BY <1>5, ReturnsOther DEF get_return_code, Threads
<1>6. ASSUME NEW t \in Threads, termination_requested(t) PROVE MutexInv'
  <2>1. /\ InCall(t, "termination_requested") /\ handler' = handler
        /\ call' = [call EXCEPT ![t] = NoCall]
    BY <1>6 DEF termination_requested, Returns, InCall
  <2>2. \A u \in Threads : ~Reports(u) /\ (u # t => ~InCall(u, "termination_requested"))
    BY <2>1 DEF MutexInv
  <2>3. \A u \in Threads : ~InCall(u, "termination_requested")'
    BY <2>1, <2>2 DEF Typed, InCall, NoCall
  <2> QED
    BY <2>1, <2>2, <2>3 DEF MutexInv, Reports
<1>7. ASSUME NEW t \in Threads, PrintSignal(t) PROVE MutexInv'
  <2>1. call' = call /\ owner'["SignalHandler"] = owner["SignalHandler"]
    BY <1>7 DEF PrintSignal, HandlerLocks, Typed, Mutexes
  <2>2. \A u \in Threads : Reports(u)' <=> Reports(u)
    BY <1>7 DEF PrintSignal, HandlerGoes, Typed, Reports
  <2> QED
    BY <2>1, <2>2 DEF MutexInv, InCall
<1>8. ASSUME NEW t \in Threads, RequestTermination(t) PROVE MutexInv'
  <2>1. /\ call' = call /\ owner["SignalHandler"] = None /\ owner'["SignalHandler"] = t
        /\ handler' = [handler EXCEPT ![t] = "code"]
    BY <1>8 DEF RequestTermination, HandlerGoes, HandlerLocks, Typed, Mutexes
  <2>2. \A u \in Threads : ~Reports(u) /\ ~InCall(u, "termination_requested")
    BY <2>1, ProgramAssumption DEF MutexInv, Threads
  <2>3. \A u \in Threads : u # t => ~Reports(u)'
    BY <2>1, <2>2 DEF Reports, Typed
  <2> QED
    BY <2>1, <2>2, <2>3 DEF MutexInv, InCall
<1>9. ASSUME NEW t \in Threads, HandlerSetsCode(t) PROVE MutexInv'
  <2>1. CASE handler[t] = "code"
    <3>1. /\ call' = call /\ handler' = [handler EXCEPT ![t] = "coding"]
          /\ owner'["SignalHandler"] = owner["SignalHandler"]
      BY <1>9, <2>1 DEF HandlerSetsCode, HandlerGoes, HandlerLocks, Typed, Mutexes
    <3>2. \A u \in Threads : Reports(u)' <=> Reports(u)
      BY <2>1, <3>1 DEF Reports, Typed
    <3> QED
      BY <3>1, <3>2 DEF MutexInv, InCall
  <2>2. CASE handler[t] = "coding"
    <3>1. call' = call /\ handler' = [handler EXCEPT ![t] = "none"]
      BY <1>9, <2>2 DEF HandlerSetsCode, HandlerGoes
    <3>2. Reports(t) /\ owner["SignalHandler"] = t
      BY <2>2 DEF MutexInv, Reports
    <3>3. \A u \in Threads : ~InCall(u, "termination_requested") /\ (u # t => ~Reports(u))
      BY <3>2 DEF MutexInv
    <3>4. \A u \in Threads : ~Reports(u)'
      BY <3>1, <3>3 DEF Reports, Typed
    <3> QED
      BY <3>1, <3>3, <3>4 DEF MutexInv, InCall
  <2> QED
    BY <1>9, <2>1, <2>2 DEF HandlerSetsCode, HandlerGoes
<1>10. ASSUME NEW t \in Threads, Signal(t) PROVE MutexInv'
  <2>1. call' = call /\ owner' = owner
    BY <1>10 DEF Signal
  <2>2. \A u \in Threads : Reports(u)' <=> Reports(u)
    BY <1>10 DEF Signal, Typed, Reports
  <2> QED
    BY <2>1, <2>2 DEF MutexInv, InCall
<1>11. ASSUME NEW t \in Threads, PthreadFails(t) PROVE MutexInv'
  BY <1>11 DEF PthreadFails, MutexInv, Reports, InCall
<1>12. CASE UNCHANGED vars
  BY <1>12 DEF vars, MutexInv, Reports, InCall
<1> QED
  BY <1>1, <1>2, <1>3, <1>4, <1>5, <1>6, <1>7, <1>8, <1>9, <1>10, <1>11, <1>12,
     MainTakesNoMutex, WorkersTakeNoMutex DEF Next, ThreadSteps, signal_handler, Threads

-----------------------------------------------------------------------------
(* Requests and return codes *)

\* The return code is only ever raised.
LEMMA CodeGrows ==
  ASSUME Typed, NEW code \in Codes, Raise(code)
  PROVE  return_code' >= return_code /\ return_code' >= code
BY DEF Typed, Raise, SeverestCode, Codes

LEMMA RequestInvNext == ASSUME Typed, MutexInv, RequestInv, [Next]_vars PROVE RequestInv'
<1> USE DEF RET_ABORTED_BY_SIGINT_OR_SIGTERM
<1>1. CASE UNCHANGED <<requested, _termination_requested, return_code>>
           /\ \A u \in Threads : Reports(u) => Reports(u)'
  BY <1>1 DEF RequestInv, SeenIsReported
<1>2. CASE TakesNoMutex \/ get_return_code \/ UNCHANGED vars
  BY <1>1, <1>2 DEF TakesNoMutex, get_return_code, vars, codeVars, Reports
<1>3. ASSUME NEW t \in Threads, Lock(t) \/ PrintLine(t) \/ PthreadFails(t) PROVE RequestInv'
  BY <1>1, <1>3 DEF Lock, PrintLine, PthreadFails, codeVars, Reports
<1>4. ASSUME NEW t \in Threads, PrintSignal(t) \/ Signal(t) PROVE RequestInv'
  <2>1. \A u \in Threads : Reports(u) => Reports(u)'
    BY <1>4 DEF PrintSignal, Signal, HandlerGoes, Typed, Reports
  <2> QED
    BY <1>1, <1>4, <2>1 DEF PrintSignal, Signal, codeVars
<1>5. ASSUME NEW t \in Threads, set_return_code(t) PROVE RequestInv'
  <2>1. call[t].code \in Codes
    BY <1>5 DEF set_return_code, Returns, Typed
  <2>2. return_code' >= return_code
    BY <1>5, <2>1, CodeGrows DEF set_return_code
  <2>3. return_code \in Int /\ return_code' \in Int
    BY <1>5, <2>1, RaiseTyped DEF set_return_code, Typed, Codes
  <2> QED
    BY <1>5, <2>2, <2>3 DEF set_return_code, RequestInv, SeenIsReported, Reports
<1>6. ASSUME NEW t \in Threads, termination_requested(t) PROVE RequestInv'
  <2>1. /\ InCall(t, "termination_requested")
        /\ requested' = [requested EXCEPT ![t] = _termination_requested]
        /\ UNCHANGED <<handler, _termination_requested, return_code>>
    BY <1>6 DEF termination_requested, Returns, InCall, codeVars
  <2>2. \A u \in Threads : ~Reports(u)
    BY <2>1 DEF MutexInv
  <2>3. _termination_requested => return_code >= 3
    BY <2>2 DEF RequestInv
  <2>4. \A u \in Threads : requested'[u] => return_code >= 3
    BY <2>1, <2>3 DEF RequestInv, SeenIsReported, Typed
  <2> QED
    BY <2>1, <2>3, <2>4 DEF RequestInv, SeenIsReported
<1>7. ASSUME NEW t \in Threads, RequestTermination(t) PROVE RequestInv'
  <2>1. Reports(t)'
    BY <1>7 DEF RequestTermination, HandlerGoes, Typed, Reports
  <2> QED
    BY <1>7, <2>1 DEF RequestTermination, RequestInv, SeenIsReported
<1>8. ASSUME NEW t \in Threads, HandlerSetsCode(t) PROVE RequestInv'
  <2>1. CASE handler[t] = "code"
    <3>1. UNCHANGED <<requested, _termination_requested, return_code>>
      BY <1>8, <2>1 DEF HandlerSetsCode, HandlerGoes
    <3>2. \A u \in Threads : Reports(u) => Reports(u)'
      BY <1>8, <2>1 DEF HandlerSetsCode, HandlerGoes, Typed, Reports
    <3> QED
      BY <1>1, <3>1, <3>2
  <2>2. CASE handler[t] = "coding"
    <3>1. Raise(3) /\ requested' = requested
      BY <1>8, <2>2 DEF HandlerSetsCode, HandlerGoes
    <3>2. return_code' >= 3
      BY <3>1, CodeGrows DEF Codes
    <3> QED
      BY <3>1, <3>2 DEF RequestInv, SeenIsReported
  <2> QED
    BY <1>8, <2>1, <2>2 DEF HandlerSetsCode, HandlerGoes
<1> QED
  BY <1>2, <1>3, <1>4, <1>5, <1>6, <1>7, <1>8, MainTakesNoMutex, WorkersTakeNoMutex
  DEF Next, ThreadSteps, signal_handler, Threads

-----------------------------------------------------------------------------
(* Late files *)

\* The cases of a step, which are those of the lemmas below.
LEMMA NextCases ==
  ASSUME [Next]_vars
  PROVE  \/ UNCHANGED vars
         \/ \E t \in Threads :
                \/ Lock(t) \/ PrintLine(t) \/ termination_requested(t) \/ set_return_code(t)
                \/ signal_handler(t) \/ Signal(t) \/ PthreadFails(t)
         \/ MainSteps /\ pc[Main] # "exited"
         \/ \E w \in Workers : WorkerSteps(w)
BY DEF Next, ThreadSteps, Threads, Exited

LEMMA LateInvNext == ASSUME Typed, LateInv, [Next]_vars PROVE LateInv'
<1> Main \in Threads
  BY DEF Threads
<1>1. CASE UNCHANGED <<requested, late>> /\ (_termination_requested => _termination_requested')
           /\ (pc'[Main] = "asked" => pc[Main] = "asked")
           /\ call'[Main].op = call[Main].op
  BY <1>1 DEF LateInv
<1>2. CASE UNCHANGED vars
  BY <1>2 DEF vars, codeVars, LateInv
<1>3. ASSUME NEW t \in Threads, Lock(t) PROVE LateInv'
  <2>1. call'[Main].op = call[Main].op
    BY <1>3 DEF Lock, Typed
  <2> QED
    BY <1>1, <1>3, <2>1 DEF Lock, codeVars
<1>4. ASSUME NEW t \in Threads, PrintLine(t) \/ termination_requested(t) \/ set_return_code(t)
      PROVE  LateInv'
  <2>1. /\ pc' = pc /\ late' = late /\ _termination_requested' = _termination_requested
        /\ call' = [call EXCEPT ![t] = NoCall]
    BY <1>4 DEF PrintLine, termination_requested, set_return_code, Returns, codeVars
  <2>2. CASE t # Main
    <3>1. call'[Main] = call[Main] /\ requested'[Main] = requested[Main]
      BY <1>4, <2>1, <2>2 DEF PrintLine, termination_requested, set_return_code, Typed
    <3> QED
      BY <2>1, <3>1 DEF LateInv
  <2>3. CASE t = Main /\ termination_requested(Main)
    <3>1. requested'[Main] = _termination_requested /\ call'[Main].op = "none"
      BY <2>1, <2>3 DEF termination_requested, Typed, NoCall
    <3> QED
      BY <2>1, <3>1 DEF LateInv
  <2>4. CASE t = Main /\ (PrintLine(Main) \/ set_return_code(Main))
    <3>1. call[Main].op \in {"print", "set_return_code"} /\ call'[Main].op = "none"
      BY <2>1, <2>4 DEF PrintLine, set_return_code, Returns, Typed, NoCall
    <3>2. pc[Main] # "asked"
      BY <3>1 DEF LateInv
    <3> QED
      BY <2>1, <3>2 DEF LateInv
  <2> QED
    BY <1>4, <2>2, <2>3, <2>4
<1>5. CASE get_return_code
  <2>1. pc'[Main] = "leaving"
    BY <1>5 DEF get_return_code, Typed
  <2> QED
    BY <1>5, <2>1 DEF get_return_code, LateInv
<1>6. CASE NextEntry
  <2>1. call'[Main].op = "termination_requested"
    BY <1>6 DEF NextEntry, Calls, Typed
  <2> QED
    BY <1>6, <2>1 DEF NextEntry, codeVars, LateInv
<1>7. CASE ParseArguments \/ ArgumentsParsed \/ CheckDirectory \/ BeginConversion
           \/ EndOfIteration \/ SkipEntry \/ RejectFile \/ IterationFails \/ ClosePool \/ Return
           \/ LeaveProcess
  <2>1. pc'[Main] # "asked"
    BY <1>7 DEF ParseArguments, ArgumentsParsed, CheckDirectory, BeginConversion, EndOfIteration,
       SkipEntry, RejectFile, IterationFails, ClosePool, Return, LeaveProcess, MainAt, MainGoes,
       Calls, Typed
  <2>2. late' = late /\ _termination_requested' = _termination_requested
    BY <1>7 DEF ParseArguments, ArgumentsParsed, CheckDirectory, BeginConversion, EndOfIteration,
       SkipEntry, RejectFile, IterationFails, ClosePool, Return, LeaveProcess, codeVars
  <2> QED
    BY <2>1, <2>2 DEF LateInv
<1>8. ASSUME NEW w \in Workers, SubmitFile(w) PROVE LateInv'
  <2>1. /\ pc[Main] = "asked" /\ call[Main].op = "none" /\ ~requested[Main]
        /\ late' = IF _termination_requested THEN late + 1 ELSE late
        /\ _termination_requested' = _termination_requested
    BY <1>8 DEF SubmitFile, MainAt, Runs, NoCall, codeVars
  <2>2. late = 0
    BY <2>1 DEF LateInv
  <2>3. pc'[Main] = "iterate"
    BY <1>8, ProgramAssumption DEF SubmitFile, Typed
  <2> QED
    BY <2>1, <2>2, <2>3 DEF LateInv
<1>9. ASSUME NEW w \in Workers, WorkerSteps(w) PROVE LateInv'
  <2>1. w # Main /\ pc'[Main] = pc[Main] /\ call'[Main] = call[Main]
    BY <1>9, ProgramAssumption DEF WorkerSteps, EncodeFile, EndFile, LameFails, JobFails, Calls,
       Typed
  <2> QED
    BY <1>1, <1>9, <2>1 DEF WorkerSteps, EncodeFile, EndFile, LameFails, JobFails, codeVars
<1>10. ASSUME NEW t \in Threads, signal_handler(t) \/ Signal(t) PROVE LateInv'
  BY <1>1, <1>10 DEF signal_handler, PrintSignal, RequestTermination, HandlerSetsCode, Signal,
     codeVars
<1>11. ASSUME NEW t \in Threads, PthreadFails(t) PROVE LateInv'
  <2>1. pc'[Main] = "exited"
    BY <1>11 DEF PthreadFails, Typed
  <2> QED
    BY <1>11, <2>1 DEF PthreadFails, LateInv
<1> QED
  BY <1>2, <1>3, <1>4, <1>5, <1>6, <1>7, <1>8, <1>9, <1>10, <1>11, NextCases
  DEF MainSteps

-----------------------------------------------------------------------------
(* The exit code *)

\* The codes that can be set before the conversion begins.
EarlyCodes == {RET_CODE_OK, RET_CODE_INVALID_ARGUMENTS, RET_ABORTED_BY_SIGINT_OR_SIGTERM}

LEMMA EarlyInvNext == ASSUME Typed, EarlyInv, [Next]_vars PROVE EarlyInv'
<1> Main \in Threads
  BY DEF Threads
<1>1. CASE pc'[Main] \notin EarlyStates
  BY <1>1 DEF EarlyInv
<1>2. CASE UNCHANGED <<pc, call, raised>>
  BY <1>2 DEF EarlyInv
<1>3. CASE UNCHANGED vars
  BY <1>2, <1>3 DEF vars, codeVars
<1>4. ASSUME NEW t \in Threads, Lock(t) PROVE EarlyInv'
  <2> SUFFICES ASSUME pc[Main] \in EarlyStates PROVE EarlyInv'
    BY <1>4 DEF Lock, EarlyInv
  <2>1. t = Main
    BY <1>4 DEF Lock, EarlyInv
  <2>2. /\ call'[Main].op = call[Main].op /\ call'[Main].code = call[Main].code
        /\ \A u \in Threads \ {Main} : call'[u] = call[u]
    BY <1>4, <2>1 DEF Lock, Typed
  <2> QED
    BY <1>4, <2>2 DEF Lock, EarlyInv, codeVars
<1>5. ASSUME NEW t \in Threads, PrintLine(t) \/ termination_requested(t) \/ set_return_code(t)
      PROVE  EarlyInv'
  <2> SUFFICES ASSUME pc[Main] \in EarlyStates PROVE EarlyInv'
    BY <1>5 DEF PrintLine, termination_requested, set_return_code, EarlyInv
  <2>1. call[t] # NoCall /\ call' = [call EXCEPT ![t] = NoCall] /\ pc' = pc
    BY <1>5 DEF PrintLine, termination_requested, set_return_code, Returns, NoCall
  <2>2. t = Main
    BY <2>1 DEF EarlyInv
  <2>3. call'[Main].op = "none" /\ \A u \in Threads \ {Main} : call'[u] = call[u]
    BY <2>1, <2>2 DEF Typed, NoCall
  <2>4. raised' \subseteq EarlyCodes
    <3>1. CASE set_return_code(Main)
      BY <3>1 DEF set_return_code, Returns, Raise, EarlyInv, EarlyCodes
    <3>2. CASE PrintLine(Main) \/ termination_requested(Main)
      BY <3>2 DEF PrintLine, termination_requested, codeVars, EarlyInv, EarlyCodes
    <3> QED
      BY <1>5, <2>2, <3>1, <3>2
  <2> QED
    BY <2>1, <2>3, <2>4 DEF EarlyInv, EarlyCodes
<1>6. CASE get_return_code
  <2>1. pc'[Main] = "leaving"
    BY <1>6 DEF get_return_code, Typed
  <2> QED
    BY <1>1, <2>1 DEF EarlyStates
<1>7. CASE CheckDirectory \/ BeginConversion \/ NextEntry \/ EndOfIteration \/ SkipEntry
           \/ RejectFile \/ IterationFails \/ ClosePool \/ LeaveProcess
  <2>1. pc'[Main] \notin EarlyStates
    BY <1>7 DEF CheckDirectory, BeginConversion, NextEntry, EndOfIteration, SkipEntry, RejectFile,
       IterationFails, ClosePool, LeaveProcess, MainAt, MainGoes, Calls, Typed, EarlyStates
  <2> QED
    BY <1>1, <2>1
<1>8. ASSUME NEW w \in Workers, SubmitFile(w) PROVE EarlyInv'
  <2>1. pc'[Main] = "iterate"
    BY <1>8, ProgramAssumption DEF SubmitFile, Typed
  <2> QED
    BY <1>1, <2>1 DEF EarlyStates
<1>9. CASE ParseArguments \/ ArgumentsParsed \/ Return
  <2>1. /\ raised' = raised
        /\ \A u \in Threads \ {Main} : pc'[u] = pc[u] /\ call'[u] = call[u]
    BY <1>9 DEF ParseArguments, ArgumentsParsed, Return, MainGoes, Calls, Typed, codeVars
  <2>2. /\ pc'[Main] \in EarlyStates => pc[Main] \in EarlyStates
        /\ call'[Main].op = "set_return_code" =>
              call'[Main].code \in {RET_CODE_OK, RET_CODE_INVALID_ARGUMENTS}
    BY <1>9 DEF ParseArguments, ArgumentsParsed, Return, MainAt, Runs, MainGoes, Calls, Typed,
       EarlyStates, NoCall
  <2> QED
    BY <2>1, <2>2 DEF EarlyInv
<1>10. ASSUME NEW w \in Workers, WorkerSteps(w) PROVE EarlyInv'
  <2>1. w \in Threads /\ w # Main /\ pc[w] # "idle" /\ pc'[Main] = pc[Main]
    BY <1>10, ProgramAssumption DEF WorkerSteps, EncodeFile, EndFile, LameFails, JobFails,
       WorkerAt, Calls, Typed, Threads
  <2> QED
    BY <2>1 DEF EarlyInv
<1>11. ASSUME NEW t \in Threads, signal_handler(t) \/ Signal(t) PROVE EarlyInv'
  <2>1. CASE HandlerSetsCode(t)
    BY <2>1 DEF HandlerSetsCode, Raise, EarlyInv
  <2>2. CASE PrintSignal(t) \/ RequestTermination(t) \/ Signal(t)
    BY <1>2, <2>2 DEF PrintSignal, RequestTermination, Signal, codeVars
  <2> QED
    BY <1>11, <2>1, <2>2 DEF signal_handler
<1>12. ASSUME NEW t \in Threads, PthreadFails(t) PROVE EarlyInv'
  <2>1. pc'[Main] = "exited"
    BY <1>12 DEF PthreadFails, Typed
  <2> QED
    BY <1>1, <2>1 DEF EarlyStates
<1> QED
  BY <1>3, <1>4, <1>5, <1>6, <1>7, <1>8, <1>9, <1>10, <1>11, <1>12, NextCases
  DEF MainSteps

\* Raising the return code keeps what CodeInv says of codes.
LEMMA RaiseKeeps ==
  ASSUME Typed, CodeInv, NEW code \in Codes, Raise(code), exitCode' = exitCode
  PROVE  /\ \A c \in raised' : return_code' >= c
         /\ return_code # RET_CODE_OK => return_code' # RET_CODE_OK
         /\ code # RET_CODE_OK => return_code' # RET_CODE_OK
         /\ exitCode' # None =>
               \/ exitCode' = RET_CODE_PTHREAD_ERROR
               \/ exitCode' # RET_CODE_OK /\ \A c \in raised' : exitCode' >= c
<1>1. return_code' >= return_code /\ return_code' >= code
  BY CodeGrows
<1>2. return_code \in 0..7 /\ return_code' \in 0..7 /\ code \in 0..7 /\ raised \subseteq 0..7
  BY RaiseTyped DEF Typed, Codes
<1>3. \A c \in raised : return_code' >= c
  BY <1>1, <1>2 DEF CodeInv
<1>4. raised' \subseteq raised \cup {code} /\ (exitCode # None => raised' = raised)
  BY DEF Raise
<1> QED
  BY <1>1, <1>2, <1>3, <1>4 DEF CodeInv, RET_CODE_OK

LEMMA CodeInvNext == ASSUME Typed, EarlyInv, CodeInv, [Next]_vars PROVE CodeInv'
<1> Main \in Threads
  BY DEF Threads
<1>1. CASE /\ UNCHANGED <<return_code, exitCode, raised>>
           /\ call'[Main].op = call[Main].op /\ call'[Main].code = call[Main].code
           /\ pc'[Main] = pc[Main]
  BY <1>1 DEF CodeInv
<1>2. CASE UNCHANGED vars
  BY <1>1, <1>2 DEF vars, codeVars
<1>3. ASSUME NEW t \in Threads, Lock(t) PROVE CodeInv'
  <2>1. call'[Main].op = call[Main].op /\ call'[Main].code = call[Main].code
    BY <1>3 DEF Lock, Typed
  <2> QED
    BY <1>1, <1>3, <2>1 DEF Lock, codeVars
<1>4. ASSUME NEW t \in Threads, PrintLine(t) \/ termination_requested(t) PROVE CodeInv'
  <2>1. /\ UNCHANGED <<pc, return_code, exitCode, raised>>
        /\ call[t].op \in {"print", "termination_requested"}
        /\ call' = [call EXCEPT ![t] = NoCall]
    BY <1>4 DEF PrintLine, termination_requested, Returns, codeVars
  <2>2. CASE t # Main
    BY <1>1, <2>1, <2>2 DEF Typed
  <2>3. CASE t = Main
    BY <2>1, <2>3 DEF CodeInv, Typed
  <2> QED
    BY <2>2, <2>3
<1>5. ASSUME NEW t \in Threads, set_return_code(t) PROVE CodeInv'
  <2>1. /\ Raise(call[t].code) /\ call[t].op = "set_return_code" /\ call[t].code \in Codes
        /\ UNCHANGED <<pc, exitCode>> /\ call' = [call EXCEPT ![t] = NoCall]
    BY <1>5 DEF set_return_code, Returns, Typed
  <2>2. \/ pc[Main] = "exited"
        \/ pc[Main] = "start" /\ call'[Main].op = "none"
        \/ /\ pc[Main] = "parsed" /\ call'[Main].op = "set_return_code"
           /\ call'[Main].code = RET_CODE_INVALID_ARGUMENTS
        \/ return_code' # RET_CODE_OK
    <3>1. CASE t # Main
      <4>1. call'[Main] = call[Main]
        BY <2>1, <3>1 DEF Typed
      <4> QED
        BY <2>1, <4>1, RaiseKeeps DEF CodeInv
    <3>2. CASE t = Main
      BY <2>1, <3>2, RaiseKeeps DEF CodeInv, RET_CODE_INVALID_ARGUMENTS, RET_CODE_OK
    <3> QED
      BY <3>1, <3>2
  <2>3. pc'[Main] \in {"leaving", "exited"} => exitCode' # None
    BY <2>1 DEF CodeInv
  <2> QED
    BY <2>1, <2>2, <2>3, RaiseKeeps DEF CodeInv
<1>6. CASE get_return_code /\ pc[Main] # "exited"
  <2>1. /\ call[Main].op = "get_return_code" /\ exitCode' = return_code
        /\ UNCHANGED <<return_code, raised>>
    BY <1>6 DEF get_return_code, Returns
  <2>2. return_code # RET_CODE_OK
    BY <1>6, <2>1 DEF CodeInv
  <2>3. exitCode' # None
    BY <2>1, ProgramAssumption DEF Typed
  <2> QED
    BY <2>1, <2>2, <2>3 DEF CodeInv
<1>7. CASE ParseArguments
  <2>1. /\ pc'[Main] = "parsed" /\ call'[Main].op = "set_return_code"
        /\ call'[Main].code = RET_CODE_INVALID_ARGUMENTS
    BY <1>7 DEF ParseArguments, Calls, Typed
  <2> QED
    BY <1>7, <2>1 DEF ParseArguments, codeVars, CodeInv
<1>8. CASE ArgumentsParsed \/ BeginConversion \/ NextEntry \/ EndOfIteration \/ SkipEntry
           \/ RejectFile \/ IterationFails \/ ClosePool \/ Return
  <2>1. UNCHANGED <<return_code, exitCode, raised>>
    BY <1>8 DEF ArgumentsParsed, BeginConversion, NextEntry, EndOfIteration, SkipEntry, RejectFile,
       IterationFails, ClosePool, Return, codeVars
  <2>2. PICK here \in MainStates \ {"start", "leaving", "exited"} : MainAt(here)
    BY <1>8 DEF ArgumentsParsed, BeginConversion, NextEntry, EndOfIteration, SkipEntry, RejectFile,
       IterationFails, ClosePool, Return, MainStates
  <2>3. pc'[Main] \notin {"leaving", "exited"}
    BY <1>8 DEF ArgumentsParsed, BeginConversion, NextEntry, EndOfIteration, SkipEntry, RejectFile,
       IterationFails, ClosePool, Return, MainAt, MainGoes, Calls, Typed
  <2>4. pc[Main] \notin {"start", "exited"} /\ call[Main].op = "none"
    BY <2>2 DEF MainAt, Runs, NoCall
  <2>5. return_code # RET_CODE_OK
    BY <2>4 DEF CodeInv
  <2> QED
    BY <2>1, <2>3, <2>5 DEF CodeInv
<1>9. CASE CheckDirectory
  <2>1. /\ pc[Main] = "check" /\ UNCHANGED <<return_code, raised>>
        /\ \/ exitCode' = exitCode /\ pc'[Main] = "convert"
           \/ exitCode' = RET_CODE_DIR_ITER_FAILED
    BY <1>9 DEF CheckDirectory, MainAt, MainGoes, Typed
  <2>2. return_code # RET_CODE_OK
    BY <2>1 DEF CodeInv
  <2>3. \A code \in raised : RET_CODE_DIR_ITER_FAILED >= code
    BY <2>1 DEF EarlyInv, EarlyStates, RET_CODE_OK, RET_CODE_INVALID_ARGUMENTS,
       RET_ABORTED_BY_SIGINT_OR_SIGTERM, RET_CODE_DIR_ITER_FAILED
  <2>4. RET_CODE_DIR_ITER_FAILED # None /\ RET_CODE_DIR_ITER_FAILED # RET_CODE_OK
    BY CodesTyped, ProgramAssumption DEF RET_CODE_DIR_ITER_FAILED, RET_CODE_OK
  <2> QED
    BY <2>1, <2>2, <2>3, <2>4 DEF CodeInv
<1>10. ASSUME NEW w \in Workers, SubmitFile(w) PROVE CodeInv'
  <2>1. /\ pc[Main] = "asked" /\ pc'[Main] = "iterate"
        /\ UNCHANGED <<return_code, exitCode, raised>>
    BY <1>10, ProgramAssumption DEF SubmitFile, MainAt, Typed, codeVars
  <2> QED
    BY <2>1 DEF CodeInv
<1>11. CASE LeaveProcess
  <2>1. /\ pc[Main] = "leaving" /\ pc'[Main] = "exited" /\ UNCHANGED <<return_code, raised>>
        /\ exitCode' \in {RET_CODE_PTHREAD_ERROR, exitCode}
    BY <1>11 DEF LeaveProcess, MainAt, MainGoes, Typed
  <2>2. RET_CODE_PTHREAD_ERROR # None
    BY CodesTyped, ProgramAssumption
  <2> QED
    BY <2>1, <2>2 DEF CodeInv
<1>12. ASSUME NEW w \in Workers, WorkerSteps(w) PROVE CodeInv'
  <2>1. w # Main /\ pc'[Main] = pc[Main] /\ call'[Main] = call[Main]
    BY <1>12, ProgramAssumption DEF WorkerSteps, EncodeFile, EndFile, LameFails, JobFails, Calls,
       Typed
  <2> QED
    BY <1>1, <1>12, <2>1 DEF WorkerSteps, EncodeFile, EndFile, LameFails, JobFails, codeVars
<1>13. ASSUME NEW t \in Threads, signal_handler(t) \/ Signal(t) PROVE CodeInv'
  <2>1. CASE UNCHANGED <<pc, call, return_code, exitCode, raised>>
    BY <1>1, <2>1
  <2>2. CASE Raise(RET_ABORTED_BY_SIGINT_OR_SIGTERM) /\ UNCHANGED <<pc, call, exitCode>>
    BY <2>2, CodesTyped, RaiseKeeps DEF CodeInv
  <2> QED
    BY <1>13, <2>1, <2>2 DEF signal_handler, PrintSignal, RequestTermination, HandlerSetsCode,
       Signal, codeVars
<1>14. ASSUME NEW t \in Threads, PthreadFails(t) PROVE CodeInv'
  <2>1. /\ pc'[Main] = "exited" /\ exitCode' = RET_CODE_PTHREAD_ERROR
        /\ UNCHANGED <<return_code, raised>>
    BY <1>14 DEF PthreadFails, Typed
  <2>2. RET_CODE_PTHREAD_ERROR # None
    BY CodesTyped, ProgramAssumption
  <2> QED
    BY <2>1, <2>2 DEF CodeInv
<1> QED
  BY <1>2, <1>3, <1>4, <1>5, <1>6, <1>7, <1>8, <1>9, <1>10, <1>11, <1>12, <1>13, <1>14,
     NextCases DEF MainSteps

-----------------------------------------------------------------------------
(* The results *)

IInv == Typed /\ MutexInv /\ RequestInv /\ LateInv /\ EarlyInv /\ CodeInv

LEMMA InitInv == ASSUME Init PROVE IInv
<1> Main \in Threads
  BY DEF Threads
<1>1. NoCall \in [op : Ops \cup {"none"}, code : Codes \cup {None}, locked : BOOLEAN]
      /\ NoCall.op = "none" /\ ~NoCall.locked
  BY DEF NoCall
<1>2. \A t \in Threads : /\ pc[t] = IF t = Main THEN "start" ELSE "idle"
                         /\ call[t] = NoCall /\ ~requested[t] /\ handler[t] = "none"
  BY DEF Init
<1>3. Typed
  <2>1. /\ "start" \in MainStates /\ "idle" \in WorkerStates /\ "none" \in HandlerStates
        /\ entries \in 0..MaxEntries /\ signals \in 0..MaxSignals
    BY ProgramAssumption DEF Init, MainStates, WorkerStates, HandlerStates
  <2>2. pc \in [Threads -> MainStates \cup WorkerStates]
    BY <2>1 DEF Init
  <2> QED
    BY <1>1, <1>2, <2>1, <2>2, CodesTyped DEF Init, Typed
<1>4. MutexInv /\ RequestInv /\ LateInv
  BY <1>1, <1>2 DEF Init, MutexInv, RequestInv, LateInv, SeenIsReported, Reports, InCall
<1>5. EarlyInv /\ CodeInv
  BY <1>1, <1>2 DEF Init, EarlyInv, CodeInv
<1> QED
  BY <1>3, <1>4, <1>5 DEF IInv

LEMMA Invariant == Spec => []IInv
<1>1. IInv /\ [Next]_vars => IInv'
  BY TypedNext, MutexInvNext, RequestInvNext, LateInvNext, EarlyInvNext, CodeInvNext DEF IInv
<1> QED
  BY <1>1, InitInv, PTL DEF Spec

\* Whatever the threads, handlers and failing calls do, the state keeps its types.
THEOREM TypeCorrect == Spec => []TypeOK
<1>1. Typed => TypeOK
  BY DEF Typed, TypeOK
<1> QED
  BY <1>1, Invariant, PTL DEF IInv

\* On any platform, and for any number of threads: a thread that sees the request
\* of signal_handler.cpp:40 does so when the code of line 41 has been set.
THEOREM SeenRequestIsReported == Spec => []SeenIsReported
BY Invariant, PTL DEF IInv, RequestInv

\* However many files there are, one at most is begun after the request.
THEOREM AtMostOneLateFile == Spec => []OneLateFile
<1>1. LateInv => OneLateFile
  BY DEF LateInv, OneLateFile
<1> QED
  BY <1>1, Invariant, PTL DEF IInv

\* Whatever sets the return code, and in whatever order, the program returns the
\* severest code, but when a pthread call has failed, and never 0.
THEOREM SeverestCodeIsReturned == Spec => []ExitCodeIsSeverest
<1>1. CodeInv => ExitCodeIsSeverest
  BY DEF CodeInv, ExitCodeIsSeverest, Exited, RET_CODE_OK, RET_CODE_PTHREAD_ERROR
<1> QED
  BY <1>1, Invariant, PTL DEF IInv
=============================================================================
