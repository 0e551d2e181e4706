-------------------------- MODULE ConversionProofs --------------------------
(***************************************************************************)
(* Theorems about Conversion, for any directory, any number of workers,    *)
(* any lengths of the files, and whether the disk may fill or not.         *)
(***************************************************************************)
EXTENDS Conversion, SequenceTheorems, TLAPS

\* With -o, the first names tried for two inputs differ, and none of them is
\* itself an input: otherwise one conversion destroys what another one reads or
\* has written.
OutputsAreApart ==
    \A c \in Configurations : c.overwrite =>
        \A f, g \in c.inputs :
            /\ f # Names[g][1]
            /\ f # g => Names[f][1] # Names[g][1]

\* convert_file() is executed for current.
Busy == mainPc \in {"reading", "naming", "opening", "submitting"}

\* Each variable has its type, and those of the pool fit to the jobs.
TypeInv ==
    /\ TypeOK
    /\ slot \in [Slots -> [state : {"idle", "given", "executing"}, job : Nat]]
    /\ given \in Nat /\ given = Len(jobInput)
    /\ executed \subseteq 1..given
    /\ \A s \in Slots : slot[s].state # "idle" => slot[s].job \in 1..given
    /\ unvisited \subseteq config.inputs
    /\ Busy => current \in config.inputs
    /\ mainPc = "opening" => tries <= Len(Names[current])

\* A job that was given is with one worker or executed; an input has one job.
JobInv ==
    /\ \A s \in Slots : slot[s].state = "idle" => slot[s] = IdleSlot
    /\ \A s \in Slots : slot[s].state # "idle" => slot[s].job \notin executed
    /\ \A s, t \in Slots :
          s # t /\ slot[s].state # "idle" /\ slot[t].state # "idle" => slot[s].job # slot[t].job
    /\ \A j \in 1..given : j \in executed \/ \E s \in Slots : slot[s].state # "idle" /\ slot[s].job = j
    /\ \A s \in Slots : encPc[s] # "none" <=> slot[s].state = "executing"
    /\ \A i, j \in 1..given : jobInput[i] = jobInput[j] => i = j
    /\ \A j \in 1..given : jobInput[j] \notin unvisited /\ (Busy => jobInput[j] # current)
    /\ Busy => current \notin unvisited
    /\ mainPc = "returned" => \A s \in Slots : slot[s] = IdleSlot

\* The outputs of the inputs that have a job or get one were opened, and no
\* output of an input that the iteration has not come to.
OpenedInv ==
    /\ \A f \in Inputs : out[f] = None <=> mp3_path[f] = None
    /\ \A f \in Inputs :
          (mainPc = "submitting" /\ current = f) \/ (\E j \in 1..given : jobInput[j] = f)
            => out[f] # None
    /\ \A f \in Inputs : out[f] # None =>
          f \notin unvisited /\ (mainPc \in {"reading", "naming", "opening"} => current # f)
    /\ \A f \in Inputs : out[f] # None => f \in config.inputs
    /\ \A f \in converted : \E j \in executed : jobInput[j] = f

\* What TryName has found out holds until the output is opened.
NameInv ==
    /\ mainPc \in {"naming", "opening"} /\ config.overwrite => tries = 1
    /\ mainPc = "opening" /\ ~config.overwrite => dir[Names[current][tries]] = None

\* The files that nobody asked to be overwritten.
Protected ==
    {p \in config.inputs \cup config.existing :
        config.overwrite => \A f \in config.inputs : p # Names[f][1]}

KeptInv ==
    /\ \A p, q \in Paths : dir[p] = Original(q) => p = q
    /\ \A p \in Protected :
          /\ Kept(p)
          /\ \A f \in Inputs : out[f] # Original(p) /\ mp3_path[f] # p

\* An output stream has its own file, which is there until it is removed.
ExclusiveInv ==
    /\ \A f \in Inputs : out[f] # None =>
          \/ out[f] = Created(f)
          \/ config.overwrite /\ out[f] = Original(Names[f][1])
    /\ \A f \in Inputs : config.overwrite /\ out[f] # None => mp3_path[f] = Names[f][1]
    /\ \A f, p \in Paths : dir[p] = Created(f) =>
          f \in Inputs /\ out[f] = Created(f) /\ mp3_path[f] = p
    /\ \A f \in Inputs : Writing(f) \/ f \in converted => dir[mp3_path[f]] = out[f]

\* How many parts the job for f has sent.
Progress(f) == IF f \in converted THEN Passes[f] + 1 ELSE pass[f]

\* Where a job is says how many passes it has completed.
PassInv ==
    /\ \A f \in Inputs : pass[f] <= Passes[f]
    /\ \A f \in Inputs : out[f] = None => pass[f] = 0 /\ \A part \in lost : part[1] # f
    /\ \A s \in Slots : slot[s].state = "given" => pass[InputOf(s)] = 0
    /\ \A s \in Slots :
          /\ encPc[s] = "configure" => pass[InputOf(s)] = 0
          /\ encPc[s] = "encode" => pass[InputOf(s)] < Passes[InputOf(s)]
          /\ encPc[s] = "flush" => pass[InputOf(s)] = Passes[InputOf(s)]
    /\ mainPc = "submitting" => pass[current] = 0

\* What an output holds, and what is left of it.
DataInv ==
    /\ \A f \in Inputs : out[f] # None =>
          /\ Sent(f) = {f} \X (1..Progress(f))
          /\ \A part \in data[out[f]] : \A k \in 1..part[2] : <<f, k>> \in data[out[f]]
    /\ \A f \in Inputs : out[f] # None /\ ~Writing(f) /\ f \notin converted =>
          dir[mp3_path[f]] # out[f] \/ pass[f] = 0

\* As long as nothing was reported, nothing has failed.
ReportInv ==
    return_code < RET_CODE_CONVERTING_SOME_FILES_FAILED =>
        /\ ~_termination_requested
        /\ mainPc \in {"closing", "returned"} => unvisited = {}
        /\ \A s \in Slots : encPc[s] # "remove"
        /\ \A j \in executed : jobInput[j] \in converted

-----------------------------------------------------------------------------
(* Operators *)

\* The names that are tried are paths, and there is at least one.
LEMMA NamesArePaths ==
  ASSUME NEW f \in Inputs
  PROVE  /\ Len(Names[f]) \in Nat \ {0}
         /\ \A i \in 1..Len(Names[f]) : Names[f][i] \in Paths
<1> DEFINE first == mp3_path_base(f) \o <<".mp3">>
           more == [i \in DOMAIN Numbers |-> mp3_path_base(f) \o <<Numbers[i], ".mp3">>]
           T == {first} \cup {more[i] : i \in DOMAIN Numbers}
<1>1. Names[f] = <<first>> \o more
  BY DEF Names
<1>2. Len(Numbers) \in Nat /\ DOMAIN Numbers = 1..Len(Numbers)
  BY ConversionAssumption
<1> HIDE DEF first
<1>3. more \in Seq(T)
  <2>1. more \in [1..Len(Numbers) -> T]
    BY <1>2
  <2> QED
    BY <1>2, <2>1, SeqDef
<1>4. <<first>> \in Seq(T) /\ Len(<<first>>) = 1
  OBVIOUS
<1> HIDE DEF more, T
<1>5. Names[f] \in Seq(T) /\ Len(Names[f]) = 1 + Len(more)
  BY <1>1, <1>3, <1>4, ConcatProperties
<1>6. Len(Names[f]) \in Nat \ {0} /\ DOMAIN Names[f] = 1..Len(Names[f])
  BY <1>3, <1>5
<1> QED
  BY <1>6 DEF Paths

\* Files are told apart by the path of their input or the one they had.
LEMMA FilesDiffer ==
  ASSUME NEW p, NEW q
  PROVE  /\ Original(p) # Created(q)
         /\ Original(p) = Original(q) => p = q
         /\ Created(p) = Created(q) => p = q
BY DEF Original, Created

LEMMA FilesTyped ==
  /\ \A p \in Paths : Original(p) \in Files
  /\ Inputs \subseteq Paths
  /\ \A f \in Inputs : Created(f) \in Files /\ f # None
  /\ None \notin Files /\ None \notin Paths
  /\ \A c \in Configurations : c.inputs \subseteq Inputs /\ c.inputs \cup c.existing \subseteq Paths
BY ConversionAssumption DEF Original, Created, Files, Paths, Inputs

\* The cases of a step.
LEMMA NextCases ==
  ASSUME [Next]_vars
  PROVE  \/ UNCHANGED vars
         \/ \E f \in Inputs : NextEntry(f)
         \/ EndOfIteration \/ IterationFails \/ ClosePool
         \/ Reject \/ Accept \/ TryName \/ NoNameLeft \/ NamingFails
         \/ OpenOutput \/ OpenFails \/ ConvertFileThrows
         \/ \E s \in Slots : Submit(s) \/ convert_file_worker(s)
         \/ signal_handler
BY DEF Next, Main, MainGoesOn, MainFails, Returned

-----------------------------------------------------------------------------
(* Types *)

LEMMA TypeInvInit == ASSUME Init PROVE TypeInv
<1> USE FilesTyped DEF Init, PoolInit, IdleSlot
<1>1. config \in Configurations /\ mainPc \in MainStates /\ unvisited \subseteq Inputs
  BY DEF MainStates
<1>2. dir \in [Paths -> Files \cup {None}]
  OBVIOUS
<1>3. data \in [Files -> SUBSET Parts]
  <2>1. \A x \in Files : Untouched(x[1]) \subseteq Parts
    BY DEF Files, Untouched, Parts
  <2> QED
    BY <2>1
<1>4. jobInput \in Seq(Inputs) /\ Len(jobInput) = 0
  OBVIOUS
<1>5. encPc \in [Slots -> EncoderStates]
  BY DEF EncoderStates
<1>6. /\ mp3_path \in [Inputs -> Paths \cup {None}] /\ out \in [Inputs -> Files \cup {None}]
      /\ pass \in [Inputs -> Nat] /\ lost \subseteq Parts /\ converted \subseteq Inputs
      /\ current \in Inputs \cup {None} /\ tries \in Nat \ {0}
  OBVIOUS
<1>9. return_code \in Nat /\ _termination_requested \in BOOLEAN
  BY DEF RET_CODE_INVALID_ARGUMENTS
<1>7. TypeOK
  BY <1>1, <1>2, <1>3, <1>4, <1>5, <1>6, <1>9 DEF TypeOK
<1>8. ~Busy /\ mainPc # "opening"
  BY DEF Busy
<1> QED
  BY <1>4, <1>7, <1>8 DEF TypeInv

\* A return code remains one.
LEMMA ReturnCodeTyped ==
  ASSUME return_code \in Nat, NEW code \in Nat, set_return_code(code)
  PROVE  return_code' \in Nat /\ return_code' >= code /\ return_code' >= return_code
BY DEF set_return_code

\* What a worker that executes a job converts.
LEMMA InputTyped ==
  ASSUME TypeInv, NEW s \in Slots, slot[s].state # "idle"
  PROVE  slot[s].job \in 1..given /\ InputOf(s) \in Inputs /\ InputOf(s) = jobInput[slot[s].job]
BY DEF TypeInv, TypeOK, InputOf

\* The steps of a worker as the pool sees them: it begins with its job, goes on
\* with it, or ends it.
Goes(s) ==
    /\ slot[s].state = "executing" /\ encPc[s] # "none"
    /\ \E there \in EncoderStates \ {"none"} : encPc' = [encPc EXCEPT ![s] = there]
    /\ UNCHANGED <<mainVars, jobInput, poolVars>>
Ends(s) ==
    /\ slot[s].state = "executing" /\ encPc[s] # "none"
    /\ encPc' = [encPc EXCEPT ![s] = "none"]
    /\ End(s)
    /\ UNCHANGED <<mainVars, jobInput>>

LEMMA WorkerCases ==
  ASSUME NEW s \in Slots, convert_file_worker(s)
  PROVE  \/ StartJob(s) /\ UNCHANGED <<mainVars, jobInput>>
         \/ (ConfigLame(s) \/ ConvertChunk(s) \/ JobThrows(s) \/ CheckTermination(s)) /\ Goes(s)
         \/ (ConfigLameFails(s) \/ Flush(s) \/ RemoveMp3File(s)) /\ Ends(s)
<1>1. ConfigLame(s) => Goes(s)
  BY DEF ConfigLame, At, Goes, Continue, EncoderStates
<1>2. ConvertChunk(s) => Goes(s)
  BY DEF ConvertChunk, At, Goes, EncoderStates
<1>3. JobThrows(s) => Goes(s)
  BY DEF JobThrows, At, Goes, EncoderStates
<1>4. CheckTermination(s) => Goes(s)
  BY DEF CheckTermination, At, Goes, Continue, EncoderStates
<1>5. ConfigLameFails(s) \/ Flush(s) \/ RemoveMp3File(s) => Ends(s)
  BY DEF ConfigLameFails, Flush, RemoveMp3File, At, Ends
<1>6. StartJob(s) => UNCHANGED <<mainVars, jobInput>>
  BY DEF StartJob
<1> QED
  BY <1>1, <1>2, <1>3, <1>4, <1>5, <1>6 DEF convert_file_worker

\* The parts of TypeInv, by what changes together.
PoolTyped ==
    /\ slot \in [Slots -> [state : {"idle", "given", "executing"}, job : Nat]]
    /\ given \in Nat /\ given = Len(jobInput)
    /\ executed \subseteq 1..given
    /\ \A s \in Slots : slot[s].state # "idle" => slot[s].job \in 1..given
    /\ jobInput \in Seq(Inputs) /\ encPc \in [Slots -> EncoderStates]

MainTyped ==
    /\ config \in Configurations /\ mainPc \in MainStates
    /\ unvisited \subseteq config.inputs /\ tries \in Nat \ {0}
    /\ current \in Inputs \cup {None}
    /\ Busy => current \in config.inputs
    /\ mainPc = "opening" => tries <= Len(Names[current])

FileVarsTyped ==
    /\ dir \in [Paths -> Files \cup {None}]
    /\ data \in [Files -> SUBSET Parts] /\ lost \subseteq Parts
    /\ mp3_path \in [Inputs -> Paths \cup {None}] /\ out \in [Inputs -> Files \cup {None}]

CountsTyped == pass \in [Inputs -> Nat] /\ converted \subseteq Inputs

FlagsTyped == _termination_requested \in BOOLEAN /\ return_code \in Nat

LEMMA TypeInvParts ==
  /\ TypeInv <=> MainTyped /\ FileVarsTyped /\ PoolTyped /\ CountsTyped /\ FlagsTyped
  /\ TypeInv' <=> MainTyped' /\ FileVarsTyped' /\ PoolTyped' /\ CountsTyped' /\ FlagsTyped'
<1>1. MainTyped => unvisited \subseteq Inputs
  BY FilesTyped DEF MainTyped
<1>2. MainTyped' => unvisited' \subseteq Inputs
  BY FilesTyped DEF MainTyped
<1>3. TypeInv <=> MainTyped /\ FileVarsTyped /\ PoolTyped /\ CountsTyped /\ FlagsTyped
  BY <1>1, Zenon DEF TypeInv, TypeOK, MainTyped, FileVarsTyped, PoolTyped, CountsTyped, FlagsTyped
<1>4. TypeInv' <=> MainTyped' /\ FileVarsTyped' /\ PoolTyped' /\ CountsTyped' /\ FlagsTyped'
  BY <1>2, Zenon DEF TypeInv, TypeOK, MainTyped, FileVarsTyped, PoolTyped, CountsTyped, FlagsTyped
<1> QED
  BY <1>3, <1>4

LEMMA GoesKeepsPool ==
  ASSUME TypeInv, NEW s \in Slots, Goes(s)
  PROVE  PoolTyped'
BY DEF TypeInv, TypeOK, PoolTyped, Goes, poolVars

LEMMA EndsKeepsPool ==
  ASSUME TypeInv, NEW s \in Slots, Ends(s)
  PROVE  PoolTyped'
<1>1. slot[s].job \in 1..given
  BY DEF TypeInv, Ends
<1>2. encPc' \in [Slots -> EncoderStates]
  BY DEF TypeInv, TypeOK, Ends, EncoderStates
<1>3. /\ slot' = [slot EXCEPT ![s] = IdleSlot] /\ executed' = executed \cup {slot[s].job}
      /\ given' = given /\ jobInput' = jobInput
  BY DEF Ends, End
<1>4. slot' \in [Slots -> [state : {"idle", "given", "executing"}, job : Nat]]
  BY <1>3 DEF TypeInv, IdleSlot
<1>5. \A t \in Slots : slot'[t].state # "idle" => slot'[t].job \in 1..given
  BY <1>3 DEF TypeInv, IdleSlot
<1> QED
  BY <1>1, <1>2, <1>3, <1>4, <1>5 DEF TypeInv, TypeOK, PoolTyped

LEMMA StartKeepsPool ==
  ASSUME TypeInv, NEW s \in Slots, StartJob(s)
  PROVE  PoolTyped'
<1>1. encPc' \in [Slots -> EncoderStates]
  BY DEF TypeInv, TypeOK, StartJob, EncoderStates
<1>2. slot[s].state = "given" /\ slot[s].job \in 1..given
  BY DEF TypeInv, StartJob, Begin
<1>3. /\ slot' = [slot EXCEPT ![s] = Executing(slot[s].job)]
      /\ executed' = executed /\ given' = given /\ jobInput' = jobInput
  BY DEF StartJob, Begin
<1>4. slot' \in [Slots -> [state : {"idle", "given", "executing"}, job : Nat]]
  BY <1>2, <1>3 DEF TypeInv, Executing
<1>5. \A t \in Slots : slot'[t].state # "idle" => slot'[t].job \in 1..given
  BY <1>2, <1>3 DEF TypeInv, Executing
<1> QED
  BY <1>1, <1>2, <1>3, <1>4, <1>5 DEF TypeInv, TypeOK, PoolTyped

LEMMA SubmitKeepsPool ==
  ASSUME TypeInv, NEW s \in Slots, Submit(s)
  PROVE  /\ PoolTyped'
         /\ given' = given + 1
         /\ slot[s] = IdleSlot /\ slot' = [slot EXCEPT ![s] = Given(given')]
         /\ jobInput'[given'] = current
         /\ \A j \in 1..given : jobInput'[j] = jobInput[j]
<1>1. slot[s] = IdleSlot /\ slot' = [slot EXCEPT ![s] = Given(given')] /\ given' = given + 1
  BY DEF Submit, Give
<1>2. executed' = executed /\ encPc' = encPc
  BY DEF Submit, Give
<1>3. current \in Inputs
  BY FilesTyped DEF TypeInv, TypeOK, Busy, Submit
<1>4. /\ jobInput' \in Seq(Inputs) /\ Len(jobInput') = given'
      /\ jobInput'[given'] = current /\ \A j \in 1..given : jobInput'[j] = jobInput[j]
  BY <1>1, <1>3 DEF TypeInv, TypeOK, Submit
<1>5. slot' \in [Slots -> [state : {"idle", "given", "executing"}, job : Nat]]
  BY <1>1 DEF TypeInv, Given
<1>6. \A t \in Slots : slot'[t].state # "idle" => slot'[t].job \in 1..given'
  BY <1>1 DEF TypeInv, Given
<1>7. executed' \subseteq 1..given'
  BY <1>1, <1>2 DEF TypeInv
<1> QED
  BY <1>1, <1>2, <1>4, <1>5, <1>6, <1>7 DEF TypeInv, TypeOK, PoolTyped

LEMMA OpenKeepsTypes ==
  ASSUME TypeInv, OpenOutput
  PROVE  /\ current \in Inputs /\ Names[current][tries] \in Paths
         /\ dir' \in [Paths -> Files \cup {None}] /\ data' \in [Files -> SUBSET Parts]
         /\ mp3_path' \in [Inputs -> Paths \cup {None}] /\ out' \in [Inputs -> Files \cup {None}]
<1> DEFINE path == Names[current][tries]
           file == IF dir[path] = None THEN Created(current) ELSE dir[path]
<1>1. current \in Inputs
  BY FilesTyped DEF TypeInv, TypeOK, Busy, OpenOutput
<1>2. path \in Paths
  BY <1>1, NamesArePaths DEF TypeInv, TypeOK, OpenOutput
<1>3. file \in Files
  BY <1>1, <1>2, FilesTyped DEF TypeInv, TypeOK
<1>4. /\ dir' = [dir EXCEPT ![path] = file] /\ data' = [data EXCEPT ![file] = {}]
      /\ mp3_path' = [mp3_path EXCEPT ![current] = path] /\ out' = [out EXCEPT ![current] = file]
  BY DEF OpenOutput
<1> QED
  BY <1>1, <1>2, <1>3, <1>4 DEF TypeInv, TypeOK

\* The k-th part of the output of f is written or lost.
Sends(f, k) == Write(f, k) \/ Lose(f, k)

LEMMA WriteKeepsTypes ==
  ASSUME TypeInv, NEW f \in Inputs, NEW k \in Nat, Sends(f, k)
  PROVE  data' \in [Files -> SUBSET Parts] /\ lost' \subseteq Parts
<1>1. <<f, k>> \in Parts
  BY FilesTyped DEF Parts
<1>2. data \in [Files -> SUBSET Parts] /\ lost \subseteq Parts
  BY DEF TypeInv, TypeOK
<1>3. CASE data' = [data EXCEPT ![out[f]] = @ \cup {<<f, k>>}] /\ UNCHANGED lost
  BY <1>1, <1>2, <1>3
<1>4. CASE lost' = lost \cup {<<f, k>>} /\ UNCHANGED data
  BY <1>1, <1>2, <1>4
<1> QED
  BY <1>3, <1>4 DEF Sends, Write, Lose

LEMMA CodesTyped ==
  /\ RET_CODE_CONVERTING_SOME_FILES_FAILED \in Nat /\ RET_ABORTED_BY_SIGINT_OR_SIGTERM \in Nat
  /\ RET_CODE_DIR_ITER_FAILED \in Nat /\ RET_CODE_LAME_ERROR \in Nat
BY DEF RET_CODE_CONVERTING_SOME_FILES_FAILED, RET_ABORTED_BY_SIGINT_OR_SIGTERM,
   RET_CODE_DIR_ITER_FAILED, RET_CODE_LAME_ERROR

\* Groups of steps that change neither files nor jobs.
IsMainStep ==
    \/ \E f \in Inputs : NextEntry(f)
    \/ EndOfIteration \/ IterationFails
    \/ Reject \/ Accept \/ TryName \/ NoNameLeft \/ NamingFails \/ OpenFails

LEMMA MainStepUnchanged ==
  ASSUME IsMainStep
  PROVE  UNCHANGED <<config, fileVars, jobVars, _termination_requested, poolVars>>
<1>1. CASE \E f \in Inputs : NextEntry(f)
  BY <1>1 DEF NextEntry
<1>2. CASE EndOfIteration \/ IterationFails \/ Reject
  BY <1>2 DEF EndOfIteration, IterationFails, Reject
<1>3. CASE Accept \/ TryName \/ NoNameLeft \/ NamingFails \/ OpenFails
  BY <1>3 DEF Accept, TryName, NoNameLeft, NamingFails, OpenFails
<1> QED
  BY <1>1, <1>2, <1>3 DEF IsMainStep

LEMMA MainStepKeepsTypes ==
  ASSUME TypeInv, IsMainStep
  PROVE  MainTyped' /\ FlagsTyped'
<1> USE TypeInvParts
<1>1. CASE \E f \in Inputs : NextEntry(f)
  BY <1>1 DEF NextEntry, MainTyped, FlagsTyped, Busy, MainStates
<1>2. CASE EndOfIteration \/ Reject \/ NoNameLeft \/ NamingFails \/ OpenFails
  BY <1>2 DEF EndOfIteration, Reject, NoNameLeft, NamingFails, OpenFails, MainTyped, FlagsTyped,
     Busy, MainStates
<1>3. CASE IterationFails
  BY <1>3, ReturnCodeTyped, CodesTyped
  DEF IterationFails, MainTyped, FlagsTyped, Busy, MainStates
<1>4. CASE Accept
  BY <1>4 DEF Accept, MainTyped, FlagsTyped, Busy, MainStates
<1>5. CASE TryName
  BY <1>5 DEF TryName, MainTyped, FlagsTyped, Busy, MainStates
<1> QED
  BY <1>1, <1>2, <1>3, <1>4, <1>5 DEF IsMainStep

LEMMA WorkerKeepsTypes ==
  ASSUME TypeInv, NEW s \in Slots, convert_file_worker(s)
  PROVE  FileVarsTyped' /\ CountsTyped' /\ FlagsTyped'
<1> USE TypeInvParts
<1>1. CASE StartJob(s) \/ ConfigLame(s) \/ CheckTermination(s)
  BY <1>1 DEF StartJob, ConfigLame, CheckTermination, FileVarsTyped, CountsTyped, FlagsTyped, fileVars
<1>2. CASE ConfigLameFails(s) \/ JobThrows(s)
  <2>1. UNCHANGED <<fileVars, pass, converted, _termination_requested>>
    BY <1>2 DEF ConfigLameFails, JobThrows
  <2>2. return_code' \in Nat
    BY <1>2, ReturnCodeTyped, CodesTyped DEF ConfigLameFails, JobThrows, FlagsTyped
  <2> QED
    BY <2>1, <2>2 DEF FileVarsTyped, CountsTyped, FlagsTyped, fileVars
<1>3. CASE ConvertChunk(s)
  <2>1. InputOf(s) \in Inputs
    BY <1>3, InputTyped DEF ConvertChunk, At
  <2>2. NextPart(InputOf(s)) \in Nat
    BY <2>1, ConversionAssumption DEF NextPart, Silence, CountsTyped
  <2>3. FileVarsTyped'
    BY <1>3, <2>1, <2>2, WriteKeepsTypes DEF ConvertChunk, Sends, FileVarsTyped
  <2>4. CountsTyped' /\ FlagsTyped'
    BY <1>3, <2>1 DEF ConvertChunk, CountsTyped, FlagsTyped
  <2> QED
    BY <2>3, <2>4
<1>4. CASE Flush(s)
  <2>1. InputOf(s) \in Inputs
    BY <1>4, InputTyped DEF Flush, At
  <2>2. Passes[InputOf(s)] + 1 \in Nat
    BY <2>1, ConversionAssumption
  <2>3. FileVarsTyped'
    BY <1>4, <2>1, <2>2, WriteKeepsTypes DEF Flush, Sends, FileVarsTyped
  <2>4. CountsTyped' /\ FlagsTyped'
    BY <1>4, <2>1 DEF Flush, CountsTyped, FlagsTyped
  <2> QED
    BY <2>3, <2>4
<1>5. CASE RemoveMp3File(s)
  <2>1. UNCHANGED <<data, lost, mp3_path, out, pass, converted, _termination_requested, return_code>>
    BY <1>5 DEF RemoveMp3File
  <2>2. dir' \in [Paths -> Files \cup {None}]
    BY <1>5 DEF RemoveMp3File, FileVarsTyped
  <2> QED
    BY <2>1, <2>2 DEF FileVarsTyped, CountsTyped, FlagsTyped
<1> QED
  BY <1>1, <1>2, <1>3, <1>4, <1>5 DEF convert_file_worker

LEMMA TypeInvNext == ASSUME TypeInv, [Next]_vars PROVE TypeInv'
<1> USE TypeInvParts
<1>1. CASE UNCHANGED vars
  BY <1>1, Zenon DEF vars, mainVars, fileVars, jobVars, poolVars, TypeInv, TypeOK, Busy
<1>2. CASE IsMainStep
  BY <1>2, MainStepKeepsTypes, MainStepUnchanged
  DEF fileVars, jobVars, poolVars, FileVarsTyped, PoolTyped, CountsTyped
<1>3. CASE OpenOutput
  <2>1. /\ UNCHANGED <<config, unvisited, current, tries, lost, jobVars, poolVars>>
        /\ UNCHANGED <<_termination_requested, return_code>> /\ mainPc' = "submitting"
    BY <1>3 DEF OpenOutput
  <2>2. FileVarsTyped'
    BY <1>3, <2>1, OpenKeepsTypes DEF FileVarsTyped
  <2>3. MainTyped'
    BY <1>3, <2>1 DEF MainTyped, MainStates, Busy, OpenOutput
  <2> QED
    BY <2>1, <2>2, <2>3 DEF jobVars, poolVars, PoolTyped, CountsTyped, FlagsTyped
<1>4. CASE ClosePool \/ signal_handler
  <2>1. UNCHANGED <<config, unvisited, current, tries, fileVars, jobVars, slot, given, executed>>
    BY <1>4 DEF ClosePool, Close, signal_handler, mainVars, poolVars
  <2>2. MainTyped'
    BY <1>4, <2>1 DEF MainTyped, ClosePool, signal_handler, MainStates, Busy, mainVars
  <2>3. FlagsTyped'
    <3>1. CASE ClosePool
      BY <3>1 DEF ClosePool, FlagsTyped
    <3>2. CASE signal_handler
      BY <3>2, ReturnCodeTyped, CodesTyped DEF signal_handler, FlagsTyped
    <3> QED
      BY <1>4, <3>1, <3>2
  <2> QED
    BY <2>1, <2>2, <2>3 DEF fileVars, jobVars, FileVarsTyped, PoolTyped, CountsTyped
<1>5. ASSUME NEW s \in Slots, Submit(s) PROVE TypeInv'
  <2>1. /\ UNCHANGED <<config, unvisited, current, tries, fileVars, pass, converted>>
        /\ UNCHANGED <<_termination_requested, return_code>> /\ mainPc' = "iterating"
    BY <1>5 DEF Submit
  <2>2. MainTyped'
    BY <2>1 DEF MainTyped, MainStates, Busy
  <2> QED
    BY <1>5, <2>1, <2>2, SubmitKeepsPool DEF fileVars, FileVarsTyped, CountsTyped, FlagsTyped
<1>6. ASSUME NEW s \in Slots, convert_file_worker(s) PROVE TypeInv'
  <2>1. UNCHANGED mainVars /\ PoolTyped'
    BY <1>6, WorkerCases, StartKeepsPool, GoesKeepsPool, EndsKeepsPool DEF Goes, Ends
  <2>2. MainTyped'
    BY <2>1 DEF MainTyped, mainVars, Busy
  <2> QED
    BY <1>6, <2>1, <2>2, WorkerKeepsTypes
<1>7. CASE ConvertFileThrows
  <2>1. MainTyped' /\ FlagsTyped'
    BY <1>7 DEF ConvertFileThrows, MainTyped, FlagsTyped, MainStates, Busy
  <2> QED
    BY <1>7, <2>1 DEF ConvertFileThrows, fileVars, jobVars, poolVars, FileVarsTyped, PoolTyped, CountsTyped
<1> QED
  BY <1>1, <1>2, <1>3, <1>4, <1>5, <1>6, <1>7, NextCases DEF IsMainStep

-----------------------------------------------------------------------------
(* Jobs *)

LEMMA JobInvInit == ASSUME Init PROVE JobInv
BY DEF Init, PoolInit, IdleSlot, Busy, JobInv

LEMMA GoesKeepsJobs == ASSUME TypeInv, JobInv, NEW s \in Slots, Goes(s) PROVE JobInv'
<1>1. /\ slot' = slot /\ given' = given /\ executed' = executed /\ jobInput' = jobInput
      /\ mainPc' = mainPc /\ current' = current /\ unvisited' = unvisited
  BY DEF Goes, poolVars, mainVars
<1>2. \A t \in Slots : encPc'[t] # "none" <=> encPc[t] # "none"
  BY DEF Goes, TypeInv, TypeOK
<1> QED
  BY <1>1, <1>2 DEF JobInv, Busy

LEMMA EndsKeepsJobs == ASSUME TypeInv, JobInv, NEW s \in Slots, Ends(s) PROVE JobInv'
<1>1. /\ given' = given /\ executed' = executed \cup {slot[s].job} /\ jobInput' = jobInput
      /\ mainPc' = mainPc /\ current' = current /\ unvisited' = unvisited
      /\ slot[s].state = "executing"
  BY DEF Ends, End, mainVars
<1>2. /\ \A t \in Slots : slot'[t] = IF t = s THEN IdleSlot ELSE slot[t]
      /\ \A t \in Slots : encPc'[t] = IF t = s THEN "none" ELSE encPc[t]
  BY DEF Ends, End, TypeInv, TypeOK
<1>3. IdleSlot.state = "idle"
  BY DEF IdleSlot
<1>4. \A t \in Slots : slot'[t].state # "idle" => slot'[t].job \notin executed'
  BY <1>1, <1>2, <1>3 DEF JobInv
<1>5. \A j \in 1..given : j \in executed' \/ \E t \in Slots : slot'[t].state # "idle" /\ slot'[t].job = j
  <2> TAKE j \in 1..given
  <2>1. CASE j \in executed
    BY <1>1, <2>1
  <2>2. CASE j \notin executed
    <3>1. PICK t \in Slots : slot[t].state # "idle" /\ slot[t].job = j
      BY <2>2 DEF JobInv
    <3> QED
      BY <1>1, <1>2, <3>1
  <2> QED
    BY <2>1, <2>2
<1>6. \A t \in Slots : encPc'[t] # "none" <=> slot'[t].state = "executing"
  BY <1>2, <1>3 DEF JobInv
<1>7. \A t, u \in Slots :
          t # u /\ slot'[t].state # "idle" /\ slot'[u].state # "idle" => slot'[t].job # slot'[u].job
  BY <1>2, <1>3 DEF JobInv
<1>8. \A t \in Slots : slot'[t].state = "idle" => slot'[t] = IdleSlot
  BY <1>2 DEF JobInv
<1>9. mainPc # "returned"
  BY <1>1, <1>3 DEF JobInv
<1> QED
  BY <1>1, <1>4, <1>5, <1>6, <1>7, <1>8, <1>9 DEF JobInv, Busy

LEMMA StartKeepsJobs == ASSUME TypeInv, JobInv, NEW s \in Slots, StartJob(s) PROVE JobInv'
<1>1. /\ given' = given /\ executed' = executed /\ jobInput' = jobInput
      /\ mainPc' = mainPc /\ current' = current /\ unvisited' = unvisited
      /\ slot[s].state = "given"
  BY DEF StartJob, Begin, mainVars
<1>2. /\ \A t \in Slots : slot'[t] = IF t = s THEN Executing(slot[s].job) ELSE slot[t]
      /\ \A t \in Slots : encPc'[t] = IF t = s THEN "configure" ELSE encPc[t]
  BY DEF StartJob, Begin, TypeInv, TypeOK
<1>3. Executing(slot[s].job).state = "executing" /\ Executing(slot[s].job).job = slot[s].job
  BY DEF Executing
<1>4. \A t \in Slots : /\ slot'[t].job = slot[t].job
                       /\ slot'[t].state = "idle" <=> slot[t].state = "idle"
                       /\ slot'[t].state = "idle" => slot'[t] = slot[t]
  BY <1>1, <1>2, <1>3
<1>5. \A t \in Slots : encPc'[t] # "none" <=> slot'[t].state = "executing"
  BY <1>2, <1>3 DEF JobInv
<1>6. \A j \in 1..given : j \in executed' \/ \E t \in Slots : slot'[t].state # "idle" /\ slot'[t].job = j
  BY <1>1, <1>4 DEF JobInv
<1>7. mainPc # "returned"
  BY <1>1 DEF JobInv, IdleSlot
<1> QED
  BY <1>1, <1>4, <1>5, <1>6, <1>7 DEF JobInv, Busy

LEMMA SubmitKeepsJobs == ASSUME TypeInv, JobInv, NEW s \in Slots, Submit(s) PROVE JobInv'
<1>1. /\ executed' = executed /\ encPc' = encPc /\ current' = current /\ unvisited' = unvisited
      /\ mainPc = "submitting" /\ mainPc' = "iterating"
  BY DEF Submit, Give
<1>2. /\ given' = given + 1 /\ jobInput'[given'] = current
      /\ \A j \in 1..given : jobInput'[j] = jobInput[j]
      /\ slot[s].state = "idle"
      /\ \A t \in Slots : slot'[t] = IF t = s THEN Given(given') ELSE slot[t]
  BY SubmitKeepsPool DEF TypeInv, IdleSlot
<1>3. Given(given').state = "given" /\ Given(given').job = given'
  BY DEF Given
<1>4. given \in Nat /\ executed \subseteq 1..given
      /\ \A t \in Slots : slot[t].state # "idle" => slot[t].job \in 1..given
  BY DEF TypeInv
<1>5. given' \notin executed' /\ \A t \in Slots : slot[t].state # "idle" => slot[t].job # given'
  BY <1>1, <1>2, <1>4
<1>6. \A t \in Slots : slot'[t].state # "idle" => slot'[t].job \notin executed'
  BY <1>1, <1>2, <1>3, <1>5 DEF JobInv
<1>7. \A t, u \in Slots :
          t # u /\ slot'[t].state # "idle" /\ slot'[u].state # "idle" => slot'[t].job # slot'[u].job
  BY <1>2, <1>3, <1>5 DEF JobInv
<1>8. \A j \in 1..given' : j \in executed' \/ \E t \in Slots : slot'[t].state # "idle" /\ slot'[t].job = j
  <2> TAKE j \in 1..given'
  <2>1. CASE j = given'
    BY <1>2, <1>3, <2>1
  <2>2. CASE j \in 1..given /\ j \notin executed
    <3>1. PICK t \in Slots : slot[t].state # "idle" /\ slot[t].job = j
      BY <2>2 DEF JobInv
    <3> QED
      BY <1>2, <3>1
  <2> QED
    BY <1>1, <1>2, <1>4, <2>1, <2>2
<1>9. \A t \in Slots : encPc'[t] # "none" <=> slot'[t].state = "executing"
  BY <1>1, <1>2, <1>3 DEF JobInv
<1>10. \A t \in Slots : slot'[t].state = "idle" => slot'[t] = IdleSlot
  BY <1>2, <1>3 DEF JobInv
<1>11. Busy /\ ~Busy'
  BY <1>1 DEF Busy
<1>12. \A j \in 1..given' : jobInput'[j] \notin unvisited'
  BY <1>1, <1>2, <1>4, <1>11 DEF JobInv
<1>13. \A i, j \in 1..given' : jobInput'[i] = jobInput'[j] => i = j
  BY <1>2, <1>4, <1>11 DEF JobInv
<1> QED
  BY <1>1, <1>6, <1>7, <1>8, <1>9, <1>10, <1>11, <1>12, <1>13 DEF JobInv

LEMMA JobInvNext == ASSUME TypeInv, JobInv, [Next]_vars PROVE JobInv'
<1>1. CASE UNCHANGED vars
  BY <1>1 DEF vars, mainVars, jobVars, poolVars, JobInv, Busy
<1>2. CASE IsMainStep
  <2>1. UNCHANGED <<slot, given, executed, jobInput, encPc>>
    BY <1>2, MainStepUnchanged DEF poolVars, jobVars
  <2>2. CASE \E f \in Inputs : NextEntry(f)
    BY <2>1, <2>2 DEF NextEntry, JobInv, Busy
  <2>3. CASE \/ EndOfIteration \/ IterationFails \/ Reject \/ Accept \/ TryName
             \/ NoNameLeft \/ NamingFails \/ OpenFails
    BY <2>1, <2>3 DEF EndOfIteration, IterationFails, Reject, Accept, TryName, NoNameLeft,
       NamingFails, OpenFails, JobInv, Busy
  <2> QED
    BY <1>2, <2>2, <2>3 DEF IsMainStep
<1>3. CASE OpenOutput \/ signal_handler
  BY <1>3 DEF OpenOutput, signal_handler, mainVars, poolVars, jobVars, JobInv, Busy
<1>4. CASE ClosePool
  BY <1>4 DEF ClosePool, Close, jobVars, JobInv, Busy
<1>5. ASSUME NEW s \in Slots, Submit(s) PROVE JobInv'
  BY <1>5, SubmitKeepsJobs
<1>6. ASSUME NEW s \in Slots, convert_file_worker(s) PROVE JobInv'
  BY <1>6, WorkerCases, StartKeepsJobs, GoesKeepsJobs, EndsKeepsJobs
<1>7. CASE ConvertFileThrows
  BY <1>7 DEF ConvertFileThrows, poolVars, jobVars, JobInv, Busy
<1> QED
  BY <1>1, <1>2, <1>3, <1>4, <1>5, <1>6, <1>7, NextCases DEF IsMainStep

-----------------------------------------------------------------------------
(* Which outputs are opened *)

LEMMA InputOfEnded ==
  ASSUME TypeInv, JobInv, NEW s \in Slots, slot[s].state # "idle"
  PROVE  /\ InputOf(s) \in Inputs
         /\ Writing(InputOf(s)) /\ ~(Busy /\ current = InputOf(s))
         /\ \E j \in 1..given : jobInput[j] = InputOf(s)
<1>1. slot[s].job \in 1..given /\ InputOf(s) \in Inputs /\ InputOf(s) = jobInput[slot[s].job]
  BY InputTyped
<1>2. slot[s].job \notin executed
  BY DEF JobInv
<1>3. DOMAIN jobInput = 1..given
  BY DEF TypeInv, TypeOK
<1> QED
  BY <1>1, <1>2, <1>3 DEF JobInv, Writing

\* Two workers do not convert the same input.
LEMMA InputsOfWorkersDiffer ==
  ASSUME TypeInv, JobInv, NEW s \in Slots, NEW t \in Slots, s # t,
         slot[s].state # "idle", slot[t].state # "idle"
  PROVE  InputOf(s) # InputOf(t)
BY InputTyped DEF JobInv

\* When a worker ends its job, its output is no longer written to.
LEMMA EndsWriting ==
  ASSUME TypeInv, JobInv, NEW s \in Slots, Ends(s)
  PROVE  \A f \in Inputs : Writing(f)' <=> Writing(f) /\ f # InputOf(s)
<1> DEFINE k == slot[s].job
<1>1. /\ jobInput' = jobInput /\ mainPc' = mainPc /\ current' = current
      /\ executed' = executed \cup {k} /\ slot[s].state = "executing"
  BY DEF Ends, End, mainVars
<1>2. DOMAIN jobInput = 1..given /\ k \in 1..given /\ InputOf(s) = jobInput[k]
  BY <1>1, InputTyped DEF TypeInv, TypeOK
<1>3. ~(mainPc = "submitting" /\ current = InputOf(s))
  BY <1>1, InputOfEnded DEF Busy
<1>4. \A j \in DOMAIN jobInput : jobInput[j] = InputOf(s) <=> j = k
  BY <1>2 DEF JobInv
<1> HIDE DEF k
<1> QED
  BY <1>1, <1>2, <1>3, <1>4 DEF Writing

LEMMA SubmitWriting ==
  ASSUME TypeInv, NEW s \in Slots, Submit(s)
  PROVE  \A f \in Inputs : Writing(f)' <=> Writing(f)
<1>1. /\ given' = given + 1 /\ jobInput'[given'] = current
      /\ \A j \in 1..given : jobInput'[j] = jobInput[j]
  BY SubmitKeepsPool
<1>2. mainPc = "submitting" /\ mainPc' # "submitting" /\ executed' = executed
  BY DEF Submit, Give
<1>3. DOMAIN jobInput = 1..given /\ DOMAIN jobInput' = 1..given'
  BY SubmitKeepsPool DEF TypeInv, TypeOK, PoolTyped
<1>4. given \in Nat /\ given' \notin executed
  BY <1>1 DEF TypeInv
<1>5. \A j \in 1..given' : j = given' \/ j \in 1..given
  BY <1>1, <1>4
<1>6. given' \in 1..given' /\ 1..given \subseteq 1..given'
  BY <1>1, <1>4
<1> QED
  BY <1>1, <1>2, <1>3, <1>4, <1>5, <1>6 DEF Writing

LEMMA OpenWriting ==
  ASSUME OpenOutput
  PROVE  \A f \in Inputs : Writing(f)' <=> Writing(f) \/ f = current
BY DEF OpenOutput, Writing, jobVars, poolVars

\* An output that was opened for a job that is not enqueued is written to no more.
LEMMA ThrowsWriting ==
  ASSUME TypeInv, JobInv, ConvertFileThrows
  PROVE  /\ current \in Inputs /\ mainPc = "submitting"
         /\ \A f \in Inputs : Writing(f)' <=> Writing(f) /\ f # current
<1>1. /\ mainPc = "submitting" /\ mainPc' # "submitting"
      /\ jobInput' = jobInput /\ executed' = executed
  BY DEF ConvertFileThrows, jobVars, poolVars
<1>2. current \in Inputs /\ DOMAIN jobInput = 1..given
  BY <1>1, FilesTyped DEF Busy, TypeInv, TypeOK
<1>3. \A j \in DOMAIN jobInput : jobInput[j] # current
  BY <1>1, <1>2 DEF JobInv, Busy
<1> QED
  BY <1>1, <1>2, <1>3 DEF Writing

\* An output is written to from the moment it is opened to the end of its job, if
\* there is one.
LEMMA WritingCases ==
  ASSUME TypeInv, JobInv, [Next]_vars
  PROVE  \/ \A f \in Inputs : Writing(f)' <=> Writing(f)
         \/ OpenOutput \/ ConvertFileThrows
         \/ \E s \in Slots : Ends(s) /\ (ConfigLameFails(s) \/ Flush(s) \/ RemoveMp3File(s))
<1>1. CASE UNCHANGED vars
  BY <1>1 DEF vars, mainVars, jobVars, poolVars, Writing
<1>2. CASE IsMainStep
  <2>1. UNCHANGED <<executed, jobInput>> /\ mainPc # "submitting" /\ mainPc' # "submitting"
    <3>1. UNCHANGED <<executed, jobInput>>
      BY <1>2, MainStepUnchanged DEF poolVars, jobVars
    <3>2. mainPc # "submitting" /\ mainPc' # "submitting"
      BY <1>2 DEF IsMainStep, NextEntry, EndOfIteration, IterationFails, Reject, Accept, TryName,
         NoNameLeft, NamingFails, OpenFails
    <3> QED
      BY <3>1, <3>2
  <2> QED
    BY <2>1 DEF Writing
<1>3. CASE ClosePool \/ signal_handler
  BY <1>3 DEF ClosePool, Close, signal_handler, mainVars, jobVars, poolVars, Writing
<1>4. ASSUME NEW s \in Slots, StartJob(s) \/ Goes(s) PROVE \A f \in Inputs : Writing(f)' <=> Writing(f)
  BY <1>4 DEF StartJob, Begin, Goes, mainVars, poolVars, Writing
<1> QED
  BY <1>1, <1>2, <1>3, <1>4, NextCases, WorkerCases, SubmitWriting DEF IsMainStep

LEMMA WritingUnlessEnded ==
  ASSUME NEW s \in Slots, Goes(s) \/ ConvertChunk(s)
  PROVE  \A f \in Inputs : Writing(f)' <=> Writing(f)
BY DEF Goes, ConvertChunk, mainVars, poolVars, Writing

\* Which steps touch files.
LEMMA FileCases ==
  ASSUME [Next]_vars
  PROVE  /\ config' = config
         /\ \/ UNCHANGED fileVars
            \/ OpenOutput
            \/ \E s \in Slots : ConvertChunk(s) \/ Flush(s) \/ RemoveMp3File(s)
<1>1. CASE UNCHANGED vars
  BY <1>1 DEF vars, mainVars
<1>2. CASE IsMainStep
  BY <1>2, MainStepUnchanged
<1>3. CASE ClosePool \/ signal_handler \/ OpenOutput \/ ConvertFileThrows
  BY <1>3 DEF ClosePool, signal_handler, OpenOutput, ConvertFileThrows, mainVars
<1>4. ASSUME NEW s \in Slots, Submit(s) PROVE UNCHANGED <<config, fileVars>>
  BY <1>4 DEF Submit
<1>5. ASSUME NEW s \in Slots, convert_file_worker(s) PROVE config' = config
  BY <1>5, WorkerCases DEF Goes, Ends, mainVars
<1>6. ASSUME NEW s \in Slots, StartJob(s) \/ ConfigLame(s) \/ ConfigLameFails(s) \/ JobThrows(s)
                              \/ CheckTermination(s)
      PROVE  UNCHANGED fileVars
  BY <1>6 DEF StartJob, ConfigLame, ConfigLameFails, JobThrows, CheckTermination
<1> QED
  BY <1>1, <1>2, <1>3, <1>4, <1>5, <1>6, NextCases DEF IsMainStep, convert_file_worker

\* Only a job that flushes its output is reported.
LEMMA ConvertedCases ==
  ASSUME [Next]_vars
  PROVE  converted' = converted \/ \E s \in Slots : Flush(s)
<1>1. CASE UNCHANGED vars
  BY <1>1 DEF vars, jobVars
<1>2. CASE IsMainStep
  BY <1>2, MainStepUnchanged DEF jobVars
<1>3. CASE ClosePool \/ signal_handler \/ OpenOutput \/ ConvertFileThrows
  BY <1>3 DEF ClosePool, signal_handler, OpenOutput, ConvertFileThrows, jobVars
<1>4. ASSUME NEW s \in Slots, Submit(s) PROVE converted' = converted
  BY <1>4 DEF Submit
<1>5. ASSUME NEW s \in Slots, convert_file_worker(s) PROVE converted' = converted \/ Flush(s)
  BY <1>5 DEF convert_file_worker, StartJob, ConfigLame, ConfigLameFails, ConvertChunk, JobThrows,
     CheckTermination, RemoveMp3File
<1> QED
  BY <1>1, <1>2, <1>3, <1>4, <1>5, NextCases DEF IsMainStep

\* Passes are counted where the files are written.
LEMMA UnchangedCounts ==
  ASSUME [Next]_vars
  PROVE  \/ pass' = pass /\ converted' = converted
         \/ \E s \in Slots : ConvertChunk(s) \/ Flush(s)
<1>1. CASE UNCHANGED vars
  BY <1>1 DEF vars, jobVars
<1>2. CASE IsMainStep
  BY <1>2, MainStepUnchanged DEF jobVars
<1>3. CASE ClosePool \/ signal_handler \/ OpenOutput \/ ConvertFileThrows
  BY <1>3 DEF ClosePool, signal_handler, OpenOutput, ConvertFileThrows, jobVars
<1>4. ASSUME NEW s \in Slots, Submit(s) PROVE pass' = pass /\ converted' = converted
  BY <1>4 DEF Submit
<1>5. ASSUME NEW s \in Slots, StartJob(s) \/ ConfigLame(s) \/ ConfigLameFails(s) \/ JobThrows(s)
                              \/ CheckTermination(s) \/ RemoveMp3File(s)
      PROVE  pass' = pass /\ converted' = converted
  BY <1>5 DEF StartJob, ConfigLame, ConfigLameFails, JobThrows, CheckTermination, RemoveMp3File
<1> QED
  BY <1>1, <1>2, <1>3, <1>4, <1>5, NextCases DEF IsMainStep, convert_file_worker

LEMMA OpenedInvInit == ASSUME Init PROVE OpenedInv
BY DEF Init, PoolInit, OpenedInv

LEMMA OpenedInvNext == ASSUME TypeInv, JobInv, OpenedInv, [Next]_vars PROVE OpenedInv'
<1>1. CASE UNCHANGED vars
  BY <1>1 DEF vars, mainVars, fileVars, jobVars, poolVars, OpenedInv
<1>2. CASE IsMainStep \/ ClosePool \/ signal_handler
  <2>1. UNCHANGED <<config, out, mp3_path, given, executed, jobInput, converted>>
    BY <1>2, MainStepUnchanged
    DEF ClosePool, Close, signal_handler, mainVars, fileVars, jobVars, poolVars
  <2>2. CASE IsMainStep
    <3>1. /\ mainPc # "submitting" /\ mainPc' # "submitting"
          /\ unvisited' \subseteq unvisited
          /\ \/ current' \in unvisited /\ current' \notin unvisited'
             \/ mainPc' \notin {"reading", "naming", "opening"}
             \/ mainPc \in {"reading", "naming", "opening"} /\ current' = current
      BY <2>2 DEF IsMainStep, NextEntry, EndOfIteration, IterationFails, Reject, Accept, TryName,
         NoNameLeft, NamingFails, OpenFails
    <3> QED
      BY <2>1, <3>1 DEF OpenedInv
  <2>3. CASE ClosePool \/ signal_handler
    BY <2>1, <2>3 DEF ClosePool, signal_handler, mainVars, OpenedInv
  <2> QED
    BY <1>2, <2>2, <2>3
<1>3. CASE OpenOutput
  <2>1. /\ current \in config.inputs /\ current \in Inputs /\ mainPc = "opening"
        /\ UNCHANGED <<config, unvisited, current, given, executed, jobInput, converted>>
        /\ mainPc' = "submitting" /\ current \notin unvisited
    BY <1>3, OpenKeepsTypes DEF OpenOutput, TypeInv, JobInv, Busy, jobVars, poolVars
  <2>2. \E file \in Files, path \in Paths :
            out' = [out EXCEPT ![current] = file] /\ mp3_path' = [mp3_path EXCEPT ![current] = path]
    <3>1. out'[current] \in Files \cup {None} /\ Names[current][tries] \in Paths
      BY <1>3, <2>1, OpenKeepsTypes
    <3>2. out'[current] # None
      BY <1>3, <2>1, <3>1, FilesTyped DEF OpenOutput, TypeInv, TypeOK
    <3> QED
      BY <1>3, <2>1, <3>1, <3>2 DEF OpenOutput, TypeInv, TypeOK
  <2>3. PICK file \in Files, path \in Paths :
            out' = [out EXCEPT ![current] = file] /\ mp3_path' = [mp3_path EXCEPT ![current] = path]
    BY <2>2
  <2>4. \A f \in Inputs : /\ out'[f] = IF f = current THEN file ELSE out[f]
                          /\ mp3_path'[f] = IF f = current THEN path ELSE mp3_path[f]
    BY <2>3 DEF TypeInv, TypeOK
  <2>5. file # None /\ path # None
    BY FilesTyped
  <2> QED
    BY <2>1, <2>4, <2>5 DEF OpenedInv
<1>4. ASSUME NEW s \in Slots, Submit(s) PROVE OpenedInv'
  <2>1. /\ UNCHANGED <<config, unvisited, current, out, mp3_path, executed, converted>>
        /\ mainPc = "submitting" /\ mainPc' = "iterating"
    BY <1>4 DEF Submit, Give, fileVars
  <2>2. /\ given' = given + 1 /\ jobInput'[given'] = current
        /\ \A j \in 1..given : jobInput'[j] = jobInput[j]
    BY <1>4, SubmitKeepsPool
  <2>3. /\ given \in Nat /\ executed \subseteq 1..given /\ 1..given' = 1..given \cup {given'}
    BY <2>2 DEF TypeInv
  <2>4. \A f : (\E j \in 1..given' : jobInput'[j] = f) <=> f = current \/ \E j \in 1..given : jobInput[j] = f
    BY <2>2, <2>3
  <2>5. \A f \in converted : \E j \in executed : jobInput'[j] = f
    BY <2>2, <2>3 DEF OpenedInv
  <2> QED
    BY <2>1, <2>4, <2>5 DEF OpenedInv
<1>5. ASSUME NEW s \in Slots, convert_file_worker(s) PROVE OpenedInv'
  <2>1. UNCHANGED <<mainVars, jobInput, given>> /\ executed \subseteq executed'
    BY <1>5, WorkerCases DEF StartJob, Begin, Goes, Ends, End, poolVars
  <2>2. UNCHANGED <<out, mp3_path>>
    BY <1>5 DEF convert_file_worker, StartJob, ConfigLame, ConfigLameFails, ConvertChunk, JobThrows,
       CheckTermination, Flush, RemoveMp3File, fileVars
  <2>3. \A f \in converted' : \E j \in executed' : jobInput[j] = f
    <3>1. CASE converted' = converted
      BY <2>1, <3>1 DEF OpenedInv
    <3>2. CASE Flush(s)
      BY <2>1, <3>2, InputTyped DEF Flush, At, End, OpenedInv
    <3> QED
      BY <1>5, <3>1, <3>2 DEF convert_file_worker, StartJob, ConfigLame, ConfigLameFails,
         ConvertChunk, JobThrows, CheckTermination, RemoveMp3File
  <2> QED
    BY <2>1, <2>2, <2>3 DEF mainVars, OpenedInv
<1>6. CASE ConvertFileThrows
  BY <1>6 DEF ConvertFileThrows, fileVars, jobVars, poolVars, OpenedInv
<1> QED
  BY <1>1, <1>2, <1>3, <1>4, <1>5, <1>6, NextCases DEF IsMainStep

\* An output that is written to or reported was opened.
LEMMA WritingIsOpened ==
  ASSUME TypeInv, JobInv, OpenedInv, NEW f \in Inputs
  PROVE  /\ Writing(f) => out[f] # None
         /\ f \in converted => out[f] # None /\ ~Writing(f)
<1>1. DOMAIN jobInput = 1..given /\ executed \subseteq 1..given
  BY DEF TypeInv, TypeOK
<1>2. Writing(f) => out[f] # None
  BY <1>1 DEF Writing, OpenedInv
<1>3. ASSUME f \in converted PROVE out[f] # None /\ ~Writing(f)
  <2>1. PICK j \in executed : jobInput[j] = f
    BY <1>3 DEF OpenedInv
  <2>2. ~(mainPc = "submitting" /\ current = f)
    BY <1>1, <2>1 DEF JobInv, Busy
  <2> QED
    BY <1>1, <2>1, <2>2 DEF Writing, OpenedInv, JobInv
<1> QED
  BY <1>2, <1>3

-----------------------------------------------------------------------------
(* Files that nobody asked to be overwritten *)

LEMMA NameInvInit == ASSUME Init PROVE NameInv
BY DEF Init, NameInv

LEMMA NameInvNext == ASSUME TypeInv, NameInv, [Next]_vars PROVE NameInv'
<1>1. CASE UNCHANGED vars
  BY <1>1 DEF vars, mainVars, fileVars, NameInv
<1>2. CASE IsMainStep
  <2>1. config' = config /\ dir' = dir
    BY <1>2, MainStepUnchanged DEF fileVars
  <2>2. CASE Accept
    BY <2>1, <2>2 DEF Accept, NameInv
  <2>3. CASE TryName
    BY <2>1, <2>3 DEF TryName, NameInv
  <2>4. CASE mainPc' \notin {"naming", "opening"}
    BY <2>4 DEF NameInv
  <2> QED
    BY <1>2, <2>2, <2>3, <2>4
    DEF IsMainStep, NextEntry, EndOfIteration, IterationFails, Reject, NoNameLeft, NamingFails, OpenFails
<1>3. CASE ClosePool \/ OpenOutput \/ ConvertFileThrows
  BY <1>3 DEF ClosePool, OpenOutput, ConvertFileThrows, NameInv
<1>4. CASE signal_handler
  BY <1>4 DEF signal_handler, mainVars, fileVars, NameInv
<1>5. ASSUME NEW s \in Slots, Submit(s) PROVE NameInv'
  BY <1>5 DEF Submit, NameInv
<1>6. ASSUME NEW s \in Slots, convert_file_worker(s) PROVE NameInv'
  <2>1. UNCHANGED mainVars
    BY <1>6, WorkerCases DEF StartJob, Goes, Ends
  <2>2. \A p \in Paths : dir[p] = None => dir'[p] = None
    <3>1. CASE RemoveMp3File(s)
      BY <3>1 DEF RemoveMp3File, TypeInv, TypeOK
    <3>2. CASE dir' = dir
      BY <3>2
    <3> QED
      BY <1>6, <3>1, <3>2 DEF convert_file_worker, StartJob, ConfigLame, ConfigLameFails,
         ConvertChunk, JobThrows, CheckTermination, Flush, fileVars
  <2>3. mainPc = "opening" => Names[current][tries] \in Paths
    BY FilesTyped, NamesArePaths DEF TypeInv, TypeOK, Busy
  <2> QED
    BY <2>1, <2>2, <2>3 DEF mainVars, NameInv
<1> QED
  BY <1>1, <1>2, <1>3, <1>4, <1>5, <1>6, NextCases DEF IsMainStep

LEMMA ProtectedArePaths == ASSUME TypeInv PROVE Protected \subseteq Paths
BY FilesTyped DEF TypeInv, TypeOK, Protected

LEMMA KeptInvInit == ASSUME Init PROVE KeptInv
<1>1. TypeInv
  BY TypeInvInit
<1>2. \A p \in Paths : Original(p) \in Files /\ Original(p) # None
  BY FilesTyped
<1>3. \A p, q \in Paths : dir[p] = Original(q) => p = q
  BY <1>2, FilesDiffer DEF Init
<1>4. \A p \in Protected : p \in Paths /\ Kept(p)
  BY <1>1, <1>2, ProtectedArePaths DEF Init, Protected, Kept, Original
<1>5. \A p \in Protected : \A f \in Inputs : out[f] # Original(p) /\ mp3_path[f] # p
  BY <1>2, <1>4, FilesTyped DEF Init
<1> QED
  BY <1>3, <1>4, <1>5 DEF KeptInv

\* What a job writes goes to its output stream, if anywhere.
LEMMA WriteOnlyToOut ==
  ASSUME TypeInv, NEW s \in Slots, ConvertChunk(s) \/ Flush(s)
  PROVE  /\ InputOf(s) \in Inputs /\ UNCHANGED <<dir, mp3_path, out>>
         /\ \A x \in Files : x # out[InputOf(s)] => data'[x] = data[x]
<1>1. InputOf(s) \in Inputs
  BY InputTyped DEF ConvertChunk, Flush, At
<1>2. UNCHANGED <<dir, mp3_path, out>>
  BY DEF ConvertChunk, Flush
<1>3. \E k : Sends(InputOf(s), k)
  BY DEF ConvertChunk, Flush, Sends
<1> QED
  BY <1>1, <1>2, <1>3 DEF Sends, Write, Lose, TypeInv, TypeOK

LEMMA KeptInvNext == ASSUME TypeInv, NameInv, KeptInv, [Next]_vars PROVE KeptInv'
<1>1. Protected' = Protected /\ Protected \subseteq Paths
  BY FileCases, ProtectedArePaths DEF Protected
<1>2. CASE UNCHANGED fileVars
  BY <1>1, <1>2 DEF fileVars, KeptInv, Kept
<1>3. CASE OpenOutput
  <2> DEFINE path == Names[current][tries]
             file == IF dir[path] = None THEN Created(current) ELSE dir[path]
  <2>1. /\ current \in Inputs /\ path \in Paths /\ current \in config.inputs /\ mainPc = "opening"
        /\ dir' = [dir EXCEPT ![path] = file] /\ data' = [data EXCEPT ![file] = {}]
        /\ mp3_path' = [mp3_path EXCEPT ![current] = path] /\ out' = [out EXCEPT ![current] = file]
    BY <1>3, OpenKeepsTypes DEF OpenOutput, TypeInv, Busy
  <2>2. \A q \in Paths : file = Original(q) => path = q /\ dir[path] = Original(q)
    BY <2>1, FilesDiffer DEF KeptInv
  <2>3. \A p \in Protected : path # p
    <3> TAKE p \in Protected
    <3>1. CASE config.overwrite
      BY <2>1, <3>1 DEF NameInv, Protected
    <3>2. CASE ~config.overwrite
      <4>1. dir[path] = None
        BY <2>1, <3>2 DEF NameInv
      <4>2. dir[p] = Original(p) /\ Original(p) # None
        BY <1>1, FilesTyped DEF KeptInv, Kept
      <4> QED
        BY <4>1, <4>2
    <3> QED
      BY <3>1, <3>2
  <2>4. \A p \in Protected : p \in Paths /\ file # Original(p) /\ Original(p) \in Files
    BY <1>1, <2>2, <2>3, FilesTyped
  <2>5. /\ \A p \in Paths : dir'[p] = IF p = path THEN file ELSE dir[p]
        /\ \A x \in Files : x # file => data'[x] = data[x]
        /\ \A f \in Inputs : /\ out'[f] = IF f = current THEN file ELSE out[f]
                             /\ mp3_path'[f] = IF f = current THEN path ELSE mp3_path[f]
    BY <2>1 DEF TypeInv, TypeOK
  <2> HIDE DEF path, file
  <2>6. \A p, q \in Paths : dir'[p] = Original(q) => p = q
    BY <2>2, <2>5 DEF KeptInv
  <2>7. \A p \in Protected : Kept(p)'
    BY <2>3, <2>4, <2>5 DEF KeptInv, Kept
  <2>8. \A p \in Protected : \A f \in Inputs : out'[f] # Original(p) /\ mp3_path'[f] # p
    BY <2>3, <2>4, <2>5 DEF KeptInv
  <2> QED
    BY <1>1, <2>6, <2>7, <2>8 DEF KeptInv
<1>4. ASSUME NEW s \in Slots, ConvertChunk(s) \/ Flush(s) PROVE KeptInv'
  <2>1. /\ InputOf(s) \in Inputs /\ UNCHANGED <<dir, mp3_path, out>>
        /\ \A x \in Files : x # out[InputOf(s)] => data'[x] = data[x]
    BY <1>4, WriteOnlyToOut
  <2>2. \A p \in Protected : data'[Original(p)] = data[Original(p)]
    BY <1>1, <2>1, FilesTyped DEF KeptInv
  <2> QED
    BY <1>1, <2>1, <2>2 DEF KeptInv, Kept
<1>5. ASSUME NEW s \in Slots, RemoveMp3File(s) PROVE KeptInv'
  <2>1. InputOf(s) \in Inputs
    BY <1>5, InputTyped DEF RemoveMp3File, At
  <2>2. /\ UNCHANGED <<data, mp3_path, out>>
        /\ \A p \in Paths : dir'[p] = IF p = mp3_path[InputOf(s)] THEN None ELSE dir[p]
    BY <1>5 DEF RemoveMp3File, TypeInv, TypeOK
  <2>3. \A p \in Paths : Original(p) # None
    BY FilesTyped
  <2>4. \A p \in Protected : Kept(p)'
    BY <1>1, <2>1, <2>2 DEF KeptInv, Kept
  <2> QED
    BY <1>1, <2>2, <2>3, <2>4 DEF KeptInv
<1> QED
  BY <1>2, <1>3, <1>4, <1>5, FileCases

-----------------------------------------------------------------------------
(* Outputs of their own *)

LEMMA ExclusiveInvInit == ASSUME Init PROVE ExclusiveInv
<1>1. \A f \in Inputs : ~Writing(f)
  BY DEF Init, PoolInit, Writing
<1>2. \A f, p \in Paths : dir[p] # Created(f)
  <2>1. \A f \in Paths : Created(f) # None
    BY ConversionAssumption DEF Files, Created
  <2> QED
    BY <2>1, FilesDiffer DEF Init
<1> QED
  BY <1>1, <1>2 DEF Init, ExclusiveInv

\* Two inputs have different output streams.
LEMMA OutputsDiffer ==
  ASSUME OutputsAreApart, TypeInv, OpenedInv, ExclusiveInv,
         NEW f \in Inputs, NEW g \in Inputs, f # g, out[f] # None, out[g] # None
  PROVE  /\ out[f] # out[g]
         /\ config.overwrite => mp3_path[f] # mp3_path[g]
<1>1. f \in config.inputs /\ g \in config.inputs /\ config \in Configurations
  BY DEF OpenedInv, TypeInv, TypeOK
<1>2. config.overwrite => Names[f][1] # Names[g][1]
  BY <1>1 DEF OutputsAreApart
<1> QED
  BY <1>2, FilesDiffer DEF ExclusiveInv

\* No job writes to the output of another one, nor removes it.
LEMMA WritersAreApart ==
  ASSUME OutputsAreApart, TypeInv, JobInv, OpenedInv, ExclusiveInv,
         NEW f \in Inputs, NEW g \in Inputs, f # g, Writing(f), Writing(g) \/ g \in converted
  PROVE  out[f] # out[g] /\ mp3_path[f] # mp3_path[g]
<1>1. out[f] # None /\ out[g] # None
  BY WritingIsOpened
<1>2. dir[mp3_path[f]] = out[f] /\ dir[mp3_path[g]] = out[g]
  BY DEF ExclusiveInv
<1> QED
  BY <1>1, <1>2, OutputsDiffer

LEMMA OpenKeepsExclusive ==
  ASSUME OutputsAreApart, TypeInv, JobInv, OpenedInv, NameInv, ExclusiveInv, OpenOutput,
         KeptInv
  PROVE  /\ ExclusiveInv'
         /\ current \in Inputs /\ out[current] = None
         /\ \A f \in Inputs \ {current} : out[f] # None =>
               /\ out[f] # out'[current]
               /\ dir[mp3_path[f]] = out[f] => mp3_path[f] # Names[current][tries]
<1> DEFINE path == Names[current][tries]
           file == IF dir[path] = None THEN Created(current) ELSE dir[path]
<1>1. /\ current \in Inputs /\ path \in Paths /\ current \in config.inputs /\ mainPc = "opening"
      /\ dir' = [dir EXCEPT ![path] = file] /\ data' = [data EXCEPT ![file] = {}]
      /\ mp3_path' = [mp3_path EXCEPT ![current] = path] /\ out' = [out EXCEPT ![current] = file]
      /\ config' = config /\ converted' = converted
  BY OpenKeepsTypes DEF OpenOutput, TypeInv, Busy, jobVars
<1>2. /\ \A p \in Paths : dir'[p] = IF p = path THEN file ELSE dir[p]
      /\ \A f \in Inputs : /\ out'[f] = IF f = current THEN file ELSE out[f]
                           /\ mp3_path'[f] = IF f = current THEN path ELSE mp3_path[f]
  BY <1>1 DEF TypeInv, TypeOK
<1>3. out[current] = None /\ ~Writing(current) /\ current \notin converted
  <2>1. out[current] = None
    BY <1>1 DEF OpenedInv, JobInv, Busy
  <2> QED
    BY <1>1, <2>1, WritingIsOpened
<1>4. config.overwrite => path = Names[current][1]
  BY <1>1 DEF NameInv
<1>5. \A f \in Inputs \ {current} : out[f] # None =>
          (config.overwrite => Names[f][1] # path)
  BY <1>1, <1>4 DEF OutputsAreApart, OpenedInv, TypeInv, TypeOK
<1>6. file = Created(current) \/ (config.overwrite /\ file = Original(path))
  <2>1. CASE dir[path] = None
    BY <2>1
  <2>2. CASE dir[path] # None
    <3>1. config.overwrite
      BY <1>1, <2>2 DEF NameInv
    <3>2. dir[path] \in Files
      BY <1>1, <2>2 DEF TypeInv, TypeOK
    <3>3. PICK p \in Paths : dir[path] = Original(p) \/ dir[path] = Created(p)
      BY <3>2 DEF Files, Original, Created
    <3>4. CASE dir[path] = Original(p)
      <4>1. p = path
        BY <1>1, <3>3, <3>4 DEF KeptInv
      <4> QED
        BY <3>1, <3>4, <4>1
    <3>5. CASE dir[path] = Created(p)
      <4>1. p \in Inputs /\ mp3_path[p] = path /\ out[p] = Created(p)
        BY <1>1, <3>5 DEF ExclusiveInv
      <4>2. mp3_path[p] = path /\ out[p] # None
        BY <4>1, FilesTyped
      <4>3. p # current /\ mp3_path[p] = Names[p][1]
        BY <1>3, <3>1, <4>1, <4>2 DEF ExclusiveInv
      <4> QED
        BY <1>5, <3>1, <4>1, <4>2, <4>3
    <3> QED
      BY <3>3, <3>4, <3>5
  <2> QED
    BY <2>1, <2>2
<1> HIDE DEF path, file
<1>7. \A f \in Inputs : out'[f] # None =>
          \/ out'[f] = Created(f)
          \/ config'.overwrite /\ out'[f] = Original(Names[f][1])
  BY <1>1, <1>2, <1>4, <1>6 DEF ExclusiveInv
<1>8. \A f \in Inputs : config'.overwrite /\ out'[f] # None => mp3_path'[f] = Names[f][1]
  BY <1>1, <1>2, <1>4 DEF ExclusiveInv
<1>9. \A f, p \in Paths : dir'[p] = Created(f) =>
          f \in Inputs /\ out'[f] = Created(f) /\ mp3_path'[f] = p
  <2> SUFFICES ASSUME NEW f \in Paths, NEW p \in Paths, dir'[p] = Created(f)
               PROVE  f \in Inputs /\ out'[f] = Created(f) /\ mp3_path'[f] = p
    OBVIOUS
  <2>1. CASE p = path
    <3>1. file = Created(current) /\ f = current
      BY <1>2, <1>6, <2>1, FilesDiffer
    <3> QED
      BY <1>1, <1>2, <2>1, <3>1
  <2>2. CASE p # path
    <3>1. f \in Inputs /\ out[f] = Created(f) /\ mp3_path[f] = p
      BY <1>2, <2>2 DEF ExclusiveInv
    <3>2. f # current
      BY <1>3, <3>1, FilesTyped
    <3> QED
      BY <1>2, <3>1, <3>2
  <2> QED
    BY <2>1, <2>2
<1>12. ASSUME NEW f \in Inputs \ {current}, out[f] # None, dir[mp3_path[f]] = out[f]
       PROVE  mp3_path[f] # path
  <2>1. CASE config.overwrite
    BY <1>5, <1>12, <2>1 DEF ExclusiveInv
  <2>2. CASE ~config.overwrite
    BY <1>1, <1>12, <2>2 DEF NameInv, path
  <2> QED
    BY <2>1, <2>2
<1>10. ASSUME NEW f \in Inputs, Writing(f)' \/ f \in converted' PROVE dir'[mp3_path'[f]] = out'[f]
  <2>1. CASE f = current
    BY <1>1, <1>2, <2>1
  <2>2. CASE f # current
    <3>1. Writing(f) \/ f \in converted
      BY <1>1, <1>10, <2>2, OpenWriting
    <3>2. out[f] # None /\ dir[mp3_path[f]] = out[f]
      BY <3>1, WritingIsOpened DEF ExclusiveInv
    <3>3. mp3_path[f] # path
      BY <1>12, <2>2, <3>2
    <3>4. mp3_path[f] \in Paths
      BY <3>2 DEF OpenedInv, TypeInv, TypeOK
    <3> QED
      BY <1>2, <2>2, <3>2, <3>3, <3>4
  <2> QED
    BY <2>1, <2>2
<1>11. \A f \in Inputs \ {current} : out[f] # None => out[f] # out'[current]
  <2>1. out'[current] = file
    BY <1>1, <1>2
  <2> QED
    BY <1>5, <1>6, <2>1, FilesDiffer DEF ExclusiveInv
<1> QED
  BY <1>1, <1>3, <1>7, <1>8, <1>9, <1>10, <1>11, <1>12 DEF ExclusiveInv, path

LEMMA ExclusiveInvNext ==
  ASSUME OutputsAreApart, TypeInv, JobInv, OpenedInv, NameInv, KeptInv, ExclusiveInv, [Next]_vars
  PROVE  ExclusiveInv'
<1>1. config' = config
  BY FileCases
<1>2. CASE OpenOutput
  BY <1>2, OpenKeepsExclusive
<1>3. CASE ~OpenOutput
  <2>1. \A f \in Inputs : Writing(f)' \/ f \in converted' => Writing(f) \/ f \in converted
    <3>1. \A f \in Inputs : Writing(f)' => Writing(f)
      BY <1>3, WritingCases, EndsWriting, ThrowsWriting
    <3>2. \A f \in converted' : f \in converted \/ Writing(f)
      <4>1. CASE converted' = converted
        BY <4>1
      <4>2. ASSUME NEW s \in Slots, Flush(s) PROVE \A f \in converted' : f \in converted \/ Writing(f)
        BY <4>2, InputOfEnded DEF Flush, At
      <4> QED
        BY <4>1, <4>2, ConvertedCases
    <3> QED
      BY <3>1, <3>2
  <2>2. CASE UNCHANGED <<dir, out, mp3_path>>
    BY <1>1, <2>1, <2>2 DEF ExclusiveInv
  <2>3. ASSUME NEW s \in Slots, RemoveMp3File(s) PROVE ExclusiveInv'
    <3> DEFINE g == InputOf(s)
    <3>1. g \in Inputs /\ Writing(g)
      BY <2>3, InputOfEnded DEF RemoveMp3File, At
    <3>2. /\ UNCHANGED <<out, mp3_path, converted>>
          /\ \A p \in Paths : dir'[p] = IF p = mp3_path[g] THEN None ELSE dir[p]
      BY <2>3 DEF RemoveMp3File, TypeInv, TypeOK
    <3>3. \A f \in Paths : Created(f) # None
      BY ConversionAssumption DEF Files, Created
    <3>4. ASSUME NEW f \in Inputs, Writing(f)' \/ f \in converted' PROVE dir'[mp3_path'[f]] = out'[f]
      <4>1. Writing(f) \/ f \in converted
        BY <2>1, <3>4
      <4>2. f # g
        <5>1. Ends(s)
          BY <2>3 DEF RemoveMp3File, At, Ends
        <5> QED
          BY <3>1, <3>2, <3>4, <5>1, EndsWriting, WritingIsOpened
      <4>3. mp3_path[f] # mp3_path[g]
        BY <3>1, <4>1, <4>2, WritersAreApart
      <4>4. mp3_path[f] \in Paths /\ dir[mp3_path[f]] = out[f]
        BY <4>1, WritingIsOpened DEF ExclusiveInv, OpenedInv, TypeInv, TypeOK
      <4> QED
        BY <3>2, <4>3, <4>4
    <3> HIDE DEF g
    <3>5. \A f, p \in Paths : dir'[p] = Created(f) =>
             f \in Inputs /\ out'[f] = Created(f) /\ mp3_path'[f] = p
      BY <3>2, <3>3 DEF ExclusiveInv
    <3> QED
      BY <1>1, <3>2, <3>4, <3>5 DEF ExclusiveInv
  <2>4. \/ UNCHANGED <<dir, out, mp3_path>> \/ \E s \in Slots : RemoveMp3File(s)
    BY <1>3, FileCases, WriteOnlyToOut DEF fileVars
  <2> QED
    BY <2>2, <2>3, <2>4
<1> QED
  BY <1>2, <1>3

-----------------------------------------------------------------------------
(* Passes *)

LEMMA PassInvInit == ASSUME Init PROVE PassInv
<1>1. \A f \in Inputs : Passes[f] \in Nat
  BY ConversionAssumption
<1> QED
  BY <1>1 DEF Init, PoolInit, IdleSlot, PassInv

\* Which input a worker converts does not change while it has a job.
LEMMA WorkersKeepInputs ==
  ASSUME TypeInv, NEW s \in Slots, convert_file_worker(s)
  PROVE  \A t \in Slots :
            /\ slot'[t].state # "idle" => slot[t].state # "idle" /\ InputOf(t)' = InputOf(t)
            /\ t # s => slot'[t] = slot[t] /\ encPc'[t] = encPc[t]
<1>1. CASE StartJob(s)
  BY <1>1 DEF StartJob, Begin, Executing, InputOf, TypeInv, TypeOK
<1>2. CASE Goes(s)
  BY <1>2 DEF Goes, poolVars, InputOf, TypeInv, TypeOK
<1>3. CASE Ends(s)
  BY <1>3 DEF Ends, End, IdleSlot, InputOf, TypeInv, TypeOK
<1> QED
  BY <1>1, <1>2, <1>3, WorkerCases

\* PassInv of one worker.
PassOf(s) ==
    /\ slot[s].state = "given" => pass[InputOf(s)] = 0
    /\ encPc[s] = "configure" => pass[InputOf(s)] = 0
    /\ encPc[s] = "encode" => pass[InputOf(s)] < Passes[InputOf(s)]
    /\ encPc[s] = "flush" => pass[InputOf(s)] = Passes[InputOf(s)]

LEMMA PassOfWorker ==
  ASSUME TypeInv, JobInv, PassInv, NEW s \in Slots, convert_file_worker(s)
  PROVE  /\ PassOf(s)'
         /\ \A f \in Inputs : f # InputOf(s) => pass'[f] = pass[f]
         /\ InputOf(s) \in Inputs /\ pass'[InputOf(s)] <= Passes[InputOf(s)]
<1> DEFINE g == InputOf(s)
<1>1. slot[s].state # "idle" /\ g \in Inputs
  <2>1. slot[s].state # "idle"
    BY WorkerCases DEF StartJob, Begin, Goes, Ends
  <2> QED
    BY <2>1, InputTyped
<1>2. Passes[g] \in Nat /\ pass[g] \in Nat /\ pass[g] <= Passes[g]
  BY <1>1, ConversionAssumption DEF TypeInv, TypeOK, PassInv
<1>3. slot'[s].state # "idle" => InputOf(s)' = g
  BY WorkersKeepInputs
<1>4. Continue(g) = "encode" => pass[g] < Passes[g]
  BY DEF Continue
<1>5. Continue(g) = "flush" => pass[g] = Passes[g]
  BY <1>2 DEF Continue
<1>6. Continue(g) \in {"encode", "flush"}
  BY DEF Continue
<1> HIDE DEF g
<1>7. CASE StartJob(s)
  <2>1. slot[s].state = "given" /\ slot'[s].state = "executing" /\ encPc'[s] = "configure" /\ pass' = pass
    BY <1>7 DEF StartJob, Begin, Executing, TypeInv, TypeOK
  <2> QED
    BY <1>1, <1>2, <1>3, <2>1 DEF PassOf, PassInv, g
<1>8. CASE ConfigLame(s) \/ CheckTermination(s)
  <2>1. /\ slot'[s].state = "executing" /\ encPc'[s] \in {Continue(g), "remove"} /\ pass' = pass
    BY <1>8 DEF ConfigLame, CheckTermination, At, poolVars, TypeInv, TypeOK, g
  <2> QED
    BY <1>1, <1>2, <1>3, <1>4, <1>5, <1>6, <2>1 DEF PassOf, g
<1>9. CASE JobThrows(s)
  <2>1. slot'[s].state = "executing" /\ encPc'[s] = "remove" /\ pass' = pass
    BY <1>9 DEF JobThrows, At, poolVars, TypeInv, TypeOK
  <2> QED
    BY <1>1, <1>2, <2>1 DEF PassOf, g
<1>10. CASE ConvertChunk(s)
  <2>1. /\ slot'[s].state = "executing" /\ encPc[s] = "encode" /\ encPc'[s] = "check"
        /\ pass' = [pass EXCEPT ![g] = @ + 1]
    BY <1>10 DEF ConvertChunk, At, poolVars, TypeInv, TypeOK, g
  <2>2. pass[g] < Passes[g] /\ pass'[g] = pass[g] + 1
    BY <1>1, <2>1 DEF PassInv, TypeInv, TypeOK, g
  <2> QED
    BY <1>1, <1>2, <2>1, <2>2 DEF PassOf, TypeInv, TypeOK, g
<1>11. CASE ConfigLameFails(s) \/ Flush(s) \/ RemoveMp3File(s)
  <2>1. slot'[s].state = "idle" /\ encPc'[s] = "none" /\ pass' = pass
    BY <1>11 DEF ConfigLameFails, Flush, RemoveMp3File, At, End, IdleSlot, TypeInv, TypeOK
  <2> QED
    BY <1>1, <1>2, <2>1 DEF PassOf, g
<1> QED
  BY <1>7, <1>8, <1>9, <1>10, <1>11 DEF convert_file_worker

\* A job writes only to an output that was opened.
LEMMA LostCases ==
  ASSUME [Next]_vars
  PROVE  \/ lost' = lost
         \/ \E s \in Slots : \E k : (ConvertChunk(s) \/ Flush(s)) /\ lost' = lost \cup {<<InputOf(s), k>>}
<1>1. ASSUME NEW s \in Slots, ConvertChunk(s) \/ Flush(s)
      PROVE  lost' = lost \/ \E k : lost' = lost \cup {<<InputOf(s), k>>}
  BY <1>1 DEF ConvertChunk, Flush, Write, Lose
<1> QED
  BY <1>1, FileCases DEF fileVars, OpenOutput, RemoveMp3File

LEMMA PassInvNext ==
  ASSUME TypeInv, JobInv, OpenedInv, PassInv, [Next]_vars
  PROVE  PassInv'
<1>1. \A f \in Inputs : out'[f] = None => out[f] = None
  <2>1. CASE OpenOutput
    <3>1. \A f \in Inputs : f # current => out'[f] = out[f]
      BY <2>1 DEF OpenOutput, TypeInv, TypeOK
    <3>2. out[current] = None
      BY <2>1, OpenKeepsTypes DEF OpenOutput, OpenedInv, JobInv, Busy
    <3> QED
      BY <3>1, <3>2
  <2> QED
    BY <2>1, FileCases, WriteOnlyToOut DEF fileVars, RemoveMp3File
<1>2. \A f \in Inputs : out[f] = None => \A part \in lost' : part[1] # f
  <2>1. ASSUME NEW s \in Slots, NEW k, ConvertChunk(s) \/ Flush(s), lost' = lost \cup {<<InputOf(s), k>>}
        PROVE  \A f \in Inputs : out[f] = None => \A part \in lost' : part[1] # f
    <3>1. InputOf(s) \in Inputs /\ out[InputOf(s)] # None
      BY <2>1, InputOfEnded, WritingIsOpened DEF ConvertChunk, Flush, At
    <3> QED
      BY <2>1, <3>1 DEF PassInv
  <2> QED
    BY <2>1, LostCases DEF PassInv
<1>3. ASSUME UNCHANGED <<pass, slot, encPc, jobInput>>,
             mainPc' = "submitting" => mainPc = "submitting" /\ current' = current
      PROVE  PassInv'
  BY <1>1, <1>2, <1>3 DEF PassInv, InputOf
<1>4. CASE UNCHANGED vars
  BY <1>3, <1>4 DEF vars, mainVars, jobVars, poolVars
<1>5. CASE IsMainStep
  <2>1. UNCHANGED <<pass, slot, encPc, jobInput>> /\ mainPc' # "submitting"
    <3>1. UNCHANGED <<pass, slot, encPc, jobInput>>
      BY <1>5, MainStepUnchanged DEF jobVars, poolVars
    <3>2. mainPc' # "submitting"
      BY <1>5 DEF IsMainStep, NextEntry, EndOfIteration, IterationFails, Reject, Accept, TryName,
         NoNameLeft, NamingFails, OpenFails
    <3> QED
      BY <3>1, <3>2
  <2> QED
    BY <1>3, <2>1
<1>6. CASE ClosePool \/ signal_handler \/ ConvertFileThrows
  BY <1>3, <1>6 DEF ClosePool, Close, signal_handler, ConvertFileThrows, mainVars, jobVars, poolVars
<1>7. CASE OpenOutput
  <2>1. /\ UNCHANGED <<pass, slot, encPc, jobInput, current>> /\ mainPc = "opening"
        /\ current \in Inputs
    BY <1>7, OpenKeepsTypes DEF OpenOutput, jobVars, poolVars
  <2>2. out[current] = None
    BY <2>1 DEF OpenedInv, JobInv, Busy
  <2>3. pass[current] = 0
    BY <2>1, <2>2 DEF PassInv
  <2> QED
    BY <1>1, <1>2, <2>1, <2>3 DEF PassInv, InputOf
<1>8. ASSUME NEW s \in Slots, Submit(s) PROVE PassInv'
  <2>1. /\ UNCHANGED <<pass, encPc>> /\ mainPc = "submitting" /\ mainPc' = "iterating"
    BY <1>8 DEF Submit
  <2>2. /\ slot[s] = IdleSlot /\ slot' = [slot EXCEPT ![s] = Given(given')]
        /\ jobInput'[given'] = current
        /\ \A j \in 1..given : jobInput'[j] = jobInput[j]
    BY <1>8, SubmitKeepsPool
  <2>3. InputOf(s)' = current /\ slot'[s].state = "given"
    BY <2>2 DEF InputOf, Given, TypeInv
  <2>4. \A t \in Slots : t # s => slot'[t] = slot[t]
    BY <2>2 DEF TypeInv
  <2>5. \A t \in Slots : t # s /\ slot[t].state # "idle" => InputOf(t)' = InputOf(t)
    BY <2>2, <2>4 DEF InputOf, TypeInv
  <2>6. encPc[s] = "none"
    BY <2>2 DEF JobInv, IdleSlot
  <2>7. \A t \in Slots : PassOf(t)'
    <3> TAKE t \in Slots
    <3>1. CASE t = s
      BY <2>1, <2>3, <2>6, <3>1 DEF PassOf, PassInv
    <3>2. CASE t # s /\ slot[t].state # "idle"
      BY <2>1, <2>4, <2>5, <3>2 DEF PassOf, PassInv
    <3>3. CASE t # s /\ slot[t].state = "idle"
      BY <2>1, <2>4, <3>3 DEF PassOf, JobInv
    <3> QED
      BY <3>1, <3>2, <3>3
  <2> QED
    BY <1>1, <1>2, <2>1, <2>7 DEF PassInv, PassOf
<1>9. ASSUME NEW s \in Slots, convert_file_worker(s) PROVE PassInv'
  <2>1. UNCHANGED mainVars
    BY <1>9, WorkerCases DEF Goes, Ends
  <2>2. slot[s].state # "idle"
    BY <1>9, WorkerCases DEF StartJob, Begin, Goes, Ends
  <2>3. /\ PassOf(s)'
        /\ \A f \in Inputs : f # InputOf(s) => pass'[f] = pass[f]
        /\ InputOf(s) \in Inputs /\ pass'[InputOf(s)] <= Passes[InputOf(s)]
    BY <1>9, PassOfWorker
  <2>4. \A t \in Slots : PassOf(t)'
    <3> TAKE t \in Slots
    <3>1. CASE t = s
      BY <2>3, <3>1
    <3>2. CASE t # s /\ slot[t].state # "idle"
      <4>1. InputOf(t) # InputOf(s) /\ InputOf(t) \in Inputs
        BY <2>2, <3>2, InputsOfWorkersDiffer, InputTyped
      <4>2. slot'[t] = slot[t] /\ encPc'[t] = encPc[t] /\ InputOf(t)' = InputOf(t)
        BY <1>9, <3>2, WorkersKeepInputs
      <4> QED
        BY <2>3, <4>1, <4>2 DEF PassOf, PassInv
    <3>3. CASE t # s /\ slot[t].state = "idle"
      BY <1>9, <3>3, WorkersKeepInputs DEF PassOf, JobInv
    <3> QED
      BY <3>1, <3>2, <3>3
  <2>5. \A f \in Inputs : pass'[f] <= Passes[f]
    BY <2>3 DEF PassInv
  <2>6. \A f \in Inputs : out[f] = None => pass'[f] = 0
    <3>1. out[InputOf(s)] # None
      BY <2>2, InputOfEnded, WritingIsOpened
    <3> QED
      BY <2>3, <3>1 DEF PassInv
  <2>7. mainPc = "submitting" => pass'[current] = 0
    <3>1. mainPc = "submitting" => current # InputOf(s) /\ current \in Inputs
      BY <2>2, InputOfEnded, FilesTyped DEF Busy, TypeInv, TypeOK
    <3> QED
      BY <2>3, <3>1 DEF PassInv
  <2> QED
    BY <1>1, <1>2, <2>1, <2>4, <2>5, <2>6, <2>7 DEF mainVars, PassInv, PassOf
<1> QED
  BY <1>4, <1>5, <1>6, <1>7, <1>8, <1>9, NextCases DEF IsMainStep

-----------------------------------------------------------------------------
(* What an output holds *)

\* The first n parts of the output of f were sent, and no later part was written
\* without an earlier one.
Holds(f, n) ==
    /\ Sent(f) = {f} \X (1..n)
    /\ \A part \in data[out[f]] : \A k \in 1..part[2] : <<f, k>> \in data[out[f]]

LEMMA WriteExtends ==
  ASSUME TypeInv, NEW g \in Inputs, NEW n \in Nat, out[g] # None, Holds(g, n), Sends(g, n + 1),
         UNCHANGED out
  PROVE  /\ Holds(g, n + 1)'
         /\ \A f \in Inputs : f # g /\ out[f] # None /\ out[f] # out[g] =>
               \A m \in Nat : Holds(f, m) => Holds(f, m)'
<1> DEFINE x == out[g]
           new == <<g, n + 1>>
<1>1. x \in Files /\ data[x] \subseteq Parts /\ lost \subseteq Parts
  BY DEF TypeInv, TypeOK
<1>2. \A part \in Parts : part = <<part[1], part[2]>>
  BY DEF Parts
<1>3. data[x] \cup {part \in lost : part[1] = g} = {g} \X (1..n)
  BY DEF Holds, Sent
<1>4. {g} \X (1..(n + 1)) = ({g} \X (1..n)) \cup {new}
  <2>1. 1..(n + 1) = (1..n) \cup {n + 1}
    OBVIOUS
  <2> QED
    BY <2>1
<1>5. new[1] = g /\ new[2] = n + 1
  OBVIOUS
<1>6. CASE /\ ~\E part \in lost : part[1] = g
           /\ data' = [data EXCEPT ![x] = @ \cup {new}]
           /\ UNCHANGED lost
  <2>1. data'[x] = data[x] \cup {new} /\ \A y \in Files : y # x => data'[y] = data[y]
    BY <1>1, <1>6 DEF TypeInv, TypeOK
  <2>2. data[x] = {g} \X (1..n)
    BY <1>3, <1>6
  <2>3. Sent(g)' = {g} \X (1..(n + 1))
    BY <1>3, <1>4, <1>6, <2>1 DEF Sent
  <2>4. data'[x] = {g} \X (1..(n + 1))
    BY <1>4, <2>1, <2>2
  <2>5. \A part \in data'[x] : \A k \in 1..part[2] : <<g, k>> \in data'[x]
    <3>1. \A part \in {g} \X (1..(n + 1)) : \A k \in 1..part[2] : k \in 1..(n + 1)
      OBVIOUS
    <3> QED
      BY <2>4, <3>1
  <2>6. \A f \in Inputs : f # g /\ out[f] # None /\ out[f] # x => data'[out[f]] = data[out[f]]
    BY <2>1 DEF TypeInv, TypeOK
  <2> QED
    BY <1>6, <2>3, <2>5, <2>6 DEF Holds, Sent
<1>7. CASE lost' = lost \cup {new} /\ UNCHANGED data
  <2>1. {part \in lost' : part[1] = g} = {part \in lost : part[1] = g} \cup {new}
    BY <1>5, <1>7
  <2>2. Sent(g)' = {g} \X (1..(n + 1))
    BY <1>3, <1>4, <1>7, <2>1 DEF Sent
  <2>3. \A f \in Inputs : f # g => {part \in lost' : part[1] = f} = {part \in lost : part[1] = f}
    BY <1>5, <1>7
  <2> HIDE DEF new, x
  <2> QED
    BY <1>7, <2>2, <2>3 DEF Holds, Sent, x
<1> QED
  BY <1>6, <1>7 DEF Sends, Write, Lose

LEMMA DataInvInit == ASSUME Init PROVE DataInv
BY DEF Init, DataInv

\* Inputs are not overwritten, so that a job reads what it is to convert.
LEMMA InputsAreKept ==
  ASSUME OutputsAreApart, TypeInv, KeptInv, NEW f \in config.inputs
  PROVE  f \in Inputs /\ NextPart(f) = pass[f] + 1
<1>1. f \in Inputs /\ f \in Protected
  BY FilesTyped DEF OutputsAreApart, TypeInv, TypeOK, Protected
<1> QED
  BY <1>1 DEF KeptInv, Kept, NextPart

\* The job for g sends the next part, and it is not reported before.
LEMMA ConvertExtends ==
  ASSUME OutputsAreApart, TypeInv, JobInv, OpenedInv, KeptInv, PassInv, DataInv,
         NEW s \in Slots, ConvertChunk(s) \/ Flush(s), NEW g \in Inputs, g = InputOf(s)
  PROVE  /\ out[g] # None /\ Writing(g) /\ g \notin converted
         /\ Holds(g, Progress(g)) /\ Progress(g) \in Nat
         /\ Sends(g, Progress(g) + 1) /\ Progress(g)' = Progress(g) + 1
         /\ ConvertChunk(s) => Progress(g) < Passes[g]
         /\ Flush(s) => Progress(g) = Passes[g] /\ converted' = converted \cup {g}
         /\ \A f \in Inputs : f # g => Progress(f)' = Progress(f)
<1>0. slot[s].state = "executing" /\ slot[s].state # "idle"
  BY DEF ConvertChunk, Flush, At
<1>1. Writing(g) /\ out[g] # None /\ g \notin converted /\ g \in config.inputs
  BY <1>0, InputOfEnded, WritingIsOpened DEF OpenedInv
<1>2. Progress(g) = pass[g] /\ pass[g] \in Nat /\ Passes[g] \in Nat
  BY <1>1, ConversionAssumption DEF Progress, TypeInv, TypeOK
<1>3. Holds(g, Progress(g))
  BY <1>1 DEF DataInv, Holds
<1>4. CASE ConvertChunk(s)
  <2>1. /\ pass' = [pass EXCEPT ![g] = @ + 1] /\ converted' = converted /\ Sends(g, NextPart(g))
    BY <1>4 DEF ConvertChunk, Sends
  <2>2. pass'[g] = pass[g] + 1 /\ \A f \in Inputs : f # g => pass'[f] = pass[f]
    BY <1>1, <2>1 DEF TypeInv, TypeOK
  <2>3. NextPart(g) = Progress(g) + 1
    BY <1>1, <1>2, InputsAreKept
  <2>4. pass[g] < Passes[g]
    BY <1>4 DEF ConvertChunk, At, PassInv
  <2>5. Progress(g)' = Progress(g) + 1 /\ \A f \in Inputs : f # g => Progress(f)' = Progress(f)
    BY <1>1, <1>2, <2>1, <2>2 DEF Progress
  <2>6. ~Flush(s)
    BY <1>4 DEF ConvertChunk, Flush, At
  <2> QED
    BY <1>1, <1>2, <1>3, <2>1, <2>3, <2>4, <2>5, <2>6
<1>5. CASE Flush(s)
  <2>1. /\ pass' = pass /\ converted' = converted \cup {g} /\ Sends(g, Passes[g] + 1)
        /\ encPc[s] = "flush"
    BY <1>5 DEF Flush, Sends, At
  <2>2. pass[g] = Passes[g]
    BY <2>1 DEF PassInv
  <2>3. \A f \in Inputs : f # g => Progress(f)' = Progress(f)
    BY <2>1 DEF Progress
  <2>4. ~ConvertChunk(s)
    BY <1>5 DEF ConvertChunk, Flush, At
  <2>5. Progress(g)' = Progress(g) + 1
    BY <1>2, <2>1, <2>2 DEF Progress
  <2> QED
    BY <1>1, <1>2, <1>3, <1>5, <2>1, <2>2, <2>3, <2>4, <2>5
<1> QED
  BY <1>4, <1>5

\* The part of DataInv about what is left of an output.
LeftInv ==
    \A f \in Inputs : out[f] # None /\ ~Writing(f) /\ f \notin converted =>
        dir[mp3_path[f]] # out[f] \/ pass[f] = 0

LEMMA DataInvNext ==
  ASSUME OutputsAreApart, TypeInv, JobInv, OpenedInv, NameInv, KeptInv, ExclusiveInv, PassInv,
         DataInv, [Next]_vars
  PROVE  DataInv'
<1>1. \A f \in Inputs : Progress(f) \in Nat
  BY ConversionAssumption DEF Progress, TypeInv, TypeOK
<1>2. /\ \A f \in Inputs : out[f] # None => Holds(f, Progress(f))
      /\ LeftInv
  BY DEF DataInv, Holds, LeftInv
<1>3. CASE OpenOutput
  <2> DEFINE c == current
  <2>1. /\ current \in Inputs /\ out[current] = None
        /\ \A f \in Inputs \ {current} : out[f] # None => out[f] # out'[current]
    BY <1>3, OpenKeepsExclusive
  <2>2. \E path \in Paths, file \in Files :
            /\ dir' = [dir EXCEPT ![path] = file] /\ data' = [data EXCEPT ![file] = {}]
            /\ out' = [out EXCEPT ![current] = file] /\ mp3_path' = [mp3_path EXCEPT ![current] = path]
    <3>1. Names[current][tries] \in Paths
      BY <1>3, OpenKeepsTypes
    <3>2. dir[Names[current][tries]] \in Files \cup {None}
      BY <3>1 DEF TypeInv, TypeOK
    <3> QED
      BY <1>3, <2>1, <3>1, <3>2, FilesTyped DEF OpenOutput
  <2>3. PICK path \in Paths, file \in Files :
            /\ dir' = [dir EXCEPT ![path] = file] /\ data' = [data EXCEPT ![file] = {}]
            /\ out' = [out EXCEPT ![current] = file] /\ mp3_path' = [mp3_path EXCEPT ![current] = path]
    BY <2>2
  <2>4. /\ UNCHANGED <<pass, converted, lost, current>>
    BY <1>3 DEF OpenOutput, jobVars
  <2>5. /\ \A f \in Inputs : /\ out'[f] = IF f = current THEN file ELSE out[f]
                             /\ mp3_path'[f] = IF f = current THEN path ELSE mp3_path[f]
        /\ \A x \in Files : data'[x] = IF x = file THEN {} ELSE data[x]
        /\ \A p \in Paths : dir'[p] = IF p = path THEN file ELSE dir[p]
    BY <2>3 DEF TypeInv, TypeOK
  <2>6. pass[current] = 0 /\ current \notin converted /\ \A part \in lost : part[1] # current
    BY <2>1, WritingIsOpened DEF PassInv
  <2>7. \A f \in Inputs : f # current /\ out[f] # None => out[f] \in Files /\ out[f] # file
    BY <2>1, <2>5 DEF TypeInv, TypeOK
  <2>8. ASSUME NEW f \in Inputs, out'[f] # None PROVE Holds(f, Progress(f))'
    <3>1. CASE f = current
      <4>1. data'[out'[f]] = {} /\ {part \in lost' : part[1] = f} = {}
        BY <2>4, <2>5, <2>6, <3>1
      <4>2. Progress(f)' = 0
        BY <2>4, <2>6, <3>1 DEF Progress
      <4>3. {f} \X (1..0) = {}
        OBVIOUS
      <4> QED
        BY <4>1, <4>2, <4>3 DEF Holds, Sent
    <3>2. CASE f # current
      <4>1. out'[f] = out[f] /\ data'[out'[f]] = data[out[f]] /\ Progress(f)' = Progress(f)
        BY <2>4, <2>5, <2>7, <2>8, <3>2 DEF Progress
      <4>2. Holds(f, Progress(f))
        BY <1>2, <2>8, <4>1
      <4> QED
        BY <2>4, <4>1, <4>2 DEF Holds, Sent
    <3> QED
      BY <3>1, <3>2
  <2>9. LeftInv'
    <3>1. \A f \in Inputs : Writing(f)' <=> Writing(f) \/ f = current
      BY <1>3, OpenWriting
    <3>2. ASSUME NEW f \in Inputs, f # current, out[f] # None, dir[mp3_path[f]] # out[f]
          PROVE  dir'[mp3_path'[f]] # out'[f]
      <4>1. mp3_path[f] \in Paths
        BY <3>2 DEF OpenedInv, TypeInv, TypeOK
      <4> QED
        BY <2>5, <2>7, <3>2, <4>1
    <3> QED
      BY <1>2, <2>4, <2>5, <3>1, <3>2 DEF LeftInv
  <2> QED
    BY <2>8, <2>9 DEF DataInv, Holds, LeftInv
<1>4. ASSUME NEW s \in Slots, ConvertChunk(s) \/ Flush(s) PROVE DataInv'
  <2>1. PICK g \in Inputs : g = InputOf(s)
    BY <1>4, WriteOnlyToOut
  <2>2. PICK n \in Nat : n = Progress(g)
    BY <1>1
  <2>3. /\ out[g] # None /\ Writing(g) /\ g \notin converted
        /\ Holds(g, n) /\ Sends(g, n + 1) /\ Progress(g)' = n + 1
        /\ Flush(s) => converted' = converted \cup {g}
        /\ \A f \in Inputs : f # g => Progress(f)' = Progress(f)
    BY <1>4, <2>1, <2>2, ConvertExtends
  <2>4. UNCHANGED <<dir, mp3_path, out>>
    BY <1>4, WriteOnlyToOut
  <2>5. \A f \in Inputs : f # g /\ out[f] # None => out[f] # out[g]
    BY <2>3, OutputsDiffer
  <2>6. /\ Holds(g, n + 1)'
        /\ \A f \in Inputs : f # g /\ out[f] # None /\ out[f] # out[g] =>
               \A m \in Nat : Holds(f, m) => Holds(f, m)'
    BY <2>3, <2>4, WriteExtends
  <2>7. ASSUME NEW f \in Inputs, out'[f] # None PROVE Holds(f, Progress(f))'
    <3>1. CASE f = g
      BY <2>3, <2>6, <3>1 DEF Holds
    <3>2. CASE f # g
      <4>1. PICK m \in Nat : m = Progress(f)
        BY <1>1
      <4>2. Holds(f, m)'
        BY <1>2, <2>4, <2>5, <2>6, <2>7, <3>2, <4>1
      <4> QED
        BY <2>3, <3>2, <4>1, <4>2 DEF Holds
    <3> QED
      BY <3>1, <3>2
  <2>8. LeftInv'
    <3>1. CASE ConvertChunk(s)
      <4>1. \A f \in Inputs : Writing(f)' <=> Writing(f)
        BY <3>1, WritingUnlessEnded
      <4>2. converted' = converted /\ \A f \in Inputs : f # g => pass'[f] = pass[f]
        BY <2>1, <3>1 DEF ConvertChunk, TypeInv, TypeOK
      <4> QED
        BY <1>2, <2>3, <2>4, <4>1, <4>2 DEF LeftInv
    <3>2. CASE Flush(s)
      <4>1. \A f \in Inputs : Writing(f)' <=> Writing(f) /\ f # g
        BY <2>1, <3>2, EndsWriting DEF Flush, At, Ends
      <4>2. pass' = pass
        BY <3>2 DEF Flush
      <4> QED
        BY <1>2, <2>3, <2>4, <3>2, <4>1, <4>2 DEF LeftInv
    <3> QED
      BY <1>4, <3>1, <3>2
  <2> QED
    BY <2>7, <2>8 DEF DataInv, Holds, LeftInv
<1>5. ASSUME NEW s \in Slots, RemoveMp3File(s) PROVE DataInv'
  <2>1. PICK g \in Inputs : g = InputOf(s)
    BY <1>5, InputTyped DEF RemoveMp3File, At
  <2>2. /\ UNCHANGED <<data, lost, mp3_path, out, pass, converted>>
        /\ \A p \in Paths : dir'[p] = IF p = mp3_path[g] THEN None ELSE dir[p]
    BY <1>5, <2>1 DEF RemoveMp3File, TypeInv, TypeOK
  <2>3. \A f \in Inputs : Writing(f)' <=> Writing(f) /\ f # g
    BY <1>5, <2>1, EndsWriting DEF RemoveMp3File, At, Ends
  <2>4. \A f \in Inputs : out[f] # None => mp3_path[f] \in Paths
    BY DEF OpenedInv, TypeInv, TypeOK
  <2>5. LeftInv'
    BY <1>2, <2>2, <2>3, <2>4 DEF LeftInv
  <2>6. \A f \in Inputs : out'[f] # None => Holds(f, Progress(f))'
    BY <1>2, <2>2 DEF Holds, Sent, Progress
  <2> QED
    BY <2>5, <2>6 DEF DataInv, Holds, LeftInv
<1>6. CASE UNCHANGED fileVars /\ pass' = pass /\ converted' = converted
  <2>1. UNCHANGED <<dir, data, lost, mp3_path, out>>
    BY <1>6 DEF fileVars
  <2>2. pass' = pass /\ converted' = converted
    BY <1>6
  <2>3. \A f \in Inputs : out'[f] # None => Holds(f, Progress(f))'
    BY <1>2, <2>1, <2>2 DEF Holds, Sent, Progress
  <2>4. LeftInv'
    <3>1. CASE \A f \in Inputs : Writing(f)' <=> Writing(f)
      BY <1>2, <2>1, <2>2, <3>1 DEF LeftInv
    <3>2. ASSUME NEW s \in Slots, ConfigLameFails(s), Ends(s) PROVE LeftInv'
      <4>1. PICK g \in Inputs : g = InputOf(s)
        BY <3>2, InputTyped DEF ConfigLameFails, At
      <4>2. pass[g] = 0
        BY <3>2, <4>1 DEF ConfigLameFails, At, PassInv
      <4>3. \A f \in Inputs : Writing(f)' <=> Writing(f) /\ f # g
        BY <3>2, <4>1, EndsWriting
      <4> QED
        BY <1>2, <2>1, <2>2, <4>2, <4>3 DEF LeftInv
    <3>3. CASE ConvertFileThrows
      <4>1. /\ pass[current] = 0
            /\ \A f \in Inputs : Writing(f)' <=> Writing(f) /\ f # current
        BY <3>3, ThrowsWriting DEF PassInv
      <4> QED
        BY <1>2, <2>1, <2>2, <4>1 DEF LeftInv
    <3> QED
      BY <1>3, <1>4, <1>5, <3>1, <3>2, <3>3, WritingCases DEF DataInv, LeftInv
  <2> QED
    BY <2>3, <2>4 DEF DataInv, Holds, LeftInv
<1> QED
  BY <1>3, <1>4, <1>5, <1>6, FileCases, UnchangedCounts

-----------------------------------------------------------------------------
(* What is reported *)

LEMMA ReportInvInit == ASSUME Init PROVE ReportInv
BY DEF Init, PoolInit, ReportInv

\* A code other than those for success and for invalid arguments is seen.
LEMMA SevereCode ==
  ASSUME TypeInv, NEW code \in Nat, code >= RET_CODE_CONVERTING_SOME_FILES_FAILED, set_return_code(code)
  PROVE  ReportInv'
<1>1. return_code' >= RET_CODE_CONVERTING_SOME_FILES_FAILED /\ return_code' \in Nat
  BY ReturnCodeTyped, CodesTyped DEF TypeInv, TypeOK
<1> QED
  BY <1>1, CodesTyped DEF ReportInv

LEMMA ReportInvNext ==
  ASSUME TypeInv, JobInv, OpenedInv, ReportInv, [Next]_vars
  PROVE  ReportInv'
<1> DEFINE Severe == {RET_CODE_CONVERTING_SOME_FILES_FAILED, RET_ABORTED_BY_SIGINT_OR_SIGTERM,
                      RET_CODE_DIR_ITER_FAILED, RET_CODE_LAME_ERROR}
<1>1. ASSUME NEW code \in Severe, set_return_code(code) PROVE ReportInv'
  <2>1. code \in Nat /\ code >= RET_CODE_CONVERTING_SOME_FILES_FAILED
    BY DEF RET_CODE_CONVERTING_SOME_FILES_FAILED, RET_ABORTED_BY_SIGINT_OR_SIGTERM,
       RET_CODE_DIR_ITER_FAILED, RET_CODE_LAME_ERROR
  <2> QED
    BY <1>1, <2>1, SevereCode
<1>2. CASE UNCHANGED vars
  BY <1>2 DEF vars, mainVars, jobVars, poolVars, ReportInv
<1>3. CASE IsMainStep \/ ClosePool \/ OpenOutput \/ ConvertFileThrows
  <2>1. CASE IterationFails
    BY <1>1, <2>1 DEF IterationFails
  <2>2. CASE ~IterationFails
    <3>1. UNCHANGED <<encPc, jobInput, executed, converted, _termination_requested>>
      BY <1>3, MainStepUnchanged DEF ClosePool, Close, OpenOutput, ConvertFileThrows, jobVars, poolVars
    <3>2. /\ return_code' = return_code
          /\ mainPc' \in {"closing", "returned"} =>
               /\ unvisited' = unvisited
               /\ unvisited = {} \/ _termination_requested \/ mainPc = "closing"
      BY <1>3, <2>2 DEF IsMainStep, NextEntry, EndOfIteration, Reject, Accept, TryName, NoNameLeft,
         NamingFails, OpenFails, ClosePool, OpenOutput, ConvertFileThrows
    <3> QED
      BY <3>1, <3>2 DEF ReportInv
  <2> QED
    BY <2>1, <2>2
<1>5. CASE signal_handler
  BY <1>1, <1>5 DEF signal_handler
<1>6. ASSUME NEW s \in Slots, Submit(s) PROVE ReportInv'
  <2>1. /\ UNCHANGED <<encPc, executed, converted, _termination_requested, return_code>>
        /\ mainPc' = "iterating"
    BY <1>6 DEF Submit, Give
  <2>2. \A j \in executed : jobInput'[j] = jobInput[j]
    BY <1>6, SubmitKeepsPool DEF TypeInv
  <2> QED
    BY <2>1, <2>2 DEF ReportInv
<1>7. ASSUME NEW s \in Slots, ConfigLameFails(s) \/ JobThrows(s) PROVE ReportInv'
  <2>1. PICK code \in {RET_CODE_CONVERTING_SOME_FILES_FAILED, RET_CODE_LAME_ERROR} : set_return_code(code)
    BY <1>7 DEF ConfigLameFails, JobThrows
  <2> QED
    BY <1>1, <2>1
<1>8. ASSUME NEW s \in Slots, StartJob(s) \/ ConfigLame(s) \/ ConvertChunk(s) \/ CheckTermination(s)
      PROVE  ReportInv'
  <2>1. UNCHANGED <<mainVars, jobInput, executed, converted, _termination_requested, return_code>>
    BY <1>8 DEF StartJob, Begin, ConfigLame, ConvertChunk, CheckTermination, poolVars
  <2>2. encPc'[s] = "remove" => _termination_requested
    BY <1>8 DEF StartJob, ConfigLame, ConvertChunk, CheckTermination, At, Continue, TypeInv, TypeOK
  <2>3. \A t \in Slots : t # s => encPc'[t] = encPc[t]
    BY <1>8 DEF StartJob, ConfigLame, ConvertChunk, CheckTermination, At, TypeInv, TypeOK
  <2> QED
    BY <2>1, <2>2, <2>3 DEF mainVars, ReportInv
<1>9. ASSUME NEW s \in Slots, Flush(s) \/ RemoveMp3File(s) PROVE ReportInv'
  <2>1. UNCHANGED <<mainVars, jobInput, _termination_requested, return_code>>
    BY <1>9 DEF Flush, RemoveMp3File
  <2>2. \A t \in Slots : encPc'[t] = IF t = s THEN "none" ELSE encPc[t]
    BY <1>9 DEF Flush, RemoveMp3File, At, TypeInv, TypeOK
  <2>3. CASE Flush(s)
    <3>1. /\ converted' = converted \cup {jobInput[slot[s].job]}
          /\ executed' = executed \cup {slot[s].job}
      BY <2>3 DEF Flush, InputOf, End
    <3> QED
      BY <2>1, <2>2, <3>1 DEF mainVars, ReportInv
  <2>4. CASE RemoveMp3File(s)
    <3>1. encPc[s] = "remove"
      BY <2>4 DEF RemoveMp3File, At
    <3> QED
      BY <2>1, <3>1 DEF ReportInv
  <2> QED
    BY <1>9, <2>3, <2>4
<1> QED
  BY <1>2, <1>3, <1>5, <1>6, <1>7, <1>8, <1>9, NextCases DEF IsMainStep, convert_file_worker

-----------------------------------------------------------------------------
(* The results *)

\* What holds for any configurations.
IInv == TypeInv /\ JobInv /\ OpenedInv /\ NameInv /\ KeptInv /\ ReportInv

LEMMA Invariant == Spec => []IInv
<1>1. Init => IInv
  BY TypeInvInit, JobInvInit, OpenedInvInit, NameInvInit, KeptInvInit, ReportInvInit DEF IInv
<1>2. IInv /\ [Next]_vars => IInv'
  BY TypeInvNext, JobInvNext, OpenedInvNext, NameInvNext, KeptInvNext, ReportInvNext DEF IInv
<1> QED
  BY <1>1, <1>2, PTL DEF Spec

\* What holds when no two conversions with -o touch the same file.
ApartInv == IInv /\ ExclusiveInv /\ PassInv /\ DataInv

LEMMA InvariantApart == ASSUME OutputsAreApart PROVE Spec => []ApartInv
<1>1. Init => ApartInv
  BY TypeInvInit, JobInvInit, OpenedInvInit, NameInvInit, KeptInvInit, ReportInvInit,
     ExclusiveInvInit, PassInvInit, DataInvInit DEF ApartInv, IInv
<1>2. ApartInv /\ [Next]_vars => ApartInv'
  BY TypeInvNext, JobInvNext, OpenedInvNext, NameInvNext, KeptInvNext, ReportInvNext,
     ExclusiveInvNext, PassInvNext, DataInvNext DEF ApartInv, IInv
<1> QED
  BY <1>1, <1>2, PTL DEF Spec

\* For any directory the state of the conversion keeps its types.
THEOREM TypeCorrect == Spec => []TypeOK
<1>1. IInv => TypeOK
  BY DEF IInv, TypeInv
<1> QED
  BY <1>1, Invariant, PTL

\* convert_wav_files.cpp:787: no existing file is overwritten, whatever the names
\* in the directory are, and with -o only those whose names are tried first.
THEOREM ExistingFilesAreKept == Spec => []OtherFilesAreKept
<1>1. IInv => OtherFilesAreKept
  BY DEF IInv, KeptInv, Protected, OtherFilesAreKept
<1> QED
  BY <1>1, Invariant, PTL

\* Whatever happens to the inputs that were given to the pool, the return code tells
\* of it, unless all of them were reported as converted.
THEOREM NoFailureIsSilent == Spec => []FailuresAreReported
<1>1. IInv => FailuresAreReported
  <2> SUFFICES ASSUME IInv, mainPc = "returned", return_code < RET_CODE_CONVERTING_SOME_FILES_FAILED,
                      NEW j \in DOMAIN jobInput
               PROVE  unvisited = {} /\ jobInput[j] \in converted
    BY DEF FailuresAreReported, IInv, ReportInv
  <2>1. j \in executed
    BY DEF IInv, JobInv, TypeInv, TypeOK, IdleSlot
  <2> QED
    BY <2>1 DEF IInv, ReportInv
<1> QED
  BY <1>1, Invariant, PTL

\* No two jobs write to one file, and what a job would remove is its own file.
THEOREM OutputsAreNotShared == ASSUME OutputsAreApart PROVE Spec => []OutputsAreExclusive
<1>1. ApartInv => OutputsAreExclusive
  <2> SUFFICES ASSUME ApartInv, NEW f \in Inputs, Writing(f)
               PROVE  /\ dir[mp3_path[f]] = out[f]
                      /\ \A g \in Inputs \ {f} : out[g] # out[f]
    BY DEF OutputsAreExclusive
  <2>1. out[f] # None /\ dir[mp3_path[f]] = out[f]
    BY WritingIsOpened DEF ApartInv, IInv, ExclusiveInv
  <2>2. \A g \in Inputs \ {f} : out[g] # out[f]
    BY <2>1, OutputsDiffer DEF ApartInv, IInv
  <2> QED
    BY <2>1, <2>2
<1> QED
  BY <1>1, InvariantApart, PTL

\* A file that is reported as converted is under its own name and whole, but for
\* what a full disk or a failing lame_encode_flush() cut off.
THEOREM ReportedFilesAreWhole == ASSUME OutputsAreApart PROVE Spec => []ReportedIsComplete
<1>1. ApartInv => ReportedIsComplete
  <2> SUFFICES ASSUME ApartInv, NEW f \in converted
               PROVE  /\ dir[mp3_path[f]] = out[f]
                      /\ Sent(f) = Mp3Of(f)
                      /\ \A part \in data[out[f]] : \A k \in 1..part[2] : <<f, k>> \in data[out[f]]
    BY DEF ReportedIsComplete
  <2>1. f \in Inputs
    BY DEF ApartInv, IInv, TypeInv, TypeOK
  <2>2. out[f] # None /\ dir[mp3_path[f]] = out[f]
    BY <2>1, WritingIsOpened DEF ApartInv, IInv, ExclusiveInv
  <2> QED
    BY <2>1, <2>2 DEF ApartInv, DataInv, Progress, Mp3Of
<1> QED
  BY <1>1, InvariantApart, PTL

\* When the program has returned, an output that is still there is either empty,
\* because its job could not start or was never enqueued, or whole, but for what a
\* full disk or a failing lame_encode_flush() cut off.
THEOREM NoPartialFileIsLeft == ASSUME OutputsAreApart PROVE Spec => []LeftoversAreEmpty
<1>1. ApartInv => LeftoversAreEmpty
  <2> SUFFICES ASSUME ApartInv, mainPc = "returned", NEW f \in Inputs, out[f] # None,
                      dir[mp3_path[f]] = out[f]
               PROVE  data[out[f]] = {} \/ Sent(f) = Mp3Of(f)
    BY DEF LeftoversAreEmpty
  <2>1. ~Writing(f)
    BY DEF ApartInv, IInv, JobInv, TypeInv, TypeOK, IdleSlot, Writing
  <2>2. CASE f \in converted
    BY <2>2 DEF ApartInv, DataInv, Progress, Mp3Of
  <2>3. CASE f \notin converted
    <3>1. pass[f] = 0
      BY <2>1, <2>3 DEF ApartInv, DataInv
    <3>2. Sent(f) = {f} \X (1..0)
      BY <2>3, <3>1 DEF ApartInv, DataInv, Progress
    <3> QED
      BY <3>2 DEF Sent
  <2> QED
    BY <2>2, <2>3
<1> QED
  BY <1>1, InvariantApart, PTL

-----------------------------------------------------------------------------
(* Refinements *)

\* The conversion uses the pool as JobPool allows.
THEOREM UsesPoolAsPromised == Spec => PoolSafety
<1>1. Init => PoolInit
  BY DEF Init
<1>2. [Next]_vars => [PoolNext]_poolVars
  <2> SUFFICES ASSUME [Next]_vars PROVE [PoolNext]_poolVars
    OBVIOUS
  <2>1. CASE UNCHANGED vars
    BY <2>1 DEF vars
  <2>2. CASE IsMainStep
    BY <2>2, MainStepUnchanged
  <2>3. CASE OpenOutput \/ signal_handler \/ ConvertFileThrows
    BY <2>3 DEF OpenOutput, signal_handler, ConvertFileThrows
  <2>4. CASE ClosePool
    BY <2>4 DEF ClosePool, PoolNext
  <2>5. ASSUME NEW s \in Slots, Submit(s) \/ convert_file_worker(s) PROVE [PoolNext]_poolVars
    <3>1. Submit(s) => Give(s)
      BY DEF Submit
    <3>2. convert_file_worker(s) => Begin(s) \/ End(s) \/ UNCHANGED poolVars
      BY WorkerCases DEF StartJob, Goes, Ends
    <3> QED
      BY <2>5, <3>1, <3>2 DEF PoolNext
  <2> QED
    BY <2>1, <2>2, <2>3, <2>4, <2>5, NextCases DEF IsMainStep
<1> QED
  BY <1>1, <1>2, PTL DEF Spec, PoolSafety

\* The fate of an output by what the invariant knows of it.
FateKnown(f) ==
    FateOf(f) = IF out[f] = None THEN "none"
                ELSE IF dir[mp3_path[f]] # out[f] THEN "removed"
                ELSE IF f \in converted THEN "complete" ELSE "incomplete"

LEMMA PartsSent ==
  ASSUME NEW f, NEW n \in Nat, NEW m \in Nat, n # m
  PROVE  {f} \X (1..n) # {f} \X (1..m)
<1>1. CASE n < m
  <2>1. <<f, m>> \in {f} \X (1..m) /\ <<f, m>> \notin {f} \X (1..n)
    BY <1>1
  <2> QED
    BY <2>1
<1>2. CASE m < n
  <2>1. <<f, n>> \in {f} \X (1..n) /\ <<f, n>> \notin {f} \X (1..m)
    BY <1>2
  <2> QED
    BY <2>1
<1> QED
  BY <1>1, <1>2

LEMMA FatesAreKnown == ASSUME TypeInv, PassInv, DataInv, NEW f \in Inputs PROVE FateKnown(f)
<1>1. pass[f] \in Nat /\ Passes[f] + 1 \in Nat /\ pass[f] # Passes[f] + 1
  BY ConversionAssumption DEF TypeInv, TypeOK, PassInv
<1>2. out[f] # None => Sent(f) = {f} \X (1..Progress(f))
  BY DEF DataInv
<1>3. f \in converted /\ out[f] # None => Sent(f) = Mp3Of(f)
  BY <1>2 DEF Progress, Mp3Of
<1>4. f \notin converted /\ out[f] # None => Sent(f) # Mp3Of(f)
  BY <1>1, <1>2, PartsSent DEF Progress, Mp3Of
<1> QED
  BY <1>3, <1>4 DEF FateKnown, FateOf

LEMMA FatesAreKnownNext == ASSUME TypeInv', PassInv', DataInv', NEW f \in Inputs PROVE FateKnown(f)'
<1>1. pass'[f] \in Nat /\ Passes[f] + 1 \in Nat /\ pass'[f] # Passes[f] + 1
  BY ConversionAssumption DEF TypeInv, TypeOK, PassInv
<1>2. out'[f] # None => Sent(f)' = {f} \X (1..Progress(f)')
  BY DEF DataInv
<1>3. f \in converted' /\ out'[f] # None => Sent(f)' = Mp3Of(f)
  BY <1>2 DEF Progress, Mp3Of
<1>4. f \notin converted' /\ out'[f] # None => Sent(f)' # Mp3Of(f)
  BY <1>1, <1>2, PartsSent DEF Progress, Mp3Of
<1> QED
  BY <1>3, <1>4 DEF FateKnown, FateOf

\* A step of one output.
FateGoes(g, here, there) ==
    /\ FateOf(g) = here /\ FateOf(g)' = there
    /\ \A f \in Inputs : f # g => FateOf(f)' = FateOf(f)

LEMMA FateSteps ==
  ASSUME OutputsAreApart, ApartInv, ApartInv', [Next]_vars
  PROVE  \/ converted' = converted /\ \A f \in Inputs : FateOf(f)' = FateOf(f)
         \/ \E g \in Inputs :
                \/ FateGoes(g, "none", "incomplete") /\ converted' = converted
                \/ FateGoes(g, "incomplete", "complete") /\ converted' = converted \cup {g}
                \/ FateGoes(g, "incomplete", "removed") /\ converted' = converted
<1> USE DEF ApartInv, IInv
<1>1. \A f \in Inputs : FateKnown(f) /\ FateKnown(f)'
  BY FatesAreKnown, FatesAreKnownNext
<1>2. \A f \in Inputs : out[f] # None => out[f] \in Files /\ mp3_path[f] \in Paths
  BY DEF OpenedInv, TypeInv, TypeOK
<1>3. CASE OpenOutput
  <2>1. /\ current \in Inputs /\ out[current] = None
        /\ \A f \in Inputs \ {current} : out[f] # None =>
               /\ out[f] # out'[current]
               /\ dir[mp3_path[f]] = out[f] => mp3_path[f] # Names[current][tries]
    BY <1>3, OpenKeepsExclusive
  <2>2. Names[current][tries] \in Paths /\ converted' = converted
    BY <1>3, OpenKeepsTypes DEF OpenOutput, jobVars
  <2>3. /\ \A f \in Inputs : f # current => out'[f] = out[f] /\ mp3_path'[f] = mp3_path[f]
        /\ mp3_path'[current] = Names[current][tries]
        /\ \A p \in Paths : dir'[p] = IF p = Names[current][tries] THEN out'[current] ELSE dir[p]
    BY <1>3, <2>1, <2>2 DEF OpenOutput, TypeInv, TypeOK
  <2>4. current \notin converted
    BY <2>1, WritingIsOpened
  <2>5. \A f \in Inputs : f # current => FateOf(f)' = FateOf(f)
    BY <1>1, <1>2, <2>1, <2>2, <2>3 DEF FateKnown
  <2>6. out'[current] # None /\ current' = current
    <3>1. current' = current /\ mainPc' = "submitting"
      BY <1>3 DEF OpenOutput
    <3> QED
      BY <2>1, <3>1 DEF OpenedInv
  <2>7. PICK c \in Inputs : c = current
    BY <2>1
  <2>8. FateOf(c) = "none" /\ FateOf(c)' = "incomplete"
    BY <1>1, <2>1, <2>2, <2>3, <2>4, <2>6, <2>7 DEF FateKnown
  <2>9. FateGoes(c, "none", "incomplete")
    BY <2>5, <2>7, <2>8 DEF FateGoes
  <2> QED
    BY <2>2, <2>9
<1>4. ASSUME NEW s \in Slots, ConvertChunk(s) PROVE converted' = converted /\ UNCHANGED <<dir, mp3_path, out>>
  BY <1>4, WriteOnlyToOut DEF ConvertChunk
<1>5. ASSUME NEW s \in Slots, Flush(s)
      PROVE  \E g \in Inputs : FateGoes(g, "incomplete", "complete") /\ converted' = converted \cup {g}
  <2>1. PICK g \in Inputs : g = InputOf(s)
    BY <1>5, WriteOnlyToOut
  <2>2. UNCHANGED <<dir, mp3_path, out>> /\ converted' = converted \cup {g}
    BY <1>5, <2>1, WriteOnlyToOut DEF Flush
  <2>3. out[g] # None /\ g \notin converted /\ dir[mp3_path[g]] = out[g]
    BY <1>5, <2>1, InputOfEnded, WritingIsOpened DEF Flush, At, ExclusiveInv
  <2>4. FateGoes(g, "incomplete", "complete")
    BY <1>1, <2>2, <2>3 DEF FateKnown, FateGoes
  <2> QED
    BY <2>2, <2>4
<1>6. ASSUME NEW s \in Slots, RemoveMp3File(s)
      PROVE  \E g \in Inputs : FateGoes(g, "incomplete", "removed") /\ converted' = converted
  <2>1. PICK g \in Inputs : g = InputOf(s) /\ Writing(g)
    BY <1>6, InputOfEnded DEF RemoveMp3File, At
  <2>2. /\ UNCHANGED <<mp3_path, out, converted>>
        /\ \A p \in Paths : dir'[p] = IF p = mp3_path[g] THEN None ELSE dir[p]
    BY <1>6, <2>1 DEF RemoveMp3File, TypeInv, TypeOK
  <2>3. out[g] # None /\ g \notin converted /\ dir[mp3_path[g]] = out[g]
    BY <2>1, WritingIsOpened DEF ExclusiveInv
  <2>4. \A f \in Inputs : f # g /\ out[f] # None => out[f] # out[g]
    BY <2>3, OutputsDiffer
  <2>5. \A f \in Inputs : f # g => FateOf(f)' = FateOf(f)
    BY <1>1, <1>2, <2>2, <2>3, <2>4 DEF FateKnown
  <2>6. FateOf(g) = "incomplete" /\ FateOf(g)' = "removed"
    BY <1>1, <1>2, <2>2, <2>3 DEF FateKnown
  <2> QED
    BY <2>2, <2>5, <2>6 DEF FateGoes
<1>7. CASE converted' = converted /\ UNCHANGED <<dir, mp3_path, out>>
  BY <1>1, <1>7 DEF FateKnown
<1> QED
  BY <1>3, <1>4, <1>5, <1>6, <1>7, FileCases, UnchangedCounts DEF fileVars

\* Each output goes through the life that a user expects: created, and then
\* complete when it is reported, or removed.
THEOREM ImplementsLifeOfOutputs == ASSUME OutputsAreApart PROVE Spec => ImplementsOutputFiles
<1> DEFINE fates == [f \in Inputs |-> FateOf(f)]
<1>1. Init => Outputs!OutputInit
  <2> SUFFICES ASSUME Init PROVE Outputs!OutputInit
    OBVIOUS
  <2>1. \A f \in Inputs : FateOf(f) = "none"
    BY DEF Init, FateOf
  <2> QED
    BY <2>1 DEF Init, Outputs!OutputInit
<1>2. ApartInv /\ ApartInv' /\ [Next]_vars => [Outputs!OutputNext]_(Outputs!outputVars)
  <2> SUFFICES ASSUME ApartInv, ApartInv', [Next]_vars
               PROVE  [Outputs!OutputNext]_(Outputs!outputVars)
    OBVIOUS
  <2>1. CASE converted' = converted /\ \A f \in Inputs : FateOf(f)' = FateOf(f)
    BY <2>1 DEF Outputs!outputVars
  <2>2. ASSUME NEW g \in Inputs, NEW here, NEW there, FateGoes(g, here, there)
        PROVE  fates[g] = here /\ fates' = [fates EXCEPT ![g] = there]
    BY <2>2 DEF FateGoes
  <2>3. ASSUME NEW g \in Inputs, FateGoes(g, "none", "incomplete"), converted' = converted
        PROVE  Outputs!Create(g)
    BY <2>2, <2>3 DEF Outputs!Create
  <2>4. ASSUME NEW g \in Inputs, FateGoes(g, "incomplete", "complete"), converted' = converted \cup {g}
        PROVE  Outputs!Complete(g)
    BY <2>2, <2>4 DEF Outputs!Complete
  <2>5. ASSUME NEW g \in Inputs, FateGoes(g, "incomplete", "removed"), converted' = converted
        PROVE  Outputs!Remove(g)
    BY <2>2, <2>5 DEF Outputs!Remove
  <2> QED
    BY <2>1, <2>3, <2>4, <2>5, FateSteps DEF Outputs!OutputNext
<1> QED
  BY <1>1, <1>2, InvariantApart, PTL DEF Spec, ImplementsOutputFiles, Outputs!OutputSpec
=============================================================================
