----------------------------- MODULE Conversion -----------------------------
(***************************************************************************)
(* The conversion of a directory, src/src/convert_wav_files.cpp: the main  *)
(* thread iterates over the files, chooses and opens an output file for    *)
(* each one and enqueues a job; the jobs write and, when they fail or the  *)
(* user interrupts the program, remove their output.  The thread pool is   *)
(* the one of JobPool, which ThreadPool implements: every Give, Begin, End *)
(* and Close here is a step of it.                                         *)
(*                                                                         *)
(* A directory entry leads to a file, and an open stream stays on its file *)
(* when the entry goes away, as on POSIX.  What a file holds is a set of   *)
(* parts: <<f, 0>> is what was in f before the program ran, <<f, k>> with  *)
(* k > 0 is what the k-th write of the job converting f produced.  The     *)
(* program removes files that it has just created: that removing them may  *)
(* fail is left out.  A write may fail, which nobody notices, and all      *)
(* later writes to that stream fail with it.  So does writing what         *)
(* lame_encode_flush() returned when that is an error code.                *)
(***************************************************************************)
EXTENDS JobPool, Sequences, FiniteSets
LOCAL INSTANCE SequencesExt

CONSTANTS
    Configurations, \* what the program may find and be told: records of
                \*   inputs:    the files that are visited and given to convert_file(),
                \*   existing:  the other files that exist at the beginning,
                \*   overwrite: Configuration::overwrite_existing_mp3()
    Numbers,    \* the texts of the numbers in names, as far as they are tried
    Passes,     \* Passes[f]: how often the loop over the samples of f is executed
    DiskMayFill,    \* whether writing may fail
    None        \* no file

Inputs == UNION {c.inputs : c \in Configurations}

\* The name of a file is the sequence of the parts that the program tells apart,
\* as <<"x", " (1)", ".mp3">>; its last part is its extension.
\* case_insensitive_compare(extension, ".wav")
case_insensitive_compare(extension) ==
    extension \in {".wav", ".waV", ".wAv", ".wAV", ".Wav", ".WaV", ".WAv", ".WAV"}

\* Without ".wav", or the whole name when it does not end with it.
mp3_path_base(f) == IF case_insensitive_compare(Last(f)) THEN Front(f) ELSE f

\* Names[f]: the names that open_output_stream() tries for f.  It has UINT16_MAX
\* of them, the model one without a number and one for each element of Numbers.
Names == [f \in Inputs |->
    <<mp3_path_base(f) \o <<".mp3">> >> \o
        [i \in DOMAIN Numbers |-> mp3_path_base(f) \o <<Numbers[i], ".mp3">>] ]

Paths == Inputs \cup (UNION {c.existing : c \in Configurations})
      \cup (UNION { {Names[f][i] : i \in DOMAIN Names[f]} : f \in Inputs})

\* A file is the one that existed at path p, or the one created for input f.
Original(p) == <<p, "original">>
Created(f) == <<f, "created">>
Files == Paths \X {"original", "created"}

Parts == Paths \X Nat
Untouched(p) == {<<p, 0>>}

\* All that the job for f has to write: a part per pass, and lame_encode_flush().
Mp3Of(f) == {f} \X (1..(Passes[f] + 1))

ASSUME ConversionAssumption ==
    /\ \A c \in Configurations :
          c.inputs \cap c.existing = {} /\ c.overwrite \in BOOLEAN
    /\ IsFiniteSet(Inputs)
    /\ Numbers \in Seq(STRING)
    /\ JobCount = Cardinality(Inputs)
    /\ Passes \in [Inputs -> Nat]
    /\ DiskMayFill \in BOOLEAN
    /\ None \notin Files \cup Paths

\* return_code.h:7
RET_CODE_INVALID_ARGUMENTS == 1
RET_CODE_CONVERTING_SOME_FILES_FAILED == 2
RET_ABORTED_BY_SIGINT_OR_SIGTERM == 3
RET_CODE_DIR_ITER_FAILED == 4
RET_CODE_LAME_ERROR == 7

VARIABLES
    config,
    mainPc,         \* where the main thread is
    unvisited,      \* the inputs that the iterator has not yet returned
    current,        \* the argument of convert_file()
    tries,          \* the names that open_output_stream() has come to
    dir,            \* the file each path leads to, or None
    data,           \* what each file holds
    lost,           \* the parts whose writing failed
    mp3_path,       \* the name of the output of each input, or None
    out,            \* the file that the output stream of each input writes to
    jobInput,       \* the input of each job given to the pool
    encPc,          \* where each worker is in convert_file_worker()
    pass,           \* how many passes the job for each input has completed
    converted,      \* the inputs reported as converted
    _termination_requested,
    return_code

mainVars == <<config, mainPc, unvisited, current, tries>>
fileVars == <<dir, data, lost, mp3_path, out>>
jobVars == <<jobInput, encPc, pass, converted>>
vars == <<mainVars, fileVars, jobVars, _termination_requested, return_code, poolVars>>

MainStates == {"iterating", "reading", "naming", "opening", "submitting",
               "closing", "returned"}

EncoderStates == {"none", "configure", "encode", "check", "flush", "remove"}

Init ==
    /\ config \in Configurations
    /\ mainPc = "iterating"
    /\ unvisited = config.inputs
    /\ current = None
    /\ tries = 1
    /\ dir = [p \in Paths |-> IF p \in config.inputs \cup config.existing THEN Original(p) ELSE None]
    /\ data = [x \in Files |-> IF x[2] = "original" THEN Untouched(x[1]) ELSE {}]
    /\ lost = {}
    /\ mp3_path = [f \in Inputs |-> None]
    /\ out = [f \in Inputs |-> None]
    /\ jobInput = <<>>
    /\ encPc = [s \in Slots |-> "none"]
    /\ pass = [f \in Inputs |-> 0]
    /\ converted = {}
    /\ _termination_requested = FALSE
    /\ return_code = RET_CODE_INVALID_ARGUMENTS   \* left by parse_arguments()
    /\ PoolInit

\* The severest code wins.
set_return_code(code) ==
    return_code' = IF code > return_code THEN code ELSE return_code

-----------------------------------------------------------------------------
(* convert_all_wav_files_in_directory() *)

\* The loop goes on to entry f, for which the user has not interrupted it.
NextEntry(f) ==
    /\ mainPc = "iterating"
    /\ f \in unvisited
    /\ ~_termination_requested
    /\ unvisited' = unvisited \ {f}
    /\ current' = f
    /\ mainPc' = "reading"
    /\ UNCHANGED <<config, tries, fileVars, jobVars, _termination_requested, return_code, poolVars>>

\* All entries have been visited, or the user has interrupted the program.
EndOfIteration ==
    /\ mainPc = "iterating"
    /\ unvisited = {} \/ _termination_requested
    /\ mainPc' = "closing"
    /\ UNCHANGED <<config, unvisited, current, tries, fileVars, jobVars,
                   _termination_requested, return_code, poolVars>>

\* The directory iterator throws.
IterationFails ==
    /\ mainPc = "iterating"
    /\ set_return_code(RET_CODE_DIR_ITER_FAILED)
    /\ mainPc' = "closing"
    /\ UNCHANGED <<config, unvisited, current, tries, fileVars, jobVars,
                   _termination_requested, poolVars>>

\* The destructor of thread_pool waits for the jobs.
ClosePool ==
    /\ mainPc = "closing"
    /\ Close
    /\ mainPc' = "returned"
    /\ UNCHANGED <<config, unvisited, current, tries, fileVars, jobVars,
                   _termination_requested, return_code>>

-----------------------------------------------------------------------------
(* convert_file() *)

\* The file cannot be read or is no WAV file that can be converted.
Reject ==
    /\ mainPc = "reading"
    /\ mainPc' = "iterating"
    /\ UNCHANGED <<config, unvisited, current, tries, fileVars, jobVars,
                   _termination_requested, return_code, poolVars>>

\* Mutant: the names are counted from zero.
AcceptFromZero ==
    /\ mainPc = "reading"
    /\ dir[current] # None
    /\ data[dir[current]] = Untouched(current)
    /\ tries' = 0
    /\ mainPc' = "naming"
    /\ UNCHANGED <<config, unvisited, current, fileVars, jobVars,
                   _termination_requested, return_code, poolVars>>

\* What is found under the name is still the WAV file.
Accept ==
    /\ mainPc = "reading"
    /\ dir[current] # None
    /\ data[dir[current]] = Untouched(current)
    /\ tries' = 1
    /\ mainPc' = "naming"
    /\ UNCHANGED <<config, unvisited, current, fileVars, jobVars,
                   _termination_requested, return_code, poolVars>>

\* Mutant: the first name is taken whether it exists or not.
TryNameUntested ==
    /\ mainPc = "naming"
    /\ tries <= Len(Names[current])
    /\ IF TRUE
       THEN mainPc' = "opening" /\ UNCHANGED tries
       ELSE tries' = tries + 1 /\ UNCHANGED mainPc
    /\ UNCHANGED <<config, unvisited, current, fileVars, jobVars,
                   _termination_requested, return_code, poolVars>>

\* Mutant: the number in the name is never increased.
TryNameForever ==
    /\ mainPc = "naming"
    /\ tries <= Len(Names[current])
    /\ IF config.overwrite \/ dir[Names[current][tries]] = None
       THEN mainPc' = "opening" /\ UNCHANGED tries
       ELSE UNCHANGED <<tries, mainPc>>
    /\ UNCHANGED <<config, unvisited, current, fileVars, jobVars,
                   _termination_requested, return_code, poolVars>>

\* open_output_stream(): a name is taken that does not exist, or any name.
TryName ==
    /\ mainPc = "naming"
    /\ tries <= Len(Names[current])
    /\ IF config.overwrite \/ dir[Names[current][tries]] = None
       THEN mainPc' = "opening" /\ UNCHANGED tries
       ELSE tries' = tries + 1 /\ UNCHANGED mainPc
    /\ UNCHANGED <<config, unvisited, current, fileVars, jobVars,
                   _termination_requested, return_code, poolVars>>

\* Every name up to UINT16_MAX exists.
NoNameLeft ==
    /\ mainPc = "naming"
    /\ tries > Len(Names[current])
    /\ mainPc' = "iterating"
    /\ UNCHANGED <<config, unvisited, current, tries, fileVars, jobVars,
                   _termination_requested, return_code, poolVars>>

\* fs::exists() throws a filesystem_error, which open_output_stream() catches.
NamingFails ==
    /\ mainPc = "naming"
    /\ mainPc' = "iterating"
    /\ UNCHANGED <<config, unvisited, current, tries, fileVars, jobVars,
                   _termination_requested, return_code, poolVars>>

\* Mutant: the number is not appended to the name.
OpenBaseName ==
    /\ mainPc = "opening"
    /\ LET path == Names[current][1]
           file == IF dir[path] = None THEN Created(current) ELSE dir[path] IN
       /\ dir' = [dir EXCEPT ![path] = file]
       /\ data' = [data EXCEPT ![file] = {}]
       /\ mp3_path' = [mp3_path EXCEPT ![current] = path]
       /\ out' = [out EXCEPT ![current] = file]
    /\ UNCHANGED lost
    /\ mainPc' = "submitting"
    /\ UNCHANGED <<config, unvisited, current, tries, jobVars,
                   _termination_requested, return_code, poolVars>>

\* open() with ios::trunc creates the file or empties the one that is there.
OpenOutput ==
    /\ mainPc = "opening"
    /\ LET path == Names[current][tries]
           file == IF dir[path] = None THEN Created(current) ELSE dir[path] IN
       /\ dir' = [dir EXCEPT ![path] = file]
       /\ data' = [data EXCEPT ![file] = {}]
       /\ mp3_path' = [mp3_path EXCEPT ![current] = path]
       /\ out' = [out EXCEPT ![current] = file]
    /\ UNCHANGED lost
    /\ mainPc' = "submitting"
    /\ UNCHANGED <<config, unvisited, current, tries, jobVars,
                   _termination_requested, return_code, poolVars>>

\* The file cannot be created.
OpenFails ==
    /\ mainPc = "opening"
    /\ mainPc' = "iterating"
    /\ UNCHANGED <<config, unvisited, current, tries, fileVars, jobVars,
                   _termination_requested, return_code, poolVars>>

\* An exception between open() and enqueue(), say for want of memory, is caught:
\* the output stays behind empty, and nothing sets the return code.
ConvertFileThrows ==
    /\ mainPc = "submitting"
    /\ mainPc' = "iterating"
    /\ UNCHANGED <<config, unvisited, current, tries, fileVars, jobVars,
                   _termination_requested, return_code, poolVars>>

\* thread_pool.enqueue() waits for an idle worker and gives it the job.
Submit(s) ==
    /\ mainPc = "submitting"
    /\ Give(s)
    /\ jobInput' = Append(jobInput, current)
    /\ mainPc' = "iterating"
    /\ UNCHANGED <<config, unvisited, current, tries, fileVars, encPc, pass, converted,
                   _termination_requested, return_code>>

-----------------------------------------------------------------------------
(* convert_file_worker() *)

\* The input that worker s converts.
InputOf(s) == jobInput[slot[s].job]

At(s, from, to) ==
    /\ slot[s].state = "executing"
    /\ encPc[s] = from
    /\ encPc' = [encPc EXCEPT ![s] = to]

\* A part is not written.
Lose(f, k) == lost' = lost \cup {<<f, k>>} /\ UNCHANGED data

\* out->write(), whose failure is not tested and lasts.
Write(f, k) ==
    \/ /\ ~\E part \in lost : part[1] = f
       /\ data' = [data EXCEPT ![out[f]] = @ \cup {<<f, k>>}]
       /\ UNCHANGED lost
    \/ (DiskMayFill \/ \E part \in lost : part[1] = f) /\ Lose(f, k)

\* What is encoded when nothing can be read: in->read() is not tested.
Silence(f) == Passes[f] + 2

\* The next part of the output of f, if the input stream still has its file.
NextPart(f) == IF data[Original(f)] = Untouched(f) THEN pass[f] + 1 ELSE Silence(f)

\* Mutant: the last pass is left out.
ContinueTooShort(f) == IF pass[f] + 1 < Passes[f] THEN "encode" ELSE "flush"

Continue(f) == IF pass[f] < Passes[f] THEN "encode" ELSE "flush"

StartJob(s) ==
    /\ Begin(s)
    /\ encPc' = [encPc EXCEPT ![s] = "configure"]
    /\ UNCHANGED <<mainVars, fileVars, jobInput, pass, converted,
                   _termination_requested, return_code>>

\* config_lame() succeeds.
ConfigLame(s) ==
    /\ At(s, "configure", Continue(InputOf(s)))
    /\ UNCHANGED <<mainVars, fileVars, jobInput, pass, converted,
                   _termination_requested, return_code, poolVars>>

\* Mutant: config_lame() fails without print_error().
ConfigLameFailsSilently(s) ==
    /\ At(s, "configure", "none")
    /\ End(s)
    /\ UNCHANGED <<mainVars, fileVars, jobInput, pass, converted,
                   _termination_requested, return_code>>

\* config_lame() prints an error and returns false: so does the job.
ConfigLameFails(s) ==
    /\ At(s, "configure", "none")
    /\ \E code \in {RET_CODE_CONVERTING_SOME_FILES_FAILED, RET_CODE_LAME_ERROR} :
            set_return_code(code)
    /\ End(s)
    /\ UNCHANGED <<mainVars, fileVars, jobInput, pass, converted, _termination_requested>>

\* The samples of one pass are encoded and written.
ConvertChunk(s) ==
    LET f == InputOf(s) IN
    /\ At(s, "encode", "check")
    /\ Write(f, NextPart(f))
    /\ pass' = [pass EXCEPT ![f] = @ + 1]
    /\ UNCHANGED <<mainVars, dir, mp3_path, out, jobInput, converted,
                   _termination_requested, return_code, poolVars>>

\* Mutant: the catch clauses do not call remove_mp3_file().
JobThrowsKeepsFile(s) ==
    /\ At(s, "configure", "none") \/ At(s, "encode", "none") \/ At(s, "flush", "none")
    /\ \E code \in {RET_CODE_CONVERTING_SOME_FILES_FAILED, RET_CODE_LAME_ERROR} :
            set_return_code(code)
    /\ End(s)
    /\ UNCHANGED <<mainVars, fileVars, jobInput, pass, converted, _termination_requested>>

\* An exception in the constructor of LameInit, while converting a chunk, or while
\* the lingering data are fetched and reported.
JobThrows(s) ==
    /\ At(s, "configure", "remove") \/ At(s, "encode", "remove") \/ At(s, "flush", "remove")
    /\ \E code \in {RET_CODE_CONVERTING_SOME_FILES_FAILED, RET_CODE_LAME_ERROR} :
            set_return_code(code)
    /\ UNCHANGED <<mainVars, fileVars, jobInput, pass, converted,
                   _termination_requested, poolVars>>

\* After each chunk the job tests whether the user has interrupted the program.
CheckTermination(s) ==
    /\ At(s, "check", IF _termination_requested THEN "remove" ELSE Continue(InputOf(s)))
    /\ UNCHANGED <<mainVars, fileVars, jobInput, pass, converted,
                   _termination_requested, return_code, poolVars>>

\* Mutant: what lame_encode_flush() returns is not written.
FlushNothing(s) ==
    LET f == InputOf(s) IN
    /\ At(s, "flush", "none")
    /\ converted' = converted \cup {f}
    /\ End(s)
    /\ UNCHANGED <<mainVars, fileVars, jobInput, pass,
                   _termination_requested, return_code>>

\* The lingering data are written, the file is reported as converted.  The result
\* of lame_encode_flush() is not tested: a negative one as the length of what is
\* to be written makes write() fail.
Flush(s) ==
    LET f == InputOf(s)
        last == Passes[f] + 1 IN
    /\ At(s, "flush", "none")
    /\ Write(f, last) \/ Lose(f, last)
    /\ converted' = converted \cup {f}
    /\ End(s)
    /\ UNCHANGED <<mainVars, dir, mp3_path, out, jobInput, pass,
                   _termination_requested, return_code>>

\* remove_mp3_file()
RemoveMp3File(s) ==
    /\ At(s, "remove", "none")
    /\ dir' = [dir EXCEPT ![mp3_path[InputOf(s)]] = None]
    /\ End(s)
    /\ UNCHANGED <<mainVars, data, lost, mp3_path, out, jobInput, pass, converted,
                   _termination_requested, return_code>>
-----------------------------------------------------------------------------
(* SIGINT or SIGTERM is handled, by whatever thread it interrupts. *)
signal_handler ==
    /\ ~_termination_requested
    /\ mainPc # "returned"
    /\ _termination_requested' = TRUE
    /\ set_return_code(RET_ABORTED_BY_SIGINT_OR_SIGTERM)
    /\ UNCHANGED <<mainVars, fileVars, jobVars, poolVars>>

MainGoesOn ==
    \/ \E f \in Inputs : NextEntry(f)
    \/ EndOfIteration \/ ClosePool
    \/ Reject \/ Accept \/ TryName \/ NoNameLeft \/ OpenOutput
    \/ \E s \in Slots : Submit(s)

MainFails == IterationFails \/ NamingFails \/ OpenFails \/ ConvertFileThrows

Main == MainGoesOn \/ MainFails

convert_file_worker(s) ==
    \/ StartJob(s) \/ ConfigLame(s) \/ ConfigLameFails(s)
    \/ ConvertChunk(s) \/ JobThrows(s) \/ CheckTermination(s)
    \/ Flush(s) \/ RemoveMp3File(s)

Returned == mainPc = "returned" /\ UNCHANGED vars

Next ==
    \/ Main
    \/ \E s \in Slots : convert_file_worker(s)
    \/ signal_handler
    \/ Returned

Spec == Init /\ [][Next]_vars

\* Every thread that is not blocked goes on; main does so without the help of
\* errors, and nobody has to press Ctrl-C.
FairSpec ==
    /\ Spec
    /\ WF_vars(MainGoesOn)
    /\ \A s \in Slots : WF_vars(convert_file_worker(s))

-----------------------------------------------------------------------------
(* Properties *)

TypeOK ==
    /\ config \in Configurations
    /\ mainPc \in MainStates
    /\ unvisited \subseteq Inputs
    /\ current \in Inputs \cup {None}
    /\ tries \in Nat \ {0}
    /\ dir \in [Paths -> Files \cup {None}]
    /\ data \in [Files -> SUBSET Parts]
    /\ lost \subseteq Parts
    /\ mp3_path \in [Inputs -> Paths \cup {None}]
    /\ out \in [Inputs -> Files \cup {None}]
    /\ jobInput \in Seq(Inputs)
    /\ encPc \in [Slots -> EncoderStates]
    /\ pass \in [Inputs -> Nat]
    /\ converted \subseteq Inputs
    /\ _termination_requested \in BOOLEAN
    /\ return_code \in Nat

\* What was found under path p at the beginning is still there, unchanged.
Kept(p) == dir[p] = Original(p) /\ data[Original(p)] = Untouched(p)

\* convert_wav_files.cpp:787: the name of an output file is "chosen such that
\* no existing file is overwritten", whatever fails or is interrupted later.
\* With -o, a file changes only when it has the first name tried for an input.
OtherFilesAreKept ==
    \A p \in config.inputs \cup config.existing :
        (config.overwrite => \A f \in config.inputs : p # Names[f][1]) => Kept(p)

\* What the output of f would hold if no write had failed.  A file that a full disk
\* or a failing lame_encode_flush() has cut short counts as complete below.
Sent(f) == data[out[f]] \cup {part \in lost : part[1] = f}

\* A file that was reported as converted is there under its own name and holds
\* the whole output of its job and nothing else, but for what a full disk or a
\* failing lame_encode_flush() lost: then it holds the beginning of it.
ReportedIsComplete ==
    \A f \in converted :
        /\ dir[mp3_path[f]] = out[f]
        /\ Sent(f) = Mp3Of(f)
        /\ \A part \in data[out[f]] : \A k \in 1..part[2] : <<f, k>> \in data[out[f]]

\* The job for f may still write to its output stream.
Writing(f) ==
    \/ mainPc = "submitting" /\ current = f
    \/ \E j \in DOMAIN jobInput : jobInput[j] = f /\ j \notin executed

\* An output stream has a file of its own as long as a job may write to it, and
\* the name that the job would remove still leads to that file.
OutputsAreExclusive ==
    \A f \in Inputs : Writing(f) =>
        /\ dir[mp3_path[f]] = out[f]
        /\ \A g \in Inputs \ {f} : out[g] # out[f]

\* What the program created and neither completed nor removed before it
\* returned: nothing but empty files, left by jobs that could not start and by
\* exceptions before the job was enqueued.  A file cut short by a full disk counts
\* as complete (Sent).
LeftoversAreEmpty ==
    mainPc = "returned" =>
        \A f \in Inputs : out[f] # None /\ dir[mp3_path[f]] = out[f] =>
            data[out[f]] = {} \/ Sent(f) = Mp3Of(f)

\* An input that was given to the pool and not converted is never passed over in
\* silence, nor is an iteration that stopped early: the return code tells of it.
\* Inputs that convert_file() itself gives up do not show in the return code.
FailuresAreReported ==
    mainPc = "returned" /\ return_code < RET_CODE_CONVERTING_SOME_FILES_FAILED =>
        unvisited = {} /\ {jobInput[j] : j \in DOMAIN jobInput} \subseteq converted

\* The program ends: main never waits forever for an idle worker or a job.
ProgramReturns == <>(mainPc = "returned")

\* The fate of the output of f.
FateOf(f) ==
    IF out[f] = None THEN "none"
    ELSE IF dir[mp3_path[f]] # out[f] THEN "removed"
    ELSE IF Sent(f) = Mp3Of(f) THEN "complete" ELSE "incomplete"

\* Each output goes through the life that OutputFiles describes.
Outputs == INSTANCE OutputFiles WITH
    Sources <- Inputs, fate <- [f \in Inputs |-> FateOf(f)], announced <- converted

ImplementsOutputFiles == Outputs!OutputSpec
=============================================================================
