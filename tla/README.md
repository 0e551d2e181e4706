# wav2mp3 in TLA+

`wav2mp3` converts the WAV files of a directory into MP3 files. It is a C++17 program of a
main thread, a pool of worker threads and a handler for SIGINT and SIGTERM. This directory
holds its model: TLA+ modules translated from the sources in `src/src`, instances of them
that TLC checks, and theorems that TLAPS proves.

## The system

| component | source | state | operations |
|---|---|---|---|
| thread queue | `thread_queue*.h` | a `std::queue`, a mutex, a condition variable | `enqueue()`, `dequeue()` |
| thread pool | `thread_pool.*` | threads, a queue per thread, a queue of idle threads, the number of the thread being started | constructor, `enqueue()`, destructor, `thread_function()` |
| conversion of a directory | `convert_wav_files.cpp` 430-869 | the iterator, the files of the directory, the streams of the jobs | iteration, `convert_file()`, `open_output_stream()`, `convert_file_worker()` |
| RIFF and WAV reading | `convert_wav_files.cpp` 22-185, 300-360, 732-785 | an `ifstream` with its error bits, maps of chunk positions | `read_all_chunks()` and its callers |
| format header check | `convert_wav_files.cpp` 186-293, `riff_format.h`, `guid.*` | none | `check_sane_pcm_or_ieee_float_format_header()` |
| meta data, sample loop | `convert_wav_files.cpp` 175-184, 492-721 | the stream, the residual number of samples | `aggregate_meta_data()`, `create_id3_v2_tags()`, `convert_*_chunk()` |
| signal handler | `signal_handler.*` | `_termination_requested`, a mutex | `signal_handler()`, `termination_requested()` |
| return code | `return_code.*` | an `int`, a mutex | `set_return_code()`, `get_return_code()` |
| thread safe streams | `tiostream.*` | a mutex for both streams | `operator<<` |
| program start | `wav2mp3.cpp`, `check_directory.*` | none | `main()`, `check_directory()` |
| command line | `configuration.*` | the options | `parse_arguments()` |
| option parser | `cxxopts.hpp` | the declared options, how often each was given, the variables of their values | `parse()`, `count()`, `integer_parser()`, `help()` |
| error exit | `check_pthread_error.*` | none | `check_pthread_error()` |
| LAME wrapper | `lame_init.*` | a LAME handle | `check_error()` |
| pthread wrappers | `mutex.*`, `condition_variable.*`, `thread.*` | POSIX objects | lock, unlock, wait, notify, create, join |

How they interact. `main()` parses the options and iterates over the directory. For each
file it finds the chunks, checks the format header, opens an output under a name that is
free, and passes a closure to `ThreadPool::enqueue()`, which waits for an idle worker and
puts the closure into that worker's queue. Workers announce that they are idle through
another queue. A job reads the texts and the samples from the stream that the main thread
opened, and writes to the output that it opened. The main thread before each file, and each
job after each pass of its loop, ask `termination_requested()`. The destructor of the pool sends each worker a
`nullptr` and joins it. Every thread and the handler print through one mutex and set one
return code, which is only ever raised. A pthread call that fails ends the process from
whatever thread it is on, past that return code.

What is hard in it:

- a condition variable whose `wait()` is called under an `if`, in the queue, and under nothing
  at all, in the start of the pool;
- one variable, `_thread_number`, through which all workers get their numbers;
- names that are chosen by one thread while others remove files;
- failures in the middle of a job, and the removal of what it has written;
- an interruption at any point, by a handler that itself locks mutexes;
- arithmetic on sizes that come from a file, in `uint32_t` and `uint16_t`, and on numbers of the
  command line, in the width of their variables;
- a parser in which what an argument is depends on the arguments before it;
- an exit on any thread, and static mutexes that are destroyed while a handler may still run;
- a stream whose fail bit is never cleared, and which is handed on between functions and
  threads.

What makes it correct. The queue passes on every element once, in order, and never reads
an empty `std::queue`. The pool executes each job once, by an idle worker, and its
destructor is a barrier. No file that the user has is overwritten (without `-o`), no two
jobs write to one file, a job that fails or is interrupted leaves nothing or an empty file behind, and shows in the
return code. A full disk is not noticed: the file is cut short and reported all the same. Nor do inputs show in the
code that `convert_file()` gives up itself, be they rejected, without a free name, or interrupted by an exception
before their job is enqueued. Chunks are inside the file and inside what contains them, do not overlap, and
are found; what the documentation lists as supported is converted, all of it. The program
ends, and with the severest return code. What is configured is what the arguments say when they
are read as a whole, and what is refused is refused for a fault.

## Modules

| module | models | builds on |
|---|---|---|
| `BlockingFifo` | what `thread_queue.h` promises: a FIFO queue that blocks | |
| `ThreadQueue` | `enqueue()` and `dequeue()`, one action per mutex or condition variable operation | implements `BlockingFifo` |
| `ThreadQueueProofs` | theorems on `ThreadQueue` | |
| `JobPool` | what `thread_pool.h` promises: jobs, idle workers, a barrier | |
| `ThreadPool` | `thread_pool.cpp`, one action per critical section | implements `JobPool` |
| `ThreadPoolProofs` | theorems on `ThreadPool` | |
| `OutputFiles` | what a user expects of each output: it is empty, partly written, complete or gone, as its report says | |
| `Conversion` | the conversion of a directory on a small file system | extends `JobPool`, implements `OutputFiles` |
| `ConversionProofs` | theorems on `Conversion` | |
| `FormatHeader` | the format header and its check | |
| `WavReader` | from opening a file to the verdict on it | extends `FormatHeader` |
| `WavConversion` | from there to the end of the sample loop | extends `WavReader` |
| `WavLayouts` | files made from layouts, and what is to be found in them | extends `WavReader` |
| `WavConversionProofs` | theorems on the four | |
| `IntegerText` | `integer_parser()` as a function of a text | |
| `IntegerParser` | the loop of `integer_parser()`, digit by digit | extends `IntegerText` |
| `CommandLine` | `parse_arguments()` with the parser of `cxxopts.hpp` | instantiates `IntegerText` for `int` and `uint16_t` |
| `CommandLineProofs` | theorems on `CommandLine` | |
| `HelpText` | the text of `--help`, with its line breaks | |
| `CxxoptsProofs` | theorems on the two algorithms of `cxxopts.hpp`, `IntegerParser` and `HelpText` | |
| `Program` | the program from `main()` to its return code, with its three mutexes and the handler | |
| `ProgramProofs` | theorems on `Program` | |
| `Induction` | induction over natural numbers, and functions defined by recursion, as lemmas for the proofs | |
| `MC*` | the instances for TLC | |

**ThreadQueue.** `pc` says where a thread is in one of the two functions; `mutex`, `queue`
are the members of the class. `Wait` is the atomic release of the mutex by
`pthread_cond_wait()`, `WaitReturns` the return with the mutex, after which the test for
emptiness is not repeated (line 15 has `if`). The last part of `TypeOK` says that the mutex is held by
nobody but a thread in one of the critical sections: a consumer that waits has given it back. `TakeFromEmpty` is `front()` of an empty queue,
which is undefined: the model notes it in `corrupt` and stops.

**ThreadPool.** `mainPc` is the main thread in constructor, `enqueue()` and destructor, `pc`
each worker in `thread_function()`. A critical section is one step, which
`CriticalSectionsExclude` on `ThreadQueue` justifies; a `dequeue()` that must wait is two.
With `SpuriousWakeups` a wait may return early, as POSIX allows, and what the code then does
is followed: `start_all_threads()` goes on before the number was copied.

**Conversion.** A file is distinct from the name it is found under, so that a stream stays on
a file that was replaced. What a file holds is a set of parts, one per write. `Names` computes the
names that `open_output_stream()` tries for an input, from a base that it loses its `.wav` to; a
name is a stem, the number put behind it, and a suffix. `TryName`, then
`OpenOutput` are the test with `fs::exists()` and the `open()` after it, with all other threads
in between. `NamingFails` is an exception of `fs::exists()`, `ConvertFileThrows` one between the `open()` and the
`enqueue()`: both are caught by main, which goes on, and the second leaves an empty file. `JobThrows`, `ConfigLameFails`,
`CheckTermination`, `RemoveMp3File` are the ways a job
ends early. With `DiskMayFill` a write may fail, and then all later ones to the same stream do;
as nobody tests them the job goes on. `Flush` may lose its part on any disk (`Lose`), as the result of
`lame_encode_flush()` is given to `write()` untested, be it negative or not. The pool is `JobPool`, whose steps `Give`,
`Begin`, `End`, `Close` are conjuncts.

**WavReader, FormatHeader, WavConversion.** A file is its size, and a map from positions to
chunk headers and format types; what is read at any other position may be anything out of
`StrayIds` and `StraySizes`. `Seek`, `Read`, `Peek`, `Tell` are `std::ifstream` with eofbit and
failbit as the C++ standard has them. `TakeChunk`, `DiscardChunk`, `NoHeader` are the passes of the
loop in `read_all_chunks()`; the four lists (file, RIFF, outer and inner LIST) are read in
turn from one stream. `ReadFormat` reads any of `Headers`, and `IsSane` is the check of it, with
the wrap-around of its integers. `StartSamples` and `ConvertChunk` follow the stream through the
texts and the samples; the errors and threads of that loop are in `Conversion`.

**CommandLine, IntegerText, IntegerParser.** An argument is what the regular expression
`option_matcher` makes of it: a word, a cluster of any number of letters, a long name with or without a value, `--`, or
nothing. `Declarations` are the options that `configuration.cpp:39-57` declares, with types, defaults and
implicit values. Each action is one branch of the loop in `ParseResult::parse()`, and each kind of
exception a phase in which it ends. Then `ParseDefaults`, `ConsumeRemaining`, and the tests of
`parse_arguments()` in their order (`Objection`). A number is read by `integer_parser()`,
a function here; `IntegerParser` has its loop, and `RefusesOnlyWhatDoesNotFit` says that the two agree.

**HelpText.** A description is the sequence of the lengths of its words, so that a character is a
number. The variables are those of `format_description()`, with one action per branch of its loop, and
around them the loop over the options. `LinesFitInto` is about the descriptions of this program alone, see
`OwnOptionsAssumption` under the proofs.

**Program.** A thread has a place `pc` and at most one `call` of a function that locks a mutex;
`Lock`, then the function named like the one in the code (`set_return_code`,
`termination_requested`, ...), which ends the call. A handler is a second stack on a thread,
whose own code stands still meanwhile: `HandlerThreads` are the threads it may run on. On
Windows a thread is made for it, on POSIX it interrupts one of the program's threads. The
`SignalHandler` mutex is held while the return code is set, as in the code. `PthreadFails` is the
exit of `check_pthread_error()` wherever a thread may call the library, and `LeaveProcess` the
destruction of the static mutexes after `main()`. A job has at most one pass here; `Conversion` has the others.

## Checks

`tlc -config <cfg> <module>`; states are distinct states.

| run | instance | states | shows |
|---|---|---|---|
| `queue_reliable` | 3 producers of 2 elements, 1 consumer | 15 102 | `dequeue()` finds an element; the queue is `BlockingFifo` and delivers everything, so no wake-up is lost |
| `queue_spurious` | 2 producers, 2 consumers, spurious wake-ups | 724 | elements are passed on once and in order until an empty queue is read |
| `pool_reliable` | 3 workers, 3 jobs | 50 001 | start-up, hand-over, termination; the pool is `JobPool` |
| `conversion_any` | without `-o` x.wav, x.WAV and x.mp3 as inputs, with `-o` x.wav and y.wav; 2 workers, a disk that may fill | 255 212 | other files are kept, outputs are exclusive, leftovers are empty, failures are reported, what is reported is complete but for a full disk or a failing flush, the program returns, and `OutputFiles` |
| `conversion_collision` | x.wav, x.WAV, `-o` | violation | two jobs write to x.mp3 |
| `wav_any` | up to 4 sub-chunks of 7 kinds, a chunk behind, wrong sizes, 20 format headers | 311 820 | chunks are inside the file, disjoint and found; supported formats are accepted, and accepted ones can be decoded but for two cases; samples come from their chunk, all of them |
| `wav_empty` | an empty `fact` chunk | violation | what follows an empty chunk is not found |
| `program_windows` | 2 entries, 2 workers, 2 signals, failing pthread calls | 152 844 | the program ends with the severest code but for the exit of a pthread error; who sees a request sees its code; one late file at most |
| `program_posix` | a signal to a thread of the program | violation | the handler waits for a mutex its own thread holds |
| `integer_parser` | texts of up to 4 characters, a type of 256 values | 39 840 | what is accepted although it was truncated is large; what is refused does not fit |
| `command_line` | up to 3 of 29 arguments, 0 or 4 processors | 251 756 | what is configured is what the arguments say; what is refused is refused for a fault |
| `help_text` | the options of the program, and descriptions with words around the width of a line | 237 259 | every description is whole and broken where it is to |

**Bounds.** Three producers and two elements each let one producer overtake another twice
while the consumer is at any point. Three workers and three jobs let a worker be idle
twice, and jobs outnumber and be outnumbered by idle workers. Three inputs that compete for
three names, one of which exists and one of which is itself an input, let a name be taken,
freed by a failing job and taken again. Passes are 0, 1 or 2, which are all ways through the
loop. `UINT16_MAX` alternative names are cut to those of `Numbers`. Four sub-chunks hold the two mandatory
ones, one of them twice, and a chunk of no interest, in each order; sizes are odd, even,
zero and around those of the headers. Files of wrong sizes have up to two sub-chunks. `UInt32Count` is
2^24, as TLC's integers have 32 bits: it is larger than every file of the instance, which is all that matters for
the wrap-around of an empty chunk. `MaxFrames` is 3 in place of 8192: the data chunk of 21
bytes then takes from one to seven passes, with and without a remainder. Two signals are one of each kind,
whose handlers may overlap with every step of the others. Three arguments hold an option, its
value and a word, in each order, or a cluster, `--` and what follows it; with two arguments no option
could be given twice beside the directory. A cluster has up to three letters: a first, a middle and a last one. The numbers among them are ordinary, at
the bounds of their options, and such that they wrap in 16 bits or in those of an `int`, which has
20 bits in the instance. A type of 256 values overflows with three digits, so the fourth shows what
follows an overflow that was missed. A description has up to four words beside the default:
one to be broken, one that sets `lastSpace` apart, and those before and behind them.

**Fairness.** Each thread has weak fairness on its own steps: an operating system runs every
thread that is not blocked. In `Conversion` that of main is on `MainGoesOn`, its steps without an error: an exception
must not be what gets it out of a loop. No fairness is assumed of signals, failures or spurious wake-ups. Weak fairness is
enough because no property depends on who gets a mutex that several threads ask for: calls
are finite in number. For a single file, `WavConversion` has weak fairness of its next step, since
nothing in it waits.

**Where deadlock is not checked.** Only in `program_posix`, whose point is that the program
stops. All other instances end in explicit stuttering steps.

**Mutants.** Definitions whose comments begin with "Mutant:" are plausible bugs: a missing
notification, an off-by-one, a dropped guard. No action uses them. Each property of a passing
run is violated when one of them takes the place of the definition after it (`PROJECT.json`
says which).

## Where code and documentation differ

- `convert_wav_files.cpp:97`: for an empty chunk `chunk_data_size - 1` is 2^32 - 1, so the reading
  ends there. The comment at line 11 says that other chunks "do not cause an error".
- `convert_wav_files.cpp:248`: PCM of more than 32 bits "must be <= 32", but is accepted.
- `convert_wav_files.cpp:183`: the LIST chunk outside the RIFF chunk wins, as `OuterListWins` shows;
  the comment at line 768 has it the other way round.
- `convert_wav_files.cpp:447`: with `-o`, x.wav and x.WAV are converted into one file by two jobs.
- `signal_handler.cpp:39`: on POSIX the handler can block on a mutex that its thread holds.
- `configuration.cpp:59`: the return code is set to 1 before the options are parsed and can
  only be raised, so it is never 0, though `return_code.h:7` has `RET_CODE_OK`.
- `check_pthread_error.cpp:36`: the exit of a failing pthread call has code 6, even when LAME has failed
  before (7), though `return_code.h:5` sorts the codes by severity.
- `configuration.cpp:77`: "only one positional argument allowed", but an empty second one is not noticed.
- `configuration.cpp:88`: "at least one thread is necessary", but the number becomes 0 where the number of
  processors is not known.

Where a property of a passing run would be false for one of these, it names the exception: PCM of more than
32 bits in `AcceptedIsDecodable`, the codes 0 and 6 in `ExitCodeIsSeverest`, empty words and no processors in
`ConfiguredAsAsked`, what a full disk or a failing flush lost in `ReportedIsComplete` and `LeftoversAreEmpty`.

Also seen, without a run of its own: after one to seven stray bytes at the end of the RIFF chunk the fail
bit stays set, and the format header that is checked was never read (`formatRead` is FALSE);
`bits_per_sample` 0 is accepted and divided by;
`write()` is never tested, so a full disk yields a file that is reported as converted, and so does a negative
result of `lame_encode_flush()`, which is given to it as a length;
the help text of an option whose second or later word is longer than a line would be undefined (none of this
program's is); an empty directory returns 4 although
`check_directory.cpp:51` says "just print a warning"; errors and exceptions in `convert_file()`
leave the return code alone, and one between `open()` and `enqueue()` leaves an empty file; with `-a` and `-o` an input may be
overwritten while another job reads it, which no run has; `start_all_threads()` and `dequeue()` rely on `wait()` not returning
spuriously.

## Proofs

`tlapm ThreadQueueProofs.tla`, `tlapm ThreadPoolProofs.tla`, `tlapm ConversionProofs.tla`,
`tlapm WavConversionProofs.tla`, `tlapm CxxoptsProofs.tla`, `tlapm CommandLineProofs.tla`,
`tlapm ProgramProofs.tla`, `tlapm Induction.tla`.

**Induction.** The induction theorems of the library take a predicate as a parameter, which the provers cannot instantiate.
`RangeInduction` takes a *set* in its place, the numbers for which the claim holds, and follows from
the least element of its complement (`LeastNatural`). `RecursionExists` says that a function defined by
recursion satisfies its equation. With the two, claims about numbers of any length (`IntegerParser`), lists of any
tags (`WavConversion`) and command lines of any length (`CommandLine`) are proved.

**ThreadQueue**, for any producers, consumers and number of elements. `LockInv` is the
inductive invariant behind `TypeCorrect` and `CriticalSectionsExclude`: `TypeOK`, a thread is in a
critical section exactly when it holds the mutex, and only producers push and only consumers
take. `TypeOK` alone is not inductive: that a thread which holds the mutex stays in its critical section
rests on no other thread being there, and `Push` needs to know that the bound was tested
while the mutex was held. `DequeueFindsAnElement` adds `WaitInv`: a consumer that has been woken
finds an element, and one that waits beside an element has a producer about to notify. It assumes
a single consumer and no spurious wake-up; otherwise `TakeFromEmpty` is reached, as it is in
`queue_spurious`. `NoElementLostOrDuplicated` does not: with any consumers and any spurious wake-ups what was taken,
followed by the queue, is what was pushed, as `Take` reads and removes the front within one hold of the mutex.
`RefinesBlockingFifo` maps `Push` and `Take` to the steps of the FIFO queue and all others to
stuttering.

**ThreadPool**, for any number of workers and jobs. `TypeInv` gives `TypeCorrect`, with and
without spurious wake-ups. All other theorems assume `~SpuriousWakeups` and use `PoolInv`, a
conjunction of

- `StartInv`, `Numbered`: the workers up to the one being started exist, and each knows its number;
- `IdleInv`: a worker is listed as idle, or picked by main, at most once, and only while its
  queue is empty and it executes nothing;
- `MainWaitInv`: when main was notified an idle worker is listed;
- `WorkersInv`: what is in the queue of a worker, before and after its `nullptr`;
- `JoinInv`: the workers before `index` have ended;
- `Accounted`: a submitted job is in one queue, is executed by one worker, or is finished.

None of the properties is inductive without the others: a job goes to an idle worker only
because the queue of idle workers has no duplicates, and that holds only because each worker
announces itself under its own number. `RefinesJobPool` says that the pool implements `JobPool`,
on which `Conversion` is built.

**Conversion**, for any directory, any inputs, lists of names and numbers of passes, any number of workers, with or without
a disk that fills up. The invariant `IInv` is the conjunction of

- `TypeInv`: `TypeOK`, that jobs are numbered, and that main works on an input of the configuration;
- `JobInv`: a job that was given is executed, or with one worker, and an input has at most one job;
- `OpenedInv`: the inputs of the jobs, and the one that main is about to submit, have an output, and no input has one
  that the iteration has not come to;
- `NameInv`: from the test of a name to the `open()` with it nobody creates a file of that name, since only main opens files;
- `KeptInv`: no stream leads to a file that nobody asked to overwrite, and a file is never found under a second name;
- `ReportInv`: as long as the return code is below 4, nobody was interrupted, no job is about to remove its output,
  nothing is left to be visited when the pool is closed, and the jobs that have ended delivered their outputs.

From it follow `TypeCorrect`, `ExistingFilesAreKept` and `NoFailureIsSilent`. What two jobs do to each other's outputs depends on
`OutputsAreApart`: with `-o`, the first names of two inputs differ, and none of them is an input itself. Without `-o` it
says nothing. It is what `conversion_collision` violates, and without it the theorems are false. Under it

- `ExclusiveInv`: a stream has its own file, under the name that the job would remove;
- `PassInv`: the place of a job says how many of its passes are done;
- `DataInv`: what an output holds, with what a full disk or a failing flush lost, is what these passes wrote, and an output
  that nobody writes any more is delivered, gone or empty

are inductive together with `IInv`, and give `OutputsAreNotShared`, `ReportedFilesAreWhole` and `NoPartialFileIsLeft`.
`ImplementsLifeOfOutputs` maps each step to one step of one output in `OutputFiles`: for that the data of an output has to be known
(`DataInv`), and that of all others to be left alone (`ExclusiveInv`). `UsesPoolAsPromised` says that
the steps of the jobs are those of `JobPool`, so that with `RefinesJobPool` the one theorem is about what the other one offers.

**WavConversion**, for any set of files, any stray ids and sizes, any format headers, and any
widths of the integers, as far as `ReaderAssumption` allows. `ChunkInv` is behind `UsedChunksAreSound`, whose
three parts are theorems of their own; it is the conjunction of

- `ReadInv`: the stream is one while the chunks are read, and every chunk in the maps is backed
  by the file (`UsedChunksAreBacked`);
- `BehindInv`: while a list is read and the stream has not failed, the stream is behind all
  chunks of the list, which makes a new one disjoint from them (`ListedChunksAreDisjoint`);
- `RiffInv`: while the list of the `RIFF` chunk is read, the stream is behind the format type of that
  chunk, and the limit is at most its end (`RiffChunksAreInside`).

The properties are not inductive alone: that chunks are disjoint depends on where the stream
is, and that they are inside `RIFF` on the limit, which goes back to `tellg()` and holds only if the stream
has not failed. `LastOffsetIs` has the wrap-around of `chunk_data_size - 1`: an empty chunk is looked
for 4 GiB further on, and is discarded because files are smaller. `WorkerInv` separates the reader
from the loop of the worker. `SupportedFormatsAreAccepted` follows from `VerdictInv` and
`SupportedIsSane`, and assumes `UInt16IsWideEnough`: the 16-bit type holds 32, so that rounding up
to whole bytes does not wrap around. `AcceptedFormatsAreDecodable` has the other direction under the same
assumption: what passes the check has one to four bytes per sample and one to 32 valid bits, or is float,
or is one of the two exceptions.

For the sample loop `FileInv`, which is all of that, is extended by

- `AcceptedInv`: once the format header was read, the stream is good, and stands behind the samples
  that were taken: `data_chunk.start + (total - residual_number_of_samples) * width`. That it does not fail rests on
  `UsedChunksAreBacked`; the texts of the meta data are read before it is sent to the samples
  (`TagsAreRead`, by induction over the tags);
- `LoopInv` with `FrameInv`: as long as samples are left, what was encoded are whole frames.

They give `SamplesAreThoseOfTheChunk` and `EveryFrameIsEncoded`. The first speaks of files whose format header was read
(`formatRead`), as the property does; `FormatIsThatOfTheChunk`, an action property, says from where.
`ControlInv` completes them to `TypeCorrect`.

These theorems are about any file, whatever its headers claim. `WellFormedFilesAreRead` and `TheOuterListWins` are about what the
reader finds, and use `LayoutsAssumption` of `WavLayouts`: every readable file is that of a layout, whose sizes may be
wrong, with any number of chunks of any sizes. For a file that is `Wanted`, the invariant `LayoutInv` says that the list that
is being read is a chain of chunks (`IsChain`: each ends where the next begins, and the last one at the limit), that the stream is in front
of one of them, and that those before it are what has been found. The chains are `TopChain`, `SubChain` and `TagChain`, for the
chunks of the file, those in `RIFF` and those in a `LIST` chunk; `PlacedOnce` has no two headers in one place. Positions are
sums over the layout, hence the inductions of `SpaceIs` and `SpaceGrows`. That the lists outside are read up to
their end is not part of `WellFormedIsRead`: an empty chunk behind `RIFF` ends them, so the title behind it is not found. Hence
`OuterListWins` has `TopsAreFull` as its condition; `TitleInv` says which title there is after each of the lists.

**IntegerParser**, for every even width from 256 values on, signed or not, and every text. `IInv` adds to `TypeOK`
that `result` is the number that was read, or so large that one more digit would not fit
(`GatheredOrLarge`). This is inductive because a product that wraps around is noticed unless it is
still larger than what it was made of, and it gives `SmallValuesAreExact`. It is why `--quality=N` is never
mistaken for one of 0..9. `RefusalsAreJustified` says that the loop computes the function `integer_parser` of `IntegerText`, and that
what is refused is not a number, has a sign that the type has not, or does not fit. Its invariant `AgreeInv` has `result` equal to the
number read so far, modulo the width, and no digit among them at which the function refuses; `NumberUnfolds` and `NumberGrows`
are the induction over the digits.

**CommandLine**, for command lines of any length, with clusters of any number of letters, over any kinds of arguments that `ArgumentsAssumption` and `NumbersAssumption` allow, and
machines with any number of processors. `IInv` says of the states in which the arguments are read:

- `StateInv`: the types, and that every option has a storage;
- `PlaceInv`: the parser stands at an argument that was not taken as the value of the one before it, and inside a cluster at
  one of its letters; behind the arguments it stands where `--` says;
- `UseInv`: an option that was given has an entry and holds the value that it was given last, another one its default;
- `WordInv`: the first word is the directory, and the others are counted;
- `NameInv`: no malformed argument and no unknown option has been passed over;

and of the others `FaultInv`: an exception was thrown for a fault that is there, and what has
been accepted has none. This gives `FaultsAreRefused`. None of its parts is inductive alone: which words are operands is
fixed by the whole line (`IsOperand`), while the parser decides it as it goes, and `NextPlace` says that
the two agree. `CountInv`, that the defaults leave no option without an entry, gives `EntriesExist`. `ArgumentsAreObeyed` says that
what is configured is what is asked for, under `FewProcessors`: there are at most 4096. With more, it is false: the number of `-t 99999`
is stored as 34463, and a machine with, say, 40000 processors runs that many threads instead of 40000. The lemma `WrapsAreLarge`
says that all numbers that wrap are stored as at least 4096, and are hence reduced to the number of processors.

**Program**, for any number of workers, handler threads, entries and signals, with handlers that interrupt a
thread or have their own, and with pthread calls that fail or not. The inductive invariant `IInv` of
`ProgramProofs` is the conjunction of

- `Typed`: the variables as functions and records, which gives `TypeCorrect`;
- `MutexInv`: the mutex of `SignalHandler` is owned by the thread whose handler has noted the request, or
  by the one inside `termination_requested()`, and these are never one and the same;
- `RequestInv`: once the request is noted, the return code has been raised or a handler is about to raise
  it, and then it holds that mutex, so that nobody can see the request yet: `SeenRequestIsReported`;
- `LateInv`: a file is late only if `main()` asked before the request; its next answer is the request:
  `AtMostOneLateFile`;
- `EarlyInv`: before the conversion only the codes 0, 1 and 3 are set, and no worker is at work, so that the 4 of
  `check_directory()`, which `main()` returns without `set_return_code()`, is the severest;
- `CodeInv`: the return code is at least every code that was set, and not 0 from the moment on at which `main()` has
  stored `RET_CODE_INVALID_ARGUMENTS`. With `EarlyInv` this gives `SeverestCodeIsReturned`.

No property is inductive alone: that a code is not lost depends on `exitCode` being read under the
mutex, and that no file is late twice on what `main()` still has in `requested`.

**HelpText**, for any options, with descriptions of any number and length of words. `HelpInv` is the conjunction of

- `ShownInv`: the options shown so far are those that are not positional and were come to, in their order, and the last one
  is the one whose description is being written;
- `DescriptionsInv`: the descriptions before it are complete (`WrittenInv`), and of the last one `WritingInv` holds.
  Both are conditional: a word other than the first may be too long, and then nothing is said.

`WritingInv` is where the loop of `format_description()` is understood. The code keeps three iterators that are not reset
alike: after a break at a space, `startLine` is behind that space, while `size` counts from the place of the break. Hence
breaks come at every (`allowed` + 2)th character, wherever the lines begin, which is its last conjunct. `Place` says
what the iterators are between two breaks: the line begins behind the last space before the last break (`AfterSpace`), or at
that break, in the middle of a first word that does not fit (`AfterBreak`); and `lastSpace` is the last space in the line
(`HasSpace`), or stands at or one before its beginning (`HasNoSpace`). From `AfterSpace` and a word that fits it follows that a space is found
before the next break (`RestIsOfAWord`, `AtBreak`), so that `lastSpace` is not before the line: `BreakUndefined` cannot happen. That the
property alone is not inductive is plain: it does not speak of iterators. `EndsAre`, `EndsGrow` and `NextEnd` are the inductions over the words.

A line exceeds its column by at most the word that the break before it cut (`StartIsNear`). Those of this program's
options do not exceed it, which depends on where their words happen to lie: `OwnOptionsAssumption` states it for the
places at which the breaks come, in numbers that do not mention the loop, and TLC evaluates it for the real descriptions. That the loop breaks
there is what is proved (`OwnLineIsShort`). `OwnHelpIsDefined` says that this program's help is never undefined.

**Only model-checked**: liveness (`ImplementsFifo`, `ImplementsJobPool` beyond their safety parts,
`PoolIsClosed`, `ProgramReturns`, `FileIsDone`, `ProgramExits`), since fairness and ENABLED are out of
the reach of the prover. Every safety invariant and every action property
of a passing run is a theorem.

## Assumptions, and what is not modelled

- pthread calls succeed, but in `Program`, where a failure ends the process with `exit(6)`. `exit()` itself is one
  step: the destructors that it runs beside the other threads are not modelled.
- `fs::remove()` succeeds: the code does not test it.
- No other process changes the directory; directories are flat, so `-r` only adds entries.
- Files are smaller than 4 GiB (`ReaderAssumption`), so that no seek that wrapped around ends inside one.
- `LayoutsAssumption`, for two theorems: a file holds the chunks of a layout, and elsewhere headers may be read as anything.
- The names and defaults of options have lengths (`HelpTextAssumption`), and the lines of this program's own options are
  short (`OwnOptionsAssumption`); TLC evaluates both for the real options.
- MP3 files that come into being during an iteration with `-a`, and are visited, are rejected without
  any effect.
- A handler is not interrupted by another signal on the same thread.
- `~thread()` calls `pthread_cancel()` after the join; the thread has ended then. Not modelled.
- The values of samples, the texts of tags, the encoder, messages and their layout are data that no
  property tells apart. Which path leads to which outcome of `check_directory()` is a choice.
- The tables of `riff_format.cpp` and the order of `Guid`s serve messages only. The table of `Guid`s is made at
  start-up with a regular expression of another file, which may not exist yet; then a message is less precise.
- Of `cxxopts.hpp`, Unicode, options with optional values, several groups of help, and the types that no
  option of this program has. The regular expressions are what the kinds of arguments and texts stand for.
- `version()` of `configuration.cpp` only makes a text.
- `lame.h` and the headers of pthreads for Windows declare external libraries. What is left of the repository
  without a model is of one of these kinds.

## Plan

Modelled first, since everything else runs on them: queue and pool. Then the files, then
the reader, then the program around them, then the command line. What is left:

1. `ThreadPool` with a constructor that fails half way through `start_all_threads()`.
2. `WavReader`: files of 4 GiB and more, where an empty chunk leads to a place inside the file.
