--------------------------- MODULE WavConversion ----------------------------
(***************************************************************************)
(* What becomes of one file, from the reading of its chunks (WavReader) to *)
(* convert_file_worker() of src/src/convert_wav_files.cpp, which takes the *)
(* meta data and the samples from the same stream.  Conversion.tla has the *)
(* threads, the output files and the errors; here the samples count.       *)
(***************************************************************************)
EXTENDS WavReader, Sequences

CONSTANT MaxFrames      \* max_number_of_frames_in_a_chunk

ASSUME ConversionAssumption == MaxFrames \in Nat \ {0}

VARIABLES
    worker,             \* where convert_file_worker() is
    residual_number_of_samples,
    framesEncoded       \* history: the frames that have been passed to LAME

workerVars == <<worker, residual_number_of_samples, framesEncoded>>
vars == <<readerVars, workerVars>>

data_chunk == riff_chunks["data"]
num_channels == format_header.num_channels

\* The ids whose texts create_id3_v2_tags() reads, in this order.
TagIds == <<"INAM", "IART", "IMED", "ICRD", "COMM", "CMNT", "ICMT", "TRCK", "ITRK",
            "GENR", "IGNR">>

ReadTag(s, id) ==
    IF id \in DOMAIN meta_data
    THEN Read(Seek(s, meta_data[id].start), meta_data[id].size)
    ELSE s

\* The stream after create_id3_v2_tags().
AfterTags ==
    LET after[i \in 0..Len(TagIds)] ==
            IF i = 0 THEN stream ELSE ReadTag(after[i - 1], TagIds[i])
    IN  after[Len(TagIds)]

\* Mutant: the stream is left where the last text or header was.
StartWhereItStands ==
    /\ pc = "accepted" /\ worker = "none"
    /\ bytes_per_sample(format_header) > 0
    /\ stream' = AfterTags
    /\ residual_number_of_samples' = data_chunk.size \div bytes_per_sample(format_header)
    /\ worker' = "loop"
    /\ UNCHANGED <<file, pc, list, limit, chunks, top_level_chunks, riff_chunks,
                   meta_data, formatVars, framesEncoded>>

\* LAME is configured, and the stream is moved to the samples.
StartSamples ==
    /\ pc = "accepted" /\ worker = "none"
    /\ bytes_per_sample(format_header) > 0
    /\ stream' = Seek(AfterTags, data_chunk.start)
    /\ residual_number_of_samples' = data_chunk.size \div bytes_per_sample(format_header)
    /\ worker' = "loop"
    /\ UNCHANGED <<file, pc, list, limit, chunks, top_level_chunks, riff_chunks,
                   meta_data, formatVars, framesEncoded>>

\* Mutant: the limit is not multiplied by the number of channels.
SamplesForMono == MaxFrames

max_number_of_samples_in_a_chunk == MaxFrames * num_channels

number_of_samples ==
    IF residual_number_of_samples > max_number_of_samples_in_a_chunk
    THEN max_number_of_samples_in_a_chunk ELSE residual_number_of_samples

\* A pass of the loop: convert_pcm_int_chunk() or convert_ieee_float_chunk().
\* What IsSane() accepts is one of the two.  A failing read() goes unnoticed.
ConvertChunk ==
    /\ worker = "loop" /\ residual_number_of_samples > 0
    /\ IsDecodable(format_header)
    /\ stream' = Read(stream, number_of_samples * bytes_per_sample(format_header))
    /\ framesEncoded' = framesEncoded + (number_of_samples \div num_channels)
    /\ residual_number_of_samples' = residual_number_of_samples - number_of_samples
    /\ UNCHANGED <<file, pc, list, limit, chunks, top_level_chunks, riff_chunks,
                   meta_data, formatVars, worker>>

\* A division by zero, a sample wider than its variable, or an illegal shift.
RunIntoUndefined ==
    /\ \/ pc = "accepted" /\ worker = "none" /\ bytes_per_sample(format_header) = 0
       \/ worker = "loop" /\ residual_number_of_samples > 0 /\ ~IsDecodable(format_header)
    /\ worker' = "undefined"
    /\ UNCHANGED <<readerVars, residual_number_of_samples, framesEncoded>>

\* An error of LAME, an exception or an interruption; the stream is not used again.
GiveUp ==
    /\ pc = "accepted" /\ worker \in {"none", "loop"}
    /\ worker' = "given up"
    /\ UNCHANGED <<readerVars, residual_number_of_samples, framesEncoded>>

\* lame_encode_flush(), and the report that the file has been converted
Flush ==
    /\ worker = "loop" /\ residual_number_of_samples = 0
    /\ worker' = "converted"
    /\ UNCHANGED <<readerVars, residual_number_of_samples, framesEncoded>>

-----------------------------------------------------------------------------
Init ==
    /\ ReaderInit
    /\ worker = "none"
    /\ residual_number_of_samples = 0
    /\ framesEncoded = 0

Done == pc \in {"unsupported", "rejected"} \/ worker \in {"converted", "given up", "undefined"}

Next ==
    \/ Reader /\ UNCHANGED workerVars
    \/ StartSamples \/ ConvertChunk \/ RunIntoUndefined \/ GiveUp \/ Flush
    \/ Done /\ UNCHANGED vars

Spec == Init /\ [][Next]_vars

\* The functions run; nothing in them waits for anybody.
FairSpec == Spec /\ WF_vars(Next)

-----------------------------------------------------------------------------
(* Properties *)

TypeOK ==
    /\ ReaderTypeOK
    /\ worker \in {"none", "loop", "converted", "given up", "undefined"}
    /\ residual_number_of_samples \in Nat
    /\ framesEncoded \in Nat

WorkerIsSound ==
    worker \in {"loop", "converted"} /\ formatRead /\ IsDecodable(format_header)

\* If the format header was read, no read fails from there on, and the samples
\* of each pass come from the data chunk, one after the other.
SamplesComeFromTheirChunk ==
    WorkerIsSound =>
        LET width == bytes_per_sample(format_header) IN
        /\ ~stream.fail
        /\ stream.pos = data_chunk.start
              + (data_chunk.size \div width - residual_number_of_samples) * width

\* The cutting of the samples into passes neither loses a frame nor puts a
\* sample into the wrong channel: LAME is given all frames of the data chunk.
AllFramesAreEncoded ==
    WorkerIsSound /\ worker = "converted" =>
        framesEncoded =
            (data_chunk.size \div bytes_per_sample(format_header)) \div num_channels

\* Whatever the file holds, the program gets done with it.
FileIsDone == <>Done
=============================================================================
