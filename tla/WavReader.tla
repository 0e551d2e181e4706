----------------------------- MODULE WavReader ------------------------------
(***************************************************************************)
(* How convert_file() of src/src/convert_wav_files.cpp finds out whether a *)
(* file is a WAV file and where its format header, samples and meta data   *)
(* are: read_all_chunks() and the functions that call it.                  *)
(*                                                                         *)
(* A file has a size, chunk headers at some positions and FOURCC format    *)
(* types at some positions.  What the program takes for one of them at any *)
(* other position may be anything.  All lists of chunks are read from one  *)
(* stream, and an ifstream does what it is told only while its fail bit is *)
(* not set: nothing in the program ever clears that bit.                   *)
(***************************************************************************)
EXTENDS FormatHeader

CONSTANTS
    Files,          \* the files: [readable, size, header, format, ...]
    StrayIds,       \* the ids and sizes found where no chunk header was put
    StraySizes,
    Headers,        \* bound: the format headers that a "fmt " chunk may hold
    None            \* a format header that has not been assigned to

ASSUME ReaderAssumption ==
    /\ {UInt16Count, UInt32Count} \subseteq Nat \ {0}
    /\ StraySizes \subseteq UInt32
    /\ \A f \in Files :
          /\ f.readable \in BOOLEAN
          /\ f.size \in UInt32    \* bound: files are smaller than 4 GiB
          /\ \A p \in DOMAIN f.header : f.header[p].size \in UInt32
    /\ \A h \in Headers : IsFormatHeader(h)
    /\ None \notin Headers

SizeofFourCC == 4
SizeofChunkHeader == 8
SizeofFormatHeader == 16
SizeofFormatHeaderExtensible == 40

VARIABLES
    file,               \* the file that is read
    stream,             \* the ifstream: its position, eofbit and failbit
    pc,
    list,               \* the list of chunks that is read, or is to be read next
    limit,              \* start + padded_max_data_size
    chunks,             \* chunk_positions: what the present list holds
    top_level_chunks,
    riff_chunks,
    meta_data,
    format_header,
    formatRead          \* history: format_header holds what is in the file

formatVars == <<format_header, formatRead>>
readerVars == <<file, stream, pc, list, limit, chunks, top_level_chunks, riff_chunks,
                meta_data, formatVars>>

Verdicts == {"accepted", "unsupported", "rejected"}

NoChunks == [id \in {} |-> 0]

-----------------------------------------------------------------------------
(* std::ifstream *)

Good(s) == ~s.eof /\ ~s.fail

\* seekg() clears the eofbit, not the failbit, and may go beyond the end.
Seek(s, p) == IF s.fail THEN [s EXCEPT !.eof = FALSE] ELSE [s EXCEPT !.eof = FALSE, !.pos = p]

\* read() of n bytes
Read(s, n) ==
    IF Good(s) /\ s.pos + n <= file.size
    THEN [s EXCEPT !.pos = @ + n]
    ELSE [s EXCEPT !.eof = @ \/ Good(s), !.fail = TRUE]

Peek(s) ==
    IF Good(s) THEN [s EXCEPT !.eof = s.pos >= file.size] ELSE [s EXCEPT !.fail = TRUE]

Tell(s) == IF s.fail THEN -1 ELSE s.pos

-----------------------------------------------------------------------------
(* read_all_chunks() *)

\* pad_data_size
Pad(n) == n + (n % 2)

\* Mutant: the subtraction is made in a signed type.
SignedLastOffset(n) == n - 1

\* chunk_data_size - 1 in uint32_t
LastOffset(n) == (n + UInt32Count - 1) % UInt32Count

HeadersAt(p) ==
    IF p \in DOMAIN file.header THEN {file.header[p]} ELSE [id : StrayIds, size : StraySizes]

\* After reading a header: the position of the data, and of the next chunk.
DataStart == stream.pos + SizeofChunkHeader
DataEnd(h) == DataStart + Pad(h.size)

\* The stream after it was peeked for the last byte of the chunk.
AtLastByte(h) ==
    Peek(Seek(Read(stream, SizeofChunkHeader), DataStart + LastOffset(h.size)))

\* Mutant: what contains the chunk is not considered.
IsInFile(h) == Good(AtLastByte(h))

\* The claimed data is there, and within what contains the chunk.
IsBacked(h) == Good(AtLastByte(h)) /\ DataEnd(h) <= limit

\* Mutant: the stream goes back to where the chunk begins.
BehindNothing(h) == Peek(Seek(AtLastByte(h), stream.pos))

\* The stream after it was peeked for the first byte of the next chunk.
Behind(h) ==
    Peek(Seek(AtLastByte(h), AtLastByte(h).pos + Pad(h.size) - h.size + 1))

\* Mutant: the first chunk of an id is used.
AddFirst(map, id, c) ==
    [x \in DOMAIN map \cup {id} |-> IF x \in DOMAIN map THEN map[x] ELSE c]

\* The latest chunk of an id is used.
Add(map, id, c) == [x \in DOMAIN map \cup {id} |-> IF x = id THEN c ELSE map[x]]

\* Id and size can no longer be read, or the stream had failed before.
NoHeader ==
    /\ pc = "scan"
    /\ stream' = Read(stream, SizeofChunkHeader)
    /\ ~Good(stream')
    /\ pc' = "listed"
    /\ UNCHANGED <<file, list, limit, chunks, top_level_chunks, riff_chunks,
                   meta_data, formatVars>>

DiscardChunk ==
    /\ pc = "scan"
    /\ Good(Read(stream, SizeofChunkHeader))
    /\ \E h \in HeadersAt(stream.pos) : ~IsBacked(h) /\ stream' = AtLastByte(h)
    /\ pc' = "listed"
    /\ UNCHANGED <<file, list, limit, chunks, top_level_chunks, riff_chunks,
                   meta_data, formatVars>>

TakeChunk ==
    /\ pc = "scan"
    /\ Good(Read(stream, SizeofChunkHeader))
    /\ \E h \in HeadersAt(stream.pos) :
          /\ IsBacked(h)
          /\ chunks' = Add(chunks, h.id, [start |-> DataStart, size |-> h.size])
          /\ stream' = Behind(h)
          /\ pc' = IF stream'.eof \/ DataEnd(h) = limit THEN "listed" ELSE "scan"
    /\ UNCHANGED <<file, list, limit, top_level_chunks, riff_chunks, meta_data, formatVars>>

-----------------------------------------------------------------------------
(* is_chunk_with_format_type_and_subchunks_present() *)

\* The lists after the first one: the chunks they are searched in, and the id
\* and format type of the chunk that holds the list.
Parents == IF list = "inner" THEN riff_chunks ELSE top_level_chunks
chunk_name_fourcc == IF list = "riff" THEN "RIFF" ELSE "LIST"
format_type_fourcc == IF list = "riff" THEN "WAVE" ELSE "INFO"

AfterFormat == Read(Seek(stream, Parents[chunk_name_fourcc].start), SizeofFourCC)

\* What is found in format_raw: when read() fails, what was in that memory before.
FormatsRead ==
    LET p == Parents[chunk_name_fourcc].start IN
    IF Good(AfterFormat) /\ p \in DOMAIN file.format
    THEN {file.format[p]} ELSE {format_type_fourcc, "stray"}

NotPresent ==
    /\ pc = "find"
    /\ chunk_name_fourcc \notin DOMAIN Parents
    /\ chunks' = NoChunks
    /\ pc' = "listed"
    /\ UNCHANGED <<file, stream, list, limit, top_level_chunks, riff_chunks,
                   meta_data, formatVars>>

WrongFormat ==
    /\ pc = "find"
    /\ chunk_name_fourcc \in DOMAIN Parents
    /\ FormatsRead # {format_type_fourcc}
    /\ chunks' = NoChunks
    /\ stream' = AfterFormat
    /\ pc' = "listed"
    /\ UNCHANGED <<file, list, limit, top_level_chunks, riff_chunks, meta_data, formatVars>>

EnterChunk ==
    /\ pc = "find"
    /\ chunk_name_fourcc \in DOMAIN Parents
    /\ format_type_fourcc \in FormatsRead
    /\ chunks' = NoChunks
    /\ stream' = AfterFormat
    /\ limit' = Tell(stream') + Pad(Parents[chunk_name_fourcc].size - SizeofFourCC)
    /\ pc' = "scan"
    /\ UNCHANGED <<file, list, top_level_chunks, riff_chunks, meta_data, formatVars>>

-----------------------------------------------------------------------------
(* convert_file(), aggregate_meta_data() and is_valid_wav_file() *)

\* The file is opened; when that fails the function goes on all the same.
OpenInput ==
    /\ pc = "open"
    /\ stream' = [stream EXCEPT !.fail = ~file.readable]
    /\ limit' = Pad(file.size)
    /\ pc' = "scan"
    /\ UNCHANGED <<file, list, chunks, top_level_chunks, riff_chunks, meta_data, formatVars>>

TopLevelRead ==
    /\ pc = "listed"
    /\ list = "top"
    /\ top_level_chunks' = chunks
    /\ list' = "riff"
    /\ pc' = "find"
    /\ UNCHANGED <<file, stream, limit, chunks, riff_chunks, meta_data, formatVars>>

RiffRead ==
    /\ pc = "listed"
    /\ list = "riff"
    /\ riff_chunks' = chunks
    /\ IF chunks = NoChunks
       THEN pc' = "rejected" /\ UNCHANGED list
       ELSE pc' = "find" /\ list' = "outer"
    /\ UNCHANGED <<file, stream, limit, chunks, top_level_chunks, meta_data, formatVars>>

\* Mutant: as the comments on aggregate_meta_data() have it.
Overwritten(map, new) ==
    [x \in DOMAIN map \cup DOMAIN new |-> IF x \in DOMAIN new THEN new[x] ELSE map[x]]

\* std::map::insert() leaves alone what is there.
Inserted(map, new) ==
    [x \in DOMAIN map \cup DOMAIN new |-> IF x \in DOMAIN map THEN map[x] ELSE new[x]]

MetaDataRead ==
    /\ pc = "listed"
    /\ list \in {"outer", "inner"}
    /\ meta_data' = Inserted(meta_data, chunks)
    /\ IF list = "outer"
       THEN pc' = "find" /\ list' = "inner"
       ELSE pc' = "check" /\ UNCHANGED list
    /\ UNCHANGED <<file, stream, limit, chunks, top_level_chunks, riff_chunks, formatVars>>

\* Mutant: the size of the "fmt " chunk is not tested.
HasFormatChunk == "fmt " \in DOMAIN riff_chunks

HasFormat ==
    "fmt " \in DOMAIN riff_chunks /\ riff_chunks["fmt "].size >= SizeofFormatHeader

MissingChunk ==
    /\ pc = "check"
    /\ ~HasFormat \/ "data" \notin DOMAIN riff_chunks
    /\ pc' = "rejected"
    /\ UNCHANGED <<file, stream, list, limit, chunks, top_level_chunks, riff_chunks,
                   meta_data, formatVars>>

\* The format header is whatever the file holds there, or, when the stream has
\* failed, what was in that memory before.
ReadFormat ==
    /\ pc = "check"
    /\ HasFormat /\ "data" \in DOMAIN riff_chunks
    /\ LET fmt == riff_chunks["fmt "]
           base == Read(Seek(stream, fmt.start), SizeofFormatHeader) IN
       \E h \in Headers :
          /\ format_header' = h
          /\ \/ /\ ~IsExtensible(h)
                /\ stream' = base
                /\ pc' = IF IsSane(h) THEN "accepted" ELSE "unsupported"
             \/ /\ IsExtensible(h) /\ fmt.size < SizeofFormatHeaderExtensible
                /\ stream' = base
                /\ pc' = "rejected"
             \/ /\ IsExtensible(h) /\ fmt.size >= SizeofFormatHeaderExtensible
                /\ stream' = Read(base, SizeofFormatHeaderExtensible - SizeofFormatHeader)
                /\ pc' = IF IsSane(h) THEN "accepted" ELSE "unsupported"
    /\ formatRead' = ~stream'.fail
    /\ UNCHANGED <<file, list, limit, chunks, top_level_chunks, riff_chunks, meta_data>>

-----------------------------------------------------------------------------
ReaderInit ==
    /\ file \in Files
    /\ stream = [pos |-> 0, eof |-> FALSE, fail |-> FALSE]
    /\ pc = "open"
    /\ list = "top"
    /\ limit = 0
    /\ chunks = NoChunks
    /\ top_level_chunks = NoChunks
    /\ riff_chunks = NoChunks
    /\ meta_data = NoChunks
    /\ format_header = None
    /\ formatRead = FALSE

Reader ==
    \/ OpenInput
    \/ NoHeader \/ DiscardChunk \/ TakeChunk
    \/ NotPresent \/ WrongFormat \/ EnterChunk
    \/ TopLevelRead \/ RiffRead \/ MetaDataRead
    \/ MissingChunk \/ ReadFormat

-----------------------------------------------------------------------------
(* Properties *)

ChunkMaps == {chunks, top_level_chunks, riff_chunks, meta_data}

\* An empty chunk is never used.
IsChunkMap(m) ==
    \A id \in DOMAIN m : m[id].start \in Nat /\ m[id].size \in 1..(UInt32Count - 1)

ReaderTypeOK ==
    /\ file.size \in Nat
    /\ stream \in [pos : Nat, eof : BOOLEAN, fail : BOOLEAN]
    /\ pc \in {"open", "scan", "listed", "find", "check"} \cup Verdicts
    /\ list \in {"top", "riff", "outer", "inner"}
    /\ limit \in Int
    /\ \A m \in ChunkMaps : IsChunkMap(m)
    /\ format_header \in Headers \cup {None}
    /\ formatRead \in BOOLEAN

\* convert_wav_files.cpp:105 considers a chunk valid "only if the claimed data
\* is really there": whatever the sizes in the file claim, no chunk that is
\* used reaches beyond the end of the file.
ChunksAreBacked ==
    \A m \in ChunkMaps : \A id \in DOMAIN m :
        m[id].start + m[id].size <= file.size

\* What is taken for the format and the samples is inside the "RIFF" chunk.
RiffContainsItsChunks ==
    \A id \in DOMAIN riff_chunks :
        LET riff == top_level_chunks["RIFF"]  c == riff_chunks[id] IN
        /\ c.start >= riff.start + SizeofFourCC + SizeofChunkHeader
        /\ c.start + c.size <= riff.start + Pad(riff.size)

\* No byte of the file belongs to two chunks of a list, so that samples are
\* not taken from the meta data or the format header, nor the other way round.
ChunksAreDisjoint ==
    \A m \in {chunks, top_level_chunks, riff_chunks} : \A i, j \in DOMAIN m :
        i # j => \/ m[i].start + m[i].size <= m[j].start
                 \/ m[j].start + m[j].size <= m[i].start

\* Whatever the sizes in the file claim, the parts of the file that are used are
\* there, in the RIFF chunk and apart from each other.
ChunksAreSound == ChunksAreBacked /\ RiffContainsItsChunks /\ ChunksAreDisjoint

\* The format header is read from the "fmt " chunk and nothing else.
FormatReadFromItsChunk ==
    [][formatRead' /\ ~formatRead =>
        /\ riff_chunks["fmt "].start < stream'.pos
        /\ stream'.pos <= riff_chunks["fmt "].start + riff_chunks["fmt "].size]_readerVars

\* What src/README.md:41 lists as supported is not refused.
SupportedIsAccepted == pc = "unsupported" => ~IsSupported(format_header)

\* What is accepted can be converted: a sample has a width, fits into the int32_t
\* that it is read into, and is not shifted by more than that.  The check lets
\* pass PCM without bits, without valid bits, and PCM of more than 32 bits, which
\* line 250 remarks to be "illegal" and "must be <= 32" (and does not when the
\* number of bits wraps to 0 as it is rounded up); nothing else.
AcceptedIsDecodable ==
    pc = "accepted" =>
        \/ IsDecodable(format_header)
        \/ /\ IsPcm(format_header)
           /\ \/ format_header.bits_per_sample > 8 * SizeofInt32
              \/ valid_bits_per_sample(format_header) = 0
=============================================================================
