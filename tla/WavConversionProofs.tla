------------------------- MODULE WavConversionProofs ------------------------
(***************************************************************************)
(* Theorems about WavConversion, for all files and all format headers.     *)
(* The last two are about files with a layout of WavLayouts, and the only  *)
(* ones to use LayoutsAssumption: what the reader finds in a well-formed   *)
(* file, however many chunks it has.                                       *)
(***************************************************************************)
EXTENDS WavConversion, WavLayouts, Induction, TLAPS

\* The code has 65536: no supported number of bits is changed by the rounding.
UInt16IsWideEnough == UInt16Count > 32

-----------------------------------------------------------------------------
(* The check of the format header *)

\* A product that is a uint32_t is what is left of it in a uint32_t.
LEMMA SmallProductsAgree ==
  ASSUME NEW h \in Headers,
         h.bytes_per_second = h.samples_per_second * h.block_align
  PROVE  RatesAgree(h)
<1>1. IsFormatHeader(h) /\ UInt32Count \in Nat \ {0}
  BY ReaderAssumption
<1> DEFINE n == h.bytes_per_second
<1>2. n \in Nat /\ n < UInt32Count
  BY <1>1 DEF IsFormatHeader, UInt32
<1>3. n % UInt32Count = n
  <2> HIDE DEF n
  <2> QED
    BY <1>1, <1>2
<1> QED
  BY <1>3 DEF RatesAgree

\* The sizes of samples that src/README.md:41 lists are whole bytes.
LEMMA WholeBytesStay ==
  ASSUME UInt16IsWideEnough, NEW h \in Headers,
         IsPcm(h) => h.bits_per_sample \in {8, 16, 24, 32}
  PROVE  bps(h) = h.bits_per_sample
<1>1. UInt16Count \in Nat
  BY ReaderAssumption
<1>2. ASSUME NEW b \in {8, 16, 24, 32} PROVE (((b + 7) \div 8) * 8) % UInt16Count = b
  <2>1. ((b + 7) \div 8) * 8 = b
    OBVIOUS
  <2> QED
    BY <1>1, <2>1 DEF UInt16IsWideEnough
<1> QED
  BY <1>2 DEF bps

LEMMA SupportedIsSane ==
  ASSUME UInt16IsWideEnough, NEW h \in Headers, IsSupported(h)
  PROVE  IsSane(h)
<1>1. /\ h.num_channels \in {1, 2}
      /\ h.block_align * 8 = h.num_channels * h.bits_per_sample
      /\ h.bytes_per_second = h.samples_per_second * h.block_align
  BY DEF IsSupported
<1>2. /\ IsFormatHeader(h)
      /\ h.block_align \in Nat /\ h.bits_per_sample \in Nat /\ h.valid_bits_per_sample \in Nat
  BY ReaderAssumption DEF IsFormatHeader, UInt16
<1>3. /\ IsPcm(h) \/ IsFloat(h)
      /\ IsPcm(h) => h.bits_per_sample \in {8, 16, 24, 32}
      /\ IsFloat(h) => h.bits_per_sample \in {32, 64}
      /\ IsExtensible(h) /\ IsPcm(h) => h.valid_bits_per_sample \in 8..h.bits_per_sample
  BY DEF IsSupported, IsPcm, IsFloat, Holds, IsExtensible
<1>4. bps(h) = h.bits_per_sample
  BY <1>3, WholeBytesStay
<1>5. RatesAgree(h)
  BY <1>1, SmallProductsAgree
<1>6. ValidBitsFit(h)
  BY <1>2, <1>3, <1>4 DEF ValidBitsFit
<1>7. h.block_align = (h.num_channels * bps(h)) \div 8
  <2>1. h.num_channels * bps(h) = 8 * h.block_align
    BY <1>1, <1>2, <1>4
  <2>2. (8 * h.block_align) \div 8 = h.block_align
    BY <1>2
  <2> QED
    BY <2>1, <2>2
<1> QED
  BY <1>1, <1>3, <1>4, <1>5, <1>6, <1>7 DEF IsSane

-----------------------------------------------------------------------------
(* The verdict *)

\* The verdict is what the check has found.
VerdictInv ==
    /\ pc = "unsupported" => format_header \in Headers /\ ~IsSane(format_header)
    /\ pc = "accepted" => format_header \in Headers /\ IsSane(format_header)

LEMMA ReaderKeepsVerdictInv == ASSUME VerdictInv, Reader PROVE VerdictInv'
<1>1. CASE ReadFormat
  <2>1. PICK h \in Headers : /\ format_header' = h
                             /\ pc' = "unsupported" => ~IsSane(h)
                             /\ pc' = "accepted" => IsSane(h)
    BY <1>1 DEF ReadFormat
  <2> QED
    BY <2>1 DEF VerdictInv
<1>2. ASSUME ~ReadFormat PROVE pc' # "unsupported"
  BY <1>2 DEF Reader, OpenInput, NoHeader, DiscardChunk, TakeChunk, NotPresent, WrongFormat,
     EnterChunk, TopLevelRead, RiffRead, MetaDataRead, MissingChunk
<1>3. ASSUME ~ReadFormat PROVE pc' # "accepted"
  BY <1>3 DEF Reader, OpenInput, NoHeader, DiscardChunk, TakeChunk, NotPresent, WrongFormat,
     EnterChunk, TopLevelRead, RiffRead, MetaDataRead, MissingChunk
<1> QED
  BY <1>1, <1>2, <1>3 DEF VerdictInv

LEMMA VerdictInvNext == ASSUME VerdictInv, [Next]_vars PROVE VerdictInv'
<1>1. CASE Reader
  BY <1>1, ReaderKeepsVerdictInv
<1>2. CASE ~Reader
  <2>1. UNCHANGED <<pc, format_header>>
    BY <1>2 DEF Next, StartSamples, ConvertChunk, RunIntoUndefined, GiveUp, Flush, vars,
       readerVars, formatVars
  <2> QED
    BY <2>1 DEF VerdictInv
<1> QED
  BY <1>1, <1>2

LEMMA VerdictAlways == Spec => []VerdictInv
<1>1. Init => VerdictInv
  BY DEF Init, ReaderInit, VerdictInv
<1> QED
  BY <1>1, VerdictInvNext, PTL DEF Spec

\* Whatever a file holds, and however it is read: if its format is one of those
\* that src/README.md:41 lists, it is not refused as unsupported.
THEOREM SupportedFormatsAreAccepted ==
  ASSUME UInt16IsWideEnough PROVE Spec => []SupportedIsAccepted
<1>1. VerdictInv => SupportedIsAccepted
  BY SupportedIsSane DEF VerdictInv, SupportedIsAccepted
<1> QED
  BY <1>1, VerdictAlways, PTL

\* Samples of up to 32 bits are rounded up to at most 32, of none to none.
LEMMA RoundedUp ==
  ASSUME UInt16IsWideEnough, NEW b \in 0..32
  PROVE  /\ (b + 7) \div 8 \in 0..4
         /\ b > 0 => (b + 7) \div 8 > 0
         /\ (((b + 7) \div 8) * 8) % UInt16Count = ((b + 7) \div 8) * 8
<1>1. UInt16Count \in Nat /\ UInt16Count > 32
  BY ReaderAssumption DEF UInt16IsWideEnough
<1>2. (b + 7) \div 8 \in 0..4 /\ (b > 0 => (b + 7) \div 8 > 0)
  OBVIOUS
<1>3. ASSUME NEW n \in 0..4 PROVE (n * 8) % UInt16Count = n * 8
  BY <1>1
<1> QED
  BY <1>2, <1>3

\* What passes the check can be converted, but for PCM of more than 32 bits or
\* without any valid bits.
LEMMA SaneIsDecodable ==
  ASSUME UInt16IsWideEnough, NEW h \in Headers, IsSane(h),
         IsPcm(h) => h.bits_per_sample <= 32 /\ valid_bits_per_sample(h) # 0
  PROVE  IsDecodable(h)
<1>1. IsFormatHeader(h) /\ h.bits_per_sample \in Nat /\ h.valid_bits_per_sample \in Nat
  BY ReaderAssumption DEF IsFormatHeader, UInt16
<1>2. CASE ~IsPcm(h)
  <2>1. h.bits_per_sample \in {32, 64}
    BY <1>2 DEF IsSane, bps
  <2>2. \A b \in {32, 64} : (b + 7) \div 8 > 0
    OBVIOUS
  <2> QED
    BY <1>2, <2>1, <2>2 DEF IsDecodable, bytes_per_sample
<1>3. CASE IsPcm(h)
  <2> DEFINE b == h.bits_per_sample
  <2>1. b \in 0..32
    BY <1>1, <1>3
  <2>2. /\ (b + 7) \div 8 \in 0..4
        /\ b > 0 => (b + 7) \div 8 > 0
        /\ bps(h) = ((b + 7) \div 8) * 8
    BY <1>3, <2>1, RoundedUp DEF bps
  <2>3. valid_bits_per_sample(h) \in 1..32 /\ b > 0
    <3>1. CASE IsExtensible(h)
      <4>1. h.valid_bits_per_sample <= bps(h)
        BY <1>3, <3>1 DEF IsSane, ValidBitsFit
      <4>2. valid_bits_per_sample(h) = h.valid_bits_per_sample
        BY <3>1 DEF valid_bits_per_sample
      <4>3. valid_bits_per_sample(h) \in Nat \ {0}
        BY <1>1, <1>3, <4>2
      <4>4. \A n \in 0..4 : n * 8 \in 0..32
        OBVIOUS
      <4>5. bps(h) \in 0..32
        BY <2>2, <4>4
      <4>6. valid_bits_per_sample(h) \in 1..32
        BY <4>1, <4>2, <4>3, <4>5
      <4>7. ASSUME b = 0 PROVE bps(h) = 0
        <5>1. ((0 + 7) \div 8) * 8 = 0
          OBVIOUS
        <5> QED
          BY <2>2, <4>7, <5>1
      <4>8. b # 0
        BY <4>1, <4>2, <4>6, <4>7
      <4> QED
        BY <2>1, <4>6, <4>8
    <3>2. CASE ~IsExtensible(h)
      BY <1>3, <2>1, <3>2 DEF valid_bits_per_sample
    <3> QED
      BY <3>1, <3>2
  <2> QED
    BY <1>3, <2>2, <2>3 DEF IsDecodable, bytes_per_sample, SizeofInt32
<1> QED
  BY <1>2, <1>3

\* Whatever header a file has: if the check lets it pass, the samples can be
\* converted, but for PCM of more than 32 bits or without any valid bits.
THEOREM AcceptedFormatsAreDecodable ==
  ASSUME UInt16IsWideEnough PROVE Spec => []AcceptedIsDecodable
<1>1. VerdictInv => AcceptedIsDecodable
  <2> SUFFICES ASSUME VerdictInv, pc = "accepted", ~IsDecodable(format_header)
               PROVE  /\ IsPcm(format_header)
                      /\ \/ format_header.bits_per_sample > 32
                         \/ valid_bits_per_sample(format_header) = 0
    BY DEF AcceptedIsDecodable, SizeofInt32
  <2>1. format_header \in Headers /\ IsSane(format_header)
    BY DEF VerdictInv
  <2>2. format_header.bits_per_sample \in Nat
    BY <2>1, ReaderAssumption DEF IsFormatHeader, UInt16
  <2> QED
    BY <2>1, <2>2, SaneIsDecodable
<1> QED
  BY <1>1, VerdictAlways, PTL

-----------------------------------------------------------------------------
(* What is read from the stream *)

Streams == [pos : Nat, eof : BOOLEAN, fail : BOOLEAN]

LEMMA LastOffsetIs ==
  ASSUME NEW n \in UInt32
  PROVE  LastOffset(n) = IF n = 0 THEN UInt32Count - 1 ELSE n - 1
<1>1. UInt32Count \in Nat \ {0}
  BY ReaderAssumption
<1>2. CASE n = 0
  BY <1>1, <1>2 DEF LastOffset
<1>3. CASE n # 0
  <2>1. n \in 1..(UInt32Count - 1)
    BY <1>3 DEF UInt32
  <2> QED
    BY <1>1, <2>1 DEF LastOffset
<1> QED
  BY <1>2, <1>3

LEMMA PadIs == ASSUME NEW n \in Int PROVE Pad(n) \in Int /\ Pad(n) \in {n, n + 1}
  BY DEF Pad

LEMMA PadOfRest == ASSUME NEW n \in Int PROVE Pad(n - 4) = Pad(n) - 4
  BY DEF Pad

LEMMA HeaderSizes ==
  ASSUME file \in Files, NEW p, NEW h \in HeadersAt(p) PROVE h.size \in UInt32
  BY ReaderAssumption DEF HeadersAt

LEMMA SeekStays ==
  ASSUME NEW s \in Streams, NEW p \in Nat
  PROVE  Seek(s, p) \in Streams /\ (~Seek(s, p).fail => ~s.fail /\ Seek(s, p).pos = p)
  BY DEF Seek, Streams

LEMMA PeekStays ==
  ASSUME NEW s \in Streams
  PROVE  /\ Peek(s) \in Streams /\ Peek(s).pos = s.pos
         /\ Good(Peek(s)) => Good(s) /\ ~(s.pos >= file.size)
<1>1. CASE Good(s)
  <2>1. Peek(s) = [s EXCEPT !.eof = s.pos >= file.size]
    BY <1>1 DEF Peek
  <2>2. (s.pos >= file.size) \in BOOLEAN
    OBVIOUS
  <2> QED
    BY <1>1, <2>1, <2>2 DEF Streams, Good
<1>2. CASE ~Good(s)
  BY <1>2 DEF Peek, Streams, Good
<1> QED
  BY <1>1, <1>2

LEMMA ReadStays ==
  ASSUME NEW s \in Streams, NEW n \in Nat
  PROVE  /\ Read(s, n) \in Streams
         /\ ~Read(s, n).fail => ~s.fail /\ Read(s, n).pos = s.pos + n
<1>1. CASE Good(s) /\ s.pos + n <= file.size
  BY <1>1 DEF Read, Streams, Good
<1>2. CASE ~(Good(s) /\ s.pos + n <= file.size)
  <2>1. Read(s, n) = [s EXCEPT !.eof = s.eof \/ Good(s), !.fail = TRUE]
    BY <1>2 DEF Read
  <2>2. (s.eof \/ Good(s)) \in BOOLEAN
    BY DEF Streams, Good
  <2> QED
    BY <2>1, <2>2 DEF Streams
<1> QED
  BY <1>1, <1>2

\* What read_all_chunks() knows of a chunk that it takes, and where it goes on.
LEMMA TakenChunk ==
  ASSUME file \in Files, stream \in Streams, limit \in Int,
         NEW h, h.size \in UInt32,
         Good(Read(stream, SizeofChunkHeader)), IsBacked(h)
  PROVE  /\ ~stream.fail
         /\ DataStart = stream.pos + 8
         /\ h.size \in 1..(UInt32Count - 1)
         /\ DataStart + h.size <= file.size
         /\ DataStart + Pad(h.size) <= limit
         /\ Behind(h) \in Streams
         /\ ~Behind(h).fail => Behind(h).pos = DataStart + Pad(h.size)
<1>1. UInt32Count \in Nat \ {0} /\ file.size \in UInt32
  BY ReaderAssumption
<1>2. stream.pos \in Nat /\ h.size \in Nat /\ file.size \in Nat /\ file.size < UInt32Count
  BY <1>1 DEF Streams, UInt32
<1> DEFINE r == Read(stream, SizeofChunkHeader)
           at == DataStart + LastOffset(h.size)
<1>3. /\ ~stream.fail /\ r \in Streams /\ Good(r)
      /\ DataStart = stream.pos + 8
  BY <1>2 DEF Read, Good, SizeofChunkHeader, DataStart, Streams
<1>4. LastOffset(h.size) \in Nat
  BY <1>1, <1>2, LastOffsetIs DEF UInt32
<1>5. at \in Nat
  BY <1>2, <1>3, <1>4
<1>6. AtLastByte(h) = Peek(Seek(r, at))
  BY DEF AtLastByte
<1>7. /\ Seek(r, at) \in Streams /\ Good(Seek(r, at))
      /\ Seek(r, at).pos = at
  <2> HIDE DEF r, at
  <2> QED
    BY <1>3, <1>5 DEF Seek, Streams, Good
<1>8. /\ AtLastByte(h) \in Streams /\ AtLastByte(h).pos = at
      /\ ~AtLastByte(h).fail /\ at < file.size
  <2>1. Good(AtLastByte(h))
    BY DEF IsBacked
  <2> HIDE DEF r, at
  <2> QED
    BY <1>2, <1>5, <1>6, <1>7, <2>1, PeekStays DEF Good
<1>9. h.size # 0 /\ LastOffset(h.size) = h.size - 1
  BY <1>1, <1>2, <1>3, <1>8, LastOffsetIs
<1>10. Pad(h.size) \in {h.size, h.size + 1}
  BY <1>2, PadIs
<1> DEFINE next == AtLastByte(h).pos + Pad(h.size) - h.size + 1
<1>11. next = DataStart + Pad(h.size) /\ next \in Nat
  BY <1>2, <1>3, <1>8, <1>9, <1>10
<1>12. /\ Behind(h) \in Streams
       /\ Behind(h).pos = next
  <2>1. Behind(h) = Peek(Seek(AtLastByte(h), next))
    BY DEF Behind
  <2> HIDE DEF next
  <2>2. Seek(AtLastByte(h), next) \in Streams /\ Seek(AtLastByte(h), next).pos = next
    BY <1>8, <1>11 DEF Seek, Streams
  <2> QED
    BY <2>1, <2>2, PeekStays
<1>13. DataStart + Pad(h.size) <= limit
  BY DEF IsBacked, DataEnd
<1> QED
  BY <1>1, <1>2, <1>3, <1>8, <1>9, <1>11, <1>12, <1>13

-----------------------------------------------------------------------------
(* The inductive invariant *)

\* While pc is one of these the chunks are read.
Reading == {"open", "scan", "listed", "find", "check"}

\* No chunk of m is empty or reaches beyond the end of the file.
Sound(m) ==
    \A id \in DOMAIN m :
        /\ m[id].start \in Nat /\ m[id].size \in 1..(UInt32Count - 1)
        /\ m[id].start + m[id].size <= file.size

Apart(m) ==
    \A i, j \in DOMAIN m :
        i # j => \/ m[i].start + m[i].size <= m[j].start
                 \/ m[j].start + m[j].size <= m[i].start

RiffStart == top_level_chunks["RIFF"].start
RiffEnd == RiffStart + Pad(top_level_chunks["RIFF"].size)

InRiff(m) ==
    \A id \in DOMAIN m :
        m[id].start >= RiffStart + 4 + 8 /\ m[id].start + m[id].size <= RiffEnd

ReadInv ==
    /\ file \in Files /\ limit \in Int
    /\ pc \in Reading => stream \in Streams
    /\ Sound(chunks) /\ Sound(top_level_chunks) /\ Sound(riff_chunks) /\ Sound(meta_data)

\* The stream is behind all chunks of the list that is read.
BehindInv ==
    /\ pc = "open" => list = "top" /\ chunks = NoChunks
    /\ pc = "scan" /\ ~stream.fail =>
          \A id \in DOMAIN chunks : chunks[id].start + chunks[id].size <= stream.pos
    /\ Apart(chunks) /\ Apart(top_level_chunks) /\ Apart(riff_chunks)

\* The list of the "RIFF" chunk is read inside it.
RiffInv ==
    /\ list \in {"top", "riff"} => riff_chunks = NoChunks
    /\ list = "riff" /\ pc = "scan" =>
          /\ "RIFF" \in DOMAIN top_level_chunks
          /\ ~stream.fail => stream.pos >= RiffStart + 4 /\ limit <= RiffEnd
    /\ list = "riff" /\ pc \in {"scan", "listed"} => InRiff(chunks)
    /\ InRiff(riff_chunks)

\* The samples are read when the chunks have been read.
WorkerInv == worker # "none" => pc = "accepted"

ChunkInv == ReadInv /\ BehindInv /\ RiffInv

LEMMA ChunkInvInit == Init => ChunkInv /\ WorkerInv
<1> SUFFICES ASSUME Init PROVE ChunkInv /\ WorkerInv
  OBVIOUS
<1> USE DEF Init, ReaderInit
<1>1. ReadInv
  BY DEF ReadInv, Sound, NoChunks, Streams
<1>2. BehindInv
  BY DEF BehindInv, Apart, NoChunks
<1>3. RiffInv
  BY DEF RiffInv, InRiff, NoChunks
<1>4. WorkerInv
  BY DEF WorkerInv
<1> QED
  BY <1>1, <1>2, <1>3, <1>4 DEF ChunkInv

LEMMA EmptyMap ==
  ASSUME NEW m, m = NoChunks PROVE Sound(m) /\ Apart(m) /\ InRiff(m)
  BY DEF NoChunks, Sound, Apart, InRiff

\* A chunk behind all others is added to them, or replaces one.
LEMMA AddedBehind ==
  ASSUME NEW m, Sound(m), Apart(m), UInt32Count \in Nat, NEW x,
         NEW start \in Nat, NEW size \in 1..(UInt32Count - 1), start + size <= file.size,
         \A id \in DOMAIN m : m[id].start + m[id].size <= start
  PROVE  LET n == Add(m, x, [start |-> start, size |-> size]) IN
         /\ Sound(n) /\ Apart(n)
         /\ \A id \in DOMAIN n : n[id].start + n[id].size <= start + size
<1> DEFINE c == [start |-> start, size |-> size]
           n == Add(m, x, c)
<1>1. /\ DOMAIN n = DOMAIN m \cup {x}
      /\ n[x] = c
      /\ \A id \in DOMAIN m \ {x} : n[id] = m[id]
  BY DEF Add
<1>2. c.start = start /\ c.size = size
  OBVIOUS
<1> HIDE DEF n, c
<1>3. Sound(n)
  BY <1>1, <1>2 DEF Sound
<1>4. Apart(n)
  BY <1>1, <1>2 DEF Apart
<1>5. \A id \in DOMAIN n : n[id].start + n[id].size <= start + size
  BY <1>1, <1>2 DEF Sound
<1> QED
  BY <1>3, <1>4, <1>5 DEF n, c

LEMMA TakeChunkKeeps == ASSUME ChunkInv, TakeChunk PROVE ChunkInv'
<1>1. /\ file \in Files /\ limit \in Int /\ stream \in Streams /\ Sound(chunks)
      /\ pc = "scan" /\ Good(Read(stream, SizeofChunkHeader))
      /\ UNCHANGED <<file, list, limit, top_level_chunks, riff_chunks, meta_data>>
  BY DEF ChunkInv, ReadInv, TakeChunk, Reading
<1>2. PICK h \in HeadersAt(stream.pos) :
        /\ IsBacked(h)
        /\ chunks' = Add(chunks, h.id, [start |-> DataStart, size |-> h.size])
        /\ stream' = Behind(h)
        /\ pc' \in {"listed", "scan"}
  BY DEF TakeChunk
<1>3. h.size \in UInt32 /\ UInt32Count \in Nat
  BY <1>1, HeaderSizes, ReaderAssumption
<1>4. /\ ~stream.fail
      /\ DataStart = stream.pos + 8
      /\ h.size \in 1..(UInt32Count - 1)
      /\ DataStart + h.size <= file.size
      /\ DataStart + Pad(h.size) <= limit
      /\ stream' \in Streams
      /\ ~stream'.fail => stream'.pos = DataStart + Pad(h.size)
  BY <1>1, <1>2, <1>3, TakenChunk
<1>5. stream.pos \in Nat /\ DataStart \in Nat /\ Pad(h.size) \in Nat /\ Pad(h.size) >= h.size
  BY <1>1, <1>3, <1>4, PadIs DEF Streams
<1>6. \A id \in DOMAIN chunks : chunks[id].start + chunks[id].size <= DataStart
  BY <1>1, <1>4, <1>5 DEF ChunkInv, BehindInv, Sound
<1>7. /\ Sound(chunks') /\ Apart(chunks')
      /\ \A id \in DOMAIN chunks' :
            chunks'[id].start + chunks'[id].size <= DataStart + h.size
  BY <1>2, <1>3, <1>4, <1>5, <1>6, AddedBehind DEF ChunkInv, ReadInv, BehindInv
<1>8. ReadInv'
  BY <1>1, <1>4, <1>7 DEF ChunkInv, ReadInv, Sound
<1>9. BehindInv'
  <2>1. ASSUME ~stream'.fail, NEW id \in DOMAIN chunks'
        PROVE  chunks'[id].start + chunks'[id].size <= stream'.pos
    BY <1>3, <1>4, <1>5, <1>7, <2>1 DEF Sound
  <2> QED
    BY <1>1, <1>2, <1>7, <2>1 DEF ChunkInv, BehindInv, Apart
<1>10. RiffInv'
  <2>1. CASE list # "riff"
    BY <1>1, <2>1 DEF ChunkInv, RiffInv, InRiff, RiffStart, RiffEnd
  <2>2. CASE list = "riff"
    <3>1. /\ "RIFF" \in DOMAIN top_level_chunks
          /\ stream.pos >= RiffStart + 4 /\ limit <= RiffEnd
          /\ InRiff(chunks)
      BY <1>1, <1>4, <2>2 DEF ChunkInv, RiffInv
    <3>2. RiffStart \in Nat /\ RiffEnd \in Int
      BY <3>1, PadIs DEF ChunkInv, ReadInv, Sound, RiffStart, RiffEnd
    <3>3. DataStart >= RiffStart + 4 + 8 /\ DataStart + h.size <= RiffEnd
      BY <1>1, <1>3, <1>4, <1>5, <3>1, <3>2
    <3>4. InRiff(chunks')
      BY <1>2, <3>1, <3>3 DEF InRiff, Add
    <3>5. ~stream'.fail => stream'.pos >= RiffStart + 4
      BY <1>4, <1>5, <3>2, <3>3
    <3> QED
      BY <1>1, <3>1, <3>4, <3>5 DEF ChunkInv, RiffInv, InRiff, RiffStart, RiffEnd
  <2> QED
    BY <2>1, <2>2
<1> QED
  BY <1>8, <1>9, <1>10 DEF ChunkInv

\* Nothing is added to a list, and the stream does what it likes.
LEMMA ListEnds ==
  ASSUME ChunkInv, pc = "scan", pc' = "listed", stream' \in Streams,
         UNCHANGED <<file, list, limit, chunks, top_level_chunks, riff_chunks, meta_data>>
  PROVE  ChunkInv'
<1>1. ReadInv'
  BY DEF ChunkInv, ReadInv, Sound
<1>2. BehindInv'
  BY DEF ChunkInv, BehindInv, Apart
<1>3. RiffInv'
  BY DEF ChunkInv, RiffInv, InRiff, RiffStart, RiffEnd
<1> QED
  BY <1>1, <1>2, <1>3 DEF ChunkInv

LEMMA NoHeaderKeeps == ASSUME ChunkInv, NoHeader PROVE ChunkInv'
<1>1. stream \in Streams /\ pc = "scan"
  BY DEF ChunkInv, ReadInv, NoHeader, Reading
<1>2. stream' \in Streams
  BY <1>1, ReadStays DEF NoHeader, SizeofChunkHeader
<1> QED
  BY <1>1, <1>2, ListEnds DEF NoHeader

LEMMA DiscardChunkKeeps == ASSUME ChunkInv, DiscardChunk PROVE ChunkInv'
<1>1. stream \in Streams /\ pc = "scan" /\ file \in Files /\ stream.pos \in Nat
  BY DEF ChunkInv, ReadInv, DiscardChunk, Reading, Streams
<1>2. PICK h \in HeadersAt(stream.pos) : stream' = AtLastByte(h)
  BY DEF DiscardChunk
<1>3. h.size \in UInt32 /\ UInt32Count \in Nat \ {0}
  BY <1>1, HeaderSizes, ReaderAssumption
<1>4. DataStart + LastOffset(h.size) \in Nat
  BY <1>1, <1>3, LastOffsetIs DEF DataStart, SizeofChunkHeader, UInt32
<1>5. Read(stream, SizeofChunkHeader) \in Streams
  BY <1>1, ReadStays DEF SizeofChunkHeader
<1>6. stream' \in Streams
  BY <1>2, <1>4, <1>5, SeekStays, PeekStays DEF AtLastByte
<1> QED
  BY <1>1, <1>6, ListEnds DEF DiscardChunk

\* A list that is not there, or not of the format wanted, is empty.
LEMMA EmptyListKeeps ==
  ASSUME ChunkInv, pc = "find", pc' = "listed", stream' \in Streams, chunks' = NoChunks,
         UNCHANGED <<file, list, limit, top_level_chunks, riff_chunks, meta_data>>
  PROVE  ChunkInv'
<1>1. Sound(chunks') /\ Apart(chunks') /\ InRiff(chunks')
  BY EmptyMap
<1>2. ReadInv'
  BY <1>1 DEF ChunkInv, ReadInv, Sound
<1>3. BehindInv'
  BY <1>1 DEF ChunkInv, BehindInv, Apart
<1>4. RiffInv'
  BY <1>1 DEF ChunkInv, RiffInv, InRiff, RiffStart, RiffEnd
<1> QED
  BY <1>2, <1>3, <1>4 DEF ChunkInv

\* The stream after the format type of a chunk has been read.
LEMMA FormatIsRead ==
  ASSUME ReadInv, pc = "find", chunk_name_fourcc \in DOMAIN Parents
  PROVE  LET c == Parents[chunk_name_fourcc] IN
         /\ c.start \in Nat /\ c.size \in Nat
         /\ AfterFormat \in Streams
         /\ ~AfterFormat.fail => AfterFormat.pos = c.start + 4
<1> DEFINE c == Parents[chunk_name_fourcc]
<1>1. stream \in Streams /\ Sound(Parents) /\ UInt32Count \in Nat
  BY ReaderAssumption DEF ReadInv, Reading, Parents
<1>2. c.start \in Nat /\ c.size \in Nat
  BY <1>1 DEF Sound
<1>3. /\ Seek(stream, c.start) \in Streams
      /\ ~Seek(stream, c.start).fail => Seek(stream, c.start).pos = c.start
  BY <1>1, <1>2, SeekStays
<1>4. AfterFormat = Read(Seek(stream, c.start), 4)
  BY DEF AfterFormat, SizeofFourCC
<1> QED
  BY <1>2, <1>3, <1>4, ReadStays

LEMMA NotPresentKeeps == ASSUME ChunkInv, NotPresent PROVE ChunkInv'
<1>1. pc = "find" /\ stream' \in Streams
  BY DEF ChunkInv, ReadInv, NotPresent, Reading
<1> QED
  BY <1>1, EmptyListKeeps DEF NotPresent

LEMMA WrongFormatKeeps == ASSUME ChunkInv, WrongFormat PROVE ChunkInv'
<1>1. pc = "find" /\ stream' \in Streams
  BY FormatIsRead DEF ChunkInv, WrongFormat
<1> QED
  BY <1>1, EmptyListKeeps DEF WrongFormat

LEMMA EnterChunkKeeps == ASSUME ChunkInv, EnterChunk PROVE ChunkInv'
<1> DEFINE c == Parents[chunk_name_fourcc]
<1>1. /\ pc = "find" /\ pc' = "scan" /\ chunks' = NoChunks
      /\ chunk_name_fourcc \in DOMAIN Parents
      /\ stream' = AfterFormat /\ limit' = Tell(stream') + Pad(c.size - 4)
      /\ UNCHANGED <<file, list, top_level_chunks, riff_chunks, meta_data>>
  BY DEF EnterChunk, SizeofFourCC
<1>2. /\ c.start \in Nat /\ c.size \in Nat /\ stream' \in Streams
      /\ ~stream'.fail => stream'.pos = c.start + 4
  BY <1>1, FormatIsRead DEF ChunkInv
<1>3. Pad(c.size - 4) = Pad(c.size) - 4 /\ Pad(c.size) \in Int
  BY <1>2, PadIs, PadOfRest
<1>4. /\ Tell(stream') \in Int
      /\ ~stream'.fail => Tell(stream') = stream'.pos
  BY <1>2 DEF Tell, Streams
<1>5. Sound(chunks') /\ Apart(chunks') /\ InRiff(chunks')
  BY <1>1, EmptyMap
<1>6. ReadInv'
  <2>1. limit' \in Int
    BY <1>1, <1>3, <1>4
  <2> QED
    BY <1>1, <1>2, <1>5, <2>1 DEF ChunkInv, ReadInv, Sound
<1>7. BehindInv'
  BY <1>1, <1>5 DEF ChunkInv, BehindInv, Apart, NoChunks
<1>8. RiffInv'
  <2>1. ASSUME list = "riff"
        PROVE  /\ "RIFF" \in DOMAIN top_level_chunks
               /\ ~stream'.fail => stream'.pos >= RiffStart + 4 /\ limit' <= RiffEnd
    <3>1. c = top_level_chunks["RIFF"] /\ "RIFF" \in DOMAIN top_level_chunks
      BY <1>1, <2>1 DEF Parents, chunk_name_fourcc
    <3>2. RiffStart = c.start /\ RiffEnd = c.start + Pad(c.size)
      BY <3>1 DEF RiffStart, RiffEnd
    <3>3. ~stream'.fail => limit' = c.start + Pad(c.size)
      BY <1>1, <1>2, <1>3, <1>4
    <3> QED
      BY <1>2, <1>3, <3>1, <3>2, <3>3
  <2> QED
    BY <1>1, <1>5, <2>1 DEF ChunkInv, RiffInv, InRiff, RiffStart, RiffEnd
<1> QED
  BY <1>6, <1>7, <1>8 DEF ChunkInv

LEMMA OpenInputKeeps == ASSUME ChunkInv, OpenInput PROVE ChunkInv'
<1>1. /\ pc = "open" /\ pc' = "scan" /\ limit' = Pad(file.size)
      /\ stream' = [stream EXCEPT !.fail = ~file.readable]
      /\ UNCHANGED <<file, list, chunks, top_level_chunks, riff_chunks, meta_data>>
      /\ stream \in Streams /\ file \in Files /\ list = "top" /\ chunks = NoChunks
  BY DEF OpenInput, ChunkInv, ReadInv, BehindInv, Reading
<1>2. file.readable \in BOOLEAN /\ file.size \in Nat
  BY <1>1, ReaderAssumption DEF UInt32
<1>3. stream' \in Streams
  BY <1>1, <1>2 DEF Streams
<1>4. limit' \in Int
  BY <1>1, <1>2, PadIs
<1>5. ReadInv'
  BY <1>1, <1>3, <1>4 DEF ChunkInv, ReadInv, Sound
<1>6. BehindInv'
  BY <1>1 DEF ChunkInv, BehindInv, Apart, NoChunks
<1>7. RiffInv'
  BY <1>1 DEF ChunkInv, RiffInv, InRiff, RiffStart, RiffEnd
<1> QED
  BY <1>5, <1>6, <1>7 DEF ChunkInv

LEMMA TopLevelReadKeeps == ASSUME ChunkInv, TopLevelRead PROVE ChunkInv'
<1>1. /\ pc = "listed" /\ pc' = "find" /\ list = "top" /\ list' = "riff"
      /\ top_level_chunks' = chunks
      /\ UNCHANGED <<file, stream, limit, chunks, riff_chunks, meta_data>>
  BY DEF TopLevelRead
<1>2. riff_chunks' = NoChunks
  BY <1>1 DEF ChunkInv, RiffInv
<1>3. ReadInv'
  BY <1>1 DEF ChunkInv, ReadInv, Sound, Reading
<1>4. BehindInv'
  BY <1>1 DEF ChunkInv, BehindInv, Apart
<1>5. RiffInv'
  BY <1>1, <1>2 DEF RiffInv, InRiff, NoChunks
<1> QED
  BY <1>3, <1>4, <1>5 DEF ChunkInv

LEMMA RiffReadKeeps == ASSUME ChunkInv, RiffRead PROVE ChunkInv'
<1>1. /\ pc = "listed" /\ list = "riff" /\ riff_chunks' = chunks
      /\ \/ chunks = NoChunks /\ pc' = "rejected" /\ list' = "riff"
         \/ pc' = "find" /\ list' = "outer"
      /\ UNCHANGED <<file, stream, limit, chunks, top_level_chunks, meta_data>>
  BY DEF RiffRead
<1>2. ReadInv'
  BY <1>1 DEF ChunkInv, ReadInv, Sound, Reading
<1>3. BehindInv'
  BY <1>1 DEF ChunkInv, BehindInv, Apart
<1>4. RiffInv'
  BY <1>1 DEF ChunkInv, RiffInv, InRiff, RiffStart, RiffEnd
<1> QED
  BY <1>2, <1>3, <1>4 DEF ChunkInv

LEMMA MetaDataReadKeeps == ASSUME ChunkInv, MetaDataRead PROVE ChunkInv'
<1>1. /\ pc = "listed" /\ list \in {"outer", "inner"}
      /\ meta_data' = Inserted(meta_data, chunks)
      /\ pc' \in {"find", "check"} /\ list' = "inner"
      /\ UNCHANGED <<file, stream, limit, chunks, top_level_chunks, riff_chunks>>
  BY DEF MetaDataRead
<1>2. Sound(meta_data')
  BY <1>1 DEF ChunkInv, ReadInv, Sound, Inserted
<1>3. ReadInv'
  BY <1>1, <1>2 DEF ChunkInv, ReadInv, Sound, Reading
<1>4. BehindInv'
  BY <1>1 DEF ChunkInv, BehindInv, Apart
<1>5. RiffInv'
  BY <1>1 DEF ChunkInv, RiffInv, InRiff, RiffStart, RiffEnd
<1> QED
  BY <1>3, <1>4, <1>5 DEF ChunkInv

\* Once the chunks have been read, nothing happens to them.
LEMMA ReadingOver ==
  ASSUME ChunkInv, pc' \notin Reading,
         UNCHANGED <<file, list, limit, chunks, top_level_chunks, riff_chunks, meta_data>>
  PROVE  ChunkInv'
<1>1. ReadInv'
  BY DEF ChunkInv, ReadInv, Sound
<1>2. BehindInv'
  BY DEF ChunkInv, BehindInv, Apart, Reading
<1>3. RiffInv'
  BY DEF ChunkInv, RiffInv, InRiff, RiffStart, RiffEnd, Reading
<1> QED
  BY <1>1, <1>2, <1>3 DEF ChunkInv

LEMMA ReaderKeepsChunkInv == ASSUME ChunkInv, Reader PROVE ChunkInv'
<1>1. CASE MissingChunk
  BY <1>1, ReadingOver DEF MissingChunk, Reading
<1>2. CASE ReadFormat
  <2>1. pc' \in Verdicts
    BY <1>2 DEF ReadFormat, Verdicts
  <2> QED
    BY <1>2, <2>1, ReadingOver DEF ReadFormat, Reading, Verdicts
<1> QED
  BY <1>1, <1>2, OpenInputKeeps, NoHeaderKeeps, DiscardChunkKeeps, TakeChunkKeeps,
     NotPresentKeeps, WrongFormatKeeps, EnterChunkKeeps, TopLevelReadKeeps, RiffReadKeeps,
     MetaDataReadKeeps DEF Reader

\* The inductive step: a step of the reader finds the worker waiting, and a step
\* of the worker finds the chunks read.
LEMMA ChunkInvNext ==
  ASSUME ChunkInv, WorkerInv, [Next]_vars PROVE ChunkInv' /\ WorkerInv'
<1>1. CASE Reader /\ UNCHANGED workerVars
  <2>1. pc # "accepted"
    BY <1>1 DEF Reader, OpenInput, NoHeader, DiscardChunk, TakeChunk, NotPresent, WrongFormat,
       EnterChunk, TopLevelRead, RiffRead, MetaDataRead, MissingChunk, ReadFormat
  <2>2. WorkerInv'
    BY <1>1, <2>1 DEF WorkerInv, workerVars
  <2> QED
    BY <1>1, <2>2, ReaderKeepsChunkInv
<1>2. CASE StartSamples \/ ConvertChunk \/ RunIntoUndefined \/ GiveUp \/ Flush
  <2>1. /\ pc = "accepted"
        /\ UNCHANGED <<file, pc, list, limit, chunks, top_level_chunks, riff_chunks, meta_data>>
    BY <1>2 DEF StartSamples, ConvertChunk, RunIntoUndefined, GiveUp, Flush, WorkerInv,
       readerVars
  <2>2. ChunkInv'
    BY <2>1, ReadingOver DEF Reading
  <2> QED
    BY <2>1, <2>2 DEF WorkerInv
<1>3. CASE UNCHANGED vars
  <2>1. UNCHANGED <<file, stream, pc, list, limit, chunks, top_level_chunks, riff_chunks,
                    meta_data, worker>>
    BY <1>3 DEF vars, readerVars, workerVars
  <2>2. ReadInv' /\ BehindInv'
    BY <2>1 DEF ChunkInv, ReadInv, BehindInv, Sound, Apart
  <2>3. RiffInv'
    BY <2>1 DEF ChunkInv, RiffInv, InRiff, RiffStart, RiffEnd
  <2> QED
    BY <2>1, <2>2, <2>3 DEF ChunkInv, WorkerInv
<1> QED
  BY <1>1, <1>2, <1>3 DEF Next

LEMMA ChunkInvAlways == Spec => []ChunkInv
<1>1. Init => ChunkInv /\ WorkerInv
  BY ChunkInvInit
<1>2. (ChunkInv /\ WorkerInv) /\ [Next]_vars => (ChunkInv /\ WorkerInv)'
  BY ChunkInvNext
<1> QED
  BY <1>1, <1>2, PTL DEF Spec

\* Whatever the sizes in a file claim, and whatever is found where no chunk was
\* put: no chunk that the program uses reaches beyond the end of the file.
THEOREM UsedChunksAreBacked == Spec => []ChunksAreBacked
<1>1. ChunkInv => ChunksAreBacked
  BY DEF ChunkInv, ReadInv, Sound, ChunksAreBacked, ChunkMaps
<1> QED
  BY <1>1, ChunkInvAlways, PTL

\* What is taken for the format header, the samples and the meta data of the
\* "RIFF" chunk lies inside that chunk, behind its format type.
THEOREM RiffChunksAreInside == Spec => []RiffContainsItsChunks
<1>1. ChunkInv => RiffContainsItsChunks
  <2> SUFFICES ASSUME ChunkInv, NEW id \in DOMAIN riff_chunks
               PROVE  /\ riff_chunks[id].start >= RiffStart + 4 + 8
                      /\ riff_chunks[id].start + riff_chunks[id].size <= RiffEnd
    BY DEF RiffContainsItsChunks, RiffStart, RiffEnd, SizeofFourCC, SizeofChunkHeader
  <2> QED
    BY DEF ChunkInv, RiffInv, InRiff
<1> QED
  BY <1>1, ChunkInvAlways, PTL

\* No byte of a file belongs to two chunks of one list.
THEOREM ListedChunksAreDisjoint == Spec => []ChunksAreDisjoint
<1>1. ChunkInv => ChunksAreDisjoint
  BY DEF ChunkInv, BehindInv, Apart, ChunksAreDisjoint
<1> QED
  BY <1>1, ChunkInvAlways, PTL

\* Whatever a file claims, the parts of it that are used are there, in the RIFF
\* chunk and apart from each other.
THEOREM UsedChunksAreSound == Spec => []ChunksAreSound
<1>1. ChunksAreBacked /\ RiffContainsItsChunks /\ ChunksAreDisjoint => ChunksAreSound
  BY DEF ChunksAreSound
<1> QED
  BY <1>1, UsedChunksAreBacked, RiffChunksAreInside, ListedChunksAreDisjoint, PTL

-----------------------------------------------------------------------------
(* The texts of the meta data *)

\* Streams on which no operation has failed, if ok is TRUE.
StreamsThat(ok) == {s \in Streams : ok => Good(s)}

LEMMA ReadSucceeds ==
  ASSUME NEW s \in Streams, NEW n \in Nat, Good(s), s.pos + n <= file.size
  PROVE  Good(Read(s, n)) /\ Read(s, n).pos = s.pos + n
  BY DEF Read, Streams, Good

\* A text is inside the file, so that reading it does not fail.
LEMMA TagIsRead ==
  ASSUME ChunkInv, NEW ok \in BOOLEAN, NEW s \in StreamsThat(ok), NEW id
  PROVE  ReadTag(s, id) \in StreamsThat(ok)
<1>1. CASE id \notin DOMAIN meta_data
  BY <1>1 DEF ReadTag
<1>2. CASE id \in DOMAIN meta_data
  <2> DEFINE c == meta_data[id]
             at == Seek(s, c.start)
  <2>1. /\ c.start \in Nat /\ c.size \in Nat /\ c.start + c.size <= file.size
        /\ s \in Streams
    BY <1>2, ReaderAssumption DEF ChunkInv, ReadInv, Sound, StreamsThat
  <2>2. at \in Streams
    BY <2>1, SeekStays
  <2>3. Read(at, c.size) \in Streams
    BY <2>1, <2>2, ReadStays
  <2>4. ASSUME ok PROVE Good(Read(at, c.size))
    <3>1. Good(at) /\ at.pos = c.start
      BY <2>1, <2>4 DEF StreamsThat, Good, Seek, Streams
    <3> HIDE DEF at, c
    <3> QED
      BY <2>1, <2>2, <3>1, ReadSucceeds
  <2>5. ReadTag(s, id) = Read(at, c.size)
    BY <1>2 DEF ReadTag
  <2> HIDE DEF at, c
  <2> QED
    BY <2>3, <2>4, <2>5 DEF StreamsThat
<1> QED
  BY <1>1, <1>2

\* By induction over the texts: reading all of them does not fail either.
LEMMA TagsAreRead ==
  ASSUME ChunkInv, NEW ok \in BOOLEAN, stream \in StreamsThat(ok)
  PROVE  AfterTags \in StreamsThat(ok)
<1> DEFINE S == StreamsThat(ok)
           step == [p \in S \X (1..11) |-> ReadTag(p[1], TagIds[p[2]])]
           Obeys(f) == f = [i \in 0..11 |-> IF i = 0 THEN stream
                                            ELSE ReadTag(f[i - 1], TagIds[i])]
           after == CHOOSE f : Obeys(f)
<1>1. Len(TagIds) = 11
  BY DEF TagIds
<1>2. AfterTags = after[11]
  BY <1>1 DEF AfterTags
<1>3. step \in StepsOn(S, 0, 11)
  <2>1. \A p \in S \X (1..11) : ReadTag(p[1], TagIds[p[2]]) \in S
    BY TagIsRead
  <2> HIDE DEF S
  <2> QED
    BY <2>1 DEF StepsOn
<1>4. PICK f : Recurs(f, S, stream, 0, 11, step)
  <2> HIDE DEF S, step
  <2>1. stream \in S
    BY DEF S
  <2>2. 0 \in Int /\ 11 \in Int /\ 0 <= 11
    OBVIOUS
  <2> QED
    BY <1>3, <2>1, <2>2, RecursionExists, Zenon
<1>5. Obeys(f)
  <2>1. f \in [0..11 -> S] /\ f[0] = stream
    BY <1>4 DEF Recurs
  <2>2. ASSUME NEW i \in 1..11 PROVE f[i] = ReadTag(f[i - 1], TagIds[i])
    <3>1. f[i] = step[<<f[i - 1], i>>]
      BY <1>4 DEF Recurs
    <3>2. f[i - 1] \in S
      BY <2>1
    <3> HIDE DEF S
    <3> QED
      BY <3>1, <3>2
  <2> HIDE DEF S
  <2> QED
    BY <2>1, <2>2
<1>6. Obeys(after)
  <2> HIDE DEF Obeys
  <2> QED
    BY <1>5
<1> DEFINE Fine == {i \in 0..11 : after[i] \in S}
<1>7. 0..11 \subseteq Fine
  <2>1. 0 \in Fine
    <3> HIDE DEF after, S
    <3>1. after[0] = stream
      BY <1>6
    <3>2. stream \in S
      BY DEF S
    <3> QED
      BY <3>1, <3>2
  <2>2. ASSUME NEW i \in 0..10, i \in Fine PROVE i + 1 \in Fine
    <3>1. after[i + 1] = ReadTag(after[i], TagIds[i + 1])
      <4> HIDE DEF after
      <4> QED
        BY <1>6
    <3>2. after[i] \in S
      BY <2>2
    <3> HIDE DEF after
    <3>3. ReadTag(after[i], TagIds[i + 1]) \in S
      BY <3>2, TagIsRead
    <3> QED
      BY <3>1, <3>3
  <2>3. 11 - 1 = 10 /\ 0 \in Int /\ 11 \in Int
    OBVIOUS
  <2> HIDE DEF Fine
  <2> QED
    BY <2>1, <2>2, <2>3, RangeInduction, Zenon
<1> HIDE DEF after
<1> QED
  BY <1>2, <1>7

-----------------------------------------------------------------------------
(* The samples *)

width == bytes_per_sample(format_header)

\* The samples that the data chunk holds.
total == data_chunk.size \div width

\* Where the stream is, once the format header has been read.
AcceptedInv ==
    /\ stream \in Streams /\ formatRead \in BOOLEAN
    /\ pc = "accepted" =>
          "data" \in DOMAIN riff_chunks /\ (formatRead => Good(stream))
    /\ worker \in {"loop", "converted"} /\ formatRead =>
          stream.pos = data_chunk.start + (total - residual_number_of_samples) * width

\* As long as samples are left, what has been encoded are whole frames.
FrameInv ==
    \/ /\ residual_number_of_samples # 0
       /\ framesEncoded * num_channels = total - residual_number_of_samples
    \/ /\ residual_number_of_samples = 0
       /\ framesEncoded = total \div num_channels

LoopInv ==
    /\ residual_number_of_samples \in Nat /\ framesEncoded \in Nat
    /\ worker = "none" => framesEncoded = 0 /\ residual_number_of_samples = 0
    /\ worker \in {"loop", "converted"} =>
          /\ width \in Nat \ {0} /\ total \in Nat
          /\ residual_number_of_samples <= total
          /\ FrameInv
    /\ worker = "converted" => residual_number_of_samples = 0

SampleInv == AcceptedInv /\ LoopInv

\* What has been established above.
FileInv == ChunkInv /\ WorkerInv /\ VerdictInv

LEMMA FileInvAlways == Spec => []FileInv
<1>1. Init => FileInv
  BY ChunkInvInit DEF Init, ReaderInit, VerdictInv, FileInv
<1>2. FileInv /\ [Next]_vars => FileInv'
  BY ChunkInvNext, VerdictInvNext DEF FileInv
<1> QED
  BY <1>1, <1>2, PTL DEF Spec

LEMMA ChunkIs ==
  ASSUME NEW m, Sound(m), UInt32Count \in Nat, NEW id \in DOMAIN m
  PROVE  m[id].start \in Nat /\ m[id].size \in Nat
  BY DEF Sound

\* The data chunk of an accepted file.
LEMMA DataIs ==
  ASSUME ChunkInv, "data" \in DOMAIN riff_chunks
  PROVE  /\ data_chunk.start \in Nat /\ data_chunk.size \in Nat
         /\ data_chunk.start + data_chunk.size <= file.size
  BY ReaderAssumption DEF ChunkInv, ReadInv, Sound, data_chunk

LEMMA WidthIs ==
  ASSUME NEW h \in Headers PROVE bytes_per_sample(h) \in Nat
<1>1. h.bits_per_sample \in Nat
  BY ReaderAssumption DEF IsFormatHeader, UInt16
<1> QED
  BY <1>1 DEF bytes_per_sample

\* Division, where the divisor need not be a literal.
LEMMA DivisionIs ==
  ASSUME NEW a \in Nat, NEW b \in Nat \ {0}
  PROVE  a \div b \in Nat /\ (a \div b) * b <= a
<1>1. a \div b \in Int /\ a % b \in 0..(b - 1) /\ a = b * (a \div b) + (a % b)
  OBVIOUS
<1>2. a \div b >= 0
  OBVIOUS
<1> QED
  BY <1>1, <1>2

LEMMA ReadKeepsGood ==
  ASSUME NEW s \in Streams, NEW n \in Nat, ~Read(s, n).fail
  PROVE  Good(Read(s, n)) /\ Good(s) /\ Read(s, n).pos = s.pos + n
  BY DEF Read, Streams, Good

LEMMA ReadFormatKeeps == ASSUME ChunkInv, ReadFormat, stream \in Streams PROVE
         /\ stream' \in Streams /\ formatRead' \in BOOLEAN
         /\ formatRead' => /\ Good(stream')
                           /\ riff_chunks["fmt "].start < stream'.pos
                           /\ stream'.pos <= riff_chunks["fmt "].start
                                               + riff_chunks["fmt "].size
         /\ format_header' \in Headers /\ "data" \in DOMAIN riff_chunks
<1> DEFINE fmt == riff_chunks["fmt "]
           at == Seek(stream, fmt.start)
           base == Read(at, 16)
<1>1. /\ fmt.start \in Nat /\ fmt.size \in Nat /\ fmt.size >= 16
      /\ "data" \in DOMAIN riff_chunks
  <2>1. "fmt " \in DOMAIN riff_chunks /\ fmt.size >= 16 /\ "data" \in DOMAIN riff_chunks
    BY DEF ReadFormat, HasFormat, SizeofFormatHeader
  <2>2. Sound(riff_chunks) /\ UInt32Count \in Nat
    BY ReaderAssumption DEF ChunkInv, ReadInv
  <2>3. fmt.start \in Nat /\ fmt.size \in Nat
    BY <2>1, <2>2, ChunkIs, Zenon
  <2> QED
    BY <2>1, <2>3
<1>2. /\ at \in Streams
      /\ ~at.fail => at.pos = fmt.start
  BY <1>1, SeekStays
<1>3. /\ base \in Streams
      /\ ~base.fail => Good(base) /\ base.pos = fmt.start + 16
  <2> HIDE DEF at, fmt
  <2> QED
    BY <1>2, ReadStays, ReadKeepsGood
<1>4. /\ Read(base, 24) \in Streams
      /\ ~Read(base, 24).fail => Good(Read(base, 24)) /\ Read(base, 24).pos = fmt.start + 40
  <2> HIDE DEF base
  <2>1. Read(base, 24) \in Streams
    BY <1>3, ReadStays
  <2>2. ASSUME ~Read(base, 24).fail
        PROVE  Good(Read(base, 24)) /\ Read(base, 24).pos = fmt.start + 40
    <3>1. Good(Read(base, 24)) /\ ~base.fail /\ Read(base, 24).pos = base.pos + 24
      BY <1>3, <2>2, ReadStays, ReadKeepsGood
    <3> HIDE DEF fmt
    <3> QED
      BY <1>1, <1>3, <3>1
  <2> QED
    BY <2>1, <2>2
<1>5. /\ format_header' \in Headers
      /\ \/ stream' = base
         \/ stream' = Read(base, 24) /\ fmt.size >= 40
      /\ formatRead' = ~stream'.fail
  <2>1. 40 - 16 = 24
    OBVIOUS
  <2> QED
    BY <2>1 DEF ReadFormat, SizeofFormatHeader, SizeofFormatHeaderExtensible
<1>6. stream'.fail \in BOOLEAN /\ stream' \in Streams
  BY <1>3, <1>4, <1>5 DEF Streams
<1> HIDE DEF base, fmt
<1>7. ASSUME formatRead'
      PROVE  /\ Good(stream')
             /\ fmt.start < stream'.pos
             /\ stream'.pos <= fmt.start + fmt.size
  <2>1. ~stream'.fail
    BY <1>5, <1>7
  <2>2. CASE stream' = base
    BY <1>1, <1>3, <2>1, <2>2
  <2>3. CASE stream' = Read(base, 24) /\ fmt.size >= 40
    BY <1>1, <1>4, <2>1, <2>3
  <2> QED
    BY <1>5, <2>2, <2>3
<1> QED
  BY <1>1, <1>5, <1>6, <1>7 DEF fmt

LEMMA ReaderKeepsSampleInv ==
  ASSUME FileInv, SampleInv, FileInv', Reader, UNCHANGED workerVars
  PROVE  SampleInv'
<1>1. worker = "none" /\ pc # "accepted"
  <2>1. pc # "accepted"
    BY DEF Reader, OpenInput, NoHeader, DiscardChunk, TakeChunk, NotPresent, WrongFormat,
       EnterChunk, TopLevelRead, RiffRead, MetaDataRead, MissingChunk, ReadFormat
  <2> QED
    BY <2>1 DEF FileInv, WorkerInv
<1>2. UNCHANGED <<worker, residual_number_of_samples, framesEncoded>>
  BY DEF workerVars
<1>3. LoopInv'
  BY <1>1, <1>2 DEF SampleInv, LoopInv
<1>4. CASE ReadFormat
  <2>1. /\ stream' \in Streams /\ formatRead' \in BOOLEAN
        /\ formatRead' => Good(stream')
        /\ "data" \in DOMAIN riff_chunks
    BY <1>4, ReadFormatKeeps DEF FileInv, SampleInv, AcceptedInv
  <2>2. riff_chunks' = riff_chunks
    BY <1>4 DEF ReadFormat
  <2>3. AcceptedInv'
    BY <1>1, <1>2, <2>1, <2>2 DEF AcceptedInv, Good
  <2> QED
    BY <1>3, <2>3 DEF SampleInv
<1>5. CASE ~ReadFormat
  <2>1. pc' # "accepted" /\ formatRead' = formatRead
    BY <1>5 DEF Reader, OpenInput, NoHeader, DiscardChunk, TakeChunk, NotPresent, WrongFormat,
       EnterChunk, TopLevelRead, RiffRead, MetaDataRead, MissingChunk, formatVars
  <2>2. stream' \in Streams
    <3>1. CASE pc' \in Reading
      BY <3>1 DEF FileInv, ChunkInv, ReadInv
    <3>2. CASE pc' \notin Reading
      <4>1. UNCHANGED stream
        BY <1>5, <3>2 DEF Reading, Reader, OpenInput, NoHeader, DiscardChunk, TakeChunk,
           NotPresent, WrongFormat, EnterChunk, TopLevelRead, RiffRead, MetaDataRead,
           MissingChunk
      <4> QED
        BY <4>1 DEF SampleInv, AcceptedInv
    <3> QED
      BY <3>1, <3>2
  <2>3. AcceptedInv'
    BY <1>1, <1>2, <2>1, <2>2 DEF AcceptedInv, SampleInv
  <2> QED
    BY <1>3, <2>3 DEF SampleInv
<1> QED
  BY <1>4, <1>5

\* The worker begins with all samples of the data chunk.
LEMMA StartSamplesKeeps ==
  ASSUME FileInv, SampleInv, StartSamples PROVE SampleInv'
<1>1. /\ pc = "accepted" /\ worker = "none" /\ worker' = "loop" /\ width > 0
      /\ stream' = Seek(AfterTags, data_chunk.start)
      /\ residual_number_of_samples' = total
      /\ UNCHANGED <<pc, riff_chunks, format_header, formatRead, framesEncoded>>
  BY DEF StartSamples, width, total, formatVars
<1>2. /\ "data" \in DOMAIN riff_chunks /\ framesEncoded = 0 /\ formatRead \in BOOLEAN
      /\ stream \in StreamsThat(formatRead) /\ ChunkInv
  BY <1>1 DEF SampleInv, AcceptedInv, LoopInv, StreamsThat, FileInv
<1>3. data_chunk.start \in Nat /\ data_chunk.size \in Nat
  BY <1>2, DataIs
<1>4. /\ width \in Nat \ {0} /\ num_channels \in {1, 2}
  <2>1. format_header \in Headers /\ IsSane(format_header)
    BY <1>1 DEF FileInv, VerdictInv
  <2>2. width \in Nat
    BY <2>1, WidthIs DEF width
  <2>3. num_channels \in {1, 2}
    BY <2>1 DEF IsSane, num_channels
  <2> QED
    BY <1>1, <2>2, <2>3
<1>5. total \in Nat
  BY <1>3, <1>4, DivisionIs DEF total
<1>6. UNCHANGED <<width, total, num_channels, data_chunk>>
  BY <1>1 DEF width, total, num_channels, data_chunk
<1>7. /\ stream' \in Streams
      /\ formatRead => Good(stream') /\ stream'.pos = data_chunk.start
  <2>1. AfterTags \in StreamsThat(formatRead)
    BY <1>2, TagsAreRead
  <2> QED
    BY <1>1, <1>3, <2>1 DEF StreamsThat, Seek, Streams, Good
<1>8. data_chunk.start + (total - total) * width = data_chunk.start
  <2>1. (total - total) * width = 0
    BY <1>4, <1>5
  <2> QED
    BY <1>3, <2>1
<1>9. AcceptedInv'
  BY <1>1, <1>2, <1>6, <1>7, <1>8 DEF AcceptedInv, Good
<1>10. FrameInv'
  <2>1. 0 * num_channels = total - total /\ (total = 0 => 0 = total \div num_channels)
    BY <1>4, <1>5
  <2> QED
    BY <1>1, <1>2, <1>5, <1>6, <2>1 DEF FrameInv
<1>11. LoopInv'
  BY <1>1, <1>2, <1>4, <1>5, <1>6, <1>10 DEF LoopInv
<1> QED
  BY <1>9, <1>11 DEF SampleInv

\* A pass leaves fewer samples, and what has been encoded are whole frames.
LEMMA PassIs ==
  ASSUME num_channels \in {1, 2}, total \in Nat, framesEncoded \in Nat,
         residual_number_of_samples \in 1..total,
         framesEncoded * num_channels = total - residual_number_of_samples
  PROVE  LET n == number_of_samples
             left == residual_number_of_samples - n
             encoded == framesEncoded + (n \div num_channels) IN
         /\ n \in 1..residual_number_of_samples
         /\ encoded \in Nat
         /\ \/ left # 0 /\ encoded * num_channels = total - left
            \/ left = 0 /\ encoded = total \div num_channels
<1> DEFINE d == num_channels
           t == total
           r == residual_number_of_samples
           f == framesEncoded
           n == number_of_samples
<1>1. n = IF r > MaxFrames * d THEN MaxFrames * d ELSE r
  BY DEF number_of_samples, max_number_of_samples_in_a_chunk
<1>2. /\ d \in {1, 2} /\ t \in Nat /\ r \in 1..t /\ f \in Nat /\ f * d = t - r
      /\ MaxFrames \in Nat \ {0}
  BY ConversionAssumption
<1> HIDE DEF d, t, r, f, n
<1>3. /\ n \in 1..r /\ f + (n \div d) \in Nat
      /\ \/ r - n # 0 /\ (f + (n \div d)) * d = t - (r - n)
         \/ r - n = 0 /\ f + (n \div d) = t \div d
  <2>1. CASE d = 1
    <3>1. n = (IF r > MaxFrames THEN MaxFrames ELSE r) /\ f = t - r
      BY <1>1, <1>2, <2>1
    <3>2. n \in 1..r /\ n \div 1 = n /\ t \div 1 = t
      BY <1>2, <3>1
    <3> QED
      BY <1>2, <2>1, <3>1, <3>2
  <2>2. CASE d = 2
    <3>1. n = (IF r > MaxFrames * 2 THEN MaxFrames * 2 ELSE r) /\ f * 2 = t - r
      BY <1>1, <1>2, <2>2
    <3>2. n \in 1..r
      BY <1>2, <3>1
    <3>3. n \div 2 \in Nat
      BY <3>2
    <3>4. CASE r > MaxFrames * 2
      BY <1>2, <2>2, <3>1, <3>2, <3>4
    <3>5. CASE ~(r > MaxFrames * 2)
      <4>1. n = r /\ t = 2 * f + r
        BY <1>2, <3>1, <3>5
      <4>2. (2 * f + r) \div 2 = f + (r \div 2)
        BY <1>2
      <4> QED
        BY <1>2, <2>2, <3>2, <3>3, <4>1, <4>2
    <3> QED
      BY <3>4, <3>5
  <2> QED
    BY <1>2, <2>1, <2>2
<1> QED
  BY <1>3, Zenon DEF d, t, r, f, n

\* The bytes of a pass are in the data chunk, behind those of the last one.
LEMMA PassIsInChunk ==
  ASSUME NEW s \in Nat, NEW w \in Nat \ {0}, NEW size \in Nat, NEW t \in Nat,
         t * w <= size, NEW r \in 0..t, NEW n \in 0..r
  PROVE  /\ n * w \in Nat
         /\ s + (t - r) * w + n * w = s + (t - (r - n)) * w
         /\ s + (t - r) * w + n * w <= s + size
<1>1. n * w \in Nat /\ (t - r) * w \in Nat /\ (r - n) * w \in Nat
  OBVIOUS
<1>2. (t - (r - n)) * w = (t - r) * w + n * w
  OBVIOUS
<1>3. t * w = (t - r) * w + n * w + (r - n) * w
  OBVIOUS
<1> QED
  BY <1>1, <1>2, <1>3

LEMMA ConvertChunkKeeps ==
  ASSUME FileInv, SampleInv, ConvertChunk PROVE SampleInv'
<1> DEFINE r == residual_number_of_samples
           n == number_of_samples
<1>1. /\ worker = "loop" /\ r > 0
      /\ stream' = Read(stream, n * width)
      /\ framesEncoded' = framesEncoded + (n \div num_channels)
      /\ residual_number_of_samples' = r - n
      /\ UNCHANGED <<worker, pc, riff_chunks, format_header, formatRead>>
  BY DEF ConvertChunk, width, formatVars
<1>2. /\ stream \in Streams /\ formatRead \in BOOLEAN
      /\ pc = "accepted" /\ "data" \in DOMAIN riff_chunks
      /\ formatRead => /\ Good(stream)
                       /\ stream.pos = data_chunk.start + (total - r) * width
  BY <1>1 DEF FileInv, WorkerInv, SampleInv, AcceptedInv
<1>3. /\ r \in 1..total /\ framesEncoded \in Nat /\ total \in Nat
      /\ width \in Nat \ {0} /\ framesEncoded * num_channels = total - r
  BY <1>1 DEF SampleInv, LoopInv, FrameInv
<1>4. /\ data_chunk.start \in Nat /\ data_chunk.size \in Nat
      /\ data_chunk.start + data_chunk.size <= file.size
  BY <1>2, DataIs DEF FileInv
<1>5. num_channels \in {1, 2}
  BY <1>2 DEF FileInv, VerdictInv, IsSane, num_channels
<1>6. UNCHANGED <<width, total, num_channels, data_chunk>>
  BY <1>1 DEF width, total, num_channels, data_chunk
<1>7. total * width <= data_chunk.size
  BY <1>3, <1>4, DivisionIs DEF total
<1>8. /\ n \in 1..r /\ framesEncoded' \in Nat
      /\ \/ r - n # 0 /\ framesEncoded' * num_channels = total - (r - n)
         \/ r - n = 0 /\ framesEncoded' = total \div num_channels
  BY <1>1, <1>3, <1>5, PassIs, Zenon
<1>9. /\ n * width \in Nat
       /\ data_chunk.start + (total - r) * width + n * width
             = data_chunk.start + (total - (r - n)) * width
       /\ data_chunk.start + (total - r) * width + n * width
             <= data_chunk.start + data_chunk.size
  <2> HIDE DEF r, n
  <2>1. r \in 0..total /\ n \in 0..r
    BY <1>3, <1>8
  <2> QED
    BY <1>3, <1>4, <1>7, <2>1, PassIsInChunk
<1>10. stream' \in Streams
  BY <1>1, <1>2, <1>9, ReadStays
<1>11. ASSUME formatRead
       PROVE  Good(stream') /\ stream'.pos = data_chunk.start + (total - (r - n)) * width
  <2>1. Good(stream) /\ stream.pos = data_chunk.start + (total - r) * width
    BY <1>2, <1>11
  <2>2. stream.pos + n * width <= file.size
    <3>1. stream.pos + n * width <= data_chunk.start + data_chunk.size
      BY <1>9, <2>1
    <3> HIDE DEF n
    <3>2. stream.pos \in Nat /\ file.size \in Nat
      BY <1>2, ReaderAssumption DEF Streams, FileInv, ChunkInv, ReadInv, UInt32
    <3> QED
      BY <1>4, <1>9, <3>1, <3>2
  <2>3. Good(stream') /\ stream'.pos = stream.pos + n * width
    BY <1>1, <1>2, <1>9, <2>1, <2>2, ReadSucceeds
  <2> QED
    BY <1>9, <2>1, <2>3
<1>12. r - n \in Nat /\ r - n <= total
  BY <1>3, <1>8
<1> HIDE DEF r, n
<1>13. AcceptedInv'
  BY <1>1, <1>2, <1>6, <1>10, <1>11 DEF AcceptedInv, Good
<1>14. FrameInv'
  BY <1>1, <1>6, <1>8 DEF FrameInv
<1>15. LoopInv'
  BY <1>1, <1>3, <1>6, <1>8, <1>12, <1>14 DEF LoopInv
<1> QED
  BY <1>13, <1>15 DEF SampleInv

\* A step of the worker that is no pass.
LEMMA NoPassKeeps ==
  ASSUME FileInv, SampleInv, RunIntoUndefined \/ GiveUp \/ Flush PROVE SampleInv'
<1>1. /\ UNCHANGED <<stream, pc, riff_chunks, format_header, formatRead,
                     residual_number_of_samples, framesEncoded>>
      /\ worker' \in {"undefined", "given up", "converted"}
      /\ worker' = "converted" => worker = "loop" /\ residual_number_of_samples = 0
  BY DEF RunIntoUndefined, GiveUp, Flush, readerVars, formatVars
<1>2. UNCHANGED <<width, total, num_channels, data_chunk>>
  BY <1>1 DEF width, total, num_channels, data_chunk
<1>3. AcceptedInv'
  BY <1>1, <1>2 DEF SampleInv, AcceptedInv, Good
<1>4. LoopInv'
  BY <1>1, <1>2 DEF SampleInv, LoopInv, FrameInv
<1> QED
  BY <1>3, <1>4 DEF SampleInv

LEMMA SampleInvNext ==
  ASSUME FileInv, FileInv', SampleInv, [Next]_vars PROVE SampleInv'
<1>1. CASE Reader /\ UNCHANGED workerVars
  BY <1>1, ReaderKeepsSampleInv
<1>2. CASE StartSamples
  BY <1>2, StartSamplesKeeps
<1>3. CASE ConvertChunk
  BY <1>3, ConvertChunkKeeps
<1>4. CASE RunIntoUndefined \/ GiveUp \/ Flush
  BY <1>4, NoPassKeeps
<1>5. CASE UNCHANGED vars
  <2>1. UNCHANGED <<stream, pc, riff_chunks, format_header, formatRead, worker,
                    residual_number_of_samples, framesEncoded>>
    BY <1>5 DEF vars, readerVars, workerVars, formatVars
  <2>2. UNCHANGED <<width, total, num_channels, data_chunk>>
    BY <2>1 DEF width, total, num_channels, data_chunk
  <2> QED
    BY <2>1, <2>2 DEF SampleInv, AcceptedInv, LoopInv, FrameInv, Good
<1> QED
  BY <1>1, <1>2, <1>3, <1>4, <1>5 DEF Next

LEMMA SampleInvAlways == Spec => [](FileInv /\ SampleInv)
<1>1. Init => SampleInv
  <2> SUFFICES ASSUME Init PROVE SampleInv
    OBVIOUS
  <2>1. AcceptedInv
    BY DEF Init, ReaderInit, AcceptedInv, Streams
  <2>2. LoopInv
    BY DEF Init, ReaderInit, LoopInv
  <2> QED
    BY <2>1, <2>2 DEF SampleInv
<1>2. SampleInv /\ FileInv /\ FileInv' /\ [Next]_vars => SampleInv'
  BY SampleInvNext
<1> QED
  BY <1>1, <1>2, FileInvAlways, PTL DEF Spec

\* Whatever a file holds: once its format header has been read, no read fails,
\* and the samples of each pass are those of the data chunk that come next.
THEOREM SamplesAreThoseOfTheChunk == Spec => []SamplesComeFromTheirChunk
<1>1. FileInv /\ SampleInv => SamplesComeFromTheirChunk
  <2> SUFFICES ASSUME FileInv, SampleInv, worker \in {"loop", "converted"}, formatRead
               PROVE  /\ ~stream.fail
                      /\ stream.pos = data_chunk.start
                            + (total - residual_number_of_samples) * width
    BY DEF SamplesComeFromTheirChunk, WorkerIsSound, total, width
  <2> QED
    BY DEF SampleInv, AcceptedInv, FileInv, WorkerInv, Good
<1> QED
  BY <1>1, SampleInvAlways, PTL

\* Whatever the size of the data chunk, the width of a sample and the length of
\* a pass: when a file has been converted, LAME has been given all its frames.
THEOREM EveryFrameIsEncoded == Spec => []AllFramesAreEncoded
<1>1. SampleInv => AllFramesAreEncoded
  BY DEF SampleInv, LoopInv, FrameInv, AllFramesAreEncoded, WorkerIsSound, total, width
<1> QED
  BY <1>1, SampleInvAlways, PTL

\* The format header that is checked is read from the "fmt " chunk and nothing
\* else, or the stream had failed and nothing was read.
THEOREM FormatIsThatOfTheChunk == Spec => FormatReadFromItsChunk
<1> DEFINE Inside == riff_chunks["fmt "].start < stream'.pos
                     /\ stream'.pos <= riff_chunks["fmt "].start + riff_chunks["fmt "].size
<1>1. FileInv /\ SampleInv /\ [Next]_vars => [formatRead' /\ ~formatRead => Inside]_readerVars
  <2> HIDE DEF Inside
  <2> SUFFICES ASSUME FileInv, SampleInv, [Next]_vars, formatRead', ~formatRead
               PROVE  Inside
    OBVIOUS
  <2>1. formatRead' # formatRead
    OBVIOUS
  <2>2. ReadFormat
    BY <2>1 DEF Next, StartSamples, ConvertChunk, RunIntoUndefined, GiveUp, Flush, vars,
       readerVars, formatVars, Reader, OpenInput, NoHeader, DiscardChunk, TakeChunk,
       NotPresent, WrongFormat, EnterChunk, TopLevelRead, RiffRead, MetaDataRead, MissingChunk
  <2> QED
    BY <2>2, ReadFormatKeeps, Zenon DEF FileInv, SampleInv, AcceptedInv, Inside
<1> QED
  BY <1>1, SampleInvAlways, PTL DEF Spec, FormatReadFromItsChunk

-----------------------------------------------------------------------------
(* The types *)

ControlInv ==
    /\ pc \in Reading \cup Verdicts
    /\ list \in {"top", "riff", "outer", "inner"}
    /\ format_header \in Headers \cup {None}
    /\ worker \in {"none", "loop", "converted", "given up", "undefined"}

LEMMA ReaderKeepsControl == ASSUME ControlInv, Reader PROVE (pc \in Reading \cup Verdicts)'
                                     /\ (list \in {"top", "riff", "outer", "inner"})'
                                     /\ (format_header \in Headers \cup {None})'
<1>1. CASE ReadFormat
  <2>1. pc' \in Verdicts /\ format_header' \in Headers /\ list' = list
    BY <1>1 DEF ReadFormat, Verdicts
  <2> QED
    BY <2>1 DEF ControlInv
<1>2. CASE ~ReadFormat
  <2>1. format_header' = format_header
    BY <1>2 DEF Reader, OpenInput, NoHeader, DiscardChunk, TakeChunk, NotPresent, WrongFormat,
       EnterChunk, TopLevelRead, RiffRead, MetaDataRead, MissingChunk, formatVars
  <2>2. pc' \in Reading \cup Verdicts
    BY <1>2 DEF Reader, OpenInput, NoHeader, DiscardChunk, TakeChunk, NotPresent, WrongFormat,
       EnterChunk, TopLevelRead, RiffRead, MetaDataRead, MissingChunk, Reading, Verdicts
  <2>3. list' \in {list, "riff", "outer", "inner"}
    BY <1>2 DEF Reader, OpenInput, NoHeader, DiscardChunk, TakeChunk, NotPresent, WrongFormat,
       EnterChunk, TopLevelRead, RiffRead, MetaDataRead, MissingChunk
  <2> QED
    BY <2>1, <2>2, <2>3 DEF ControlInv
<1> QED
  BY <1>1, <1>2

LEMMA ControlInvNext == ASSUME ControlInv, [Next]_vars PROVE ControlInv'
<1>1. CASE Reader /\ UNCHANGED workerVars
  BY <1>1, ReaderKeepsControl DEF ControlInv, workerVars
<1>2. CASE StartSamples \/ ConvertChunk \/ RunIntoUndefined \/ GiveUp \/ Flush
  <2>1. /\ UNCHANGED <<pc, list, format_header>>
        /\ worker' \in {worker, "loop", "converted", "given up", "undefined"}
    BY <1>2 DEF StartSamples, ConvertChunk, RunIntoUndefined, GiveUp, Flush, readerVars,
       formatVars
  <2> QED
    BY <2>1 DEF ControlInv
<1>3. CASE UNCHANGED vars
  BY <1>3 DEF ControlInv, vars, readerVars, workerVars, formatVars
<1> QED
  BY <1>1, <1>2, <1>3 DEF Next

\* The variables have their types, and no chunk that is known is empty.
THEOREM TypeCorrect == Spec => []TypeOK
<1>1. Init => ControlInv
  BY DEF Init, ReaderInit, ControlInv, Reading
<1>2. ControlInv /\ [Next]_vars => ControlInv'
  BY ControlInvNext
<1>3. FileInv /\ SampleInv /\ ControlInv => TypeOK
  <2> SUFFICES ASSUME FileInv, SampleInv, ControlInv PROVE TypeOK
    OBVIOUS
  <2>1. file.size \in Nat
    BY ReaderAssumption DEF FileInv, ChunkInv, ReadInv, UInt32
  <2>2. \A m \in ChunkMaps : IsChunkMap(m)
    BY DEF FileInv, ChunkInv, ReadInv, Sound, ChunkMaps, IsChunkMap
  <2>3. stream \in Streams /\ limit \in Int /\ formatRead \in BOOLEAN
    BY DEF FileInv, ChunkInv, ReadInv, SampleInv, AcceptedInv
  <2>4. ReaderTypeOK
    BY <2>1, <2>2, <2>3 DEF ReaderTypeOK, ControlInv, Reading, Streams
  <2> QED
    BY <2>4 DEF TypeOK, ControlInv, SampleInv, LoopInv
<1> QED
  BY <1>1, <1>2, <1>3, SampleInvAlways, PTL DEF Spec

-----------------------------------------------------------------------------
(* The file of a layout *)

ItemLists == Seq([id : STRING, size : Nat])

LEMMA ElementsOf ==
  ASSUME NEW S, NEW s \in Seq(S)
  PROVE  Len(s) \in Nat /\ DOMAIN s = 1..Len(s) /\ \A i \in 1..Len(s) : s[i] \in S
  OBVIOUS

\* By induction over the chunks: where they begin.
LEMMA SpaceIs ==
  ASSUME NEW items \in ItemLists
  PROVE  /\ Len(items) \in Nat
         /\ \A i \in 1..Len(items) : items[i].size \in Nat /\ items[i].id \in STRING
         /\ Space(items)[0] = 0
         /\ \A i \in 0..Len(items) : Space(items)[i] \in Nat /\ Space(items)[i] % 2 = 0
         /\ \A i \in 1..Len(items) :
               Space(items)[i] = Space(items)[i - 1] + 8 + Pad(items[i].size)
<1> DEFINE n == Len(items)
           Even == {i \in Nat : i % 2 = 0}
           step == [p \in Even \X (1..n) |-> p[1] + 8 + Pad(items[p[2]].size)]
           Obeys(f) == f = [i \in 0..n |-> IF i = 0 THEN 0
                                           ELSE f[i - 1] + SizeofChunkHeader + Pad(items[i].size)]
           bytes == CHOOSE f : Obeys(f)
<1>1. n \in Nat /\ \A i \in 1..n : items[i].size \in Nat /\ items[i].id \in STRING
  <2>1. n \in Nat /\ \A i \in 1..n : items[i] \in [id : STRING, size : Nat]
    BY ElementsOf, Zenon DEF ItemLists
  <2> QED
    BY <2>1
<1>2. Space(items) = bytes
  BY DEF Space
<1>3. step \in StepsOn(Even, 0, n)
  <2>1. ASSUME NEW x \in Even, NEW i \in 1..n PROVE x + 8 + Pad(items[i].size) \in Even
    BY <1>1 DEF Pad
  <2>2. \A p \in Even \X (1..n) : p[1] + 8 + Pad(items[p[2]].size) \in Even
    BY <2>1
  <2> HIDE DEF Even
  <2> QED
    BY <2>2 DEF StepsOn
<1>4. PICK f : Recurs(f, Even, 0, 0, n, step)
  <2>1. 0 \in Even
    OBVIOUS
  <2> HIDE DEF Even, step, n
  <2>2. 0 \in Int /\ n \in Int /\ 0 <= n
    BY <1>1
  <2> QED
    BY <1>3, <2>1, <2>2, RecursionExists, Zenon
<1>5. Obeys(f)
  <2>1. f \in [0..n -> Even] /\ f[0] = 0
    BY <1>4 DEF Recurs
  <2>2. ASSUME NEW i \in 1..n PROVE f[i] = f[i - 1] + 8 + Pad(items[i].size)
    <3>1. f[i] = step[<<f[i - 1], i>>]
      <4>1. i \in (0 + 1)..n
        OBVIOUS
      <4> HIDE DEF Even, step, n
      <4> QED
        BY <1>4, <4>1, Zenon DEF Recurs
    <3>2. <<f[i - 1], i>> \in Even \X (1..n)
      <4>1. i - 1 \in 0..n
        BY <1>1
      <4>2. f[i - 1] \in Even
        BY <2>1, <4>1, Zenon
      <4> HIDE DEF Even, n
      <4> QED
        BY <4>2
    <3>3. \A p \in Even \X (1..n) : step[p] = p[1] + 8 + Pad(items[p[2]].size)
      OBVIOUS
    <3> HIDE DEF Even, step
    <3> QED
      BY <3>1, <3>2, <3>3
  <2> HIDE DEF Even
  <2> QED
    BY <2>1, <2>2 DEF SizeofChunkHeader
<1>6. Obeys(bytes)
  <2> HIDE DEF Obeys
  <2> QED
    BY <1>5
<1>7. /\ bytes[0] = 0
      /\ \A i \in 1..n : bytes[i] = bytes[i - 1] + 8 + Pad(items[i].size)
  <2> HIDE DEF bytes
  <2> QED
    BY <1>1, <1>6 DEF SizeofChunkHeader
<1> DEFINE Fine == {i \in 0..n : bytes[i] \in Even}
<1>8. 0..n \subseteq Fine
  <2> HIDE DEF bytes
  <2>1. 0 \in Fine
    BY <1>1, <1>7
  <2>2. \A i \in 0..(n - 1) : i \in Fine => i + 1 \in Fine
    <3> SUFFICES ASSUME NEW i \in 0..(n - 1), i \in Fine PROVE i + 1 \in Fine
      OBVIOUS
    <3>1. i + 1 \in 1..n /\ (i + 1) - 1 = i
      BY <1>1
    <3>2. bytes[i + 1] = bytes[i] + 8 + Pad(items[i + 1].size)
      BY <1>7, <3>1
    <3>3. items[i + 1].size \in Nat
      BY <1>1, <3>1
    <3>4. bytes[i + 1] \in Even
      BY <3>2, <3>3 DEF Pad
    <3> QED
      BY <3>1, <3>4
  <2>3. n \in Int /\ 0 \in Int
    BY <1>1
  <2> HIDE DEF Fine, n
  <2> QED
    BY <2>1, <2>2, <2>3, RangeInduction, Zenon
<1> HIDE DEF bytes
<1> QED
  BY <1>1, <1>2, <1>7, <1>8

\* A chunk ends before those behind it begin.
LEMMA SpaceGrows ==
  ASSUME NEW items \in ItemLists, NEW i \in 1..Len(items), NEW j \in i..Len(items)
  PROVE  Space(items)[i - 1] + 8 + Pad(items[i].size) <= Space(items)[j]
<1> DEFINE n == Len(items)
           s(k) == Space(items)[k]
           Fine == {k \in i..n : s(i) <= s(k)}
<1>1. /\ n \in Nat /\ \A k \in 0..n : s(k) \in Nat
      /\ \A k \in 1..n : s(k) = s(k - 1) + 8 + Pad(items[k].size)
      /\ \A k \in 1..n : Pad(items[k].size) \in Nat
  <2>1. \A k \in Nat : Pad(k) \in Nat
    BY DEF Pad
  <2> QED
    BY <2>1, SpaceIs
<1>2. i..n \subseteq Fine
  <2> HIDE DEF s
  <2>1. i \in Fine
    BY <1>1
  <2>2. \A k \in i..(n - 1) : k \in Fine => k + 1 \in Fine
    <3> SUFFICES ASSUME NEW k \in i..(n - 1), k \in Fine PROVE k + 1 \in Fine
      OBVIOUS
    <3>1. k + 1 \in 1..n /\ (k + 1) - 1 = k /\ k \in 0..n /\ i \in 0..n
      BY <1>1
    <3>2. s(k + 1) = s(k) + 8 + Pad(items[k + 1].size)
      BY <1>1, <3>1
    <3>3. s(k) \in Nat /\ s(i) \in Nat /\ Pad(items[k + 1].size) \in Nat
      BY <1>1, <3>1
    <3> QED
      BY <3>1, <3>2, <3>3
  <2>3. i \in Int /\ n \in Int
    BY <1>1
  <2> HIDE DEF Fine, n
  <2> QED
    BY <2>1, <2>2, <2>3, RangeInduction, Zenon
<1>3. s(i) <= s(j)
  BY <1>2
<1> QED
  BY <1>1, <1>3

LaidOut(l) == IsLayout(l) /\ l.slack = 0 /\ l.excess = 0

\* The end of the sub-chunks, where the chunks behind the "RIFF" chunk begin.
SubsEnd(l) == SubPosition(l, Len(l.subs) + 1)

LEMMA ListsAre ==
  ASSUME NEW l, LaidOut(l)
  PROVE  /\ l.subs \in ItemLists /\ l.tops \in ItemLists
         /\ Len(l.subs) \in Nat /\ Len(l.tops) \in Nat
         /\ DOMAIN l.subs = 1..Len(l.subs) /\ DOMAIN l.tops = 1..Len(l.tops)
         /\ \A i \in 1..Len(l.subs) : l.subs[i].size \in Nat
         /\ \A i \in 1..Len(l.tops) : l.tops[i].size \in Nat
         /\ \A i \in 1..Len(l.subs) : Pad(l.subs[i].size) \in Nat
         /\ \A i \in 1..Len(l.tops) : Pad(l.tops[i].size) \in Nat
<1>1. l.subs \in ItemLists /\ l.tops \in ItemLists
  BY DEF LaidOut, IsLayout, ItemLists
<1>2. /\ \A i \in 1..Len(l.subs) : l.subs[i].size \in Nat
      /\ \A i \in 1..Len(l.tops) : l.tops[i].size \in Nat
  BY <1>1, SpaceIs
<1>3. \A k \in Nat : Pad(k) \in Nat
  BY DEF Pad
<1> QED
  BY <1>1, <1>2, <1>3, ElementsOf DEF ItemLists

LEMMA PositionsAre ==
  ASSUME NEW l, LaidOut(l)
  PROVE  /\ RiffSize(l) = SubsEnd(l) - 8 /\ Pad(RiffSize(l)) = RiffSize(l)
         /\ RiffSize(l) \in Nat /\ RiffSize(l) >= 4
         /\ SubsEnd(l) \in Nat /\ SubsEnd(l) >= 12
         /\ TopPosition(l, Len(l.tops) + 1) \in Nat
         /\ TopPosition(l, Len(l.tops) + 1) >= SubsEnd(l)
         /\ SubPosition(l, 1) = 12
         /\ \A i \in 1..(Len(l.subs) + 1) : SubPosition(l, i) \in Nat /\ SubPosition(l, i) >= 12
         /\ \A i \in 1..Len(l.subs) :
               SubPosition(l, i + 1) = SubPosition(l, i) + 8 + Pad(l.subs[i].size)
         /\ TopPosition(l, 1) = SubsEnd(l)
         /\ \A i \in 1..(Len(l.tops) + 1) :
               TopPosition(l, i) \in Nat /\ TopPosition(l, i) >= SubsEnd(l)
         /\ \A i \in 1..Len(l.tops) :
               TopPosition(l, i + 1) = TopPosition(l, i) + 8 + Pad(l.tops[i].size)
         /\ Pad(TopPosition(l, Len(l.tops) + 1)) = TopPosition(l, Len(l.tops) + 1)
<1> DEFINE n == Len(l.subs)
           m == Len(l.tops)
           s == Space(l.subs)
           t == Space(l.tops)
<1>1. /\ n \in Nat /\ s[0] = 0
      /\ \A i \in 0..n : s[i] \in Nat /\ s[i] % 2 = 0
      /\ \A i \in 1..n : s[i] = s[i - 1] + 8 + Pad(l.subs[i].size)
  BY ListsAre, SpaceIs
<1>2. /\ m \in Nat /\ t[0] = 0
      /\ \A i \in 0..m : t[i] \in Nat /\ t[i] % 2 = 0
      /\ \A i \in 1..m : t[i] = t[i - 1] + 8 + Pad(l.tops[i].size)
  BY ListsAre, SpaceIs
<1>3. \A i : SubPosition(l, i) = 12 + s[i - 1]
  BY DEF SubPosition, SizeofChunkHeader, SizeofFourCC
<1>4. RiffSize(l) = 4 + s[n] /\ s[n] \in Nat /\ s[n] % 2 = 0
  <2>1. l.slack = 0 /\ n \in 0..n
    BY <1>1 DEF LaidOut
  <2>2. s[n] \in Nat /\ s[n] % 2 = 0
    BY <1>1, <2>1
  <2> QED
    BY <2>1, <2>2 DEF RiffSize, SizeofFourCC
<1>5. Pad(RiffSize(l)) = RiffSize(l)
  <2> HIDE DEF s, n
  <2> QED
    BY <1>4 DEF Pad
<1>6. \A i : TopPosition(l, i) = 12 + s[n] + t[i - 1]
  <2> HIDE DEF s, n, t
  <2>1. \A i : TopPosition(l, i) = 8 + Pad(RiffSize(l)) + t[i - 1]
    BY DEF TopPosition, SizeofChunkHeader, t
  <2> SUFFICES ASSUME NEW i PROVE TopPosition(l, i) = 12 + s[n] + t[i - 1]
    OBVIOUS
  <2>2. TopPosition(l, i) = 8 + (4 + s[n]) + t[i - 1] 
    BY <1>4, <1>5, <2>1
  <2>3. 8 + (4 + s[n]) = 12 + s[n]
    BY <1>4
  <2> QED
    BY <2>2, <2>3
<1> HIDE DEF s, t
<1>7. SubPosition(l, n + 1) = 12 + s[n] /\ SubPosition(l, 1) = 12
  BY <1>1, <1>3
<1>8. \A i \in 1..(n + 1) : i - 1 \in 0..n
  BY <1>1
<1>9. \A i \in 1..(m + 1) : i - 1 \in 0..m
  BY <1>2
<1>10. \A i \in 1..(n + 1) : SubPosition(l, i) \in Nat /\ SubPosition(l, i) >= 12
  BY <1>1, <1>3, <1>8
<1>11. \A i \in 1..n : SubPosition(l, i + 1) = SubPosition(l, i) + 8 + Pad(l.subs[i].size)
  <2> SUFFICES ASSUME NEW i \in 1..n
               PROVE SubPosition(l, i + 1) = SubPosition(l, i) + 8 + Pad(l.subs[i].size)
    OBVIOUS
  <2>1. SubPosition(l, i + 1) = 12 + s[i] /\ SubPosition(l, i) = 12 + s[i - 1]
        /\ s[i - 1] \in Nat /\ s[i] \in Nat
        /\ s[i] = s[i - 1] + 8 + Pad(l.subs[i].size)
    BY <1>1, <1>3, <1>8
  <2>2. Pad(l.subs[i].size) \in Int
    BY ListsAre
  <2> QED
    BY <2>1, <2>2
<1>12. TopPosition(l, 1) = 12 + s[n]
  <2>1. 1 - 1 = 0
    OBVIOUS
  <2>2. TopPosition(l, 1) = 12 + s[n] + t[0]
    BY <1>6, <2>1
  <2> QED
    BY <1>2, <1>4, <2>2
<1>13. \A i \in 1..(m + 1) : TopPosition(l, i) \in Nat /\ TopPosition(l, i) >= 12 + s[n]
  <2> SUFFICES ASSUME NEW i \in 1..(m + 1)
               PROVE  TopPosition(l, i) \in Nat /\ TopPosition(l, i) >= 12 + s[n]
    OBVIOUS
  <2>1. t[i - 1] \in Nat
    BY <1>2, <1>9
  <2>2. TopPosition(l, i) = 12 + s[n] + t[i - 1]
    BY <1>6
  <2> HIDE DEF n
  <2> QED
    BY <1>4, <2>1, <2>2
<1>14. \A i \in 1..m : TopPosition(l, i + 1) = TopPosition(l, i) + 8 + Pad(l.tops[i].size)
  <2> SUFFICES ASSUME NEW i \in 1..m
               PROVE TopPosition(l, i + 1) = TopPosition(l, i) + 8 + Pad(l.tops[i].size)
    OBVIOUS
  <2>1. TopPosition(l, i + 1) = 12 + s[n] + t[i] /\ TopPosition(l, i) = 12 + s[n] + t[i - 1]
        /\ t[i - 1] \in Nat /\ t[i] \in Nat
        /\ t[i] = t[i - 1] + 8 + Pad(l.tops[i].size)
    BY <1>2, <1>6, <1>9
  <2>2. Pad(l.tops[i].size) \in Nat
    BY ListsAre
  <2>3. \A a, b, c \in Nat : 12 + a + (b + 8 + c) = (12 + a + b) + 8 + c
    OBVIOUS
  <2>4. 12 + s[n] + (t[i - 1] + 8 + Pad(l.tops[i].size))
            = (12 + s[n] + t[i - 1]) + 8 + Pad(l.tops[i].size)
    BY <1>4, <2>1, <2>2, <2>3, Zenon
  <2> QED
    BY <2>1, <2>4, Zenon
<1>15. Pad(TopPosition(l, m + 1)) = TopPosition(l, m + 1)
  <2>1. TopPosition(l, m + 1) = 12 + s[n] + t[m] /\ t[m] \in Nat /\ t[m] % 2 = 0
    BY <1>2, <1>6
  <2> HIDE DEF n, m
  <2> QED
    BY <1>4, <2>1 DEF Pad
<1>16. n + 1 \in 1..(n + 1) /\ m + 1 \in 1..(m + 1)
  BY <1>1, <1>2
<1>17. /\ SubsEnd(l) = 12 + s[n] /\ SubsEnd(l) \in Nat /\ SubsEnd(l) >= 12
       /\ RiffSize(l) = SubsEnd(l) - 8 /\ RiffSize(l) \in Nat /\ RiffSize(l) >= 4
  <2>1. SubsEnd(l) = SubPosition(l, n + 1)
    BY DEF SubsEnd
  <2> HIDE DEF n
  <2> QED
    BY <1>4, <1>7, <2>1
<1>18. TopPosition(l, m + 1) \in Nat /\ TopPosition(l, m + 1) >= SubsEnd(l)
  BY <1>13, <1>16, <1>17
<1> HIDE DEF n, m
<1> QED
  BY <1>5, <1>7, <1>10, <1>11, <1>12, <1>13, <1>14, <1>15, <1>17, <1>18 DEF n, m

\* The chunks beside the "RIFF" chunk itself, with their positions.
Outer(l) == {<<SubPosition(l, i), l.subs[i]>> : i \in DOMAIN l.subs}
            \cup {<<TopPosition(l, i), l.tops[i]>> : i \in DOMAIN l.tops}

Placed(l) == {<<0, Chunk("RIFF", RiffSize(l))>>} \cup Outer(l)
             \cup {<<TagPosition(x[1]), TagOf(x[2])>> : x \in {y \in Outer(l) : y[2].id = "LIST"}}

EndOf(x) == x[1] + 8 + Pad(x[2].size)

LEMMA SubsInOrder ==
  ASSUME NEW l, LaidOut(l), NEW i \in 1..Len(l.subs), NEW j \in 1..(Len(l.subs) + 1), i < j
  PROVE  SubPosition(l, i) + 8 + Pad(l.subs[i].size) <= SubPosition(l, j)
<1> DEFINE s == Space(l.subs)
<1>1. l.subs \in ItemLists /\ Len(l.subs) \in Nat
  BY ListsAre
<1>2. j - 1 \in i..Len(l.subs) /\ i - 1 \in 0..Len(l.subs) /\ j - 1 \in 0..Len(l.subs)
  BY <1>1
<1>3. /\ s[i - 1] + 8 + Pad(l.subs[i].size) <= s[j - 1]
      /\ s[i - 1] \in Nat /\ s[j - 1] \in Nat /\ Pad(l.subs[i].size) \in Nat
  BY <1>1, <1>2, SpaceGrows, SpaceIs, ListsAre
<1>4. SubPosition(l, i) = 12 + s[i - 1] /\ SubPosition(l, j) = 12 + s[j - 1]
  BY DEF SubPosition, SizeofChunkHeader, SizeofFourCC
<1> HIDE DEF s
<1> QED
  BY <1>3, <1>4

LEMMA TopsInOrder ==
  ASSUME NEW l, LaidOut(l), NEW i \in 1..Len(l.tops), NEW j \in 1..(Len(l.tops) + 1), i < j
  PROVE  TopPosition(l, i) + 8 + Pad(l.tops[i].size) <= TopPosition(l, j)
<1> DEFINE t == Space(l.tops)
           b == 8 + Pad(RiffSize(l))
<1>1. l.tops \in ItemLists /\ Len(l.tops) \in Nat
  BY ListsAre
<1>2. j - 1 \in i..Len(l.tops) /\ i - 1 \in 0..Len(l.tops) /\ j - 1 \in 0..Len(l.tops)
  BY <1>1
<1>3. /\ t[i - 1] + 8 + Pad(l.tops[i].size) <= t[j - 1]
      /\ t[i - 1] \in Nat /\ t[j - 1] \in Nat /\ Pad(l.tops[i].size) \in Nat
  BY <1>1, <1>2, SpaceGrows, SpaceIs, ListsAre
<1>4. TopPosition(l, i) = b + t[i - 1] /\ TopPosition(l, j) = b + t[j - 1]
  BY DEF TopPosition, SizeofChunkHeader, SizeofFourCC
<1>5. b \in Nat
  BY PositionsAre
<1> HIDE DEF t, b
<1> QED
  BY <1>3, <1>4, <1>5

\* A chunk of a layout has its place, which it shares with no other one.
LEMMA OuterIs ==
  ASSUME NEW l, LaidOut(l)
  PROVE  /\ \A x \in Outer(l) :
               /\ x[1] \in Nat /\ x[1] >= 12 /\ x[2].size \in Nat /\ Pad(x[2].size) >= x[2].size
               /\ Pad(x[2].size) \in Nat
               /\ x[2].id = "LIST" => x[2].size >= 12
         /\ \A x, y \in Outer(l) : x = y \/ EndOf(x) <= y[1] \/ EndOf(y) <= x[1]
<1> DEFINE S(i) == <<SubPosition(l, i), l.subs[i]>>
           T(i) == <<TopPosition(l, i), l.tops[i]>>
           n == Len(l.subs)
           m == Len(l.tops)
<1>1. \A x \in Outer(l) : (\E i \in 1..n : x = S(i)) \/ (\E i \in 1..m : x = T(i))
  BY ListsAre DEF Outer
<1>2. \A k \in Nat : Pad(k) >= k /\ Pad(k) \in Nat
  BY DEF Pad
<1>3. \A i \in 1..n : /\ S(i)[1] = SubPosition(l, i) /\ S(i)[2] = l.subs[i]
                      /\ EndOf(S(i)) = SubPosition(l, i) + 8 + Pad(l.subs[i].size)
  BY DEF EndOf
<1>4. \A i \in 1..m : /\ T(i)[1] = TopPosition(l, i) /\ T(i)[2] = l.tops[i]
                      /\ EndOf(T(i)) = TopPosition(l, i) + 8 + Pad(l.tops[i].size)
  BY DEF EndOf
<1>5. n \in Nat /\ m \in Nat /\ SubsEnd(l) \in Nat /\ SubsEnd(l) >= 12
  BY ListsAre, PositionsAre DEF SubsEnd
<1>6. /\ \A i \in 1..n : l.subs[i].id = "LIST" => l.subs[i].size >= 12
      /\ \A i \in 1..m : l.tops[i].id = "LIST" => l.tops[i].size >= 12
  BY ListsAre DEF LaidOut, IsLayout, SizeofFourCC, SizeofChunkHeader
<1> HIDE DEF S, T
<1>7. ASSUME NEW x \in Outer(l)
      PROVE  /\ x[1] \in Nat /\ x[1] >= 12 /\ x[2].size \in Nat /\ Pad(x[2].size) >= x[2].size
             /\ Pad(x[2].size) \in Nat
             /\ x[2].id = "LIST" => x[2].size >= 12
  <2>1. CASE \E i \in 1..n : x = S(i)
    <3>1. PICK i \in 1..n : x = S(i)
      BY <2>1
    <3>2. i \in 1..(n + 1) /\ l.subs[i].size \in Nat
      BY <1>5, ListsAre
    <3>3. SubPosition(l, i) \in Nat /\ SubPosition(l, i) >= 12
      BY <3>2, PositionsAre
    <3>4. x[1] = SubPosition(l, i) /\ x[2] = l.subs[i]
      BY <1>3, <3>1
    <3>5. x[2].size \in Nat /\ (x[2].id = "LIST" => x[2].size >= 12)
      BY <1>6, <3>2, <3>4
    <3> QED
      BY <1>2, <3>3, <3>4, <3>5
  <2>2. CASE \E i \in 1..m : x = T(i)
    <3>1. PICK i \in 1..m : x = T(i)
      BY <2>2
    <3>2. i \in 1..(m + 1) /\ l.tops[i].size \in Nat
      BY <1>5, ListsAre
    <3>3. TopPosition(l, i) \in Nat /\ TopPosition(l, i) >= SubsEnd(l)
      BY <3>2, PositionsAre
    <3>4. x[1] = TopPosition(l, i) /\ x[2] = l.tops[i]
      BY <1>4, <3>1
    <3>5. x[2].size \in Nat /\ (x[2].id = "LIST" => x[2].size >= 12)
      BY <1>6, <3>2, <3>4
    <3>6. x[1] \in Nat /\ x[1] >= 12
      BY <1>5, <3>3, <3>4
    <3> QED
      BY <1>2, <3>5, <3>6
  <2> QED
    BY <1>1, <2>1, <2>2
<1>8. \A i, j \in 1..n : i < j => EndOf(S(i)) <= S(j)[1]
  BY <1>3, <1>5, SubsInOrder
<1>9. \A i, j \in 1..m : i < j => EndOf(T(i)) <= T(j)[1]
  BY <1>4, <1>5, TopsInOrder
<1>10. \A i \in 1..n, j \in 1..m : EndOf(S(i)) <= T(j)[1]
  <2> SUFFICES ASSUME NEW i \in 1..n, NEW j \in 1..m PROVE EndOf(S(i)) <= T(j)[1]
    OBVIOUS
  <2>1. EndOf(S(i)) <= SubsEnd(l)
    BY <1>3, <1>5, SubsInOrder DEF SubsEnd
  <2>2. T(j)[1] >= SubsEnd(l) /\ T(j)[1] \in Nat
    BY <1>4, <1>5, PositionsAre
  <2>3. EndOf(S(i)) \in Int
    BY <1>3, <1>5, PositionsAre, ListsAre
  <2> QED
    BY <1>5, <2>1, <2>2, <2>3
<1>11. ASSUME NEW x \in Outer(l), NEW y \in Outer(l)
       PROVE  x = y \/ EndOf(x) <= y[1] \/ EndOf(y) <= x[1]
  <2>1. CASE \E i, j \in 1..n : x = S(i) /\ y = S(j)
    <3>1. PICK i, j \in 1..n : x = S(i) /\ y = S(j)
      BY <2>1
    <3>2. i < j \/ j < i \/ i = j
      BY <1>5
    <3> QED
      BY <1>8, <3>1, <3>2
  <2>2. CASE \E i, j \in 1..m : x = T(i) /\ y = T(j)
    <3>1. PICK i, j \in 1..m : x = T(i) /\ y = T(j)
      BY <2>2
    <3>2. i < j \/ j < i \/ i = j
      BY <1>5
    <3> QED
      BY <1>9, <3>1, <3>2
  <2>3. CASE \E i \in 1..n, j \in 1..m : {x, y} = {S(i), T(j)}
    <3>1. PICK i \in 1..n, j \in 1..m : {x, y} = {S(i), T(j)}
      BY <2>3
    <3>2. x = y \/ (x = S(i) /\ y = T(j)) \/ (y = S(i) /\ x = T(j))
      BY <3>1
    <3> QED
      BY <1>10, <3>2
  <2> QED
    BY <1>1, <2>1, <2>2, <2>3
<1> QED
  BY <1>7, <1>11

\* No two chunks of a layout have the same position.
LEMMA PlacedOnce ==
  ASSUME NEW l, LaidOut(l), NEW x \in Placed(l), NEW y \in Placed(l), x[1] = y[1]
  PROVE  x = y
<1> DEFINE riff == <<0, Chunk("RIFF", RiffSize(l))>>
           lists == {z \in Outer(l) : z[2].id = "LIST"}
           Tag(z) == <<TagPosition(z[1]), TagOf(z[2])>>
<1>1. \A z \in Placed(l) : z = riff \/ z \in Outer(l) \/ \E w \in lists : z = Tag(w)
  BY DEF Placed
<1>2. \A z \in Outer(l) : z[1] \in Nat /\ z[1] >= 12 /\ EndOf(z) \in Nat /\ EndOf(z) >= z[1] + 8
  BY OuterIs DEF EndOf
<1>3. \A z \in lists : Tag(z)[1] = z[1] + 12 /\ EndOf(z) >= z[1] + 20
  <2>1. \A z \in lists : Tag(z)[1] = z[1] + 12
    BY <1>2 DEF TagPosition, SizeofChunkHeader, SizeofFourCC
  <2>2. \A z \in lists : EndOf(z) >= z[1] + 20
    <3> SUFFICES ASSUME NEW z \in lists PROVE EndOf(z) >= z[1] + 20
      OBVIOUS
    <3>1. z[1] \in Nat /\ Pad(z[2].size) \in Nat /\ z[2].size \in Nat /\ z[2].size >= 12
          /\ Pad(z[2].size) >= z[2].size
      BY OuterIs
    <3> QED
      BY <3>1 DEF EndOf
  <2> QED
    BY <2>1, <2>2
<1>4. riff[1] = 0
  OBVIOUS
<1>5. \A z, w \in Outer(l) : z = w \/ EndOf(z) <= w[1] \/ EndOf(w) <= z[1]
  BY OuterIs
<1> HIDE DEF riff, Tag
<1>6. \A z, w \in Outer(l) : z[1] = w[1] => z = w
  BY <1>2, <1>5
<1>7. \A z \in Outer(l), w \in lists : z[1] # Tag(w)[1]
  <2> SUFFICES ASSUME NEW z \in Outer(l), NEW w \in lists, z[1] = Tag(w)[1] PROVE FALSE
    OBVIOUS
  <2>1. w \in Outer(l) /\ z[1] = w[1] + 12 /\ EndOf(w) >= w[1] + 20
    BY <1>3
  <2>2. z[1] \in Nat /\ w[1] \in Nat /\ EndOf(z) \in Nat /\ EndOf(w) \in Nat /\ EndOf(z) >= z[1] + 8
    BY <1>2, <2>1
  <2>3. z = w \/ EndOf(z) <= w[1] \/ EndOf(w) <= z[1]
    BY <1>5, <2>1
  <2>4. z # w
    BY <2>1, <2>2
  <2> QED
    BY <2>1, <2>2, <2>3, <2>4
<1>8. \A z, w \in lists : Tag(z)[1] = Tag(w)[1] => z = w
  <2> SUFFICES ASSUME NEW z \in lists, NEW w \in lists, Tag(z)[1] = Tag(w)[1] PROVE z[1] = w[1]
    BY <1>6
  <2>1. z[1] + 12 = w[1] + 12 /\ z[1] \in Nat /\ w[1] \in Nat
    BY <1>2, <1>3
  <2> QED
    BY <2>1
<1>9. (\A z \in Outer(l) : z[1] # 0) /\ (\A z \in lists : Tag(z)[1] # 0)
  BY <1>2, <1>3
<1> QED
  BY <1>1, <1>4, <1>6, <1>7, <1>8, <1>9

\* What the file of a layout holds.
LEMMA FileIs ==
  ASSUME file \in Files, file.readable, LaidOut(file.layout)
  PROVE  LET l == file.layout IN
         /\ \A x \in Placed(l) : HeadersAt(x[1]) = {x[2]}
         /\ 8 \in DOMAIN file.format /\ file.format[8] = "WAVE"
         /\ \A x \in Outer(l) : x[2].id = "LIST" =>
               x[1] + 8 \in DOMAIN file.format /\ file.format[x[1] + 8] = "INFO"
         /\ file.size = TopPosition(l, Len(l.tops) + 1)
<1> DEFINE l == file.layout
           lists == {x \in Outer(l) : x[2].id = "LIST"}
           all == Placed(l)
           positions == {8} \cup {x[1] + 8 : x \in lists}
<1>1. file = FileOf(l)
  BY LayoutsAssumption
<1>2. Placed(l) = {<<0, Chunk("RIFF", RiffSize(l))>>} \cup Outer(l)
                  \cup {<<TagPosition(x[1]), TagOf(x[2])>> : x \in lists}
  BY DEF Placed
<1>3. file = [readable |-> TRUE,
              size |-> TopPosition(l, Len(l.tops) + 1) + l.excess,
              header |-> [p \in {x[1] : x \in all} |-> (CHOOSE x \in all : x[1] = p)[2]],
              format |-> [p \in positions |-> IF p = 8 THEN "WAVE" ELSE "INFO"],
              layout |-> l]
  BY <1>1 DEF FileOf, Outer, Placed, SizeofChunkHeader
<1>4. file.header = [p \in {x[1] : x \in all} |-> (CHOOSE x \in all : x[1] = p)[2]]
  BY <1>3
<1>5. file.format = [p \in positions |-> IF p = 8 THEN "WAVE" ELSE "INFO"]
  BY <1>3
<1>6. file.size = TopPosition(l, Len(l.tops) + 1) + l.excess
  BY <1>3
<1>7. ASSUME NEW x \in all PROVE HeadersAt(x[1]) = {x[2]}
  <2> DEFINE Found(p) == CHOOSE z \in all : z[1] = p
  <2>1. Found(x[1]) \in all /\ Found(x[1])[1] = x[1]
    OBVIOUS
  <2>2. file.header = [p \in {z[1] : z \in all} |-> Found(p)[2]]
    BY <1>4
  <2> HIDE DEF Found
  <2>3. Found(x[1]) = x
    BY <2>1, PlacedOnce
  <2>4. x[1] \in {z[1] : z \in all}
    OBVIOUS
  <2>5. x[1] \in DOMAIN file.header /\ file.header[x[1]] = x[2]
    BY <2>2, <2>3, <2>4, Zenon
  <2> QED
    BY <2>5 DEF HeadersAt
<1>8. file.size = TopPosition(l, Len(l.tops) + 1)
  <2>1. TopPosition(l, Len(l.tops) + 1) \in Nat
    BY ListsAre, PositionsAre
  <2> QED
    BY <1>6, <2>1 DEF LaidOut
<1>9. \A x \in lists : x[1] \in Nat /\ x[1] >= 12
  BY OuterIs
<1>10. \A x \in lists : x[1] + 8 \in DOMAIN file.format /\ file.format[x[1] + 8] = "INFO"
  BY <1>5, <1>9
<1> QED
  BY <1>5, <1>7, <1>8, <1>10

\* A WAV file that is as the comments of the code have it.
Wanted == file.readable /\ IsWav(file.layout) /\ HasNoEmptyChunk(file.layout)

LEMMA WantedIs ==
  ASSUME file \in Files, Wanted PROVE LaidOut(file.layout) /\ file.readable
  BY LayoutsAssumption DEF Wanted, IsWav, LaidOut

LEMMA OuterInFile ==
  ASSUME file \in Files, Wanted, NEW x \in Outer(file.layout) PROVE EndOf(x) <= file.size
<1> DEFINE l == file.layout
           n == Len(l.subs)
           m == Len(l.tops)
<1>1. /\ LaidOut(l) /\ n \in Nat /\ m \in Nat
      /\ DOMAIN l.subs = 1..n /\ DOMAIN l.tops = 1..m
      /\ file.size = TopPosition(l, m + 1)
  BY WantedIs, ListsAre, FileIs
<1>2. SubsEnd(l) <= TopPosition(l, m + 1) /\ SubsEnd(l) \in Nat /\ TopPosition(l, m + 1) \in Nat
  BY <1>1, PositionsAre
<1>3. CASE \E i \in 1..n : x = <<SubPosition(l, i), l.subs[i]>>
  <2>1. PICK i \in 1..n : x = <<SubPosition(l, i), l.subs[i]>>
    BY <1>3
  <2>2. SubPosition(l, i) + 8 + Pad(l.subs[i].size) <= SubsEnd(l)
    BY <1>1, SubsInOrder DEF SubsEnd
  <2>3. SubPosition(l, i) + 8 + Pad(l.subs[i].size) \in Nat
    <3>1. i \in 1..(n + 1)
      BY <1>1
    <3>2. SubPosition(l, i) \in Nat /\ Pad(l.subs[i].size) \in Nat
      BY <1>1, <3>1, ListsAre, PositionsAre
    <3> QED
      BY <3>2
  <2>4. EndOf(x) = SubPosition(l, i) + 8 + Pad(l.subs[i].size)
    BY <2>1 DEF EndOf
  <2> QED
    BY <1>1, <1>2, <2>2, <2>3, <2>4
<1>4. CASE \E i \in 1..m : x = <<TopPosition(l, i), l.tops[i]>>
  <2>1. PICK i \in 1..m : x = <<TopPosition(l, i), l.tops[i]>>
    BY <1>4
  <2>2. TopPosition(l, i) + 8 + Pad(l.tops[i].size) <= TopPosition(l, m + 1)
    BY <1>1, TopsInOrder
  <2>3. EndOf(x) = TopPosition(l, i) + 8 + Pad(l.tops[i].size)
    BY <2>1 DEF EndOf
  <2> QED
    BY <1>1, <2>2, <2>3
<1> QED
  BY <1>1, <1>3, <1>4 DEF Outer

-----------------------------------------------------------------------------
(* Chunks that follow each other *)

PlacedAt(p, c) == [at |-> p, id |-> c.id, size |-> c.size]

\* The n chunks in c follow each other up to end, and their headers are in the file.
IsChain(c, n, end) ==
    /\ n \in Nat /\ end \in Nat /\ end <= file.size
    /\ \A k \in 1..n :
          /\ c[k].at \in Nat /\ c[k].size \in Nat
          /\ HeadersAt(c[k].at) = {Chunk(c[k].id, c[k].size)}
          /\ c[k].at + 8 + Pad(c[k].size) <= end
          /\ c[k].at + 8 + Pad(c[k].size) = IF k = n THEN end ELSE c[k + 1].at

TopChain(l) ==
    [k \in 1..(Len(l.tops) + 1) |->
        IF k = 1 THEN PlacedAt(0, Chunk("RIFF", RiffSize(l)))
                 ELSE PlacedAt(TopPosition(l, k - 1), l.tops[k - 1])]

SubChain(l) == [k \in 1..Len(l.subs) |-> PlacedAt(SubPosition(l, k), l.subs[k])]

\* The tag in the "LIST" chunk of a map.
TagChain(m) ==
    [k \in 1..(IF "LIST" \in DOMAIN m THEN 1 ELSE 0) |->
        PlacedAt(m["LIST"].start + 4, TagOf(m["LIST"]))]

LEMMA SubChainIs ==
  ASSUME file \in Files, Wanted
  PROVE  IsChain(SubChain(file.layout), Len(file.layout.subs), SubsEnd(file.layout))
<1> DEFINE l == file.layout
           n == Len(l.subs)
           c == SubChain(l)
<1>1. /\ LaidOut(l) /\ file.readable /\ n \in Nat /\ Len(l.tops) \in Nat
      /\ DOMAIN l.subs = 1..n
  BY WantedIs, ListsAre
<1>2. SubsEnd(l) \in Nat /\ SubsEnd(l) <= file.size
  BY <1>1, FileIs, PositionsAre DEF SubsEnd
<1>3. ASSUME NEW k \in 1..n
      PROVE  /\ c[k].at \in Nat /\ c[k].size \in Nat
             /\ HeadersAt(c[k].at) = {Chunk(c[k].id, c[k].size)}
             /\ c[k].at + 8 + Pad(c[k].size) <= SubsEnd(l)
             /\ c[k].at + 8 + Pad(c[k].size) = IF k = n THEN SubsEnd(l) ELSE c[k + 1].at
  <2>1. c[k].at = SubPosition(l, k) /\ c[k].id = l.subs[k].id /\ c[k].size = l.subs[k].size
    BY DEF SubChain, PlacedAt
  <2>2. l.subs[k] = Chunk(l.subs[k].id, l.subs[k].size) /\ l.subs[k].size \in Nat
    <3>1. l.subs[k] \in [id : STRING, size : Nat]
      BY <1>1, ElementsOf, Zenon DEF LaidOut, IsLayout
    <3> QED
      BY <3>1 DEF Chunk
  <2>3. HeadersAt(SubPosition(l, k)) = {l.subs[k]}
    <3>1. <<SubPosition(l, k), l.subs[k]>> \in Placed(l)
      BY <1>1 DEF Placed, Outer
    <3> QED
      BY <1>1, <3>1, FileIs
  <2>9. k \in 1..(n + 1) /\ k + 1 \in 1..(n + 1) /\ k < n + 1
    BY <1>1
  <2>4. SubPosition(l, k) \in Nat /\ k + 1 \in 1..(n + 1) /\ k < n + 1
    BY <1>1, <2>9, PositionsAre
  <2>5. SubPosition(l, k + 1) = SubPosition(l, k) + 8 + Pad(l.subs[k].size)
    BY <1>1, PositionsAre
  <2>6. SubPosition(l, k) + 8 + Pad(l.subs[k].size) <= SubsEnd(l)
    BY <1>1, <2>4, SubsInOrder DEF SubsEnd
  <2>7. k # n => k + 1 \in 1..n /\ c[k + 1].at = SubPosition(l, k + 1)
    BY <1>1 DEF SubChain, PlacedAt
  <2>8. k = n => SubPosition(l, k + 1) = SubsEnd(l)
    BY DEF SubsEnd
  <2> HIDE DEF c, n, l
  <2> QED
    BY <2>1, <2>2, <2>3, <2>4, <2>5, <2>6, <2>7, <2>8
<1> HIDE DEF c, n
<1> QED
  BY <1>1, <1>2, <1>3 DEF IsChain, c, n

LEMMA TopChainIs ==
  ASSUME file \in Files, Wanted
  PROVE  /\ IsChain(TopChain(file.layout), Len(file.layout.tops) + 1, file.size)
         /\ Pad(file.size) = file.size
<1> DEFINE l == file.layout
           n == Len(l.tops)
           c == TopChain(l)
<1>1. /\ LaidOut(l) /\ file.readable /\ n \in Nat /\ Len(l.subs) \in Nat
      /\ DOMAIN l.tops = 1..n /\ file.size = TopPosition(l, n + 1)
  BY WantedIs, ListsAre, FileIs
<1>2. file.size \in Nat /\ Pad(file.size) = file.size
  BY <1>1, PositionsAre
<1>3. /\ c[1].at = 0 /\ c[1].id = "RIFF" /\ c[1].size = RiffSize(l)
      /\ RiffSize(l) \in Nat /\ Pad(RiffSize(l)) = RiffSize(l)
      /\ RiffSize(l) + 8 = TopPosition(l, 1)
      /\ TopPosition(l, 1) <= file.size
  <2>1. /\ RiffSize(l) \in Nat /\ Pad(RiffSize(l)) = RiffSize(l)
        /\ RiffSize(l) = SubsEnd(l) - 8 /\ TopPosition(l, 1) = SubsEnd(l)
    BY <1>1, PositionsAre
  <2>2. TopPosition(l, n + 1) \in Nat /\ TopPosition(l, n + 1) >= SubsEnd(l) /\ SubsEnd(l) \in Nat
    BY <1>1, PositionsAre
  <2>3. c[1].at = 0 /\ c[1].id = "RIFF" /\ c[1].size = RiffSize(l)
    BY <1>1 DEF TopChain, PlacedAt, Chunk
  <2> HIDE DEF c, n, l
  <2> QED
    BY <1>1, <2>1, <2>2, <2>3
<1>4. HeadersAt(0) = {Chunk("RIFF", RiffSize(l))}
  <2>1. <<0, Chunk("RIFF", RiffSize(l))>> \in Placed(l)
    BY DEF Placed
  <2> QED
    BY <1>1, <2>1, FileIs
<1>5. ASSUME NEW i \in 1..n
      PROVE  /\ TopPosition(l, i) \in Nat /\ l.tops[i].size \in Nat
             /\ HeadersAt(TopPosition(l, i)) = {Chunk(l.tops[i].id, l.tops[i].size)}
             /\ TopPosition(l, i + 1) = TopPosition(l, i) + 8 + Pad(l.tops[i].size)
             /\ TopPosition(l, i + 1) <= file.size
             /\ c[i + 1].at = TopPosition(l, i) /\ c[i + 1].id = l.tops[i].id
             /\ c[i + 1].size = l.tops[i].size
  <2>1. i + 1 \in 1..(n + 1) /\ i \in 1..(n + 1) /\ (i + 1) - 1 = i /\ i + 1 # 1 /\ i < n + 1
    BY <1>1
  <2>2. l.tops[i] = Chunk(l.tops[i].id, l.tops[i].size) /\ l.tops[i].size \in Nat
    <3>1. l.tops[i] \in [id : STRING, size : Nat]
      BY <1>1, ElementsOf, Zenon DEF LaidOut, IsLayout
    <3> QED
      BY <3>1 DEF Chunk
  <2>3. HeadersAt(TopPosition(l, i)) = {l.tops[i]}
    <3>1. <<TopPosition(l, i), l.tops[i]>> \in Placed(l)
      BY <1>1 DEF Placed, Outer
    <3> QED
      BY <1>1, <3>1, FileIs
  <2>4. TopPosition(l, i) \in Nat
        /\ TopPosition(l, i + 1) = TopPosition(l, i) + 8 + Pad(l.tops[i].size)
    BY <1>1, <2>1, PositionsAre
  <2>5. TopPosition(l, i) + 8 + Pad(l.tops[i].size) <= TopPosition(l, n + 1)
    BY <1>1, <2>1, TopsInOrder
  <2>6. c[i + 1] = PlacedAt(TopPosition(l, i), l.tops[i])
    BY <2>1 DEF TopChain
  <2> QED
    BY <1>1, <2>2, <2>3, <2>4, <2>5, <2>6 DEF PlacedAt
<1>6. ASSUME NEW k \in 1..(n + 1)
      PROVE  /\ c[k].at \in Nat /\ c[k].size \in Nat
             /\ HeadersAt(c[k].at) = {Chunk(c[k].id, c[k].size)}
             /\ c[k].at + 8 + Pad(c[k].size) <= file.size
             /\ c[k].at + 8 + Pad(c[k].size) = TopPosition(l, k)
  <2> HIDE DEF c, n, l
  <2>1. CASE k = 1
    BY <1>3, <1>4, <2>1
  <2>2. CASE k # 1
    <3>1. PICK i \in 1..n : k = i + 1
      <4>1. k - 1 \in 1..n /\ k = (k - 1) + 1
        BY <1>1, <2>2
      <4> QED
        BY <4>1
    <3> QED
      BY <1>5, <3>1
  <2> QED
    BY <2>1, <2>2
<1>7. \A k \in 1..(n + 1) : k # n + 1 => c[k + 1].at = TopPosition(l, k)
  BY <1>1, <1>5
<1> HIDE DEF c, n, l
<1>8. ASSUME NEW k \in 1..(n + 1)
      PROVE c[k].at + 8 + Pad(c[k].size) = IF k = n + 1 THEN file.size ELSE c[k + 1].at
  BY <1>1, <1>6, <1>7
<1>9. IsChain(c, n + 1, file.size)
  <2>1. n + 1 \in Nat /\ file.size <= file.size
    BY <1>1, <1>2
  <2> QED
    BY <1>2, <1>6, <1>8, <2>1, Zenon DEF IsChain
<1> QED
  BY <1>2, <1>9 DEF c, n, l

LEMMA MaxIs ==
  ASSUME NEW n \in Nat, NEW S \in SUBSET (1..n), S # {}
  PROVE  Max(S) \in S /\ \A y \in S : y <= Max(S)
<1> DEFINE T == {k \in 0..n : n - k \in S}
<1>1. T # {}
  <2>1. PICK y \in S : TRUE
    OBVIOUS
  <2>2. n - y \in 0..n /\ n - (n - y) = y
    BY <2>1
  <2> QED
    BY <2>1, <2>2
<1>2. PICK k \in T : \A y \in T : k <= y
  <2>1. T \in SUBSET Nat
    OBVIOUS
  <2> HIDE DEF T
  <2> QED
    BY <1>1, <2>1, LeastNatural
<1>3. n - k \in S /\ \A y \in S : n - k >= y
  <2>1. ASSUME NEW y \in S PROVE n - k >= y
    <3>1. n - y \in T
      <4>1. n - (n - y) = y /\ n - y \in 0..n
        OBVIOUS
      <4> QED
        BY <4>1
    <3>2. k <= n - y /\ k \in Nat /\ y \in Nat
      BY <1>2, <3>1
    <3> QED
      BY <3>2
  <2> QED
    BY <2>1
<1>4. Max(S) \in S /\ \A y \in S : Max(S) >= y
  BY <1>3 DEF Max
<1>5. \A y \in S : y <= Max(S)
  BY <1>4
<1> QED
  BY <1>4, <1>5

\* The latest chunk with an id among the first k.
Latest(c, k, id) == Max({j \in 1..k : c[j].id = id})

\* What read_all_chunks() has found when it has read the first k chunks.
Found(c, k) ==
    [id \in {c[j].id : j \in 1..k} |->
        [start |-> c[Latest(c, k, id)].at + 8, size |-> c[Latest(c, k, id)].size]]

LEMMA LatestIs ==
  ASSUME NEW c, NEW k \in Nat, NEW id, \E j \in 1..k : c[j].id = id
  PROVE  /\ Latest(c, k, id) \in 1..k /\ c[Latest(c, k, id)].id = id
         /\ \A j \in 1..k : c[j].id = id => j <= Latest(c, k, id)
<1> DEFINE S == {j \in 1..k : c[j].id = id}
<1>1. S \in SUBSET (1..k) /\ S # {}
  OBVIOUS
<1>2. Max(S) \in S /\ \A y \in S : y <= Max(S)
  <2> HIDE DEF S
  <2> QED
    BY <1>1, MaxIs
<1> QED
  BY <1>2 DEF Latest

LEMMA FoundNothing == ASSUME NEW c PROVE Found(c, 0) = NoChunks
<1>1. {c[j].id : j \in 1..0} = {}
  OBVIOUS
<1>2. DOMAIN Found(c, 0) = {} /\ DOMAIN NoChunks = {}
  BY <1>1 DEF Found, NoChunks
<1> QED
  BY <1>1 DEF Found, NoChunks

\* Reading one more adds it to what has been found.
LEMMA FoundNext ==
  ASSUME NEW c, NEW k \in Nat \ {0}
  PROVE  Found(c, k) = Add(Found(c, k - 1), c[k].id, [start |-> c[k].at + 8, size |-> c[k].size])
<1> DEFINE new == [start |-> c[k].at + 8, size |-> c[k].size]
           old == Found(c, k - 1)
           sum == Add(old, c[k].id, new)
           Entry(j) == [start |-> c[j].at + 8, size |-> c[j].size]
<1>1. k - 1 \in Nat /\ 1..k = (1..(k - 1)) \cup {k} /\ k \notin 1..(k - 1) /\ k \in 1..k
  OBVIOUS
<1>2. DOMAIN old = {c[j].id : j \in 1..(k - 1)}
  BY DEF Found
<1>3. DOMAIN sum = {c[j].id : j \in 1..k}
  <2>1. DOMAIN sum = DOMAIN old \cup {c[k].id}
    BY DEF Add
  <2> HIDE DEF old, sum
  <2> QED
    BY <1>1, <1>2, <2>1
<1>4. ASSUME NEW id \in {c[j].id : j \in 1..k} PROVE Entry(Latest(c, k, id)) = sum[id]
  <2>1. \E j \in 1..k : c[j].id = id
    OBVIOUS
  <2>2. /\ Latest(c, k, id) \in 1..k /\ c[Latest(c, k, id)].id = id
        /\ \A j \in 1..k : c[j].id = id => j <= Latest(c, k, id)
    BY <2>1, LatestIs
  <2>3. CASE id = c[k].id
    <3>1. Latest(c, k, id) = k
      BY <1>1, <2>2, <2>3
    <3>2. sum[id] = new
      BY <2>3 DEF Add
    <3> QED
      BY <3>1, <3>2
  <2>4. CASE id # c[k].id
    <3>1. PICK i \in 1..(k - 1) : c[i].id = id
      BY <1>1, <2>1, <2>4
    <3>2. /\ Latest(c, k - 1, id) \in 1..(k - 1) /\ c[Latest(c, k - 1, id)].id = id
          /\ \A j \in 1..(k - 1) : c[j].id = id => j <= Latest(c, k - 1, id)
      BY <1>1, <3>1, LatestIs
    <3>3. Latest(c, k, id) = Latest(c, k - 1, id)
      <4> DEFINE a == Latest(c, k, id)
                 b == Latest(c, k - 1, id)
      <4>1. a # k
        BY <2>2, <2>4
      <4>2. a \in 1..(k - 1) /\ b \in 1..k
        BY <1>1, <2>2, <3>2, <4>1
      <4>3. a <= b /\ b <= a
        BY <2>2, <3>2, <4>2
      <4> HIDE DEF a, b
      <4>4. a = b
        BY <4>2, <4>3
      <4> QED
        BY <4>4 DEF a, b
    <3>4. id \in DOMAIN old
      BY <1>2, <3>1
    <3>5. sum[id] = old[id]
      <4> HIDE DEF old
      <4> QED
        BY <2>4, <3>4 DEF Add
    <3>6. old[id] = Entry(Latest(c, k - 1, id))
      BY <3>1 DEF Found
    <3> QED
      BY <3>3, <3>5, <3>6
  <2> QED
    BY <2>3, <2>4
<1>5. Found(c, k) = [id \in {c[j].id : j \in 1..k} |-> Entry(Latest(c, k, id))]
  BY DEF Found
<1>6. sum = [id \in DOMAIN sum |-> sum[id]]
  BY DEF Add
<1> HIDE DEF sum, Entry
<1>7. Found(c, k) = sum
  BY <1>3, <1>4, <1>5, <1>6
<1> QED
  BY <1>7 DEF sum

-----------------------------------------------------------------------------
(* A well-formed list is read *)

\* What read_all_chunks() makes of a chunk that is in the file.
LEMMA ChunkInFile ==
  ASSUME file \in Files, stream \in Streams, Good(stream), limit \in Int,
         NEW h, h.size \in UInt32, stream.pos + 8 + Pad(h.size) <= file.size,
         stream.pos + 8 + Pad(h.size) <= limit
  PROVE  /\ Good(Read(stream, SizeofChunkHeader))
         /\ ~AtLastByte(h).fail
         /\ h.size # 0 => IsBacked(h) /\ ~Behind(h).fail
                          /\ Behind(h).pos = DataEnd(h)
                          /\ Behind(h).eof = (DataEnd(h) >= file.size)
         /\ DataEnd(h) = stream.pos + 8 + Pad(h.size)
         /\ DataStart = stream.pos + 8
<1> DEFINE s == stream.pos
           n == h.size
           r == Read(stream, 8)
           p == s + 8 + LastOffset(n)
<1>1. UInt32Count \in Nat \ {0} /\ file.size \in UInt32 /\ s \in Nat
  BY ReaderAssumption DEF Streams
<1>2. n \in Nat /\ file.size \in Nat /\ n < UInt32Count /\ Pad(n) \in {n, n + 1} /\ Pad(n) \in Nat
  BY <1>1 DEF UInt32, Pad
<1>3. DataStart = s + 8 /\ DataEnd(h) = s + 8 + Pad(n)
  BY DEF DataStart, DataEnd, SizeofChunkHeader
<1>4. s + 8 <= file.size
  BY <1>1, <1>2
<1>5. r \in Streams /\ Good(r)
  BY <1>1, <1>4 DEF Read, Streams, Good
<1>6. LastOffset(n) = IF n = 0 THEN UInt32Count - 1 ELSE n - 1
  BY LastOffsetIs
<1>7. p \in Nat
  BY <1>1, <1>2, <1>6
<1>8. Seek(r, p) \in Streams /\ Good(Seek(r, p)) /\ Seek(r, p).pos = p
  <2> HIDE DEF r, p
  <2> QED
    BY <1>5, <1>7 DEF Seek, Streams, Good
<1>9. AtLastByte(h) = Peek(Seek(r, p))
  BY <1>3 DEF AtLastByte, SizeofChunkHeader
<1>10. AtLastByte(h) = [Seek(r, p) EXCEPT !.eof = p >= file.size]
  BY <1>8, <1>9 DEF Peek
<1> DEFINE a == AtLastByte(h)
<1>11. a \in Streams /\ ~a.fail /\ a.pos = p /\ a.eof = (p >= file.size)
  <2>1. (p >= file.size) \in BOOLEAN
    BY <1>2, <1>7
  <2> HIDE DEF p, r
  <2> QED
    BY <1>8, <1>10, <2>1 DEF Streams, Good
<1>12. ASSUME n # 0
       PROVE  /\ IsBacked(h) /\ ~Behind(h).fail
              /\ Behind(h).pos = DataEnd(h)
              /\ Behind(h).eof = (DataEnd(h) >= file.size)
  <2> DEFINE e == s + 8 + Pad(n)
             b == Seek(a, e)
  <2>1. p = s + 8 + n - 1 /\ ~(p >= file.size)
    BY <1>1, <1>2, <1>6, <1>12
  <2>2. Good(a)
    BY <1>11, <2>1 DEF Good
  <2>3. IsBacked(h)
    BY <1>3, <2>2 DEF IsBacked
  <2>4. a.pos + Pad(n) - n + 1 = e /\ e \in Nat
    BY <1>1, <1>2, <1>11, <2>1
  <2>5. Behind(h) = Peek(b)
    BY <2>4 DEF Behind
  <2>6. b \in Streams /\ Good(b) /\ b.pos = e
    <3> HIDE DEF a, e
    <3> QED
      BY <1>11, <2>4 DEF Seek, Streams, Good
  <2>7. Behind(h) = [b EXCEPT !.eof = e >= file.size]
    <3> HIDE DEF b, e
    <3> QED
      BY <2>5, <2>6 DEF Peek
  <2> HIDE DEF b, a
  <2> QED
    BY <1>3, <2>3, <2>6, <2>7 DEF Streams, Good
<1> QED
  BY <1>3, <1>5, <1>11, <1>12 DEF SizeofChunkHeader

\* The list c of n chunks, which ends at end, is being read ...
Scanning(c, n, end) ==
    /\ Good(stream) /\ limit = end
    /\ \E k \in 1..n : stream.pos = c[k].at /\ chunks = Found(c, k - 1)

\* ... and has been read, up to its end or an empty chunk.
Listed(m, c, n) ==
    \E k \in 0..n : m = Found(c, k) /\ (k < n => c[k + 1].size = 0)

LEMMA ListIsRead ==
  ASSUME ReadInv, pc = "scan", NEW c, NEW n, NEW end, IsChain(c, n, end), Scanning(c, n, end),
         NoHeader \/ DiscardChunk \/ TakeChunk
  PROVE  /\ ~stream'.fail
         /\ \/ pc' = "scan" /\ Scanning(c, n, end)'
            \/ pc' = "listed" /\ Listed(chunks', c, n)
<1>1. /\ file \in Files /\ stream \in Streams /\ limit \in Int /\ n \in Nat /\ end \in Nat
      /\ end <= file.size /\ Good(stream) /\ limit = end /\ file.size \in Nat
  BY ReaderAssumption DEF ReadInv, IsChain, Scanning, Reading, UInt32
<1>2. PICK k \in 1..n : stream.pos = c[k].at /\ chunks = Found(c, k - 1)
  BY DEF Scanning
<1> DEFINE h == Chunk(c[k].id, c[k].size)
<1>3. /\ c[k].at \in Nat /\ c[k].size \in Nat
      /\ HeadersAt(stream.pos) = {h}
      /\ stream.pos + 8 + Pad(h.size) <= end
      /\ stream.pos + 8 + Pad(h.size) = IF k = n THEN end ELSE c[k + 1].at
      /\ h.id = c[k].id /\ h.size = c[k].size
  BY <1>2 DEF IsChain, Chunk
<1>4. h.size \in UInt32
  BY <1>1, <1>3, HeaderSizes
<1>5. Pad(h.size) \in Nat
  BY <1>3 DEF Pad
<1> HIDE DEF h
<1>6. stream.pos + 8 + Pad(h.size) <= file.size /\ stream.pos + 8 + Pad(h.size) <= limit
  BY <1>1, <1>2, <1>3, <1>5
<1>7. /\ Good(Read(stream, SizeofChunkHeader))
      /\ ~AtLastByte(h).fail
      /\ h.size # 0 => IsBacked(h) /\ ~Behind(h).fail
                       /\ Behind(h).pos = DataEnd(h)
                       /\ Behind(h).eof = (DataEnd(h) >= file.size)
      /\ DataEnd(h) = stream.pos + 8 + Pad(h.size)
      /\ DataStart = stream.pos + 8
  BY <1>1, <1>4, <1>6, ChunkInFile
<1>8. ~NoHeader
  BY <1>7 DEF NoHeader
<1>9. CASE DiscardChunk
  <2>1. pc' = "listed" /\ stream' = AtLastByte(h) /\ ~IsBacked(h) /\ chunks' = chunks
    BY <1>3, <1>9 DEF DiscardChunk
  <2>2. h.size = 0
    BY <1>7, <2>1
  <2>3. k - 1 \in 0..n /\ (k - 1) + 1 = k
    BY <1>1
  <2>4. Listed(chunks', c, n)
    BY <1>2, <1>3, <2>1, <2>2, <2>3 DEF Listed
  <2> QED
    BY <1>7, <2>1, <2>4
<1>10. CASE TakeChunk
  <2>1. /\ IsBacked(h) /\ stream' = Behind(h)
        /\ chunks' = Add(chunks, h.id, [start |-> DataStart, size |-> h.size])
        /\ pc' = IF stream'.eof \/ DataEnd(h) = limit THEN "listed" ELSE "scan"
        /\ limit' = limit
    BY <1>3, <1>10 DEF TakeChunk
  <2>2. h.size # 0
    <3>1. h.size \in 1..(UInt32Count - 1)
      BY <1>1, <1>4, <1>7, <2>1, TakenChunk
    <3> QED
      BY <3>1
  <2>3. chunks' = Found(c, k)
    <3>1. k \in Nat \ {0}
      BY <1>1
    <3>2. Found(c, k) = Add(Found(c, k - 1), c[k].id,
                            [start |-> c[k].at + 8, size |-> c[k].size])
      BY <3>1, FoundNext
    <3> QED
      BY <1>2, <1>3, <1>7, <2>1, <3>2
  <2>4. CASE k = n
    <3>1. pc' = "listed"
      BY <1>1, <1>3, <1>7, <2>1, <2>4
    <3>2. k \in 0..n
      BY <1>1
    <3>3. Listed(chunks', c, n)
      BY <2>3, <2>4, <3>2 DEF Listed
    <3> QED
      BY <1>7, <2>1, <2>2, <3>1, <3>3
  <2>5. CASE k # n
    <3>1. k + 1 \in 1..n /\ (k + 1) - 1 = k
      BY <1>1, <2>5
    <3>2. /\ c[k + 1].at \in Nat /\ Pad(c[k + 1].size) \in Nat
          /\ c[k + 1].at + 8 + Pad(c[k + 1].size) <= end
      <4>1. \A i \in Nat : Pad(i) \in Nat
        BY DEF Pad
      <4> QED
        BY <3>1, <4>1 DEF IsChain
    <3>3. DataEnd(h) = c[k + 1].at /\ c[k + 1].at < end
      BY <1>1, <1>3, <1>7, <2>5, <3>2
    <3>4. ~(DataEnd(h) >= file.size) /\ DataEnd(h) # limit
      BY <1>1, <3>2, <3>3
    <3>5. Good(stream') /\ stream'.pos = c[k + 1].at
      BY <1>7, <2>1, <2>2, <3>3, <3>4 DEF Good
    <3>6. pc' = "scan"
      BY <2>1, <3>4, <3>5 DEF Good
    <3>7. Scanning(c, n, end)'
      BY <1>1, <2>1, <2>3, <3>1, <3>5 DEF Scanning
    <3> QED
      BY <3>5, <3>6, <3>7 DEF Good
  <2> QED
    BY <2>4, <2>5
<1> QED
  BY <1>8, <1>9, <1>10

\* What m has for "LIST" is a chunk of the layout.
HoldsList(m) ==
    "LIST" \in DOMAIN m =>
        \E x \in Outer(file.layout) :
            x[2].id = "LIST" /\ m["LIST"].start = x[1] + 8 /\ m["LIST"].size = x[2].size

LEMMA TopsFound ==
  ASSUME file \in Files, Wanted, NEW m, Listed(m, TopChain(file.layout), Len(file.layout.tops) + 1)
  PROVE  /\ HoldsList(m)
         /\ "RIFF" \in DOMAIN m /\ m["RIFF"].start = 8
         /\ m["RIFF"].size = RiffSize(file.layout)
<1> DEFINE l == file.layout
           n == Len(l.tops)
           c == TopChain(l)
<1>1. /\ LaidOut(l) /\ n \in Nat /\ DOMAIN l.tops = 1..n
      /\ \A i \in 1..n : l.tops[i].id # "RIFF"
  <2>1. LaidOut(l) /\ n \in Nat /\ DOMAIN l.tops = 1..n
    BY WantedIs, ListsAre
  <2> QED
    BY <2>1 DEF LaidOut, IsLayout
<1>2. c[1].at = 0 /\ c[1].id = "RIFF" /\ c[1].size = RiffSize(l) /\ RiffSize(l) >= 4
      /\ RiffSize(l) \in Nat
  BY <1>1, PositionsAre DEF TopChain, PlacedAt, Chunk
<1>3. ASSUME NEW j \in 1..(n + 1), j # 1
      PROVE  j - 1 \in 1..n /\ c[j].at = TopPosition(l, j - 1) /\ c[j].id = l.tops[j - 1].id
             /\ c[j].size = l.tops[j - 1].size
  BY <1>1, <1>3 DEF TopChain, PlacedAt
<1> HIDE DEF c
<1>4. PICK k \in 0..(n + 1) : m = Found(c, k) /\ (k < n + 1 => c[k + 1].size = 0)
  BY DEF Listed, c
<1>5. k # 0 /\ k \in Nat /\ 1 \in 1..k /\ 1..k \subseteq 1..(n + 1)
  <2>1. ASSUME k = 0 PROVE FALSE
    <3>1. 0 < n + 1 /\ 0 + 1 = 1
      BY <1>1
    <3> QED
      BY <1>2, <1>4, <2>1, <3>1
  <2> QED
    BY <1>1, <2>1
<1>6. \A id : id \in DOMAIN m => \E j \in 1..k : c[j].id = id
  BY <1>4 DEF Found
<1>7. \A id : (\E j \in 1..k : c[j].id = id) =>
            /\ id \in DOMAIN m /\ Latest(c, k, id) \in 1..k /\ c[Latest(c, k, id)].id = id
            /\ m[id].start = c[Latest(c, k, id)].at + 8
            /\ m[id].size = c[Latest(c, k, id)].size
  BY <1>4, <1>5, LatestIs DEF Found
<1>8. HoldsList(m)
  <2> SUFFICES ASSUME "LIST" \in DOMAIN m
               PROVE  \E x \in Outer(l) : x[2].id = "LIST" /\ m["LIST"].start = x[1] + 8
                                          /\ m["LIST"].size = x[2].size
    BY DEF HoldsList
  <2> DEFINE j == Latest(c, k, "LIST")
  <2>1. /\ j \in 1..k /\ c[j].id = "LIST" /\ m["LIST"].start = c[j].at + 8
        /\ m["LIST"].size = c[j].size
    BY <1>6, <1>7
  <2> HIDE DEF j
  <2>2. j \in 1..(n + 1) /\ j # 1
    BY <1>2, <1>5, <2>1
  <2>3. j - 1 \in 1..n /\ c[j].at = TopPosition(l, j - 1) /\ c[j].id = l.tops[j - 1].id
        /\ c[j].size = l.tops[j - 1].size
    BY <1>3, <2>2
  <2> DEFINE x == <<TopPosition(l, j - 1), l.tops[j - 1]>>
  <2>4. x \in Outer(l)
    BY <1>1, <2>3 DEF Outer
  <2>5. x[1] = TopPosition(l, j - 1) /\ x[2] = l.tops[j - 1]
    OBVIOUS
  <2> QED
    BY <2>1, <2>3, <2>4, <2>5
<1>9. "RIFF" \in DOMAIN m /\ m["RIFF"].start = 8 /\ m["RIFF"].size = RiffSize(l)
  <2> DEFINE j == Latest(c, k, "RIFF")
  <2>1. /\ j \in 1..k /\ c[j].id = "RIFF" /\ "RIFF" \in DOMAIN m
        /\ m["RIFF"].start = c[j].at + 8 /\ m["RIFF"].size = c[j].size
    BY <1>2, <1>5, <1>7
  <2> HIDE DEF j
  <2>2. j = 1
    BY <1>1, <1>3, <1>5, <2>1
  <2> QED
    BY <1>2, <2>1, <2>2
<1> QED
  BY <1>8, <1>9

\* As no sub-chunk is empty, all of them are found.
LEMMA SubsFound ==
  ASSUME file \in Files, Wanted, NEW m, Listed(m, SubChain(file.layout), Len(file.layout.subs))
  PROVE  m = RiffChunksOf(file.layout)
<1> DEFINE l == file.layout
           n == Len(l.subs)
           c == SubChain(l)
<1>1. /\ LaidOut(l) /\ n \in Nat /\ DOMAIN l.subs = 1..n
      /\ \A i \in 1..n : l.subs[i].size > 0
  <2>1. LaidOut(l) /\ n \in Nat /\ DOMAIN l.subs = 1..n
    BY WantedIs, ListsAre
  <2> QED
    BY <2>1 DEF Wanted, HasNoEmptyChunk
<1>2. \A j \in 1..n : /\ c[j].at = SubPosition(l, j) /\ c[j].id = l.subs[j].id
                      /\ c[j].size = l.subs[j].size
  BY DEF SubChain, PlacedAt
<1> HIDE DEF c
<1>3. PICK k \in 0..n : m = Found(c, k) /\ (k < n => c[k + 1].size = 0)
  BY DEF Listed, c
<1>4. k = n
  <2> SUFFICES ASSUME k # n PROVE FALSE
    OBVIOUS
  <2>1. k < n /\ k + 1 \in 1..n
    BY <1>1
  <2> QED
    BY <1>1, <1>2, <1>3, <2>1
<1>5. \A id : Latest(c, n, id) = LastOf(l.subs, id)
  <2> SUFFICES ASSUME NEW id
               PROVE  {j \in 1..n : c[j].id = id} = {i \in DOMAIN l.subs : l.subs[i].id = id}
    BY DEF Latest, LastOf
  <2> QED
    BY <1>1, <1>2
<1>6. {c[j].id : j \in 1..n} = IdsOf(l.subs)
  BY <1>1, <1>2 DEF IdsOf
<1>7. ASSUME NEW id \in IdsOf(l.subs)
      PROVE  /\ LastOf(l.subs, id) \in 1..n
             /\ c[LastOf(l.subs, id)].at = SubPosition(l, LastOf(l.subs, id))
             /\ c[LastOf(l.subs, id)].size = l.subs[LastOf(l.subs, id)].size
  <2>1. \E j \in 1..n : c[j].id = id
    BY <1>6
  <2>2. Latest(c, n, id) \in 1..n
    BY <1>1, <2>1, LatestIs
  <2> QED
    BY <1>2, <1>5, <2>2
<1>8. Found(c, n) = [id \in IdsOf(l.subs) |-> [start |-> c[LastOf(l.subs, id)].at + 8,
                                               size |-> c[LastOf(l.subs, id)].size]]
  BY <1>5, <1>6 DEF Found
<1>9. Found(c, n) = RiffChunksOf(l)
  BY <1>7, <1>8 DEF RiffChunksOf, SizeofChunkHeader
<1> QED
  BY <1>3, <1>4, <1>9

\* What is in the chunks that are found.
LEMMA SubsAre ==
  ASSUME file \in Files, Wanted
  PROVE  LET m == RiffChunksOf(file.layout) IN
         /\ HoldsList(m) /\ m # NoChunks
         /\ "fmt " \in DOMAIN m /\ m["fmt "].size >= 16 /\ "data" \in DOMAIN m
<1> DEFINE l == file.layout
           n == Len(l.subs)
           m == RiffChunksOf(l)
<1>1. LaidOut(l) /\ n \in Nat /\ DOMAIN l.subs = 1..n
  BY WantedIs, ListsAre
<1>2. DOMAIN m = IdsOf(l.subs)
  BY DEF RiffChunksOf
<1>3. \A id \in IdsOf(l.subs) : /\ m[id].start = SubPosition(l, LastOf(l.subs, id)) + 8
                                /\ m[id].size = l.subs[LastOf(l.subs, id)].size
  BY DEF RiffChunksOf, SizeofChunkHeader
<1>4. /\ "fmt " \in IdsOf(l.subs) /\ "data" \in IdsOf(l.subs)
      /\ l.subs[LastOf(l.subs, "fmt ")].size >= 16
  BY DEF Wanted, IsWav, SizeofFormatHeader
<1>5. ASSUME "LIST" \in DOMAIN m
      PROVE  \E x \in Outer(l) : x[2].id = "LIST" /\ m["LIST"].start = x[1] + 8
                                 /\ m["LIST"].size = x[2].size
  <2> DEFINE S == {i \in DOMAIN l.subs : l.subs[i].id = "LIST"}
             j == LastOf(l.subs, "LIST")
  <2>1. S # {}
    BY <1>2, <1>5 DEF IdsOf
  <2>2. j \in S
    <3> HIDE DEF S
    <3>1. S \in SUBSET (1..n)
      BY <1>1 DEF S
    <3> QED
      BY <1>1, <2>1, <3>1, MaxIs DEF LastOf, S
  <2> HIDE DEF j
  <2> DEFINE x == <<SubPosition(l, j), l.subs[j]>>
  <2>3. x \in Outer(l) /\ x[1] = SubPosition(l, j) /\ x[2] = l.subs[j]
    BY <1>1, <2>2 DEF Outer
  <2> HIDE DEF x, m
  <2> QED
    BY <1>2, <1>3, <1>5, <2>2, <2>3 DEF j
<1> HIDE DEF m
<1>6. m # NoChunks
  BY <1>2, <1>4 DEF NoChunks
<1> QED
  BY <1>2, <1>3, <1>4, <1>5, <1>6 DEF m, HoldsList

\* The "LIST" chunk of a map is in the file, and so is its format type.
LEMMA TagChainIs ==
  ASSUME file \in Files, Wanted, NEW m, HoldsList(m), "LIST" \in DOMAIN m
  PROVE  LET p == m["LIST"].start
             n == m["LIST"].size IN
         /\ p \in Nat /\ p + 4 <= file.size /\ n \in Nat
         /\ p \in DOMAIN file.format /\ file.format[p] = "INFO"
         /\ TagChain(m)[1].at = p + 4
         /\ IsChain(TagChain(m), 1, p + 4 + Pad(n - 4))
<1> DEFINE l == file.layout
           p == m["LIST"].start
           n == m["LIST"].size
           c == TagChain(m)
<1>1. LaidOut(l) /\ file.readable /\ file.size \in Nat
  BY WantedIs, ReaderAssumption DEF UInt32
<1>2. PICK x \in Outer(l) : x[2].id = "LIST" /\ p = x[1] + 8 /\ n = x[2].size
  BY DEF HoldsList
<1>3. /\ x[1] \in Nat /\ n \in Nat /\ n >= 12 /\ Pad(n) \in Nat /\ Pad(n) >= n
  BY <1>1, <1>2, OuterIs
<1>4. p + Pad(n) <= file.size
  <2>1. EndOf(x) <= file.size
    BY OuterInFile
  <2> HIDE DEF p, n
  <2> QED
    BY <1>2, <1>3, <2>1 DEF EndOf
<1>5. p \in DOMAIN file.format /\ file.format[p] = "INFO"
  BY <1>1, <1>2, FileIs
<1>6. TagOf(m["LIST"]) = Chunk("INAM", n - 12) /\ TagOf(x[2]) = Chunk("INAM", n - 12)
  <2>1. n - 4 - 8 = n - 12
    BY <1>3
  <2> QED
    BY <1>2, <2>1 DEF TagOf, SizeofFourCC, SizeofChunkHeader
<1>7. TagPosition(x[1]) = p + 4
  <2> HIDE DEF p
  <2> QED
    BY <1>2, <1>3 DEF TagPosition, SizeofFourCC, SizeofChunkHeader
<1>8. HeadersAt(p + 4) = {Chunk("INAM", n - 12)}
  <2>1. <<TagPosition(x[1]), TagOf(x[2])>> \in Placed(l)
    BY <1>2 DEF Placed
  <2>2. HeadersAt(TagPosition(x[1])) = {TagOf(x[2])}
    BY <1>1, <2>1, FileIs
  <2> QED
    BY <1>6, <1>7, <2>2
<1>9. c[1].at = p + 4 /\ c[1].id = "INAM" /\ c[1].size = n - 12
  BY <1>6 DEF TagChain, PlacedAt, Chunk
<1> HIDE DEF c, p, n
<1>10. Pad(n - 4) = Pad(n) - 4 /\ Pad(n - 12) = Pad(n) - 12
  BY <1>3 DEF Pad
<1>11. p \in Nat /\ n - 12 \in Nat /\ 1 \in Nat
  BY <1>2, <1>3
<1>12. /\ p + 4 + Pad(n - 4) \in Nat /\ p + 4 + Pad(n - 4) <= file.size
       /\ p + 4 + 8 + Pad(n - 12) = p + 4 + Pad(n - 4)
       /\ p + 4 + 8 + Pad(n - 12) <= p + 4 + Pad(n - 4)
       /\ p + 4 <= file.size /\ p + 4 \in Nat
  BY <1>1, <1>3, <1>4, <1>10, <1>11
<1>13. IsChain(c, 1, p + 4 + Pad(n - 4))
  <2> SUFFICES ASSUME NEW k \in 1..1
               PROVE  /\ c[k].at \in Nat /\ c[k].size \in Nat
                      /\ HeadersAt(c[k].at) = {Chunk(c[k].id, c[k].size)}
                      /\ c[k].at + 8 + Pad(c[k].size) <= p + 4 + Pad(n - 4)
                      /\ c[k].at + 8 + Pad(c[k].size) = p + 4 + Pad(n - 4)
                      /\ k = 1
    BY <1>11, <1>12 DEF IsChain
  <2>1. k = 1
    OBVIOUS
  <2> QED
    BY <1>8, <1>9, <1>11, <1>12, <2>1
<1> QED
  BY <1>3, <1>5, <1>9, <1>11, <1>12, <1>13 DEF c, p, n

-----------------------------------------------------------------------------
(* The four lists are read *)

\* The list that is read, or is to be read next, the number of its chunks, and its end.
Chain ==
    CASE list = "top"   -> TopChain(file.layout)
      [] list = "riff"  -> SubChain(file.layout)
      [] list \in {"outer", "inner"} -> TagChain(Parents)
Length ==
    CASE list = "top"   -> Len(file.layout.tops) + 1
      [] list = "riff"  -> Len(file.layout.subs)
      [] list \in {"outer", "inner"} -> IF "LIST" \in DOMAIN Parents THEN 1 ELSE 0
End ==
    CASE list = "top"   -> file.size
      [] list = "riff"  -> SubsEnd(file.layout)
      [] list \in {"outer", "inner"} ->
            Parents["LIST"].start + 4 + Pad(Parents["LIST"].size - 4)

LayoutInv ==
    /\ pc \in Reading => ~stream.fail
    /\ pc = "open" => stream.pos = 0 /\ ~stream.eof
    /\ pc = "find" => list # "top"
    /\ pc = "check" => list = "inner"
    /\ pc = "scan" => Scanning(Chain, Length, End)
    /\ pc = "listed" => Listed(chunks, Chain, Length)
    /\ list # "top" =>
          Listed(top_level_chunks, TopChain(file.layout), Len(file.layout.tops) + 1)
    /\ list \in {"outer", "inner"} => riff_chunks = RiffChunksOf(file.layout)
    /\ pc \in {"accepted", "rejected"} => formatRead

LEMMA ChainIs ==
  ASSUME file \in Files, Wanted, LayoutInv, ControlInv, Length # 0
  PROVE  IsChain(Chain, Length, End)
<1>1. CASE list = "top"
  BY <1>1, TopChainIs DEF Chain, Length, End
<1>2. CASE list = "riff"
  BY <1>2, SubChainIs DEF Chain, Length, End
<1>3. CASE list \in {"outer", "inner"}
  <2>1. /\ Chain = TagChain(Parents) /\ "LIST" \in DOMAIN Parents /\ Length = 1
        /\ End = Parents["LIST"].start + 4 + Pad(Parents["LIST"].size - 4)
    BY <1>3 DEF Chain, Length, End
  <2>2. HoldsList(Parents)
    BY <1>3, TopsFound, SubsAre DEF LayoutInv, Parents
  <2> QED
    BY <2>1, <2>2, TagChainIs
<1> QED
  BY <1>1, <1>2, <1>3 DEF ControlInv

\* A list that is there is entered in front of its first chunk.
LEMMA ListIsEntered ==
  ASSUME file \in Files, Wanted, LayoutInv, ControlInv, pc = "find", stream \in Streams,
         chunk_name_fourcc \in DOMAIN Parents
  PROVE  LET s == AfterFormat IN
         /\ Good(s) /\ FormatsRead = {format_type_fourcc}
         /\ Length \in Nat \ {0} /\ s.pos = Chain[1].at
         /\ Tell(s) + Pad(Parents[chunk_name_fourcc].size - SizeofFourCC) = End
<1> DEFINE p == Parents[chunk_name_fourcc].start
           n == Parents[chunk_name_fourcc].size
<1>1. /\ p \in Nat /\ p + 4 <= file.size
      /\ p \in DOMAIN file.format /\ file.format[p] = format_type_fourcc
      /\ Length \in Nat \ {0} /\ Chain[1].at = p + 4 /\ End = p + 4 + Pad(n - 4)
  <2>1. CASE list = "riff"
    <3> DEFINE l == file.layout
    <3>1. /\ chunk_name_fourcc = "RIFF" /\ format_type_fourcc = "WAVE"
          /\ Parents = top_level_chunks
          /\ Chain = SubChain(l) /\ Length = Len(l.subs) /\ End = SubsEnd(l)
      BY <2>1 DEF chunk_name_fourcc, format_type_fourcc, Parents, Chain, Length, End
    <3>2. p = 8 /\ n = RiffSize(l)
      BY <2>1, <3>1, TopsFound DEF LayoutInv
    <3>3. /\ LaidOut(l) /\ file.readable /\ Len(l.subs) \in Nat /\ DOMAIN l.subs = 1..Len(l.subs)
      BY WantedIs, ListsAre
    <3>4. "fmt " \in IdsOf(l.subs)
      BY DEF Wanted, IsWav
    <3>5. Len(l.subs) # 0
      <4>1. PICK i \in DOMAIN l.subs : l.subs[i].id = "fmt "
        BY <3>4 DEF IdsOf
      <4>2. \A k \in Nat : \A j \in 1..k : k # 0
        OBVIOUS
      <4> HIDE DEF l
      <4> QED
        BY <3>3, <4>1, <4>2, Zenon
    <3>6. /\ SubPosition(l, 1) = 12 /\ Pad(RiffSize(l)) = RiffSize(l) /\ RiffSize(l) \in Nat
          /\ RiffSize(l) = SubsEnd(l) - 8 /\ SubsEnd(l) \in Nat /\ SubsEnd(l) >= 12
          /\ TopPosition(l, Len(l.tops) + 1) \in Nat
          /\ TopPosition(l, Len(l.tops) + 1) >= SubsEnd(l)
      BY <3>3, PositionsAre
    <3>7. /\ 8 \in DOMAIN file.format /\ file.format[8] = "WAVE"
          /\ file.size = TopPosition(l, Len(l.tops) + 1)
      BY <3>3, FileIs
    <3>8. Chain[1].at = 12
      BY <3>1, <3>3, <3>5, <3>6 DEF SubChain, PlacedAt
    <3>9. Pad(n - 4) = RiffSize(l) - 4
      BY <3>2, <3>6, PadOfRest
    <3> HIDE DEF p, n, l
    <3> QED
      BY <3>1, <3>2, <3>3, <3>5, <3>6, <3>7, <3>8, <3>9
  <2>2. CASE list \in {"outer", "inner"}
    <3>1. /\ chunk_name_fourcc = "LIST" /\ format_type_fourcc = "INFO"
          /\ Chain = TagChain(Parents) /\ Length = 1 /\ End = p + 4 + Pad(n - 4)
      BY <2>2 DEF chunk_name_fourcc, format_type_fourcc, Chain, Length, End
    <3>2. HoldsList(Parents)
      BY <2>2, TopsFound, SubsAre DEF LayoutInv, Parents
    <3> QED
      BY <3>1, <3>2, TagChainIs
  <2> QED
    BY <2>1, <2>2 DEF ControlInv, LayoutInv
<1>2. ~stream.fail
  BY DEF LayoutInv, Reading
<1> DEFINE s == Seek(stream, p)
<1>3. s \in Streams /\ Good(s) /\ s.pos = p
  <2> HIDE DEF p
  <2> QED
    BY <1>1, <1>2 DEF Seek, Streams, Good
<1>4. AfterFormat = Read(s, 4)
  BY DEF AfterFormat, SizeofFourCC
<1> HIDE DEF s
<1>5. Good(AfterFormat) /\ AfterFormat.pos = p + 4
  <2> HIDE DEF p
  <2> QED
    BY <1>1, <1>3, <1>4 DEF Read, Streams, Good
<1>6. FormatsRead = {format_type_fourcc}
  BY <1>1, <1>5 DEF FormatsRead
<1>7. Tell(AfterFormat) = p + 4
  BY <1>5 DEF Tell, Good
<1> QED
  BY <1>1, <1>5, <1>6, <1>7 DEF SizeofFourCC

\* What does not change a list does not change what is to be found in it.
LEMMA SameLists ==
  ASSUME UNCHANGED <<file, list, top_level_chunks, riff_chunks>>
  PROVE  Chain' = Chain /\ Length' = Length /\ End' = End
  BY DEF Chain, Length, End, Parents

LEMMA ScanKeepsLayout ==
  ASSUME ReadInv, Wanted, LayoutInv, ControlInv, NoHeader \/ DiscardChunk \/ TakeChunk
  PROVE  LayoutInv'
<1>1. /\ pc = "scan"
      /\ UNCHANGED <<file, list, top_level_chunks, riff_chunks, formatRead>>
  BY DEF NoHeader, DiscardChunk, TakeChunk, formatVars
<1>2. Scanning(Chain, Length, End) /\ file \in Files
  BY <1>1 DEF LayoutInv, ReadInv
<1>3. Length # 0
  <2>1. PICK k \in 1..Length : TRUE
    BY <1>2 DEF Scanning
  <2> QED
    BY <2>1
<1>4. /\ ~stream'.fail
      /\ \/ pc' = "scan" /\ Scanning(Chain, Length, End)'
         \/ pc' = "listed" /\ Listed(chunks', Chain, Length)
  <2>1. IsChain(Chain, Length, End)
    BY <1>2, <1>3, ChainIs
  <2>2. Chain' = Chain /\ Length' = Length /\ End' = End
    BY <1>1, SameLists
  <2> DEFINE c == Chain
             n == Length
             end == End
  <2>3. /\ ~stream'.fail
        /\ \/ pc' = "scan" /\ Good(stream') /\ limit' = end
              /\ \E k \in 1..n : stream'.pos = c[k].at /\ chunks' = Found(c, k - 1)
           \/ pc' = "listed" /\ Listed(chunks', c, n)
    BY <1>1, <1>2, <2>1, ListIsRead DEF Scanning
  <2> QED
    BY <2>2, <2>3 DEF Scanning
<1>5. Chain' = Chain /\ Length' = Length /\ End' = End
  BY <1>1, SameLists
<1> QED
  BY <1>1, <1>4, <1>5 DEF LayoutInv

LEMMA EnterKeepsLayout ==
  ASSUME ReadInv, Wanted, LayoutInv, ControlInv, EnterChunk PROVE LayoutInv'
<1>1. /\ pc = "find" /\ pc' = "scan" /\ chunk_name_fourcc \in DOMAIN Parents
      /\ chunks' = NoChunks /\ stream' = AfterFormat
      /\ limit' = Tell(stream') + Pad(Parents[chunk_name_fourcc].size - SizeofFourCC)
      /\ UNCHANGED <<file, list, top_level_chunks, riff_chunks, formatRead>>
  BY DEF EnterChunk, formatVars
<1>2. file \in Files /\ stream \in Streams
  BY <1>1 DEF ReadInv, Reading
<1>3. /\ Good(stream') /\ Length \in Nat \ {0} /\ stream'.pos = Chain[1].at /\ limit' = End
  BY <1>1, <1>2, ListIsEntered
<1>4. Chain' = Chain /\ Length' = Length /\ End' = End
  BY <1>1, SameLists
<1>5. chunks' = Found(Chain, 1 - 1)
  <2>1. 1 - 1 = 0
    OBVIOUS
  <2> QED
    BY <1>1, <2>1, FoundNothing
<1>6. Scanning(Chain, Length, End)'
  <2>1. 1 \in 1..Length
    BY <1>3
  <2> QED
    BY <1>3, <1>4, <1>5, <2>1 DEF Scanning
<1> QED
  BY <1>1, <1>3, <1>4, <1>6 DEF LayoutInv, Good

LEMMA EmptyKeepsLayout ==
  ASSUME ReadInv, Wanted, LayoutInv, ControlInv, NotPresent \/ WrongFormat PROVE LayoutInv'
<1>1. /\ pc = "find" /\ file \in Files /\ stream \in Streams
      /\ UNCHANGED <<file, list, top_level_chunks, riff_chunks, formatRead>>
      /\ pc' = "listed" /\ chunks' = NoChunks
  BY DEF NotPresent, WrongFormat, ReadInv, Reading, formatVars
<1>2. ~WrongFormat
  BY <1>1, ListIsEntered DEF WrongFormat
<1>3. chunk_name_fourcc \notin DOMAIN Parents /\ stream' = stream
  BY <1>2 DEF NotPresent
<1>4. list \in {"outer", "inner"}
  <2>1. list # "riff"
    BY <1>1, <1>3, TopsFound DEF LayoutInv, chunk_name_fourcc, Parents
  <2> QED
    BY <1>1, <2>1 DEF LayoutInv, ControlInv
<1>5. Length = 0 /\ Chain' = Chain /\ Length' = Length
  BY <1>1, <1>3, <1>4, SameLists DEF Length, chunk_name_fourcc
<1>6. chunks' = Found(Chain, 0)
  BY <1>1, FoundNothing
<1>7. Listed(chunks', Chain', Length')
  <2>1. 0 \in 0..0 /\ ~(0 < 0)
    OBVIOUS
  <2> QED
    BY <1>5, <1>6, <2>1 DEF Listed
<1> QED
  BY <1>1, <1>3, <1>7 DEF LayoutInv, Reading

LEMMA ListsKeepLayout ==
  ASSUME ReadInv, Wanted, LayoutInv, TopLevelRead \/ RiffRead \/ MetaDataRead PROVE LayoutInv'
<1>1. /\ pc = "listed" /\ file \in Files
      /\ UNCHANGED <<file, stream, formatRead>>
      /\ Listed(chunks, Chain, Length)
  BY DEF TopLevelRead, RiffRead, MetaDataRead, ReadInv, LayoutInv, formatVars
<1>2. CASE TopLevelRead
  <2>1. /\ list = "top" /\ list' = "riff" /\ pc' = "find" /\ top_level_chunks' = chunks
    BY <1>2 DEF TopLevelRead
  <2>2. Listed(chunks, TopChain(file.layout), Len(file.layout.tops) + 1)
    BY <1>1, <2>1 DEF Chain, Length
  <2> QED
    BY <1>1, <2>1, <2>2 DEF LayoutInv, Reading
<1>3. CASE RiffRead
  <2>1. list = "riff" /\ riff_chunks' = chunks /\ top_level_chunks' = top_level_chunks
    BY <1>3 DEF RiffRead
  <2>2. Listed(chunks, SubChain(file.layout), Len(file.layout.subs))
    BY <1>1, <2>1 DEF Chain, Length
  <2>3. chunks = RiffChunksOf(file.layout) /\ chunks # NoChunks
    BY <1>1, <2>2, SubsFound, SubsAre
  <2>4. pc' = "find" /\ list' = "outer"
    BY <1>3, <2>3 DEF RiffRead
  <2> QED
    BY <1>1, <2>1, <2>3, <2>4 DEF LayoutInv, Reading
<1>4. CASE MetaDataRead
  <2>1. /\ list \in {"outer", "inner"} /\ list' = "inner"
        /\ pc' \in {"find", "check"}
        /\ UNCHANGED <<top_level_chunks, riff_chunks>>
    BY <1>4 DEF MetaDataRead
  <2> QED
    BY <1>1, <2>1 DEF LayoutInv, Reading
<1> QED
  BY <1>2, <1>3, <1>4

LEMMA VerdictKeepsLayout ==
  ASSUME ChunkInv, Wanted, LayoutInv, MissingChunk \/ ReadFormat PROVE LayoutInv'
<1>1. /\ pc = "check" /\ list = "inner" /\ file \in Files /\ stream \in Streams
      /\ UNCHANGED <<file, list, top_level_chunks, riff_chunks>>
      /\ riff_chunks = RiffChunksOf(file.layout) /\ ~stream.fail
  BY DEF MissingChunk, ReadFormat, ChunkInv, ReadInv, LayoutInv, Reading
<1>2. ~MissingChunk
  BY <1>1, SubsAre DEF MissingChunk, HasFormat, SizeofFormatHeader
<1>3. ReadFormat
  BY <1>2
<1> DEFINE fmt == riff_chunks["fmt "]
           at == Seek(stream, fmt.start)
           base == Read(at, 16)
<1>4. /\ fmt.start \in Nat /\ fmt.size \in Nat /\ fmt.size >= 16
      /\ fmt.start + fmt.size <= file.size /\ file.size \in Nat
  <2>1. "fmt " \in DOMAIN riff_chunks /\ fmt.size >= 16
    BY <1>1, SubsAre
  <2>2. Sound(riff_chunks) /\ UInt32Count \in Nat /\ file.size \in Nat
    BY <1>1, ReaderAssumption DEF ChunkInv, ReadInv, UInt32
  <2> QED
    BY <2>1, <2>2, ChunkIs DEF Sound
<1>5. at \in Streams /\ Good(at) /\ at.pos = fmt.start
  <2> HIDE DEF fmt
  <2> QED
    BY <1>1, <1>4 DEF Seek, Streams, Good
<1>6. base \in Streams /\ Good(base) /\ base.pos = fmt.start + 16
  <2> HIDE DEF fmt, at
  <2> QED
    BY <1>4, <1>5 DEF Read, Streams, Good
<1>7. fmt.size >= 40 => ~Read(base, 24).fail
  <2> HIDE DEF fmt, base
  <2> QED
    BY <1>4, <1>6 DEF Read, Streams, Good
<1>8. /\ pc' \in Verdicts
      /\ \/ stream' = base
         \/ stream' = Read(base, 24) /\ fmt.size >= 40
      /\ formatRead' = ~stream'.fail
  <2>1. 40 - 16 = 24
    OBVIOUS
  <2> QED
    BY <1>3, <2>1 DEF ReadFormat, SizeofFormatHeader, SizeofFormatHeaderExtensible, Verdicts
<1>9. formatRead'
  BY <1>6, <1>7, <1>8 DEF Good
<1> QED
  BY <1>1, <1>8, <1>9 DEF LayoutInv, Reading, Verdicts

LEMMA OpenKeepsLayout ==
  ASSUME ChunkInv, Wanted, LayoutInv, OpenInput PROVE LayoutInv'
<1>1. /\ pc = "open" /\ pc' = "scan" /\ list = "top" /\ chunks = NoChunks
      /\ file \in Files /\ stream \in Streams
      /\ stream' = [stream EXCEPT !.fail = ~file.readable] /\ limit' = Pad(file.size)
      /\ UNCHANGED <<file, list, chunks, top_level_chunks, riff_chunks, formatRead>>
  BY DEF OpenInput, ChunkInv, ReadInv, BehindInv, Reading, formatVars
<1>2. Good(stream') /\ stream'.pos = 0
  BY <1>1 DEF LayoutInv, Good, Streams, Wanted
<1>3. /\ IsChain(TopChain(file.layout), Len(file.layout.tops) + 1, file.size)
      /\ Pad(file.size) = file.size
  BY <1>1, TopChainIs
<1>4. /\ Chain' = TopChain(file.layout) /\ Length' = Len(file.layout.tops) + 1
      /\ End' = file.size
  BY <1>1 DEF Chain, Length, End
<1>5. Len(file.layout.tops) \in Nat
  BY <1>1, WantedIs, ListsAre
<1>6. TopChain(file.layout)[1].at = 0
  BY <1>5 DEF TopChain, PlacedAt
<1>7. chunks' = Found(TopChain(file.layout), 1 - 1)
  <2>1. 1 - 1 = 0
    OBVIOUS
  <2> QED
    BY <1>1, <2>1, FoundNothing
<1>8. Scanning(Chain, Length, End)'
  <2>1. 1 \in 1..(Len(file.layout.tops) + 1)
    BY <1>5
  <2> QED
    BY <1>1, <1>2, <1>3, <1>4, <1>6, <1>7, <2>1 DEF Scanning
<1> QED
  BY <1>1, <1>2, <1>8 DEF LayoutInv, Good

LEMMA LayoutInvNext ==
  ASSUME FileInv, ControlInv, Wanted => LayoutInv, [Next]_vars PROVE (Wanted => LayoutInv)'
<1>1. UNCHANGED file
  BY DEF Next, Reader, OpenInput, NoHeader, DiscardChunk, TakeChunk, NotPresent, WrongFormat,
     EnterChunk, TopLevelRead, RiffRead, MetaDataRead, MissingChunk, ReadFormat, StartSamples,
     ConvertChunk, RunIntoUndefined, GiveUp, Flush, vars, readerVars
<1> SUFFICES ASSUME Wanted, LayoutInv PROVE LayoutInv'
  BY <1>1 DEF Wanted
<1>2. ChunkInv /\ ReadInv /\ WorkerInv
  BY DEF FileInv, ChunkInv
<1>3. CASE Reader
  BY <1>2, <1>3, OpenKeepsLayout, ScanKeepsLayout, EmptyKeepsLayout, EnterKeepsLayout,
     ListsKeepLayout, VerdictKeepsLayout DEF Reader
<1>4. CASE StartSamples \/ ConvertChunk \/ RunIntoUndefined \/ GiveUp \/ Flush
  <2>1. /\ pc = "accepted" /\ pc' = "accepted"
        /\ UNCHANGED <<file, list, top_level_chunks, riff_chunks, formatRead>>
    BY <1>2, <1>4 DEF StartSamples, ConvertChunk, RunIntoUndefined, GiveUp, Flush, WorkerInv,
       readerVars, formatVars
  <2> QED
    BY <2>1 DEF LayoutInv, Reading
<1>5. CASE UNCHANGED vars
  <2>1. UNCHANGED <<file, stream, pc, list, limit, chunks, top_level_chunks, riff_chunks,
                    formatRead>>
    BY <1>5 DEF vars, readerVars, formatVars
  <2>2. Chain' = Chain /\ Length' = Length /\ End' = End
    BY <2>1, SameLists
  <2> QED
    BY <2>1, <2>2 DEF LayoutInv, Scanning, Good
<1> QED
  BY <1>3, <1>4, <1>5 DEF Next

LEMMA LayoutAlways == Spec => [](FileInv /\ ControlInv /\ (Wanted => LayoutInv))
<1>1. Init => ControlInv /\ (Wanted => LayoutInv)
  BY DEF Init, ReaderInit, ControlInv, LayoutInv, Reading
<1>2. ControlInv /\ [Next]_vars => ControlInv'
  BY ControlInvNext
<1>3. FileInv /\ ControlInv /\ (Wanted => LayoutInv) /\ [Next]_vars => (Wanted => LayoutInv)'
  BY LayoutInvNext
<1> QED
  BY <1>1, <1>2, <1>3, FileInvAlways, PTL DEF Spec

\* Whatever chunks a WAV file has, in whatever order and between whatever others:
\* each is found where it is, and the file is not rejected (convert_wav_files.cpp:8).
THEOREM WellFormedFilesAreRead == Spec => []WellFormedIsRead
<1>1. FileInv /\ ControlInv /\ (Wanted => LayoutInv) => WellFormedIsRead
  BY DEF Wanted, LayoutInv, WellFormedIsRead, IsRead
<1> QED
  BY <1>1, LayoutAlways, PTL

-----------------------------------------------------------------------------
(* The title *)

\* The file is well-formed, and nothing behind its "RIFF" chunk is empty.
Titled == Wanted /\ TopsAreFull(file.layout)

LastList(l) == TopPosition(l, LastOf(l.tops, "LIST"))

\* The titles found so far: none before the "LIST" chunk behind the "RIFF" chunk was
\* read, that one's, if there is such a chunk, afterwards.
TitleInv ==
    /\ list # "inner" => meta_data = NoChunks
    /\ list = "inner" /\ "LIST" \in IdsOf(file.layout.tops) =>
          "INAM" \in DOMAIN meta_data
          /\ meta_data["INAM"].start = TitleStart(LastList(file.layout))

\* The last "LIST" chunk behind the "RIFF" chunk is what the first list has.
LEMMA LastListFound ==
  ASSUME file \in Files, Titled, "LIST" \in IdsOf(file.layout.tops),
         NEW m, Listed(m, TopChain(file.layout), Len(file.layout.tops) + 1)
  PROVE  /\ "LIST" \in DOMAIN m
         /\ LastList(file.layout) \in Nat
         /\ m["LIST"].start = LastList(file.layout) + 8
         /\ m["LIST"].size \in Nat /\ m["LIST"].size > 12
<1> DEFINE l == file.layout
           n == Len(l.tops)
           c == TopChain(l)
           S == {i \in DOMAIN l.tops : l.tops[i].id = "LIST"}
           last == LastOf(l.tops, "LIST")
<1>1. /\ LaidOut(l) /\ n \in Nat /\ DOMAIN l.tops = 1..n
      /\ \A i \in 1..n : l.tops[i].size \in Nat /\ l.tops[i].size > 0
  <2>1. LaidOut(l) /\ n \in Nat /\ DOMAIN l.tops = 1..n /\ \A i \in 1..n : l.tops[i].size \in Nat
    BY WantedIs, ListsAre DEF Titled
  <2> QED
    BY <2>1 DEF Titled, TopsAreFull
<1>2. c[1].id = "RIFF" /\ c[1].size = RiffSize(l) /\ RiffSize(l) >= 4
      /\ RiffSize(l) \in Nat
  BY <1>1, PositionsAre DEF TopChain, PlacedAt, Chunk
<1>3. ASSUME NEW j \in 1..(n + 1), j # 1
      PROVE  j - 1 \in 1..n /\ c[j].at = TopPosition(l, j - 1) /\ c[j].id = l.tops[j - 1].id
             /\ c[j].size = l.tops[j - 1].size
  BY <1>1, <1>3 DEF TopChain, PlacedAt
<1>4. ASSUME NEW i \in 1..n PROVE i + 1 \in 1..(n + 1) /\ i + 1 # 1 /\ (i + 1) - 1 = i
  BY <1>1
<1> HIDE DEF c
<1>5. PICK k \in 0..(n + 1) : m = Found(c, k) /\ (k < n + 1 => c[k + 1].size = 0)
  BY DEF Listed, c
<1>6. k = n + 1
  <2> SUFFICES ASSUME k # n + 1 PROVE FALSE
    OBVIOUS
  <2>1. k < n + 1 /\ k + 1 \in 1..(n + 1) /\ k \in Nat
    BY <1>1
  <2>2. k + 1 # 1
    BY <1>2, <1>5, <2>1
  <2>3. (k + 1) - 1 \in 1..n /\ c[k + 1].size = l.tops[(k + 1) - 1].size
    BY <1>3, <2>1, <2>2
  <2> QED
    BY <1>1, <1>5, <2>1, <2>3
<1>7. last \in S /\ \A i \in S : i <= last
  <2>1. S \in SUBSET (1..n) /\ S # {}
    BY <1>1 DEF IdsOf
  <2>2. last = Max(S)
    BY DEF LastOf
  <2> HIDE DEF S, last
  <2> QED
    BY <1>1, <2>1, <2>2, MaxIs
<1> HIDE DEF last
<1>8. last \in 1..n /\ l.tops[last].id = "LIST"
  BY <1>1, <1>7
<1> DEFINE j == Latest(c, n + 1, "LIST")
<1>9. c[last + 1].id = "LIST" /\ last + 1 \in 1..(n + 1)
  BY <1>3, <1>4, <1>8
<1>10. /\ n + 1 \in Nat /\ j \in 1..(n + 1) /\ c[j].id = "LIST" /\ last + 1 <= j
  <2>1. \E i \in 1..(n + 1) : c[i].id = "LIST"
    BY <1>9
  <2>2. n + 1 \in Nat
    BY <1>1
  <2> QED
    BY <1>9, <2>1, <2>2, LatestIs
<1>11. /\ "LIST" \in DOMAIN m
       /\ m["LIST"].start = c[j].at + 8 /\ m["LIST"].size = c[j].size
  BY <1>5, <1>6, <1>10 DEF Found
<1> HIDE DEF j
<1>12. j # 1 /\ j - 1 \in 1..n
  BY <1>2, <1>3, <1>10
<1>13. c[j].at = TopPosition(l, j - 1) /\ l.tops[j - 1].id = "LIST"
       /\ c[j].size = l.tops[j - 1].size
  BY <1>3, <1>10, <1>12
<1>14. j - 1 \in S
  BY <1>1, <1>12, <1>13
<1>15. j - 1 = last
  <2>1. j - 1 <= last
    BY <1>7, <1>14
  <2> HIDE DEF S
  <2> QED
    BY <1>1, <1>8, <1>10, <1>12, <2>1
<1>16. l.tops[last].size > 12
  <2>1. TagOf(l.tops[last]).size > 0
    BY <1>1, <1>8 DEF Titled, TopsAreFull
  <2>2. TagOf(l.tops[last]).size = l.tops[last].size - 4 - 8
    BY DEF TagOf, Chunk, SizeofFourCC, SizeofChunkHeader
  <2> QED
    BY <1>1, <1>8, <2>1, <2>2
<1>17. TopPosition(l, last) \in Nat
  <2>1. last \in 1..(n + 1)
    BY <1>9, <1>8, <1>1
  <2> QED
    BY <1>1, <2>1, PositionsAre
<1> QED
  BY <1>1, <1>8, <1>11, <1>13, <1>15, <1>16, <1>17 DEF LastList, last

\* The title in that chunk is what its list holds.
LEMMA TitleFound ==
  ASSUME file \in Files, Titled, LayoutInv, list = "outer", pc = "listed",
         "LIST" \in IdsOf(file.layout.tops)
  PROVE  /\ "INAM" \in DOMAIN chunks
         /\ chunks["INAM"].start = TitleStart(LastList(file.layout))
<1> DEFINE at == LastList(file.layout)
           m == top_level_chunks
           c == TagChain(m)
<1>1. /\ "LIST" \in DOMAIN m /\ at \in Nat
      /\ m["LIST"].start = at + 8 /\ m["LIST"].size \in Nat /\ m["LIST"].size > 12
  BY LastListFound DEF LayoutInv
<1>2. Listed(chunks, c, 1)
  BY <1>1 DEF LayoutInv, Chain, Length, Parents
<1>3. c[1].at = at + 8 + 4 /\ c[1].id = "INAM" /\ c[1].size = m["LIST"].size - 4 - 8
  BY <1>1 DEF TagChain, PlacedAt, TagOf, Chunk, SizeofFourCC, SizeofChunkHeader
<1> HIDE DEF c, at
<1>4. chunks = Found(c, 1)
  <2>1. PICK k \in 0..1 : chunks = Found(c, k) /\ (k < 1 => c[k + 1].size = 0)
    BY <1>2 DEF Listed
  <2>2. k # 0
    <3>1. 0 < 1 /\ 0 + 1 = 1
      OBVIOUS
    <3>2. c[1].size # 0
      BY <1>1, <1>3
    <3> QED
      BY <2>1, <3>1, <3>2
  <2> QED
    BY <2>1, <2>2
<1>5. Latest(c, 1, "INAM") = 1
  <2>1. 1 \in Nat /\ \E i \in 1..1 : c[i].id = "INAM"
    BY <1>3
  <2> QED
    BY <2>1, LatestIs
<1>6. "INAM" \in DOMAIN chunks /\ chunks["INAM"].start = c[1].at + 8
  <2>1. 1 \in 1..1
    OBVIOUS
  <2> QED
    BY <1>3, <1>4, <1>5, <2>1 DEF Found
<1>7. TitleStart(at) = at + 4 + 8 + 8
  BY <1>1 DEF TitleStart, TagPosition, SizeofFourCC, SizeofChunkHeader
<1> QED
  BY <1>1, <1>3, <1>6, <1>7 DEF at

LEMMA TitleInvNext ==
  ASSUME FileInv, Titled, LayoutInv, TitleInv, [Next]_vars PROVE TitleInv'
<1>1. UNCHANGED file /\ file \in Files
  <2>1. file \in Files
    BY DEF FileInv, ChunkInv, ReadInv
  <2> QED
    BY <2>1 DEF Next, Reader, OpenInput, NoHeader, DiscardChunk, TakeChunk, NotPresent,
       WrongFormat, EnterChunk, TopLevelRead, RiffRead, MetaDataRead, MissingChunk, ReadFormat,
       StartSamples, ConvertChunk, RunIntoUndefined, GiveUp, Flush, vars, readerVars
<1>2. CASE MetaDataRead
  <2>1. /\ list' = "inner" /\ list \in {"outer", "inner"} /\ pc = "listed"
        /\ meta_data' = Inserted(meta_data, chunks)
    BY <1>2 DEF MetaDataRead
  <2> SUFFICES ASSUME "LIST" \in IdsOf(file.layout.tops)
               PROVE  /\ "INAM" \in DOMAIN meta_data'
                      /\ meta_data'["INAM"].start = TitleStart(LastList(file.layout))
    BY <1>1, <2>1 DEF TitleInv
  <2>2. CASE list = "outer"
    <3>1. /\ "INAM" \in DOMAIN chunks
          /\ chunks["INAM"].start = TitleStart(LastList(file.layout))
      BY <1>1, <2>1, <2>2, TitleFound
    <3>2. DOMAIN meta_data = {}
      BY <2>2 DEF TitleInv, NoChunks
    <3> QED
      BY <2>1, <3>1, <3>2 DEF Inserted
  <2>3. CASE list = "inner"
    BY <2>1, <2>3 DEF TitleInv, Inserted
  <2> QED
    BY <2>1, <2>2, <2>3
<1>3. CASE ~MetaDataRead
  <2>1. /\ meta_data' = meta_data
        /\ list' = list \/ (list = "top" /\ list' = "riff") \/ (list = "riff" /\ list' = "outer")
    BY <1>3 DEF Next, Reader, OpenInput, NoHeader, DiscardChunk, TakeChunk, NotPresent,
       WrongFormat, EnterChunk, TopLevelRead, RiffRead, MissingChunk, ReadFormat,
       StartSamples, ConvertChunk, RunIntoUndefined, GiveUp, Flush, vars, readerVars
  <2> QED
    BY <1>1, <2>1 DEF TitleInv
<1> QED
  BY <1>2, <1>3

LEMMA TitleAlways == Spec => [](FileInv /\ (Wanted => LayoutInv) /\ (Titled => TitleInv))
<1>1. Init => (Titled => TitleInv)
  BY DEF Init, ReaderInit, TitleInv
<1>2. /\ FileInv /\ (Wanted => LayoutInv) /\ (Titled => TitleInv) /\ [Next]_vars
      => (Titled => TitleInv)'
  <2> SUFFICES ASSUME FileInv, Wanted => LayoutInv, Titled => TitleInv, [Next]_vars
               PROVE  (Titled => TitleInv)'
    OBVIOUS
  <2>1. UNCHANGED file
    BY DEF Next, Reader, OpenInput, NoHeader, DiscardChunk, TakeChunk, NotPresent, WrongFormat,
       EnterChunk, TopLevelRead, RiffRead, MetaDataRead, MissingChunk, ReadFormat, StartSamples,
       ConvertChunk, RunIntoUndefined, GiveUp, Flush, vars, readerVars
  <2>2. Titled' = Titled
    BY <2>1 DEF Titled, Wanted
  <2>3. CASE Titled
    <3>1. Wanted
      BY <2>3 DEF Titled
    <3> QED
      BY <2>3, <3>1, TitleInvNext
  <2> QED
    BY <2>2, <2>3
<1> QED
  BY <1>1, <1>2, LayoutAlways, PTL DEF Spec

\* The title of the last "LIST" chunk behind the "RIFF" chunk is the one that is used,
\* whatever the "LIST" chunks inside of it hold (convert_wav_files.cpp:183).
THEOREM TheOuterListWins == Spec => []OuterListWins
<1>1. FileInv /\ (Wanted => LayoutInv) /\ (Titled => TitleInv) => OuterListWins
  <2> SUFFICES ASSUME Wanted => LayoutInv, Titled => TitleInv, WellFormedIsChecked,
                      TopsAreFull(file.layout), "LIST" \in IdsOf(file.layout.tops)
               PROVE  meta_data["INAM"].start = TitleStart(LastList(file.layout))
    BY DEF OuterListWins, LastList
  <2>1. Wanted /\ Titled /\ pc = "check"
    BY DEF WellFormedIsChecked, Wanted, Titled
  <2>2. list = "inner"
    BY <2>1 DEF LayoutInv
  <2> QED
    BY <2>1, <2>2 DEF TitleInv
<1> QED
  BY <1>1, TitleAlways, PTL
=============================================================================
