-------------------------- MODULE MCWavConversion ---------------------------
(***************************************************************************)
(* TLC instances of WavConversion: files with some of these sub-chunks and *)
(* at most one chunk behind the RIFF chunk.  Those whose sizes are right   *)
(* have up to FairSubs sub-chunks, the others up to FoulSubs.              *)
(***************************************************************************)
EXTENDS WavLayouts, WavConversion

CONSTANTS FairSubs, FoulSubs, Slacks

Excesses == {-1, 0, 1, 8}

SubChunks == {Chunk("fmt ", 15), Chunk("fmt ", 16), Chunk("fmt ", 40), Chunk("data", 21),
              Chunk("fact", 4), Chunk("fact", 0), Chunk("LIST", 24)}

TopChunks == {Chunk("LIST", 25), Chunk("PAD ", 2)}

Layouts(maxSubs, slacks, excesses) ==
    [subs : UNION {[1..n -> SubChunks] : n \in 0..maxSubs},
     tops : {<<>>} \cup {<<c>> : c \in TopChunks}, slack : slacks, excess : excesses]

Unreadable == [FileOf([subs |-> <<>>, tops |-> <<>>, slack |-> 0, excess |-> 0])
                    EXCEPT !.readable = FALSE]

MCFiles ==
    {Unreadable} \cup {FileOf(l) : l \in Layouts(FairSubs, {0}, {0})
                                         \cup Layouts(FoulSubs, Slacks, Excesses)}

Header(format, sub, channels, bits, valid) ==
    [audio_format |-> format, sub_format |-> sub, num_channels |-> channels,
     samples_per_second |-> 8,
     block_align |-> channels * ((bits + 7) \div 8),
     bytes_per_second |-> 8 * channels * ((bits + 7) \div 8),
     bits_per_sample |-> bits, valid_bits_per_sample |-> valid]

Stereo16 == Header("PCM", "other", 2, 16, 0)

MCHeaders ==
    {Header("PCM", "other", 1, 8, 0), Stereo16, Header("PCM", "other", 2, 12, 0),
     Header("PCM", "other", 2, 24, 0), Header("PCM", "other", 1, 40, 0),
     Header("PCM", "other", 1, 0, 0), Header("PCM", "other", 3, 16, 0),
     [Header("PCM", "other", 1, 65535, 0) EXCEPT !.block_align = 0, !.bytes_per_second = 0],
     Header("EXTENSIBLE", "PCM", 1, 32, 33), Header("EXTENSIBLE", "PCM", 1, 32, 0),
     Header("IEEE_FLOAT", "other", 2, 32, 0), Header("IEEE_FLOAT", "other", 1, 16, 0),
     Header("EXTENSIBLE", "PCM", 2, 24, 20), Header("EXTENSIBLE", "PCM", 2, 24, 24),
     Header("EXTENSIBLE", "PCM", 2, 24, 25), Header("EXTENSIBLE", "IEEE_FLOAT", 1, 64, 0),
     Header("EXTENSIBLE", "other", 1, 16, 16), Header("other", "other", 1, 16, 0),
     [Stereo16 EXCEPT !.block_align = 2], [Stereo16 EXCEPT !.bytes_per_second = 31]}
=============================================================================
