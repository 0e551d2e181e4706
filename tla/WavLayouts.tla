----------------------------- MODULE WavLayouts -----------------------------
(***************************************************************************)
(* Files for WavReader, made from a description of what they are to hold,  *)
(* and what the reader is to find in those that are well-formed.           *)
(*                                                                         *)
(* A layout lists the sub-chunks of the "RIFF" chunk and the chunks behind *)
(* it.  The size of the "RIFF" chunk is off by "slack" bytes, and there    *)
(* are "excess" bytes too many, or too few, at the end of the file.        *)
(***************************************************************************)
EXTENDS WavReader, Sequences, FiniteSetsExt

Chunk(id, size) == [id |-> id, size |-> size]

\* Space(items)[i] are the bytes that the first i chunks of a list take.
Space(items) ==
    LET bytes[i \in 0..Len(items)] ==
            IF i = 0 THEN 0 ELSE bytes[i - 1] + SizeofChunkHeader + Pad(items[i].size)
    IN  bytes

SubPosition(l, i) == SizeofChunkHeader + SizeofFourCC + Space(l.subs)[i - 1]

RiffSize(l) == SizeofFourCC + Space(l.subs)[Len(l.subs)] + l.slack

TopPosition(l, i) == SizeofChunkHeader + Pad(RiffSize(l)) + Space(l.tops)[i - 1]

\* A "LIST" chunk holds the format type "INFO" and a title.
TagPosition(p) == p + SizeofChunkHeader + SizeofFourCC
TagOf(c) == Chunk("INAM", c.size - SizeofFourCC - SizeofChunkHeader)

FileOf(l) ==
    LET outer == {<<SubPosition(l, i), l.subs[i]>> : i \in DOMAIN l.subs}
                 \cup {<<TopPosition(l, i), l.tops[i]>> : i \in DOMAIN l.tops}
        lists == {x \in outer : x[2].id = "LIST"}
        all == {<<0, Chunk("RIFF", RiffSize(l))>>} \cup outer
               \cup {<<TagPosition(x[1]), TagOf(x[2])>> : x \in lists}
    IN  [readable |-> TRUE,
         size |-> TopPosition(l, Len(l.tops) + 1) + l.excess,
         header |-> [p \in {x[1] : x \in all} |-> (CHOOSE x \in all : x[1] = p)[2]],
         format |-> [p \in {SizeofChunkHeader} \cup {x[1] + SizeofChunkHeader : x \in lists}
                        |-> IF p = SizeofChunkHeader THEN "WAVE" ELSE "INFO"],
         layout |-> l]

\* A "LIST" chunk has room for a title, and only one chunk is called "RIFF".
IsLayout(l) ==
    /\ \A items \in {l.subs, l.tops} :
          /\ items \in Seq([id : STRING, size : Nat])
          /\ \A i \in DOMAIN items :
                items[i].id = "LIST" => items[i].size >= SizeofFourCC + SizeofChunkHeader
    /\ "RIFF" \notin {l.tops[i].id : i \in DOMAIN l.tops}
    /\ l.slack \in Int /\ l.excess \in Int

ASSUME LayoutsAssumption ==
    \A f \in Files : f.readable => IsLayout(f.layout) /\ f = FileOf(f.layout)

-----------------------------------------------------------------------------
(* What is to be found *)

\* The last chunk with this id is the one that counts.
LastOf(items, id) == Max({i \in DOMAIN items : items[i].id = id})

IdsOf(items) == {items[i].id : i \in DOMAIN items}

RiffChunksOf(l) ==
    [id \in IdsOf(l.subs) |->
        LET i == LastOf(l.subs, id) IN
        [start |-> SubPosition(l, i) + SizeofChunkHeader, size |-> l.subs[i].size]]

\* A WAV file as the comments at the top of convert_wav_files.cpp have it.
IsWav(l) ==
    /\ l.slack = 0 /\ l.excess = 0
    /\ {"fmt ", "data"} \subseteq IdsOf(l.subs)
    /\ l.subs[LastOf(l.subs, "fmt ")].size >= SizeofFormatHeader
    /\ l.subs[LastOf(l.subs, "data")].size > 0

HasNoEmptyChunk(l) ==
    \A i \in DOMAIN l.subs : l.subs[i].size > 0

\* The file is not rejected, except for what its format header says.
IsRead(l) ==
    /\ pc \in {"rejected", "accepted"} => formatRead
    /\ pc = "check" => riff_chunks = RiffChunksOf(l)

\* convert_wav_files.cpp:8 has the chunks of a WAV file in any order: if none of
\* them is empty, each is found where it is, and the file is not rejected
\* whatever other chunks, "LIST" chunks or chunks behind the RIFF chunk it has.
WellFormedIsRead ==
    file.readable /\ IsWav(file.layout) /\ HasNoEmptyChunk(file.layout) => IsRead(file.layout)

\* convert_wav_files.cpp:11 says that all chunks with other ids "are ignored
\* but do not cause an error", so it does not matter if one of them is empty.
OtherChunksAreIgnored ==
    file.readable /\ IsWav(file.layout) =>
        (pc = "rejected" => formatRead)

\* Where the title is in the "LIST" chunk at a position.
TitleStart(p) == TagPosition(p) + SizeofChunkHeader

WellFormedIsChecked ==
    /\ file.readable /\ IsWav(file.layout) /\ HasNoEmptyChunk(file.layout)
    /\ pc = "check"

\* An empty chunk ends the list it is in, and an empty title is none.
TopsAreFull(l) ==
    \A i \in DOMAIN l.tops : l.tops[i].size > 0 /\ (l.tops[i].id = "LIST" => TagOf(l.tops[i]).size > 0)

\* Of two "LIST" chunks the one outside the "RIFF" chunk provides the title:
\* it is read first, and the one inside replaces nothing (line 183).  The comment
\* at convert_wav_files.cpp:768 has it the other way round.
OuterListWins ==
    WellFormedIsChecked /\ TopsAreFull(file.layout) =>
        LET tops == file.layout.tops IN
        "LIST" \in IdsOf(tops) =>
            meta_data["INAM"].start = TitleStart(TopPosition(file.layout, LastOf(tops, "LIST")))
=============================================================================
