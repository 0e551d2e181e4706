---------------------------- MODULE FormatHeader ----------------------------
(***************************************************************************)
(* The format header of a WAV file and its check, that is FormatHeader and *)
(* FormatHeaderExtensible of src/src/riff_format.h and the function        *)
(* check_sane_pcm_or_ieee_float_format_header() of convert_wav_files.cpp.  *)
(* The formats and sub-formats that it does not know are one: "other".     *)
(***************************************************************************)
EXTENDS Integers

CONSTANTS
    UInt16Count,        \* the number of values of a uint16_t and of a uint32_t
    UInt32Count

AudioFormats == {"PCM", "IEEE_FLOAT", "EXTENSIBLE", "other"}
SubFormats == {"PCM", "IEEE_FLOAT", "other"}

UInt16 == 0..(UInt16Count - 1)
UInt32 == 0..(UInt32Count - 1)

\* Membership in the set of all headers.
IsFormatHeader(h) ==
    /\ h.audio_format \in AudioFormats /\ h.sub_format \in SubFormats
    /\ {h.num_channels, h.block_align, h.bits_per_sample, h.valid_bits_per_sample} \subseteq UInt16
    /\ {h.samples_per_second, h.bytes_per_second} \subseteq UInt32

IsExtensible(h) == h.audio_format = "EXTENSIBLE"

Holds(h, format) == h.audio_format = format \/ (IsExtensible(h) /\ h.sub_format = format)

IsPcm(h) == Holds(h, "PCM")
IsFloat(h) == Holds(h, "IEEE_FLOAT")

\* bps: for PCM rounded up to whole bytes; more than 32 bits are only remarked on.
bps(h) ==
    IF IsPcm(h) THEN (((h.bits_per_sample + 7) \div 8) * 8) % UInt16Count ELSE h.bits_per_sample

RatesAgree(h) == (h.samples_per_second * h.block_align) % UInt32Count = h.bytes_per_second

\* Mutant: with < for <=.
ValidBitsFall(h) ==
    IsExtensible(h) /\ IsPcm(h) => h.valid_bits_per_sample < bps(h)

\* Mutant: the valid bits are not tested.
ValidBitsUntested(h) == TRUE

ValidBitsFit(h) ==
    IsExtensible(h) /\ IsPcm(h) => h.valid_bits_per_sample <= bps(h)

\* check_sane_pcm_or_ieee_float_format_header() returns true.
IsSane(h) ==
    /\ IsPcm(h) \/ IsFloat(h)
    /\ RatesAgree(h)
    /\ IsFloat(h) => bps(h) \in {32, 64}
    /\ ValidBitsFit(h)
    /\ h.block_align = (h.num_channels * bps(h)) \div 8
    /\ h.num_channels \in {1, 2}

-----------------------------------------------------------------------------
(* What the program is to accept, and what the conversion can cope with *)

\* src/README.md:41 lists the supported formats.
IsSupported(h) ==
    /\ h.num_channels \in {1, 2}
    /\ h.block_align * 8 = h.num_channels * h.bits_per_sample
    /\ h.bytes_per_second = h.samples_per_second * h.block_align
    /\ \/ h.audio_format = "PCM" /\ h.bits_per_sample \in {8, 16, 24, 32}
       \/ IsFloat(h) /\ h.bits_per_sample \in {32, 64}
       \/ /\ IsExtensible(h) /\ IsPcm(h)
          /\ h.bits_per_sample \in {8, 16, 24, 32}
          /\ h.valid_bits_per_sample \in 8..h.bits_per_sample

SizeofInt32 == 4

bytes_per_sample(h) == (h.bits_per_sample + 7) \div 8

valid_bits_per_sample(h) ==
    IF IsExtensible(h) THEN h.valid_bits_per_sample ELSE h.bits_per_sample

\* The divisor is not zero, a sample fits into an int32_t, and the number of
\* bits by which it is shifted to the left is less than that type's width.
IsDecodable(h) ==
    /\ bytes_per_sample(h) > 0
    /\ IsPcm(h) => /\ bytes_per_sample(h) <= SizeofInt32
                   /\ valid_bits_per_sample(h) \in 1..(8 * SizeofInt32)
=============================================================================
