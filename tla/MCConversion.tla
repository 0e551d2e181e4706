---------------------------- MODULE MCConversion ----------------------------
(* TLC instances of Conversion. *)
EXTENDS Conversion

xwav == <<"x", ".wav">>
xWAV == <<"x", ".WAV">>
xmp3 == <<"x", ".mp3">>
x1mp3 == <<"x", " (1)", ".mp3">>
ywav == <<"y", ".wav">>
ymp3 == <<"y", ".mp3">>

\* Three names are tried for each file.
TwoNumbers == <<" (1)", " (2)">>

\* x.wav needs two passes, x.mp3 and y.wav have less than one sample, x.WAV needs one.
MCPasses == [f \in Inputs |-> CASE f = xwav -> 2 [] f \in {xmp3, ywav} -> 0 [] OTHER -> 1]

\* Without -o, and with -a: x.wav and x.WAV compete for the names x*.mp3, of
\* which x.mp3 exists and is itself a WAV file to convert.  With -o: two inputs
\* whose outputs have different names.
Distinct == {[inputs |-> {xwav, xWAV, xmp3}, existing |-> {x1mp3}, overwrite |-> FALSE],
             [inputs |-> {xwav, ywav}, existing |-> {xmp3, x1mp3, ymp3}, overwrite |-> TRUE]}

\* With -o, x.wav and x.WAV have the same output.
Colliding == {[inputs |-> {xwav, xWAV}, existing |-> {}, overwrite |-> TRUE]}
=============================================================================
