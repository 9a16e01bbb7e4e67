------------------------------- MODULE MCWire -------------------------------
(* Constants for Wire.cfg. *)
EXTENDS Wire

MCMaxNonce == [e \in Epochs |-> IF e = 0 THEN 5 ELSE 1]

MCUploadLists == {<<"a">>, <<"a", "a">>, <<"">>, <<"a", "b", "c">>}
MCKeptIds == {<<>>, <<7, 8>>}

Unit == [size |-> 3, key |-> FALSE, slice |-> FALSE, pps |-> 0, dropped |-> FALSE,
         extension |-> FALSE, has_size |-> TRUE, code |-> 4]
Frames(codecs, unitseqs) == [codec : codecs, units : unitseqs, missing : {0}]
UpTo3(S) == UNION {[1..n -> S] : n \in 1..3}

\* A slice whose header ends within it, fills it, and goes beyond it.
Slices == {[Unit EXCEPT !.slice = TRUE, !.size = 5, !.pps = p, !.code = 3] : p \in {2, 5}}
            \union {[Unit EXCEPT !.slice = TRUE, !.size = 140, !.pps = 1]}
Short == {[Unit EXCEPT !.slice = TRUE, !.size = 1, !.pps = p, !.code = 3] : p \in {0, 1, 2}}
Leading == [Unit EXCEPT !.code = 0, !.size = 2]
\* Ranges that outgrow the buffer, past its end or leaving just the room for the
\* size and the marker, and ranges that outgrow their size's byte: OBUs behind one
\* that is dropped, whose room they take.
ManySlices(n, size) == [k \in 1..n |-> [Unit EXCEPT !.slice = TRUE, !.size = size, !.pps = 1]]
Large(slice) == [Unit EXCEPT !.slice = slice, !.size = 140, !.pps = 1]
ManyObus(n) == <<[Unit EXCEPT !.dropped = TRUE, !.size = 130]>> \o [k \in 1..n |-> Unit]
Obus == {[Unit EXCEPT !.dropped = d, !.extension = x] : d, x \in BOOLEAN}
          \union {[Unit EXCEPT !.size = 130]}
LastObu == [Unit EXCEPT !.has_size = FALSE]

MCMediaFrames ==
  Frames({"opus", "vp9"}, {<<[Unit EXCEPT !.size = n]>> : n \in {0, 1, 200}})
    \union Frames({"vp8"}, {<<[Unit EXCEPT !.size = n, !.key = k]>> :
                              n \in {0, 1, 9, 10, 12}, k \in BOOLEAN})
    \union Frames({"h264", "h265"}, UpTo3(Slices \union {Unit}))
    \union Frames({"h264", "h265"}, {<<s, t>> : s \in Short, t \in Short \union {Unit}})
    \union Frames({"h264", "h265"}, {<<>>, <<Leading>>} \union {<<Leading, s>> : s \in Slices \union Short})
    \union Frames({"h264", "h265"}, {ManySlices(n, size) : n \in 4..9, size \in {3, 130}})
    \union Frames({"h264", "h265"}, {<<Large(TRUE), Large(FALSE), Large(TRUE), Large(FALSE)>>})
    \union Frames({"av1"}, {ManyObus(n) : n \in 8..20})
    \union Frames({"av1"}, UpTo3(Obus) \union {<<>>})
    \union Frames({"av1"}, {<<o, [LastObu EXCEPT !.size = n]>> : o \in Obus, n \in {0, 2}})
    \union [codec : {"av1"}, units : {<<o, [Unit EXCEPT !.size = 130]>> : o \in Obus},
            missing : {1, 130, 131, 132}]

MCPackets ==
  [version : {1, 2}, payload_type : {13, 120}, missing : {0, 1}, csrcs : 0..2, words : -1..2,
   payload : {<<>>, Bytes("opus", 1, 1), Bytes("opus", 1, 4)}, padding : 0..3]
=============================================================================
