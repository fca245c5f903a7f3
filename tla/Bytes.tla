--------------------------------- MODULE Bytes ---------------------------------
(***************************************************************************)
(* Payloads as sequences of bytes.  Positions count from 0, as in the      *)
(* code; what lies behind the last byte of a memory reads as 0.            *)
(***************************************************************************)
EXTENDS Integers, Sequences

Byte == 0 .. 255

U8(mem, o)  == IF o < Len(mem) THEN mem[o + 1] ELSE 0
U16(mem, o) == 256 * U8(mem, o) + U8(mem, o + 1)

\* The bytes from one position up to, not including, another.  (The concatenation
\* makes TLC write the function out.)
Slice(mem, from, to) == <<>> \o [k \in 1 .. to - from |-> U8(mem, from + k - 1)]

\* The first position from .. length - 1 that holds one of stops, or length.
Seek(mem, from, length, stops) ==
  CHOOSE o \in from .. length :
    /\ o = length \/ U8(mem, o) \in stops
    /\ \A q \in from .. o - 1 : U8(mem, q) \notin stops

\* std::string::find succeeds.
Finds(text, pattern) ==
  \E o \in 0 .. Len(text) - Len(pattern) : SubSeq(text, o + 1, o + Len(pattern)) = pattern

---------------------------------------------------------------------------------
\* The part of ASCII that names and requests are made of: rows of characters with
\* the code of the first.
Rows == { <<32, " ">>, <<45, "-./0123456789:">>,
          <<65, "ABCDEFGHIJKLMNOPQRSTUVWXYZ">>, <<97, "abcdefghijklmnopqrstuvwxyz">> }

Codes ==
  UNION {{<<SubSeq(row[2], k, k), row[1] + k - 1>> : k \in 1 .. Len(row[2])} : row \in Rows}

Code(c) == (CHOOSE pair \in Codes : pair[1] = c)[2]

Chars(s) == <<>> \o [k \in 1 .. Len(s) |-> Code(SubSeq(s, k, k))]

TAB == 9
LF == 10
CR == 13
SPACE == 32
DOT == 46
COLON == 58
=================================================================================
