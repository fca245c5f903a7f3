------------------------------ MODULE DNSExtractor ------------------------------
(***************************************************************************)
(* DNSExtractor (src/sni_extractor.cpp): the first name asked for in a DNS *)
(* query.  Conventions as in SNIExtractor.                                 *)
(***************************************************************************)
EXTENDS Bytes

\* A header of 12 bytes, not a response, at least one question.
isDNSQuery(mem, length) ==
  /\ length >= 12
  /\ U8(mem, 2) < 128
  /\ U16(mem, 4) # 0

\* Mutant: the last label may be longer than what is left of the payload.
LabelUnchecked(mem, o, length) == o < length /\ U8(mem, o) \in 1 .. 63

\* A label stands at o: not the root, no compression pointer, and not cut.
LabelAt(mem, o, length) ==
  o < length /\ U8(mem, o) \in 1 .. 63 /\ o + 1 + U8(mem, o) <= length

\* The labels from one position on, joined with dots.
Domain(mem, start, length) ==
  LET from[o \in Nat] ==
        IF ~LabelAt(mem, o, length) THEN <<>>
        ELSE LET next  == o + 1 + U8(mem, o)
                 label == Slice(mem, o + 1, next)
                 rest  == from[next]
             IN  IF rest = <<>> THEN label ELSE label \o <<DOT>> \o rest
  IN  from[start]

\* DNSExtractor::extractQuery
extractQuery(mem, length) ==
  IF isDNSQuery(mem, length) THEN {Domain(mem, 12, length)} \ {<<>>} ELSE {}
=================================================================================
