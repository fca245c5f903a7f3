--------------------------- MODULE HTTPHostExtractor ---------------------------
(***************************************************************************)
(* HTTPHostExtractor (src/sni_extractor.cpp): what follows the first       *)
(* "host:" in a request, up to the end of the line or a port.  Conventions *)
(* as in SNIExtractor.                                                     *)
(***************************************************************************)
EXTENDS Bytes

methods ==
  { <<71, 69, 84, 32>>,     \* "GET "
    <<80, 79, 83, 84>>,     \* "POST"
    <<80, 85, 84, 32>>,     \* "PUT "
    <<72, 69, 65, 68>>,     \* "HEAD"
    <<68, 69, 76, 69>>,     \* "DELE"
    <<80, 65, 84, 67>>,     \* "PATC"
    <<79, 80, 84, 73>> }    \* "OPTI"

isHTTPRequest(mem, length) == length >= 4 /\ Slice(mem, 0, 4) \in methods

\* "host:" in any case.
HostHeaderAt(mem, i) ==
  /\ U8(mem, i)     \in {72, 104}     \* H
  /\ U8(mem, i + 1) \in {79, 111}     \* o
  /\ U8(mem, i + 2) \in {83, 115}     \* s
  /\ U8(mem, i + 3) \in {84, 116}     \* t
  /\ U8(mem, i + 4) = COLON

\* Mutant: the port is part of the host.
HostWithPort(mem, i, length) ==
  LET start == Seek(mem, i + 5, length, Byte \ {SPACE, TAB})
      end   == Seek(mem, start, length, {CR, LF})
  IN  IF end > start THEN {Slice(mem, start, end)} ELSE {}

\* The rest of the line behind "host:", without leading blanks and without a port.
Host(mem, i, length) ==
  LET start == Seek(mem, i + 5, length, Byte \ {SPACE, TAB})
      end   == Seek(mem, start, length, {CR, LF})
  IN  IF end > start THEN {Slice(mem, start, Seek(mem, start, end, {COLON}))} ELSE {}

\* HTTPHostExtractor::extract.  An empty line does not end the search.
extractHost(mem, length) ==
  LET hits == {i \in 0 .. length - 7 : HostHeaderAt(mem, i) /\ Host(mem, i, length) # {}}
  IN  IF isHTTPRequest(mem, length) /\ hits # {}
        THEN Host(mem, CHOOSE i \in hits : \A k \in hits : i <= k, length)
        ELSE {}
=================================================================================
