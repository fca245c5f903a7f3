------------------------------ MODULE SNIExtractor ------------------------------
(***************************************************************************)
(* SNIExtractor (src/sni_extractor.cpp): the host name in a TLS            *)
(* ClientHello.  mem is the memory the payload pointer points into and     *)
(* length how much of it is the payload; an optional is a set of at most   *)
(* one element.                                                            *)
(***************************************************************************)
EXTENDS Bytes

CONTENT_TYPE_HANDSHAKE == 22
HANDSHAKE_CLIENT_HELLO == 1
EXTENSION_SNI == 0
SNI_TYPE_HOSTNAME == 0

isTLSClientHello(mem, length) ==
  /\ length >= 9
  /\ U8(mem, 0) = CONTENT_TYPE_HANDSHAKE
  /\ U16(mem, 1) \in 768 .. 772          \* SSL 3.0 to TLS 1.3
  /\ U16(mem, 3) <= length - 5           \* the whole record is there
  /\ U8(mem, 5) = HANDSHAKE_CLIENT_HELLO

\* Where the variable parts begin, each with its length; the session id comes after
\* the two headers, the version and 32 random bytes.
session == 43

\* Mutant: the session id is taken to be empty.
CiphersAtOnce(mem) == session + 1

ciphers(mem)     == session + 1 + U8(mem, session)
compression(mem) == ciphers(mem) + 2 + U16(mem, ciphers(mem))
extensions(mem)  == compression(mem) + 1 + U8(mem, compression(mem))

ReachesExtensions(mem, length) ==
  /\ session < length
  /\ ciphers(mem) + 2 <= length
  /\ compression(mem) < length
  /\ extensions(mem) + 2 <= length

\* Mutant: the length of the name is not compared with that of its extension.
HostNameUnchecked(mem, o, n) ==
  IF n >= 5 /\ U16(mem, o) >= 3 /\ U8(mem, o + 2) = SNI_TYPE_HOSTNAME
    THEN {Slice(mem, o + 5, o + 5 + U16(mem, o + 3))}
    ELSE {}

\* The name in the server_name extension whose n bytes begin at o.
HostName(mem, o, n) ==
  IF /\ n >= 5
     /\ U16(mem, o) >= 3
     /\ U8(mem, o + 2) = SNI_TYPE_HOSTNAME
     /\ U16(mem, o + 3) <= n - 5
    THEN {Slice(mem, o + 5, o + 5 + U16(mem, o + 3))}
    ELSE {}

\* From one extension to the next; the first server_name extension decides.
InExtensions(mem, start, end) ==
  LET from[o \in start .. end] ==
        LET n == U16(mem, o + 2) IN
        IF o + 4 > end \/ o + 4 + n > end THEN {}
        ELSE IF U16(mem, o) = EXTENSION_SNI THEN HostName(mem, o + 4, n)
        ELSE from[o + 4 + n]
  IN  from[start]

\* SNIExtractor::extract.  Extensions that reach behind the payload are looked at
\* as far as they are there.
extractSNI(mem, length) ==
  IF isTLSClientHello(mem, length) /\ ReachesExtensions(mem, length)
    THEN LET start == extensions(mem) + 2
             stated == start + U16(mem, extensions(mem))
         IN  InExtensions(mem, start, IF stated > length THEN length ELSE stated)
    ELSE {}
=================================================================================
