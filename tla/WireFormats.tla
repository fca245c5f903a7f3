------------------------------ MODULE WireFormats ------------------------------
(***************************************************************************)
(* What the messages look like that the extractors are made for, told by   *)
(* the positions of their parts and not by how an extractor goes through   *)
(* them: the "TLS Client Hello Structure" of include/sni_extractor.h, an   *)
(* HTTP request, a DNS query.  A message is [kind, protocol, src_port,     *)
(* dst_port, bytes, parts, host, end]: host is the name it was made for,   *)
(* which is in it before position end, and parts says where its parts are. *)
(***************************************************************************)
EXTENDS HTTPHostExtractor

IsMessage(m) ==
  /\ m.bytes \in Seq(Byte) /\ m.host \in Seq(Byte)
  /\ m.parts \in Seq(0 .. Len(m.bytes)) /\ m.end \in 0 .. Len(m.bytes)

\* The text is what the bytes are from a position on.
Stands(b, o, text) == \A k \in 1 .. Len(text) : U8(b, o + k - 1) = text[k]

\* A server_name extension whose n bytes begin at o: a list, with the name first.
ServerNameAt(b, o, n, name) ==
  /\ n = 2 + U16(b, o) /\ n >= 5 + Len(name)
  /\ U8(b, o + 2) = 0 /\ U16(b, o + 3) = Len(name)
  /\ Stands(b, o + 5, name)

\* parts: session id, cipher suites, compression methods, extensions, then one for each
\* extension and the end of the last.  The first record reaches to end.
IsHello(m) ==
  LET b == m.bytes
      p == m.parts
      n == Len(p)
      names == {k \in 5 .. n - 1 : U16(b, p[k]) = 0}
  IN  /\ U8(b, 0) = 22 /\ U16(b, 1) \in 768 .. 772 /\ U16(b, 3) = m.end - 5 /\ U8(b, 5) = 1
      /\ n >= 5
      /\ p[1] = 43
      /\ p[2] = p[1] + 1 + U8(b, p[1])
      /\ p[3] = p[2] + 2 + U16(b, p[2])
      /\ p[4] = p[3] + 1 + U8(b, p[3])
      /\ p[5] = p[4] + 2
      /\ \A k \in 5 .. n - 1 : p[k + 1] = p[k] + 4 + U16(b, p[k] + 2)
      /\ p[n] = p[5] + U16(b, p[4]) /\ p[n] = Len(b)
      /\ names = {} => m.host = <<>>
      /\ \A k \in names : (\A j \in names : k <= j) =>
           ServerNameAt(b, p[k] + 4, U16(b, p[k] + 2), m.host)

\* parts: where "Host:" is, the first one with something behind it on its line.  The
\* host ends with the line or with the colon before a port.  The methods and what is
\* taken for "Host:" are the extractor's own: nothing is said here against those two.
IsRequest(m) ==
  LET b == m.bytes
      i == m.parts[1]
      start == m.end - Len(m.host)
      blanks(from, to) == \A o \in from .. to - 1 : U8(b, o) \in {SPACE, TAB}
  IN  /\ Len(m.parts) = 1 /\ SubSeq(b, 1, 4) \in methods
      /\ HostHeaderAt(b, i) /\ i + 5 <= start /\ blanks(i + 5, start)
      /\ Stands(b, start, m.host) /\ m.host # <<>> /\ m.host[1] \notin {SPACE, TAB}
      /\ \A k \in 1 .. Len(m.host) : m.host[k] \notin {CR, LF, COLON}
      /\ m.end < Len(b) /\ U8(b, m.end) \in {CR, LF, COLON}
      /\ \A k \in 0 .. i - 1 : HostHeaderAt(b, k) =>
           \E e \in k + 5 .. i - 1 : U8(b, e) \in {CR, LF} /\ blanks(k + 5, e)

\* parts: the labels of the name and what comes behind them.  The name is what stands
\* there with dots in place of the lengths, if anything is asked.
IsQuery(m) ==
  LET b == m.bytes
      p == m.parts
      n == Len(p)
  IN  /\ n >= 1 /\ p[1] = 12
      /\ \A k \in 1 .. n - 1 : U8(b, p[k]) \in 1 .. 63 /\ p[k + 1] = p[k] + 1 + U8(b, p[k])
      /\ p[n] < Len(b) => U8(b, p[n]) \notin 1 .. 63
      /\ p[n] <= m.end
      /\ IF U8(b, 2) < 128 /\ U16(b, 4) # 0 /\ n > 1
           THEN /\ Len(m.host) = p[n] - 13
                /\ \A j \in 1 .. Len(m.host) :
                     m.host[j] = IF \E k \in 2 .. n - 1 : p[k] = 12 + j THEN DOT ELSE U8(b, 12 + j)
           ELSE m.host = <<>>
=================================================================================
