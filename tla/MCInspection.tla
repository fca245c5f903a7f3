------------------------------ MODULE MCInspection ------------------------------
(* Messages for Inspection: TLS hellos, HTTP requests and DNS queries cut       *)
(* anywhere, a hello split over records anywhere, and one with any one byte     *)
(* changed.                                                                     *)
EXTENDS Inspection

Two(n) == <<n \div 256, n % 256>>
Zeros(n) == <<>> \o [k \in 1 .. n |-> 0]
CRLF == <<CR, LF>>

Message(kind, protocol, dest, text, parts, host, end) ==
  [kind |-> kind, protocol |-> protocol, src_port |-> 40000, dst_port |-> dest,
   bytes |-> text, parts |-> parts, host |-> host, end |-> end]

\* Where the texts begin that stand one after the other from a position on, and where
\* the last one ends.
Starts(from, texts) ==
  [k \in 1 .. Len(texts) + 1 |-> from + Len(FlattenSeq(SubSeq(texts, 1, k - 1)))]

\* A ClientHello as include/sni_extractor.h has it: one cipher suite, no compression.
Extension(type, data) == Two(type) \o Two(Len(data)) \o data
ServerName(name) ==
  Extension(0, Two(Len(name) + 3) \o <<0>> \o Two(Len(name)) \o name)
Alpn == Extension(16, <<0, 2>> \o Chars("h"))

Hello(protocol, dest, session_id, exts, host) ==
  LET vectors == << <<Len(session_id)>> \o session_id, <<0, 2, 0, 47>>, <<1, 0>>,
                    Two(Len(FlattenSeq(exts))) >>
      body == <<3, 3>> \o Zeros(32) \o FlattenSeq(vectors \o exts)
      text == <<22, 3, 1>> \o Two(Len(body) + 4) \o <<1, 0>> \o Two(Len(body)) \o body
  IN  Message("hello", protocol, dest, text, Starts(43, vectors \o exts), host, Len(text))

Name == Chars("x.com")
Plain == Hello(6, 443, <<7>>, <<Alpn, ServerName(Name)>>, Name)

Hellos ==
  { Plain,
    Hello(6, 443, <<>>, <<ServerName(Name), ServerName(Chars("t.me")), Alpn>>, Name),
    Hello(6, 443, <<>>, <<Alpn>>, <<>>),
    Hello(6, 443, <<>>, <<>>, <<>>),
    Hello(6, 80, <<>>, <<ServerName(Name)>>, Name),
    Hello(6, 8443, <<>>, <<ServerName(Name)>>, Name),
    Hello(17, 443, <<>>, <<ServerName(Name)>>, Name) }

\* The hello with other bytes in place of those between two positions.
Changed(kind, from, to, other, end) ==
  [Plain EXCEPT !.kind = kind, !.end = end,
                !.bytes = SubSeq(@, 1, from) \o other \o SubSeq(@, to + 1, Len(@))]

\* The record holds the first n bytes of the message, its own header included.
Split(n) == Changed("split", 3, 5, Two(n - 5), n)

Damaged(k, b) == Changed("damaged", k, k + 1, <<b>>, Plain.end)

\* before ends with "Host:" and at most one blank.
Request(kind, dest, before, host, after) ==
  Message(kind, 6, dest, before \o host \o after,
          <<Len(before) - (IF before[Len(before)] = COLON THEN 5 ELSE 6)>>, host, Len(before \o host))

Line(s) == Chars(s) \o CRLF
Requests ==
  { Request("request", 80, Line("GET / HTTP/1.1") \o Chars("Host: "), Chars("a.tv"), CRLF),
    Request("request", 80, Line("POST / HTTP/1.0") \o Chars("hOsT:") \o <<TAB>>, Chars("a.tv"),
            Line(":8080") \o Chars("Host: b")),
    Request("request", 80, Chars("POSThost:"), Chars("a"), <<LF>>),
    Request("request", 80, Line("HEAD / HTTP/1.1") \o Line("Host:") \o Chars("Host: "),
            Chars("b"), CRLF),
    Request("request", 8080, Line("GET / HTTP/1.1") \o Chars("Host: "), Chars("a.tv"), CRLF),
    Request("stray", 80, Line("GET /ghost:8 HTTP/1.1") \o Chars("Host: "), Chars("a.tv"), CRLF) }

\* One question, recursion desired, for an address; after the labels comes rest.
Query(flags, count, host, labels, rest) ==
  LET text == <<18, 52, flags, 0, 0, count>> \o Zeros(6) \o FlattenSeq(labels)
  IN  Message("query", 17, 53, text \o rest \o <<0, 0, 1, 0, 1>>, Starts(12, labels), host,
              Len(text \o rest))

TwoLabels == << <<1>> \o Chars("a"), <<2>> \o Chars("tv") >>
Queries ==
  { Query(1, 1, Chars("a.tv"), TwoLabels, <<>>),
    Query(1, 1, Chars("a"), << <<1>> \o Chars("a") >>, <<192, 12>>),   \* a compression pointer
    Query(1, 1, <<>>, <<>>, <<>>),
    Query(128, 1, <<>>, TwoLabels, <<>>),                              \* a response
    Query(1, 0, <<>>, TwoLabels, <<>>) }

MCMessages ==
  Hellos \cup Requests \cup Queries
  \cup {Split(n) : n \in 9 .. Plain.end}
  \cup {Damaged(k, b) : k \in 0 .. Plain.end - 1, b \in {0, 1, 6, 200, 255}}

\* Anything that would make a length or a name larger.
MCTails == {<<>> \o [k \in 1 .. 20 |-> 255]}

\* The sites of generate_test_pcap.py.
MCSites ==
  { Hello(6, 443, <<>>, <<ServerName(Chars(site))>>, Chars(site)) :
      site \in { "www.google.com", "www.youtube.com", "www.facebook.com", "www.instagram.com",
                 "twitter.com", "www.amazon.com", "www.netflix.com", "github.com",
                 "discord.com", "zoom.us", "web.telegram.org", "www.tiktok.com",
                 "open.spotify.com", "www.cloudflare.com", "www.microsoft.com",
                 "www.apple.com" } }
=================================================================================
