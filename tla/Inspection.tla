------------------------------- MODULE Inspection -------------------------------
(***************************************************************************)
(* What each of the three engines finds out from the first payload of a    *)
(* flow: which extractors it tries, on which ports, behind which checks of *)
(* the length (inspectPayload of src/fast_path.cpp, classifyFlow of        *)
(* src/dpi_mt.cpp, the loop of src/main_working.cpp).                      *)
(***************************************************************************)
EXTENDS SNIExtractor, DNSExtractor, WireFormats, AppNames, SequencesExt

\* The kind of a message (see WireFormats) tells what it is: "hello", "request",
\* "query"; "split", a hello whose first record ends before it does; "damaged", a hello
\* with one byte changed; "stray", a request with "host:" somewhere before the header.
CONSTANTS Messages,
          Tails       \* what can lie in memory behind a payload

VARIABLES message,
          length,     \* how much of it is in the payload
          behind,     \* what lies behind the payload in memory
          found       \* of each engine that has looked: [app, name]

vars == <<message, length, behind, found>>

Engines == {"modular", "multi_threaded", "single_threaded"}

ASSUME MessagesAssumption ==
  /\ Tails \subseteq Seq(Byte)
  /\ \A m \in Messages :
       /\ IsMessage(m)
       /\ m.kind \in {"hello", "split"} => IsHello(m)
       /\ m.kind = "hello" => m.end = Len(m.bytes)
       /\ m.kind = "request" => IsRequest(m)
       /\ m.kind = "query" => IsQuery(m)

\* Of a split hello the first record is looked at; damaged ones as a whole.
Lengths(m) ==
  IF m.kind = "split" THEN {m.end}
  ELSE IF m.kind = "damaged" THEN {Len(m.bytes)}
  ELSE 0 .. Len(m.bytes)

Init ==
  /\ message \in Messages
  /\ length \in Lengths(message)
  /\ behind \in Tails \cup {Slice(message.bytes, length, Len(message.bytes))}
  /\ found = [e \in Engines |-> {}]

payload == Slice(message.bytes, 0, length)

---------------------------------------------------------------------------------
dst == message.dst_port
dns_port == 53 \in {message.src_port, message.dst_port}
tcp == message.protocol = 6

Unnamed(app) == [app |-> app, name |-> <<>>]
Named(names) == LET name == CHOOSE n \in names : TRUE
                IN  [app |-> sniToAppType(name), name |-> name]
PortApp == IF dst = 443 THEN "HTTPS" ELSE IF dst = 80 THEN "HTTP" ELSE "UNKNOWN"

\* FastPathProcessor::inspectPayload
tryExtractSNI(mem)      == IF dst = 443 \/ length >= 50 THEN extractSNI(mem, length) ELSE {}
tryExtractHTTPHost(mem) == IF dst = 80 THEN extractHost(mem, length) ELSE {}

inspectPayload(mem) ==
  LET sni   == tryExtractSNI(mem)
      host  == tryExtractHTTPHost(mem)
      query == IF dns_port THEN extractQuery(mem, length) ELSE {}
  IN  IF length = 0 THEN Unnamed("UNKNOWN")
      ELSE IF sni # {} THEN Named(sni)
      ELSE IF host # {} THEN Named(host)
      ELSE IF query # {} THEN [app |-> "DNS", name |-> CHOOSE n \in query : TRUE]
      ELSE Unnamed(PortApp)

\* Mutant: the limit of 50 bytes that the modular engine has for other ports.
LongEnoughAnywhere(n) == n >= 50

\* classifyFlow.  Its checks of the length before the extractors are called:
LongEnoughForHello(n)   == n > 5
LongEnoughForRequest(n) == n > 10

classifyFlow(mem) ==
  LET sni  == IF dst = 443 /\ LongEnoughForHello(length) THEN extractSNI(mem, length) ELSE {}
      host == IF dst = 80 /\ LongEnoughForRequest(length) THEN extractHost(mem, length) ELSE {}
  IN  IF sni # {} THEN Named(sni)
      ELSE IF host # {} THEN Named(host)
      ELSE IF dns_port THEN Unnamed("DNS")
      ELSE Unnamed(PortApp)

\* The loop of main_working.cpp, on the first packet of a flow.
mainLoop(mem) ==
  LET sni  == IF tcp /\ dst = 443 /\ length > 5 THEN extractSNI(mem, length) ELSE {}
      host == IF tcp /\ dst = 80 /\ length > 0 THEN extractHost(mem, length) ELSE {}
      flow == IF sni \cup host # {} THEN Named(sni \cup host) ELSE Unnamed("UNKNOWN")
  IN  IF flow.app # "UNKNOWN" THEN flow
      ELSE [flow EXCEPT !.app = IF dns_port THEN "DNS" ELSE PortApp]

\* What engine e makes of a memory that begins with the payload.
Outcome(e, mem) ==
  CASE e = "modular"         -> inspectPayload(mem)
    [] e = "multi_threaded"  -> classifyFlow(mem)
    [] e = "single_threaded" -> mainLoop(mem)

Look(e) ==
  /\ found[e] = {}
  /\ found' = [found EXCEPT ![e] = {Outcome(e, payload \o behind)}]
  /\ UNCHANGED <<message, length, behind>>

Next == \E e \in Engines : Look(e)

Spec == Init /\ [][Next]_vars

---------------------------------------------------------------------------------
\* No engine's opinion depends on a byte behind the payload, whatever the lengths
\* in the payload claim.
ReadsOnlyThePayload ==
  \A e \in Engines : found[e] \subseteq {Outcome(e, payload)}

\* A ClientHello that is there as a whole is named after its first server_name, by
\* every engine that looks for one on its port; one that is cut, or that goes
\* on in a second record, is named so or not at all, never something else.  (To or
\* from port 53 the modular engine may take it for a query.)
HelloNeverMisnamed ==
  message.kind \in {"hello", "split"} /\ ~dns_port =>
    \A e \in Engines : \A o \in found[e] :
      /\ o.name \in {<<>>, message.host}
      /\ (message.kind = "hello" /\ tcp /\ dst = 443 /\ length = Len(message.bytes))
           => o.name = message.host

\* A request whose Host line is there is named after it, without the port; one that
\* is cut within the line is named after what is there of the host.
RequestNamedAsFarAsItGoes ==
  message.kind = "request" /\ ~dns_port =>
    \A e \in Engines : \A o \in found[e] :
      /\ IsPrefix(o.name, message.host)
      /\ (tcp /\ dst = 80 /\ length > message.end) => o.name = message.host

\* A query is named after the labels that are there as a whole, unless its id and
\* flags make it a ClientHello.
QueryNamedByWholeLabels ==
  message.kind = "query" /\ dst = 53 /\ ~isTLSClientHello(payload, length) =>
    \A o \in found["modular"] :
      /\ IsPrefix(o.name, message.host)
      /\ o.name \in {<<>>, message.host} \/ message.host[Len(o.name) + 1] = DOT
      /\ length >= message.end => o.name = message.host

\* On the ports of the web the engines come to the same opinion of a payload: their
\* checks of its length hide no name from any of them.  (An empty name is a name to
\* two of them only; a hello on port 80 is looked at by one, and so is a query that
\* comes from port 53.)
EnginesAgree ==
  /\ tcp /\ length > 0 /\ ~dns_port
  /\ dst = 443 \/ (dst = 80 /\ ~isTLSClientHello(payload, length))
  =>
    \A e, f \in Engines : \A o \in found[e], p \in found[f] :
      o = p \/ (o.name = <<>> /\ "single_threaded" \in {e, f})

\* "Supported Apps for Blocking" in the usage text of src/main_dpi.cpp, each with the
\* label its sites have in their names.
SupportedApps ==
  [GOOGLE |-> "google", YOUTUBE |-> "youtube", FACEBOOK |-> "facebook",
   INSTAGRAM |-> "instagram", TWITTER |-> "twitter", NETFLIX |-> "netflix",
   AMAZON |-> "amazon", MICROSOFT |-> "microsoft", APPLE |-> "apple",
   WHATSAPP |-> "whatsapp", TELEGRAM |-> "telegram", TIKTOK |-> "tiktok",
   SPOTIFY |-> "spotify", ZOOM |-> "zoom", DISCORD |-> "discord", GITHUB |-> "github"]

Dotted(name) == <<Code(".")>> \o name \o <<Code(".")>>

\* A supported application can be blocked: a ClientHello to a site with its label in
\* the name is taken to be of that application and not of another one.
AppsAreRecognised ==
  (message.kind = "hello" /\ tcp /\ dst = 443 /\ length = Len(message.bytes)) =>
    \A app \in DOMAIN SupportedApps :
      Finds(Dotted(message.host), Dotted(Chars(SupportedApps[app]))) =>
        \A e \in Engines : \A o \in found[e] : o.app = app
=================================================================================
