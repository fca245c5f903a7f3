----------------------------- MODULE SingleThreaded -----------------------------
(***************************************************************************)
(* The loop of src/main_working.cpp, one packet after the other through    *)
(* one flow table: what the threads of dpi_mt.cpp have to add up to.       *)
(***************************************************************************)
EXTENDS FlowRules, Sequences

\* The four stages of classification, in the order of the code.
FromHello(flow, p) ==
  IF /\ flow.app_type \in {"UNKNOWN", "HTTPS"} /\ flow.sni = NoName
     /\ p.tuple.protocol = 6 /\ p.tuple.dst_port = 443 /\ p.kind = "tls"
    THEN [flow EXCEPT !.sni = p.name, !.app_type = sniToAppType(p.name)]
    ELSE flow

FromRequest(flow, p) ==
  IF /\ flow.app_type \in {"UNKNOWN", "HTTP"} /\ flow.sni = NoName
     /\ p.tuple.protocol = 6 /\ p.tuple.dst_port = 80 /\ p.kind = "http"
    THEN [flow EXCEPT !.sni = p.name, !.app_type = sniToAppType(p.name)]
    ELSE flow

FromDnsPort(flow, p) ==
  IF flow.app_type = "UNKNOWN" /\ 53 \in {p.tuple.src_port, p.tuple.dst_port}
    THEN [flow EXCEPT !.app_type = "DNS"] ELSE flow

FromPort(flow, p) ==
  IF flow.app_type # "UNKNOWN" THEN flow
  ELSE IF p.tuple.dst_port = 443 THEN [flow EXCEPT !.app_type = "HTTPS"]
  ELSE IF p.tuple.dst_port = 80 THEN [flow EXCEPT !.app_type = "HTTP"]
  ELSE flow

Inspected(flow, p) ==
  FromPort(FromDnsPort(FromRequest(FromHello([flow EXCEPT !.packets = @ + 1], p), p), p), p)

\* The flow table after each prefix of the input.  The frames in skipped are no TCP
\* or UDP packets over IP.
FlowsAfter(rules, packets, skipped) ==
  LET after[n \in 0 .. Len(packets)] ==
        IF n = 0 THEN [t \in {} |-> NewFlow]
        ELSE IF n \in skipped THEN after[n - 1]
        ELSE LET p == packets[n]
                 flow == Inspected(Entry(after[n - 1], p.tuple), p)
             IN  WithEntry(after[n - 1], p.tuple, Judged(rules, flow, p))
  IN  after
=================================================================================
