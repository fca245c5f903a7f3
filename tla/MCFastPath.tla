------------------------------- MODULE MCFastPath -------------------------------
(* Instances of FastPath for TLC. *)
EXTENDS FastPath

Tuple(src, sport, dst, dport, proto) ==
  [src_ip |-> src, src_port |-> sport, dst_ip |-> dst, dst_port |-> dport, protocol |-> proto]

\* A TLS conversation within one host (its endpoints differ in the port only), a plain
\* one between two, and a DNS query.
Tls   == Tuple(1, 5, 1, 443, 6)
Plain == Tuple(3, 8080, 2, 7, 6)
Dns   == Tuple(2, 6, 4, 53, 17)

MCTuples == {Tls, reverse(Tls), Plain, reverse(Plain), Dns, reverse(Dns)}
MCMix(e) == e[1] + e[3]

Pkt(t, flags, payload, name, long) ==
  [tuple |-> t, flags |-> flags, payload |-> payload, name |-> name, long |-> long]

ClientHello == Pkt(Tls, {"ACK"}, "tls", "a.video", TRUE)
FirstData   == Pkt(Tls, {"ACK"}, "other", NoName, FALSE)
Finish      == Pkt(reverse(Tls), {"FIN", "ACK"}, "empty", NoName, FALSE)
Reset       == Pkt(Plain, {"RST", "ACK"}, "other", NoName, FALSE)
Query       == Pkt(Dns, {}, "dns", "mail", FALSE)

MCPackets == {ClientHello, FirstData, Finish, Reset, Query}

NoNames == {}

MCNames == {"a.video", "mail"}
MCPatterns == {"*.video"}
MCLabels(name) ==
  CASE name = "a.video" -> <<"a", "video">>
    [] name = "*.video" -> <<"*", "video">>
    [] name = "mail"    -> <<"mail">>
MCSniToAppType(name) ==
  IF name = "a.video" THEN "VIDEO" ELSE IF name = NoName THEN "UNKNOWN" ELSE "HTTPS"
=================================================================================
