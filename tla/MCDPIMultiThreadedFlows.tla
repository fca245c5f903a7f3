------------------------ MODULE MCDPIMultiThreadedFlows ------------------------
(* An instance of DPIMultiThreadedFlows for TLC: a TLS conversation whose      *)
(* ClientHello is its second packet, the answer to it, and a DNS query.        *)
EXTENDS DPIMultiThreadedFlows

Hello  == [src_ip |-> 1, dst_ip |-> 2, src_port |-> 5, dst_port |-> 443, protocol |-> 6]
Query  == [src_ip |-> 1, dst_ip |-> 2, src_port |-> 6, dst_port |-> 53, protocol |-> 17]
Answer == reverse(Hello)

MCTuples == {Hello, Answer, Query, reverse(Query)}
MCMix(e) == e[1] + e[3]

\* The first frame is neither TCP nor UDP over IP.
MCFrames == << [tuple |-> Hello,  parses |-> FALSE],
               [tuple |-> Hello,  parses |-> TRUE],
               [tuple |-> Query,  parses |-> TRUE],
               [tuple |-> Hello,  parses |-> TRUE],
               [tuple |-> Answer, parses |-> TRUE],
               [tuple |-> Hello,  parses |-> TRUE] >>
MCContents == << [kind |-> "other", name |-> NoName],
                 [kind |-> "other", name |-> NoName],
                 [kind |-> "other", name |-> NoName],
                 [kind |-> "tls",   name |-> "video.example"],
                 [kind |-> "other", name |-> NoName],
                 [kind |-> "other", name |-> NoName] >>

MCNames == {"video.example"}
MCSniToAppType(name) == IF name = NoName THEN "UNKNOWN" ELSE "VIDEO"
MCContains(name, d) == name # NoName /\ d = "video"

\* Nothing blocked; the server, the generic HTTPS, the application, the name.
MCRuleSets ==
  { [ips |-> {},  apps |-> {},        domains |-> {}],
    [ips |-> {2}, apps |-> {},        domains |-> {}],
    [ips |-> {},  apps |-> {"HTTPS"}, domains |-> {}],
    [ips |-> {},  apps |-> {"VIDEO", "DNS"}, domains |-> {}],
    [ips |-> {},  apps |-> {},        domains |-> {"video"}] }
=================================================================================
