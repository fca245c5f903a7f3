------------------------------- MODULE MCCapture -------------------------------
(* Instances of Capture for TLC. *)
EXTENDS Capture

F(len, ether, version, ihl, proto, doff) ==
  [len |-> len, ether_type |-> ether, version |-> version, ihl |-> ihl,
   protocol |-> proto, doff |-> doff]

Whole(frame) == [incl_len |-> frame.len, frame |-> frame, ends |-> "after data"]
File(magic, snaplen, records) == [magic |-> magic, snaplen |-> snaplen, records |-> records]

\* What the same file is on a machine of the other byte order.
OtherOrder(f) ==
  File("swapped", maybeSwap32(f.snaplen, TRUE),
       [k \in DOMAIN f.records |->
          [f.records[k] EXCEPT !.incl_len = maybeSwap32(@, TRUE)]])

\* Lengths at and on both sides of every limit the parser and the engines compare with.
Lengths == {0, 13, 14, 15, 26, 33, 34, 35, 41, 42, 43, 46, 47, 53, 54, 55, 61, 62, 63,
            73, 74, 75, 93, 94, 95, 113, 114, 115, 120}

Frames ==
  {F(len, "IPv4", 4, ihl, proto, doff) :
     len \in Lengths, ihl \in {0, 4, 5, 6, 15}, proto \in {1, 6, 17}, doff \in {0, 4, 5, 6, 15}}
  \cup {F(60, "other", 0, 0, 1, 0), F(60, "IPv4", 6, 5, 6, 5)}

Plain  == Whole(F(60, "IPv4", 4, 5, 6, 5))
Query  == Whole(F(50, "IPv4", 4, 5, 17, 0))
Arp    == Whole(F(42, "other", 0, 0, 1, 0))
Jumbo  == Whole(F(70000, "IPv4", 4, 5, 6, 5))
NoData == [Plain EXCEPT !.ends = "in data"]
NoHead == [Plain EXCEPT !.ends = "in header"]

Several ==
  {File("native", 262144, r) :
     r \in {<<Plain, Query, Plain>>, <<Arp, Query>>, <<Plain, Jumbo, Query>>,
            <<Query, NoData>>, <<Plain, Query, NoHead>>}}
  \cup {File("native", 55, <<Query, Plain, Query>>), File("native", 262144, <<>>)}

MCCaptures ==
  {File("native", 262144, <<Whole(f)>>) : f \in Frames}
  \cup Several \cup {OtherOrder(f) : f \in Several}
  \cup {File("other", 262144, <<Plain>>)}

FewCaptures == Several \cup {OtherOrder(f) : f \in Several}
=================================================================================
