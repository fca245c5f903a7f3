-------------------------------- MODULE Capture --------------------------------
(***************************************************************************)
(* From file to file: PcapReader (src/pcap_reader.cpp) takes the records   *)
(* of a capture one by one, PacketParser (src/packet_parser.cpp) decides   *)
(* which are packets of a flow, createPacketJob (src/dpi_engine.cpp) finds *)
(* their payload once more, and what is forwarded is written to another    *)
(* capture.  The queues in between are in Pipeline; here a packet is       *)
(* written before the next one is read.                                    *)
(*                                                                         *)
(* A number in a file is what a read of its bytes gives on this machine;   *)
(* in a file of the other byte order that is the number with its bytes     *)
(* reversed.                                                               *)
(***************************************************************************)
EXTENDS Naturals, Sequences

\* The bytes of a frame that the parser looks at; len is the number of bytes.
Frame == [len : Nat, ether_type : {"IPv4", "other"}, version : 0 .. 15,
          ihl : 0 .. 15, protocol : {1, 6, 17}, doff : 0 .. 15]

\* RawPacket::data, of a packet that readNextPacket accepts.
RawPacket == {f \in Frame : f.len <= 65535}

NoFrame == [len |-> 0, ether_type |-> "other", version |-> 0, ihl |-> 0,
            protocol |-> 1, doff |-> 0]

\* ends tells whether the file ends within the record's header or its data.
Record == [incl_len : Nat, frame : Frame, ends : {"in header", "in data", "after data"}]

CONSTANT Captures   \* the files that may be given as input

ASSUME CapturesAssumption ==
  Captures \subseteq [magic : {"native", "swapped", "other"}, snaplen : Nat,
                     records : Seq(Record)]

VARIABLES infile, reader,   \* reader: PcapReader's fields, pos counting records
          raw, pc,          \* the packet in hand and what is done with it
          output            \* the file that is written

\* History: the frames that were read, and those that were forwarded.
VARIABLES seen, forwarded

vars == <<infile, reader, raw, pc, output, seen, forwarded>>

---------------------------------------------------------------------------------
\* PcapReader

maybeSwap32(v, swap) ==
  IF ~swap THEN v
  ELSE (v % 256) * 16777216 + ((v \div 256) % 256) * 65536
         + ((v \div 65536) % 256) * 256 + v \div 16777216

\* A record whose data is all there has as many bytes as its header says, in the file's
\* byte order.
ASSUME RecordsAssumption ==
  \A f \in Captures : \A k \in 1 .. Len(f.records) :
    f.records[k].ends = "after data" =>
      maybeSwap32(f.records[k].incl_len, f.magic = "swapped") = f.records[k].frame.len

\* open: of the header's fields the magic number alone stays as it is in the file.
CanOpen(f) == f.magic \in {"native", "swapped"}

Opened(f) ==
  LET swap == f.magic = "swapped"
  IN  [needs_byte_swap |-> swap, magic |-> f.magic,
       snaplen |-> maybeSwap32(f.snaplen, swap), pos |-> 0]

\* Mutants: the absolute limit is missing; a short read of the data is not noticed.
LengthWithinSnaplen(len, snaplen) == len <= snaplen
HasHeader(rec) == rec.ends # "in header"

LengthAccepted(len, snaplen) == len <= snaplen /\ len <= 65535
IsWhole(rec) == rec.ends = "after data"

\* readNextPacket returns true for this record.
Readable(rd, rec) ==
  /\ rec.ends # "in header"
  /\ LengthAccepted(maybeSwap32(rec.incl_len, rd.needs_byte_swap), rd.snaplen)
  /\ IsWhole(rec)

\* ... and this is raw.data.
Data(rd, rec) == [rec.frame EXCEPT !.len = maybeSwap32(rec.incl_len, rd.needs_byte_swap)]

---------------------------------------------------------------------------------
\* PacketParser::parse

parseEthernet(f) == f.len >= 14

transport_offset(f) == 14 + 4 * f.ihl

parseIPv4(f) ==
  /\ f.len >= 14 + 20
  /\ f.version = 4
  /\ 4 * f.ihl >= 20 /\ f.len >= transport_offset(f)

\* Mutant: one comparison instead of three.
parseTCPByOffset(f) == f.len >= transport_offset(f) + 4 * f.doff

parseTCP(f) ==
  /\ f.len >= transport_offset(f) + 20
  /\ 4 * f.doff >= 20 /\ f.len >= transport_offset(f) + 4 * f.doff

parseUDP(f) == f.len >= transport_offset(f) + 8

parse(f) ==
  /\ parseEthernet(f)
  /\ f.ether_type = "IPv4" => /\ parseIPv4(f)
                              /\ f.protocol = 6 => parseTCP(f)
                              /\ f.protocol = 17 => parseUDP(f)

\* has_ip && (has_tcp || has_udp), of a frame that parses.
HasPorts(f) == f.ether_type = "IPv4" /\ f.protocol \in {6, 17}

\* What is left of the frame from an offset on.  Where nothing is left the offset
\* is not used.
Rest(f, offset) ==
  IF offset < f.len THEN [offset |-> offset, length |-> f.len - offset]
  ELSE [offset |-> f.len, length |-> 0]

ParsedPayload(f) ==
  Rest(f, transport_offset(f) + (IF f.protocol = 6 THEN 4 * f.doff ELSE 8))

---------------------------------------------------------------------------------
\* The payload is located again from the bytes, without the parser's checks.

\* Mutant: TCP options are forgotten.
PayloadAfterPlainHeader(f) ==
  Rest(f, transport_offset(f) + (IF f.protocol = 6 THEN 20 ELSE 8))

\* createPacketJob; with neither branch taken payload_offset stays 0.
JobPayload(f) ==
  IF f.len <= 14 THEN [offset |-> 0, length |-> 0]
  ELSE IF f.protocol = 6 /\ f.len > transport_offset(f)
         THEN Rest(f, transport_offset(f) + 4 * f.doff)
       ELSE IF f.protocol = 17 THEN Rest(f, transport_offset(f) + 8)
       ELSE Rest(f, 0)

\* The bytes createPacketJob reads.
JobReads(f) ==
  IF f.len <= 14 THEN {}
  ELSE IF f.protocol = 6 /\ f.len > transport_offset(f) THEN {14, transport_offset(f) + 12}
  ELSE {14}

\* The same in dpi_mt.cpp (and inlined in main_working.cpp).
InlinePayload(f) ==
  IF f.protocol = 6 /\ transport_offset(f) + 12 < f.len
    THEN Rest(f, transport_offset(f) + 4 * f.doff)
  ELSE IF f.protocol = 17 THEN Rest(f, transport_offset(f) + 8)
  ELSE Rest(f, transport_offset(f))

---------------------------------------------------------------------------------
NoFile == [magic |-> "none", snaplen |-> 0, records |-> <<>>]
Closed == [needs_byte_swap |-> FALSE, magic |-> "none", snaplen |-> 0, pos |-> 0]

TypeOK ==
  /\ infile \in Captures
  /\ reader.needs_byte_swap \in BOOLEAN /\ reader.pos \in 0 .. Len(infile.records)
  /\ raw \in RawPacket
  /\ pc \in {"open", "read", "job", "done", "failed"}
  /\ output.magic \in {"none", "native", "swapped"}
  /\ \A k \in DOMAIN output.records : output.records[k].frame \in RawPacket
  /\ Len(seen) = reader.pos
  /\ Len(output.records) = Len(forwarded)

Init ==
  /\ infile \in Captures
  /\ reader = Closed /\ raw = NoFrame /\ pc = "open"
  /\ output = NoFile
  /\ seen = <<>> /\ forwarded = <<>>

\* The reader's copy of the header is written to the output.
Open ==
  /\ pc = "open"
  /\ \/ /\ CanOpen(infile)
        /\ reader' = Opened(infile)
        /\ output' = [magic |-> reader'.magic, snaplen |-> reader'.snaplen, records |-> <<>>]
        /\ pc' = "read"
     \/ /\ ~CanOpen(infile)
        /\ pc' = "failed"
        /\ UNCHANGED <<reader, output>>
  /\ UNCHANGED <<infile, raw, seen, forwarded>>

MorePackets ==
  /\ reader.pos < Len(infile.records)
  /\ Readable(reader, infile.records[reader.pos + 1])

\* The reading loop up to the point where a frame is kept or skipped.
ReadPacket ==
  /\ pc = "read" /\ MorePackets
  /\ raw' = Data(reader, infile.records[reader.pos + 1])
  /\ reader' = [reader EXCEPT !.pos = @ + 1]
  /\ seen' = Append(seen, raw')
  /\ pc' = IF parse(raw') /\ HasPorts(raw') THEN "job" ELSE "read"
  /\ UNCHANGED <<infile, output, forwarded>>

\* End of the file, or a record that cannot be read: what follows it is not looked
\* at.
EndOfInput ==
  /\ pc = "read" /\ ~MorePackets
  /\ pc' = "done"
  /\ UNCHANGED <<infile, reader, raw, output, seen, forwarded>>

\* Mutant: the record is given the length of the payload.
RecordOfPayload(f) ==
  [incl_len |-> JobPayload(f).length, frame |-> f, ends |-> "after data"]

\* writeOutputPacket: lengths are written as they are in memory.
RecordOf(f) == [incl_len |-> f.len, frame |-> f, ends |-> "after data"]

Forward ==
  /\ pc = "job"
  /\ output' = [output EXCEPT !.records = Append(@, RecordOf(raw))]
  /\ forwarded' = Append(forwarded, raw)
  /\ pc' = "read"
  /\ UNCHANGED <<infile, reader, raw, seen>>

Drop ==
  /\ pc = "job"
  /\ pc' = "read"
  /\ UNCHANGED <<infile, reader, raw, output, seen, forwarded>>

Returned == pc \in {"done", "failed"} /\ UNCHANGED vars

Next == Open \/ ReadPacket \/ EndOfInput \/ Forward \/ Drop \/ Returned

Spec == Init /\ [][Next]_vars

---------------------------------------------------------------------------------
\* createPacketJob reads the TCP header length without a check of its own: the
\* parser's checks keep every read within the frame.
ReadsInBounds == pc = "job" => \A i \in JobReads(raw) : i < raw.len

\* The engines locate the payload for themselves; all find what the parser found.
PayloadsAgree ==
  pc = "job" => JobPayload(raw) = ParsedPayload(raw) /\ InlinePayload(raw) = ParsedPayload(raw)

\* No packet is made of a record that is cut off or that claims a wrong length: the
\* packets are the first records of the file, whatever its byte order.
PacketsAreRecords ==
  \A k \in 1 .. Len(seen) :
    infile.records[k].ends = "after data" /\ seen[k] = infile.records[k].frame

\* What PcapReader makes of the file f.
ReadBack(f) ==
  LET rd   == Opened(f)
      good == {k \in 0 .. Len(f.records) : \A j \in 1 .. k : Readable(rd, f.records[j])}
      last == CHOOSE k \in good : \A j \in good : j <= k
  IN  [k \in 1 .. last |-> Data(rd, f.records[k])]

\* "Writes forwarded packets to output": reading the output gives the packets that
\* were forwarded.
OutputReadsBack == pc # "open" /\ pc # "failed" => ReadBack(output) = forwarded

\* It does when the input has this machine's byte order.
NativeOutputReadsBack == infile.magic = "native" => OutputReadsBack
=================================================================================
