----------------------------- MODULE CaptureProofs -----------------------------
(***************************************************************************)
(* What the parser's checks are good for, for frames of every length: the  *)
(* code behind it reads within the frame and finds the same payload.       *)
(***************************************************************************)
EXTENDS Capture, TLAPS

\* Reversed bytes make a number again.
LEMMA SwapType ==
  ASSUME NEW v \in Nat, NEW swap \in BOOLEAN
  PROVE  maybeSwap32(v, swap) \in Nat
<1>1. v % 256 \in 0 .. 255 /\ v \div 256 \in Nat /\ v \div 65536 \in Nat /\ v \div 16777216 \in Nat
  OBVIOUS
<1>2. (v \div 256) % 256 \in 0 .. 255 /\ (v \div 65536) % 256 \in 0 .. 255
  BY <1>1
<1> QED
  BY <1>1, <1>2 DEF maybeSwap32

\* A frame with ports that parses has its whole IP and transport header.
LEMMA HeadersFit ==
  ASSUME NEW f \in Frame, parse(f), HasPorts(f)
  PROVE  /\ f.len > 14
         /\ f.protocol = 6 => transport_offset(f) + 20 <= f.len
         /\ f.protocol # 6 => f.protocol = 17
<1> DEFINE t == transport_offset(f)
<1>1. f.len \in Nat /\ f.ihl \in 0 .. 15 /\ f.protocol \in {1, 6, 17}
  BY DEF Frame
<1>2. f.protocol \in {6, 17} /\ f.len >= 34
  BY DEF HasPorts, parse, parseIPv4
<1>3. f.protocol = 6 => f.len >= t + 20
  BY DEF HasPorts, parse, parseTCP
<1>4. t \in Nat
  BY <1>1 DEF transport_offset
<1> HIDE DEF t
<1>5. f.len > 14 /\ (f.protocol = 6 => t + 20 <= f.len) /\ (f.protocol # 6 => f.protocol = 17)
  BY <1>1, <1>2, <1>3, <1>4
<1> QED
  BY <1>5 DEF t

\* createPacketJob stays within such a frame.
LEMMA JobReadsFit ==
  ASSUME NEW f \in Frame, parse(f), HasPorts(f)
  PROVE  \A i \in JobReads(f) : i < f.len
<1>1. f.len \in Nat /\ transport_offset(f) \in Nat
  BY DEF Frame, transport_offset
<1>2. f.len > 14 /\ (f.protocol = 6 => transport_offset(f) + 20 <= f.len)
  BY HeadersFit
<1> QED
  BY <1>1, <1>2 DEF JobReads

\* Both ways to locate the payload lead to where the parser left off.
LEMMA PayloadsMeet ==
  ASSUME NEW f \in Frame, parse(f), HasPorts(f)
  PROVE  JobPayload(f) = ParsedPayload(f) /\ InlinePayload(f) = ParsedPayload(f)
<1>1. transport_offset(f) \in Nat /\ f.len \in Nat
  BY DEF Frame, transport_offset
<1>2. CASE f.protocol = 6
  <2>1. f.len > transport_offset(f) /\ transport_offset(f) + 12 < f.len /\ ~(f.len <= 14)
    BY <1>1, <1>2, HeadersFit
  <2> QED
    BY <1>2, <2>1 DEF JobPayload, InlinePayload, ParsedPayload
<1>3. CASE f.protocol # 6
  <2>1. f.protocol = 17 /\ ~(f.len <= 14)
    BY <1>1, <1>3, HeadersFit
  <2> QED
    BY <1>3, <2>1 DEF JobPayload, InlinePayload, ParsedPayload
<1> QED
  BY <1>2, <1>3

---------------------------------------------------------------------------------
\* What a packet in hand is known to be, and what the reader works with.
CaptureInv ==
  /\ infile \in Captures
  /\ reader.needs_byte_swap \in BOOLEAN /\ reader.pos \in Nat
  /\ raw \in RawPacket
  /\ pc = "job" => parse(raw) /\ HasPorts(raw)

\* A record that can be read holds a frame.
LEMMA ReadableIsFrame ==
  ASSUME CaptureInv, MorePackets
  PROVE  Data(reader, infile.records[reader.pos + 1]) \in RawPacket
<1> DEFINE rec == infile.records[reader.pos + 1]
           len == maybeSwap32(rec.incl_len, reader.needs_byte_swap)
<1>1. infile.records \in Seq(Record) /\ reader.pos + 1 \in 1 .. Len(infile.records)
  BY CapturesAssumption DEF CaptureInv, CapturesAssumption, MorePackets
<1>2. rec \in Record
  BY <1>1
<1>3. len \in Nat
  BY <1>2, SwapType DEF CaptureInv, Record
<1>4. LengthAccepted(len, reader.snaplen)
  BY DEF MorePackets, Readable
<1> HIDE DEF rec, len
<1>5. rec.frame \in Frame
  BY <1>2 DEF Record
<1>6. len <= 65535
  BY <1>4 DEF LengthAccepted
<1>7. [rec.frame EXCEPT !.len = len] \in RawPacket
  BY <1>3, <1>5, <1>6 DEF Frame, RawPacket
<1> QED
  BY <1>7 DEF rec, len, Data

\* CaptureInv holds in every state of every run.
THEOREM CaptureSafe == Spec => []CaptureInv
<1>1. Init => CaptureInv
  BY DEF Init, CaptureInv, Closed, NoFrame, Frame, RawPacket
<1>2. CaptureInv /\ [Next]_vars => CaptureInv'
  <2> SUFFICES ASSUME CaptureInv, [Next]_vars PROVE CaptureInv'
    OBVIOUS
  <2>1. CASE Open
    <3>1. reader' = reader \/ reader' = Opened(infile)
      BY <2>1 DEF Open
    <3>2. Opened(infile).needs_byte_swap \in BOOLEAN /\ Opened(infile).pos \in Nat
      <4> DEFINE swap == infile.magic = "swapped"
                 snaplen == maybeSwap32(infile.snaplen, swap)
      <4>1. swap \in BOOLEAN
        OBVIOUS
      <4>2. Opened(infile) = [needs_byte_swap |-> swap, magic |-> infile.magic,
                              snaplen |-> snaplen, pos |-> 0]
        BY Zenon DEF Opened
      <4> HIDE DEF swap, snaplen
      <4> QED
        BY <4>1, <4>2
    <3>3. infile' \in Captures /\ raw' \in RawPacket /\ pc' # "job"
      BY <2>1 DEF Open, CaptureInv
    <3> QED
      BY <3>1, <3>2, <3>3 DEF CaptureInv
  <2>2. CASE ReadPacket
    <3>1. raw' \in RawPacket
      BY <2>2, ReadableIsFrame DEF ReadPacket
    <3>2. infile' \in Captures /\ reader'.needs_byte_swap \in BOOLEAN /\ reader'.pos \in Nat
      BY <2>2 DEF ReadPacket, CaptureInv
    <3>3. pc' = "job" => parse(raw') /\ HasPorts(raw')
      BY <2>2 DEF ReadPacket
    <3> QED
      BY <3>1, <3>2, <3>3 DEF CaptureInv, parse, parseEthernet, parseIPv4, parseTCP, parseUDP,
        HasPorts, transport_offset
  <2>3. CASE EndOfInput \/ Forward \/ Drop
    BY <2>3 DEF EndOfInput, Forward, Drop, CaptureInv
  <2>4. CASE UNCHANGED vars
    BY <2>4 DEF vars, CaptureInv, parse, parseEthernet, parseIPv4, parseTCP, parseUDP,
      HasPorts, transport_offset
  <2> QED
    BY <2>1, <2>2, <2>3, <2>4 DEF Next, Returned
<1> QED
  BY <1>1, <1>2, PTL DEF Spec

\* createPacketJob never reads behind the end of a frame, whatever file is read.
THEOREM ReadsStayInBounds == Spec => []ReadsInBounds
<1>1. CaptureInv => ReadsInBounds
  BY JobReadsFit DEF CaptureInv, ReadsInBounds, RawPacket
<1> QED
  BY <1>1, CaptureSafe, PTL

\* Every engine finds the payload where the parser found it, whatever file is read.
THEOREM OnePayload == Spec => []PayloadsAgree
<1>1. CaptureInv => PayloadsAgree
  BY PayloadsMeet DEF CaptureInv, PayloadsAgree, RawPacket
<1> QED
  BY <1>1, CaptureSafe, PTL
---------------------------------------------------------------------------------
(* The files: what is read of the one and what is written to the other. *)

\* PcapReader's fields, and a record of the output.
Reader == [needs_byte_swap : BOOLEAN, magic : {"none", "native", "swapped"}, snaplen : Nat, pos : Nat]
Written == [incl_len : Nat, frame : RawPacket, ends : {"after data"}]

FileTypes ==
  /\ infile \in Captures
  /\ reader \in Reader /\ reader.pos <= Len(infile.records)
  /\ raw \in RawPacket
  /\ pc \in {"open", "read", "job", "done", "failed"}
  /\ output \in [magic : {"none", "native", "swapped"}, snaplen : Nat, records : Seq(Written)]
  /\ seen \in Seq(RawPacket) /\ Len(seen) = reader.pos
  /\ forwarded \in Seq(RawPacket) /\ Len(output.records) = Len(forwarded)

\* The output has the limits and the order of bytes the reader works with, every packet has
\* passed those limits, and its record is as it should be.
FileInv ==
  /\ pc \in {"open", "failed"} => seen = <<>> /\ forwarded = <<>>
  /\ pc \notin {"open", "failed"} =>
       /\ (reader.needs_byte_swap <=> infile.magic = "swapped")
       /\ output.magic = infile.magic /\ output.snaplen = reader.snaplen
  /\ PacketsAreRecords
  /\ pc = "job" => raw.len <= output.snaplen
  /\ \A k \in 1 .. Len(forwarded) :
       output.records[k] = RecordOf(forwarded[k]) /\ forwarded[k].len <= output.snaplen

\* The records of the model are what they are made of.
LEMMA ReaderRecord ==
  ASSUME NEW b \in BOOLEAN, NEW m, NEW s \in Nat, NEW n \in Nat
  PROVE  LET rd == [needs_byte_swap |-> b, magic |-> m, snaplen |-> s, pos |-> n] IN
         /\ rd.needs_byte_swap = b /\ rd.magic = m /\ rd.snaplen = s /\ rd.pos = n
         /\ m \in {"none", "native", "swapped"} => rd \in Reader
BY DEF Reader

LEMMA WrittenRecord ==
  ASSUME NEW n, NEW f
  PROVE  LET rec == [incl_len |-> n, frame |-> f, ends |-> "after data"] IN
         /\ rec.incl_len = n /\ rec.frame = f /\ rec.ends = "after data"
         /\ n \in Nat /\ f \in RawPacket => rec \in Written
BY DEF Written

\* What open leaves in the reader.
LEMMA OpenedReader ==
  ASSUME NEW f, f.snaplen \in Nat
  PROVE  LET rd == Opened(f) IN
         /\ f.magic \in {"native", "swapped"} => rd \in Reader
         /\ rd.needs_byte_swap <=> f.magic = "swapped"
         /\ rd.needs_byte_swap \in BOOLEAN /\ rd.magic = f.magic /\ rd.pos = 0
         /\ rd.snaplen \in Nat
         /\ f.magic # "swapped" => rd.snaplen = f.snaplen
<1> DEFINE swap == f.magic = "swapped"
           snaplen == maybeSwap32(f.snaplen, swap)
<1>1. swap \in BOOLEAN /\ (~swap => snaplen = f.snaplen)
  BY DEF maybeSwap32
<1>2. snaplen \in Nat
  BY <1>1, SwapType
<1>3. Opened(f) = [needs_byte_swap |-> swap, magic |-> f.magic, snaplen |-> snaplen, pos |-> 0]
  BY Zenon DEF Opened
<1>4. swap <=> f.magic = "swapped"
  OBVIOUS
<1> HIDE DEF swap, snaplen
<1>5. 0 \in Nat
  OBVIOUS
<1>6. f.magic \in {"native", "swapped"} => f.magic \in {"none", "native", "swapped"}
  OBVIOUS
<1>7. f.magic \in {"native", "swapped"} => Opened(f) \in Reader
  BY <1>1, <1>2, <1>3, <1>5, <1>6, ReaderRecord
<1> QED
  BY <1>1, <1>2, <1>3, <1>4, <1>5, <1>7, ReaderRecord

\* One record further on.
LEMMA ReaderMoves ==
  ASSUME NEW rd \in Reader, NEW n \in Nat
  PROVE  LET on == [rd EXCEPT !.pos = n] IN
         /\ on \in Reader /\ on.pos = n
         /\ on.needs_byte_swap = rd.needs_byte_swap /\ on.snaplen = rd.snaplen
BY DEF Reader

\* What is written of a packet.
LEMMA RecordFields ==
  ASSUME NEW f
  PROVE  /\ RecordOf(f).incl_len = f.len /\ RecordOf(f).frame = f
         /\ RecordOf(f).ends = "after data"
         /\ f \in RawPacket => RecordOf(f) \in Written
<1>1. f \in RawPacket => f.len \in Nat
  BY DEF RawPacket, Frame
<1> DEFINE n == f.len
           rec == [incl_len |-> n, frame |-> f, ends |-> "after data"]
<1>2. RecordOf(f) = rec
  BY Zenon DEF RecordOf
<1>3. n = f.len
  OBVIOUS
<1> HIDE DEF n
<1>4. /\ rec.incl_len = n /\ rec.frame = f /\ rec.ends = "after data"
      /\ n \in Nat /\ f \in RawPacket => rec \in Written
  BY WrittenRecord
<1> HIDE DEF rec
<1> QED
  BY <1>1, <1>2, <1>3, <1>4, Zenon

\* A frame given its own length is the same frame.
LEMMA SameLength ==
  ASSUME NEW f \in Frame, NEW n, n = f.len
  PROVE  [f EXCEPT !.len = n] = f
BY DEF Frame

\* Without swapping a number is what it is.
LEMMA NoSwap ==
  ASSUME NEW v
  PROVE  maybeSwap32(v, FALSE) = v
BY SMT DEF maybeSwap32

\* Its length is within the reader's absolute limit.
LEMMA RawLength ==
  ASSUME NEW f \in RawPacket
  PROVE  f \in Frame /\ f.len <= 65535
BY SMT DEF RawPacket

\* A record that ends after its data has its header.
LEMMA WholeHasHeader ==
  ASSUME NEW rec, IsWhole(rec)
  PROVE  rec.ends # "in header"
BY DEF IsWhole

\* A reader of this machine's byte order takes such a record for the packet it was made of.
LEMMA OwnRecordReads ==
  ASSUME NEW rd, NEW rec, NEW f \in RawPacket, rd.needs_byte_swap = FALSE, f.len <= rd.snaplen,
         rec.incl_len = f.len, rec.frame = f, IsWhole(rec)
  PROVE  Readable(rd, rec) /\ Data(rd, rec) = f
<1>1. f \in Frame /\ f.len <= 65535
  BY RawLength
<1>2. maybeSwap32(rec.incl_len, rd.needs_byte_swap) = f.len
  BY NoSwap, Zenon
<1>3. LengthAccepted(f.len, rd.snaplen)
  BY <1>1, SMT DEF LengthAccepted
<1>4. Readable(rd, rec)
  BY <1>2, <1>3, WholeHasHeader, Zenon DEF Readable
<1>5. [f EXCEPT !.len = f.len] = f
  BY <1>1, SameLength
<1>6. Data(rd, rec) = [f EXCEPT !.len = f.len]
  BY <1>2, Zenon DEF Data
<1> QED
  BY <1>4, <1>5, <1>6, Zenon

LEMMA FilesInit ==
  ASSUME Init
  PROVE  FileTypes /\ FileInv
<1>1. Closed \in Reader /\ Closed.pos = 0 /\ NoFrame \in RawPacket
  BY DEF Closed, Reader, NoFrame, RawPacket, Frame
<1>2. <<>> \in Seq(RawPacket) /\ <<>> \in Seq(Written) /\ Len(<<>>) = 0
  OBVIOUS
<1>3. NoFile \in [magic : {"none", "native", "swapped"}, snaplen : Nat, records : Seq(Written)]
      /\ NoFile.records = <<>>
  BY <1>2 DEF NoFile
<1>4. 0 <= Len(infile.records)
  BY CapturesAssumption DEF Init, CapturesAssumption
<1>5. FileTypes
  BY <1>1, <1>2, <1>3, <1>4 DEF Init, FileTypes
<1>6. FileInv
  BY <1>2 DEF Init, FileInv, PacketsAreRecords
<1> QED
  BY <1>5, <1>6

LEMMA OpenFiles ==
  ASSUME FileTypes, FileInv, Open
  PROVE  FileTypes' /\ FileInv'
<1>1. /\ UNCHANGED <<infile, raw, seen, forwarded>> /\ pc = "open"
      /\ infile.snaplen \in Nat /\ infile.records \in Seq(Record)
  BY CapturesAssumption DEF Open, FileTypes, CapturesAssumption
<1>2. seen = <<>> /\ forwarded = <<>>
  BY <1>1 DEF FileInv
<1>3. CASE pc' = "failed" /\ UNCHANGED <<reader, output>>
  BY <1>1, <1>2, <1>3 DEF FileTypes, FileInv, PacketsAreRecords
<1>4. CASE /\ CanOpen(infile) /\ pc' = "read"
           /\ reader' = Opened(infile)
           /\ output' = [magic |-> reader'.magic, snaplen |-> reader'.snaplen, records |-> <<>>]
  <2>1. infile.magic \in {"native", "swapped"}
    BY <1>4 DEF CanOpen
  <2>2. /\ reader' \in Reader /\ reader'.magic = infile.magic /\ reader'.pos = 0
        /\ reader'.needs_byte_swap <=> infile.magic = "swapped"
    BY <1>1, <1>4, <2>1, OpenedReader
  <2>3. reader'.snaplen \in Nat
    BY <2>2 DEF Reader
  <2>4. 0 <= Len(infile.records)
    BY <1>1
  <2>6. <<>> \in Seq(Written) /\ Len(<<>>) = 0
    OBVIOUS
  <2>7. /\ output' \in [magic : {"none", "native", "swapped"}, snaplen : Nat, records : Seq(Written)]
        /\ output'.records = <<>> /\ output'.magic = infile.magic
        /\ output'.snaplen = reader'.snaplen
    BY <1>4, <2>1, <2>2, <2>3, <2>6
  <2>8. FileTypes'
    BY <1>1, <1>2, <1>4, <2>2, <2>4, <2>6, <2>7 DEF FileTypes
  <2>9. FileInv'
    BY <1>1, <1>2, <1>4, <2>2, <2>6, <2>7 DEF FileInv, PacketsAreRecords
  <2> QED
    BY <2>8, <2>9
<1> QED
  BY <1>3, <1>4 DEF Open

LEMMA ReadFiles ==
  ASSUME FileTypes, FileInv, ReadPacket, raw' \in RawPacket
  PROVE  FileTypes' /\ FileInv'
<1> DEFINE n == reader.pos + 1
           rec == infile.records[n]
           len == maybeSwap32(rec.incl_len, reader.needs_byte_swap)
<1>1. /\ UNCHANGED <<infile, output, forwarded>> /\ pc = "read" /\ pc' \in {"job", "read"}
      /\ raw' = Data(reader, rec) /\ Readable(reader, rec)
      /\ reader' = [reader EXCEPT !.pos = n] /\ seen' = Append(seen, raw')
      /\ reader.pos < Len(infile.records)
  BY DEF ReadPacket, MorePackets
<1>2. reader.pos \in Nat /\ Len(seen) = reader.pos /\ infile \in Captures
      /\ infile.records \in Seq(Record) /\ Len(infile.records) \in Nat
  BY CapturesAssumption DEF FileTypes, CapturesAssumption
<1>3. n \in 1 .. Len(infile.records) /\ rec \in Record
  BY <1>1, <1>2
<1>4. raw' = rec.frame
  <2>1. rec.ends = "after data"
    BY <1>1 DEF Readable, IsWhole
  <2>2. reader.needs_byte_swap = (infile.magic = "swapped")
    <3>1. reader.needs_byte_swap \in BOOLEAN /\ (reader.needs_byte_swap <=> infile.magic = "swapped")
      BY <1>1 DEF FileInv, FileTypes, Reader
    <3> QED
      BY <3>1, Zenon
  <2>3. len = rec.frame.len
    BY <1>2, <1>3, <2>1, <2>2, RecordsAssumption DEF RecordsAssumption
  <2>4. rec.frame \in Frame
    BY <1>3 DEF Record
  <2> HIDE DEF rec, len
  <2>5. [rec.frame EXCEPT !.len = len] = rec.frame
    BY <2>3, <2>4, SameLength
  <2> QED
    BY <1>1, <2>5 DEF Data, len
<1>5. raw'.len <= reader.snaplen
  <2>1. LengthAccepted(len, reader.snaplen)
    BY <1>1 DEF Readable
  <2>2. raw'.len = len
    <3>1. rec.frame \in Frame
      BY <1>3 DEF Record
    <3> HIDE DEF rec
    <3> QED
      BY <1>1, <3>1 DEF Data, Frame
  <2> QED
    BY <2>1, <2>2 DEF LengthAccepted
<1>6. /\ reader'.pos = n /\ reader'.needs_byte_swap = reader.needs_byte_swap
      /\ reader'.snaplen = reader.snaplen /\ reader' \in Reader
  <2>1. reader \in Reader /\ n \in Nat /\ reader' = [reader EXCEPT !.pos = n]
    BY <1>1, <1>2 DEF FileTypes
  <2> HIDE DEF n
  <2> QED
    BY <2>1, ReaderMoves
<1>7. /\ seen' \in Seq(RawPacket) /\ Len(seen') = n /\ seen'[n] = raw'
      /\ \A k \in 1 .. Len(seen) : seen'[k] = seen[k]
  BY <1>1, <1>2 DEF FileTypes
<1> HIDE DEF n
<1>8. FileTypes'
  BY <1>1, <1>3, <1>6, <1>7 DEF FileTypes
<1>9. PacketsAreRecords'
  <2> SUFFICES ASSUME NEW k \in 1 .. n
               PROVE  infile.records[k].ends = "after data" /\ seen'[k] = infile.records[k].frame
    BY <1>1, <1>7 DEF PacketsAreRecords
  <2>1. CASE k = n
    BY <1>1, <1>4, <1>7, <2>1 DEF Readable, IsWhole
  <2>2. CASE k # n
    <3>1. k \in 1 .. Len(seen)
      BY <1>2, <2>2 DEF n
    <3> QED
      BY <1>7, <3>1 DEF FileInv, PacketsAreRecords
  <2> QED
    BY <2>1, <2>2
<1>10. FileInv'
  BY <1>1, <1>5, <1>6, <1>9 DEF FileInv
<1> QED
  BY <1>8, <1>10

LEMMA ForwardFiles ==
  ASSUME FileTypes, FileInv, Forward
  PROVE  FileTypes' /\ FileInv'
<1> DEFINE n == Len(forwarded) + 1
           records == Append(output.records, RecordOf(raw))
<1>1. /\ UNCHANGED <<infile, reader, raw, seen>> /\ pc = "job" /\ pc' = "read"
      /\ output' = [output EXCEPT !.records = records] /\ forwarded' = Append(forwarded, raw)
  BY DEF Forward
<1>2. RecordOf(raw) \in Written
  BY RecordFields DEF FileTypes
<1>3. /\ records \in Seq(Written) /\ Len(records) = n /\ records[n] = RecordOf(raw)
      /\ \A k \in 1 .. Len(forwarded) : records[k] = output.records[k]
  BY <1>2 DEF FileTypes
<1>4. /\ forwarded' \in Seq(RawPacket) /\ Len(forwarded') = n /\ forwarded'[n] = raw
      /\ \A k \in 1 .. Len(forwarded) : forwarded'[k] = forwarded[k]
  BY <1>1 DEF FileTypes
<1> HIDE DEF records
<1>5. /\ output' \in [magic : {"none", "native", "swapped"}, snaplen : Nat, records : Seq(Written)]
      /\ output'.records = records /\ output'.magic = output.magic
      /\ output'.snaplen = output.snaplen
  BY <1>1, <1>3 DEF FileTypes
<1>6. FileTypes'
  BY <1>1, <1>3, <1>4, <1>5 DEF FileTypes
<1>7. ASSUME NEW k \in 1 .. n
      PROVE  output'.records[k] = RecordOf(forwarded'[k]) /\ forwarded'[k].len <= output'.snaplen
  <2>1. CASE k = n
    BY <1>1, <1>3, <1>4, <1>5, <2>1 DEF FileInv
  <2>2. CASE k # n
    <3>1. k \in 1 .. Len(forwarded)
      BY <2>2 DEF FileTypes
    <3> QED
      BY <1>3, <1>4, <1>5, <3>1 DEF FileInv
  <2> QED
    BY <2>1, <2>2
<1>8. PacketsAreRecords'
  BY <1>1 DEF FileInv, PacketsAreRecords
<1>9. FileInv'
  BY <1>1, <1>4, <1>5, <1>7, <1>8 DEF FileInv
<1> QED
  BY <1>6, <1>9

\* Both hold in every state of every run.
THEOREM FilesSafe == Spec => [](FileTypes /\ FileInv)
<1>1. ASSUME CaptureInv, CaptureInv', FileTypes, FileInv, [Next]_vars
      PROVE  FileTypes' /\ FileInv'
  <2>1. CASE ReadPacket
    BY <1>1, <2>1, ReadFiles DEF CaptureInv
  <2>2. CASE EndOfInput \/ Drop \/ UNCHANGED vars
    BY <1>1, <2>2 DEF EndOfInput, Drop, vars, FileTypes, FileInv, PacketsAreRecords
  <2> QED
    BY <1>1, <2>1, <2>2, OpenFiles, ForwardFiles DEF Next, Returned
<1> QED
  BY <1>1, FilesInit, CaptureSafe, PTL DEF Spec

\* The types of the reader and of both files.
THEOREM TypeCorrect == Spec => []TypeOK
<1>1. FileTypes => TypeOK
  <2> SUFFICES ASSUME FileTypes PROVE TypeOK
    OBVIOUS
  <2>1. reader.needs_byte_swap \in BOOLEAN /\ reader.pos \in 0 .. Len(infile.records)
    BY CapturesAssumption DEF FileTypes, Reader, CapturesAssumption
  <2>2. output.magic \in {"none", "native", "swapped"} /\ output.records \in Seq(Written)
    BY DEF FileTypes
  <2>3. \A k \in DOMAIN output.records : output.records[k].frame \in RawPacket
    <3>1. \A k \in DOMAIN output.records : output.records[k] \in Written
      BY <2>2
    <3>2. \A rec \in Written : rec.frame \in RawPacket
      BY DEF Written
    <3> QED
      BY <3>1, <3>2
  <2> QED
    BY <2>1, <2>2, <2>3 DEF FileTypes, TypeOK
<1> QED
  BY <1>1, FilesSafe, PTL

\* The packets are the first records of the file, unchanged, whatever its byte order and
\* wherever it is cut off.
THEOREM PacketsAreTheRecords == Spec => []PacketsAreRecords
BY FilesSafe, PTL DEF FileInv

\* Reading the output of a capture of this machine's byte order gives the packets that were
\* forwarded, all of them and nothing else, at any moment of the run.
THEOREM NativeOutputReads == Spec => []NativeOutputReadsBack
<1>1. ASSUME FileTypes, FileInv, infile.magic = "native", pc # "open", pc # "failed"
      PROVE  ReadBack(output) = forwarded
  <2> DEFINE rd == Opened(output)
             n == Len(forwarded)
             good == {k \in 0 .. Len(output.records) : \A j \in 1 .. k : Readable(rd, output.records[j])}
             last == CHOOSE k \in good : \A j \in good : j <= k
  <2>1. output.magic = "native" /\ output.snaplen \in Nat
    BY <1>1 DEF FileTypes, FileInv
  <2>2. rd.needs_byte_swap = FALSE /\ rd.snaplen = output.snaplen
    BY <2>1, OpenedReader
  <2>3. n \in Nat /\ Len(output.records) = n
    BY <1>1 DEF FileTypes
  <2>4. ASSUME NEW k \in 1 .. n
        PROVE  Readable(rd, output.records[k]) /\ Data(rd, output.records[k]) = forwarded[k]
    <3> DEFINE f == forwarded[k]
    <3>1. f \in RawPacket
      BY <1>1, <2>4 DEF FileTypes
    <3>2. output.records[k] = RecordOf(f) /\ f.len <= rd.snaplen
      BY <1>1, <2>2, <2>4 DEF FileInv
    <3> HIDE DEF f, rd
    <3>3. /\ output.records[k].incl_len = f.len /\ output.records[k].frame = f
          /\ IsWhole(output.records[k])
      BY <3>2, RecordFields, Zenon DEF IsWhole
    <3>4. Readable(rd, output.records[k]) /\ Data(rd, output.records[k]) = f
      BY <2>2, <3>1, <3>2, <3>3, OwnRecordReads, Zenon
    <3> QED
      BY <3>4 DEF f
  <2>5. ReadBack(output) = [k \in 1 .. last |-> Data(rd, output.records[k])]
    BY DEF ReadBack
  <2> HIDE DEF rd
  <2>6. n \in good /\ \A j \in good : j <= n /\ j \in Nat
    BY <2>3, <2>4
  <2>7. last = n
    <3>1. last \in good /\ \A j \in good : j <= last
      BY <2>6
    <3> HIDE DEF last, good
    <3> QED
      BY <2>3, <2>6, <3>1
  <2> HIDE DEF last
  <2>8. ReadBack(output) = [k \in 1 .. n |-> forwarded[k]]
    BY <2>4, <2>5, <2>7
  <2>9. forwarded = [k \in 1 .. n |-> forwarded[k]]
    BY <1>1 DEF FileTypes
  <2> QED
    BY <2>8, <2>9
<1>2. FileTypes /\ FileInv => NativeOutputReadsBack
  BY <1>1 DEF NativeOutputReadsBack, OutputReadsBack
<1> QED
  BY <1>2, FilesSafe, PTL
=================================================================================
