----------------------------- MODULE InspectionProofs -----------------------------
(***************************************************************************)
(* The extractors on payloads of any size, whatever lies behind them in  *)
(* memory: what they read, what they find in messages that are whole or    *)
(* cut, and when the three engines agree.                                  *)
(***************************************************************************)
EXTENDS Inspection, SequenceTheorems, WellFoundedInduction, TLAPS

\* Any numbers there are have a least one.
LEMMA LeastNumber ==
  ASSUME NEW T, T \subseteq Nat, T # {}
  PROVE  \E m \in T : \A n \in T : m <= n
<1> DEFINE R == {ss \in Nat \X Nat : ss[1] < ss[2]}
<1>1. IsWellFoundedOn(R, Nat)
  BY NatLessThanWellFounded DEF OpToRel
<1>2. \A x, y \in Nat : ~(<<y, x>> \in R) => x <= y
  OBVIOUS
<1> HIDE DEF R
<1>3. \E x \in T : \A y \in T : ~(<<y, x>> \in R)
  BY <1>1, WFMin
<1> QED
  BY <1>2, <1>3

---------------------------------------------------------------------------------
(* Bytes. *)

LEMMA Numbers ==
  ASSUME NEW mem \in Seq(Byte), NEW o \in Nat
  PROVE  U8(mem, o) \in Byte /\ U8(mem, o) \in Nat /\ U16(mem, o) \in Nat
<1>1. ASSUME NEW q \in Nat PROVE U8(mem, q) \in Byte
  <2>1. CASE q < Len(mem)
    <3>1. q + 1 \in 1 .. Len(mem)
      BY <2>1
    <3> QED
      BY <2>1, <3>1, ElementOfSeq DEF U8
  <2>2. CASE ~(q < Len(mem))
    BY <2>2 DEF U8, Byte
  <2> QED
    BY <2>1, <2>2
<1>2. U8(mem, o) \in Byte /\ U8(mem, o + 1) \in Byte
  BY <1>1
<1>3. \A x, y \in Byte : x \in Nat /\ 256 * x + y \in Nat
  BY DEF Byte
<1> QED
  BY <1>2, <1>3 DEF U16

LEMMA SliceIs ==
  ASSUME NEW mem \in Seq(Byte), NEW from \in Nat, NEW to \in Nat, from <= to
  PROVE  /\ Slice(mem, from, to) \in Seq(Byte)
         /\ Len(Slice(mem, from, to)) = to - from
         /\ \A k \in 1 .. to - from : Slice(mem, from, to)[k] = U8(mem, from + k - 1)
<1> DEFINE s == [k \in 1 .. to - from |-> U8(mem, from + k - 1)]
<1>1. to - from \in Nat /\ \A k \in 1 .. to - from : U8(mem, from + k - 1) \in Byte
  BY Numbers
<1>2. s \in Seq(Byte) /\ Len(s) = to - from
  BY <1>1, IsASeq
<1> HIDE DEF s
<1>3. <<>> \o s = s
  BY <1>2, ConcatEmptySeq
<1> QED
  BY <1>2, <1>3 DEF Slice, s

\* A sequence is known by its size and its elements.
LEMMA SameSeq ==
  ASSUME NEW S, NEW s \in Seq(S), NEW t \in Seq(S), Len(s) = Len(t),
         \A k \in 1 .. Len(s) : s[k] = t[k]
  PROVE  s = t
BY SeqEqual

\* Seek finds the first stop; there is one such place only.
LEMMA SeekIs ==
  ASSUME NEW mem, NEW from \in Nat, NEW size \in Nat, from <= size, NEW stops
  PROVE  LET s == Seek(mem, from, size, stops)
         IN  /\ s \in from .. size
             /\ s = size \/ U8(mem, s) \in stops
             /\ \A q \in from .. s - 1 : U8(mem, q) \notin stops
<1> DEFINE Stop(o) == o = size \/ U8(mem, o) \in stops
           First(o) == Stop(o) /\ \A q \in from .. o - 1 : U8(mem, q) \notin stops
           T == {o \in from .. size : Stop(o)}
<1>1. T \subseteq Nat /\ size \in T
  OBVIOUS
<1> HIDE DEF T
<1>2. PICK m \in T : \A n \in T : m <= n
  BY <1>1, LeastNumber
<1>3. m \in from .. size /\ First(m)
  <2>1. m \in from .. size /\ Stop(m)
    BY DEF T
  <2>2. ASSUME NEW q \in from .. m - 1, U8(mem, q) \in stops PROVE FALSE
    <3>1. q \in from .. size /\ ~(m <= q)
      BY <2>1
    <3>2. q \in T
      BY <2>2, <3>1 DEF T
    <3> QED
      BY <1>2, <3>1, <3>2
  <2> QED
    BY <2>1, <2>2
<1> DEFINE s == CHOOSE o \in from .. size : First(o)
<1>4. Seek(mem, from, size, stops) = s
  BY DEF Seek
<1> HIDE DEF First
<1>5. s \in from .. size /\ First(s)
  BY <1>3
<1> HIDE DEF s
<1> QED
  BY <1>4, <1>5 DEF First

LEMMA SeekIsOnly ==
  ASSUME NEW mem, NEW from \in Nat, NEW size \in Nat, NEW stops, NEW o \in from .. size,
         o = size \/ U8(mem, o) \in stops,
         \A q \in from .. o - 1 : U8(mem, q) \notin stops
  PROVE  Seek(mem, from, size, stops) = o
<1> DEFINE s == Seek(mem, from, size, stops)
<1>1. /\ s \in from .. size
      /\ s = size \/ U8(mem, s) \in stops
      /\ \A q \in from .. s - 1 : U8(mem, q) \notin stops
  BY SeekIs
<1> HIDE DEF s
<1>2. ~(s < o)
  BY <1>1
<1>3. ~(o < s)
  BY <1>1
<1> QED
  BY <1>1, <1>2, <1>3 DEF s

---------------------------------------------------------------------------------
(* Two memories that begin with the same payload. *)

Agree(a, b, size) ==
  /\ a \in Seq(Byte) /\ b \in Seq(Byte)
  /\ \A o \in 0 .. size - 1 : U8(a, o) = U8(b, o)

LEMMA AgreeNumbers ==
  ASSUME NEW a, NEW b, NEW size \in Nat, Agree(a, b, size), NEW o \in Nat
  PROVE  /\ o < size => U8(a, o) = U8(b, o)
         /\ o + 1 < size => U16(a, o) = U16(b, o)
<1>1. \A q \in Nat : q < size => U8(a, q) = U8(b, q)
  BY DEF Agree
<1> QED
  BY <1>1 DEF U16

LEMMA AgreeSlice ==
  ASSUME NEW a, NEW b, NEW size \in Nat, Agree(a, b, size),
         NEW from \in Nat, NEW to \in Nat, from <= to, to <= size
  PROVE  Slice(a, from, to) = Slice(b, from, to)
<1>1. a \in Seq(Byte) /\ b \in Seq(Byte)
  BY DEF Agree
<1>2. \A k \in 1 .. to - from : U8(a, from + k - 1) = U8(b, from + k - 1)
  <2> TAKE k \in 1 .. to - from
  <2>1. from + k - 1 \in Nat /\ from + k - 1 < size
    OBVIOUS
  <2> QED
    BY <2>1, AgreeNumbers
<1> DEFINE s == Slice(a, from, to)
           t == Slice(b, from, to)
<1>3. /\ s \in Seq(Byte) /\ Len(s) = to - from
      /\ \A k \in 1 .. to - from : s[k] = U8(a, from + k - 1)
  BY <1>1, SliceIs
<1>4. /\ t \in Seq(Byte) /\ Len(t) = to - from
      /\ \A k \in 1 .. to - from : t[k] = U8(b, from + k - 1)
  BY <1>1, SliceIs
<1> HIDE DEF s, t
<1>5. Len(s) = Len(t) /\ \A k \in 1 .. Len(s) : s[k] = t[k]
  BY <1>2, <1>3, <1>4
<1>6. s = t
  BY <1>3, <1>4, <1>5, SameSeq
<1> QED
  BY <1>6 DEF s, t

LEMMA AgreeSeek ==
  ASSUME NEW a, NEW b, NEW size \in Nat, Agree(a, b, size),
         NEW from \in Nat, NEW to \in Nat, from <= to, to <= size, NEW stops
  PROVE  Seek(a, from, to, stops) = Seek(b, from, to, stops)
<1> DEFINE s == Seek(a, from, to, stops)
<1>1. /\ s \in from .. to
      /\ s = to \/ U8(a, s) \in stops
      /\ \A q \in from .. s - 1 : U8(a, q) \notin stops
  BY SeekIs
<1> HIDE DEF s
<1>2. \A q \in from .. to - 1 : U8(a, q) = U8(b, q)
  BY AgreeNumbers
<1>3. /\ s = to \/ U8(b, s) \in stops
      /\ \A q \in from .. s - 1 : U8(b, q) \notin stops
  BY <1>1, <1>2
<1> QED
  BY <1>1, <1>3, SeekIsOnly DEF s

---------------------------------------------------------------------------------
(* ClientHellos. *)

\* One round of the loop over the extensions, given the outcome of the later ones.
ExtensionAt(mem, end, f, o) ==
  LET n == U16(mem, o + 2)
  IN  IF o + 4 > end \/ o + 4 + n > end THEN {}
      ELSE IF U16(mem, o) = EXTENSION_SNI THEN HostName(mem, o + 4, n)
      ELSE f[o + 4 + n]

Walks(mem, start, end, f) == f = [o \in start .. end |-> ExtensionAt(mem, end, f, o)]

\* The loop comes to an end, wherever it begins ...
LEMMA WalksExist ==
  ASSUME NEW mem \in Seq(Byte), NEW start \in Nat, NEW end \in Nat, start <= end
  PROVE  \E f : Walks(mem, start, end, f)
<1> DEFINE At(f, o) == ExtensionAt(mem, end, f, o)
           From(d) == end - d .. end
           Upto(d) == \E f : f = [o \in From(d) |-> At(f, o)]
           Fails == {d \in 0 .. end - start : ~Upto(d)}
<1>1. ASSUME NEW f, NEW g, NEW o \in start .. end,
             \A q \in o + 1 .. end : f[q] = g[q]
      PROVE  At(f, o) = At(g, o)
  <2>0. o + 2 \in Nat
    OBVIOUS
  <2>1. U16(mem, o + 2) \in Nat
    BY <2>0, Numbers
  <2> QED
    BY <1>1, <2>1 DEF ExtensionAt
<1>2. Upto(0)
  <2> DEFINE g == [o \in From(0) |-> At(<<>>, o)]
  <2>1. \A o \in From(0) : o \in start .. end /\ \A q \in o + 1 .. end : FALSE
    OBVIOUS
  <2> HIDE DEF At
  <2>2. g = [o \in From(0) |-> At(g, o)]
    <3> HIDE DEF g
    <3>1. \A o \in From(0) : At(<<>>, o) = At(g, o)
      BY <1>1, <2>1
    <3> QED
      BY <3>1 DEF g
  <2> QED
    BY <2>2
<1>3. ASSUME NEW d \in 0 .. end - start - 1, Upto(d) PROVE Upto(d + 1)
  <2> HIDE DEF At
  <2> PICK f : f = [o \in From(d) |-> At(f, o)]
    BY <1>3
  <2> DEFINE g == [o \in From(d + 1) |-> At(f, o)]
  <2>1. \A o \in From(d) : o \in From(d + 1) /\ g[o] = f[o]
    <3>1. \A o \in From(d) : f[o] = At(f, o)
      OBVIOUS
    <3>2. \A o \in From(d) : o \in From(d + 1)
      OBVIOUS
    <3> QED
      BY <3>1, <3>2
  <2>2. \A o \in From(d + 1) : o \in start .. end /\ \A q \in o + 1 .. end : q \in From(d)
    <3>1. d \in Nat /\ d + 1 <= end - start
      OBVIOUS
    <3> QED
      BY <3>1
  <2>3. g = [o \in From(d + 1) |-> At(g, o)]
    <3> HIDE DEF g
    <3>1. \A o \in From(d + 1) : At(f, o) = At(g, o)
      BY <1>1, <2>1, <2>2
    <3> QED
      BY <3>1 DEF g
  <2> HIDE DEF g
  <2> QED
    BY <2>3
<1> HIDE DEF Upto
<1>4. Fails = {}
  <2> SUFFICES ASSUME Fails # {} PROVE FALSE
    OBVIOUS
  <2>0. Fails \subseteq Nat
    OBVIOUS
  <2>1. PICK d \in Fails : \A k \in Fails : d <= k
    BY <2>0, LeastNumber
  <2>2. d \in 0 .. end - start /\ d # 0 /\ ~Upto(d)
    BY <1>2
  <2>3. d - 1 \in 0 .. end - start - 1 /\ d - 1 \notin Fails
    BY <2>1, <2>2
  <2>4. Upto(d - 1 + 1)
    BY <1>3, <2>3
  <2> QED
    BY <2>2, <2>4
<1>5. Upto(end - start)
  BY <1>4
<1>6. end - (end - start) = start
  OBVIOUS
<1> QED
  BY <1>5, <1>6 DEF Upto, Walks

\* ... and InExtensions is such a run of it.
LEMMA InExtensionsWalks ==
  ASSUME NEW mem \in Seq(Byte), NEW start \in Nat, NEW end \in Nat, start <= end
  PROVE  \E f : Walks(mem, start, end, f) /\ InExtensions(mem, start, end) = f[start]
<1> DEFINE IsWalk(f) == Walks(mem, start, end, f)
<1>1. \E f : IsWalk(f)
  BY WalksExist
<1>2. InExtensions(mem, start, end) = (CHOOSE f : IsWalk(f))[start]
  BY DEF InExtensions, ExtensionAt, Walks
<1> HIDE DEF IsWalk
<1>3. IsWalk(CHOOSE f : IsWalk(f))
  BY <1>1
<1> QED
  BY <1>2, <1>3 DEF IsWalk

\* The same bytes within the limit give the same outcome.
LEMMA ExtensionsAgree ==
  ASSUME NEW a, NEW b, NEW size \in Nat, Agree(a, b, size),
         NEW start \in Nat, NEW end \in Nat, start <= end, end <= size
  PROVE  InExtensions(a, start, end) = InExtensions(b, start, end)
<1>1. a \in Seq(Byte) /\ b \in Seq(Byte)
  BY DEF Agree
<1>2. ASSUME NEW o \in start .. end, NEW f
      PROVE  ExtensionAt(a, end, f, o) = ExtensionAt(b, end, f, o)
  <2>1. CASE o + 4 > end
    BY <2>1 DEF ExtensionAt
  <2>2. CASE ~(o + 4 > end)
    <3> DEFINE n == U16(a, o + 2)
    <3>0. o \in Nat /\ o + 2 \in Nat /\ o + 1 < size /\ o + 2 + 1 < size
      BY <2>2
    <3>1. n \in Nat /\ U16(b, o + 2) = n /\ U16(b, o) = U16(a, o)
      <4>1. U16(a, o) = U16(b, o)
        BY <3>0, AgreeNumbers
      <4>2. U16(a, o + 2) = U16(b, o + 2)
        BY <3>0, AgreeNumbers
      <4>3. U16(a, o + 2) \in Nat
        BY <1>1, <3>0, Numbers
      <4> QED
        BY <4>1, <4>2, <4>3
    <3> HIDE DEF n
    <3>2. CASE o + 4 + n > end
      BY <3>1, <3>2 DEF ExtensionAt, n
    <3>3. CASE ~(o + 4 + n > end)
      <4>1. HostName(a, o + 4, n) = HostName(b, o + 4, n)
        <5> DEFINE q == o + 4
                   m == U16(a, q + 3)
        <5>1. q \in Nat /\ q + n <= size
          BY <3>1, <3>3
        <5> HIDE DEF q
        <5>2. CASE ~(n >= 5)
          BY <5>2 DEF HostName, q
        <5>3. CASE n >= 5
          <6>0. /\ q + 2 \in Nat /\ q + 3 \in Nat
                /\ q + 1 < size /\ q + 2 < size /\ q + 3 + 1 < size
            BY <3>1, <5>1, <5>3
          <6>1. /\ U16(b, q) = U16(a, q) /\ U8(b, q + 2) = U8(a, q + 2)
                /\ U16(b, q + 3) = m /\ m \in Nat
            <7>1. U16(a, q) = U16(b, q)
              BY <5>1, <6>0, AgreeNumbers
            <7>2. U8(a, q + 2) = U8(b, q + 2)
              BY <6>0, AgreeNumbers
            <7>3. U16(a, q + 3) = U16(b, q + 3)
              BY <6>0, AgreeNumbers
            <7>4. U16(a, q + 3) \in Nat
              BY <1>1, <6>0, Numbers
            <7> QED
              BY <7>1, <7>2, <7>3, <7>4
          <6> HIDE DEF m
          <6>2. m <= n - 5 => Slice(a, q + 5, q + 5 + m) = Slice(b, q + 5, q + 5 + m)
            BY <3>1, <5>1, <5>3, <6>1, AgreeSlice
          <6> QED
            BY <6>1, <6>2 DEF HostName, m, q
        <5> QED
          BY <3>1, <5>2, <5>3
      <4> QED
        BY <3>1, <3>3, <4>1 DEF ExtensionAt, n
    <3> QED
      BY <3>1, <3>2, <3>3
  <2> QED
    BY <2>1, <2>2
<1>3. ASSUME NEW f PROVE Walks(a, start, end, f) <=> Walks(b, start, end, f)
  BY <1>2 DEF Walks
<1> DEFINE A(f) == Walks(a, start, end, f)
           B(f) == Walks(b, start, end, f)
<1>4. /\ InExtensions(a, start, end) = (CHOOSE f : A(f))[start]
      /\ InExtensions(b, start, end) = (CHOOSE f : B(f))[start]
  BY DEF InExtensions, ExtensionAt, Walks
<1>5. \A f : A(f) <=> B(f)
  BY <1>3
<1> HIDE DEF A, B
<1>6. (CHOOSE f : A(f)) = (CHOOSE f : B(f))
  BY <1>5
<1> QED
  BY <1>4, <1>6


LEMMA AgreeBothWays ==
  ASSUME NEW a, NEW b, NEW size \in Nat, Agree(a, b, size)
  PROVE  Agree(b, a, size)
BY DEF Agree

LEMMA IsHelloAgrees ==
  ASSUME NEW a, NEW b, NEW size \in Nat, Agree(a, b, size)
  PROVE  isTLSClientHello(a, size) <=> isTLSClientHello(b, size)
<1>1. CASE size >= 9
  <2>1. U8(a, 0) = U8(b, 0) /\ U16(a, 1) = U16(b, 1)
    BY <1>1, AgreeNumbers
  <2>2. U16(a, 3) = U16(b, 3) /\ U8(a, 5) = U8(b, 5)
    BY <1>1, AgreeNumbers
  <2> QED
    BY <2>1, <2>2 DEF isTLSClientHello
<1>2. CASE ~(size >= 9)
  BY <1>2 DEF isTLSClientHello
<1> QED
  BY <1>1, <1>2

\* The variable parts are passed over in the same way.
LEMMA ReachAgrees ==
  ASSUME NEW a, NEW b, NEW size \in Nat, Agree(a, b, size), ReachesExtensions(a, size)
  PROVE  /\ ReachesExtensions(b, size)
         /\ extensions(a) \in Nat /\ extensions(a) + 2 <= size
         /\ extensions(b) = extensions(a)
         /\ U16(a, extensions(a)) \in Nat /\ U16(b, extensions(a)) = U16(a, extensions(a))
<1>1. a \in Seq(Byte) /\ b \in Seq(Byte)
  BY DEF Agree
<1> DEFINE c == ciphers(a)
           p == compression(a)
           e == extensions(a)
<1>2. 43 < size /\ c + 2 <= size /\ p < size /\ e + 2 <= size
  BY DEF ReachesExtensions, session
<1>3. c \in Nat /\ ciphers(b) = c
  <2>1. U8(a, 43) \in Nat
    BY <1>1, Numbers
  <2>2. U8(a, 43) = U8(b, 43)
    BY <1>2, AgreeNumbers
  <2> QED
    BY <2>1, <2>2 DEF ciphers, session
<1>4. p \in Nat /\ compression(b) = p
  <2> HIDE DEF c
  <2>1. U16(a, c) \in Nat
    BY <1>1, <1>3, Numbers
  <2>2. c + 1 < size
    BY <1>2, <1>3
  <2>3. U16(a, c) = U16(b, c)
    BY <1>3, <2>2, AgreeNumbers
  <2> QED
    BY <1>3, <2>1, <2>3 DEF compression, c
<1>5. e \in Nat /\ extensions(b) = e
  <2> HIDE DEF c, p
  <2>1. U8(a, p) \in Nat
    BY <1>1, <1>4, Numbers
  <2>2. U8(a, p) = U8(b, p)
    BY <1>2, <1>4, AgreeNumbers
  <2> QED
    BY <1>4, <2>1, <2>2 DEF extensions, p
<1> HIDE DEF c, p, e
<1>6. U16(a, e) \in Nat
  BY <1>1, <1>5, Numbers
<1>7. e + 1 < size
  BY <1>2, <1>5
<1>8. U16(a, e) = U16(b, e)
  BY <1>5, <1>7, AgreeNumbers
<1>9. ReachesExtensions(b, size)
  BY <1>2, <1>3, <1>4, <1>5 DEF ReachesExtensions, session, c, p, e
<1> QED
  BY <1>2, <1>5, <1>6, <1>8, <1>9 DEF e

LEMMA SNIAgrees ==
  ASSUME NEW a, NEW b, NEW size \in Nat, Agree(a, b, size)
  PROVE  extractSNI(a, size) = extractSNI(b, size)
<1>1. isTLSClientHello(a, size) <=> isTLSClientHello(b, size)
  BY IsHelloAgrees
<1>2. CASE ~ReachesExtensions(a, size)
  <2>1. ~ReachesExtensions(b, size)
    <3> SUFFICES ASSUME ReachesExtensions(b, size) PROVE FALSE
      OBVIOUS
    <3>1. Agree(b, a, size)
      BY AgreeBothWays
    <3>2. ReachesExtensions(a, size)
      BY <3>1, ReachAgrees
    <3> QED
      BY <1>2, <3>2
  <2> QED
    BY <1>2, <2>1 DEF extractSNI
<1>3. CASE ReachesExtensions(a, size)
  <2> DEFINE e == extensions(a)
             stated == e + 2 + U16(a, e)
             end == IF stated > size THEN size ELSE stated
  <2>1. /\ ReachesExtensions(b, size) /\ e \in Nat /\ e + 2 <= size /\ extensions(b) = e
        /\ U16(a, e) \in Nat /\ U16(b, e) = U16(a, e)
    BY <1>3, ReachAgrees
  <2> HIDE DEF e
  <2>2. e + 2 \in Nat /\ end \in Nat /\ e + 2 <= end /\ end <= size
    BY <2>1
  <2>3. /\ extractSNI(a, size) =
             IF isTLSClientHello(a, size) THEN InExtensions(a, e + 2, end) ELSE {}
        /\ extractSNI(b, size) =
             IF isTLSClientHello(b, size) THEN InExtensions(b, e + 2, end) ELSE {}
    BY <1>3, <2>1 DEF extractSNI, e
  <2> HIDE DEF end
  <2>4. InExtensions(a, e + 2, end) = InExtensions(b, e + 2, end)
    BY <2>2, ExtensionsAgree
  <2> QED
    BY <1>1, <2>3, <2>4
<1> QED
  BY <1>2, <1>3

---------------------------------------------------------------------------------
(* Requests. *)

\* Host looks at the rest of the payload behind "host:".
LEMMA HostAgrees ==
  ASSUME NEW a, NEW b, NEW size \in Nat, Agree(a, b, size), NEW i \in Nat, i + 5 <= size
  PROVE  Host(a, i, size) = Host(b, i, size)
<1> DEFINE Blank == Byte \ {SPACE, TAB}
           start == Seek(a, i + 5, size, Blank)
           end == Seek(a, start, size, {CR, LF})
           port == Seek(a, start, end, {COLON})
<1>0. i + 5 \in Nat
  OBVIOUS
<1> HIDE DEF Blank
<1>1. Seek(b, i + 5, size, Blank) = start
  BY <1>0, AgreeSeek
<1>2. start \in i + 5 .. size
  BY <1>0, SeekIs
<1> HIDE DEF start
<1>3. start \in Nat /\ start <= size
  BY <1>2
<1>4. Seek(b, start, size, {CR, LF}) = end
  BY <1>3, AgreeSeek
<1>5. end \in start .. size
  BY <1>3, SeekIs
<1> HIDE DEF end
<1>6. end \in Nat /\ start <= end /\ end <= size
  BY <1>3, <1>5
<1>7. Seek(b, start, end, {COLON}) = port
  BY <1>3, <1>6, AgreeSeek
<1>8. port \in start .. end
  BY <1>3, <1>6, SeekIs
<1> HIDE DEF port
<1>9. port \in Nat /\ start <= port /\ port <= size
  BY <1>3, <1>6, <1>8
<1>10. Slice(a, start, port) = Slice(b, start, port)
  BY <1>3, <1>9, AgreeSlice
<1>11. Host(a, i, size) = IF end > start THEN {Slice(a, start, port)} ELSE {}
  BY DEF Host, start, end, port, Blank
<1>12. Host(b, i, size) = IF end > start THEN {Slice(b, start, port)} ELSE {}
  BY <1>1, <1>4, <1>7 DEF Host, Blank
<1> QED
  BY <1>10, <1>11, <1>12

HostHits(mem, size) ==
  {i \in 0 .. size - 7 : HostHeaderAt(mem, i) /\ Host(mem, i, size) # {}}

First(T) == CHOOSE i \in T : \A k \in T : i <= k

LEMMA ExtractHostIs ==
  ASSUME NEW mem, NEW size
  PROVE  extractHost(mem, size) =
           IF isHTTPRequest(mem, size) /\ HostHits(mem, size) # {}
             THEN Host(mem, First(HostHits(mem, size)), size)
             ELSE {}
BY DEF extractHost, HostHits, First

LEMMA FirstIs ==
  ASSUME NEW T, T \subseteq Nat, T # {}
  PROVE  First(T) \in T /\ \A k \in T : First(T) <= k
<1> DEFINE P(m) == \A k \in T : m <= k
<1>1. First(T) = CHOOSE m \in T : P(m)
  BY DEF First
<1>2. \E m \in T : P(m)
  BY LeastNumber
<1> HIDE DEF P
<1>3. First(T) \in T /\ P(First(T))
  BY <1>1, <1>2
<1> QED
  BY <1>3 DEF P

LEMMA HostsAgree ==
  ASSUME NEW a, NEW b, NEW size \in Nat, Agree(a, b, size)
  PROVE  extractHost(a, size) = extractHost(b, size)
<1>1. isHTTPRequest(a, size) <=> isHTTPRequest(b, size)
  <2>1. CASE size >= 4
    <3>1. Slice(a, 0, 4) = Slice(b, 0, 4)
      BY <2>1, AgreeSlice
    <3> QED
      BY <3>1 DEF isHTTPRequest
  <2>2. CASE ~(size >= 4)
    BY <2>2 DEF isHTTPRequest
  <2> QED
    BY <2>1, <2>2
<1>2. \A i \in 0 .. size - 7 : Host(a, i, size) = Host(b, i, size)
  BY HostAgrees
<1>3. \A i \in 0 .. size - 7 : HostHeaderAt(a, i) <=> HostHeaderAt(b, i)
  <2> TAKE i \in 0 .. size - 7
  <2>1. U8(a, i) = U8(b, i) /\ U8(a, i + 1) = U8(b, i + 1)
    BY AgreeNumbers
  <2>2. U8(a, i + 2) = U8(b, i + 2) /\ U8(a, i + 3) = U8(b, i + 3)
    BY AgreeNumbers
  <2>3. U8(a, i + 4) = U8(b, i + 4)
    BY AgreeNumbers
  <2> QED
    BY <2>1, <2>2, <2>3 DEF HostHeaderAt
<1>4. HostHits(a, size) = HostHits(b, size)
  BY <1>2, <1>3 DEF HostHits
<1> DEFINE T == HostHits(a, size)
           i == First(T)
<1>5. /\ extractHost(a, size) = IF isHTTPRequest(a, size) /\ T # {} THEN Host(a, i, size) ELSE {}
      /\ extractHost(b, size) = IF isHTTPRequest(b, size) /\ T # {} THEN Host(b, i, size) ELSE {}
  BY <1>4, ExtractHostIs
<1>6. T # {} => i \in 0 .. size - 7
  <2>1. T \subseteq 0 .. size - 7
    BY DEF HostHits
  <2> HIDE DEF T
  <2>2. T \subseteq Nat
    BY <2>1
  <2> QED
    BY <2>1, <2>2, FirstIs
<1> HIDE DEF T, i
<1> QED
  BY <1>1, <1>2, <1>5, <1>6

---------------------------------------------------------------------------------
(* Queries. *)

\* The labels from o on, given those from later positions on.
LabelsFrom(mem, size, f, o) ==
  LET next  == o + 1 + U8(mem, o)
      label == Slice(mem, o + 1, next)
  IN  IF ~LabelAt(mem, o, size) THEN <<>>
      ELSE IF f[next] = <<>> THEN label ELSE label \o <<DOT>> \o f[next]

Spells(mem, size, f) == f = [o \in Nat |-> LabelsFrom(mem, size, f, o)]

\* The loop over the labels comes to an end, wherever it begins ...
LEMMA SpellsExist ==
  ASSUME NEW mem \in Seq(Byte), NEW size \in Nat
  PROVE  \E f : Spells(mem, size, f)
<1> DEFINE At(f, o) == LabelsFrom(mem, size, f, o)
           From(d) == {o \in Nat : o + d >= size}
           Upto(d) == \E f : f = [o \in From(d) |-> At(f, o)]
           Fails == {d \in Nat : ~Upto(d)}
<1>1. ASSUME NEW f, NEW g, NEW o \in Nat,
             \A q \in Nat : q > o => f[q] = g[q]
      PROVE  At(f, o) = At(g, o)
  <2>1. U8(mem, o) \in Nat
    BY Numbers
  <2>2. o + 1 + U8(mem, o) \in Nat /\ o + 1 + U8(mem, o) > o
    BY <2>1
  <2>3. f[o + 1 + U8(mem, o)] = g[o + 1 + U8(mem, o)]
    BY <1>1, <2>2
  <2> QED
    BY <2>3 DEF LabelsFrom
<1>2. Upto(0)
  <2> DEFINE g == [o \in From(0) |-> <<>>]
  <2>1. \A o \in From(0) : At(g, o) = <<>>
    BY DEF LabelsFrom, LabelAt
  <2> HIDE DEF At
  <2>2. g = [o \in From(0) |-> At(g, o)]
    BY <2>1
  <2> HIDE DEF g
  <2> QED
    BY <2>2
<1>3. ASSUME NEW d \in Nat, Upto(d) PROVE Upto(d + 1)
  <2> HIDE DEF At
  <2> PICK f : f = [o \in From(d) |-> At(f, o)]
    BY <1>3
  <2> DEFINE g == [o \in From(d + 1) |-> At(f, o)]
  <2>1. \A o \in From(d) : o \in From(d + 1) /\ g[o] = f[o]
    <3>1. \A o \in From(d) : f[o] = At(f, o)
      OBVIOUS
    <3>2. \A o \in From(d) : o \in From(d + 1)
      OBVIOUS
    <3> QED
      BY <3>1, <3>2
  <2>2. \A o \in From(d + 1) : o \in Nat /\ \A q \in Nat : q > o => q \in From(d)
    OBVIOUS
  <2>3. g = [o \in From(d + 1) |-> At(g, o)]
    <3> HIDE DEF g
    <3>1. \A o \in From(d + 1) : At(f, o) = At(g, o)
      BY <1>1, <2>1, <2>2
    <3> QED
      BY <3>1 DEF g
  <2> HIDE DEF g
  <2> QED
    BY <2>3
<1>4. Fails = {}
  <2> HIDE DEF Upto
  <2> SUFFICES ASSUME Fails # {} PROVE FALSE
    OBVIOUS
  <2>0. Fails \subseteq Nat
    OBVIOUS
  <2>1. PICK d \in Fails : \A k \in Fails : d <= k
    BY <2>0, LeastNumber
  <2>2. d \in Nat /\ d # 0 /\ ~Upto(d)
    BY <1>2
  <2>3. d - 1 \in Nat /\ d - 1 \notin Fails
    BY <2>1, <2>2
  <2>4. Upto(d - 1 + 1)
    BY <1>3, <2>3
  <2> QED
    BY <2>2, <2>4
<1>5. Upto(size)
  <2> HIDE DEF Upto
  <2> QED
    BY <1>4
<1>6. From(size) = Nat
  OBVIOUS
<1> QED
  BY <1>5, <1>6 DEF Spells

\* ... and Domain is such a run of it.
LEMMA DomainSpells ==
  ASSUME NEW mem \in Seq(Byte), NEW start \in Nat, NEW size \in Nat
  PROVE  \E f : Spells(mem, size, f) /\ Domain(mem, start, size) = f[start]
<1> DEFINE IsSpelling(f) == Spells(mem, size, f)
<1>1. \E f : IsSpelling(f)
  BY SpellsExist
<1>2. Domain(mem, start, size) = (CHOOSE f : IsSpelling(f))[start]
  BY DEF Domain, LabelsFrom, Spells
<1> HIDE DEF IsSpelling
<1>3. IsSpelling(CHOOSE f : IsSpelling(f))
  BY <1>1
<1> QED
  BY <1>2, <1>3 DEF IsSpelling

LEMMA DomainsAgree ==
  ASSUME NEW a, NEW b, NEW size \in Nat, Agree(a, b, size), NEW start \in Nat
  PROVE  Domain(a, start, size) = Domain(b, start, size)
<1>1. a \in Seq(Byte) /\ b \in Seq(Byte)
  BY DEF Agree
<1>2. ASSUME NEW o \in Nat, NEW f
      PROVE  LabelsFrom(a, size, f, o) = LabelsFrom(b, size, f, o)
  <2>1. CASE ~(o < size)
    BY <2>1 DEF LabelsFrom, LabelAt
  <2>2. CASE o < size
    <3> DEFINE n == U8(a, o)
    <3>1. U8(b, o) = n /\ n \in Nat
      <4>1. U8(b, o) = n
        BY <2>2, AgreeNumbers
      <4>2. n \in Nat
        BY <1>1, Numbers
      <4> QED
        BY <4>1, <4>2
    <3> HIDE DEF n
    <3>2. LabelAt(a, o, size) <=> LabelAt(b, o, size)
      BY <3>1 DEF LabelAt, n
    <3>3. CASE ~LabelAt(a, o, size)
      BY <3>2, <3>3 DEF LabelsFrom
    <3>4. CASE LabelAt(a, o, size)
      <4>1. o + 1 \in Nat /\ o + 1 + n \in Nat /\ o + 1 <= o + 1 + n /\ o + 1 + n <= size
        BY <3>1, <3>4 DEF LabelAt, n
      <4>2. Slice(a, o + 1, o + 1 + n) = Slice(b, o + 1, o + 1 + n)
        BY <4>1, AgreeSlice
      <4> QED
        BY <3>1, <3>2, <4>2 DEF LabelsFrom, n
    <3> QED
      BY <3>3, <3>4
  <2> QED
    BY <2>1, <2>2
<1>3. ASSUME NEW f PROVE Spells(a, size, f) <=> Spells(b, size, f)
  BY <1>2 DEF Spells
<1> DEFINE A(f) == Spells(a, size, f)
           B(f) == Spells(b, size, f)
<1>4. /\ Domain(a, start, size) = (CHOOSE f : A(f))[start]
      /\ Domain(b, start, size) = (CHOOSE f : B(f))[start]
  BY DEF Domain, LabelsFrom, Spells
<1>5. \A f : A(f) <=> B(f)
  BY <1>3
<1> HIDE DEF A, B
<1>6. (CHOOSE f : A(f)) = (CHOOSE f : B(f))
  BY <1>5
<1> QED
  BY <1>4, <1>6

LEMMA QueriesAgree ==
  ASSUME NEW a, NEW b, NEW size \in Nat, Agree(a, b, size)
  PROVE  extractQuery(a, size) = extractQuery(b, size)
<1>1. isDNSQuery(a, size) <=> isDNSQuery(b, size)
  <2>1. CASE size >= 12
    <3>1. U8(a, 2) = U8(b, 2) /\ U16(a, 4) = U16(b, 4)
      BY <2>1, AgreeNumbers
    <3> QED
      BY <3>1 DEF isDNSQuery
  <2>2. CASE ~(size >= 12)
    BY <2>2 DEF isDNSQuery
  <2> QED
    BY <2>1, <2>2
<1>2. Domain(a, 12, size) = Domain(b, 12, size)
  BY DomainsAgree
<1> QED
  BY <1>1, <1>2 DEF extractQuery

---------------------------------------------------------------------------------
(* What is looked at and what has been found. *)

LEMMA PayloadIs ==
  ASSUME NEW b \in Seq(Byte), NEW size \in 0 .. Len(b), NEW tail \in Seq(Byte)
  PROVE  /\ Slice(b, 0, size) \in Seq(Byte) /\ Len(Slice(b, 0, size)) = size
         /\ Agree(Slice(b, 0, size), b, size)
         /\ Agree(Slice(b, 0, size) \o tail, Slice(b, 0, size), size)
<1> DEFINE p == Slice(b, 0, size)
           w == p \o tail
<1>1. size \in Nat
  OBVIOUS
<1>2. /\ p \in Seq(Byte) /\ Len(p) = size
      /\ \A k \in 1 .. size : p[k] = U8(b, k - 1)
  <2> DEFINE z == 0
  <2>0. z \in Nat /\ z <= size
    BY <1>1
  <2> HIDE DEF z
  <2>1. /\ p \in Seq(Byte) /\ Len(p) = size - 0
        /\ \A k \in 1 .. size - 0 : p[k] = U8(b, 0 + k - 1)
    <3> DEFINE s == Slice(b, z, size)
    <3>1. /\ s \in Seq(Byte) /\ Len(s) = size - z
          /\ \A k \in 1 .. size - z : s[k] = U8(b, z + k - 1)
      BY <1>1, <2>0, SliceIs
    <3> QED
      BY <3>1 DEF z
  <2> HIDE DEF p
  <2>2. size - 0 = size /\ \A k \in 1 .. size : 0 + k - 1 = k - 1
    BY <1>1
  <2> QED
    BY <2>1, <2>2
<1> HIDE DEF p
<1>3. \A o \in 0 .. size - 1 : U8(p, o) = U8(b, o)
  <2> TAKE o \in 0 .. size - 1
  <2>1. o + 1 \in 1 .. size /\ o < size /\ o + 1 - 1 = o
    OBVIOUS
  <2>2. p[o + 1] = U8(b, o + 1 - 1)
    BY <1>2, <2>1
  <2>3. U8(p, o) = p[o + 1]
    BY <1>2, <2>1 DEF U8
  <2> QED
    BY <2>1, <2>2, <2>3
<1>4. w \in Seq(Byte) /\ Len(w) >= size /\ \A k \in 1 .. size : w[k] = p[k]
  BY <1>2
<1> HIDE DEF w
<1>5. \A o \in 0 .. size - 1 : U8(w, o) = U8(p, o)
  <2> TAKE o \in 0 .. size - 1
  <2>1. o + 1 \in 1 .. size /\ o < Len(p) /\ o < Len(w)
    BY <1>2, <1>4
  <2> QED
    BY <1>4, <2>1 DEF U8
<1> QED
  BY <1>2, <1>3, <1>4, <1>5 DEF Agree, p, w

\* Every opinion is of the payload that was there in the beginning.
InspectionInv ==
  /\ message \in Messages
  /\ length \in Lengths(message)
  /\ behind \in Seq(Byte)
  /\ found \in [Engines -> SUBSET {Outcome(e, payload \o behind) : e \in Engines}]
  /\ \A e \in Engines : found[e] \subseteq {Outcome(e, payload \o behind)}

LEMMA LengthsAre ==
  ASSUME NEW m \in Messages, NEW size \in Lengths(m)
  PROVE  m.bytes \in Seq(Byte) /\ size \in 0 .. Len(m.bytes) /\ size \in Nat
<1>1. m.bytes \in Seq(Byte) /\ m.end \in 0 .. Len(m.bytes)
  BY MessagesAssumption DEF IsMessage
<1>2. Len(m.bytes) \in Nat
  BY <1>1
<1> QED
  BY <1>1, <1>2 DEF Lengths

LEMMA InspectionInvHolds == Spec => []InspectionInv
<1>1. Init => InspectionInv
  <2> SUFFICES ASSUME Init PROVE InspectionInv
    OBVIOUS
  <2>1. message \in Messages /\ length \in Lengths(message)
    BY DEF Init
  <2>2. /\ message.bytes \in Seq(Byte) /\ length \in Nat
        /\ Len(message.bytes) \in Nat /\ length <= Len(message.bytes)
    BY <2>1, LengthsAre
  <2>3. Slice(message.bytes, length, Len(message.bytes)) \in Seq(Byte)
    BY <2>2, SliceIs
  <2>4. behind \in Seq(Byte)
    BY <2>3, MessagesAssumption DEF Init
  <2>5. found \in [Engines -> SUBSET {Outcome(e, payload \o behind) : e \in Engines}]
    BY DEF Init
  <2>6. \A e \in Engines : found[e] = {}
    BY DEF Init
  <2> QED
    BY <2>1, <2>4, <2>5, <2>6 DEF InspectionInv
<1>2. InspectionInv /\ [Next]_vars => InspectionInv'
  <2> SUFFICES ASSUME InspectionInv, [Next]_vars PROVE InspectionInv'
    OBVIOUS
  <2> DEFINE w == payload \o behind
             O(g) == Outcome(g, w)
  <2>0. ASSUME UNCHANGED <<message, length, behind>>, NEW g \in Engines
        PROVE  O(g)' = O(g)
    <3>1. w' = w
      BY <2>0 DEF payload
    <3> HIDE DEF w
    <3> QED
      BY <2>0, <3>1 DEF Outcome, inspectPayload, classifyFlow, mainLoop, dst, dns_port, tcp,
        tryExtractSNI, tryExtractHTTPHost, PortApp
  <2>1. /\ message \in Messages /\ length \in Lengths(message) /\ behind \in Seq(Byte)
        /\ found \in [Engines -> SUBSET {O(g) : g \in Engines}]
        /\ \A g \in Engines : found[g] \subseteq {O(g)}
    BY DEF InspectionInv
  <2> HIDE DEF O
  <2>2. ASSUME UNCHANGED <<message, length, behind>>,
               found' \in [Engines -> SUBSET {O(g) : g \in Engines}],
               \A g \in Engines : found'[g] \subseteq {O(g)}
        PROVE  InspectionInv'
    <3>1. \A g \in Engines : O(g)' = O(g)
      BY <2>0, <2>2
    <3>2. {O(g)' : g \in Engines} = {O(g) : g \in Engines}
      BY <3>1
    <3>3. /\ found' \in [Engines -> SUBSET {O(g)' : g \in Engines}]
          /\ \A g \in Engines : found'[g] \subseteq {O(g)'}
      BY <2>2, <3>1, <3>2
    <3>4. (message \in Messages /\ length \in Lengths(message) /\ behind \in Seq(Byte))'
      BY <2>1, <2>2 DEF Lengths
    <3> QED
      BY <3>3, <3>4 DEF InspectionInv, O
  <2>3. ASSUME NEW e \in Engines, Look(e) PROVE InspectionInv'
    <3>1. UNCHANGED <<message, length, behind>> /\ found' = [found EXCEPT ![e] = {O(e)}]
      BY <2>3 DEF Look, O
    <3>2. /\ found' \in [Engines -> SUBSET {O(g) : g \in Engines}]
          /\ \A g \in Engines : found'[g] \subseteq {O(g)}
      BY <2>1, <3>1
    <3> QED
      BY <2>2, <3>1, <3>2
  <2>4. CASE UNCHANGED vars
    <3>1. UNCHANGED <<message, length, behind, found>>
      BY <2>4 DEF vars
    <3> QED
      BY <2>1, <2>2, <3>1
  <2> QED
    BY <2>3, <2>4 DEF Next
<1> QED
  BY <1>1, <1>2, PTL DEF Spec

LEMMA OutcomesAgree ==
  ASSUME NEW a, NEW b, length \in Nat, Agree(a, b, length), NEW e \in Engines
  PROVE  Outcome(e, a) = Outcome(e, b)
<1>1. /\ extractSNI(a, length) = extractSNI(b, length)
      /\ extractHost(a, length) = extractHost(b, length)
      /\ extractQuery(a, length) = extractQuery(b, length)
  BY SNIAgrees, HostsAgree, QueriesAgree
<1>2. inspectPayload(a) = inspectPayload(b)
  BY <1>1 DEF inspectPayload, tryExtractSNI, tryExtractHTTPHost
<1>3. classifyFlow(a) = classifyFlow(b)
  BY <1>1 DEF classifyFlow
<1>4. mainLoop(a) = mainLoop(b)
  BY <1>1 DEF mainLoop
<1> QED
  BY <1>2, <1>3, <1>4 DEF Outcome

\* The opinion is the one of the message cut to the length.
LEMMA FoundIs ==
  ASSUME InspectionInv, NEW e \in Engines
  PROVE  /\ found[e] \subseteq {Outcome(e, payload)}
         /\ found[e] \subseteq {Outcome(e, message.bytes)}
         /\ isTLSClientHello(payload, length) <=> isTLSClientHello(message.bytes, length)
<1> DEFINE b == message.bytes
           w == payload \o behind
<1>1. message \in Messages /\ length \in Lengths(message)
  BY DEF InspectionInv
<1>2. b \in Seq(Byte) /\ length \in 0 .. Len(b) /\ length \in Nat
  BY <1>1, LengthsAre
<1>3. behind \in Seq(Byte) /\ found[e] \subseteq {Outcome(e, w)}
  BY DEF InspectionInv
<1> HIDE DEF b
<1>4. payload = Slice(b, 0, length)
  BY DEF payload, b
<1>5. Agree(payload, b, length) /\ Agree(w, payload, length)
  BY <1>2, <1>3, <1>4, PayloadIs
<1> HIDE DEF w
<1>6. Outcome(e, w) = Outcome(e, payload)
  BY <1>2, <1>5, OutcomesAgree
<1>7. Outcome(e, payload) = Outcome(e, b)
  BY <1>2, <1>5, OutcomesAgree
<1>8. isTLSClientHello(payload, length) <=> isTLSClientHello(b, length)
  BY <1>2, <1>5, IsHelloAgrees
<1> QED
  BY <1>3, <1>6, <1>7, <1>8 DEF b

\* No byte behind the payload has a part in what an engine finds, whatever lengths
\* the payload claims for its records, extensions, lines and labels: all reads of
\* the three extractors of src/sni_extractor.cpp are within the payload, or do not
\* matter.
THEOREM PayloadOnly == Spec => []ReadsOnlyThePayload
<1>1. InspectionInv => ReadsOnlyThePayload
  BY FoundIs DEF ReadsOnlyThePayload
<1> QED
  BY <1>1, InspectionInvHolds, PTL

---------------------------------------------------------------------------------
(* The engines among each other. *)

\* No method has a "host:" that begins within it, so a request with a host is longer
\* than the self-contained engine asks.
LEMMA HostBehindMethod ==
  ASSUME NEW mem \in Seq(Byte), NEW size \in Nat, isHTTPRequest(mem, size),
         NEW i \in Nat, HostHeaderAt(mem, i)
  PROVE  i >= 4
<1> DEFINE z == 0
           s == Slice(mem, z, 4)
<1>1. z \in Nat /\ z <= 4 /\ 4 \in Nat
  OBVIOUS
<1>2. s \in methods
  BY DEF isHTTPRequest
<1> HIDE DEF z
<1>3. \A k \in 1 .. 4 - z : s[k] = U8(mem, z + k - 1)
  BY <1>1, SliceIs
<1> HIDE DEF s
<1>4. s[1] = U8(mem, 0) /\ s[2] = U8(mem, 1) /\ s[3] = U8(mem, 2) /\ s[4] = U8(mem, 3)
  BY <1>3 DEF z
<1>5. /\ s[1] \in {71, 80, 72, 68, 79}
      /\ s[1] = 72 => s[2] = 69
      /\ s[2] \in {69, 79, 85, 65, 80} /\ s[3] \in {84, 83, 65, 76}
      /\ s[4] \in {32, 84, 68, 69, 67, 73}
  BY <1>2 DEF methods
<1>6. U8(mem, i) \in {72, 104} /\ U8(mem, i + 1) \in {79, 111}
  BY DEF HostHeaderAt
<1>7. i # 0
  BY <1>4, <1>5, <1>6
<1>8. i # 1
  BY <1>4, <1>5, <1>6
<1>9. i # 2
  BY <1>4, <1>5, <1>6
<1>10. i # 3
  BY <1>4, <1>5, <1>6
<1> QED
  BY <1>7, <1>8, <1>9, <1>10

LEMMA LongEnough ==
  ASSUME NEW mem \in Seq(Byte), NEW size \in Nat
  PROVE  /\ extractSNI(mem, size) # {} => isTLSClientHello(mem, size) /\ size > 5
         /\ extractHost(mem, size) # {} => size > 10
<1>1. extractSNI(mem, size) # {} => isTLSClientHello(mem, size) /\ size > 5
  BY DEF extractSNI, isTLSClientHello
<1>2. extractHost(mem, size) # {} => size > 10
  <2> HAVE extractHost(mem, size) # {}
  <2>1. isHTTPRequest(mem, size) /\ HostHits(mem, size) # {}
    BY ExtractHostIs
  <2>2. PICK i \in 0 .. size - 7 : HostHeaderAt(mem, i)
    BY <2>1 DEF HostHits
  <2>3. i >= 4
    BY <2>1, <2>2, HostBehindMethod
  <2> QED
    BY <2>3
<1> QED
  BY <1>1, <1>2

LEMMA SomeApp ==
  ASSUME NEW name, name # <<>>
  PROVE  sniToAppType(name) # "UNKNOWN"
<1>1. Len(AppTable) = 17 /\ \A k \in 1 .. 17 : AppTable[k].app # "UNKNOWN"
  BY DEF AppTable, Entry
<1>2. Hits(name) \subseteq 1 .. 17
  BY <1>1 DEF Hits
<1> DEFINE T == Hits(name)
<1> HIDE DEF T
<1>3. sniToAppType(name) = IF T = {} THEN "HTTPS" ELSE AppTable[First(T)].app
  BY DEF sniToAppType, First, T
<1>4. T # {} => First(T) \in 1 .. 17
  <2>1. T \subseteq 1 .. 17 /\ T \subseteq Nat
    BY <1>2 DEF T
  <2> QED
    BY <2>1, FirstIs
<1> QED
  BY <1>1, <1>3, <1>4

\* What an engine finds behind the checks of its own: a name, or what the port says.
LEMMA OutcomeOfNames ==
  ASSUME NEW mem \in Seq(Byte), length \in Nat, length > 0, tcp, ~dns_port,
         dst = 443 \/ (dst = 80 /\ ~isTLSClientHello(mem, length))
  PROVE  \E names :
           /\ Outcome("modular", mem) = IF names # {} THEN Named(names) ELSE Unnamed(PortApp)
           /\ Outcome("multi_threaded", mem) =
                IF names # {} THEN Named(names) ELSE Unnamed(PortApp)
           /\ names # {} /\ Named(names).name # <<>> =>
                Outcome("single_threaded", mem) = Named(names)
           /\ names # {} /\ Named(names).name = <<>> =>
                Outcome("single_threaded", mem).name = <<>>
           /\ names = {} => Outcome("single_threaded", mem) = Unnamed(PortApp)
<1> DEFINE S == extractSNI(mem, length)
           H == extractHost(mem, length)
           names == IF dst = 443 THEN S ELSE H
<1>1. /\ S # {} => isTLSClientHello(mem, length) /\ length > 5
      /\ H # {} => length > 10
  BY LongEnough
<1>2. dst = 80 => S = {}
  BY <1>1
<1>3. tryExtractSNI(mem) = (IF dst = 443 \/ length >= 50 THEN S ELSE {})
      /\ tryExtractHTTPHost(mem) = (IF dst = 80 THEN H ELSE {})
  BY DEF tryExtractSNI, tryExtractHTTPHost
<1>4. /\ Outcome("modular", mem) = inspectPayload(mem)
      /\ Outcome("multi_threaded", mem) = classifyFlow(mem)
      /\ Outcome("single_threaded", mem) = mainLoop(mem)
  BY DEF Outcome
<1>5. inspectPayload(mem) =
        LET sni  == tryExtractSNI(mem)
            host == tryExtractHTTPHost(mem)
        IN  IF sni # {} THEN Named(sni) ELSE IF host # {} THEN Named(host) ELSE Unnamed(PortApp)
  BY DEF inspectPayload
<1>6. classifyFlow(mem) =
        LET sni  == IF dst = 443 /\ length > 5 THEN S ELSE {}
            host == IF dst = 80 /\ length > 10 THEN H ELSE {}
        IN  IF sni # {} THEN Named(sni) ELSE IF host # {} THEN Named(host) ELSE Unnamed(PortApp)
  BY DEF classifyFlow, LongEnoughForHello, LongEnoughForRequest
<1> DEFINE sni3 == IF dst = 443 /\ length > 5 THEN S ELSE {}
           host3 == IF dst = 80 THEN H ELSE {}
           both == sni3 \cup host3
           flow(s) == IF s # {} THEN Named(s) ELSE Unnamed("UNKNOWN")
<1>7. mainLoop(mem) =
        IF flow(both).app # "UNKNOWN" THEN flow(both) ELSE [flow(both) EXCEPT !.app = PortApp]
  BY DEF mainLoop
<1> HIDE DEF S, H
<1>8. both = names
  BY <1>1
<1>9. \A s : /\ Named(s).name = <<>> => Named(s) = [app |-> "UNKNOWN", name |-> <<>>]
             /\ Named(s).name # <<>> => Named(s).app # "UNKNOWN"
  <2> TAKE s
  <2> DEFINE n == CHOOSE n \in s : TRUE
  <2>1. Named(s) = [app |-> sniToAppType(n), name |-> n]
    BY DEF Named
  <2> HIDE DEF n
  <2>2. sniToAppType(<<>>) = "UNKNOWN"
    BY DEF sniToAppType
  <2>3. n # <<>> => sniToAppType(n) # "UNKNOWN"
    BY SomeApp
  <2> QED
    BY <2>1, <2>2, <2>3
<1>10. inspectPayload(mem) = IF names # {} THEN Named(names) ELSE Unnamed(PortApp)
  BY <1>2, <1>3, <1>5
<1>11. classifyFlow(mem) = IF names # {} THEN Named(names) ELSE Unnamed(PortApp)
  BY <1>1, <1>6
<1> HIDE DEF both, names
<1>12. mainLoop(mem) =
         IF flow(names).app # "UNKNOWN" THEN flow(names)
         ELSE [flow(names) EXCEPT !.app = PortApp]
  BY <1>7, <1>8
<1>13. /\ names # {} /\ Named(names).name # <<>> => mainLoop(mem) = Named(names)
       /\ names # {} /\ Named(names).name = <<>> => mainLoop(mem).name = <<>>
       /\ names = {} => mainLoop(mem) = Unnamed(PortApp)
  <2>1. CASE names = {}
    BY <1>12, <2>1 DEF Unnamed
  <2>2. CASE names # {} /\ Named(names).name # <<>>
    BY <1>9, <1>12, <2>2
  <2>3. CASE names # {} /\ Named(names).name = <<>>
    BY <1>9, <1>12, <2>3
  <2> QED
    BY <2>1, <2>2, <2>3
<1> QED
  BY <1>4, <1>10, <1>11, <1>13

\* On ports 80 and 443 the checks each engine has before it calls an extractor hide
\* no name that another engine finds: all three come to the same opinion, except of
\* an empty name.
THEOREM SameOpinion == Spec => []EnginesAgree
<1>1. InspectionInv => EnginesAgree
  <2> SUFFICES ASSUME InspectionInv, tcp, length > 0, ~dns_port,
                      dst = 443 \/ (dst = 80 /\ ~isTLSClientHello(payload, length)),
                      NEW e \in Engines, NEW f \in Engines, NEW o \in found[e], NEW p \in found[f]
               PROVE  o = p \/ (o.name = <<>> /\ "single_threaded" \in {e, f})
    BY DEF EnginesAgree
  <2>1. message \in Messages /\ length \in Lengths(message)
    BY DEF InspectionInv
  <2>2. /\ message.bytes \in Seq(Byte) /\ length \in 0 .. Len(message.bytes)
        /\ length \in Nat
    BY <2>1, LengthsAre
  <2>3. payload \in Seq(Byte)
    BY <2>2, SliceIs DEF payload
  <2>4. o = Outcome(e, payload) /\ p = Outcome(f, payload)
    BY FoundIs
  <2>5. PICK names :
          /\ Outcome("modular", payload) = IF names # {} THEN Named(names) ELSE Unnamed(PortApp)
          /\ Outcome("multi_threaded", payload) =
               IF names # {} THEN Named(names) ELSE Unnamed(PortApp)
          /\ names # {} /\ Named(names).name # <<>> =>
               Outcome("single_threaded", payload) = Named(names)
          /\ names # {} /\ Named(names).name = <<>> =>
               Outcome("single_threaded", payload).name = <<>>
          /\ names = {} => Outcome("single_threaded", payload) = Unnamed(PortApp)
    BY <2>2, <2>3, OutcomeOfNames
  <2>6. e \in {"modular", "multi_threaded", "single_threaded"}
        /\ f \in {"modular", "multi_threaded", "single_threaded"}
    BY DEF Engines
  <2>7. CASE names = {}
    BY <2>4, <2>5, <2>6, <2>7
  <2>8. CASE names # {} /\ Named(names).name # <<>>
    BY <2>4, <2>5, <2>6, <2>8
  <2>9. CASE names # {} /\ Named(names).name = <<>>
    BY <2>4, <2>5, <2>6, <2>9
  <2> QED
    BY <2>7, <2>8, <2>9
<1> QED
  BY <1>1, InspectionInvHolds, PTL

---------------------------------------------------------------------------------
(* What the messages are named after. *)

TheName(names) == IF names = {} THEN <<>> ELSE CHOOSE n \in names : TRUE

\* To and from other ports than 53 a name comes from one extractor, on the ports of
\* the web from the one for the port.
LEMMA NameIsFrom ==
  ASSUME NEW mem \in Seq(Byte), length \in Nat, ~dns_port, NEW e \in Engines
  PROVE  \E names \in {{}, extractSNI(mem, length), extractHost(mem, length)} :
           /\ Outcome(e, mem).name = TheName(names)
           /\ tcp /\ dst = 443 => names = extractSNI(mem, length)
           /\ tcp /\ dst = 80 /\ extractSNI(mem, length) = {} => names = extractHost(mem, length)
<1> DEFINE S == extractSNI(mem, length)
           H == extractHost(mem, length)
           Found(name) == \E names \in {{}, S, H} :
                            /\ name = TheName(names)
                            /\ tcp /\ dst = 443 => names = S
                            /\ tcp /\ dst = 80 /\ S = {} => names = H
<1>1. (S # {} => length > 5) /\ (H # {} => length > 10)
  BY LongEnough
<1>2. /\ \A app : Unnamed(app).name = <<>> /\ TheName({}) = <<>>
      /\ \A s : s # {} => Named(s).name = TheName(s)
      /\ \A s, app : [Named(s) EXCEPT !.app = app].name = Named(s).name
  BY DEF Unnamed, Named, TheName
<1>3. Found(inspectPayload(mem).name)
  <2> DEFINE sni == IF dst = 443 \/ length >= 50 THEN S ELSE {}
             host == IF dst = 80 THEN H ELSE {}
  <2>1. inspectPayload(mem) =
          IF length = 0 THEN Unnamed("UNKNOWN")
          ELSE IF sni # {} THEN Named(sni)
          ELSE IF host # {} THEN Named(host)
          ELSE Unnamed(PortApp)
    BY DEF inspectPayload, tryExtractSNI, tryExtractHTTPHost
  <2> HIDE DEF S, H
  <2>2. CASE length = 0
    <3>1. S = {} /\ H = {}
      BY <1>1, <2>2
    <3> QED
      BY <1>2, <2>1, <2>2, <3>1
  <2>3. CASE length # 0 /\ sni # {}
    <3>1. sni = S /\ S # {} /\ inspectPayload(mem).name = TheName(S)
      BY <1>2, <2>1, <2>3
    <3> QED
      BY <3>1
  <2>4. CASE length # 0 /\ sni = {} /\ host # {}
    <3>1. host = H /\ H # {} /\ dst = 80 /\ inspectPayload(mem).name = TheName(H)
      BY <1>2, <2>1, <2>4
    <3> QED
      BY <3>1
  <2>5. CASE length # 0 /\ sni = {} /\ host = {}
    <3>1. inspectPayload(mem).name = TheName({})
      BY <1>2, <2>1, <2>5
    <3>2. (dst = 443 => S = {}) /\ (dst = 80 => H = {})
      BY <2>5
    <3> QED
      BY <3>1, <3>2
  <2> QED
    BY <2>2, <2>3, <2>4, <2>5
<1>4. Found(classifyFlow(mem).name)
  <2> DEFINE sni == IF dst = 443 /\ length > 5 THEN S ELSE {}
             host == IF dst = 80 /\ length > 10 THEN H ELSE {}
  <2>1. classifyFlow(mem) =
          IF sni # {} THEN Named(sni)
          ELSE IF host # {} THEN Named(host)
          ELSE Unnamed(PortApp)
    BY DEF classifyFlow, LongEnoughForHello, LongEnoughForRequest
  <2> HIDE DEF S, H
  <2>2. CASE sni # {}
    <3>1. sni = S /\ dst = 443 /\ classifyFlow(mem).name = TheName(S)
      BY <1>2, <2>1, <2>2
    <3> QED
      BY <3>1
  <2>3. CASE sni = {} /\ host # {}
    <3>1. host = H /\ dst = 80 /\ classifyFlow(mem).name = TheName(H)
      BY <1>2, <2>1, <2>3
    <3> QED
      BY <3>1
  <2>4. CASE sni = {} /\ host = {}
    <3>1. classifyFlow(mem).name = TheName({})
      BY <1>2, <2>1, <2>4
    <3>2. (dst = 443 => S = {}) /\ (dst = 80 => H = {})
      BY <1>1, <2>4
    <3> QED
      BY <3>1, <3>2
  <2> QED
    BY <2>2, <2>3, <2>4
<1>5. Found(mainLoop(mem).name)
  <2> DEFINE sni == IF tcp /\ dst = 443 /\ length > 5 THEN S ELSE {}
             host == IF tcp /\ dst = 80 /\ length > 0 THEN H ELSE {}
             both == sni \cup host
             flow == IF both # {} THEN Named(both) ELSE Unnamed("UNKNOWN")
  <2>1. mainLoop(mem) = IF flow.app # "UNKNOWN" THEN flow ELSE [flow EXCEPT !.app = PortApp]
    BY DEF mainLoop
  <2> HIDE DEF S, H
  <2>2. both \in {{}, S, H} /\ (tcp /\ dst = 443 => both = S) /\ (tcp /\ dst = 80 => both = H)
    <3>1. CASE tcp /\ dst = 443
      BY <1>1, <3>1
    <3>2. CASE tcp /\ dst = 80
      BY <1>1, <3>2
    <3>3. CASE ~(tcp /\ dst = 443) /\ ~(tcp /\ dst = 80)
      BY <3>3
    <3> QED
      BY <3>1, <3>2, <3>3
  <2> HIDE DEF both
  <2>3. mainLoop(mem).name = TheName(both)
    <3>1. CASE both # {}
      BY <1>2, <2>1, <3>1
    <3>2. CASE both = {}
      BY <1>2, <2>1, <3>2 DEF Unnamed
    <3> QED
      BY <3>1, <3>2
  <2> QED
    BY <2>2, <2>3
<1> HIDE DEF Found
<1>6. Found(Outcome(e, mem).name)
  BY <1>3, <1>4, <1>5 DEF Outcome, Engines
<1> QED
  BY <1>6 DEF Found

LEMMA GreatestNumber ==
  ASSUME NEW T, NEW n \in Nat, T \subseteq 0 .. n, T # {}
  PROVE  \E m \in T : \A k \in T : k <= m
<1> DEFINE U == {n - k : k \in T}
<1>0. \A k \in T : k \in 0 .. n /\ n - k \in Nat
  OBVIOUS
<1>1. U \subseteq Nat /\ U # {}
  <2> HIDE DEF U
  <2>1. \A u \in U : \E k \in T : u = n - k
    BY DEF U
  <2>2. \A k \in T : n - k \in U
    BY DEF U
  <2> QED
    BY <1>0, <2>1, <2>2
<1> HIDE DEF U
<1>2. PICK u \in U : \A v \in U : u <= v
  BY <1>1, LeastNumber
<1>3. PICK m \in T : u = n - m
  BY <1>2 DEF U
<1>4. \A k \in T : n - m <= n - k
  BY <1>2, <1>3 DEF U
<1>5. \A k \in T : k <= m
  BY <1>0, <1>4
<1> QED
  BY <1>5

\* What stands there is what is cut out.
LEMMA StandsIs ==
  ASSUME NEW mem \in Seq(Byte), NEW o \in Nat, NEW text \in Seq(Byte), Stands(mem, o, text)
  PROVE  Slice(mem, o, o + Len(text)) = text
<1> DEFINE t == o + Len(text)
           s == Slice(mem, o, t)
<1>1. t \in Nat /\ o <= t /\ t - o = Len(text)
  OBVIOUS
<1> HIDE DEF t
<1>2. /\ s \in Seq(Byte) /\ Len(s) = t - o
      /\ \A k \in 1 .. t - o : s[k] = U8(mem, o + k - 1)
  BY <1>1, SliceIs
<1> HIDE DEF s
<1>3. \A k \in 1 .. Len(text) : U8(mem, o + k - 1) = text[k]
  BY DEF Stands
<1>4. Len(s) = Len(text) /\ \A k \in 1 .. Len(s) : s[k] = text[k]
  BY <1>1, <1>2, <1>3
<1>5. s = text
  BY <1>2, <1>4, SameSeq
<1> QED
  BY <1>5 DEF s, t

\* From extension to extension: the name of the hello is the only one that can be found,
\* and it is found when nothing is cut.
LEMMA InHelloExtensions ==
  ASSUME NEW m, IsMessage(m), IsHello(m), NEW size \in 0 .. Len(m.bytes),
         m.parts[5] <= size
  PROVE  /\ InExtensions(m.bytes, m.parts[5], size) \in {{}, {m.host}}
         /\ size = Len(m.bytes) =>
              \/ InExtensions(m.bytes, m.parts[5], size) = {m.host}
              \/ InExtensions(m.bytes, m.parts[5], size) = {} /\ m.host = <<>>
<1> DEFINE b == m.bytes
           p == m.parts
           n == Len(p)
           names == {k \in 5 .. n - 1 : U16(b, p[k]) = 0}
<1>1. b \in Seq(Byte) /\ m.host \in Seq(Byte) /\ p \in Seq(0 .. Len(b))
  BY DEF IsMessage
<1>2. /\ n >= 5 /\ p[n] = Len(b)
      /\ \A k \in 5 .. n - 1 : p[k + 1] = p[k] + 4 + U16(b, p[k] + 2)
      /\ names = {} => m.host = <<>>
      /\ \A k \in names : (\A j \in names : k <= j) =>
           ServerNameAt(b, p[k] + 4, U16(b, p[k] + 2), m.host)
  <2>1. n >= 5 /\ p[n] = Len(b)
    BY DEF IsHello
  <2>2. \A k \in 5 .. n - 1 : p[k + 1] = p[k] + 4 + U16(b, p[k] + 2)
    BY DEF IsHello
  <2>3. names = {} => m.host = <<>>
    BY DEF IsHello
  <2>4. \A k \in names : (\A j \in names : k <= j) =>
          ServerNameAt(b, p[k] + 4, U16(b, p[k] + 2), m.host)
    BY DEF IsHello
  <2> QED
    BY <2>1, <2>2, <2>3, <2>4
<1> HIDE DEF p, b, n
<1>3. n \in Nat /\ n = Len(p)
  BY <1>1 DEF n
<1>4. \A k \in 1 .. n : p[k] \in Nat /\ p[k] <= Len(b)
  BY <1>1, <1>3
<1>5. size \in Nat /\ Len(b) \in Nat /\ size <= Len(b) /\ p[5] <= size
  BY <1>1 DEF b, p
<1>6. p[5] \in Nat
  BY <1>2, <1>3, <1>4
<1>7. PICK f : Walks(b, p[5], size, f) /\ InExtensions(b, p[5], size) = f[p[5]]
  BY <1>1, <1>5, <1>6, InExtensionsWalks
<1>8. \A o \in p[5] .. size : f[o] = ExtensionAt(b, size, f, o)
  BY <1>7 DEF Walks
<1> HIDE DEF names
<1> DEFINE Right(s) == /\ s \in {{}, {m.host}}
                       /\ size = Len(b) => s = IF names = {} THEN {} ELSE {m.host}
           P(k) == p[5] <= p[k] /\ p[k] <= size /\ (\A j \in names : k <= j) => Right(f[p[k]])
           Fails == {k \in 5 .. n : ~P(k)}
<1>9. P(n)
  <2> SUFFICES ASSUME p[5] <= p[n], p[n] <= size, \A j \in names : n <= j
               PROVE  Right(f[p[n]])
    OBVIOUS
  <2>1. p[n] = size /\ p[n] \in p[5] .. size
    BY <1>2, <1>3, <1>4, <1>5, <1>6
  <2>2. f[p[n]] = {}
    BY <1>8, <2>1, <1>5 DEF ExtensionAt
  <2>3. names = {}
    BY <1>3 DEF names
  <2> QED
    BY <2>2, <2>3
<1>10. ASSUME NEW k \in 5 .. n - 1, P(k + 1) PROVE P(k)
  <2> SUFFICES ASSUME p[5] <= p[k], p[k] <= size, \A j \in names : k <= j
               PROVE  Right(f[p[k]])
    OBVIOUS
  <2> DEFINE o == p[k]
             w == U16(b, o + 2)
  <2>1. k \in 1 .. n /\ k + 1 \in 1 .. n
    BY <1>3
  <2>2. o \in Nat /\ o \in p[5] .. size /\ o + 2 \in Nat
    BY <1>4, <1>5, <1>6, <2>1
  <2>3. f[o] = ExtensionAt(b, size, f, o)
    BY <1>8, <2>2
  <2>4. p[k + 1] = o + 4 + w /\ p[k + 1] <= Len(b)
    BY <1>2, <1>4, <2>1
  <2> HIDE DEF o
  <2>5. w \in Nat
    BY <1>1, <2>2, Numbers
  <2> HIDE DEF w
  <2>6. f[o] = IF o + 4 > size \/ o + 4 + w > size THEN {}
               ELSE IF U16(b, o) = 0 THEN HostName(b, o + 4, w) ELSE f[o + 4 + w]
    BY <2>3 DEF ExtensionAt, w, EXTENSION_SNI
  <2>7. CASE o + 4 > size \/ o + 4 + w > size
    <3>1. size # Len(b)
      BY <1>5, <2>2, <2>4, <2>5, <2>7
    <3> QED
      BY <2>6, <2>7, <3>1 DEF o
  <2>8. CASE ~(o + 4 > size \/ o + 4 + w > size) /\ U16(b, o) = 0
    <3> DEFINE q == o + 4
               l == Len(m.host)
    <3>1. k \in names
      BY <2>8 DEF names, o
    <3>2. ServerNameAt(b, q, w, m.host)
      BY <1>2, <3>1 DEF o, w
    <3>3. q \in Nat /\ q + 5 \in Nat /\ l \in Nat
      BY <1>1, <2>2
    <3>4. Slice(b, q + 5, q + 5 + l) = m.host
      BY <1>1, <3>2, <3>3, StandsIs DEF ServerNameAt
    <3>5. /\ w = 2 + U16(b, q) /\ w >= 5 + l
          /\ U8(b, q + 2) = 0 /\ U16(b, q + 3) = l
      BY <3>2 DEF ServerNameAt
    <3>6. U16(b, q) \in Nat
      BY <1>1, <3>3, Numbers
    <3> HIDE DEF q, l
    <3>7. w >= 5 /\ U16(b, q) >= 3 /\ l <= w - 5
      BY <2>5, <3>3, <3>5, <3>6
    <3>8. HostName(b, q, w) = {m.host}
      BY <3>4, <3>5, <3>7 DEF HostName, SNI_TYPE_HOSTNAME
    <3>9. f[o] = {m.host}
      BY <2>6, <2>8, <3>8 DEF q
    <3> QED
      BY <3>1, <3>9 DEF o
  <2>9. CASE ~(o + 4 > size \/ o + 4 + w > size) /\ U16(b, o) # 0
    <3>1. k \notin names
      BY <2>9 DEF names, o
    <3>2. \A j \in names : k + 1 <= j
      BY <1>3, <3>1 DEF names
    <3>3. p[5] <= p[k + 1] /\ p[k + 1] <= size
      BY <1>5, <1>6, <2>2, <2>4, <2>5, <2>9
    <3>4. Right(f[p[k + 1]])
      BY <1>10, <3>2, <3>3
    <3>5. f[o] = f[p[k + 1]]
      BY <2>4, <2>6, <2>9
    <3> QED
      BY <3>4, <3>5 DEF o
  <2> QED
    BY <2>7, <2>8, <2>9
<1>11. P(5)
  <2> HIDE DEF P
  <2> SUFFICES ASSUME ~P(5) PROVE FALSE
    OBVIOUS
  <2>1. Fails \subseteq 0 .. n /\ Fails # {}
    BY <1>2, <1>3
  <2>2. PICK k \in Fails : \A j \in Fails : j <= k
    BY <1>3, <2>1, GreatestNumber
  <2>3. k \in 5 .. n - 1 /\ ~P(k)
    BY <1>2, <1>3, <1>9, <2>2
  <2>4. k + 1 \in 5 .. n /\ k + 1 \notin Fails
    BY <1>3, <2>2, <2>3
  <2> QED
    BY <1>10, <2>3, <2>4
<1>12. \A j \in names : 5 <= j
  BY <1>3 DEF names
<1>13. Right(f[p[5]])
  BY <1>5, <1>6, <1>11, <1>12
<1>14. names = {} => m.host = <<>>
  BY <1>2 DEF names
<1> QED
  BY <1>7, <1>13, <1>14 DEF b, p

\* A hello is named as it should be or not at all, and it is named when it is whole.
LEMMA HelloNamed ==
  ASSUME NEW m, IsMessage(m), IsHello(m), NEW size \in 0 .. Len(m.bytes)
  PROVE  /\ extractSNI(m.bytes, size) \in {{}, {m.host}}
         /\ size = Len(m.bytes) /\ m.end = Len(m.bytes) =>
              \/ extractSNI(m.bytes, size) = {m.host}
              \/ extractSNI(m.bytes, size) = {} /\ m.host = <<>>
         /\ extractHost(m.bytes, size) = {}
<1> DEFINE b == m.bytes
           p == m.parts
           n == Len(p)
<1>1. b \in Seq(Byte) /\ p \in Seq(0 .. Len(b)) /\ m.end \in 0 .. Len(b) /\ size \in Nat
      /\ Len(b) \in Nat /\ size <= Len(b)
  BY DEF IsMessage
<1>2. /\ U8(b, 0) = 22 /\ U16(b, 1) \in 768 .. 772 /\ U16(b, 3) = m.end - 5 /\ U8(b, 5) = 1
      /\ n >= 5
      /\ p[1] = 43
      /\ p[2] = p[1] + 1 + U8(b, p[1])
      /\ p[3] = p[2] + 2 + U16(b, p[2])
      /\ p[4] = p[3] + 1 + U8(b, p[3])
      /\ p[5] = p[4] + 2
      /\ p[n] = p[5] + U16(b, p[4]) /\ p[n] = Len(b)
  BY DEF IsHello
<1>3. p[1] \in Nat /\ p[2] \in Nat /\ p[3] \in Nat /\ p[4] \in Nat /\ p[5] \in 0 .. Len(b)
  <2>0. n = Len(p) /\ n \in Nat
    BY <1>1
  <2> HIDE DEF b, p, n
  <2>1. \A k \in 1 .. n : p[k] \in 0 .. Len(b)
    BY <1>1, <2>0
  <2>2. n >= 5
    BY <1>2
  <2>3. p[1] \in 0 .. Len(b) /\ p[2] \in 0 .. Len(b) /\ p[3] \in 0 .. Len(b)
    BY <2>0, <2>1, <2>2
  <2>4. p[4] \in 0 .. Len(b) /\ p[5] \in 0 .. Len(b)
    BY <2>0, <2>1, <2>2
  <2>5. \A x \in 0 .. Len(b) : x \in Nat
    BY <1>1
  <2> QED
    BY <2>3, <2>4, <2>5
<1> HIDE DEF b, p, n
<1>4. ciphers(b) = p[2] /\ compression(b) = p[3] /\ extensions(b) = p[4]
  BY <1>2 DEF ciphers, compression, extensions, session
<1>5. /\ U8(b, p[1]) \in Nat /\ U16(b, p[2]) \in Nat /\ U8(b, p[3]) \in Nat
      /\ U16(b, p[4]) \in Nat
  BY <1>1, <1>3, Numbers
<1>6. ReachesExtensions(b, size) => p[5] <= size
  BY <1>2, <1>4 DEF ReachesExtensions
<1>7. p[5] <= size => ReachesExtensions(b, size) /\ size >= 9
  <2> HAVE p[5] <= size
  <2>1. 43 < size /\ p[2] + 2 <= size /\ p[3] < size /\ p[4] + 2 <= size
    <3>1. size \in Nat /\ p[5] \in Nat
      BY <1>1, <1>3
    <3>2. p[4] + 2 <= size
      BY <1>2, <3>1
    <3>3. p[3] < size
      <4> DEFINE v == U8(b, p[3])
      <4>1. p[4] = p[3] + 1 + v /\ p[3] \in Nat /\ v \in Nat
        BY <1>2, <1>3, <1>5
      <4> HIDE DEF v
      <4> QED
        BY <3>1, <3>2, <4>1
    <3>4. p[2] + 2 <= size
      <4> DEFINE v == U16(b, p[2])
      <4>1. p[3] = p[2] + 2 + v /\ p[2] \in Nat /\ v \in Nat
        BY <1>2, <1>3, <1>5
      <4> HIDE DEF v
      <4> QED
        BY <3>1, <3>3, <4>1
    <3>5. 43 < size
      <4> DEFINE v == U8(b, p[1])
      <4>1. p[2] = 43 + 1 + v /\ v \in Nat
        BY <1>2, <1>5
      <4> HIDE DEF v
      <4> QED
        BY <3>1, <3>4, <4>1
    <3> QED
      BY <3>2, <3>3, <3>4, <3>5
  <2> QED
    BY <1>1, <1>4, <2>1 DEF ReachesExtensions, session
<1>8. extractSNI(b, size) = IF isTLSClientHello(b, size) /\ p[5] <= size
                              THEN InExtensions(b, p[5], size) ELSE {}
  <2>1. extensions(b) + 2 = p[5] /\ p[5] + U16(b, extensions(b)) = Len(b)
    BY <1>2, <1>4
  <2>2. (IF Len(b) > size THEN size ELSE Len(b)) = size
    BY <1>1
  <2> QED
    BY <1>6, <1>7, <2>1, <2>2 DEF extractSNI
<1>9. p[5] <= size =>
        /\ InExtensions(b, p[5], size) \in {{}, {m.host}}
        /\ size = Len(b) => \/ InExtensions(b, p[5], size) = {m.host}
                            \/ InExtensions(b, p[5], size) = {} /\ m.host = <<>>
  BY InHelloExtensions DEF b, p
<1>10. size = Len(b) /\ m.end = Len(b) => isTLSClientHello(b, size) /\ p[5] <= size
  <2> HAVE size = Len(b) /\ m.end = Len(b)
  <2>1. p[5] <= size
    BY <1>1, <1>3
  <2>2. size >= 9
    BY <1>7, <2>1
  <2> QED
    BY <1>1, <1>2, <2>1, <2>2 DEF isTLSClientHello, CONTENT_TYPE_HANDSHAKE, HANDSHAKE_CLIENT_HELLO
<1>11. extractHost(b, size) = {}
  <2>1. ~isHTTPRequest(b, size)
    <3> SUFFICES ASSUME Slice(b, 0, 4) \in methods PROVE FALSE
      BY DEF isHTTPRequest
    <3> DEFINE z == 0
               s == Slice(b, z, 4)
    <3>1. z \in Nat /\ z <= 4 /\ 4 \in Nat
      OBVIOUS
    <3> HIDE DEF z
    <3>2. \A k \in 1 .. 4 - z : s[k] = U8(b, z + k - 1)
      BY <1>1, <3>1, SliceIs
    <3>3. s \in methods
      BY DEF z
    <3> HIDE DEF s
    <3>4. s[1] = 22
      BY <1>2, <3>2 DEF z
    <3> QED
      BY <3>3, <3>4 DEF methods
  <2> QED
    BY <2>1 DEF extractHost
<1>12. extractSNI(b, size) \in {{}, {m.host}}
  BY <1>8, <1>9
<1>13. size = Len(b) /\ m.end = Len(b) =>
         extractSNI(b, size) = {m.host} \/ (extractSNI(b, size) = {} /\ m.host = <<>>)
  BY <1>8, <1>9, <1>10
<1> QED
  BY <1>11, <1>12, <1>13 DEF b

\* Wherever a ClientHello is cut, and when it goes on in a second record, the name it
\* is given is the one in its first server_name extension or none, and a whole one
\* is given it by every engine that looks.
THEOREM HelloNames == Spec => []HelloNeverMisnamed
<1>1. InspectionInv => HelloNeverMisnamed
  <2> SUFFICES ASSUME InspectionInv, message.kind \in {"hello", "split"}, ~dns_port,
                      NEW e \in Engines, NEW o \in found[e]
               PROVE  /\ o.name \in {<<>>, message.host}
                      /\ (message.kind = "hello" /\ tcp /\ dst = 443 /\ length = Len(message.bytes))
                           => o.name = message.host
    BY DEF HelloNeverMisnamed
  <2> DEFINE b == message.bytes
             S == extractSNI(b, length)
  <2>1. message \in Messages /\ length \in Lengths(message)
    BY DEF InspectionInv
  <2>2. b \in Seq(Byte) /\ length \in 0 .. Len(b) /\ length \in Nat
    BY <2>1, LengthsAre
  <2>3. IsMessage(message) /\ IsHello(message) /\ (message.kind = "hello" => message.end = Len(b))
    BY <2>1, MessagesAssumption
  <2>4. o = Outcome(e, b)
    BY FoundIs
  <2>5. PICK names \in {{}, S, extractHost(b, length)} :
          /\ Outcome(e, b).name = TheName(names)
          /\ tcp /\ dst = 443 => names = S
    BY <2>2, NameIsFrom
  <2>6. /\ S \in {{}, {message.host}} /\ extractHost(b, length) = {}
        /\ length = Len(b) /\ message.end = Len(b) =>
             S = {message.host} \/ (S = {} /\ message.host = <<>>)
    BY <2>2, <2>3, HelloNamed
  <2> HIDE DEF b, S
  <2>7. TheName({}) = <<>> /\ TheName({message.host}) = message.host
    BY DEF TheName
  <2>8. names = {} \/ names = {message.host}
    BY <2>5, <2>6
  <2>9. o.name \in {<<>>, message.host}
    BY <2>4, <2>5, <2>7, <2>8
  <2>10. ASSUME message.kind = "hello", tcp, dst = 443, length = Len(b)
         PROVE  o.name = message.host
    <3>1. names = S /\ message.end = Len(b)
      BY <2>3, <2>5, <2>10
    <3>2. S = {message.host} \/ (S = {} /\ message.host = <<>>)
      BY <2>6, <2>10, <3>1
    <3> QED
      BY <2>4, <2>5, <2>7, <3>1, <3>2
  <2> QED
    BY <2>9, <2>10 DEF b
<1> QED
  BY <1>1, InspectionInvHolds, PTL

\* The labels of a query stand one behind the other.
LEMMA LabelsInOrder ==
  ASSUME NEW m, IsMessage(m), IsQuery(m), NEW i \in 1 .. Len(m.parts), NEW j \in 1 .. Len(m.parts),
         i < j
  PROVE  m.parts[i] < m.parts[j]
<1> DEFINE b == m.bytes
           p == m.parts
           n == Len(p)
<1>1. b \in Seq(Byte) /\ p \in Seq(0 .. Len(b)) /\ Len(b) \in Nat
  BY DEF IsMessage
<1>2. \A k \in 1 .. n - 1 : U8(b, p[k]) \in 1 .. 63
  BY DEF IsQuery
<1>3. \A k \in 1 .. n - 1 : p[k + 1] = p[k] + 1 + U8(b, p[k])
  BY DEF IsQuery
<1>4. n \in Nat /\ \A k \in 1 .. n : p[k] \in Nat
  <2>1. \A k \in 1 .. n : p[k] \in 0 .. Len(b)
    BY <1>1, ElementOfSeq
  <2>2. n \in Nat /\ \A x \in 0 .. Len(b) : x \in Nat
    BY <1>1
  <2> QED
    BY <2>1, <2>2
<1>5. i \in 1 .. n
  OBVIOUS
<1> HIDE DEF b, p, n
<1>7. \A k \in 1 .. n - 1 : p[k] < p[k + 1]
  <2> TAKE k \in 1 .. n - 1
  <2> DEFINE v == U8(b, p[k])
  <2>1. p[k + 1] = p[k] + 1 + v /\ v \in 1 .. 63
    BY <1>2, <1>3
  <2> HIDE DEF v
  <2> DEFINE o == p[k]
             next == p[k + 1]
  <2>2. o \in Nat /\ next = o + 1 + v
    BY <1>4, <2>1
  <2>3. v \in Nat
    BY <2>1
  <2> HIDE DEF o, next
  <2>4. o < next
    BY <2>2, <2>3
  <2> QED
    BY <2>4 DEF o, next
<1>8. \A k \in 1 .. n : i < k => p[i] < p[k]
  <2> DEFINE T == {k \in 1 .. n : i < k /\ ~(p[i] < p[k])}
  <2> SUFFICES ASSUME T # {} PROVE FALSE
    OBVIOUS
  <2>1. T \subseteq Nat
    BY <1>4
  <2>2. PICK k \in T : \A q \in T : k <= q
    BY <2>1, LeastNumber
  <2>3. k \in 1 .. n /\ i < k /\ ~(p[i] < p[k]) /\ k - 1 \in 1 .. n - 1 /\ k - 1 \in 1 .. n
    BY <1>4, <2>2
  <2>4. k - 1 \notin T
    BY <2>2, <2>3
  <2>5. p[k - 1] < p[k - 1 + 1] /\ k - 1 + 1 = k
    BY <1>4, <1>7, <2>3
  <2>6. p[i] <= p[k - 1]
    BY <1>4, <1>5, <2>3, <2>4
  <2> QED
    BY <1>4, <1>5, <2>3, <2>5, <2>6
<1> QED
  BY <1>8 DEF n, p

\* The name of a query, spelled from one label to the next.
LEMMA QuerySpelled ==
  ASSUME NEW m, IsMessage(m), IsQuery(m), NEW size \in 12 .. Len(m.bytes),
         U8(m.bytes, 2) < 128, U16(m.bytes, 4) # 0, Len(m.parts) > 1
  PROVE  \E k \in 1 .. Len(m.parts) :
           LET p == m.parts
               name == Domain(m.bytes, 12, size)
           IN  /\ size >= p[Len(p)] => k = Len(p)
               /\ k = 1 => name = <<>>
               /\ k > 1 => /\ name \in Seq(Byte)
                           /\ Len(name) = p[k] - 13 /\ Len(name) <= Len(m.host)
                           /\ \A j \in 1 .. Len(name) : name[j] = m.host[j]
               /\ k > 1 /\ k < Len(p) => m.host[p[k] - 12] = DOT
               /\ Len(m.host) = p[Len(p)] - 13
<1> DEFINE b == m.bytes
           p == m.parts
           n == Len(p)
           h == m.host
           IsDot(q) == \E k \in 2 .. n - 1 : p[k] = q
<1>1. b \in Seq(Byte) /\ h \in Seq(Byte) /\ p \in Seq(0 .. Len(b)) /\ Len(b) \in Nat
  BY DEF IsMessage
<1>2a. n > 1 /\ p[1] = 12
  BY DEF IsQuery
<1>2b. \A k \in 1 .. n - 1 : U8(b, p[k]) \in 1 .. 63
  BY DEF IsQuery
<1>2c. \A k \in 1 .. n - 1 : p[k + 1] = p[k] + 1 + U8(b, p[k])
  BY DEF IsQuery
<1>2d. p[n] < Len(b) => U8(b, p[n]) \notin 1 .. 63
  BY DEF IsQuery
<1>2e. Len(h) = p[n] - 13
  BY DEF IsQuery
<1>2f. \A j \in 1 .. Len(h) : h[j] = IF IsDot(12 + j) THEN DOT ELSE U8(b, 12 + j)
  BY DEF IsQuery
<1>3. size \in Nat /\ 12 <= size /\ size <= Len(b)
  BY <1>1
<1>4. n \in Nat /\ \A k \in 1 .. n : p[k] \in Nat
  <2>1. \A k \in 1 .. n : p[k] \in 0 .. Len(b)
    BY <1>1, ElementOfSeq
  <2>2. n \in Nat /\ \A x \in 0 .. Len(b) : x \in Nat
    BY <1>1
  <2> QED
    BY <2>1, <2>2
<1>5. PICK f : Spells(b, size, f) /\ Domain(b, 12, size) = f[12]
  BY <1>1, <1>3, DomainSpells
<1> HIDE DEF b, p, n, h, IsDot
<1>6. \A o \in Nat : f[o] = LabelsFrom(b, size, f, o)
  BY <1>5 DEF Spells
<1>8. \A i, k \in 1 .. n : i < k => p[i] < p[k]
  BY LabelsInOrder DEF p, n
\* The last one to begin in the payload, or at its end.
<1> DEFINE T == {k \in 1 .. n : p[k] <= size}
<1>9. T \subseteq 0 .. n /\ 1 \in T
  BY <1>2a, <1>3, <1>4
<1>10. PICK last \in T : \A k \in T : k <= last
  BY <1>4, <1>9, GreatestNumber
<1>11. last \in 1 .. n /\ last \in Nat /\ p[last] <= size /\ p[last] \in Nat /\ p[last] <= p[n]
  <2>1. n \in 1 .. n
    BY <1>2a, <1>4
  <2> QED
    BY <1>4, <1>8, <1>10, <2>1
<1>12. \A k \in 1 .. n : k > last => p[k] > size
  BY <1>3, <1>4, <1>10, <1>11
<1> HIDE DEF T
<1> DEFINE Spelled(k) ==
             IF k = last THEN f[p[k]] = <<>>
             ELSE /\ f[p[k]] \in Seq(Byte) /\ Len(f[p[k]]) = p[last] - p[k] - 1
                  /\ \A j \in 1 .. p[last] - p[k] - 1 : f[p[k]][j] = h[p[k] - 12 + j]
           Fails == {k \in 1 .. last : ~Spelled(k)}
<1>13. Spelled(last)
  <2> DEFINE o == p[last]
  <2>1. ~LabelAt(b, o, size)
    <3>1. CASE last = n
      BY <1>2d, <1>3, <1>11, <3>1 DEF LabelAt
    <3>2. CASE last < n
      <4>1. last \in 1 .. n - 1 /\ last + 1 \in 1 .. n /\ last + 1 > last
        BY <1>4, <1>11, <3>2
      <4>2. p[last + 1] > size /\ p[last + 1] = o + 1 + U8(b, o)
        BY <1>2c, <1>12, <4>1
      <4>3. U8(b, o) \in Nat
        BY <1>1, <1>11, Numbers
      <4> QED
        BY <1>3, <1>11, <4>2, <4>3 DEF LabelAt
    <3> QED
      BY <1>4, <1>11, <3>1, <3>2
  <2>2. f[o] = <<>>
    BY <1>6, <1>11, <2>1 DEF LabelsFrom
  <2> QED
    BY <2>2
<1>14. ASSUME NEW k \in 1 .. last - 1, Spelled(k + 1) PROVE Spelled(k)
  <2> DEFINE o == p[k]
             w == U8(b, o)
             next == p[k + 1]
             label == Slice(b, o + 1, next)
             rest == f[next]
  <2>1. k \in 1 .. n - 1 /\ k \in 1 .. n /\ k + 1 \in 1 .. n /\ k + 1 <= last /\ k # last /\ k \in Nat
    BY <1>4, <1>11
  <2>2. w \in 1 .. 63 /\ next = o + 1 + w /\ o \in Nat /\ next \in Nat
    <3>1. p[k] \in Nat /\ p[k + 1] \in Nat
      BY <1>4, <2>1
    <3> QED
      BY <1>2b, <1>2c, <2>1, <3>1
  <2>3. next <= p[last] /\ 12 <= o
    <3>1. k + 1 < last => next < p[last]
      BY <1>8, <1>11, <2>1
    <3>2. 1 < k => p[1] < o
      <4>1. 1 \in 1 .. n
        BY <1>2a, <1>4
      <4> QED
        BY <1>8, <2>1, <4>1
    <3>3. next <= p[last]
      BY <1>11, <2>1, <2>2, <3>1
    <3>4. 12 <= o
      BY <1>2a, <2>1, <2>2, <3>2
    <3> QED
      BY <3>3, <3>4
  <2> HIDE DEF o, next
  <2>4. LabelAt(b, o, size)
    <3>1. next <= size
      BY <1>3, <1>11, <2>2, <2>3
    <3>2. o < size
      <4> HIDE DEF w
      <4>1. o < next
        BY <2>2
      <4> QED
        BY <1>3, <2>2, <3>1, <4>1
    <3> QED
      BY <2>2, <3>1, <3>2 DEF LabelAt
  <2> HIDE DEF w
  <2>5. o + 1 \in Nat /\ o + 1 <= next /\ next - (o + 1) = w /\ w \in Nat
    BY <2>2
  <2>6. /\ label \in Seq(Byte) /\ Len(label) = w
        /\ \A j \in 1 .. w : label[j] = U8(b, o + 1 + j - 1)
    <3> DEFINE x == o + 1
    <3>1. x \in Nat /\ x <= next /\ next - x = w
      BY <2>5
    <3> HIDE DEF x
    <3>2. /\ Slice(b, x, next) \in Seq(Byte) /\ Len(Slice(b, x, next)) = next - x
          /\ \A j \in 1 .. next - x : Slice(b, x, next)[j] = U8(b, x + j - 1)
      <4>1. next \in Nat
        BY <2>2
      <4> QED
        BY <1>1, <3>1, <4>1, SliceIs
    <3> QED
      BY <3>1, <3>2 DEF x
  <2> HIDE DEF label
  <2>7. \A j \in 1 .. w : label[j] = h[o - 12 + j]
    <3> TAKE j \in 1 .. w
    <3>1. o + 1 + j - 1 = o + j /\ o - 12 + j \in 1 .. Len(h) /\ 12 + (o - 12 + j) = o + j
      <4> DEFINE y == p[last]
                 z == p[n]
                 s == Len(h)
      <4>1. y \in Nat /\ y <= z /\ s = z - 13 /\ next <= y
        BY <1>2e, <1>11, <2>3
      <4>2. z \in Nat
        BY <1>2a, <1>4
      <4> HIDE DEF y, z, s
      <4>3. j \in Nat /\ 1 <= j /\ o + j < next
        BY <2>2, <2>5
      <4>4. o + 1 + j - 1 = o + j /\ o - 12 + j \in 1 .. s /\ 12 + (o - 12 + j) = o + j
        BY <2>2, <2>3, <4>1, <4>2, <4>3
      <4> QED
        BY <4>4 DEF s
    <3>2. ~IsDot(o + j)
      <4> USE DEF IsDot
      <4> SUFFICES ASSUME NEW i \in 2 .. n - 1, p[i] = o + j PROVE FALSE
        OBVIOUS
      <4>1. i \in 1 .. n /\ i \in Nat
        BY <1>4
      <4>2. i > k + 1 => p[i] > next
        BY <1>8, <2>1, <4>1 DEF next
      <4>3. i < k => p[i] < o
        BY <1>8, <2>1, <4>1 DEF o
      <4>4. o < o + j /\ o + j < next
        BY <2>2, <2>5
      <4>5. i # k /\ i # k + 1
        <5>1. o # o + j /\ next # o + j
          BY <2>2, <4>4
        <5> QED
          BY <5>1 DEF o, next
      <4> QED
        BY <1>4, <2>1, <2>2, <4>1, <4>2, <4>3, <4>4, <4>5
    <3>3. label[j] = U8(b, o + j)
      BY <2>6, <3>1
    <3>4. h[o - 12 + j] = U8(b, o + j)
      BY <1>2f, <3>1, <3>2
    <3> QED
      BY <3>3, <3>4
  <2>8. f[o] = IF rest = <<>> THEN label ELSE label \o <<DOT>> \o rest
    BY <1>6, <2>2, <2>4 DEF LabelsFrom, label, w
  <2>9. CASE k + 1 = last
    <3>1. rest = <<>> /\ f[o] = label /\ next = p[last]
      BY <1>14, <2>8, <2>9 DEF next
    <3> QED
      <4>1. w = p[last] - o - 1
        BY <1>11, <2>2, <2>5, <3>1
      <4>2. /\ f[o] \in Seq(Byte) /\ Len(f[o]) = p[last] - o - 1
            /\ \A j \in 1 .. p[last] - o - 1 : f[o][j] = h[o - 12 + j]
        BY <2>6, <2>7, <3>1, <4>1
      <4> QED
        BY <2>1, <4>2 DEF o
  <2>10. CASE k + 1 # last
    <3> DEFINE l == p[last] - next - 1
    <3>1. /\ rest \in Seq(Byte) /\ Len(rest) = l
          /\ \A j \in 1 .. l : rest[j] = h[next - 12 + j]
      BY <1>14, <2>10 DEF next
    <3>2. k + 1 \in 2 .. n - 1 /\ next < p[last]
      BY <1>4, <1>8, <1>11, <2>1, <2>10 DEF next
    <3>3. l \in Nat /\ l > 0
      <4>1. k + 1 \in 1 .. n - 1 /\ k + 2 \in 1 .. n /\ k + 2 <= last
        BY <1>4, <1>11, <2>1, <2>10
      <4>2. p[k + 2] >= next + 2
        <5>1. k + 1 + 1 = k + 2 /\ U8(b, next) \in 1 .. 63 /\ p[k + 1 + 1] = next + 1 + U8(b, next)
          BY <1>2b, <1>2c, <2>1, <4>1 DEF next
        <5> DEFINE v == U8(b, next)
        <5>2. v \in 1 .. 63 /\ p[k + 2] = next + 1 + v
          BY <5>1
        <5> HIDE DEF v
        <5> QED
          BY <2>2, <5>2
      <4>3. p[k + 2] <= p[last]
        BY <1>4, <1>8, <1>11, <4>1
      <4> DEFINE y == p[k + 2]
                 z == p[last]
      <4>4. y \in Nat /\ z \in Nat /\ y >= next + 2 /\ y <= z /\ l = z - next - 1
        BY <1>4, <1>11, <4>1, <4>2, <4>3
      <4> HIDE DEF y, z, l
      <4> QED
        BY <2>2, <4>4
    <3> HIDE DEF rest
    <3>0. l = p[last] - next - 1
      OBVIOUS
    <3> HIDE DEF l
    <3>4. DOT \in Byte /\ rest # <<>>
      BY <3>1, <3>3 DEF DOT, Byte
    <3> DEFINE t == label \o <<DOT>> \o rest
    <3>5. f[o] = t
      BY <2>8, <3>4
    <3>6. /\ t \in Seq(Byte) /\ Len(t) = w + 1 + l
          /\ \A j \in 1 .. w : t[j] = label[j]
          /\ t[w + 1] = DOT
          /\ \A j \in 1 .. l : t[w + 1 + j] = rest[j]
      <4>1. <<DOT>> \in Seq(Byte) /\ Len(<<DOT>>) = 1 /\ <<DOT>>[1] = DOT
        BY <3>4
      <4> DEFINE d == <<DOT>>
                 u == label \o d
      <4> HIDE DEF d
      <4>2. /\ u \in Seq(Byte) /\ Len(u) = w + 1
            /\ \A j \in 1 .. w : u[j] = label[j]
            /\ u[w + 1] = DOT
        BY <2>5, <2>6, <4>1 DEF d
      <4> HIDE DEF u
      <4>3. t = u \o rest
        BY DEF u, d
      <4> HIDE DEF t
      <4>4. /\ t \in Seq(Byte) /\ Len(t) = w + 1 + l
            /\ \A j \in 1 .. w + 1 : t[j] = u[j]
            /\ \A j \in 1 .. l : t[w + 1 + j] = rest[j]
        <5>1. Len(u) = w + 1 /\ Len(rest) = l /\ w + 1 \in Nat
          BY <2>5, <3>1, <4>2
        <5>2. t \in Seq(Byte) /\ Len(t) = Len(u) + Len(rest)
          <6>1. (u \o rest) \in Seq(Byte) /\ Len(u \o rest) = Len(u) + Len(rest)
            BY <3>1, <4>2, ConcatProperties
          <6> QED
            BY <4>3, <6>1
        <5>3. \A j \in 1 .. Len(u) : t[j] = u[j]
          <6>1. \A j \in 1 .. Len(u) : (u \o rest)[j] = u[j]
            BY <3>1, <4>2
          <6> QED
            BY <4>3, <6>1
        <5>4. \A j \in 1 .. Len(rest) : t[Len(u) + j] = rest[j]
          <6>1. \A j \in 1 .. Len(rest) : (u \o rest)[Len(u) + j] = rest[j]
            <7> TAKE j \in 1 .. Len(rest)
            <7>1. Len(u) \in Nat /\ Len(rest) \in Nat
              BY <3>1, <4>2
            <7>2. \A i \in 1 .. Len(u) + Len(rest) :
                    (u \o rest)[i] = IF i <= Len(u) THEN u[i] ELSE rest[i - Len(u)]
              BY <3>1, <4>2, ConcatProperties
            <7>3. /\ Len(u) + j \in 1 .. Len(u) + Len(rest) /\ ~(Len(u) + j <= Len(u))
                  /\ Len(u) + j - Len(u) = j
              BY <7>1
            <7> QED
              BY <7>2, <7>3
          <6> QED
            BY <4>3, <6>1
        <5> QED
          BY <5>1, <5>2, <5>3, <5>4
      <4> QED
        BY <2>5, <4>2, <4>4
    <3> HIDE DEF t
    <3>7. h[next - 12] = DOT
      <4>1. next - 12 \in 1 .. Len(h) /\ 12 + (next - 12) = next
        <5> DEFINE y == p[last]
                   z == p[n]
                   s == Len(h)
        <5>1. y \in Nat /\ y <= z /\ s = z - 13 /\ next < y
          BY <1>2e, <1>11, <3>2
        <5>2. z \in Nat
          BY <1>2a, <1>4
        <5>3. 12 < next
          BY <2>2, <2>3
        <5> HIDE DEF y, z, s
        <5>4. next - 12 \in 1 .. s /\ 12 + (next - 12) = next
          BY <2>2, <5>1, <5>2, <5>3
        <5> QED
          BY <5>4 DEF s
      <4>2. IsDot(next)
        BY <3>2 DEF next, IsDot
      <4> QED
        BY <1>2f, <4>1, <4>2
    <3>8. w + 1 + l = p[last] - o - 1
      <4> DEFINE z == p[last]
      <4>1. z \in Nat /\ l = z - next - 1
        BY <1>11, <3>0
      <4> HIDE DEF z
      <4>2. w + 1 + l = z - o - 1
        BY <2>2, <2>5, <4>1
      <4> QED
        BY <4>2 DEF z
    <3>9. ASSUME NEW j \in 1 .. w + 1 + l PROVE t[j] = h[o - 12 + j]
      <4>1. CASE j <= w
        <5>1. j \in 1 .. w
          BY <2>5, <3>3, <4>1
        <5>2. t[j] = label[j] /\ label[j] = h[o - 12 + j]
          BY <2>7, <3>6, <5>1
        <5> QED
          BY <5>2
      <4>2. CASE j = w + 1
        <5>1. o - 12 + j = next - 12
          BY <2>2, <2>5, <4>2
        <5> QED
          BY <3>6, <3>7, <4>2, <5>1
      <4>3. CASE j > w + 1
        <5> DEFINE i == j - w - 1
        <5>1. i \in 1 .. l /\ w + 1 + i = j /\ next - 12 + i = o - 12 + j
          BY <2>2, <2>5, <3>3, <4>3
        <5> HIDE DEF i
        <5> QED
          BY <3>1, <3>6, <5>1
      <4> QED
        BY <2>5, <3>3, <4>1, <4>2, <4>3
    <3> QED
      BY <2>1, <3>5, <3>6, <3>8, <3>9 DEF o
  <2> QED
    BY <2>9, <2>10
<1>15. Spelled(1)
  <2> HIDE DEF Spelled
  <2> SUFFICES ASSUME ~Spelled(1) PROVE FALSE
    OBVIOUS
  <2>1. Fails \subseteq 0 .. last /\ Fails # {}
    BY <1>11
  <2>2. PICK k \in Fails : \A j \in Fails : j <= k
    BY <1>11, <2>1, GreatestNumber
  <2>3. k \in 1 .. last - 1 /\ ~Spelled(k)
    BY <1>11, <1>13, <2>2
  <2>4. k + 1 \in 1 .. last /\ k + 1 \notin Fails
    BY <1>11, <2>2, <2>3
  <2> QED
    BY <1>14, <2>3, <2>4
<1> DEFINE name == Domain(b, 12, size)
<1>16. name = f[p[1]]
  BY <1>2a, <1>5
<1> HIDE DEF name
<1>17. last = 1 => name = <<>>
  BY <1>15, <1>16
<1>18. last > 1 => /\ name \in Seq(Byte) /\ Len(name) = p[last] - 13 /\ Len(name) <= Len(h)
                   /\ \A j \in 1 .. Len(name) : name[j] = h[j]
  <2> HAVE last > 1
  <2>1. /\ name \in Seq(Byte) /\ Len(name) = p[last] - p[1] - 1
        /\ \A j \in 1 .. p[last] - p[1] - 1 : name[j] = h[p[1] - 12 + j]
    BY <1>11, <1>15, <1>16
  <2>2. p[last] - p[1] - 1 = p[last] - 13 /\ p[last] - 13 <= Len(h)
    <3> DEFINE y == p[last]
               z == p[n]
    <3>1. p[1] = 12 /\ Len(h) = z - 13 /\ y <= z /\ y \in Nat
      BY <1>2a, <1>2e, <1>11
    <3>2. z \in Nat
      BY <1>2a, <1>4
    <3> HIDE DEF y, z
    <3>3. y - 12 - 1 = y - 13 /\ y - 13 <= z - 13
      BY <3>1, <3>2
    <3> QED
      BY <3>1, <3>3 DEF y
  <2>3. \A j \in 1 .. p[last] - 13 : p[1] - 12 + j = j
    BY <1>2a, <1>11
  <2> QED
    BY <2>1, <2>2, <2>3
<1>19. size >= p[n] => last = n
  <2>1. n \in 1 .. n /\ p[n] \in Nat
    BY <1>2a, <1>4
  <2> QED
    BY <1>3, <1>4, <1>11, <1>12, <2>1
<1>20. last > 1 /\ last < n => h[p[last] - 12] = DOT
  <2> HAVE last > 1 /\ last < n
  <2>1. last \in 2 .. n - 1 /\ n \in 1 .. n /\ 1 \in 1 .. n
    BY <1>4, <1>11
  <2>2. p[1] < p[last] /\ p[last] < p[n] /\ p[n] \in Nat
    BY <1>4, <1>8, <1>11, <2>1
  <2>3. p[last] - 12 \in 1 .. Len(h) /\ 12 + (p[last] - 12) = p[last]
    <3> DEFINE y == p[last]
               z == p[n]
               s == Len(h)
    <3>1. y \in Nat /\ z \in Nat /\ y < z /\ s = z - 13 /\ 12 < y
      BY <1>2a, <1>2e, <1>11, <2>2
    <3> HIDE DEF y, z, s
    <3>2. y - 12 \in 1 .. s /\ 12 + (y - 12) = y
      BY <3>1
    <3> QED
      BY <3>2 DEF y, s
  <2>4. IsDot(p[last])
    BY <2>1 DEF IsDot
  <2> QED
    BY <1>2f, <2>3, <2>4
<1> QED
  BY <1>2e, <1>11, <1>17, <1>18, <1>19, <1>20 DEF b, p, n, h, name

LEMMA SamePrefix ==
  ASSUME NEW s \in Seq(Byte), NEW t \in Seq(Byte), Len(s) <= Len(t),
         \A k \in 1 .. Len(s) : s[k] = t[k]
  PROVE  IsPrefix(s, t)
<1> DEFINE u == SubSeq(s, 1, Len(s))
           v == SubSeq(t, 1, Len(s))
<1>1. u \in Seq(Byte) /\ Len(u) = Len(s) /\ \A k \in 1 .. Len(s) : u[k] = s[k]
  OBVIOUS
<1>2. v \in Seq(Byte) /\ Len(v) = Len(s) /\ \A k \in 1 .. Len(s) : v[k] = t[k]
  OBVIOUS
<1> HIDE DEF u, v
<1>3. Len(u) = Len(v) /\ \A k \in 1 .. Len(u) : u[k] = v[k]
  BY <1>1, <1>2
<1>4. u = v
  BY <1>1, <1>2, <1>3, SameSeq
<1> QED
  BY <1>4 DEF IsPrefix, u, v

\* A query that is not taken for a hello is named after the labels that are there as a
\* whole: its name is cut between two labels or not at all.
THEOREM QueryNames == Spec => []QueryNamedByWholeLabels
<1>1. InspectionInv => QueryNamedByWholeLabels
  <2> SUFFICES ASSUME InspectionInv, message.kind = "query", dst = 53,
                      ~isTLSClientHello(payload, length), NEW o \in found["modular"]
               PROVE  /\ IsPrefix(o.name, message.host)
                      /\ o.name \in {<<>>, message.host} \/ message.host[Len(o.name) + 1] = DOT
                      /\ length >= message.end => o.name = message.host
    BY DEF QueryNamedByWholeLabels
  <2> DEFINE b == message.bytes
             h == message.host
             p == message.parts
             D == Domain(b, 12, length)
  <2>1. message \in Messages /\ length \in Lengths(message)
    BY DEF InspectionInv
  <2>2. b \in Seq(Byte) /\ length \in 0 .. Len(b) /\ length \in Nat /\ Len(b) \in Nat
    BY <2>1, LengthsAre
  <2>3. IsMessage(message) /\ IsQuery(message)
    BY <2>1, MessagesAssumption
  <2>4. /\ h \in Seq(Byte) /\ p \in Seq(0 .. Len(b)) /\ message.end \in Nat
        /\ Len(p) \in Nat /\ Len(p) >= 1 /\ p[1] = 12 /\ p[Len(p)] <= message.end
    BY <2>3 DEF IsMessage, IsQuery
  <2>5. "modular" \in Engines
    BY DEF Engines
  <2>6. o = Outcome("modular", b) /\ ~isTLSClientHello(b, length)
    BY <2>5, FoundIs
  <2>7. o.name = IF isDNSQuery(b, length) THEN D ELSE <<>>
    <3>1. o = inspectPayload(b)
      BY <2>6 DEF Outcome
    <3>2. tryExtractSNI(b) = {} /\ tryExtractHTTPHost(b) = {} /\ dns_port
      BY <2>6 DEF tryExtractSNI, extractSNI, tryExtractHTTPHost, dns_port, dst
    <3> DEFINE query == extractQuery(b, length)
    <3>3. inspectPayload(b) =
            IF length = 0 THEN Unnamed("UNKNOWN")
            ELSE IF query # {} THEN [app |-> "DNS", name |-> CHOOSE n \in query : TRUE]
            ELSE Unnamed(PortApp)
      BY <3>2 DEF inspectPayload
    <3>4. query = IF isDNSQuery(b, length) THEN {D} \ {<<>>} ELSE {}
      BY DEF extractQuery
    <3>5. length = 0 => ~isDNSQuery(b, length)
      BY DEF isDNSQuery
    <3>6. \A app : Unnamed(app).name = <<>>
      BY DEF Unnamed
    <3> HIDE DEF query, D, b
    <3>7. CASE query = {}
      <4>1. o.name = <<>>
        BY <3>1, <3>3, <3>6, <3>7
      <4>2. isDNSQuery(b, length) => D = <<>>
        BY <3>4, <3>7
      <4> QED
        BY <4>1, <4>2
    <3>8. CASE query # {}
      <4>1. isDNSQuery(b, length) /\ query = {D} /\ length # 0
        BY <3>4, <3>5, <3>8
      <4>2. o.name = CHOOSE n \in query : TRUE
        BY <3>1, <3>3, <3>8, <4>1
      <4>3. o.name = D
        BY <4>1, <4>2
      <4> QED
        BY <4>1, <4>3
    <3> QED
      BY <3>7, <3>8
  <2>8. IsPrefix(<<>>, h)
    <3>1. Len(<<>>) <= Len(h) /\ SubSeq(<<>>, 1, Len(<<>>)) = SubSeq(h, 1, Len(<<>>))
      BY <2>4
    <3> QED
      BY <3>1 DEF IsPrefix
  <2>9. CASE U8(b, 2) < 128 /\ U16(b, 4) # 0 /\ Len(p) > 1 /\ length >= 12
    <3>1. o.name = D
      BY <2>7, <2>9 DEF isDNSQuery
    <3>2. length \in 12 .. Len(b)
      BY <2>2, <2>9
    <3>3. PICK k \in 1 .. Len(p) :
            /\ length >= p[Len(p)] => k = Len(p)
            /\ k = 1 => D = <<>>
            /\ k > 1 => /\ D \in Seq(Byte)
                        /\ Len(D) = p[k] - 13 /\ Len(D) <= Len(h)
                        /\ \A j \in 1 .. Len(D) : D[j] = h[j]
            /\ k > 1 /\ k < Len(p) => h[p[k] - 12] = DOT
            /\ Len(h) = p[Len(p)] - 13
      BY <2>3, <2>9, <3>2, QuerySpelled
    <3>4. p[k] \in Nat /\ p[Len(p)] \in Nat
      <4>1. Len(p) \in 1 .. Len(p) /\ \A x \in 0 .. Len(b) : x \in Nat
        BY <2>2, <2>4
      <4>2. \A j \in 1 .. Len(p) : p[j] \in 0 .. Len(b)
        BY <2>4, ElementOfSeq
      <4> QED
        BY <4>1, <4>2
    <3> HIDE DEF D, h, p, b
    <3>5. length >= message.end => k = Len(p)
      BY <2>2, <2>4, <3>3, <3>4
    <3>6. CASE k = 1
      <4>1. ~(length >= message.end)
        BY <2>4, <2>9, <3>5, <3>6
      <4> QED
        BY <2>8, <3>1, <3>3, <3>6, <4>1 DEF h
    <3>7. CASE k > 1
      <4>1. /\ D \in Seq(Byte) /\ Len(D) = p[k] - 13 /\ Len(D) <= Len(h)
            /\ \A j \in 1 .. Len(D) : D[j] = h[j]
        BY <3>3, <3>7
      <4>2. IsPrefix(D, h)
        BY <2>4, <4>1, SamePrefix
      <4>3. k = Len(p) => D = h
        <5> HAVE k = Len(p)
        <5>1. Len(D) = Len(h) /\ \A j \in 1 .. Len(D) : D[j] = h[j]
          BY <3>3, <4>1
        <5> QED
          BY <2>4, <4>1, <5>1, SameSeq
      <4>4. k < Len(p) => h[Len(D) + 1] = DOT
        <5> HAVE k < Len(p)
        <5>1. Len(D) + 1 = p[k] - 12
          BY <3>4, <4>1
        <5> QED
          BY <3>3, <3>7, <5>1
      <4> QED
        BY <2>4, <3>1, <3>5, <4>2, <4>3, <4>4 DEF h
    <3> QED
      BY <2>4, <3>6, <3>7
  <2>10. CASE ~(U8(b, 2) < 128 /\ U16(b, 4) # 0 /\ Len(p) > 1)
    <3>1. h = <<>>
      BY <2>3, <2>10 DEF IsQuery
    <3>2. isDNSQuery(b, length) => D = <<>>
      <4> HAVE isDNSQuery(b, length)
      <4>1. length >= 12 /\ Len(p) = 1
        <5> DEFINE n == Len(p)
        <5>1. n \in Nat /\ n >= 1
          BY <2>4
        <5>2. length >= 12 /\ ~(n > 1)
          BY <2>10 DEF isDNSQuery
        <5> HIDE DEF n
        <5>3. n = 1
          BY <5>1, <5>2
        <5> QED
          BY <5>2, <5>3 DEF n
      <4>2. 12 < Len(b) => U8(b, 12) \notin 1 .. 63
        <5>1. p[Len(p)] = 12
          BY <2>4, <4>1
        <5>2. p[Len(p)] < Len(b) => U8(b, p[Len(p)]) \notin 1 .. 63
          BY <2>3 DEF IsQuery
        <5> QED
          BY <5>1, <5>2
      <4>3. ~LabelAt(b, 12, length)
        BY <2>2, <4>2 DEF LabelAt
      <4>4. PICK f : Spells(b, length, f) /\ D = f[12]
        BY <2>2, DomainSpells
      <4>5. f[12] = LabelsFrom(b, length, f, 12)
        BY <4>4 DEF Spells
      <4> QED
        BY <4>3, <4>4, <4>5 DEF LabelsFrom
    <3> QED
      BY <2>7, <2>8, <3>1, <3>2 DEF h
  <2>11. CASE ~(length >= 12)
    <3>1. o.name = <<>>
      BY <2>7, <2>11 DEF isDNSQuery
    <3>2. ~(length >= message.end)
      <4>1. 1 \in 1 .. Len(p) /\ Len(p) \in 1 .. Len(p) /\ p[Len(p)] \in Nat /\ p[Len(p)] <= message.end
        BY <2>4
      <4>2. p[Len(p)] >= 12
        <5>1. CASE Len(p) = 1
          BY <2>4, <5>1
        <5>2. CASE Len(p) # 1
          <6>1. 1 < Len(p)
            <7> DEFINE n == Len(p)
            <7>1. n \in Nat /\ n >= 1 /\ n # 1
              BY <2>4, <5>2
            <7> HIDE DEF n
            <7>2. 1 < n
              BY <7>1
            <7> QED
              BY <7>2 DEF n
          <6>2. p[1] < p[Len(p)]
            BY <2>3, <4>1, <6>1, LabelsInOrder
          <6> QED
            BY <2>4, <4>1, <6>2
        <5> QED
          BY <5>1, <5>2
      <4> QED
        BY <2>2, <2>4, <2>11, <4>1, <4>2
    <3> QED
      BY <2>8, <3>1, <3>2 DEF h
  <2> QED
    BY <2>9, <2>10, <2>11
<1> QED
  BY <1>1, InspectionInvHolds, PTL

\* Nothing but blanks up to the end of a line, or to the end of the payload: no host.
LEMMA BlankLine ==
  ASSUME NEW b \in Seq(Byte), NEW size \in Nat, NEW k \in Nat, k + 5 <= size,
         NEW e \in Nat, k + 5 <= e, e < size => U8(b, e) \in {CR, LF},
         \A q \in k + 5 .. e - 1 : U8(b, q) \in {SPACE, TAB}
  PROVE  Host(b, k, size) = {}
<1> DEFINE Blank == Byte \ {SPACE, TAB}
           x == k + 5
           o == IF e < size THEN e ELSE size
<1>1. x \in Nat /\ x <= size
  OBVIOUS
<1>2. o \in x .. size /\ o \in Nat /\ o <= size
  OBVIOUS
<1>3. o = size \/ (U8(b, o) \in Blank /\ U8(b, o) \in {CR, LF})
  <2>1. CASE e < size
    BY <2>1 DEF CR, LF, SPACE, TAB, Byte
  <2>2. CASE ~(e < size)
    BY <2>2
  <2> QED
    BY <2>1, <2>2
<1>4. \A q \in x .. o - 1 : U8(b, q) \notin Blank
  OBVIOUS
<1> HIDE DEF Blank, x, o
<1>5. Seek(b, x, size, Blank) = o
  BY <1>1, <1>2, <1>3, <1>4, SeekIsOnly
<1>6. Seek(b, o, size, {CR, LF}) = o
  <2>1. o \in o .. size /\ \A q \in o .. o - 1 : FALSE
    BY <1>2
  <2> QED
    BY <1>2, <1>3, <2>1, SeekIsOnly
<1>7. ~(o > o)
  BY <1>2
<1> QED
  BY <1>5, <1>6, <1>7 DEF Host, Blank, x

\* Where a request has its host, and what it consists of.
LEMMA RequestParts ==
  ASSUME NEW m, IsMessage(m), IsRequest(m)
  PROVE  LET b == m.bytes
             i == m.parts[1]
             start == m.end - Len(m.host)
         IN  /\ b \in Seq(Byte) /\ m.host \in Seq(Byte) /\ Len(b) \in Nat /\ m.end \in Nat
             /\ i \in Nat /\ start \in Nat /\ i + 5 <= start /\ start < m.end /\ m.end < Len(b)
             /\ start + Len(m.host) = m.end /\ Len(m.host) \in Nat
             /\ HostHeaderAt(b, i)
             /\ \A q \in i + 5 .. start - 1 : U8(b, q) \in {SPACE, TAB}
             /\ U8(b, start) \in Byte \ {SPACE, TAB}
             /\ \A q \in start .. m.end - 1 : U8(b, q) \notin {CR, LF, COLON}
             /\ U8(b, m.end) \in {CR, LF, COLON}
             /\ Stands(b, start, m.host)
             /\ \A k \in 0 .. i - 1 : HostHeaderAt(b, k) =>
                  \E e \in k + 5 .. i - 1 : /\ U8(b, e) \in {CR, LF}
                                            /\ \A q \in k + 5 .. e - 1 : U8(b, q) \in {SPACE, TAB}
<1> DEFINE b == m.bytes
           h == m.host
           i == m.parts[1]
           start == m.end - Len(h)
<1>1. b \in Seq(Byte) /\ h \in Seq(Byte) /\ m.parts \in Seq(0 .. Len(b)) /\ m.end \in 0 .. Len(b)
  BY DEF IsMessage
<1>2. Len(b) \in Nat /\ m.end \in Nat /\ Len(h) \in Nat
  BY <1>1
<1>3. i \in Nat
  <2>1. Len(m.parts) = 1
    BY DEF IsRequest
  <2>2. i \in 0 .. Len(b)
    BY <1>1, <2>1
  <2> QED
    BY <1>2, <2>2
<1>4. i + 5 <= start /\ m.end < Len(b) /\ h # <<>>
  BY DEF IsRequest
<1>5. Len(h) > 0
  BY <1>1, <1>4
<1>6. /\ HostHeaderAt(b, i)
      /\ \A q \in i + 5 .. start - 1 : U8(b, q) \in {SPACE, TAB}
      /\ U8(b, m.end) \in {CR, LF, COLON}
      /\ Stands(b, start, h)
      /\ \A k \in 0 .. i - 1 : HostHeaderAt(b, k) =>
           \E e \in k + 5 .. i - 1 : /\ U8(b, e) \in {CR, LF}
                                     /\ \A q \in k + 5 .. e - 1 : U8(b, q) \in {SPACE, TAB}
  BY DEF IsRequest
<1>7. h[1] \notin {SPACE, TAB} /\ \A k \in 1 .. Len(h) : h[k] \notin {CR, LF, COLON}
  BY DEF IsRequest
<1> HIDE DEF b, h, i
<1> DEFINE size == Len(h)
<1> HIDE DEF size
<1>8. start = m.end - size /\ size \in Nat /\ size > 0
  BY <1>2, <1>5 DEF size
<1> HIDE DEF start
<1>9. start \in Nat /\ start < m.end /\ start + size = m.end
  BY <1>2, <1>3, <1>4, <1>8
<1>10. \A k \in 1 .. size : U8(b, start + k - 1) = h[k]
  BY <1>6 DEF Stands, size
<1>11. U8(b, start) \in Byte \ {SPACE, TAB}
  <2>1. 1 \in 1 .. size /\ start + 1 - 1 = start
    BY <1>8, <1>9
  <2>2. U8(b, start) = h[1]
    BY <1>10, <2>1
  <2>3. U8(b, start) \in Byte
    BY <1>1, <1>9, Numbers
  <2> QED
    BY <1>7, <2>2, <2>3
<1>12. ASSUME NEW q \in start .. m.end - 1 PROVE U8(b, q) \notin {CR, LF, COLON}
  <2> DEFINE k == q - start + 1
  <2>1. k \in 1 .. size /\ start + k - 1 = q
    <3>1. q \in Nat /\ start <= q /\ q < start + size
      BY <1>2, <1>9
    <3> QED
      BY <1>8, <1>9, <3>1
  <2> HIDE DEF k
  <2>2. U8(b, q) = h[k]
    BY <1>10, <2>1
  <2> QED
    BY <1>7, <2>1, <2>2 DEF size
<1> QED
  BY <1>1, <1>2, <1>3, <1>4, <1>6, <1>8, <1>9, <1>11, <1>12 DEF b, h, i, start, size

\* As much of the host as there is.
LEMMA HostOfRequest ==
  ASSUME NEW m, IsMessage(m), IsRequest(m), NEW size \in Nat, m.parts[1] + 5 <= size
  PROVE  LET start == m.end - Len(m.host)
             to == IF m.end < size THEN m.end ELSE size
         IN  Host(m.bytes, m.parts[1], size) =
               IF start < size THEN {Slice(m.bytes, start, to)} ELSE {}
<1> DEFINE b == m.bytes
           i == m.parts[1]
           end == m.end
           start == end - Len(m.host)
           to == IF end < size THEN end ELSE size
<1>1. /\ b \in Seq(Byte) /\ end \in Nat
      /\ i \in Nat /\ start \in Nat /\ i + 5 <= start /\ start < end
      /\ \A q \in i + 5 .. start - 1 : U8(b, q) \in {SPACE, TAB}
      /\ U8(b, start) \in Byte \ {SPACE, TAB}
      /\ \A q \in start .. end - 1 : U8(b, q) \notin {CR, LF, COLON}
      /\ U8(b, end) \in {CR, LF, COLON}
  BY RequestParts
<1>2. i + 5 <= size
  OBVIOUS
<1> HIDE DEF b, i, start, end
<1>3. CASE ~(start < size)
  <2>1. \A q \in i + 5 .. start - 1 : U8(b, q) \in {SPACE, TAB}
    BY <1>1
  <2>2. Host(b, i, size) = {}
    BY <1>1, <1>2, <1>3, <2>1, BlankLine
  <2> QED
    BY <1>3, <2>2 DEF b, i, start, end
<1>4. CASE start < size
  <2> DEFINE Blank == Byte \ {SPACE, TAB}
             x == i + 5
             line == Seek(b, start, size, {CR, LF})
  <2>1. x \in Nat /\ start \in x .. size
    BY <1>1, <1>4
  <2>2. U8(b, start) \in Blank /\ \A q \in x .. start - 1 : U8(b, q) \notin Blank
    BY <1>1
  <2> HIDE DEF x, Blank
  <2>3. Seek(b, x, size, Blank) = start
    BY <2>1, <2>2, SeekIsOnly
  <2>4. /\ line \in start .. size
        /\ line = size \/ U8(b, line) \in {CR, LF}
        /\ \A q \in start .. line - 1 : U8(b, q) \notin {CR, LF}
    BY <1>1, <1>4, SeekIs
  <2> HIDE DEF line
  <2>5. line \in Nat /\ to \in Nat /\ start < to /\ to <= size
    BY <1>1, <1>4, <2>4
  <2>6. to <= line
    <3> SUFFICES ASSUME line < to PROVE FALSE
      BY <2>5
    <3>1. line \in start .. end - 1 /\ line # size
      BY <1>1, <2>4, <2>5
    <3> QED
      BY <1>1, <2>4, <3>1
  <2>7. to = line \/ U8(b, to) \in {COLON}
    <3> SUFFICES ASSUME to < line PROVE U8(b, to) \in {COLON}
      BY <2>5, <2>6
    <3>1. to = end /\ to \in start .. line - 1
      BY <1>1, <2>4, <2>5
    <3>2. U8(b, to) \in {CR, LF, COLON} /\ U8(b, to) \notin {CR, LF}
      BY <1>1, <2>4, <3>1
    <3> QED
      BY <3>2
  <2>8. \A q \in start .. to - 1 : U8(b, q) \notin {COLON}
    <3> TAKE q \in start .. to - 1
    <3>1. q \in start .. end - 1
      BY <1>1, <2>5
    <3> QED
      BY <1>1, <3>1
  <2> HIDE DEF to
  <2>9. Seek(b, start, line, {COLON}) = to
    <3>1. to \in start .. line
      BY <1>1, <2>5, <2>6
    <3> QED
      BY <1>1, <2>5, <2>7, <2>8, <3>1, SeekIsOnly
  <2>10. line > start
    BY <1>1, <2>5, <2>6
  <2>11. Host(b, i, size) = {Slice(b, start, to)}
    BY <2>3, <2>9, <2>10 DEF Host, line, x, Blank
  <2> QED
    BY <1>4, <2>11 DEF b, i, start, end, to
<1> QED
  BY <1>3, <1>4

\* The first line that is looked at is the one the request has its host in.
LEMMA RequestNamed ==
  ASSUME NEW m, IsMessage(m), IsRequest(m), NEW size \in 0 .. Len(m.bytes)
  PROVE  LET start == m.end - Len(m.host)
             to == IF m.end < size THEN m.end ELSE size
         IN  /\ \/ extractHost(m.bytes, size) = {}
                \/ start < size /\ extractHost(m.bytes, size) = {Slice(m.bytes, start, to)}
             /\ size > m.end => extractHost(m.bytes, size) # {}
             /\ extractSNI(m.bytes, size) = {}
<1> DEFINE b == m.bytes
           i == m.parts[1]
           end == m.end
           start == end - Len(m.host)
           to == IF end < size THEN end ELSE size
           T == HostHits(b, size)
<1>1. /\ b \in Seq(Byte) /\ end \in Nat /\ Len(b) \in Nat
      /\ i \in Nat /\ start \in Nat /\ i + 5 <= start /\ start < end /\ end < Len(b)
  BY RequestParts
<1>2. HostHeaderAt(b, i) /\ \A q \in i + 5 .. start - 1 : U8(b, q) \in {SPACE, TAB}
  BY RequestParts
<1>3. \A k \in 0 .. i - 1 : HostHeaderAt(b, k) =>
        \E e \in k + 5 .. i - 1 : /\ U8(b, e) \in {CR, LF}
                                  /\ \A q \in k + 5 .. e - 1 : U8(b, q) \in {SPACE, TAB}
  BY RequestParts
<1>4. size \in Nat /\ size <= Len(b)
  BY <1>1
<1>5. i + 5 <= size => Host(b, i, size) = IF start < size THEN {Slice(b, start, to)} ELSE {}
  BY <1>4, HostOfRequest
<1>6. SubSeq(b, 1, 4) \in methods
  BY DEF IsRequest
<1> HIDE DEF b, i, end, start, to
<1>7. \A k \in T : k >= i
  <2> SUFFICES ASSUME NEW k \in T, k < i PROVE FALSE
    BY <1>1, <1>4 DEF HostHits
  <2>1. k \in 0 .. size - 7 /\ HostHeaderAt(b, k) /\ Host(b, k, size) # {}
    BY DEF HostHits
  <2>2. k \in Nat /\ k + 5 <= size /\ k \in 0 .. i - 1
    BY <1>1, <1>4, <2>1
  <2>3. PICK e \in k + 5 .. i - 1 : /\ U8(b, e) \in {CR, LF}
                                    /\ \A q \in k + 5 .. e - 1 : U8(b, q) \in {SPACE, TAB}
    BY <1>3, <2>1, <2>2
  <2>4. e \in Nat /\ k + 5 <= e
    BY <1>1, <2>2
  <2> QED
    BY <1>1, <1>4, <2>1, <2>2, <2>3, <2>4, BlankLine
<1>8. start < size /\ i <= size - 7 => i \in T /\ First(T) = i
  <2> HAVE start < size /\ i <= size - 7
  <2>1. i + 5 <= size /\ i \in 0 .. size - 7
    BY <1>1, <1>4
  <2>2. i \in T
    BY <1>2, <1>5, <2>1 DEF HostHits
  <2>3. T \subseteq Nat
    BY DEF HostHits
  <2>4. First(T) \in T /\ First(T) <= i
    BY <2>2, <2>3, FirstIs
  <2>5. First(T) \in Nat /\ First(T) >= i
    BY <1>7, <2>3, <2>4
  <2> QED
    BY <1>1, <2>2, <2>4, <2>5
<1>9. ~(start < size /\ i <= size - 7) => T = {}
  <2> SUFFICES ASSUME ~(start < size /\ i <= size - 7), NEW k \in T PROVE FALSE
    OBVIOUS
  <2>1. k \in 0 .. size - 7 /\ HostHeaderAt(b, k) /\ Host(b, k, size) # {}
    BY DEF HostHits
  <2>2. k \in Nat /\ k >= i /\ k <= size - 7
    BY <1>4, <1>7, <2>1
  <2>3. i <= size - 7 /\ ~(start < size)
    BY <1>1, <1>4, <2>2
  <2>4. k # i
    <3>1. i + 5 <= size
      BY <1>1, <1>4, <2>3
    <3> QED
      BY <1>5, <2>1, <2>3, <3>1
  <2>5. U8(b, k) \in {72, 104}
    BY <2>1 DEF HostHeaderAt
  <2>6. CASE k >= i + 5
    <3>1. k \in i + 5 .. start - 1
      BY <1>1, <1>4, <2>2, <2>3, <2>6
    <3>2. U8(b, k) \in {32, 9}
      BY <1>2, <3>1 DEF SPACE, TAB
    <3> QED
      BY <2>5, <3>2
  <2>7. CASE k \in {i + 1, i + 2, i + 3, i + 4}
    <3>1. U8(b, k) \in {79, 111, 83, 115, 84, 116, 58}
      BY <1>2, <2>7 DEF HostHeaderAt, COLON
    <3> QED
      BY <2>5, <3>1
  <2>8. k >= i + 5 \/ k \in {i + 1, i + 2, i + 3, i + 4}
    BY <1>1, <2>2, <2>4
  <2> QED
    BY <2>6, <2>7, <2>8
<1>10. extractHost(b, size) =
         IF isHTTPRequest(b, size) /\ T # {} THEN Host(b, First(T), size) ELSE {}
  BY ExtractHostIs
<1> DEFINE s == SubSeq(b, 1, 4)
           z == 0
           t == Slice(b, z, 4)
<1>11. s \in Seq(Byte) /\ Len(s) = 4 /\ \A k \in 1 .. 4 : s[k] = b[k]
  <2>1. Len(b) >= 4
    BY <1>1
  <2> QED
    BY <1>1, <2>1
<1>12. \A k \in 1 .. 4 : U8(b, k - 1) = b[k]
  <2> TAKE k \in 1 .. 4
  <2>1. k - 1 < Len(b) /\ k - 1 + 1 = k
    BY <1>1
  <2> QED
    BY <2>1 DEF U8
<1>13. t = s
  <2>1. z \in Nat /\ z <= 4 /\ 4 \in Nat
    OBVIOUS
  <2> HIDE DEF z, s
  <2>2. /\ t \in Seq(Byte) /\ Len(t) = 4 - z
        /\ \A k \in 1 .. 4 - z : t[k] = U8(b, z + k - 1)
    BY <1>1, <2>1, SliceIs
  <2> HIDE DEF t
  <2>3. Len(t) = 4 /\ \A k \in 1 .. 4 : t[k] = U8(b, k - 1)
    BY <2>2 DEF z
  <2>4. Len(t) = Len(s) /\ \A k \in 1 .. Len(t) : t[k] = s[k]
    BY <1>11, <1>12, <2>3
  <2> QED
    BY <1>11, <2>2, <2>4, SameSeq
<1>14. size > end => isHTTPRequest(b, size)
  <2> HAVE size > end
  <2>1. size >= 4
    BY <1>1, <1>4
  <2> QED
    BY <1>6, <1>13, <2>1 DEF isHTTPRequest
<1>15. size > end => start < size /\ i <= size - 7
  BY <1>1, <1>4
<1>16. i <= size - 7 => i + 5 <= size
  BY <1>1, <1>4
<1>17. extractSNI(b, size) = {}
  <2>1. s[1] # 22
    <3> HIDE DEF s
    <3>1. s \in methods
      BY <1>6 DEF s
    <3> QED
      BY <3>1 DEF methods
  <2>2. U8(b, 0) # 22
    <3> HIDE DEF s
    <3>1. U8(b, 1 - 1) = b[1] /\ s[1] = b[1] /\ 1 - 1 = 0
      BY <1>11, <1>12
    <3> QED
      BY <2>1, <3>1
  <2> QED
    BY <2>2 DEF extractSNI, isTLSClientHello, CONTENT_TYPE_HANDSHAKE
<1> HIDE DEF T
<1>18. \/ extractHost(b, size) = {}
       \/ start < size /\ extractHost(b, size) = {Slice(b, start, to)}
  <2>1. CASE ~(start < size /\ i <= size - 7)
    BY <1>9, <1>10, <2>1
  <2>2. CASE start < size /\ i <= size - 7
    BY <1>5, <1>8, <1>10, <1>16, <2>2
  <2> QED
    BY <2>1, <2>2
<1>19. size > end => extractHost(b, size) # {}
  <2> HAVE size > end
  <2>1. start < size /\ i <= size - 7 /\ isHTTPRequest(b, size)
    BY <1>14, <1>15
  <2>2. extractHost(b, size) = {Slice(b, start, to)}
    BY <1>5, <1>8, <1>10, <1>16, <2>1
  <2> QED
    BY <2>2
<1> QED
  BY <1>17, <1>18, <1>19 DEF b, start, end, to

\* A request is named after its first Host line with something on it, without the port;
\* cut within that line, after as much of the host as there is, and cut before, not.
THEOREM RequestNames == Spec => []RequestNamedAsFarAsItGoes
<1>1. InspectionInv => RequestNamedAsFarAsItGoes
  <2> SUFFICES ASSUME InspectionInv, message.kind = "request", ~dns_port,
                      NEW e \in Engines, NEW o \in found[e]
               PROVE  /\ IsPrefix(o.name, message.host)
                      /\ (tcp /\ dst = 80 /\ length > message.end) => o.name = message.host
    BY DEF RequestNamedAsFarAsItGoes
  <2> DEFINE b == message.bytes
             h == message.host
             end == message.end
             start == end - Len(h)
             to == IF end < length THEN end ELSE length
             H == extractHost(b, length)
             text == Slice(b, start, to)
  <2>1. message \in Messages /\ length \in Lengths(message)
    BY DEF InspectionInv
  <2>2. b \in Seq(Byte) /\ length \in 0 .. Len(b) /\ length \in Nat
    BY <2>1, LengthsAre
  <2>3. IsMessage(message) /\ IsRequest(message)
    BY <2>1, MessagesAssumption
  <2>4. /\ h \in Seq(Byte) /\ end \in Nat /\ start \in Nat /\ start < end
        /\ start + Len(h) = end /\ Len(h) \in Nat /\ Stands(b, start, h)
    BY <2>3, RequestParts
  <2>5. /\ H = {} \/ (start < length /\ H = {text})
        /\ length > end => H # {}
        /\ extractSNI(b, length) = {}
    BY <2>2, <2>3, RequestNamed
  <2>6. o = Outcome(e, b)
    BY FoundIs
  <2>7. PICK names \in {{}, extractSNI(b, length), H} :
          /\ Outcome(e, b).name = TheName(names)
          /\ tcp /\ dst = 80 /\ extractSNI(b, length) = {} => names = H
    BY <2>2, NameIsFrom
  <2> HIDE DEF b, h, end, start, H, text
  <2>8. TheName({}) = <<>> /\ TheName({text}) = text
    BY DEF TheName
  <2>9. IsPrefix(<<>>, h)
    <3>1. Len(<<>>) <= Len(h) /\ SubSeq(<<>>, 1, Len(<<>>)) = SubSeq(h, 1, Len(<<>>))
      BY <2>4
    <3> QED
      BY <3>1 DEF IsPrefix
  <2>10. start < length => IsPrefix(text, h) /\ (length > end => text = h)
    <3> HAVE start < length
    <3>1. to \in Nat /\ start <= to /\ to <= end /\ (length > end => to = end)
      BY <2>2, <2>4
    <3> HIDE DEF to
    <3>2. /\ text \in Seq(Byte) /\ Len(text) = to - start
          /\ \A k \in 1 .. to - start : text[k] = U8(b, start + k - 1)
      <4>1. b \in Seq(Byte) /\ start \in Nat
        BY <2>2, <2>4
      <4>2. /\ Slice(b, start, to) \in Seq(Byte) /\ Len(Slice(b, start, to)) = to - start
            /\ \A k \in 1 .. to - start : Slice(b, start, to)[k] = U8(b, start + k - 1)
        BY <3>1, <4>1, SliceIs
      <4>3. text = Slice(b, start, to)
        BY DEF text, to
      <4> QED
        BY <4>2, <4>3
    <3>3. \A k \in 1 .. Len(h) : U8(b, start + k - 1) = h[k]
      BY <2>4 DEF Stands
    <3>4. Len(text) <= Len(h) /\ \A k \in 1 .. Len(text) : text[k] = h[k]
      <4>1. to - start <= Len(h) /\ to - start \in Nat
        BY <2>4, <3>1
      <4> QED
        BY <2>4, <3>2, <3>3, <4>1
    <3>5. IsPrefix(text, h)
      BY <2>4, <3>2, <3>4, SamePrefix
    <3>6. length > end => text = h
      <4> HAVE length > end
      <4>1. Len(text) = Len(h)
        BY <2>4, <3>1, <3>2
      <4> QED
        BY <2>4, <3>2, <3>4, <4>1, SameSeq
    <3> QED
      BY <3>5, <3>6
  <2>11. CASE names = {}
    <3>1. o.name = <<>>
      BY <2>6, <2>7, <2>8, <2>11
    <3>2. ~(tcp /\ dst = 80 /\ length > end)
      BY <2>5, <2>7, <2>11
    <3> QED
      BY <2>9, <3>1, <3>2 DEF h, end
  <2>12. CASE names # {}
    <3>1. names = {text} /\ start < length
      BY <2>5, <2>7, <2>12
    <3>2. o.name = text
      BY <2>6, <2>7, <2>8, <3>1
    <3> QED
      BY <2>10, <3>1, <3>2 DEF h, end
  <2> QED
    BY <2>11, <2>12
<1> QED
  BY <1>1, InspectionInvHolds, PTL
=================================================================================
