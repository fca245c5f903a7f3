----------------------------- MODULE RuleFileProofs -----------------------------
(***************************************************************************)
(* What a restart makes of a saved file, for any rules and any names, any  *)
(* number of changes by other threads, and wherever a save is cut short.   *)
(***************************************************************************)
EXTENDS RuleFile, FiniteSetTheorems, TLAPS

\* Any numbers there are have a least one.
LEMMA LeastNumber ==
  ASSUME NEW T, T \subseteq Nat, T # {}
  PROVE  \E m \in T : \A n \in T : m <= n
<1> DEFINE R == {ss \in Nat \X Nat : ss[1] < ss[2]}
<1>1. IsWellFoundedOn(R, Nat)
  BY NatLessThanWellFounded DEF OpToRel
<1>2. \A x, y \in Nat : ~(<<y, x>> \in R) => x <= y
  OBVIOUS
<1> HIDE DEF R
<1>3. \E x \in T : \A y \in T : ~(<<y, x>> \in R)
  BY <1>1, WFMin
<1> QED
  BY <1>2, <1>3

\* Erasing a pattern leaves a list of patterns that is not longer.
LEMMA EraseType ==
  ASSUME NEW q \in Seq(Patterns), NEW d
  PROVE  EraseFirst(q, d) \in Seq(Patterns) /\ Len(EraseFirst(q, d)) <= Len(q)
<1>1. CASE \A k \in 1 .. Len(q) : q[k] # d
  BY <1>1 DEF EraseFirst
<1>2. CASE ~ \A k \in 1 .. Len(q) : q[k] # d
  <2> DEFINE Hit(k) == q[k] = d /\ \A j \in 1 .. k - 1 : q[j] # d
             first == CHOOSE k \in 1 .. Len(q) : Hit(k)
             Hits == {k \in 1 .. Len(q) : q[k] = d}
  <2>1. \E k \in 1 .. Len(q) : Hit(k)
    <3>1. Hits \subseteq Nat /\ Hits # {}
      BY <1>2
    <3>2. PICK m \in Hits : \A n \in Hits : m <= n
      BY <3>1, LeastNumber
    <3>3. \A j \in 1 .. m - 1 : j \in 1 .. Len(q) /\ j < m
      OBVIOUS
    <3> QED
      BY <3>2, <3>3
  <2>2. first \in 1 .. Len(q)
    BY <2>1
  <2>3. EraseFirst(q, d) = SubSeq(q, 1, first - 1) \o SubSeq(q, first + 1, Len(q))
    BY <1>2 DEF EraseFirst
  <2> HIDE DEF first
  <2>4. /\ SubSeq(q, 1, first - 1) \in Seq(Patterns) /\ Len(SubSeq(q, 1, first - 1)) = first - 1
        /\ SubSeq(q, first + 1, Len(q)) \in Seq(Patterns)
        /\ Len(SubSeq(q, first + 1, Len(q))) = Len(q) - first
    BY <2>2
  <2>5. \A r, s \in Seq(Patterns) : r \o s \in Seq(Patterns) /\ Len(r \o s) = Len(r) + Len(s)
    OBVIOUS
  <2>6. /\ EraseFirst(q, d) \in Seq(Patterns)
        /\ Len(EraseFirst(q, d)) = (first - 1) + (Len(q) - first)
    BY <2>3, <2>4, <2>5
  <2> QED
    BY <2>2, <2>6
<1> QED
  BY <1>1, <1>2

\* Rules stay rules of their kind.
LEMMA RulesKeepTypes ==
  ASSUME RulesTypeOK, RuleStep
  PROVE  RulesTypeOK'
<1>1. CASE \E d \in Domains \cup Patterns : blockDomain(d)
  <2>1. PICK d \in Domains \cup Patterns : blockDomain(d)
    BY <1>1
  <2>2. blocked_domains' \subseteq Domains
    BY <2>1 DEF blockDomain, RulesTypeOK
  <2>3. domain_patterns' \in Seq(Patterns) /\ Len(domain_patterns') <= MaxPatterns
    <3>1. CASE d \in Patterns /\ domain_patterns' = Append(domain_patterns, d)
               /\ Len(domain_patterns) < MaxPatterns
      <4>1. Len(domain_patterns') = Len(domain_patterns) + 1 /\ domain_patterns' \in Seq(Patterns)
        BY <3>1 DEF RulesTypeOK
      <4> QED
        BY <3>1, <4>1, PatternsAssumption DEF RulesTypeOK, PatternsAssumption
    <3>2. CASE UNCHANGED domain_patterns
      BY <3>2 DEF RulesTypeOK
    <3> QED
      BY <2>1, <3>1, <3>2 DEF blockDomain
  <2> QED
    BY <2>1, <2>2, <2>3 DEF blockDomain, RulesTypeOK
<1>2. CASE \E d \in Domains \cup Patterns : unblockDomain(d)
  <2>1. PICK d \in Domains \cup Patterns : unblockDomain(d)
    BY <1>2
  <2>2. blocked_domains' \subseteq Domains
    BY <2>1 DEF unblockDomain, RulesTypeOK
  <2>3. domain_patterns' \in Seq(Patterns) /\ Len(domain_patterns') <= MaxPatterns
    <3>1. Len(domain_patterns) \in Nat /\ MaxPatterns \in Nat
      BY PatternsAssumption DEF RulesTypeOK, PatternsAssumption
    <3>2. \/ UNCHANGED domain_patterns
          \/ domain_patterns' = EraseFirst(domain_patterns, d)
      BY <2>1 DEF unblockDomain
    <3>3. Len(EraseFirst(domain_patterns, d)) \in Nat
      BY EraseType DEF RulesTypeOK
    <3> QED
      BY <3>1, <3>2, <3>3, EraseType DEF RulesTypeOK
  <2> QED
    BY <2>1, <2>2, <2>3 DEF unblockDomain, RulesTypeOK
<1>3. CASE clearAll
  <2>1. /\ blocked_ips' \in {blocked_ips, {}} /\ blocked_apps' \in {blocked_apps, {}}
        /\ blocked_domains' \in {blocked_domains, {}} /\ blocked_ports' \in {blocked_ports, {}}
        /\ domain_patterns' \in {domain_patterns, <<>>}
        /\ clearing' \in {"none", "ips", "apps", "domains", "ports"}
    BY <1>3 DEF clearAll, ClearDomains, rules
  <2>2. <<>> \in Seq(Patterns) /\ Len(<<>>) = 0
    OBVIOUS
  <2>3. domain_patterns' \in Seq(Patterns) /\ Len(domain_patterns') <= MaxPatterns
    <3>1. CASE domain_patterns' = domain_patterns
      BY <3>1 DEF RulesTypeOK
    <3>2. CASE domain_patterns' = <<>>
      <4>1. domain_patterns' \in Seq(Patterns) /\ Len(domain_patterns') = 0
        BY <2>2, <3>2, Zenon
      <4> QED
        BY <4>1, PatternsAssumption DEF PatternsAssumption
    <3> QED
      BY <2>1, <3>1, <3>2
  <2> QED
    BY <2>1, <2>3 DEF RulesTypeOK
<1>4. CASE \/ \E ip \in IPs : blockIP(ip) \/ unblockIP(ip)
           \/ \E app \in Apps : blockApp(app) \/ unblockApp(app)
           \/ \E port \in Ports : blockPort(port) \/ unblockPort(port)
  BY <1>4 DEF blockIP, unblockIP, blockApp, unblockApp, blockPort, unblockPort, RulesTypeOK
<1> QED
  BY <1>1, <1>2, <1>3, <1>4 DEF RuleStep, Block, Unblock

---------------------------------------------------------------------------------
(* Text. *)

\* Four bytes make up an address.
LEMMA FourBytes ==
  ASSUME NEW ip \in Nat, ip \div 16777216 < 256
  PROVE  /\ ip % 256 \in 0 .. 255 /\ (ip \div 256) % 256 \in 0 .. 255
         /\ (ip \div 65536) % 256 \in 0 .. 255 /\ ip \div 16777216 \in 0 .. 255
         /\ (ip % 256) + ((ip \div 256) % 256) * 256 + ((ip \div 65536) % 256) * 65536
              + (ip \div 16777216) * 16777216 = ip
<1> DEFINE b == ip \div 256
           c == ip \div 65536
           d == ip \div 16777216
<1>1. b \in Nat /\ c \in Nat /\ d \in Nat
  OBVIOUS
<1>2. ip = 256 * b + (ip % 256) /\ ip % 256 \in 0 .. 255
  OBVIOUS
<1>3. b = 256 * c + (b % 256) /\ b % 256 \in 0 .. 255
  OBVIOUS
<1>4. c = 256 * d + (c % 256) /\ c % 256 \in 0 .. 255
  OBVIOUS
<1> QED
  BY <1>1, <1>2, <1>3, <1>4

\* An address that is written and read is the same address.
LEMMA AddressReadsBack ==
  ASSUME NEW ip \in IPs
  PROVE  parseIP(ipToString(ip)) = ip /\ ipToString(ip) \in Seq(0 .. 255)
<1>1. ip \in Nat /\ ip \div 16777216 < 256
  BY RuleFileAssumption DEF RuleFileAssumption
<1> DEFINE a == ip % 256
           b == (ip \div 256) % 256
           c == (ip \div 65536) % 256
           d == ip \div 16777216
<1>2. a \in 0 .. 255 /\ b \in 0 .. 255 /\ c \in 0 .. 255 /\ d \in 0 .. 255
  BY <1>1, FourBytes
<1>3. a + b * 256 + c * 65536 + d * 16777216 = ip
  BY <1>1, FourBytes
<1>4. ipToString(ip) = <<a, b, c, d>>
  BY DEF ipToString
<1> HIDE DEF a, b, c, d
<1> QED
  BY <1>2, <1>3, <1>4 DEF parseIP

\* A set written line by line has all its elements in the lines, and nothing else.
LEMMA AllListed ==
  ASSUME NEW S, IsFiniteSet(S), NEW q \in SetToSeqs(S)
  PROVE  /\ q \in Seq(S) /\ DOMAIN q = 1 .. Len(q)
         /\ \A x \in S : \E k \in 1 .. Len(q) : q[k] = x
<1> DEFINE D == 1 .. Cardinality(S)
<1>1. Cardinality(S) \in Nat
  BY FS_CardinalityType
<1>2. q \in [D -> S] /\ \A i, j \in D : i # j => q[i] # q[j]
  BY DEF SetToSeqs
<1>3. q \in Seq(S) /\ Len(q) = Cardinality(S) /\ DOMAIN q = D
  BY <1>1, <1>2
<1>4. q \in Injection(D, S)
  BY <1>2 DEF Injection, IsInjective
<1>5. Cardinality(D) = Cardinality(S)
  BY <1>1, FS_Interval
<1>6. q \in Surjection(D, S)
  <2> HIDE DEF D
  <2> QED
    BY <1>4, <1>5, FS_Injection
<1> QED
  BY <1>3, <1>6 DEF Surjection

---------------------------------------------------------------------------------
\* The rules of five sets, as one set.
StandingOf(ips, apps, domains, patterns, ports) ==
  ({"ip"} \X ips) \cup ({"app"} \X apps) \cup ({"domain"} \X domains)
    \cup ({"pattern"} \X ToSet(patterns)) \cup ({"port"} \X ports)

LineKinds == {"header", "ip", "app", "name", "port"}
Line == UNION {[kind : {kind}, value : Values(kind)] : kind \in LineKinds}

\* The section a line belongs to, and the rule it says.
Section(kind) ==
  CASE kind = "ip" -> "IPS" [] kind = "app" -> "APPS" [] kind = "name" -> "DOMAINS"
    [] OTHER -> "PORTS"

IsRule(line) == line.kind # "header"

Rule(line) ==
  CASE line.kind = "ip" -> <<"ip", parseIP(line.value)>>
    [] line.kind = "name" -> <<IF starred(line.value) THEN "pattern" ELSE "domain", line.value>>
    [] OTHER -> <<line.kind, line.value>>

\* The order of the kinds in a file, and how many of them have been written.
KindNo(kind) ==
  CASE kind = "ip" -> 1 [] kind = "app" -> 2 [] kind = "domain" -> 3 [] kind = "pattern" -> 4
    [] OTHER -> 5

Done(at) ==
  CASE at \in {"idle", "ips"} -> 0 [] at = "apps" -> 1 [] at = "domains" -> 2 [] at = "ports" -> 4
    [] OTHER -> 5

\* A line that was written as a whole.
Whole(line) ==
  CASE line.kind = "ip" -> \E ip \in IPs : line.value = ipToString(ip)
    [] line.kind = "app" -> line.value \in Apps
    [] line.kind = "name" -> line.value \in Domains \cup Patterns
    [] line.kind = "port" -> line.value \in Ports
    [] OTHER -> TRUE

\* Every rule follows the header of its section, with none but rules of its kind between.
InSections(f) ==
  \A k \in 1 .. Len(f) : IsRule(f[k]) =>
    \E h \in 1 .. k - 1 : /\ f[h].kind = "header" /\ f[h].value = Section(f[k].kind)
                          /\ \A i \in h + 1 .. k : f[i].kind = f[k].kind

\* Before a rule come all rules of earlier kinds that stand.
InOrder(f, st) ==
  \A k \in 1 .. Len(f) : IsRule(f[k]) =>
    \A r \in st : KindNo(r[1]) < KindNo(Rule(f[k])[1]) =>
      \E j \in 1 .. k - 1 : IsRule(f[j]) /\ Rule(f[j]) = r

\* The first n lines are whole, and their rules are among those that were ever in force.
Genuine(f, n, ev) ==
  \A k \in 1 .. n : Whole(f[k]) /\ (IsRule(f[k]) => Rule(f[k]) \in ev)

\* The rules of the first n kinds are written.
Written(f, n, st) ==
  \A r \in st : KindNo(r[1]) <= n => \E k \in 1 .. Len(f) : IsRule(f[k]) /\ Rule(f[k]) = r

\* The patterns p are in the lines behind line d, and there are no others.
IsPattern(line) == line.kind = "name" /\ starred(line.value)
PatternsAt(f, d, p) ==
  /\ d \in Nat /\ d + Len(p) <= Len(f)
  /\ \A k \in 1 .. Len(f) : IsPattern(f[k]) <=> k \in d + 1 .. d + Len(p)
  /\ \A i \in 1 .. Len(p) : f[d + i].value = p[i]

FileInv ==
  /\ file \in Seq(Line)
  /\ InSections(file) /\ InOrder(file, stood)
  /\ Genuine(file, IF cut THEN Len(file) - 1 ELSE Len(file), ever)
  /\ ~cut => Written(file, Done(pc), stood)
  /\ pc \in {"ips", "apps", "domains"} => \A k \in 1 .. Len(file) : file[k].kind # "name"
  /\ ~cut /\ Done(pc) >= 4 =>
       \E d \in Nat, p \in Seq(Patterns) :
         Len(p) <= MaxPatterns /\ PatternsAt(file, d, p) /\ (quiet => p = atCall[4])

Saving == {"ips", "apps", "domains", "ports", "close", "saved"}

RulesFinite ==
  /\ IsFiniteSet(blocked_ips) /\ IsFiniteSet(blocked_apps)
  /\ IsFiniteSet(blocked_domains) /\ IsFiniteSet(blocked_ports)

\* The rules in memory, and what is remembered of them.
RulesInv ==
  /\ pc \in Saving \cup {"idle", "restarted", "restored"} /\ changes \in 0 .. MaxChanges
  /\ quiet \in BOOLEAN /\ cut \in BOOLEAN
  /\ atCall = <<atCall[1], atCall[2], atCall[3], atCall[4], atCall[5]>>
  /\ pc # "restored" => RulesTypeOK /\ RulesFinite
  /\ pc = "restarted" => /\ blocked_ips = {} /\ blocked_apps = {} /\ blocked_domains = {}
                         /\ domain_patterns = <<>> /\ blocked_ports = {} /\ clearing = "none"
  /\ pc \in Saving => stood \subseteq Standing /\ Standing \subseteq ever /\ (quiet => rules = atCall)
  /\ pc # "idle" /\ quiet =>
       /\ ever = StandingOf(atCall[1], atCall[2], atCall[3], atCall[4], atCall[5])
       /\ stood = ever
  /\ cut => pc \in {"restarted", "restored"}

\* loadRules makes a rule of the line.
LegibleIn(f) ==
  \A k \in 1 .. Len(f) : f[k].kind = "name" => f[k].value \notin Bracketed \cup {EmptyName}

KnownIn(f, line) ==
  (line.kind = "app" => line.value \in AppNames) /\ (line.kind = "name" => LegibleIn(f))

\* What has been read: all rules that can be, and no others.
ReadInv ==
  pc = "restored" =>
    /\ clearing = "none"
    /\ domain_patterns \in Seq(Values("name"))
    /\ \A k \in 1 .. Len(file) :
         IsRule(file[k]) /\ KnownIn(file, file[k]) => Rule(file[k]) \in Standing
    /\ \A r \in Standing : \E k \in 1 .. Len(file) : IsRule(file[k]) /\ Rule(file[k]) = r
    /\ \A d \in Nat, p \in Seq(Patterns) : PatternsAt(file, d, p) =>
         Len(domain_patterns) <= Len(p) /\ (LegibleIn(file) => domain_patterns = p)

\* The kinds of the rules that clearAll has not reached.
NotReached(at) ==
  CASE at = "ips" -> 1 [] at = "apps" -> 2 [] at = "domains" -> 3 [] at = "ports" -> 5
    [] OTHER -> 6

\* What is left of the rules there were when clearAll was called is of such a kind.
ClearInv == \A r \in leftover : KindNo(r[1]) >= NotReached(clearing)

---------------------------------------------------------------------------------
(* What writing a section adds to a file. *)

\* The kinds of lines and of rules.
LEMMA LineType ==
  ASSUME NEW line \in Line
  PROVE  line.kind \in LineKinds /\ line.value \in Values(line.kind)
BY DEF Line

LEMMA LineOf ==
  ASSUME NEW kind \in LineKinds, NEW v \in Values(kind)
  PROVE  LET line == [kind |-> kind, value |-> v] IN
         line \in Line /\ line.kind = kind /\ line.value = v
BY DEF Line

LEMMA OfKind ==
  ASSUME NEW kind, NEW S, NEW r
  PROVE  r \in {kind} \X S <=> \E x \in S : r = <<kind, x>>
OBVIOUS

\* A rule in the standing set is one of the five kinds.
LEMMA InStanding ==
  ASSUME NEW ips, NEW apps, NEW domains, NEW patterns, NEW ports, NEW r
  PROVE  r \in StandingOf(ips, apps, domains, patterns, ports) <=>
           \/ \E x \in ips : r = <<"ip", x>>
           \/ \E x \in apps : r = <<"app", x>>
           \/ \E x \in domains : r = <<"domain", x>>
           \/ \E x \in ToSet(patterns) : r = <<"pattern", x>>
           \/ \E x \in ports : r = <<"port", x>>
<1>1. r \in StandingOf(ips, apps, domains, patterns, ports) <=>
        \/ r \in {"ip"} \X ips \/ r \in {"app"} \X apps \/ r \in {"domain"} \X domains
        \/ r \in {"pattern"} \X ToSet(patterns) \/ r \in {"port"} \X ports
  BY Zenon DEF StandingOf
<1>2. r \in {"ip"} \X ips <=> \E x \in ips : r = <<"ip", x>>
  BY OfKind
<1>3. r \in {"app"} \X apps <=> \E x \in apps : r = <<"app", x>>
  BY OfKind
<1>4. r \in {"domain"} \X domains <=> \E x \in domains : r = <<"domain", x>>
  BY OfKind
<1>5. r \in {"pattern"} \X ToSet(patterns) <=> \E x \in ToSet(patterns) : r = <<"pattern", x>>
  BY OfKind
<1>6. r \in {"port"} \X ports <=> \E x \in ports : r = <<"port", x>>
  BY OfKind
<1> QED
  BY <1>1, <1>2, <1>3, <1>4, <1>5, <1>6, Zenon

\* The rules in force are those of the five sets.
LEMMA StandingIs ==
  Standing = StandingOf(blocked_ips, blocked_apps, blocked_domains, domain_patterns, blocked_ports)
BY DEF Standing, StandingOf

\* The numbers of the kinds.
LEMMA KindNos ==
  /\ KindNo("ip") = 1 /\ KindNo("app") = 2 /\ KindNo("domain") = 3
  /\ KindNo("pattern") = 4 /\ KindNo("port") = 5
  /\ \A kind : KindNo(kind) \in 1 .. 5
BY DEF KindNo

\* A section at the end of a file.
WithSection(f, section, body) == f \o Header(section) \o body

\* Where its lines are.
LEMMA SectionPlaces ==
  ASSUME NEW f \in Seq(Line), NEW section \in Values("header"), NEW body \in Seq(Line)
  PROVE  LET g == WithSection(f, section, body)
             h == Len(f) + 1
         IN  /\ g \in Seq(Line) /\ Len(g) = h + Len(body)
             /\ \A k \in 1 .. Len(f) : g[k] = f[k]
             /\ g[h].kind = "header" /\ g[h].value = section
             /\ \A i \in 1 .. Len(body) : g[h + i] = body[i]
             /\ \A k \in h + 1 .. Len(g) : k - h \in 1 .. Len(body) /\ g[k] = body[k - h]
<1> DEFINE line == [kind |-> "header", value |-> section]
           g == (f \o <<line>>) \o body
           h == Len(f) + 1
<1>1. line \in Line /\ line.kind = "header" /\ line.value = section
  BY LineOf DEF LineKinds
<1>2. WithSection(f, section, body) = g
  BY DEF WithSection, Header
<1> HIDE DEF line
<1>3. f \o <<line>> \in Seq(Line) /\ Len(f \o <<line>>) = h /\ (f \o <<line>>)[h] = line
      /\ \A k \in 1 .. Len(f) : (f \o <<line>>)[k] = f[k]
  BY <1>1
<1>4. g \in Seq(Line) /\ Len(g) = h + Len(body)
      /\ (\A k \in 1 .. h : g[k] = (f \o <<line>>)[k])
      /\ \A k \in h + 1 .. Len(g) : g[k] = body[k - h]
  BY <1>3
<1> HIDE DEF g
<1>5. Len(f) \in Nat /\ Len(body) \in Nat
  OBVIOUS
<1>6. (\A k \in 1 .. Len(f) : g[k] = f[k]) /\ g[h] = line
  <2>1. g[h] = line
    <3>1. h \in 1 .. h
      BY <1>5
    <3> QED
      BY <1>3, <1>4, <3>1
  <2>2. ASSUME NEW k \in 1 .. Len(f) PROVE g[k] = f[k]
    <3>1. k \in 1 .. h
      BY <1>5
    <3> QED
      BY <1>3, <1>4, <3>1
  <2> QED
    BY <2>1, <2>2
<1>7. \A k \in h + 1 .. Len(g) : k - h \in 1 .. Len(body) /\ g[k] = body[k - h]
  BY <1>4, <1>5
<1>8. \A i \in 1 .. Len(body) : g[h + i] = body[i]
  <2> TAKE i \in 1 .. Len(body)
  <2>1. h + i \in h + 1 .. Len(g) /\ (h + i) - h = i
    BY <1>4, <1>5
  <2> QED
    BY <1>7, <2>1
<1> QED
  BY <1>1, <1>2, <1>4, <1>6, <1>7, <1>8

\* The lines of one kind follow their header.
LEMMA SectionSections ==
  ASSUME NEW f \in Seq(Line), NEW kind \in LineKinds \ {"header"}, NEW body \in Seq(Line),
         \A i \in 1 .. Len(body) : body[i].kind = kind,
         InSections(f)
  PROVE  InSections(WithSection(f, Section(kind), body))
<1> DEFINE g == WithSection(f, Section(kind), body)
           h == Len(f) + 1
<1>1. Section(kind) \in Values("header")
  BY DEF Section, Values
<1>2. /\ g \in Seq(Line) /\ Len(g) = h + Len(body)
      /\ \A k \in 1 .. Len(f) : g[k] = f[k]
      /\ g[h].kind = "header" /\ g[h].value = Section(kind)
      /\ \A k \in h + 1 .. Len(g) : k - h \in 1 .. Len(body) /\ g[k] = body[k - h]
  BY <1>1, SectionPlaces
<1>3. h \in Nat /\ Len(f) \in Nat /\ Len(g) \in Nat /\ h = Len(f) + 1
  BY <1>2
<1> HIDE DEF g, h
<1>4. SUFFICES ASSUME NEW k \in 1 .. Len(g), IsRule(g[k])
      PROVE  \E j \in 1 .. k - 1 : /\ g[j].kind = "header" /\ g[j].value = Section(g[k].kind)
                                   /\ \A i \in j + 1 .. k : g[i].kind = g[k].kind
  BY DEF g, InSections
<1>5. CASE k \in 1 .. Len(f)
  <2>1. g[k] = f[k]
    BY <1>2, <1>5
  <2>2. PICK j \in 1 .. k - 1 : /\ f[j].kind = "header" /\ f[j].value = Section(f[k].kind)
                                /\ \A i \in j + 1 .. k : f[i].kind = f[k].kind
    BY <1>4, <1>5, <2>1 DEF InSections
  <2>3. g[j] = f[j] /\ \A i \in j + 1 .. k : g[i] = f[i]
    BY <1>2, <1>3, <1>5
  <2> QED
    BY <2>1, <2>2, <2>3
<1>6. CASE k \notin 1 .. Len(f)
  <2>1. k # h
    BY <1>2, <1>4 DEF IsRule
  <2>2. k \in h + 1 .. Len(g) /\ h \in 1 .. k - 1
    BY <1>3, <1>6, <2>1
  <2>3. ASSUME NEW i \in h + 1 .. k PROVE g[i].kind = kind
    <3>1. i \in h + 1 .. Len(g)
      BY <1>3, <2>2
    <3>2. i - h \in 1 .. Len(body) /\ g[i] = body[i - h]
      BY <1>2, <3>1
    <3> QED
      BY <3>2
  <2>4. g[k].kind = kind
    BY <2>2, <2>3
  <2> QED
    BY <1>2, <2>2, <2>3, <2>4
<1> QED
  BY <1>5, <1>6

\* Before the rules of a section are those that were written and those before them in it.
LEMMA SectionOrder ==
  ASSUME NEW f \in Seq(Line), NEW section \in Values("header"), NEW body \in Seq(Line), NEW st,
         InOrder(f, st), NEW n \in Nat, Written(f, n, st),
         \A i \in 1 .. Len(body) : \A r \in st :
           n < KindNo(r[1]) /\ KindNo(r[1]) < KindNo(Rule(body[i])[1]) =>
             \E j \in 1 .. i - 1 : IsRule(body[j]) /\ Rule(body[j]) = r
  PROVE  InOrder(WithSection(f, section, body), st)
<1> DEFINE g == WithSection(f, section, body)
           h == Len(f) + 1
<1>2. /\ g \in Seq(Line) /\ Len(g) = h + Len(body)
      /\ \A k \in 1 .. Len(f) : g[k] = f[k]
      /\ g[h].kind = "header"
      /\ \A i \in 1 .. Len(body) : g[h + i] = body[i]
      /\ \A k \in h + 1 .. Len(g) : k - h \in 1 .. Len(body) /\ g[k] = body[k - h]
  BY SectionPlaces
<1>3. h \in Nat /\ Len(f) \in Nat /\ Len(g) \in Nat /\ h = Len(f) + 1
  BY <1>2
<1> HIDE DEF g, h
<1>4. SUFFICES ASSUME NEW k \in 1 .. Len(g), IsRule(g[k]),
                      NEW r \in st, KindNo(r[1]) < KindNo(Rule(g[k])[1])
               PROVE  \E j \in 1 .. k - 1 : IsRule(g[j]) /\ Rule(g[j]) = r
  BY DEF g, InOrder
<1>5. CASE k \in 1 .. Len(f)
  <2>1. g[k] = f[k]
    BY <1>2, <1>5
  <2>2. PICK j \in 1 .. k - 1 : IsRule(f[j]) /\ Rule(f[j]) = r
    BY <1>4, <1>5, <2>1 DEF InOrder
  <2>3. g[j] = f[j]
    BY <1>2, <1>3, <1>5
  <2> QED
    BY <2>2, <2>3
<1>6. CASE k \notin 1 .. Len(f)
  <2>1. k # h
    BY <1>2, <1>4 DEF IsRule
  <2>2. k \in h + 1 .. Len(g)
    BY <1>3, <1>6, <2>1
  <2>3. KindNo(r[1]) \in Nat
    BY KindNos
  <2>4. CASE KindNo(r[1]) <= n
    <3>1. PICK j \in 1 .. Len(f) : IsRule(f[j]) /\ Rule(f[j]) = r
      BY <2>4 DEF Written
    <3>2. j \in 1 .. k - 1 /\ g[j] = f[j]
      BY <1>2, <1>3, <2>2
    <3> QED
      BY <3>1, <3>2
  <2>5. CASE n < KindNo(r[1])
    <3>1. k - h \in 1 .. Len(body) /\ g[k] = body[k - h]
      BY <1>2, <2>2
    <3>2. PICK j \in 1 .. (k - h) - 1 : IsRule(body[j]) /\ Rule(body[j]) = r
      BY <1>4, <2>5, <3>1
    <3>3. h + j \in 1 .. k - 1 /\ j \in 1 .. Len(body)
      BY <1>3, <3>1
    <3>4. g[h + j] = body[j]
      BY <1>2, <3>3
    <3> QED
      BY <3>2, <3>3, <3>4
  <2> QED
    BY <2>3, <2>4, <2>5
<1> QED
  BY <1>5, <1>6

\* All lines stay genuine, and the rules of the section are written.
LEMMA SectionWritten ==
  ASSUME NEW f \in Seq(Line), NEW section \in Values("header"), NEW body \in Seq(Line), NEW st, NEW ev,
         Genuine(f, Len(f), ev), Genuine(body, Len(body), ev),
         NEW n \in Nat, NEW m \in Nat, Written(f, n, st),
         \A r \in st : n < KindNo(r[1]) /\ KindNo(r[1]) <= m =>
           \E i \in 1 .. Len(body) : IsRule(body[i]) /\ Rule(body[i]) = r
  PROVE  LET g == WithSection(f, section, body) IN Genuine(g, Len(g), ev) /\ Written(g, m, st)
<1> DEFINE g == WithSection(f, section, body)
           h == Len(f) + 1
<1>2. /\ g \in Seq(Line) /\ Len(g) = h + Len(body)
      /\ \A k \in 1 .. Len(f) : g[k] = f[k]
      /\ g[h].kind = "header"
      /\ \A i \in 1 .. Len(body) : g[h + i] = body[i]
      /\ \A k \in h + 1 .. Len(g) : k - h \in 1 .. Len(body) /\ g[k] = body[k - h]
  BY SectionPlaces
<1>3. h \in Nat /\ Len(f) \in Nat /\ Len(g) \in Nat /\ Len(body) \in Nat /\ h = Len(f) + 1
  BY <1>2
<1> HIDE DEF g, h
<1>4. Whole(g[h]) /\ ~IsRule(g[h])
  BY <1>2 DEF Whole, IsRule
<1>5. Genuine(g, Len(g), ev)
  <2> SUFFICES ASSUME NEW k \in 1 .. Len(g)
               PROVE  Whole(g[k]) /\ (IsRule(g[k]) => Rule(g[k]) \in ev)
    BY DEF Genuine
  <2>1. k \in 1 .. Len(f) \/ k = h \/ k \in h + 1 .. Len(g)
    BY <1>3
  <2> QED
    BY <1>2, <1>4, <2>1 DEF Genuine
<1>6. Written(g, m, st)
  <2> SUFFICES ASSUME NEW r \in st, KindNo(r[1]) <= m
               PROVE  \E k \in 1 .. Len(g) : IsRule(g[k]) /\ Rule(g[k]) = r
    BY DEF Written
  <2>1. CASE KindNo(r[1]) <= n
    <3>1. PICK j \in 1 .. Len(f) : IsRule(f[j]) /\ Rule(f[j]) = r
      BY <2>1 DEF Written
    <3>2. j \in 1 .. Len(g) /\ g[j] = f[j]
      BY <1>2, <1>3
    <3> QED
      BY <3>1, <3>2
  <2>2. CASE n < KindNo(r[1])
    <3>1. PICK i \in 1 .. Len(body) : IsRule(body[i]) /\ Rule(body[i]) = r
      BY <2>2
    <3>2. h + i \in 1 .. Len(g) /\ g[h + i] = body[i]
      BY <1>2, <1>3
    <3> QED
      BY <3>1, <3>2
  <2> QED
    BY <2>1, <2>2, KindNos
<1> QED
  BY <1>5, <1>6 DEF g

---------------------------------------------------------------------------------
(* The lines of the four sections. *)

\* A rule in force is in the set of its kind.
LEMMA StandingKinds ==
  ASSUME NEW r \in Standing
  PROVE  /\ KindNo(r[1]) = 1 => \E x \in blocked_ips : r = <<"ip", x>>
         /\ KindNo(r[1]) = 2 => \E x \in blocked_apps : r = <<"app", x>>
         /\ KindNo(r[1]) = 3 => \E x \in blocked_domains : r = <<"domain", x>>
         /\ KindNo(r[1]) = 4 => \E x \in ToSet(domain_patterns) : r = <<"pattern", x>>
         /\ KindNo(r[1]) = 5 => \E x \in blocked_ports : r = <<"port", x>>
<1>1. \/ \E x \in blocked_ips : r = <<"ip", x>>
      \/ \E x \in blocked_apps : r = <<"app", x>>
      \/ \E x \in blocked_domains : r = <<"domain", x>>
      \/ \E x \in ToSet(domain_patterns) : r = <<"pattern", x>>
      \/ \E x \in blocked_ports : r = <<"port", x>>
  BY StandingIs, InStanding
<1>2. CASE \E x \in blocked_ips : r = <<"ip", x>>
  <2>1. KindNo(r[1]) = 1
    BY <1>2, KindNos
  <2> QED
    BY <1>2, <2>1
<1>3. CASE \E x \in blocked_apps : r = <<"app", x>>
  <2>1. KindNo(r[1]) = 2
    BY <1>3, KindNos
  <2> QED
    BY <1>3, <2>1
<1>4. CASE \E x \in blocked_domains : r = <<"domain", x>>
  <2>1. KindNo(r[1]) = 3
    BY <1>4, KindNos
  <2> QED
    BY <1>4, <2>1
<1>5. CASE \E x \in ToSet(domain_patterns) : r = <<"pattern", x>>
  <2>1. KindNo(r[1]) = 4
    BY <1>5, KindNos
  <2> QED
    BY <1>5, <2>1
<1>6. CASE \E x \in blocked_ports : r = <<"port", x>>
  <2>1. KindNo(r[1]) = 5
    BY <1>6, KindNos
  <2> QED
    BY <1>6, <2>1
<1> QED
  BY <1>1, <1>2, <1>3, <1>4, <1>5, <1>6

\* The rules of the five sets are in force.
LEMMA StandingHas ==
  /\ \A x \in blocked_ips : <<"ip", x>> \in Standing
  /\ \A x \in blocked_apps : <<"app", x>> \in Standing
  /\ \A x \in blocked_domains : <<"domain", x>> \in Standing
  /\ \A x \in ToSet(domain_patterns) : <<"pattern", x>> \in Standing
  /\ \A x \in blocked_ports : <<"port", x>> \in Standing
BY DEF Standing

\* What a line of each kind says.
LEMMA RuleOf ==
  ASSUME NEW line
  PROVE  /\ line.kind = "ip" => Rule(line) = <<"ip", parseIP(line.value)>>
         /\ line.kind = "app" => Rule(line) = <<"app", line.value>>
         /\ line.kind = "port" => Rule(line) = <<"port", line.value>>
         /\ line.kind = "name" /\ starred(line.value) => Rule(line) = <<"pattern", line.value>>
         /\ line.kind = "name" /\ ~starred(line.value) => Rule(line) = <<"domain", line.value>>
         /\ line.kind # "header" => IsRule(line)
BY DEF Rule, IsRule

\* The lines of one kind.
LEMMA LinesType ==
  ASSUME NEW kind \in LineKinds, NEW q \in Seq(Values(kind))
  PROVE  LET body == Lines(kind, q) IN
         /\ body \in Seq(Line) /\ Len(body) = Len(q)
         /\ \A i \in 1 .. Len(q) : body[i].kind = kind /\ body[i].value = q[i]
<1> DEFINE line(v) == [kind |-> kind, value |-> v]
<1>1. \A v \in Values(kind) : line(v) \in Line /\ line(v).kind = kind /\ line(v).value = v
  BY LineOf
<1>2. Lines(kind, q) = [k \in 1 .. Len(q) |-> line(q[k])]
  BY DEF Lines
<1>3. \A k \in 1 .. Len(q) : q[k] \in Values(kind)
  OBVIOUS
<1> HIDE DEF line
<1>4. Lines(kind, q) \in Seq(Line) /\ Len(Lines(kind, q)) = Len(q)
      /\ \A k \in 1 .. Len(q) : Lines(kind, q)[k] = line(q[k])
  BY <1>1, <1>2, <1>3
<1> QED
  BY <1>1, <1>3, <1>4

\* A section lists the set S of its kind: genuine lines, one or more for each rule.
Lists(body, kind, ruleKind, S) ==
  /\ body \in Seq(Line)
  /\ \A i \in 1 .. Len(body) :
       /\ body[i].kind = kind /\ IsRule(body[i]) /\ Whole(body[i])
       /\ \E x \in S : Rule(body[i]) = <<ruleKind, x>>
  /\ \A x \in S : \E i \in 1 .. Len(body) : Rule(body[i]) = <<ruleKind, x>>

LEMMA IPsListed ==
  ASSUME blocked_ips \subseteq IPs, IsFiniteSet(blocked_ips), NEW body \in IPLines
  PROVE  Lists(body, "ip", "ip", blocked_ips)
<1>1. PICK q \in SetToSeqs(blocked_ips) : body = Lines("ip", [k \in DOMAIN q |-> ipToString(q[k])])
  BY DEF IPLines
<1> DEFINE texts == [k \in DOMAIN q |-> ipToString(q[k])]
<1>2. /\ q \in Seq(blocked_ips) /\ DOMAIN q = 1 .. Len(q)
      /\ \A x \in blocked_ips : \E k \in 1 .. Len(q) : q[k] = x
  BY AllListed
<1>3. \A x \in blocked_ips : parseIP(ipToString(x)) = x /\ ipToString(x) \in Values("ip")
  BY AddressReadsBack DEF Values
<1>4. /\ texts \in Seq(Values("ip")) /\ Len(texts) = Len(q)
      /\ \A k \in 1 .. Len(q) : texts[k] = ipToString(q[k])
  BY <1>2, <1>3
<1> HIDE DEF texts
<1>5. /\ body \in Seq(Line) /\ Len(body) = Len(q)
      /\ \A i \in 1 .. Len(q) : body[i].kind = "ip" /\ body[i].value = ipToString(q[i])
  BY <1>1, <1>4, LinesType DEF LineKinds, texts
<1>6. ASSUME NEW i \in 1 .. Len(q)
      PROVE  /\ Rule(body[i]) = <<"ip", q[i]>> /\ IsRule(body[i]) /\ Whole(body[i])
             /\ q[i] \in blocked_ips
  <2>1. q[i] \in blocked_ips
    BY <1>2
  <2>2. Rule(body[i]) = <<"ip", parseIP(ipToString(q[i]))>> /\ IsRule(body[i])
    BY <1>5, RuleOf
  <2>3. Whole(body[i])
    BY <1>5, <2>1 DEF Whole
  <2> QED
    BY <1>3, <2>1, <2>2, <2>3
<1> QED
  BY <1>2, <1>5, <1>6 DEF Lists

LEMMA AppsListed ==
  ASSUME blocked_apps \subseteq Apps, IsFiniteSet(blocked_apps), NEW body \in AppLines
  PROVE  Lists(body, "app", "app", blocked_apps)
<1>1. PICK q \in SetToSeqs(blocked_apps) : body = Lines("app", q)
  BY DEF AppLines
<1>2. /\ q \in Seq(blocked_apps) /\ \A x \in blocked_apps : \E k \in 1 .. Len(q) : q[k] = x
  BY AllListed
<1>3. \A x \in blocked_apps : x \in Values("app")
  BY DEF Values
<1>4. q \in Seq(Values("app"))
  BY <1>2, <1>3
<1>5. /\ body \in Seq(Line) /\ Len(body) = Len(q)
      /\ \A i \in 1 .. Len(q) : body[i].kind = "app" /\ body[i].value = q[i]
  BY <1>1, <1>4, LinesType DEF LineKinds
<1>6. ASSUME NEW i \in 1 .. Len(q)
      PROVE  /\ Rule(body[i]) = <<"app", q[i]>> /\ IsRule(body[i]) /\ Whole(body[i])
             /\ q[i] \in blocked_apps
  <2>1. q[i] \in blocked_apps
    BY <1>2
  <2> QED
    BY <1>5, <2>1, RuleOf DEF Whole
<1> QED
  BY <1>2, <1>5, <1>6 DEF Lists

LEMMA PortsListed ==
  ASSUME blocked_ports \subseteq Ports, IsFiniteSet(blocked_ports), NEW body \in PortLines
  PROVE  Lists(body, "port", "port", blocked_ports)
<1>1. PICK q \in SetToSeqs(blocked_ports) : body = Lines("port", q)
  BY DEF PortLines
<1>2. /\ q \in Seq(blocked_ports) /\ \A x \in blocked_ports : \E k \in 1 .. Len(q) : q[k] = x
  BY AllListed
<1>3. \A x \in blocked_ports : x \in Values("port")
  BY RuleFileAssumption DEF RuleFileAssumption, Values
<1>4. q \in Seq(Values("port"))
  BY <1>2, <1>3
<1>5. /\ body \in Seq(Line) /\ Len(body) = Len(q)
      /\ \A i \in 1 .. Len(q) : body[i].kind = "port" /\ body[i].value = q[i]
  BY <1>1, <1>4, LinesType DEF LineKinds
<1>6. ASSUME NEW i \in 1 .. Len(q)
      PROVE  /\ Rule(body[i]) = <<"port", q[i]>> /\ IsRule(body[i]) /\ Whole(body[i])
             /\ q[i] \in blocked_ports
  <2>1. q[i] \in blocked_ports
    BY <1>2
  <2> QED
    BY <1>5, <2>1, RuleOf DEF Whole
<1> QED
  BY <1>2, <1>5, <1>6 DEF Lists

\* The exact names come first, the patterns after them in their order.
LEMMA DomainsListed ==
  ASSUME blocked_domains \subseteq Domains, IsFiniteSet(blocked_domains),
         domain_patterns \in Seq(Patterns), NEW body \in DomainLines
  PROVE  \E m \in Nat :
           /\ body \in Seq(Line) /\ Len(body) = m + Len(domain_patterns)
           /\ \A i \in 1 .. Len(body) : body[i].kind = "name" /\ IsRule(body[i]) /\ Whole(body[i])
           /\ \A i \in 1 .. m : /\ ~starred(body[i].value)
                                /\ \E x \in blocked_domains : Rule(body[i]) = <<"domain", x>>
           /\ \A x \in blocked_domains : \E i \in 1 .. m : Rule(body[i]) = <<"domain", x>>
           /\ \A i \in 1 .. Len(domain_patterns) :
                /\ starred(body[m + i].value) /\ body[m + i].value = domain_patterns[i]
                /\ Rule(body[m + i]) = <<"pattern", domain_patterns[i]>>
<1>1. PICK q \in SetToSeqs(blocked_domains) : body = Lines("name", q \o domain_patterns)
  BY DEF DomainLines
<1> DEFINE m == Len(q)
           names == q \o domain_patterns
<1>2. /\ q \in Seq(blocked_domains) /\ \A x \in blocked_domains : \E k \in 1 .. m : q[k] = x
  BY AllListed
<1>3. /\ \A x \in blocked_domains : x \in Values("name") /\ x \in Domains /\ ~starred(x)
      /\ \A x \in Patterns : x \in Values("name") /\ starred(x)
  BY RuleFileAssumption DEF RuleFileAssumption, Values
<1>4. q \in Seq(Values("name")) /\ domain_patterns \in Seq(Values("name"))
  BY <1>2, <1>3
<1>5. /\ names \in Seq(Values("name")) /\ Len(names) = m + Len(domain_patterns) /\ m \in Nat
      /\ \A i \in 1 .. m : names[i] = q[i]
      /\ \A i \in 1 .. Len(domain_patterns) : names[m + i] = domain_patterns[i]
  BY <1>4
<1> HIDE DEF names
<1>6. /\ body \in Seq(Line) /\ Len(body) = Len(names)
      /\ \A i \in 1 .. Len(names) : body[i].kind = "name" /\ body[i].value = names[i]
  BY <1>1, <1>5, LinesType DEF LineKinds, names
<1> HIDE DEF m
<1>7. ASSUME NEW i \in 1 .. m
      PROVE  /\ body[i].value = q[i] /\ q[i] \in blocked_domains /\ ~starred(body[i].value)
             /\ Rule(body[i]) = <<"domain", q[i]>> /\ Whole(body[i])
  <2>1. i \in 1 .. Len(names)
    BY <1>4, <1>5
  <2>2. body[i].kind = "name" /\ body[i].value = q[i]
    BY <1>5, <1>6, <2>1
  <2>3. q[i] \in blocked_domains
    BY <1>2 DEF m
  <2> QED
    BY <1>3, <2>2, <2>3, RuleOf DEF Whole
<1>8. ASSUME NEW i \in 1 .. Len(domain_patterns)
      PROVE  /\ body[m + i].value = domain_patterns[i] /\ starred(body[m + i].value)
             /\ Rule(body[m + i]) = <<"pattern", domain_patterns[i]>> /\ Whole(body[m + i])
  <2>1. m + i \in 1 .. Len(names)
    BY <1>4, <1>5
  <2>2. body[m + i].kind = "name" /\ body[m + i].value = domain_patterns[i]
    BY <1>5, <1>6, <2>1
  <2>3. domain_patterns[i] \in Patterns
    OBVIOUS
  <2> QED
    BY <1>3, <2>2, <2>3, RuleOf DEF Whole
<1>9. ASSUME NEW i \in 1 .. Len(body)
      PROVE  body[i].kind = "name" /\ IsRule(body[i]) /\ Whole(body[i])
  <2>1. body[i].kind = "name" /\ IsRule(body[i])
    BY <1>6, RuleOf
  <2>2. CASE i \in 1 .. m
    BY <1>7, <2>1, <2>2
  <2>3. CASE i \notin 1 .. m
    <3>1. i - m \in 1 .. Len(domain_patterns) /\ m + (i - m) = i
      BY <1>5, <1>6, <2>3
    <3> QED
      BY <1>8, <2>1, <3>1
  <2> QED
    BY <2>2, <2>3
<1>10. \A x \in blocked_domains : \E i \in 1 .. m : Rule(body[i]) = <<"domain", x>>
  BY <1>2, <1>7
<1>11. m \in Nat /\ body \in Seq(Line) /\ Len(body) = m + Len(domain_patterns)
  BY <1>5, <1>6
<1>12. \A i \in 1 .. m : /\ ~starred(body[i].value)
                         /\ \E x \in blocked_domains : Rule(body[i]) = <<"domain", x>>
  BY <1>7
<1>13. \A i \in 1 .. Len(domain_patterns) :
         /\ starred(body[m + i].value) /\ body[m + i].value = domain_patterns[i]
         /\ Rule(body[m + i]) = <<"pattern", domain_patterns[i]>>
  BY <1>8
<1> QED
  BY <1>9, <1>10, <1>11, <1>12, <1>13, Zenon

\* A section of one kind of rules is added.
LEMMA ListAdded ==
  ASSUME NEW f \in Seq(Line), NEW kind \in LineKinds \ {"header"}, NEW ruleKind, NEW S, NEW body,
         Lists(body, kind, ruleKind, S),
         NEW st, NEW ev, NEW n \in Nat, KindNo(ruleKind) = n + 1,
         InSections(f), InOrder(f, st), Genuine(f, Len(f), ev), Written(f, n, st),
         \A x \in S : <<ruleKind, x>> \in ev,
         \A r \in st : KindNo(r[1]) = n + 1 => \E x \in S : r = <<ruleKind, x>>
  PROVE  LET g == WithSection(f, Section(kind), body) IN
         /\ g \in Seq(Line) /\ InSections(g) /\ InOrder(g, st)
         /\ Genuine(g, Len(g), ev) /\ Written(g, n + 1, st)
<1>1. Section(kind) \in Values("header")
  BY DEF Section, Values
<1>2. /\ body \in Seq(Line)
      /\ \A i \in 1 .. Len(body) : /\ body[i].kind = kind /\ IsRule(body[i]) /\ Whole(body[i])
                                   /\ \E x \in S : Rule(body[i]) = <<ruleKind, x>>
      /\ \A x \in S : \E i \in 1 .. Len(body) : Rule(body[i]) = <<ruleKind, x>>
  BY DEF Lists
<1>3. \A r : KindNo(r[1]) \in 1 .. 5
  BY KindNos
<1>4. \A i \in 1 .. Len(body) : KindNo(Rule(body[i])[1]) = n + 1
  BY <1>2
<1>5. Genuine(body, Len(body), ev)
  BY <1>2 DEF Genuine
<1>6. \A r \in st : n < KindNo(r[1]) /\ KindNo(r[1]) <= n + 1 =>
        \E i \in 1 .. Len(body) : IsRule(body[i]) /\ Rule(body[i]) = r
  <2> SUFFICES ASSUME NEW r \in st, n < KindNo(r[1]), KindNo(r[1]) <= n + 1
               PROVE  \E i \in 1 .. Len(body) : IsRule(body[i]) /\ Rule(body[i]) = r
    OBVIOUS
  <2>1. KindNo(r[1]) = n + 1
    BY <1>3
  <2> QED
    BY <1>2, <2>1
<1>7. \A i \in 1 .. Len(body) : \A r \in st :
        n < KindNo(r[1]) /\ KindNo(r[1]) < KindNo(Rule(body[i])[1]) =>
          \E j \in 1 .. i - 1 : IsRule(body[j]) /\ Rule(body[j]) = r
  BY <1>3, <1>4
<1>8. InSections(WithSection(f, Section(kind), body))
  BY <1>2, SectionSections
<1>9. InOrder(WithSection(f, Section(kind), body), st)
  BY <1>1, <1>2, <1>7, SectionOrder
<1>10. n + 1 \in Nat
  OBVIOUS
<1>11. /\ Genuine(WithSection(f, Section(kind), body), Len(WithSection(f, Section(kind), body)), ev)
       /\ Written(WithSection(f, Section(kind), body), n + 1, st)
  BY <1>1, <1>2, <1>5, <1>6, <1>10, SectionWritten
<1>12. WithSection(f, Section(kind), body) \in Seq(Line)
  BY <1>1, <1>2, SectionPlaces
<1> QED
  BY <1>8, <1>9, <1>11, <1>12

\* Lines that are no names are added behind the patterns.
LEMMA PatternsStay ==
  ASSUME NEW f \in Seq(Line), NEW body \in Seq(Line), NEW section \in Values("header"),
         \A i \in 1 .. Len(body) : body[i].kind # "name",
         NEW d, NEW p \in Seq(Patterns), PatternsAt(f, d, p)
  PROVE  PatternsAt(WithSection(f, section, body), d, p)
<1> DEFINE g == WithSection(f, section, body)
           h == Len(f) + 1
<1>1. /\ g \in Seq(Line) /\ Len(g) = h + Len(body)
      /\ \A k \in 1 .. Len(f) : g[k] = f[k]
      /\ g[h].kind = "header"
      /\ \A k \in h + 1 .. Len(g) : k - h \in 1 .. Len(body) /\ g[k] = body[k - h]
  BY SectionPlaces
<1>2. h \in Nat /\ Len(f) \in Nat /\ Len(g) \in Nat /\ Len(body) \in Nat /\ h = Len(f) + 1
      /\ Len(p) \in Nat
  BY <1>1
<1>3. /\ d \in Nat /\ d + Len(p) <= Len(f)
      /\ \A k \in 1 .. Len(f) : IsPattern(f[k]) <=> k \in d + 1 .. d + Len(p)
      /\ \A i \in 1 .. Len(p) : f[d + i].value = p[i]
  BY DEF PatternsAt
<1> HIDE DEF g, h
<1>4. ASSUME NEW k \in 1 .. Len(g)
      PROVE  IsPattern(g[k]) <=> k \in d + 1 .. d + Len(p)
  <2>1. CASE k \in 1 .. Len(f)
    BY <1>1, <1>3, <2>1
  <2>2. CASE k \notin 1 .. Len(f)
    <3>1. k \notin d + 1 .. d + Len(p)
      BY <1>2, <1>3, <2>2
    <3>2. k = h \/ k \in h + 1 .. Len(g)
      BY <1>2, <2>2
    <3>3. g[k].kind # "name"
      BY <1>1, <3>2
    <3> QED
      BY <3>1, <3>3 DEF IsPattern
  <2> QED
    BY <2>1, <2>2
<1>5. ASSUME NEW i \in 1 .. Len(p) PROVE g[d + i].value = p[i]
  <2>1. d + i \in 1 .. Len(f)
    BY <1>2, <1>3
  <2> QED
    BY <1>1, <1>3, <2>1
<1>6. d + Len(p) <= Len(g)
  BY <1>1, <1>2, <1>3
<1> QED
  BY <1>3, <1>4, <1>5, <1>6 DEF PatternsAt, g

\* The section of the domains is added.
LEMMA DomainsAdded ==
  ASSUME NEW f \in Seq(Line), \A k \in 1 .. Len(f) : f[k].kind # "name",
         NEW st, st \subseteq Standing, NEW ev, Standing \subseteq ev,
         InSections(f), InOrder(f, st), Genuine(f, Len(f), ev), Written(f, 2, st),
         blocked_domains \subseteq Domains, IsFiniteSet(blocked_domains),
         domain_patterns \in Seq(Patterns), NEW body \in DomainLines
  PROVE  LET g == WithSection(f, "DOMAINS", body) IN
         /\ g \in Seq(Line) /\ InSections(g) /\ InOrder(g, st)
         /\ Genuine(g, Len(g), ev) /\ Written(g, 4, st)
         /\ \E d \in Nat : PatternsAt(g, d, domain_patterns)
<1> DEFINE p == domain_patterns
           g == WithSection(f, "DOMAINS", body)
           h == Len(f) + 1
<1>1. PICK m \in Nat :
        /\ body \in Seq(Line) /\ Len(body) = m + Len(p)
        /\ \A i \in 1 .. Len(body) : body[i].kind = "name" /\ IsRule(body[i]) /\ Whole(body[i])
        /\ \A i \in 1 .. m : /\ ~starred(body[i].value)
                             /\ \E x \in blocked_domains : Rule(body[i]) = <<"domain", x>>
        /\ \A x \in blocked_domains : \E i \in 1 .. m : Rule(body[i]) = <<"domain", x>>
        /\ \A i \in 1 .. Len(p) : /\ starred(body[m + i].value) /\ body[m + i].value = p[i]
                                  /\ Rule(body[m + i]) = <<"pattern", p[i]>>
  BY DomainsListed
<1>2. Section("name") = "DOMAINS" /\ "DOMAINS" \in Values("header") /\ "name" \in LineKinds \ {"header"}
  BY DEF Section, Values, LineKinds
<1>3. Len(p) \in Nat /\ Len(body) \in Nat /\ Len(f) \in Nat /\ h \in Nat /\ h = Len(f) + 1
      /\ Len(body) = m + Len(p)
  BY <1>1
<1>4. /\ \A x \in blocked_domains : <<"domain", x>> \in ev
      /\ \A i \in 1 .. Len(p) : <<"pattern", p[i]>> \in ev
  <2>1. \A i \in 1 .. Len(p) : p[i] \in ToSet(p)
    BY DEF ToSet
  <2> QED
    BY <2>1, StandingHas
<1>5. \A i \in 1 .. Len(body) : i \in 1 .. m \/ (i - m \in 1 .. Len(p) /\ m + (i - m) = i)
  BY <1>3
<1>6. ASSUME NEW i \in 1 .. Len(body)
      PROVE  /\ Rule(body[i]) \in ev
             /\ i \in 1 .. m => KindNo(Rule(body[i])[1]) = 3
             /\ i \notin 1 .. m => KindNo(Rule(body[i])[1]) = 4
  <2>1. CASE i \in 1 .. m
    <3>1. PICK x \in blocked_domains : Rule(body[i]) = <<"domain", x>>
      BY <1>1, <2>1
    <3> QED
      BY <1>4, <2>1, <3>1, KindNos
  <2>2. CASE i \notin 1 .. m
    <3>1. i - m \in 1 .. Len(p) /\ m + (i - m) = i
      BY <1>5, <2>2
    <3>2. Rule(body[i]) = <<"pattern", p[i - m]>>
      BY <1>1, <3>1
    <3> QED
      BY <1>4, <2>2, <3>1, <3>2, KindNos
  <2> QED
    BY <2>1, <2>2
<1>7. Genuine(body, Len(body), ev)
  BY <1>1, <1>6 DEF Genuine
<1>8. \A r \in st : KindNo(r[1]) = 3 => \E i \in 1 .. m : Rule(body[i]) = r
  <2> SUFFICES ASSUME NEW r \in st, KindNo(r[1]) = 3 PROVE \E i \in 1 .. m : Rule(body[i]) = r
    OBVIOUS
  <2>1. PICK x \in blocked_domains : r = <<"domain", x>>
    BY StandingKinds
  <2> QED
    BY <1>1, <2>1
<1>9. \A r \in st : KindNo(r[1]) = 4 => \E i \in 1 .. Len(p) : Rule(body[m + i]) = r
  <2> SUFFICES ASSUME NEW r \in st, KindNo(r[1]) = 4
               PROVE  \E i \in 1 .. Len(p) : Rule(body[m + i]) = r
    OBVIOUS
  <2>1. PICK x \in ToSet(p) : r = <<"pattern", x>>
    BY StandingKinds
  <2>2. PICK i \in 1 .. Len(p) : p[i] = x
    BY DEF ToSet
  <2> QED
    BY <1>1, <2>1, <2>2
<1>10. \A i \in 1 .. Len(body) : \A r \in st :
         2 < KindNo(r[1]) /\ KindNo(r[1]) < KindNo(Rule(body[i])[1]) =>
           \E j \in 1 .. i - 1 : IsRule(body[j]) /\ Rule(body[j]) = r
  <2> SUFFICES ASSUME NEW i \in 1 .. Len(body), NEW r \in st,
                      2 < KindNo(r[1]), KindNo(r[1]) < KindNo(Rule(body[i])[1])
               PROVE  \E j \in 1 .. i - 1 : IsRule(body[j]) /\ Rule(body[j]) = r
    OBVIOUS
  <2>1. KindNo(r[1]) = 3 /\ i \notin 1 .. m
    BY <1>6, KindNos
  <2>2. PICK j \in 1 .. m : Rule(body[j]) = r
    BY <1>8, <2>1
  <2>3. j \in 1 .. i - 1 /\ j \in 1 .. Len(body)
    BY <1>3, <2>1
  <2> QED
    BY <1>1, <2>2, <2>3
<1>11. \A r \in st : 2 < KindNo(r[1]) /\ KindNo(r[1]) <= 4 =>
         \E i \in 1 .. Len(body) : IsRule(body[i]) /\ Rule(body[i]) = r
  <2> SUFFICES ASSUME NEW r \in st, 2 < KindNo(r[1]), KindNo(r[1]) <= 4
               PROVE  \E i \in 1 .. Len(body) : IsRule(body[i]) /\ Rule(body[i]) = r
    OBVIOUS
  <2>1. KindNo(r[1]) = 3 \/ KindNo(r[1]) = 4
    BY KindNos
  <2>2. CASE KindNo(r[1]) = 3
    <3>1. PICK i \in 1 .. m : Rule(body[i]) = r
      BY <1>8, <2>2
    <3>2. i \in 1 .. Len(body)
      BY <1>3
    <3> QED
      BY <1>1, <3>1, <3>2
  <2>3. CASE KindNo(r[1]) = 4
    <3>1. PICK i \in 1 .. Len(p) : Rule(body[m + i]) = r
      BY <1>9, <2>3
    <3>2. m + i \in 1 .. Len(body)
      BY <1>3
    <3> QED
      BY <1>1, <3>1, <3>2
  <2> QED
    BY <2>1, <2>2, <2>3
<1>12. /\ g \in Seq(Line) /\ Len(g) = h + Len(body)
       /\ \A k \in 1 .. Len(f) : g[k] = f[k]
       /\ g[h].kind = "header"
       /\ \A i \in 1 .. Len(body) : g[h + i] = body[i]
       /\ \A k \in h + 1 .. Len(g) : k - h \in 1 .. Len(body) /\ g[k] = body[k - h]
  <2>1. body \in Seq(Line)
    BY <1>1
  <2> QED
    BY <1>2, <2>1, SectionPlaces
<1>13. InSections(g)
  BY <1>1, <1>2, SectionSections
<1>14. InOrder(g, st)
  <2>1. body \in Seq(Line) /\ 2 \in Nat
    BY <1>1
  <2> QED
    BY <1>2, <1>10, <2>1, SectionOrder
<1>15. Genuine(g, Len(g), ev) /\ Written(g, 4, st)
  BY <1>1, <1>2, <1>7, <1>11, SectionWritten
<1> HIDE DEF g, h
<1>16. PatternsAt(g, h + m, p)
  <2>1. h + m \in Nat /\ (h + m) + Len(p) <= Len(g)
    BY <1>3, <1>12
  <2>2. ASSUME NEW k \in 1 .. Len(g)
        PROVE  IsPattern(g[k]) <=> k \in (h + m) + 1 .. (h + m) + Len(p)
    <3>1. CASE k \in 1 .. h
      <4>1. g[k].kind # "name"
        <5>1. k = h \/ k \in 1 .. Len(f)
          BY <1>3, <3>1
        <5> QED
          BY <1>12, <5>1
      <4>2. k \notin (h + m) + 1 .. (h + m) + Len(p)
        BY <1>3, <3>1
      <4> QED
        BY <4>1, <4>2 DEF IsPattern
    <3>2. CASE k \notin 1 .. h
      <4>1. k \in h + 1 .. Len(g)
        BY <1>3, <3>2
      <4>2. k - h \in 1 .. Len(body) /\ g[k] = body[k - h]
        BY <1>12, <4>1
      <4>3. IsPattern(g[k]) <=> k - h \notin 1 .. m
        <5>1. CASE k - h \in 1 .. m
          BY <1>1, <4>2, <5>1 DEF IsPattern
        <5>2. CASE k - h \notin 1 .. m
          <6>1. (k - h) - m \in 1 .. Len(p) /\ m + ((k - h) - m) = k - h
            BY <1>5, <4>2, <5>2
          <6>2. starred(body[k - h].value)
            BY <1>1, <6>1
          <6> QED
            BY <1>1, <4>2, <5>2, <6>2 DEF IsPattern
        <5> QED
          BY <5>1, <5>2
      <4> QED
        BY <1>3, <1>12, <4>1, <4>2, <4>3
    <3> QED
      BY <3>1, <3>2
  <2>3. ASSUME NEW i \in 1 .. Len(p) PROVE g[(h + m) + i].value = p[i]
    <3>1. m + i \in 1 .. Len(body) /\ h + (m + i) = (h + m) + i
      BY <1>3
    <3>2. g[h + (m + i)] = body[m + i]
      BY <1>12, <3>1
    <3> QED
      BY <1>1, <3>1, <3>2
  <2> QED
    BY <2>1, <2>2, <2>3 DEF PatternsAt
<1>17. h + m \in Nat
  BY <1>3
<1> QED
  BY <1>12, <1>13, <1>14, <1>15, <1>16, <1>17 DEF g

---------------------------------------------------------------------------------
(* The rules while they are changed. *)

\* There are finitely many rules.
LEMMA OneMoreOrLess ==
  ASSUME NEW S, NEW T, IsFiniteSet(S), T = S \/ \E x : T = S \cup {x} \/ T = S \ {x}
  PROVE  IsFiniteSet(T)
BY FS_AddElement, FS_RemoveElement

LEMMA FiniteStays ==
  ASSUME RulesFinite, RuleStep
  PROVE  RulesFinite'
<1>2. IsFiniteSet({})
  BY FS_EmptySet
<1>3. CASE Block
  <2>1. /\ blocked_ips' = blocked_ips \/ \E x : blocked_ips' = blocked_ips \cup {x}
        /\ blocked_apps' = blocked_apps \/ \E x : blocked_apps' = blocked_apps \cup {x}
        /\ blocked_domains' = blocked_domains \/ \E x : blocked_domains' = blocked_domains \cup {x}
        /\ blocked_ports' = blocked_ports \/ \E x : blocked_ports' = blocked_ports \cup {x}
    BY <1>3 DEF Block, blockIP, blockApp, blockDomain, blockPort
  <2> QED
    <3>1. IsFiniteSet(blocked_ips')
      BY <2>1, OneMoreOrLess DEF RulesFinite
    <3>2. IsFiniteSet(blocked_apps')
      BY <2>1, OneMoreOrLess DEF RulesFinite
    <3>3. IsFiniteSet(blocked_domains')
      BY <2>1, OneMoreOrLess DEF RulesFinite
    <3>4. IsFiniteSet(blocked_ports')
      BY <2>1, OneMoreOrLess DEF RulesFinite
    <3> QED
      BY <3>1, <3>2, <3>3, <3>4 DEF RulesFinite
<1>4. CASE Unblock
  <2>1. /\ blocked_ips' = blocked_ips \/ \E x : blocked_ips' = blocked_ips \ {x}
        /\ blocked_apps' = blocked_apps \/ \E x : blocked_apps' = blocked_apps \ {x}
        /\ blocked_domains' = blocked_domains \/ \E x : blocked_domains' = blocked_domains \ {x}
        /\ blocked_ports' = blocked_ports \/ \E x : blocked_ports' = blocked_ports \ {x}
    BY <1>4 DEF Unblock, unblockIP, unblockApp, unblockDomain, unblockPort
  <2> QED
    <3>1. IsFiniteSet(blocked_ips')
      BY <2>1, OneMoreOrLess DEF RulesFinite
    <3>2. IsFiniteSet(blocked_apps')
      BY <2>1, OneMoreOrLess DEF RulesFinite
    <3>3. IsFiniteSet(blocked_domains')
      BY <2>1, OneMoreOrLess DEF RulesFinite
    <3>4. IsFiniteSet(blocked_ports')
      BY <2>1, OneMoreOrLess DEF RulesFinite
    <3> QED
      BY <3>1, <3>2, <3>3, <3>4 DEF RulesFinite
<1>5. CASE clearAll
  BY <1>2, <1>5 DEF clearAll, ClearDomains, rules, RulesFinite
<1> QED
  BY <1>3, <1>4, <1>5 DEF RuleStep

\* clearAll goes on from set to set.
LEMMA ClearsOn ==
  ASSUME RuleStep
  PROVE  \/ clearing' = clearing
         \/ clearing = "none" /\ clearing' = "ips"
         \/ clearing = "ips" /\ clearing' = "apps" /\ blocked_ips' = {}
         \/ clearing = "apps" /\ clearing' = "domains" /\ blocked_apps' = {}
         \/ /\ clearing = "domains" /\ clearing' = "ports"
            /\ blocked_domains' = {} /\ domain_patterns' = <<>>
         \/ clearing = "ports" /\ clearing' = "none" /\ blocked_ports' = {}
<1>1. CASE Block
  BY <1>1 DEF Block, blockIP, blockApp, blockDomain, blockPort
<1>2. CASE Unblock
  BY <1>2 DEF Unblock, unblockIP, unblockApp, unblockDomain, unblockPort
<1>3. CASE clearAll
  BY <1>3 DEF clearAll, ClearDomains
<1> QED
  BY <1>1, <1>2, <1>3 DEF RuleStep

\* The rules in force after a step.
LEMMA StandingNext ==
  ASSUME NEW r \in Standing'
  PROVE  \/ \E x \in blocked_ips' : r = <<"ip", x>>
         \/ \E x \in blocked_apps' : r = <<"app", x>>
         \/ \E x \in blocked_domains' : r = <<"domain", x>>
         \/ \E x \in ToSet(domain_patterns') : r = <<"pattern", x>>
         \/ \E x \in blocked_ports' : r = <<"port", x>>
<1>1. Standing' = StandingOf(blocked_ips', blocked_apps', blocked_domains', domain_patterns', blocked_ports')
  BY DEF Standing, StandingOf
<1> QED
  BY <1>1, InStanding

\* A set that clearAll has reached holds nothing of what stood at its call.
LEMMA ClearKeeps ==
  ASSUME ClearInv, RuleStep,
         leftover' = Standing' \cap (IF clearing = "none" /\ clearing' # "none" THEN Standing ELSE leftover)
  PROVE  ClearInv'
<1> SUFFICES ASSUME NEW r \in leftover' PROVE KindNo(r[1]) >= NotReached(clearing')
  BY DEF ClearInv
<1>1. KindNo(r[1]) \in 1 .. 5
  BY KindNos
<1>2. r \in Standing'
  OBVIOUS
<1>3. r \in leftover \/ (clearing = "none" /\ clearing' # "none")
  OBVIOUS
<1>4. r \in leftover => KindNo(r[1]) >= NotReached(clearing)
  BY DEF ClearInv
<1>5. CASE clearing' = clearing
  BY <1>3, <1>4, <1>5
<1>6. CASE clearing' = "ips"
  BY <1>1, <1>6 DEF NotReached
<1>7. CASE clearing = "ips" /\ clearing' = "apps" /\ blocked_ips' = {}
  <2>1. KindNo(r[1]) # 1
    BY <1>2, <1>7, StandingNext, KindNos
  <2> QED
    BY <1>1, <1>7, <2>1 DEF NotReached
<1>8. CASE clearing = "apps" /\ clearing' = "domains" /\ blocked_apps' = {}
  <2>1. KindNo(r[1]) # 2
    BY <1>2, <1>8, StandingNext, KindNos
  <2>2. KindNo(r[1]) >= 2
    BY <1>3, <1>4, <1>8 DEF NotReached
  <2> QED
    BY <1>1, <1>8, <2>1, <2>2 DEF NotReached
<1>9. CASE /\ clearing = "domains" /\ clearing' = "ports"
           /\ blocked_domains' = {} /\ domain_patterns' = <<>>
  <2>1. ToSet(domain_patterns') = {}
    BY <1>9 DEF ToSet
  <2>2. KindNo(r[1]) \notin {3, 4}
    BY <1>2, <1>9, <2>1, StandingNext, KindNos
  <2>3. KindNo(r[1]) >= 3
    BY <1>3, <1>4, <1>9 DEF NotReached
  <2> QED
    BY <1>1, <1>9, <2>2, <2>3 DEF NotReached
<1>10. CASE clearing = "ports" /\ clearing' = "none" /\ blocked_ports' = {}
  <2>1. KindNo(r[1]) # 5
    BY <1>2, <1>10, StandingNext, KindNos
  <2>2. KindNo(r[1]) >= 5
    BY <1>3, <1>4, <1>10 DEF NotReached
  <2> QED
    BY <1>1, <2>1, <2>2
<1> QED
  BY <1>5, <1>6, <1>7, <1>8, <1>9, <1>10, ClearsOn

\* ClearInv holds in every state.
LEMMA ClearSafe == Spec => []ClearInv
<1>1. Init => ClearInv
  BY DEF Init, ClearInv
<1>2. ASSUME ClearInv, [Next]_vars PROVE ClearInv'
  <2>1. CASE ChangeRules
    BY <1>2, <2>1, ClearKeeps DEF ChangeRules
  <2>2. CASE Restart
    BY <2>2 DEF Restart, ClearInv
  <2>3. CASE UNCHANGED <<clearing, leftover>>
    BY <1>2, <2>3 DEF ClearInv
  <2>4. CASE SaveOpen \/ SaveIPs \/ SaveApps \/ SaveDomains \/ SavePorts \/ SaveClose
             \/ LoadRules \/ Finished \/ UNCHANGED vars
    <3>1. UNCHANGED <<clearing, leftover>>
      BY <2>4 DEF SaveOpen, SaveIPs, SaveApps, SaveDomains, SavePorts, SaveClose, SaveSection,
        LoadRules, Finished, vars, history, ruleVars
    <3> QED
      BY <2>3, <3>1
  <2> QED
    BY <1>2, <2>1, <2>2, <2>4 DEF Next
<1> QED
  BY <1>1, <1>2, PTL DEF Spec

\* No rule that stood when clearAll was called outlives it unless somebody blocked it
\* anew, whatever other threads do between its four locks.
THEOREM ClearAllEndsThem == Spec => []ClearAllClears
<1>1. ClearInv => ClearAllClears
  BY KindNos DEF ClearInv, ClearAllClears, NotReached
<1> QED
  BY <1>1, ClearSafe, PTL

---------------------------------------------------------------------------------
(* The rules and the file while it is written. *)

\* Lines that are no names are added to such lines.
LEMMA NoNamesYet ==
  ASSUME NEW f \in Seq(Line), NEW body \in Seq(Line), NEW section \in Values("header"),
         \A k \in 1 .. Len(f) : f[k].kind # "name", \A i \in 1 .. Len(body) : body[i].kind # "name"
  PROVE  LET g == WithSection(f, section, body) IN \A k \in 1 .. Len(g) : g[k].kind # "name"
<1> DEFINE g == WithSection(f, section, body)
           h == Len(f) + 1
<1>1. /\ Len(g) = h + Len(body)
      /\ \A k \in 1 .. Len(f) : g[k] = f[k]
      /\ g[h].kind = "header"
      /\ \A k \in h + 1 .. Len(g) : k - h \in 1 .. Len(body) /\ g[k] = body[k - h]
  BY SectionPlaces
<1>2. h \in Nat /\ Len(f) \in Nat /\ Len(body) \in Nat /\ h = Len(f) + 1
  OBVIOUS
<1> HIDE DEF g, h
<1>3. ASSUME NEW k \in 1 .. Len(g) PROVE g[k].kind # "name"
  <2>1. k \in 1 .. Len(f) \/ k = h \/ k \in h + 1 .. Len(g)
    BY <1>1, <1>2
  <2> QED
    BY <1>1, <2>1
<1> QED
  BY <1>3 DEF g

\* Saving never changes the rules.
LEMMA SavingKeepsRules ==
  ASSUME RulesInv, pc \in Saving, pc' \in Saving, UNCHANGED <<ruleVars, changes, history>>
  PROVE  RulesInv'
<1>1. /\ UNCHANGED <<rules, clearing, changes, stood, ever, atCall, quiet, cut>>
      /\ UNCHANGED <<blocked_ips, blocked_apps, blocked_domains, domain_patterns, blocked_ports>>
  BY DEF ruleVars, history, saved, rules
<1>2. pc # "restored" /\ pc # "restarted" /\ pc # "idle" /\ ~cut
      /\ pc' # "restored" /\ pc' # "restarted" /\ pc' # "idle"
  BY DEF Saving, RulesInv
<1>3. RulesTypeOK' /\ RulesFinite'
  BY <1>1, <1>2 DEF RulesInv, RulesTypeOK, RulesFinite
<1>4. Standing' = Standing
  BY <1>1 DEF Standing
<1> QED
  BY <1>1, <1>2, <1>3, <1>4 DEF RulesInv

\* What is known before a section is written.
LEMMA BeforeSection ==
  ASSUME RulesInv, FileInv, pc \in Saving
  PROVE  /\ ~cut /\ stood \subseteq Standing /\ Standing \subseteq ever
         /\ RulesTypeOK /\ RulesFinite
         /\ file \in Seq(Line) /\ InSections(file) /\ InOrder(file, stood)
         /\ Genuine(file, Len(file), ever) /\ Written(file, Done(pc), stood)
<1>1. ~cut /\ pc # "restored"
  BY DEF Saving, RulesInv
<1> QED
  BY <1>1 DEF RulesInv, FileInv

\* The three sections of one kind.
LEMMA SaveIPsKeeps ==
  ASSUME RulesInv, FileInv, SaveIPs
  PROVE  RulesInv' /\ FileInv'
<1>1. /\ pc = "ips" /\ pc' = "apps" /\ UNCHANGED <<ruleVars, changes, history>>
      /\ \E body \in IPLines : file' = WithSection(file, Section("ip"), body)
  BY DEF SaveIPs, SaveSection, WithSection, Section
<1>2. PICK body \in IPLines : file' = WithSection(file, Section("ip"), body)
  BY <1>1
<1>3. pc \in Saving /\ pc' \in Saving
  BY <1>1 DEF Saving
<1>4. RulesInv'
  BY <1>1, <1>3, SavingKeepsRules
<1>5. /\ ~cut /\ stood \subseteq Standing /\ Standing \subseteq ever /\ RulesTypeOK /\ RulesFinite
      /\ file \in Seq(Line) /\ InSections(file) /\ InOrder(file, stood)
      /\ Genuine(file, Len(file), ever) /\ Written(file, Done(pc), stood)
  BY <1>3, BeforeSection
<1>6. Lists(body, "ip", "ip", blocked_ips)
  BY <1>5, IPsListed DEF RulesTypeOK, RulesFinite
<1>7. Done(pc) = 0 /\ Done(pc') = 0 + 1 /\ 0 \in Nat /\ "ip" \in LineKinds \ {"header"}
      /\ Section("ip") \in Values("header")
  BY <1>1 DEF Done, LineKinds, Section, Values
<1>8. \A x \in blocked_ips : <<"ip", x>> \in ever
  BY <1>5, StandingHas
<1>9. \A r \in stood : KindNo(r[1]) = 0 + 1 => \E x \in blocked_ips : r = <<"ip", x>>
  BY <1>5, StandingKinds
<1>10. /\ file' \in Seq(Line) /\ InSections(file') /\ InOrder(file', stood)
       /\ Genuine(file', Len(file'), ever) /\ Written(file', 0 + 1, stood)
  <2>1. KindNo("ip") = 0 + 1
    BY KindNos
  <2>2. Written(file, 0, stood)
    BY <1>5, <1>7
  <2> QED
    BY <1>2, <1>5, <1>6, <1>7, <1>8, <1>9, <2>1, <2>2, ListAdded
<1>11. UNCHANGED <<stood, ever, cut, quiet, atCall>>
  BY <1>1 DEF history, saved
<1>12. \A k \in 1 .. Len(file') : file'[k].kind # "name"
  <2>1. \A k \in 1 .. Len(file) : file[k].kind # "name"
    BY <1>1 DEF FileInv
  <2>2. body \in Seq(Line) /\ \A i \in 1 .. Len(body) : body[i].kind # "name"
    BY <1>6 DEF Lists
  <2> QED
    BY <1>2, <1>5, <1>7, <2>1, <2>2, NoNamesYet
<1>13. ~(Done(pc') >= 4)
  BY <1>7
<1> QED
  BY <1>4, <1>5, <1>7, <1>10, <1>11, <1>12, <1>13 DEF FileInv

LEMMA SaveAppsKeeps ==
  ASSUME RulesInv, FileInv, SaveApps
  PROVE  RulesInv' /\ FileInv'
<1>1. /\ pc = "apps" /\ pc' = "domains" /\ UNCHANGED <<ruleVars, changes, history>>
      /\ \E body \in AppLines : file' = WithSection(file, Section("app"), body)
  BY DEF SaveApps, SaveSection, WithSection, Section
<1>2. PICK body \in AppLines : file' = WithSection(file, Section("app"), body)
  BY <1>1
<1>3. pc \in Saving /\ pc' \in Saving
  BY <1>1 DEF Saving
<1>4. RulesInv'
  BY <1>1, <1>3, SavingKeepsRules
<1>5. /\ ~cut /\ stood \subseteq Standing /\ Standing \subseteq ever /\ RulesTypeOK /\ RulesFinite
      /\ file \in Seq(Line) /\ InSections(file) /\ InOrder(file, stood)
      /\ Genuine(file, Len(file), ever) /\ Written(file, Done(pc), stood)
  BY <1>3, BeforeSection
<1>6. Lists(body, "app", "app", blocked_apps)
  BY <1>5, AppsListed DEF RulesTypeOK, RulesFinite
<1>7. Done(pc) = 1 /\ Done(pc') = 1 + 1 /\ 1 \in Nat /\ "app" \in LineKinds \ {"header"}
      /\ Section("app") \in Values("header")
  BY <1>1 DEF Done, LineKinds, Section, Values
<1>8. \A x \in blocked_apps : <<"app", x>> \in ever
  BY <1>5, StandingHas
<1>9. \A r \in stood : KindNo(r[1]) = 1 + 1 => \E x \in blocked_apps : r = <<"app", x>>
  BY <1>5, StandingKinds
<1>10. /\ file' \in Seq(Line) /\ InSections(file') /\ InOrder(file', stood)
       /\ Genuine(file', Len(file'), ever) /\ Written(file', 1 + 1, stood)
  <2>1. KindNo("app") = 1 + 1
    BY KindNos
  <2>2. Written(file, 1, stood)
    BY <1>5, <1>7
  <2> QED
    BY <1>2, <1>5, <1>6, <1>7, <1>8, <1>9, <2>1, <2>2, ListAdded
<1>11. UNCHANGED <<stood, ever, cut, quiet, atCall>>
  BY <1>1 DEF history, saved
<1>12. \A k \in 1 .. Len(file') : file'[k].kind # "name"
  <2>1. \A k \in 1 .. Len(file) : file[k].kind # "name"
    BY <1>1 DEF FileInv
  <2>2. body \in Seq(Line) /\ \A i \in 1 .. Len(body) : body[i].kind # "name"
    BY <1>6 DEF Lists
  <2> QED
    BY <1>2, <1>5, <1>7, <2>1, <2>2, NoNamesYet
<1>13. ~(Done(pc') >= 4)
  BY <1>7
<1> QED
  BY <1>4, <1>5, <1>7, <1>10, <1>11, <1>12, <1>13 DEF FileInv

LEMMA SavePortsKeeps ==
  ASSUME RulesInv, FileInv, SavePorts
  PROVE  RulesInv' /\ FileInv'
<1>1. /\ pc = "ports" /\ pc' = "close" /\ UNCHANGED <<ruleVars, changes, history>>
      /\ \E body \in PortLines : file' = WithSection(file, Section("port"), body)
  BY DEF SavePorts, SaveSection, WithSection, Section
<1>2. PICK body \in PortLines : file' = WithSection(file, Section("port"), body)
  BY <1>1
<1>3. pc \in Saving /\ pc' \in Saving
  BY <1>1 DEF Saving
<1>4. RulesInv'
  BY <1>1, <1>3, SavingKeepsRules
<1>5. /\ ~cut /\ stood \subseteq Standing /\ Standing \subseteq ever /\ RulesTypeOK /\ RulesFinite
      /\ file \in Seq(Line) /\ InSections(file) /\ InOrder(file, stood)
      /\ Genuine(file, Len(file), ever) /\ Written(file, Done(pc), stood)
  BY <1>3, BeforeSection
<1>6. Lists(body, "port", "port", blocked_ports)
  BY <1>5, PortsListed DEF RulesTypeOK, RulesFinite
<1>7. Done(pc) = 4 /\ Done(pc') = 4 + 1 /\ 4 \in Nat /\ "port" \in LineKinds \ {"header"}
      /\ Section("port") \in Values("header")
  BY <1>1 DEF Done, LineKinds, Section, Values
<1>8. \A x \in blocked_ports : <<"port", x>> \in ever
  BY <1>5, StandingHas
<1>9. \A r \in stood : KindNo(r[1]) = 4 + 1 => \E x \in blocked_ports : r = <<"port", x>>
  BY <1>5, StandingKinds
<1>10. /\ file' \in Seq(Line) /\ InSections(file') /\ InOrder(file', stood)
       /\ Genuine(file', Len(file'), ever) /\ Written(file', 4 + 1, stood)
  <2>1. KindNo("port") = 4 + 1
    BY KindNos
  <2>2. Written(file, 4, stood)
    BY <1>5, <1>7
  <2> QED
    BY <1>2, <1>5, <1>6, <1>7, <1>8, <1>9, <2>1, <2>2, ListAdded
<1>11. UNCHANGED <<stood, ever, cut, quiet, atCall>>
  BY <1>1 DEF history, saved
<1>12. \E d \in Nat, p \in Seq(Patterns) :
         Len(p) <= MaxPatterns /\ PatternsAt(file', d, p) /\ (quiet => p = atCall[4])
  <2>1. PICK d \in Nat, p \in Seq(Patterns) :
          Len(p) <= MaxPatterns /\ PatternsAt(file, d, p) /\ (quiet => p = atCall[4])
    BY <1>5, <1>7 DEF FileInv
  <2>2. body \in Seq(Line) /\ \A i \in 1 .. Len(body) : body[i].kind # "name"
    BY <1>6 DEF Lists
  <2>3. PatternsAt(file', d, p)
    BY <1>2, <1>5, <1>7, <2>1, <2>2, PatternsStay
  <2> QED
    BY <2>1, <2>3
<1>13. pc' \notin {"ips", "apps", "domains"}
  BY <1>1
<1> QED
  BY <1>4, <1>5, <1>7, <1>10, <1>11, <1>12, <1>13 DEF FileInv

\* The section of the names and patterns.
LEMMA SaveDomainsKeeps ==
  ASSUME RulesInv, FileInv, SaveDomains
  PROVE  RulesInv' /\ FileInv'
<1>1. /\ pc = "domains" /\ pc' = "ports" /\ UNCHANGED <<ruleVars, changes, history>>
      /\ \E body \in DomainLines : file' = WithSection(file, "DOMAINS", body)
  BY DEF SaveDomains, SaveSection, WithSection
<1>2. PICK body \in DomainLines : file' = WithSection(file, "DOMAINS", body)
  BY <1>1
<1>3. pc \in Saving /\ pc' \in Saving
  BY <1>1 DEF Saving
<1>4. RulesInv'
  BY <1>1, <1>3, SavingKeepsRules
<1>5. /\ ~cut /\ stood \subseteq Standing /\ Standing \subseteq ever /\ RulesTypeOK /\ RulesFinite
      /\ file \in Seq(Line) /\ InSections(file) /\ InOrder(file, stood)
      /\ Genuine(file, Len(file), ever) /\ Written(file, Done(pc), stood)
  BY <1>3, BeforeSection
<1>6. Done(pc) = 2 /\ Done(pc') = 4
  BY <1>1 DEF Done
<1>7. /\ blocked_domains \subseteq Domains /\ IsFiniteSet(blocked_domains)
      /\ domain_patterns \in Seq(Patterns) /\ Len(domain_patterns) <= MaxPatterns
  BY <1>5 DEF RulesTypeOK, RulesFinite
<1>8. /\ file' \in Seq(Line) /\ InSections(file') /\ InOrder(file', stood)
      /\ Genuine(file', Len(file'), ever) /\ Written(file', 4, stood)
      /\ \E d \in Nat : PatternsAt(file', d, domain_patterns)
  <2>1. \A k \in 1 .. Len(file) : file[k].kind # "name"
    BY <1>1 DEF FileInv
  <2>2. Written(file, 2, stood)
    BY <1>5, <1>6
  <2> QED
    BY <1>2, <1>5, <1>7, <2>1, <2>2, DomainsAdded
<1>9. UNCHANGED <<stood, ever, cut, quiet, atCall>>
  BY <1>1 DEF history, saved
<1>10. quiet => domain_patterns = atCall[4]
  BY <1>3 DEF RulesInv, rules
<1>11. \E d \in Nat, p \in Seq(Patterns) :
         Len(p) <= MaxPatterns /\ PatternsAt(file', d, p) /\ (quiet => p = atCall[4])
  BY <1>7, <1>8, <1>10
<1>12. pc' \notin {"ips", "apps", "domains"}
  BY <1>1
<1> QED
  BY <1>4, <1>5, <1>6, <1>8, <1>9, <1>11, <1>12 DEF FileInv

---------------------------------------------------------------------------------
(* What can be left of a file. *)

\* A part of a number is a smaller one.
LEMMA DigitsType ==
  ASSUME NEW n \in Nat, NEW d \in Digits(n)
  PROVE  d \in Nat /\ d <= n
<1>1. PICK e \in {1, 10, 100, 1000, 10000} : d = n \div e
  BY DEF Digits
<1>2. CASE e = 1
  BY <1>1, <1>2
<1>3. CASE e = 10
  BY <1>1, <1>3
<1>4. CASE e = 100
  BY <1>1, <1>4
<1>5. CASE e = 1000
  BY <1>1, <1>5
<1>6. CASE e = 10000
  BY <1>1, <1>6
<1> QED
  BY <1>2, <1>3, <1>4, <1>5, <1>6

\* The elements of a sequence.
LEMMA Elements ==
  ASSUME NEW B, NEW v \in Seq(B), NEW k \in 1 .. Len(v)
  PROVE  v[k] \in B
OBVIOUS

\* An address cut short is four bytes again.
LEMMA CutTuple ==
  ASSUME NEW B, NEW zero \in B, NEW v \in Seq(B), Len(v) = 4, NEW k \in 1 .. 4, NEW d \in B
  PROVE  SubSeq(v, 1, k - 1) \o <<d>> \o SubSeq(<<zero, zero, zero>>, k, 3) \in Seq(B)
<1> DEFINE z == <<zero, zero, zero>>
<1>1. SubSeq(v, 1, k - 1) \in Seq(B)
  <2>1. k - 1 \in Nat /\ k - 1 <= Len(v)
    OBVIOUS
  <2>2. ASSUME NEW i \in 1 .. k - 1 PROVE v[i] \in B
    <3>1. i \in 1 .. Len(v)
      OBVIOUS
    <3> QED
      BY <3>1, Elements
  <2> QED
    BY <2>1, <2>2
<1>2. <<d>> \in Seq(B)
  OBVIOUS
<1>3. z \in Seq(B) /\ Len(z) = 3
  OBVIOUS
<1> HIDE DEF z
<1>4. SubSeq(z, k, 3) \in Seq(B)
  <2>1. ASSUME NEW i \in k .. 3 PROVE z[i] \in B
    <3>1. i \in 1 .. Len(z)
      BY <1>3
    <3> QED
      BY <1>3, <3>1, Elements
  <2> QED
    BY <1>3, <2>1
<1>5. \A p, q, r \in Seq(B) : p \o q \o r \in Seq(B)
  OBVIOUS
<1> QED
  BY <1>1, <1>2, <1>4, <1>5 DEF z

LEMMA CutAddress ==
  ASSUME NEW v \in Seq(0 .. 255), Len(v) = 4, NEW k \in 1 .. 4, NEW d \in Digits(v[k])
  PROVE  SubSeq(v, 1, k - 1) \o <<d>> \o SubSeq(<<0, 0, 0>>, k, 3) \in Seq(0 .. 255)
<1> DEFINE B == 0 .. 255
<1>1. v \in Seq(B) /\ k \in 1 .. Len(v)
  OBVIOUS
<1> HIDE DEF B
<1>2. v[k] \in B
  BY <1>1, Elements
<1>3. d \in B
  <2>0. \A x \in 0 .. 255 : x \in Nat /\ x <= 255
    OBVIOUS
  <2>1. v[k] \in Nat /\ v[k] <= 255
    BY <1>2, <2>0, Zenon DEF B
  <2>2. d \in Nat /\ d <= v[k]
    BY <2>1, DigitsType
  <2> QED
    BY <2>1, <2>2 DEF B
<1>4. 0 \in B
  BY DEF B
<1>5. SubSeq(v, 1, k - 1) \o <<d>> \o SubSeq(<<0, 0, 0>>, k, 3) \in Seq(B)
  BY <1>1, <1>3, <1>4, CutTuple
<1> QED
  BY <1>5 DEF B

\* What is left of a line is of its kind, and of an exact name no pattern is left.
LEMMA PieceType ==
  ASSUME NEW line \in Line, Whole(line), NEW piece \in Piece(line)
  PROVE  /\ piece \in Line /\ piece.kind = line.kind
         /\ KindNo(Rule(piece)[1]) <= KindNo(Rule(line)[1])
<1>1. line.kind \in LineKinds
  BY LineType
<1>2. CASE line.kind = "header"
  BY <1>2 DEF Piece
<1>3. CASE line.kind = "ip"
  <2>1. PICK ip \in IPs : line.value = ipToString(ip)
    BY <1>3 DEF Whole
  <2>2. line.value \in Seq(0 .. 255) /\ Len(line.value) = 4
    <3>1. \A a, b, c, d : Len(<<a, b, c, d>>) = 4
      OBVIOUS
    <3>2. Len(ipToString(ip)) = 4
      BY <3>1 DEF ipToString
    <3> QED
      BY <2>1, <3>2, AddressReadsBack
  <2>3. PICK v \in UNION {{SubSeq(line.value, 1, k - 1) \o <<d>> \o SubSeq(<<0, 0, 0>>, k, 3) :
                             d \in Digits(line.value[k])} : k \in 1 .. 4} :
          piece = [kind |-> line.kind, value |-> v]
    BY <1>3 DEF Piece
  <2>4. PICK k \in 1 .. 4 :
          \E d \in Digits(line.value[k]) :
            v = SubSeq(line.value, 1, k - 1) \o <<d>> \o SubSeq(<<0, 0, 0>>, k, 3)
    OBVIOUS
  <2>5. v \in Values("ip")
    <3> DEFINE value == line.value
    <3>1. value \in Seq(0 .. 255) /\ Len(value) = 4
      BY <2>2
    <3>2. PICK d \in Digits(value[k]) :
            v = SubSeq(value, 1, k - 1) \o <<d>> \o SubSeq(<<0, 0, 0>>, k, 3)
      BY <2>4, Zenon
    <3> HIDE DEF value
    <3>3. SubSeq(value, 1, k - 1) \o <<d>> \o SubSeq(<<0, 0, 0>>, k, 3) \in Seq(0 .. 255)
      BY <3>1, CutAddress, Zenon
    <3>4. v \in Seq(0 .. 255)
      BY <3>2, <3>3, Zenon
    <3> QED
      BY <3>4 DEF Values
  <2> HIDE DEF Line
  <2>6. piece \in Line /\ piece.kind = "ip"
    BY <1>3, <2>3, <2>5, LineOf DEF LineKinds
  <2>7. Rule(piece)[1] = "ip" /\ Rule(line)[1] = "ip"
    BY <1>3, <2>6, RuleOf
  <2> QED
    BY <1>3, <2>6, <2>7, KindNos
<1>4. CASE line.kind = "port"
  <2>1. line.value \in Nat
    BY <1>4, LineType DEF Values
  <2>2. PICK v \in Digits(line.value) : piece = [kind |-> line.kind, value |-> v]
    BY <1>4 DEF Piece
  <2>3. v \in Values("port")
    BY <2>1, <2>2, DigitsType DEF Values
  <2>4. piece \in Line /\ piece.kind = "port"
    BY <1>4, <2>2, <2>3, LineOf DEF LineKinds
  <2>5. Rule(piece)[1] = "port" /\ Rule(line)[1] = "port"
    BY <1>4, <2>4, RuleOf
  <2> QED
    BY <1>4, <2>4, <2>5, KindNos
<1>5. CASE line.kind = "app"
  <2>1. PICK v \in pieces(line.value) : piece = [kind |-> line.kind, value |-> v]
    BY <1>5 DEF Piece
  <2>2. v \in Values("app")
    BY <1>5, <2>1 DEF Values, Whole
  <2>3. piece \in Line /\ piece.kind = "app"
    BY <1>5, <2>1, <2>2, LineOf DEF LineKinds
  <2>4. Rule(piece)[1] = "app" /\ Rule(line)[1] = "app"
    BY <1>5, <2>3, RuleOf
  <2> QED
    BY <1>5, <2>3, <2>4, KindNos
<1>6. CASE line.kind = "name"
  <2>1. PICK v \in pieces(line.value) : piece = [kind |-> line.kind, value |-> v]
    BY <1>6 DEF Piece
  <2>2. v \in Values("name") /\ line.value \in Domains \cup Patterns
    BY <1>6, <2>1 DEF Values, Whole
  <2>3. piece \in Line /\ piece.kind = "name" /\ piece.value = v
    BY <1>6, <2>1, <2>2, LineOf DEF LineKinds
  <2>4. CASE line.value \in Patterns
    <3>1. Rule(line)[1] = "pattern"
      BY <1>6, <2>4, RuleOf, RuleFileAssumption DEF RuleFileAssumption
    <3>2. Rule(piece)[1] \in {"pattern", "domain"}
      BY <2>3, RuleOf
    <3> QED
      BY <1>6, <2>3, <3>1, <3>2, KindNos
  <2>5. CASE line.value \in Domains
    <3>1. ~starred(line.value) /\ ~starred(v)
      BY <2>1, <2>5, RuleFileAssumption DEF RuleFileAssumption
    <3>2. Rule(line)[1] = "domain" /\ Rule(piece)[1] = "domain"
      BY <1>6, <2>3, <3>1, RuleOf
    <3> QED
      BY <1>6, <2>3, <3>2, KindNos
  <2> QED
    BY <2>2, <2>4, <2>5
<1> QED
  BY <1>1, <1>2, <1>3, <1>4, <1>5, <1>6 DEF LineKinds

\* A beginning of a file, its last line whole or not, keeps its sections and its order.
LEMMA BeginningKeeps ==
  ASSUME NEW f \in Seq(Line), NEW g \in Seq(Line), NEW st, NEW ev,
         Len(g) <= Len(f), \A k \in 1 .. Len(g) - 1 : g[k] = f[k],
         Len(g) # 0 => /\ g[Len(g)].kind = f[Len(g)].kind
                       /\ KindNo(Rule(g[Len(g)])[1]) <= KindNo(Rule(f[Len(g)])[1]),
         InSections(f), InOrder(f, st), Genuine(f, Len(f), ev)
  PROVE  InSections(g) /\ InOrder(g, st) /\ Genuine(g, Len(g) - 1, ev)
<1> DEFINE n == Len(g)
<1>1. n \in Nat /\ Len(f) \in Nat
  OBVIOUS
<1>2. ASSUME NEW k \in 1 .. n
      PROVE  /\ k \in 1 .. Len(f) /\ g[k].kind = f[k].kind
             /\ KindNo(Rule(g[k])[1]) <= KindNo(Rule(f[k])[1])
  <2>1. CASE k = n
    BY <1>1, <2>1
  <2>2. CASE k # n
    <3>1. k \in 1 .. n - 1 /\ g[k] = f[k] /\ k \in 1 .. Len(f)
      BY <1>1, <2>2
    <3>2. KindNo(Rule(f[k])[1]) \in 1 .. 5
      BY KindNos
    <3> QED
      BY <3>1, <3>2
  <2> QED
    BY <2>1, <2>2
<1>3. ASSUME NEW k \in 1 .. n, NEW j \in 1 .. k - 1 PROVE j \in 1 .. n - 1 /\ g[j] = f[j]
  BY <1>1
<1>4. InSections(g)
  <2> SUFFICES ASSUME NEW k \in 1 .. n, IsRule(g[k])
               PROVE  \E h \in 1 .. k - 1 : /\ g[h].kind = "header" /\ g[h].value = Section(g[k].kind)
                                            /\ \A i \in h + 1 .. k : g[i].kind = g[k].kind
    BY DEF InSections
  <2>1. IsRule(f[k]) /\ k \in 1 .. Len(f) /\ g[k].kind = f[k].kind
    BY <1>2 DEF IsRule
  <2>2. PICK h \in 1 .. k - 1 : /\ f[h].kind = "header" /\ f[h].value = Section(f[k].kind)
                                /\ \A i \in h + 1 .. k : f[i].kind = f[k].kind
    BY <2>1 DEF InSections
  <2>3. g[h] = f[h]
    BY <1>3
  <2>4. ASSUME NEW i \in h + 1 .. k PROVE g[i].kind = f[i].kind
    <3>1. i \in 1 .. n
      BY <1>1
    <3> QED
      BY <1>2, <3>1
  <2> QED
    BY <2>1, <2>2, <2>3, <2>4
<1>5. InOrder(g, st)
  <2> SUFFICES ASSUME NEW k \in 1 .. n, IsRule(g[k]),
                      NEW r \in st, KindNo(r[1]) < KindNo(Rule(g[k])[1])
               PROVE  \E j \in 1 .. k - 1 : IsRule(g[j]) /\ Rule(g[j]) = r
    BY DEF InOrder
  <2>1. IsRule(f[k]) /\ k \in 1 .. Len(f)
    BY <1>2 DEF IsRule
  <2>2. KindNo(r[1]) < KindNo(Rule(f[k])[1])
    <3>1. KindNo(r[1]) \in 1 .. 5 /\ KindNo(Rule(g[k])[1]) \in 1 .. 5 /\ KindNo(Rule(f[k])[1]) \in 1 .. 5
      BY KindNos
    <3> QED
      BY <1>2, <3>1
  <2>3. PICK j \in 1 .. k - 1 : IsRule(f[j]) /\ Rule(f[j]) = r
    BY <2>1, <2>2 DEF InOrder
  <2>4. g[j] = f[j]
    BY <1>3
  <2> QED
    BY <2>3, <2>4
<1>6. Genuine(g, n - 1, ev)
  <2> SUFFICES ASSUME NEW k \in 1 .. n - 1
               PROVE  Whole(g[k]) /\ (IsRule(g[k]) => Rule(g[k]) \in ev)
    BY DEF Genuine
  <2>1. k \in 1 .. Len(f) /\ g[k] = f[k]
    BY <1>1
  <2> QED
    BY <2>1 DEF Genuine
<1> QED
  BY <1>4, <1>5, <1>6

\* So does whatever is on the disk after a crash.
LEMMA CutKeeps ==
  ASSUME NEW f \in Seq(Line), NEW g \in Cuts(f), NEW st, NEW ev,
         InSections(f), InOrder(f, st), Genuine(f, Len(f), ev)
  PROVE  g \in Seq(Line) /\ InSections(g) /\ InOrder(g, st) /\ Genuine(g, Len(g) - 1, ev)
<1>1. Len(f) \in Nat
  OBVIOUS
<1>2. CASE \E n \in 0 .. Len(f) : g = SubSeq(f, 1, n)
  <2>1. PICK n \in 0 .. Len(f) : g = SubSeq(f, 1, n)
    BY <1>2
  <2>2. g \in Seq(Line) /\ Len(g) = n /\ \A k \in 1 .. n : g[k] = f[k]
    BY <2>1
  <2>3. n # 0 => g[n] = f[n]
    BY <2>2
  <2>4. \A k \in 1 .. n - 1 : g[k] = f[k]
    BY <2>2
  <2>5. KindNo(Rule(f[n])[1]) \in 1 .. 5
    BY KindNos
  <2> QED
    BY <2>2, <2>3, <2>4, <2>5, BeginningKeeps
<1>3. CASE \E n \in 1 .. Len(f) : \E line \in Piece(f[n]) : g = Append(SubSeq(f, 1, n - 1), line)
  <2>0. PICK n \in 1 .. Len(f) : \E line \in Piece(f[n]) : g = Append(SubSeq(f, 1, n - 1), line)
    BY <1>3
  <2>1. PICK line \in Piece(f[n]) : g = Append(SubSeq(f, 1, n - 1), line)
    BY <2>0
  <2>2. f[n] \in Line /\ Whole(f[n])
    BY DEF Genuine
  <2>3. line \in Line /\ line.kind = f[n].kind /\ KindNo(Rule(line)[1]) <= KindNo(Rule(f[n])[1])
    BY <2>2, PieceType
  <2>4. SubSeq(f, 1, n - 1) \in Seq(Line) /\ Len(SubSeq(f, 1, n - 1)) = n - 1
        /\ \A k \in 1 .. n - 1 : SubSeq(f, 1, n - 1)[k] = f[k]
    OBVIOUS
  <2>5. g \in Seq(Line) /\ Len(g) = n /\ g[n] = line /\ \A k \in 1 .. n - 1 : g[k] = f[k]
    BY <2>1, <2>3, <2>4
  <2> QED
    BY <2>3, <2>5, BeginningKeeps
<1> QED
  BY <1>2, <1>3 DEF Cuts

---------------------------------------------------------------------------------
(* The other steps. *)

\* An empty file.
LEMMA EmptyFile ==
  ASSUME NEW st, NEW ev
  PROVE  /\ <<>> \in Seq(Line) /\ Len(<<>>) = 0
         /\ InSections(<<>>) /\ InOrder(<<>>, st) /\ Genuine(<<>>, 0, ev) /\ Written(<<>>, 0, st)
<1>1. <<>> \in Seq(Line) /\ Len(<<>>) = 0 /\ 1 .. 0 = {}
  OBVIOUS
<1>2. Written(<<>>, 0, st)
  BY KindNos DEF Written
<1> QED
  BY <1>1, <1>2 DEF InSections, InOrder, Genuine

LEMMA InitKeeps ==
  ASSUME Init
  PROVE  RulesInv /\ FileInv
<1>1. PICK r \in Initially :
        /\ blocked_ips = r.ips /\ blocked_apps = r.apps /\ blocked_ports = r.ports
        /\ blocked_domains = r.domains /\ domain_patterns = r.patterns
  BY DEF Init
<1>2. /\ r.ips \subseteq IPs /\ r.apps \subseteq Apps /\ r.ports \subseteq Ports
      /\ r.domains \subseteq Domains /\ r.patterns \in Seq(Patterns)
      /\ IsFiniteSet(r.ips) /\ IsFiniteSet(r.apps) /\ IsFiniteSet(r.ports) /\ IsFiniteSet(r.domains)
      /\ Len(r.patterns) <= MaxPatterns
  BY RuleFileAssumption DEF RuleFileAssumption
<1>3. RulesTypeOK /\ RulesFinite
  BY <1>1, <1>2 DEF Init, RulesTypeOK, RulesFinite
<1>4. changes \in 0 .. MaxChanges
  BY RuleFileAssumption DEF Init, RuleFileAssumption
<1>5. /\ pc = "idle" /\ quiet = TRUE /\ cut = FALSE /\ file = <<>>
      /\ pc \notin Saving /\ pc \notin {"restarted", "restored"}
  BY DEF Init, Saving
<1>9. atCall = <<atCall[1], atCall[2], atCall[3], atCall[4], atCall[5]>>
  BY DEF Init, rules
<1>6. RulesInv
  BY <1>3, <1>4, <1>5, <1>9 DEF RulesInv
<1>7. Done(pc) = 0
  BY <1>5 DEF Done
<1>8. FileInv
  BY <1>5, <1>7, EmptyFile DEF FileInv
<1> QED
  BY <1>6, <1>8

LEMMA SaveOpenKeeps ==
  ASSUME RulesInv, FileInv, SaveOpen
  PROVE  RulesInv' /\ FileInv'
<1>1. /\ pc \in {"idle", "saved"} /\ pc' = "ips" /\ file' = <<>>
      /\ stood' = Standing /\ ever' = Standing /\ atCall' = rules /\ quiet' = TRUE
      /\ UNCHANGED <<changes, cut, rules, clearing>>
      /\ UNCHANGED <<blocked_ips, blocked_apps, blocked_domains, domain_patterns, blocked_ports>>
  BY DEF SaveOpen, ruleVars, rules
<1>2. ~cut /\ RulesTypeOK /\ RulesFinite
  BY <1>1 DEF RulesInv
<1>3. RulesTypeOK' /\ RulesFinite'
  BY <1>1, <1>2 DEF RulesTypeOK, RulesFinite
<1>4. Standing' = Standing
  BY <1>1 DEF Standing
<1>5. pc' \in Saving /\ pc' # "restarted" /\ pc' # "restored"
  BY <1>1 DEF Saving
<1>6. Standing = StandingOf(rules[1], rules[2], rules[3], rules[4], rules[5])
  BY StandingIs DEF rules
<1>7. RulesInv'
  <2>1. changes' \in 0 .. MaxChanges /\ quiet' \in BOOLEAN /\ cut' \in BOOLEAN
    BY <1>1 DEF RulesInv
  <2>2. ~cut'
    BY <1>1, <1>2
  <2>3. stood' \subseteq Standing' /\ Standing' \subseteq ever' /\ rules' = atCall'
    BY <1>1, <1>4
  <2>4. /\ ever' = StandingOf(atCall'[1], atCall'[2], atCall'[3], atCall'[4], atCall'[5])
        /\ stood' = ever'
    BY <1>1, <1>6
  <2>5. atCall' = <<atCall'[1], atCall'[2], atCall'[3], atCall'[4], atCall'[5]>>
    BY <1>1 DEF rules
  <2> QED
    BY <1>3, <1>5, <2>1, <2>2, <2>3, <2>4, <2>5 DEF RulesInv
<1>8. Done(pc') = 0
  BY <1>1 DEF Done
<1>9. FileInv'
  BY <1>1, <1>2, <1>8, EmptyFile DEF FileInv
<1> QED
  BY <1>7, <1>9

LEMMA SaveCloseKeeps ==
  ASSUME RulesInv, FileInv, SaveClose
  PROVE  RulesInv' /\ FileInv'
<1>1. pc = "close" /\ pc' = "saved" /\ UNCHANGED <<ruleVars, file, changes, history>>
  BY DEF SaveClose
<1>2. pc \in Saving /\ pc' \in Saving /\ Done(pc') = Done(pc)
  BY <1>1 DEF Saving, Done
<1>3. RulesInv'
  BY <1>1, <1>2, SavingKeepsRules
<1>4. UNCHANGED <<file, stood, ever, cut, quiet, atCall>>
  BY <1>1 DEF history, saved
<1>5. FileInv'
  BY <1>1, <1>2, <1>4 DEF FileInv
<1> QED
  BY <1>3, <1>5

\* A change by another thread: fewer rules have stood all the time, more at some time.
LEMMA ChangeRulesKeeps ==
  ASSUME RulesInv, FileInv, ChangeRules
  PROVE  RulesInv' /\ FileInv'
<1>1. /\ pc \notin {"restarted", "restored"} /\ RuleStep /\ quiet' = FALSE
      /\ changes' = changes + (IF clearing # "none" /\ clearing' # clearing THEN 0 ELSE 1)
      /\ changes' <= MaxChanges
      /\ stood' = stood \cap Standing' /\ ever' = ever \cup Standing'
      /\ UNCHANGED <<file, pc, cut, atCall>>
  BY DEF ChangeRules
<1>2. RulesTypeOK /\ RulesFinite /\ ~cut
  BY <1>1 DEF RulesInv
<1>3. RulesTypeOK' /\ RulesFinite'
  BY <1>1, <1>2, RulesKeepTypes, FiniteStays
<1>4. changes' \in 0 .. MaxChanges
  BY <1>1, RuleFileAssumption DEF RulesInv, RuleFileAssumption
<1>5. RulesInv'
  <2>1. stood' \subseteq Standing' /\ Standing' \subseteq ever'
    BY <1>1
  <2>2. pc' \in Saving \cup {"idle", "restarted", "restored"}
    BY <1>1 DEF RulesInv
  <2> QED
    BY <1>1, <1>2, <1>3, <1>4, <2>1, <2>2 DEF RulesInv
<1>6. InOrder(file', stood')
  BY <1>1 DEF FileInv, InOrder
<1>7. Genuine(file', Len(file'), ever')
  BY <1>1, <1>2 DEF FileInv, Genuine
<1>8. Written(file', Done(pc'), stood')
  BY <1>1, <1>2 DEF FileInv, Written
<1>9. Done(pc') >= 4 =>
        \E d \in Nat, p \in Seq(Patterns) :
          Len(p) <= MaxPatterns /\ PatternsAt(file', d, p) /\ (quiet' => p = atCall'[4])
  BY <1>1, <1>2 DEF FileInv
<1>10. FileInv'
  BY <1>1, <1>2, <1>6, <1>7, <1>8, <1>9 DEF FileInv
<1> QED
  BY <1>5, <1>10

\* The program is started again: what is on the disk is the file or a beginning of it.
LEMMA RestartKeeps ==
  ASSUME RulesInv, FileInv, Restart
  PROVE  RulesInv' /\ FileInv'
<1>1. /\ pc \in Saving /\ pc' = "restarted"
      /\ blocked_ips' = {} /\ blocked_apps' = {} /\ blocked_ports' = {}
      /\ blocked_domains' = {} /\ domain_patterns' = <<>> /\ clearing' = "none"
      /\ UNCHANGED <<changes, stood, ever, atCall, quiet>>
      /\ \/ pc = "saved" /\ UNCHANGED <<file, cut>>
         \/ file' \in Cuts(file) /\ cut' = TRUE
  BY DEF Restart, Saving
<1>2. pc # "restarted" /\ pc # "restored" /\ pc # "idle" /\ ~cut
      /\ pc' # "restored" /\ pc' # "idle" /\ pc' \notin Saving
  BY <1>1 DEF RulesInv, Saving
<1>3. RulesTypeOK' /\ RulesFinite'
  <2>1. <<>> \in Seq(Patterns) /\ Len(<<>>) = 0 /\ IsFiniteSet({})
    BY FS_EmptySet
  <2>2. domain_patterns' \in Seq(Patterns) /\ Len(domain_patterns') <= MaxPatterns
    <3>1. domain_patterns' \in Seq(Patterns) /\ Len(domain_patterns') = 0
      BY <1>1, <2>1, Zenon
    <3> QED
      BY <3>1, PatternsAssumption DEF PatternsAssumption
  <2> QED
    BY <1>1, <2>1, <2>2 DEF RulesTypeOK, RulesFinite
<1>4. RulesInv'
  <2>1. changes' \in 0 .. MaxChanges /\ quiet' \in BOOLEAN /\ cut' \in BOOLEAN
    BY <1>1 DEF RulesInv
  <2>2. /\ pc' \in Saving \cup {"idle", "restarted", "restored"}
        /\ atCall' = <<atCall'[1], atCall'[2], atCall'[3], atCall'[4], atCall'[5]>>
    BY <1>1 DEF RulesInv
  <2>3. quiet' =>
          /\ ever' = StandingOf(atCall'[1], atCall'[2], atCall'[3], atCall'[4], atCall'[5])
          /\ stood' = ever'
    BY <1>1, <1>2 DEF RulesInv
  <2> QED
    BY <1>1, <1>2, <1>3, <2>1, <2>2, <2>3 DEF RulesInv
<1>5. CASE pc = "saved" /\ UNCHANGED <<file, cut>>
  <2>1. Done(pc') = Done(pc) /\ pc' \notin {"ips", "apps", "domains"}
    BY <1>1, <1>5 DEF Done
  <2>2. FileInv'
    BY <1>1, <1>5, <2>1 DEF FileInv
  <2> QED
    BY <1>4, <2>2
<1>6. CASE file' \in Cuts(file) /\ cut' = TRUE
  <2>1. /\ file \in Seq(Line) /\ InSections(file) /\ InOrder(file, stood)
        /\ Genuine(file, Len(file), ever)
    BY <1>1, BeforeSection
  <2>2. /\ file' \in Seq(Line) /\ InSections(file') /\ InOrder(file', stood)
        /\ Genuine(file', Len(file') - 1, ever)
    BY <1>6, <2>1, CutKeeps
  <2>3. FileInv'
    BY <1>1, <1>6, <2>2 DEF FileInv
  <2> QED
    BY <1>4, <2>3
<1> QED
  BY <1>1, <1>5, <1>6

\* Reading changes neither the file nor what is remembered.
LEMMA LoadRulesKeeps ==
  ASSUME RulesInv, FileInv, LoadRules
  PROVE  RulesInv' /\ FileInv'
<1>1. pc = "restarted" /\ pc' = "restored" /\ UNCHANGED <<clearing, file, changes, stood, ever, atCall, quiet, cut>>
  BY DEF LoadRules, history, saved
<1>2. Done(pc') = Done(pc) /\ pc' \notin {"ips", "apps", "domains"} /\ pc' \notin Saving
  BY <1>1 DEF Done, Saving
<1>3. RulesInv'
  BY <1>1, <1>2 DEF RulesInv
<1>4. FileInv'
  BY <1>1, <1>2 DEF FileInv
<1> QED
  BY <1>3, <1>4

\* So the file says what it should in every state.
LEMMA FileSafe == Spec => [](RulesInv /\ FileInv)
<1>1. Init => RulesInv /\ FileInv
  BY InitKeeps
<1>2. ASSUME RulesInv, FileInv, [Next]_vars PROVE RulesInv' /\ FileInv'
  <2>1. CASE Finished \/ UNCHANGED vars
    <3>1. /\ UNCHANGED <<rules, clearing, file, pc, changes, stood, ever, atCall, quiet, cut>>
          /\ UNCHANGED <<blocked_ips, blocked_apps, blocked_domains, domain_patterns, blocked_ports>>
      BY <2>1 DEF Finished, vars, history, saved, ruleVars, rules
    <3>2. /\ (RulesTypeOK => RulesTypeOK') /\ (RulesFinite => RulesFinite') /\ Standing' = Standing
      BY <3>1 DEF RulesTypeOK, RulesFinite, Standing
    <3>3. RulesInv'
      BY <1>2, <3>1, <3>2 DEF RulesInv
    <3>4. FileInv'
      BY <1>2, <3>1 DEF FileInv
    <3> QED
      BY <3>3, <3>4
  <2> QED
    BY <1>2, <2>1, SaveOpenKeeps, SaveIPsKeeps, SaveAppsKeeps, SaveDomainsKeeps, SavePortsKeeps,
      SaveCloseKeeps, ChangeRulesKeeps, RestartKeeps, LoadRulesKeeps DEF Next
<1> QED
  BY <1>1, <1>2, PTL DEF Spec

---------------------------------------------------------------------------------
(* Reading a file. *)

\* What is there after n lines, from what there was after n - 1.
AfterLines(r, lines, after, n) ==
  IF n = 0 THEN r ELSE AfterLine(after[n - 1], lines[n])

Reads(r, lines, N, after) ==
  after = [n \in 0 .. N |-> AfterLines(r, lines, after, n)]

\* Any number of lines can be read ...
LEMMA ReadingsExist ==
  ASSUME NEW r, NEW lines, NEW N \in Nat
  PROVE  \E after : Reads(r, lines, N, after)
<1> DEFINE After(g, n) == AfterLines(r, lines, g, n)
           Ends(m) == \E g : g = [n \in 0 .. m |-> After(g, n)]
           Fails == {m \in Nat : ~Ends(m)}
<1>1. \A g, h, n : (n # 0 => g[n - 1] = h[n - 1]) => After(g, n) = After(h, n)
  BY DEF AfterLines
<1>2. Ends(0)
  <2> DEFINE g == [n \in 0 .. 0 |-> After(<<>>, n)]
  <2> HIDE DEF After
  <2>1. g = [n \in 0 .. 0 |-> After(g, n)]
    BY <1>1
  <2> QED
    BY <2>1
<1>3. ASSUME NEW m \in Nat, Ends(m) PROVE Ends(m + 1)
  <2> HIDE DEF After
  <2> PICK g : g = [n \in 0 .. m |-> After(g, n)]
    BY <1>3
  <2> DEFINE h == [n \in 0 .. m + 1 |-> After(g, n)]
  <2>1. \A n \in 0 .. m : h[n] = g[n]
    OBVIOUS
  <2>2. \A n \in 0 .. m + 1 : n # 0 => g[n - 1] = h[n - 1]
    BY <2>1
  <2>3. h = [n \in 0 .. m + 1 |-> After(h, n)]
    <3> HIDE DEF h
    <3>1. \A n \in 0 .. m + 1 : After(g, n) = After(h, n)
      <4> TAKE n \in 0 .. m + 1
      <4>1. n # 0 => g[n - 1] = h[n - 1]
        BY <2>2
      <4> QED
        BY <4>1, <1>1
    <3> QED
      BY <3>1 DEF h
  <2> HIDE DEF h
  <2> QED
    BY <2>3
<1> HIDE DEF Ends
<1>4. Fails = {}
  <2> SUFFICES ASSUME Fails # {} PROVE FALSE
    OBVIOUS
  <2>1. PICK m \in Fails : \A k \in Fails : m <= k
    BY LeastNumber
  <2>2. m \in Nat /\ m # 0
    BY <1>2
  <2>3. m - 1 \in Nat /\ m - 1 \notin Fails
    BY <2>1, <2>2
  <2> QED
    BY <1>3, <2>3, <2>2
<1>5. Ends(N)
  BY <1>4
<1> QED
  BY <1>5 DEF Ends, Reads

\* ... and loadRules reads them one after the other.
LEMMA LineByLine ==
  ASSUME NEW r, NEW lines, Len(lines) \in Nat
  PROVE  /\ Reading(r, lines)[0] = r
         /\ \A n \in 1 .. Len(lines) :
              Reading(r, lines)[n] = AfterLine(Reading(r, lines)[n - 1], lines[n])
<1> DEFINE IsReading(g) == Reads(r, lines, Len(lines), g)
<1>1. \E g : IsReading(g)
  BY ReadingsExist
<1>2. Reading(r, lines) = CHOOSE g : IsReading(g)
  BY DEF Reading, AfterLines, Reads
<1> HIDE DEF IsReading
<1>3. IsReading(CHOOSE g : IsReading(g))
  BY <1>1
<1>4. IsReading(Reading(r, lines))
  BY <1>2, <1>3
<1> DEFINE g == Reading(r, lines)
<1>5. g = [n \in 0 .. Len(lines) |-> AfterLines(r, lines, g, n)]
  BY <1>4 DEF IsReading, Reads
<1> HIDE DEF g
<1>6. \A n \in 0 .. Len(lines) : g[n] = AfterLines(r, lines, g, n)
  BY <1>5
<1> QED
  BY <1>6 DEF AfterLines, g

\* The rules that have been read, with the section that is being read.
RulesRead(r) == StandingOf(r.ips, r.apps, r.domains, r.patterns, r.ports)

IsReader(r) ==
  /\ r = [section |-> r.section, ips |-> r.ips, apps |-> r.apps, domains |-> r.domains,
          patterns |-> r.patterns, ports |-> r.ports]
  /\ r.patterns \in Seq(Values("name"))

\* What a line can do.
LineEffect(r, line, s) ==
  \/ s = r
  \/ /\ line.kind = "header" \/ (line.kind = "name" /\ line.value \in Bracketed)
     /\ s = [r EXCEPT !.section = line.value]
  \/ line.kind = "ip" /\ s = [r EXCEPT !.ips = @ \cup {parseIP(line.value)}]
  \/ line.kind = "app" /\ s = [r EXCEPT !.apps = @ \cup ({line.value} \cap AppNames)]
  \/ line.kind = "port" /\ s = [r EXCEPT !.ports = @ \cup {line.value}]
  \/ line.kind = "name" /\ ~starred(line.value) /\ s = [r EXCEPT !.domains = @ \cup {line.value}]
  \/ line.kind = "name" /\ starred(line.value) /\ s = [r EXCEPT !.patterns = Append(@, line.value)]

LEMMA LineDoes ==
  ASSUME NEW r, NEW line
  PROVE  LineEffect(r, line, AfterLine(r, line))
BY DEF AfterLine, LineEffect

\* One more at the end.
LEMMA AppendedSet ==
  ASSUME NEW S, NEW q \in Seq(S), NEW v
  PROVE  ToSet(Append(q, v)) = ToSet(q) \cup {v}
<1>1. Len(q) \in Nat /\ DOMAIN q = 1 .. Len(q)
  OBVIOUS
<1>2. /\ DOMAIN Append(q, v) = 1 .. Len(q) + 1 /\ Append(q, v)[Len(q) + 1] = v
      /\ \A i \in 1 .. Len(q) : Append(q, v)[i] = q[i]
  OBVIOUS
<1> DEFINE t == Append(q, v)
<1> HIDE DEF t
<1>3. 1 .. Len(q) + 1 = (1 .. Len(q)) \cup {Len(q) + 1}
  BY <1>1
<1>4. ToSet(t) = {t[i] : i \in 1 .. Len(q)} \cup {t[Len(q) + 1]}
  BY <1>2, <1>3 DEF ToSet, t
<1>5. {t[i] : i \in 1 .. Len(q)} = {q[i] : i \in 1 .. Len(q)}
  BY <1>2 DEF t
<1>6. ToSet(q) = {q[i] : i \in 1 .. Len(q)}
  BY <1>1 DEF ToSet
<1> QED
  BY <1>2, <1>4, <1>5, <1>6 DEF t

\* The rules of the sets.
LEMMA InRead ==
  ASSUME NEW r, NEW x
  PROVE  x \in RulesRead(r) <=>
           \/ \E y \in r.ips : x = <<"ip", y>>
           \/ \E y \in r.apps : x = <<"app", y>>
           \/ \E y \in r.domains : x = <<"domain", y>>
           \/ \E y \in ToSet(r.patterns) : x = <<"pattern", y>>
           \/ \E y \in r.ports : x = <<"port", y>>
BY InStanding DEF RulesRead

\* A rule is added to the sets, or none is.
Adds(r, s, line) ==
  /\ IsReader(s)
  /\ RulesRead(r) \subseteq RulesRead(s)
  /\ \A x \in RulesRead(s) : x \in RulesRead(r) \/ (IsRule(line) /\ x = Rule(line))
  /\ s.patterns = r.patterns \/ (IsPattern(line) /\ s.patterns = Append(r.patterns, line.value))

LEMMA EffectAdds ==
  ASSUME NEW r, IsReader(r), NEW line \in Line, NEW s, LineEffect(r, line, s)
  PROVE  Adds(r, s, line)
<1>1. /\ line.kind \in LineKinds /\ line.value \in Values(line.kind)
  BY LineType
<1>3. /\ r = [section |-> r.section, ips |-> r.ips, apps |-> r.apps, domains |-> r.domains,
              patterns |-> r.patterns, ports |-> r.ports]
      /\ r.patterns \in Seq(Values("name"))
  BY DEF IsReader
<1>4. CASE s = r
  BY <1>4, Zenon DEF Adds
<1>5. CASE s = [r EXCEPT !.section = line.value]
  <2>1. /\ s = [section |-> s.section, ips |-> s.ips, apps |-> s.apps, domains |-> s.domains,
                patterns |-> s.patterns, ports |-> s.ports]
        /\ s.ips = r.ips /\ s.apps = r.apps /\ s.domains = r.domains
        /\ s.patterns = r.patterns /\ s.ports = r.ports
    BY <1>3, <1>5
  <2> QED
    BY <1>3, <2>1 DEF Adds, IsReader, RulesRead
<1>6. CASE line.kind = "ip" /\ s = [r EXCEPT !.ips = @ \cup {parseIP(line.value)}]
  <2>1. /\ s = [section |-> s.section, ips |-> s.ips, apps |-> s.apps, domains |-> s.domains,
                patterns |-> s.patterns, ports |-> s.ports]
        /\ s.ips = r.ips \cup {parseIP(line.value)} /\ s.apps = r.apps /\ s.domains = r.domains
        /\ s.patterns = r.patterns /\ s.ports = r.ports
    BY <1>3, <1>6
  <2>2. IsRule(line) /\ Rule(line) = <<"ip", parseIP(line.value)>>
    BY <1>6, RuleOf
  <2>3. \A x : x \in RulesRead(s) <=> x \in RulesRead(r) \/ x = <<"ip", parseIP(line.value)>>
    BY <2>1, InRead
  <2> QED
    BY <1>3, <2>1, <2>2, <2>3 DEF Adds, IsReader
<1>7. CASE line.kind = "app" /\ s = [r EXCEPT !.apps = @ \cup ({line.value} \cap AppNames)]
  <2>1. /\ s = [section |-> s.section, ips |-> s.ips, apps |-> s.apps, domains |-> s.domains,
                patterns |-> s.patterns, ports |-> s.ports]
        /\ s.apps = r.apps \cup ({line.value} \cap AppNames) /\ s.ips = r.ips /\ s.domains = r.domains
        /\ s.patterns = r.patterns /\ s.ports = r.ports
    BY <1>3, <1>7
  <2>2. IsRule(line) /\ Rule(line) = <<"app", line.value>>
    BY <1>7, RuleOf
  <2>3. \A x : x \in RulesRead(s) <=>
          x \in RulesRead(r) \/ (line.value \in AppNames /\ x = <<"app", line.value>>)
    BY <2>1, InRead
  <2> QED
    BY <1>3, <2>1, <2>2, <2>3 DEF Adds, IsReader
<1>8. CASE line.kind = "port" /\ s = [r EXCEPT !.ports = @ \cup {line.value}]
  <2>1. /\ s = [section |-> s.section, ips |-> s.ips, apps |-> s.apps, domains |-> s.domains,
                patterns |-> s.patterns, ports |-> s.ports]
        /\ s.ports = r.ports \cup {line.value} /\ s.ips = r.ips /\ s.apps = r.apps
        /\ s.domains = r.domains /\ s.patterns = r.patterns
    BY <1>3, <1>8
  <2>2. IsRule(line) /\ Rule(line) = <<"port", line.value>>
    BY <1>8, RuleOf
  <2>3. \A x : x \in RulesRead(s) <=> x \in RulesRead(r) \/ x = <<"port", line.value>>
    BY <2>1, InRead
  <2> QED
    BY <1>3, <2>1, <2>2, <2>3 DEF Adds, IsReader
<1>9. CASE /\ line.kind = "name" /\ ~starred(line.value)
           /\ s = [r EXCEPT !.domains = @ \cup {line.value}]
  <2>1. /\ s = [section |-> s.section, ips |-> s.ips, apps |-> s.apps, domains |-> s.domains,
                patterns |-> s.patterns, ports |-> s.ports]
        /\ s.domains = r.domains \cup {line.value} /\ s.ips = r.ips /\ s.apps = r.apps
        /\ s.patterns = r.patterns /\ s.ports = r.ports
    BY <1>3, <1>9
  <2>2. IsRule(line) /\ Rule(line) = <<"domain", line.value>>
    BY <1>9, RuleOf
  <2>3. \A x : x \in RulesRead(s) <=> x \in RulesRead(r) \/ x = <<"domain", line.value>>
    BY <2>1, InRead
  <2> QED
    BY <1>3, <2>1, <2>2, <2>3 DEF Adds, IsReader
<1>10. CASE /\ line.kind = "name" /\ starred(line.value)
            /\ s = [r EXCEPT !.patterns = Append(@, line.value)]
  <2>1. /\ s = [section |-> s.section, ips |-> s.ips, apps |-> s.apps, domains |-> s.domains,
                patterns |-> s.patterns, ports |-> s.ports]
        /\ s.patterns = Append(r.patterns, line.value) /\ s.ips = r.ips /\ s.apps = r.apps
        /\ s.domains = r.domains /\ s.ports = r.ports
    BY <1>3, <1>10
  <2>2. IsRule(line) /\ Rule(line) = <<"pattern", line.value>> /\ IsPattern(line)
    BY <1>10, RuleOf DEF IsPattern
  <2>3. ToSet(s.patterns) = ToSet(r.patterns) \cup {line.value}
    BY <1>3, <2>1, AppendedSet
  <2>4. \A x : x \in RulesRead(s) <=> x \in RulesRead(r) \/ x = <<"pattern", line.value>>
    <3>1. s.ips = r.ips /\ s.apps = r.apps /\ s.domains = r.domains /\ s.ports = r.ports
      BY <2>1
    <3> QED
      BY <2>3, <3>1, InRead
  <2>5. s.patterns \in Seq(Values("name"))
    BY <1>1, <1>3, <1>10, <2>1
  <2> QED
    BY <2>1, <2>2, <2>4, <2>5 DEF Adds, IsReader
<1> QED
  BY <1>4, <1>5, <1>6, <1>7, <1>8, <1>9, <1>10, Zenon DEF LineEffect

\* A header begins a section, and no other line of a legible file does.
LEMMA SectionKept ==
  ASSUME NEW r, IsReader(r), NEW line \in Line
  PROVE  /\ line.kind = "header" => AfterLine(r, line).section = line.value
         /\ line.kind # "header" /\ (line.kind = "name" => line.value \notin Bracketed) =>
              AfterLine(r, line).section = r.section
<1>1. r = [section |-> r.section, ips |-> r.ips, apps |-> r.apps, domains |-> r.domains,
           patterns |-> r.patterns, ports |-> r.ports]
  BY DEF IsReader
<1>2. ASSUME NEW v PROVE [r EXCEPT !.section = v].section = v
  BY <1>1
<1>3. \A v : [r EXCEPT !.ips = v].section = r.section
  BY <1>1
<1>4. \A v : [r EXCEPT !.apps = v].section = r.section
  BY <1>1
<1>5. \A v : [r EXCEPT !.domains = v].section = r.section
  BY <1>1
<1>6. \A v : [r EXCEPT !.patterns = v].section = r.section
  BY <1>1
<1>7. \A v : [r EXCEPT !.ports = v].section = r.section
  BY <1>1
<1>8. ASSUME line.kind = "header" PROVE AfterLine(r, line).section = line.value
  <2>1. AfterLine(r, line) = [r EXCEPT !.section = line.value]
    BY <1>8 DEF AfterLine
  <2> QED
    BY <1>2, <2>1
<1>9. ASSUME line.kind # "header", line.kind = "name" => line.value \notin Bracketed
      PROVE  AfterLine(r, line).section = r.section
  <2>1. LineEffect(r, line, AfterLine(r, line))
    BY LineDoes
  <2> QED
    BY <1>3, <1>4, <1>5, <1>6, <1>7, <1>9, <2>1, Zenon DEF LineEffect
<1> QED
  BY <1>8, <1>9

\* A rule in its section is taken.
LEMMA RuleTaken ==
  ASSUME NEW r, IsReader(r), NEW line \in Line, IsRule(line), r.section = Section(line.kind),
         line.kind = "app" => line.value \in AppNames,
         line.kind = "name" => line.value \notin Bracketed \cup {EmptyName}
  PROVE  /\ Rule(line) \in RulesRead(AfterLine(r, line))
         /\ IsPattern(line) => AfterLine(r, line).patterns = Append(r.patterns, line.value)
<1> DEFINE s == AfterLine(r, line)
<1>1. r = [section |-> r.section, ips |-> r.ips, apps |-> r.apps, domains |-> r.domains,
           patterns |-> r.patterns, ports |-> r.ports] /\ r.patterns \in Seq(Values("name"))
  BY DEF IsReader
<1>2. line.kind \in {"ip", "app", "name", "port"}
  BY LineType DEF LineKinds, IsRule
<1>3. CASE line.kind = "ip"
  <2>1. s = [r EXCEPT !.ips = @ \cup {parseIP(line.value)}]
    BY <1>3 DEF AfterLine, Section
  <2>2. parseIP(line.value) \in s.ips
    BY <1>1, <2>1
  <2>3. Rule(line) = <<"ip", parseIP(line.value)>>
    BY <1>3, RuleOf
  <2> HIDE DEF s
  <2>4. Rule(line) \in RulesRead(s)
    BY <2>2, <2>3, InRead
  <2> QED
    BY <1>3, <2>4 DEF IsPattern, s
<1>4. CASE line.kind = "app"
  <2>1. s = [r EXCEPT !.apps = @ \cup ({line.value} \cap AppNames)]
    BY <1>4 DEF AfterLine, Section
  <2>2. line.value \in s.apps
    BY <1>1, <1>4, <2>1
  <2>3. Rule(line) = <<"app", line.value>>
    BY <1>4, RuleOf
  <2> HIDE DEF s
  <2>4. Rule(line) \in RulesRead(s)
    BY <2>2, <2>3, InRead
  <2> QED
    BY <1>4, <2>4 DEF IsPattern, s
<1>5. CASE line.kind = "port"
  <2>1. s = [r EXCEPT !.ports = @ \cup {line.value}]
    BY <1>5 DEF AfterLine, Section
  <2>2. line.value \in s.ports
    BY <1>1, <2>1
  <2>3. Rule(line) = <<"port", line.value>>
    BY <1>5, RuleOf
  <2> HIDE DEF s
  <2>4. Rule(line) \in RulesRead(s)
    BY <2>2, <2>3, InRead
  <2> QED
    BY <1>5, <2>4 DEF IsPattern, s
<1>6. CASE line.kind = "name" /\ ~starred(line.value)
  <2>1. s = [r EXCEPT !.domains = @ \cup {line.value}]
    BY <1>6 DEF AfterLine, Section
  <2>2. line.value \in s.domains
    BY <1>1, <2>1
  <2>3. Rule(line) = <<"domain", line.value>>
    BY <1>6, RuleOf
  <2> HIDE DEF s
  <2>4. Rule(line) \in RulesRead(s)
    BY <2>2, <2>3, InRead
  <2> QED
    BY <1>6, <2>4 DEF IsPattern, s
<1>7. CASE line.kind = "name" /\ starred(line.value)
  <2>1. s = [r EXCEPT !.patterns = Append(@, line.value)]
    BY <1>7 DEF AfterLine, Section
  <2>2. s.patterns = Append(r.patterns, line.value)
    BY <1>1, <2>1
  <2>3. line.value \in ToSet(s.patterns)
    BY <1>1, <2>2, AppendedSet
  <2>4. Rule(line) = <<"pattern", line.value>>
    BY <1>7, RuleOf
  <2> HIDE DEF s
  <2>5. Rule(line) \in RulesRead(s)
    BY <2>3, <2>4, InRead
  <2> QED
    BY <2>2, <2>5 DEF s
<1> QED
  BY <1>2, <1>3, <1>4, <1>5, <1>6, <1>7

\* After n lines: the section is the one of the last header, all the rules read so far
\* that can be read are there, and none else.
SectionIs(f, n, r) ==
  \A h \in 1 .. n :
    /\ f[h].kind = "header"
    /\ \A i \in h + 1 .. n : f[i].kind # "header" /\ (f[i].kind = "name" => f[i].value \notin Bracketed)
    => r.section = f[h].value

AllTaken(f, n, r) ==
  \A k \in 1 .. n : IsRule(f[k]) /\ KnownIn(f, f[k]) => Rule(f[k]) \in RulesRead(r)

NoneMadeUp(f, n, r) ==
  \A x \in RulesRead(r) : \E k \in 1 .. n : IsRule(f[k]) /\ Rule(f[k]) = x

\* How many of the lines d + 1 .. d + len have been read.
Behind(n, d, len) == IF n <= d THEN 0 ELSE IF n <= d + len THEN n - d ELSE len

PatternsSoFar(f, n, r) ==
  \A d \in Nat, p \in Seq(Patterns) : PatternsAt(f, d, p) =>
    /\ Len(r.patterns) <= Behind(n, d, Len(p))
    /\ LegibleIn(f) => /\ Len(r.patterns) = Behind(n, d, Len(p))
                       /\ \A i \in 1 .. Behind(n, d, Len(p)) : r.patterns[i] = p[i]

ReadUpTo(f, n, r) ==
  IsReader(r) /\ SectionIs(f, n, r) /\ AllTaken(f, n, r) /\ NoneMadeUp(f, n, r) /\ PatternsSoFar(f, n, r)

LEMMA SectionGoesOn ==
  ASSUME NEW f \in Seq(Line), NEW n \in 1 .. Len(f), NEW r, IsReader(r), SectionIs(f, n - 1, r)
  PROVE  SectionIs(f, n, AfterLine(r, f[n]))
<1> DEFINE s == AfterLine(r, f[n])
<1>1. f[n] \in Line
  OBVIOUS
<1>2. /\ f[n].kind = "header" => s.section = f[n].value
      /\ f[n].kind # "header" /\ (f[n].kind = "name" => f[n].value \notin Bracketed) =>
           s.section = r.section
  BY <1>1, SectionKept
<1> HIDE DEF s
<1> SUFFICES ASSUME NEW h \in 1 .. n, f[h].kind = "header",
                    \A i \in h + 1 .. n : /\ f[i].kind # "header"
                                          /\ f[i].kind = "name" => f[i].value \notin Bracketed
             PROVE  s.section = f[h].value
  BY DEF SectionIs, s
<1>3. CASE h = n
  BY <1>2, <1>3
<1>4. CASE h # n
  <2>1. h \in 1 .. n - 1 /\ n \in h + 1 .. n /\ \A i \in h + 1 .. n - 1 : i \in h + 1 .. n
    BY <1>4
  <2>2. r.section = f[h].value
    BY <2>1 DEF SectionIs
  <2>3. f[n].kind # "header" /\ (f[n].kind = "name" => f[n].value \notin Bracketed)
    BY <2>1
  <2> QED
    BY <1>2, <2>2, <2>3
<1> QED
  BY <1>3, <1>4

\* The section of a rule that can be read is the one it was written in.
LEMMA InItsSection ==
  ASSUME NEW f \in Seq(Line), InSections(f), NEW n \in 1 .. Len(f), NEW r, SectionIs(f, n - 1, r),
         IsRule(f[n]), f[n].kind = "name" => LegibleIn(f)
  PROVE  r.section = Section(f[n].kind)
<1>1. PICK h \in 1 .. n - 1 : /\ f[h].kind = "header" /\ f[h].value = Section(f[n].kind)
                              /\ \A i \in h + 1 .. n : f[i].kind = f[n].kind
  BY DEF InSections
<1>2. ASSUME NEW i \in h + 1 .. n - 1
      PROVE  f[i].kind # "header" /\ (f[i].kind = "name" => f[i].value \notin Bracketed)
  <2>1. i \in h + 1 .. n /\ i \in 1 .. Len(f)
    OBVIOUS
  <2>2. f[i].kind = f[n].kind
    BY <1>1, <2>1
  <2> QED
    BY <2>1, <2>2 DEF IsRule, LegibleIn
<1> QED
  BY <1>1, <1>2 DEF SectionIs

LEMMA OneMoreLine ==
  ASSUME NEW f \in Seq(Line), InSections(f), NEW n \in 1 .. Len(f), NEW r, ReadUpTo(f, n - 1, r)
  PROVE  ReadUpTo(f, n, AfterLine(r, f[n]))
<1> DEFINE line == f[n]
           s == AfterLine(r, line)
<1>1. line \in Line /\ n \in Nat /\ n - 1 \in Nat /\ Len(f) \in Nat
  OBVIOUS
<1>2. /\ IsReader(r) /\ SectionIs(f, n - 1, r) /\ AllTaken(f, n - 1, r)
      /\ NoneMadeUp(f, n - 1, r) /\ PatternsSoFar(f, n - 1, r)
  BY DEF ReadUpTo
<1>3. /\ IsReader(s)
      /\ RulesRead(r) \subseteq RulesRead(s)
      /\ \A x \in RulesRead(s) : x \in RulesRead(r) \/ (IsRule(line) /\ x = Rule(line))
      /\ s.patterns = r.patterns \/ (IsPattern(line) /\ s.patterns = Append(r.patterns, line.value))
  <2>1. LineEffect(r, line, s)
    BY LineDoes
  <2>2. Adds(r, s, line)
    BY <1>1, <1>2, <2>1, EffectAdds
  <2> QED
    BY <2>2 DEF Adds
<1>4. SectionIs(f, n, s)
  BY <1>2, SectionGoesOn
<1>5. IsRule(line) /\ KnownIn(f, line) =>
        /\ Rule(line) \in RulesRead(s)
        /\ IsPattern(line) => s.patterns = Append(r.patterns, line.value)
  <2> SUFFICES ASSUME IsRule(line), KnownIn(f, line)
               PROVE  /\ Rule(line) \in RulesRead(s)
                      /\ IsPattern(line) => s.patterns = Append(r.patterns, line.value)
    OBVIOUS
  <2>1. r.section = Section(line.kind)
    BY <1>2, InItsSection DEF KnownIn
  <2>2. /\ line.kind = "app" => line.value \in AppNames
        /\ line.kind = "name" => line.value \notin Bracketed \cup {EmptyName}
    BY DEF KnownIn, LegibleIn
  <2> QED
    BY <1>1, <1>2, <2>1, <2>2, RuleTaken
<1>6. r.patterns \in Seq(Values("name"))
  BY <1>2 DEF IsReader
<1> HIDE DEF s
<1>7. AllTaken(f, n, s)
  <2> SUFFICES ASSUME NEW k \in 1 .. n, IsRule(f[k]), KnownIn(f, f[k]) PROVE Rule(f[k]) \in RulesRead(s)
    BY DEF AllTaken
  <2>1. CASE k = n
    BY <1>5, <2>1
  <2>2. CASE k # n
    <3>1. k \in 1 .. n - 1
      BY <2>2
    <3> QED
      BY <1>2, <1>3, <3>1 DEF AllTaken
  <2> QED
    BY <2>1, <2>2
<1>8. NoneMadeUp(f, n, s)
  <2> SUFFICES ASSUME NEW x \in RulesRead(s) PROVE \E k \in 1 .. n : IsRule(f[k]) /\ Rule(f[k]) = x
    BY DEF NoneMadeUp
  <2>1. CASE IsRule(line) /\ x = Rule(line)
    BY <2>1
  <2>2. CASE x \in RulesRead(r)
    <3>1. PICK k \in 1 .. n - 1 : IsRule(f[k]) /\ Rule(f[k]) = x
      BY <1>2, <2>2 DEF NoneMadeUp
    <3> QED
      BY <3>1
  <2> QED
    BY <1>3, <2>1, <2>2
<1>9. PatternsSoFar(f, n, s)
  <2> SUFFICES ASSUME NEW d \in Nat, NEW p \in Seq(Patterns), PatternsAt(f, d, p)
               PROVE  LET m == Behind(n, d, Len(p)) IN
                      /\ Len(s.patterns) <= m
                      /\ LegibleIn(f) => Len(s.patterns) = m /\ \A i \in 1 .. m : s.patterns[i] = p[i]
    BY DEF PatternsSoFar
  <2> DEFINE l == Behind(n - 1, d, Len(p))
             m == Behind(n, d, Len(p))
  <2>1. /\ Len(r.patterns) <= l
        /\ LegibleIn(f) => Len(r.patterns) = l /\ \A i \in 1 .. l : r.patterns[i] = p[i]
    BY <1>2 DEF PatternsSoFar
  <2>2. /\ Len(p) \in Nat /\ d + Len(p) <= Len(f)
        /\ IsPattern(line) <=> n \in d + 1 .. d + Len(p)
        /\ \A i \in 1 .. Len(p) : f[d + i].value = p[i]
    BY DEF PatternsAt
  <2>3. l \in Nat /\ m \in Nat
    BY <1>1, <2>2 DEF Behind
  <2>4. Len(r.patterns) \in Nat
    BY <1>6
  <2>5. CASE IsPattern(line)
    <3>1. m = l + 1 /\ n - d \in 1 .. Len(p) /\ m = n - d /\ d + (n - d) = n
      <4>1. n > d /\ n <= d + Len(p)
        BY <1>1, <2>2, <2>5
      <4>2. m = n - d
        BY <1>1, <2>2, <4>1 DEF Behind
      <4>3. l = (n - 1) - d
        <5>1. CASE n - 1 = d
          BY <1>1, <2>2, <5>1 DEF Behind
        <5>2. CASE n - 1 # d
          BY <1>1, <2>2, <4>1, <5>2 DEF Behind
        <5> QED
          BY <5>1, <5>2
      <4> HIDE DEF l, m
      <4> QED
        BY <1>1, <2>2, <4>1, <4>2, <4>3
    <3>2. line.value = p[m]
      <4>1. f[d + (n - d)].value = p[n - d]
        BY <2>2, <3>1
      <4> QED
        BY <3>1, <4>1
    <3> HIDE DEF l, m
    <3>3. /\ Len(Append(r.patterns, line.value)) = Len(r.patterns) + 1
          /\ Append(r.patterns, line.value)[Len(r.patterns) + 1] = line.value
          /\ \A i \in 1 .. Len(r.patterns) : Append(r.patterns, line.value)[i] = r.patterns[i]
      BY <1>6
    <3>4. Len(s.patterns) <= m
      <4>1. Len(s.patterns) = Len(r.patterns) \/ Len(s.patterns) = Len(r.patterns) + 1
        BY <1>3, <3>3
      <4> QED
        BY <2>1, <2>3, <2>4, <3>1, <4>1
    <3>5. ASSUME LegibleIn(f)
          PROVE  Len(s.patterns) = m /\ \A i \in 1 .. m : s.patterns[i] = p[i]
      <4>1. KnownIn(f, line) /\ IsRule(line)
        BY <2>5, <3>5 DEF KnownIn, IsPattern, IsRule
      <4>2. s.patterns = Append(r.patterns, line.value)
        BY <1>5, <2>5, <4>1
      <4>3. Len(r.patterns) = l /\ \A i \in 1 .. l : r.patterns[i] = p[i]
        BY <2>1, <3>5
      <4>4. ASSUME NEW i \in 1 .. m PROVE s.patterns[i] = p[i]
        <5>1. i = l + 1 \/ i \in 1 .. l
          BY <2>3, <3>1
        <5> QED
          BY <3>1, <3>2, <3>3, <4>2, <4>3, <5>1
      <4> QED
        BY <3>1, <3>3, <4>2, <4>3, <4>4
    <3> QED
      BY <3>4, <3>5 DEF m
  <2>6. CASE ~IsPattern(line)
    <3>1. l = m
      BY <1>1, <2>2, <2>6 DEF Behind
    <3>2. s.patterns = r.patterns
      BY <1>3, <2>6
    <3> QED
      BY <2>1, <3>1, <3>2
  <2> QED
    BY <2>5, <2>6
<1> QED
  BY <1>3, <1>4, <1>7, <1>8, <1>9 DEF ReadUpTo, s

\* So a whole file is read.
LEMMA WholeFileRead ==
  ASSUME NEW f \in Seq(Line), InSections(f), NEW r, IsReader(r), RulesRead(r) = {}, r.patterns = <<>>
  PROVE  ReadUpTo(f, Len(f), Reading(r, f)[Len(f)])
<1> DEFINE after == Reading(r, f)
           Fails == {n \in Nat : n <= Len(f) /\ ~ReadUpTo(f, n, after[n])}
<1>1. Len(f) \in Nat
  OBVIOUS
<1>2. after[0] = r /\ \A n \in 1 .. Len(f) : after[n] = AfterLine(after[n - 1], f[n])
  BY <1>1, LineByLine
<1> HIDE DEF after
<1>3. ReadUpTo(f, 0, after[0])
  <2>1. SectionIs(f, 0, r) /\ AllTaken(f, 0, r) /\ NoneMadeUp(f, 0, r)
    BY DEF SectionIs, AllTaken, NoneMadeUp
  <2>2. PatternsSoFar(f, 0, r)
    <3>1. Len(r.patterns) = 0
      OBVIOUS
    <3>2. \A len : \A d \in Nat : Behind(0, d, len) = 0
      BY DEF Behind
    <3> QED
      BY <3>1, <3>2 DEF PatternsSoFar
  <2> QED
    BY <1>2, <2>1, <2>2 DEF ReadUpTo
<1>4. Fails = {}
  <2> SUFFICES ASSUME Fails # {} PROVE FALSE
    OBVIOUS
  <2>1. PICK m \in Fails : \A k \in Fails : m <= k
    BY LeastNumber
  <2>2. m # 0
    BY <1>3
  <2>3. m \in 1 .. Len(f) /\ m - 1 \in Nat /\ m - 1 <= Len(f) /\ m - 1 \notin Fails
    BY <1>1, <2>1, <2>2
  <2>4. ReadUpTo(f, m - 1, after[m - 1])
    BY <2>3
  <2>5. ReadUpTo(f, m, after[m])
    BY <1>2, <2>3, <2>4, OneMoreLine
  <2> QED
    BY <2>5
<1> QED
  BY <1>1, <1>4 DEF after

---------------------------------------------------------------------------------
(* The rules after a restart. *)

\* What loadRules leaves in memory is what the lines of the file say.
LEMMA LoadRulesReads ==
  ASSUME RulesInv, FileInv, LoadRules
  PROVE  ReadInv'
<1> DEFINE start == [section |-> "none", ips |-> blocked_ips, apps |-> blocked_apps,
                     domains |-> blocked_domains, patterns |-> domain_patterns,
                     ports |-> blocked_ports]
           r == Reading(start, file)[Len(file)]
<1>1. /\ pc = "restarted" /\ file' = file /\ clearing' = clearing
      /\ blocked_ips' = r.ips /\ blocked_apps' = r.apps /\ blocked_domains' = r.domains
      /\ domain_patterns' = r.patterns /\ blocked_ports' = r.ports
  BY DEF LoadRules
<1>2. /\ blocked_ips = {} /\ blocked_apps = {} /\ blocked_domains = {}
      /\ domain_patterns = <<>> /\ blocked_ports = {}
  BY <1>1 DEF RulesInv
<1>3. file \in Seq(Line) /\ InSections(file)
  BY DEF FileInv
<1>4. /\ start.ips = {} /\ start.apps = {} /\ start.domains = {}
      /\ start.patterns = <<>> /\ start.ports = {}
      /\ start = [section |-> start.section, ips |-> start.ips, apps |-> start.apps,
                  domains |-> start.domains, patterns |-> start.patterns, ports |-> start.ports]
  BY <1>2
<1> HIDE DEF start
<1>5. IsReader(start)
  <2>1. <<>> \in Seq(Values("name"))
    OBVIOUS
  <2> QED
    BY <1>4, <2>1, Zenon DEF IsReader
<1>6. RulesRead(start) = {}
  <2>1. ToSet(<<>>) = {}
    BY DEF ToSet
  <2>2. \A x : x \notin RulesRead(start)
    BY <1>4, <2>1, InRead
  <2> QED
    BY <2>2
<1>7. ReadUpTo(file, Len(file), r)
  BY <1>3, <1>4, <1>5, <1>6, WholeFileRead
<1> HIDE DEF r
<1>8. Standing' = RulesRead(r)
  BY <1>1 DEF Standing, RulesRead, StandingOf
<1>9. clearing' = "none"
  BY <1>1 DEF RulesInv
<1>10. domain_patterns' \in Seq(Values("name"))
  BY <1>1, <1>7 DEF ReadUpTo, IsReader
<1>11. \A k \in 1 .. Len(file) :
         IsRule(file[k]) /\ KnownIn(file, file[k]) => Rule(file[k]) \in Standing'
  BY <1>7, <1>8 DEF ReadUpTo, AllTaken
<1>12. \A x \in Standing' : \E k \in 1 .. Len(file) : IsRule(file[k]) /\ Rule(file[k]) = x
  BY <1>7, <1>8 DEF ReadUpTo, NoneMadeUp
<1>13. \A d \in Nat, p \in Seq(Patterns) : PatternsAt(file, d, p) =>
         Len(domain_patterns') <= Len(p) /\ (LegibleIn(file) => domain_patterns' = p)
  <2> SUFFICES ASSUME NEW d \in Nat, NEW p \in Seq(Patterns), PatternsAt(file, d, p)
               PROVE  Len(r.patterns) <= Len(p) /\ (LegibleIn(file) => r.patterns = p)
    BY <1>1
  <2>1. Len(p) \in Nat /\ d + Len(p) <= Len(file) /\ Len(file) \in Nat
    BY <1>3 DEF PatternsAt
  <2>2. Behind(Len(file), d, Len(p)) = Len(p)
    BY <2>1 DEF Behind
  <2>3. /\ Len(r.patterns) <= Len(p)
        /\ LegibleIn(file) => Len(r.patterns) = Len(p) /\ \A i \in 1 .. Len(p) : r.patterns[i] = p[i]
    BY <1>7, <2>2 DEF ReadUpTo, PatternsSoFar
  <2>4. r.patterns \in Seq(Values("name"))
    BY <1>1, <1>10
  <2>5. \A q \in Seq(Values("name")) :
          Len(q) = Len(p) /\ (\A i \in 1 .. Len(p) : q[i] = p[i]) => q = p
    OBVIOUS
  <2> QED
    BY <2>3, <2>4, <2>5
<1> QED
  BY <1>1, <1>9, <1>10, <1>11, <1>12, <1>13 DEF ReadInv

RestoreInv == RulesInv /\ FileInv /\ ReadInv

LEMMA RestoreSafe == Spec => []RestoreInv
<1>1. Init => ReadInv
  BY DEF Init, ReadInv
<1>2. ASSUME RulesInv, FileInv, ReadInv, [Next]_vars PROVE ReadInv'
  <2>1. CASE LoadRules
    BY <1>2, <2>1, LoadRulesReads
  <2>2. CASE Finished \/ UNCHANGED vars
    <3>1. /\ UNCHANGED <<clearing, file, pc>>
          /\ UNCHANGED <<blocked_ips, blocked_apps, blocked_domains, domain_patterns, blocked_ports>>
      BY <2>2 DEF Finished, vars, ruleVars, rules
    <3>2. Standing' = Standing
      BY <3>1 DEF Standing
    <3> QED
      BY <1>2, <3>1, <3>2 DEF ReadInv
  <2>3. CASE pc' # "restored"
    BY <2>3 DEF ReadInv
  <2>4. CASE SaveOpen \/ SaveIPs \/ SaveApps \/ SaveDomains \/ SavePorts \/ SaveClose
             \/ ChangeRules \/ Restart
    <3>1. pc' # "restored"
      BY <2>4 DEF SaveOpen, SaveIPs, SaveApps, SaveDomains, SavePorts, SaveClose, SaveSection,
        ChangeRules, Restart
    <3> QED
      BY <2>3, <3>1
  <2> QED
    BY <1>2, <2>1, <2>2, <2>4 DEF Next
<1> QED
  BY <1>1, <1>2, FileSafe, PTL DEF Spec, RestoreInv

\* A rule of a line that was written as a whole can be read, and its value is of its kind.
LEMMA WholeIsKnown ==
  ASSUME NEW f, NEW line \in Line, Whole(line), IsRule(line), LegibleIn(f) \/ line.kind # "name"
  PROVE  KnownIn(f, line)
<1>1. line.kind = "app" => line.value \in AppNames
  BY RuleFileAssumption DEF RuleFileAssumption, Whole
<1> QED
  BY <1>1 DEF KnownIn

LEMMA WholeKinds ==
  ASSUME NEW line \in Line, Whole(line), IsRule(line), NEW kind, NEW x, Rule(line) = <<kind, x>>
  PROVE  /\ kind = "ip" => x \in IPs
         /\ kind = "app" => x \in Apps
         /\ kind = "domain" => x \in Domains
         /\ kind = "pattern" => x \in Patterns
         /\ kind = "port" => x \in Ports
<1>1. line.kind \in {"ip", "app", "name", "port"}
  BY LineType DEF LineKinds, IsRule
<1>3. CASE line.kind = "ip"
  <2>1. PICK ip \in IPs : line.value = ipToString(ip)
    BY <1>3 DEF Whole
  <2>2. Rule(line) = <<"ip", ip>>
    BY <1>3, <2>1, RuleOf, AddressReadsBack
  <2>3. kind = "ip" /\ x = ip
    BY <2>2
  <2> QED
    BY <2>3
<1>4. CASE line.kind = "app"
  <2>1. Rule(line) = <<"app", line.value>> /\ line.value \in Apps
    BY <1>4, RuleOf DEF Whole
  <2>2. kind = "app" /\ x = line.value
    BY <2>1
  <2> QED
    BY <2>1, <2>2
<1>5. CASE line.kind = "port"
  <2>1. Rule(line) = <<"port", line.value>> /\ line.value \in Ports
    BY <1>5, RuleOf DEF Whole
  <2>2. kind = "port" /\ x = line.value
    BY <2>1
  <2> QED
    BY <2>1, <2>2
<1>6. CASE line.kind = "name" /\ starred(line.value)
  <2>1. line.value \in Patterns
    BY <1>6, RuleFileAssumption DEF RuleFileAssumption, Whole
  <2>2. Rule(line) = <<"pattern", line.value>>
    BY <1>6, RuleOf
  <2>3. kind = "pattern" /\ x = line.value
    BY <2>2
  <2> QED
    BY <2>1, <2>3
<1>7. CASE line.kind = "name" /\ ~starred(line.value)
  <2>1. line.value \in Domains
    BY <1>7, RuleFileAssumption DEF RuleFileAssumption, Whole
  <2>2. Rule(line) = <<"domain", line.value>>
    BY <1>7, RuleOf
  <2>3. kind = "domain" /\ x = line.value
    BY <2>2
  <2> QED
    BY <2>1, <2>3
<1> QED
  BY <1>1, <1>3, <1>4, <1>5, <1>6, <1>7

\* A whole save is read back: what stood throughout is there, what never stood is not.
LEMMA WholeSave ==
  ASSUME RestoreInv, pc = "restored", ~cut
  PROVE  /\ \A k \in 1 .. Len(file) : file[k] \in Line /\ Whole(file[k])
         /\ Legible => stood \subseteq Standing
         /\ Standing \subseteq ever
         /\ \A r \in stood : r[1] \in {"ip", "app", "port"} => r \in Standing
<1>1. /\ file \in Seq(Line) /\ Genuine(file, Len(file), ever) /\ Written(file, Done(pc), stood)
  BY DEF RestoreInv, FileInv
<1>2. Done(pc) = 5
  BY DEF Done
<1>3. \A k \in 1 .. Len(file) :
        /\ file[k] \in Line /\ Whole(file[k])
        /\ IsRule(file[k]) => Rule(file[k]) \in ever
  BY <1>1 DEF Genuine
<1>4. ASSUME NEW r \in stood PROVE \E k \in 1 .. Len(file) : IsRule(file[k]) /\ Rule(file[k]) = r
  <2>1. KindNo(r[1]) <= 5
    BY KindNos
  <2> QED
    BY <1>1, <1>2, <2>1 DEF Written
<1>5. /\ \A k \in 1 .. Len(file) :
           IsRule(file[k]) /\ KnownIn(file, file[k]) => Rule(file[k]) \in Standing
      /\ \A r \in Standing : \E k \in 1 .. Len(file) : IsRule(file[k]) /\ Rule(file[k]) = r
  BY DEF RestoreInv, ReadInv
<1>6. ASSUME Legible, NEW r \in stood PROVE r \in Standing
  <2>1. PICK k \in 1 .. Len(file) : IsRule(file[k]) /\ Rule(file[k]) = r
    BY <1>4
  <2>2. LegibleIn(file)
    BY <1>6 DEF Legible, LegibleIn
  <2>3. KnownIn(file, file[k])
    BY <1>3, <2>1, <2>2, WholeIsKnown
  <2> QED
    BY <1>5, <2>1, <2>3
<1>7. ASSUME NEW r \in stood, r[1] \in {"ip", "app", "port"} PROVE r \in Standing
  <2>1. PICK k \in 1 .. Len(file) : IsRule(file[k]) /\ Rule(file[k]) = r
    BY <1>4
  <2>2. file[k].kind # "name"
    <3>1. CASE starred(file[k].value)
      BY <1>7, <2>1, <3>1, RuleOf
    <3>2. CASE ~starred(file[k].value)
      BY <1>7, <2>1, <3>2, RuleOf
    <3> QED
      BY <3>1, <3>2
  <2>3. KnownIn(file, file[k])
    BY <1>3, <2>1, <2>2, WholeIsKnown
  <2> QED
    BY <1>5, <2>1, <2>3
<1>8. Standing \subseteq ever
  BY <1>3, <1>5
<1> QED
  BY <1>3, <1>6, <1>7, <1>8

\* A rule that stood for as long as a save took is in force after a restart and none is
\* that never stood, whatever other threads did to the rules between the four locks.
THEOREM StandingRulesComeBack == Spec => []StandingRulesSaved
<1>1. RestoreInv => StandingRulesSaved
  BY WholeSave DEF StandingRulesSaved
<1> QED
  BY <1>1, RestoreSafe, PTL

\* The rules stay rules of their kind, those that were read back too.
LEMMA RestoredTypes ==
  ASSUME RestoreInv, pc = "restored", ~cut
  PROVE  RulesTypeOK
<1>1. \A k \in 1 .. Len(file) : file[k] \in Line /\ Whole(file[k])
  BY WholeSave
<1>2. \A r \in Standing : \E k \in 1 .. Len(file) : IsRule(file[k]) /\ Rule(file[k]) = r
  BY DEF RestoreInv, ReadInv
<1>3. ASSUME NEW kind, NEW x, <<kind, x>> \in Standing
      PROVE  /\ kind = "ip" => x \in IPs
             /\ kind = "app" => x \in Apps
             /\ kind = "domain" => x \in Domains
             /\ kind = "pattern" => x \in Patterns
             /\ kind = "port" => x \in Ports
  <2>1. PICK k \in 1 .. Len(file) : IsRule(file[k]) /\ Rule(file[k]) = <<kind, x>>
    BY <1>2, <1>3
  <2> QED
    BY <1>1, <2>1, WholeKinds
<1>4. /\ blocked_ips \subseteq IPs /\ blocked_apps \subseteq Apps
      /\ blocked_domains \subseteq Domains /\ blocked_ports \subseteq Ports
  BY <1>3, StandingHas
<1>5. clearing = "none" /\ domain_patterns \in Seq(Values("name"))
  BY DEF RestoreInv, ReadInv
<1>6. domain_patterns \in Seq(Patterns)
  <2>1. \A x \in ToSet(domain_patterns) : x \in Patterns
    BY <1>3, StandingHas
  <2>2. \A i \in 1 .. Len(domain_patterns) : domain_patterns[i] \in ToSet(domain_patterns)
    BY <1>5 DEF ToSet
  <2>3. \A i \in 1 .. Len(domain_patterns) : domain_patterns[i] \in Patterns
    BY <2>1, <2>2
  <2> QED
    BY <1>5, <2>3
<1>7. Len(domain_patterns) <= MaxPatterns
  <2>1. Done(pc) >= 4
    BY DEF Done
  <2>2. PICK d \in Nat, p \in Seq(Patterns) : Len(p) <= MaxPatterns /\ PatternsAt(file, d, p)
    BY <2>1 DEF RestoreInv, FileInv
  <2>3. Len(domain_patterns) <= Len(p)
    BY <2>2 DEF RestoreInv, ReadInv
  <2>4. Len(p) \in Nat /\ Len(domain_patterns) \in Nat
    BY <1>5
  <2> QED
    BY <2>2, <2>3, <2>4, PatternsAssumption DEF PatternsAssumption
<1> QED
  BY <1>4, <1>5, <1>6, <1>7 DEF RulesTypeOK

\* Rules, file, program counter and bound keep their types.
THEOREM TypeCorrect == Spec => []TypeOK
<1>1. RestoreInv => TypeOK
  <2> SUFFICES ASSUME RestoreInv PROVE TypeOK
    OBVIOUS
  <2>1. RulesTypeOK \/ (cut /\ pc = "restored")
    <3>1. CASE pc # "restored"
      BY <3>1 DEF RestoreInv, RulesInv
    <3>2. CASE pc = "restored" /\ ~cut
      BY <3>2, RestoredTypes
    <3> QED
      BY <3>1, <3>2
  <2>2. \A k \in 1 .. Len(file) : file[k].value \in Values(file[k].kind)
    <3>1. file \in Seq(Line)
      BY DEF RestoreInv, FileInv
    <3>2. \A k \in 1 .. Len(file) : file[k] \in Line
      BY <3>1
    <3> QED
      BY <3>2, LineType
  <2>3. /\ pc \in {"idle", "ips", "apps", "domains", "ports", "close", "saved", "restarted", "restored"}
        /\ changes \in 0 .. MaxChanges
    BY DEF RestoreInv, RulesInv, Saving
  <2> QED
    BY <2>1, <2>2, <2>3 DEF TypeOK
<1> QED
  BY <1>1, RestoreSafe, PTL

\* Two collections of rules that are the same as one set are the same set by set.
LEMMA SameStanding ==
  ASSUME NEW ips, NEW apps, NEW domains, NEW patterns, NEW ports,
         NEW ips2, NEW apps2, NEW domains2, NEW patterns2, NEW ports2,
         StandingOf(ips, apps, domains, patterns, ports)
           = StandingOf(ips2, apps2, domains2, patterns2, ports2)
  PROVE  /\ \A x : x \in ips <=> x \in ips2
         /\ \A x : x \in apps <=> x \in apps2
         /\ \A x : x \in domains <=> x \in domains2
         /\ \A x : x \in ports <=> x \in ports2
<1>1. \A i, a, d, p, o, x :
        /\ x \in i <=> <<"ip", x>> \in StandingOf(i, a, d, p, o)
        /\ x \in a <=> <<"app", x>> \in StandingOf(i, a, d, p, o)
        /\ x \in d <=> <<"domain", x>> \in StandingOf(i, a, d, p, o)
        /\ x \in o <=> <<"port", x>> \in StandingOf(i, a, d, p, o)
  BY DEF StandingOf
<1>2. ASSUME NEW x
      PROVE  /\ x \in ips <=> x \in ips2
             /\ x \in apps <=> x \in apps2
             /\ x \in domains <=> x \in domains2
             /\ x \in ports <=> x \in ports2
  <2> DEFINE S == StandingOf(ips, apps, domains, patterns, ports)
             T == StandingOf(ips2, apps2, domains2, patterns2, ports2)
  <2>1. /\ x \in ips <=> <<"ip", x>> \in S
        /\ x \in apps <=> <<"app", x>> \in S
        /\ x \in domains <=> <<"domain", x>> \in S
        /\ x \in ports <=> <<"port", x>> \in S
    BY <1>1
  <2>2. /\ x \in ips2 <=> <<"ip", x>> \in T
        /\ x \in apps2 <=> <<"app", x>> \in T
        /\ x \in domains2 <=> <<"domain", x>> \in T
        /\ x \in ports2 <=> <<"port", x>> \in T
    BY <1>1
  <2>3. S = T
    OBVIOUS
  <2> HIDE DEF S, T
  <2> QED
    BY <2>1, <2>2, <2>3
<1> QED
  BY <1>2

\* With no other thread at work a restart gives back exactly the rules, the patterns in
\* their order and with their repetitions.
THEOREM QuietSaveIsIdentity == Spec => []QuietSaveIsExact
<1>1. RestoreInv => QuietSaveIsExact
  <2> SUFFICES ASSUME RestoreInv, pc = "restored", Legible, quiet, ~cut PROVE rules = atCall
    BY DEF QuietSaveIsExact
  <2>1. /\ ever = StandingOf(atCall[1], atCall[2], atCall[3], atCall[4], atCall[5])
        /\ stood = ever
        /\ atCall = <<atCall[1], atCall[2], atCall[3], atCall[4], atCall[5]>>
    BY DEF RestoreInv, RulesInv
  <2>2. stood \subseteq Standing /\ Standing \subseteq ever
    BY WholeSave
  <2> DEFINE ips == atCall[1]
             apps == atCall[2]
             domains == atCall[3]
             patterns == atCall[4]
             ports == atCall[5]
  <2>3. StandingOf(blocked_ips, blocked_apps, blocked_domains, domain_patterns, blocked_ports)
          = StandingOf(ips, apps, domains, patterns, ports)
    BY <2>1, <2>2, StandingIs
  <2>4. domain_patterns = patterns
    <3>1. Done(pc) >= 4 /\ LegibleIn(file)
      BY DEF Done, Legible, LegibleIn
    <3>2. PICK d \in Nat, p \in Seq(Patterns) : PatternsAt(file, d, p) /\ p = patterns
      BY <3>1 DEF RestoreInv, FileInv
    <3> QED
      BY <3>1, <3>2 DEF RestoreInv, ReadInv
  <2> HIDE DEF ips, apps, domains, patterns, ports
  <2>5. /\ \A x : x \in blocked_ips <=> x \in ips
        /\ \A x : x \in blocked_apps <=> x \in apps
        /\ \A x : x \in blocked_domains <=> x \in domains
        /\ \A x : x \in blocked_ports <=> x \in ports
    BY <2>3, SameStanding
  <2>6. blocked_ips = ips /\ blocked_apps = apps /\ blocked_domains = domains /\ blocked_ports = ports
    BY <2>5
  <2> QED
    BY <2>1, <2>4, <2>6 DEF rules, ips, apps, domains, patterns, ports
<1> QED
  BY <1>1, RestoreSafe, PTL

\* A save cut short makes up one rule at most, of the line it was cut in, and where a
\* rule of one kind has come back, all rules of earlier kinds that stood are there.
THEOREM CutSaveLosesOnlyTheEnd == Spec => []CutSaveLosesTheEnd
<1>1. RestoreInv => CutSaveLosesTheEnd
  <2> SUFFICES ASSUME RestoreInv, pc = "restored", Legible PROVE CutSaveLosesTheEnd
    BY DEF CutSaveLosesTheEnd
  <2>1. /\ file \in Seq(Line) /\ InOrder(file, stood) /\ Genuine(file, Len(file) - 1, ever)
    <3>1. Len(file) \in Nat
      BY DEF RestoreInv, FileInv
    <3> QED
      BY <3>1 DEF RestoreInv, FileInv, Genuine
  <2>2. Len(file) \in Nat /\ LegibleIn(file)
    BY <2>1 DEF Legible, LegibleIn
  <2>3. \A k \in 1 .. Len(file) - 1 :
          /\ file[k] \in Line /\ Whole(file[k])
          /\ IsRule(file[k]) => Rule(file[k]) \in ever
    BY <2>1, <2>2 DEF Genuine
  <2>4. /\ \A k \in 1 .. Len(file) :
             IsRule(file[k]) /\ KnownIn(file, file[k]) => Rule(file[k]) \in Standing
        /\ \A r \in Standing : \E k \in 1 .. Len(file) : IsRule(file[k]) /\ Rule(file[k]) = r
    BY DEF RestoreInv, ReadInv
  <2>5. Cardinality(Standing \ ever) <= 1
    <3> DEFINE extra == Standing \ ever
    <3>1. ASSUME NEW r \in extra PROVE r = Rule(file[Len(file)])
      <4>1. PICK k \in 1 .. Len(file) : IsRule(file[k]) /\ Rule(file[k]) = r
        BY <2>4
      <4>2. k \notin 1 .. Len(file) - 1
        BY <2>3, <4>1
      <4>3. k = Len(file)
        BY <2>2, <4>2
      <4> QED
        BY <4>1, <4>3
    <3>2. extra = {} \/ extra = {Rule(file[Len(file)])}
      BY <3>1
    <3> HIDE DEF extra
    <3>3. Cardinality(extra) \in {0, 1}
      BY <3>2, FS_EmptySet, FS_Singleton
    <3> QED
      BY <3>3 DEF extra
  <2>6. ASSUME NEW q \in stood, NEW r \in Standing, KindNo(q[1]) < KindNo(r[1]) PROVE q \in Standing
    <3>1. PICK k \in 1 .. Len(file) : IsRule(file[k]) /\ Rule(file[k]) = r
      BY <2>4
    <3>2. PICK j \in 1 .. k - 1 : IsRule(file[j]) /\ Rule(file[j]) = q
      BY <2>1, <2>6, <3>1 DEF InOrder
    <3>3. j \in 1 .. Len(file) - 1 /\ j \in 1 .. Len(file)
      BY <2>2
    <3>4. KnownIn(file, file[j])
      BY <2>2, <2>3, <3>2, <3>3, WholeIsKnown
    <3> QED
      BY <2>4, <3>2, <3>3, <3>4
  <2> DEFINE kinds == <<"ip", "app", "domain", "pattern", "port">>
  <2>7. \A i \in 1 .. 5 : KindNo(kinds[i]) = i
    <3>1. \A i \in 1 .. 5 : i = 1 \/ i = 2 \/ i = 3 \/ i = 4 \/ i = 5
      OBVIOUS
    <3> QED
      BY <3>1, KindNos
  <2> HIDE DEF kinds
  <2>8. ASSUME NEW i \in 1 .. 5, NEW j \in 1 .. 5, i < j,
               NEW r \in Standing, r[1] = kinds[j], NEW q \in stood, q[1] = kinds[i]
        PROVE  q \in Standing
    <3>1. KindNo(q[1]) = i /\ KindNo(r[1]) = j
      BY <2>7, <2>8
    <3> QED
      BY <2>6, <2>8, <3>1
  <2> QED
    BY <2>5, <2>8 DEF CutSaveLosesTheEnd, kinds
<1> QED
  BY <1>1, RestoreSafe, PTL
=================================================================================
