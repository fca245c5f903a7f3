------------------------------ MODULE RuleManager ------------------------------
(***************************************************************************)
(* RuleManager (src/rule_manager.cpp): four rule sets, each behind a       *)
(* reader-writer lock of its own.  Any thread may change rules at any      *)
(* time; one step is one critical section, so clearAll takes four.  What   *)
(* shouldBlock makes of the four locks is in FastPath.                     *)
(***************************************************************************)
EXTENDS Naturals, Sequences

CONSTANTS IPs, Ports, Apps,   \* what can be blocked
          Domains,            \* names without '*'
          Patterns,           \* names with '*'
          labels(_),          \* the dot-separated labels of a name, in lower case
          MaxPatterns         \* bound on Len(domain_patterns), which nothing bounds

ASSUME PatternsAssumption == MaxPatterns \in Nat

VARIABLES blocked_ips, blocked_apps, blocked_domains, domain_patterns, blocked_ports,
          clearing            \* the next set the thread in clearAll clears

rules == <<blocked_ips, blocked_apps, blocked_domains, domain_patterns, blocked_ports>>
ruleVars == <<rules, clearing>>

RulesTypeOK ==
  /\ blocked_ips \subseteq IPs
  /\ blocked_apps \subseteq Apps
  /\ blocked_domains \subseteq Domains
  /\ domain_patterns \in Seq(Patterns) /\ Len(domain_patterns) <= MaxPatterns
  /\ blocked_ports \subseteq Ports
  /\ clearing \in {"none", "ips", "apps", "domains", "ports"}

RulesInit ==
  /\ blocked_ips = {} /\ blocked_apps = {} /\ blocked_ports = {}
  /\ blocked_domains = {} /\ domain_patterns = <<>>
  /\ clearing = "none"

---------------------------------------------------------------------------------
\* "*.s" matches s and every name that ends in ".s"; another pattern matches
\* nothing.
domainMatchesPattern(domain, pattern) ==
  LET s == Tail(pattern) IN
  /\ Len(pattern) >= 2 /\ Head(pattern) = "*"
  /\ Len(domain) >= Len(s)
  /\ SubSeq(domain, Len(domain) - Len(s) + 1, Len(domain)) = s

\* The exact match distinguishes case, the pattern match does not.
isDomainBlocked(domain) ==
  \/ domain \in blocked_domains
  \/ \E k \in 1 .. Len(domain_patterns) :
       domainMatchesPattern(labels(domain), labels(domain_patterns[k]))

---------------------------------------------------------------------------------
blockIP(ip) ==
  /\ blocked_ips' = blocked_ips \cup {ip}
  /\ UNCHANGED <<blocked_apps, blocked_domains, domain_patterns, blocked_ports, clearing>>

unblockIP(ip) ==
  /\ blocked_ips' = blocked_ips \ {ip}
  /\ UNCHANGED <<blocked_apps, blocked_domains, domain_patterns, blocked_ports, clearing>>

blockApp(app) ==
  /\ blocked_apps' = blocked_apps \cup {app}
  /\ UNCHANGED <<blocked_ips, blocked_domains, domain_patterns, blocked_ports, clearing>>

unblockApp(app) ==
  /\ blocked_apps' = blocked_apps \ {app}
  /\ UNCHANGED <<blocked_ips, blocked_domains, domain_patterns, blocked_ports, clearing>>

\* Mutant: every name is taken for an exact one.
blockDomainExact(d) ==
  /\ blocked_domains' = blocked_domains \cup {d}
  /\ UNCHANGED <<blocked_ips, blocked_apps, domain_patterns, blocked_ports, clearing>>

\* A pattern is appended whether it is there already or not.
blockDomain(d) ==
  /\ \/ /\ d \in Patterns /\ Len(domain_patterns) < MaxPatterns
        /\ domain_patterns' = Append(domain_patterns, d)
        /\ UNCHANGED blocked_domains
     \/ /\ d \in Domains
        /\ blocked_domains' = blocked_domains \cup {d}
        /\ UNCHANGED domain_patterns
  /\ UNCHANGED <<blocked_ips, blocked_apps, blocked_ports, clearing>>

\* The first occurrence of a pattern is erased.
EraseFirst(q, d) ==
  IF \A k \in 1 .. Len(q) : q[k] # d THEN q
  ELSE LET first == CHOOSE k \in 1 .. Len(q) : q[k] = d /\ \A j \in 1 .. k - 1 : q[j] # d
       IN  SubSeq(q, 1, first - 1) \o SubSeq(q, first + 1, Len(q))

unblockDomain(d) ==
  /\ \/ /\ d \in Patterns
        /\ domain_patterns' = EraseFirst(domain_patterns, d)
        /\ UNCHANGED blocked_domains
     \/ /\ d \in Domains
        /\ blocked_domains' = blocked_domains \ {d}
        /\ UNCHANGED domain_patterns
  /\ UNCHANGED <<blocked_ips, blocked_apps, blocked_ports, clearing>>

blockPort(port) ==
  /\ blocked_ports' = blocked_ports \cup {port}
  /\ UNCHANGED <<blocked_ips, blocked_apps, blocked_domains, domain_patterns, clearing>>

unblockPort(port) ==
  /\ blocked_ports' = blocked_ports \ {port}
  /\ UNCHANGED <<blocked_ips, blocked_apps, blocked_domains, domain_patterns, clearing>>

\* Mutant: the patterns are not cleared with the exact names.
ClearExactNames == blocked_domains' = {} /\ UNCHANGED domain_patterns

ClearDomains == blocked_domains' = {} /\ domain_patterns' = <<>>

\* clearAll: each set under its own lock, one after the other.
clearAll ==
  \/ /\ clearing = "none"
     /\ clearing' = "ips"
     /\ UNCHANGED rules
  \/ /\ clearing = "ips" /\ blocked_ips' = {}
     /\ clearing' = "apps"
     /\ UNCHANGED <<blocked_apps, blocked_domains, domain_patterns, blocked_ports>>
  \/ /\ clearing = "apps" /\ blocked_apps' = {}
     /\ clearing' = "domains"
     /\ UNCHANGED <<blocked_ips, blocked_domains, domain_patterns, blocked_ports>>
  \/ /\ clearing = "domains" /\ ClearDomains
     /\ clearing' = "ports"
     /\ UNCHANGED <<blocked_ips, blocked_apps, blocked_ports>>
  \/ /\ clearing = "ports" /\ blocked_ports' = {}
     /\ clearing' = "none"
     /\ UNCHANGED <<blocked_ips, blocked_apps, blocked_domains, domain_patterns>>

Block ==
  \/ \E ip \in IPs : blockIP(ip)
  \/ \E app \in Apps : blockApp(app)
  \/ \E d \in Domains \cup Patterns : blockDomain(d)
  \/ \E port \in Ports : blockPort(port)

Unblock ==
  \/ \E ip \in IPs : unblockIP(ip)
  \/ \E app \in Apps : unblockApp(app)
  \/ \E d \in Domains \cup Patterns : unblockDomain(d)
  \/ \E port \in Ports : unblockPort(port)

RuleStep == Block \/ Unblock \/ clearAll
=================================================================================
