--------------------------- MODULE ServerIdentity ---------------------------
(***************************************************************************)
(* The check of the name in a certificate                                  *)
(* (src/src/tls/internals/checkServerIdentity.js): a pure function, asked  *)
(* once for a host and a certificate. A name is the sequence of its labels *)
(* (what split(".") gives: one at least) and a label a sequence of         *)
(* characters.                                                             *)
(***************************************************************************)
EXTENDS Naturals, FiniteSets, Sequences, SequencesExt

CONSTANTS Hostnames,  \* host names the program may connect to
          Patterns    \* names a certificate may carry

\* "xn--" stands for that prefix as one character, "bad" for one out of range.
Characters == {"a", "b", "A", "*", "xn--", "bad"}

ASSUME IdentityAssumption == Hostnames \cup Patterns \subseteq Seq(Seq(Characters)) \ {<<>>}

VARIABLES hostname, certificate, answer

identityVars == <<hostname, certificate, answer>>

\* altNames: dns and uri names, and whether there is another one (an address);
\* subject: whether it is there, and its common names.
CertificateType == [dns : SUBSET Patterns, uri : SUBSET Patterns, other : BOOLEAN,
                    subject : BOOLEAN, cn : SUBSET Patterns]

IdentityTypeOK == /\ hostname \in Hostnames
                  /\ certificate \in CertificateType
                  /\ answer \in {"none", "true", "Error"}

\* One name of one kind, alone or beside another kind, or none at all.
AskedCertificates ==
    LET none == [dns |-> {}, uri |-> {}, other |-> FALSE, subject |-> FALSE, cn |-> {}]
        some == {{p} : p \in Patterns}
    IN {none, [none EXCEPT !.subject = TRUE]}
       \cup {[none EXCEPT !.dns = n] : n \in some}
       \cup {[none EXCEPT !.uri = n] : n \in some}
       \cup {[none EXCEPT !.subject = TRUE, !.cn = n, !.other = b] : n \in some, b \in BOOLEAN}

IdentityInit == /\ hostname \in Hostnames
                /\ certificate \in AskedCertificates
                /\ answer = "none"

-----------------------------------------------------------------------------

\* unfqdn: one trailing dot goes.  checkServerIdentity calls it for the host, and
\* splitHost for host and patterns: a host loses up to two, a pattern one.
Unfqdn(name) == IF Len(name) > 1 /\ Last(name) = <<>> THEN Front(name) ELSE name

Lower(c) == IF c = "A" THEN "a" ELSE c

LowerLabel(label) == [i \in DOMAIN label |-> Lower(label[i])]

SplitHost(name) == LET n == Unfqdn(name) IN [i \in DOMAIN n |-> LowerLabel(n[i])]

Wild(c) == c = "*"

\* Their number is one less than the number of parts that split("*") gives.
Wildcards(label) == {i \in DOMAIN label : Wild(label[i])}

\* pattern.split("*") of a label with one wildcard.
Before(label) == SubSeq(label, 1, SelectInSeq(label, Wild) - 1)
After(label) == SubSeq(label, SelectInSeq(label, Wild) + 1, Len(label))

\* Variant: the prefix and the suffix may overlap in the host.
SubdomainMatches_Overlap(host, pattern) ==
    IsPrefix(Before(pattern), host) /\ IsSuffix(After(pattern), host)

SubdomainMatches(host, pattern) ==
    /\ Len(Before(pattern)) + Len(After(pattern)) <= Len(host)
    /\ IsPrefix(Before(pattern), host) /\ IsSuffix(After(pattern), host)

\* check(hostParts, pattern, wildcards).
Check(hostParts, pattern, wildcards) ==
    LET parts == SplitHost(pattern)
        first == parts[1]
    IN
    /\ pattern # <<<<>>>>
    /\ Len(hostParts) = Len(parts)
    /\ \A i \in DOMAIN parts : parts[i] # <<>> /\ ~Contains(parts[i], "bad")
    /\ \A i \in 2..Len(parts) : hostParts[i] = parts[i]
    /\ IF ~Contains(first, "*") \/ Contains(first, "xn--")
       THEN hostParts[1] = first
       ELSE /\ wildcards
            /\ Cardinality(Wildcards(first)) = 1
            /\ Len(parts) > 2
            /\ SubdomainMatches(hostParts[1], first)

\* A common name counts only in a certificate without alternative names.
Valid(name, cert) ==
    LET parts == SplitHost(Unfqdn(name))
        hasAltNames == cert.dns # {} \/ cert.uri # {} \/ cert.other
    IN IF hasAltNames
       THEN \/ \E p \in cert.dns : Check(parts, p, TRUE)
            \/ \E p \in cert.uri : Check(parts, p, FALSE)
       ELSE cert.subject /\ \E p \in cert.cn : Check(parts, p, TRUE)

\* A refusal is an Error object that is returned, not thrown.
CheckServerIdentity ==
    /\ answer = "none"
    /\ answer' = IF Valid(hostname, certificate) THEN "true" ELSE "Error"
    /\ UNCHANGED <<hostname, certificate>>

IdentityNext == CheckServerIdentity

IdentitySpec == IdentityInit /\ [][IdentityNext]_identityVars

-----------------------------------------------------------------------------

\* What a pattern stands for, by substitution: some text in the place of the one
\* wildcard of its first label gives the host.
Texts(host) == {SubSeq(host[1], i, j) : i \in 1..Len(host[1]) + 1, j \in 0..Len(host[1])}

Replaced(pattern, i, text) ==
    [pattern EXCEPT ![1] = SubSeq(@, 1, i - 1) \o text \o SubSeq(@, i + 1, Len(@))]

StandsFor(pattern, host, wildcards) ==
    \/ /\ ~Contains(pattern[1], "*") \/ Contains(pattern[1], "xn--")
       /\ pattern = host
    \/ /\ wildcards /\ Len(pattern) >= 3
       /\ Cardinality(Wildcards(pattern[1])) = 1 /\ ~Contains(pattern[1], "xn--")
       /\ \E i \in Wildcards(pattern[1]), text \in Texts(host) : Replaced(pattern, i, text) = host

\* A name without empty labels and without characters out of range.
Clean(name) == \A i \in DOMAIN name : name[i] # <<>> /\ ~Contains(name[i], "bad")

Names(cert) == (cert.dns \X {TRUE}) \cup (cert.uri \X {FALSE})
               \cup IF cert.dns = {} /\ cert.uri = {} /\ ~cert.other /\ cert.subject
                    THEN cert.cn \X {TRUE} ELSE {}

\* A host is accepted exactly when one of the names that count stands for it
\* (RFC 6125, which the comments of the code cite): one wildcard, in the first of
\* three or more labels, without an A-label; upper case does not matter, nor up
\* to two trailing dots of the host and one of the name, and neither overlap of
\* prefix and suffix nor an empty label can make a match.
IdentityMatches ==
    answer # "none" =>
        ((answer = "true") <=>
            \E n \in Names(certificate) :
                LET pattern == SplitHost(n[1]) IN
                Clean(pattern) /\ StandsFor(pattern, SplitHost(Unfqdn(hostname)), n[2]))
=============================================================================
