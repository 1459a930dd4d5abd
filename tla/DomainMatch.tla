---------------------------- MODULE DomainMatch ----------------------------
(***************************************************************************)
(* Host names and domain entitlements, as node-proxy/src/domainMatch.js    *)
(* and go-proxy/internal/domain/match.go compare them.                     *)
(*                                                                         *)
(* A host is the sequence of its labels, the parts between the dots.  Two  *)
(* dots in a row, a leading or a trailing dot leave the label Empty.  The  *)
(* empty string is <<>>, or <<Empty>> when it is what remains of a host    *)
(* after its last dot.  As written, a host also has a form: bare, with a   *)
(* port, or a bracketed address.                                           *)
(***************************************************************************)
EXTENDS Integers, Sequences

CONSTANTS
  Label,    \* the labels a host is written with
  Empty,    \* the empty label
  Lower     \* Lower[l] is label l in lower case

ASSUME LabelAssumption ==
  /\ Empty \in Label
  /\ Lower \in [Label -> Label]
  /\ \A l \in Label : Lower[l] = Empty <=> l = Empty

Form == {"bare", "port", "bracketed"}

HostText == [labels : Seq(Label), form : Form]

\* toLowerCase, and a bracket or a single port suffix dropped: only the
\* labels are left, whatever the form.
normalizeHost(text) ==
  [i \in 1..Len(text.labels) |-> Lower[text.labels[i]]]

NonBlank(name) == name \notin {<<>>, <<Empty>>}

\* What is left of name from its i-th label on.
SuffixFrom(name, i) == SubSeq(name, i, Len(name))

\* host === domain || host.endsWith('.' + domain)
hostAllowed(requested, domain) ==
  LET host == normalizeHost(requested)
      dom  == normalizeHost(domain)
  IN  /\ NonBlank(host) /\ NonBlank(dom)
      /\ \E i \in 1..Len(host) : SuffixFrom(host, i) = dom

isPublicHost(requested, publicDomains) ==
  \E d \in publicDomains : hostAllowed(requested, d)

\* A trailing dot ends the list one suffix early: the last slice is ''.
CandidateCount(name) ==
  IF name # <<>> /\ name[Len(name)] = Empty THEN Len(name) - 1 ELSE Len(name)

\* The keys to look up, from the most specific suffix to the least.
hostSuffixCandidates(text) ==
  LET host == normalizeHost(text)
  IN  [i \in 1..CandidateCount(host) |-> SuffixFrom(host, i)]
=============================================================================
