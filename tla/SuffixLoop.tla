----------------------------- MODULE SuffixLoop -----------------------------
(***************************************************************************)
(* The loop of HostSuffixCandidates, one iteration at a time, and the      *)
(* relation between its two uses: the list of keys to look up in Valkey    *)
(* (HostSuffixCandidates) and the test for public domains (HostAllowed)    *)
(* must accept the same domains.                                           *)
(***************************************************************************)
EXTENDS DomainMatch

CONSTANT Texts      \* the hosts and domains that are tried
ASSUME TextsAssumption == Texts \subseteq HostText

VARIABLES text, h, out, done

vars == <<text, h, out, done>>

Init ==
  /\ text \in Texts
  /\ h = normalizeHost(text)
  /\ out = <<>>
  /\ done = FALSE

\* The part after the first dot; the faulty form, for a mutant, skips a label.
RestSkipping(name) == IF Len(name) > 2 THEN Tail(Tail(name)) ELSE Tail(name)
Rest(name) == Tail(name)

\* The loop condition.  The faulty form lets the empty string into the body.
LoopOnBlank(name) == name # <<>>
LoopGoesOn(name) == NonBlank(name)

\* out = append(out, h); no dot left in h ends the loop.
Push ==
  /\ ~done
  /\ LoopGoesOn(h)
  /\ out' = Append(out, h)
  /\ \/ Len(h) = 1 /\ done' = TRUE /\ h' = h
     \/ Len(h) > 1 /\ done' = FALSE /\ h' = Rest(h)
  /\ UNCHANGED text

\* The loop condition fails.
Stop ==
  /\ ~done
  /\ ~LoopGoesOn(h)
  /\ done' = TRUE
  /\ UNCHANGED <<text, h, out>>

Next == Push \/ Stop

Spec == Init /\ [][Next]_vars

-----------------------------------------------------------------------------
TypeOK ==
  /\ text \in HostText
  /\ h \in Seq(Label)
  /\ out \in Seq(Seq(Label))
  /\ done \in BOOLEAN

\* Why the loop is right: out holds the suffixes from the first label to the
\* label before h, and h is the next suffix until the loop has ended.
Pushed == \A i \in 1..Len(out) : out[i] = SuffixFrom(normalizeHost(text), i)

Remains ==
  ~done => LET name == normalizeHost(text)
           IN  \/ name = <<>> /\ h = <<>> /\ out = <<>>
               \/ /\ Len(out) < Len(name)
                  /\ h = SuffixFrom(name, Len(out) + 1)

Complete == done => Len(out) = CandidateCount(normalizeHost(text))

IInv == TypeOK /\ Pushed /\ Remains /\ Complete

(***************************************************************************)
(* When the loop of HostSuffixCandidates ends, its list is the closed form *)
(* the other modules use: every suffix, the most specific one first.       *)
(***************************************************************************)
LoopComputesCandidates == done => out = hostSuffixCandidates(text)

(***************************************************************************)
(* HostSuffixCandidates and HostAllowed agree: a domain is looked up for a *)
(* host exactly when, configured as a public domain, it would cover it.    *)
(***************************************************************************)
CandidatesAgreeWithHostAllowed ==
  done => \A d \in Texts :
            NonBlank(normalizeHost(d)) =>
              (hostAllowed(text, d)
                 <=> \E i \in 1..Len(out) : out[i] = normalizeHost(d))
=============================================================================
