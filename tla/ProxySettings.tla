--------------------------- MODULE ProxySettings ---------------------------
(***************************************************************************)
(* parseProxySettings of chrome-extension/rules.js: what the options page  *)
(* makes of the host and the port a user enters, and of those it finds     *)
(* stored when it opens.                                                   *)
(*                                                                         *)
(* A host is the sequence of its parts between colons: most have one, an   *)
(* IPv6 address several.  The empty string is <<>>.                        *)
(***************************************************************************)
EXTENDS Integers, Sequences

CONSTANT PortIn     \* PortIn[part]: the number that parseInt finds in it, 0: none

Part == DOMAIN PortIn
NoPart == "no part"
ASSUME PartAssumption ==
  /\ {"", "localhost", "127.0.0.1", "1"} \subseteq Part /\ NoPart \notin Part
  /\ PortIn \in [Part -> Nat]

AdminPorts == {3001, 9001}      \* ADMIN_API_PORTS
ValidPort == 1..65535

\* The text of the host field: brackets or not, and what follows a bracket
\* and a colon.  A scheme, a user before @ and a path are dropped.
HostText(brackets, parts, after) ==
  [brackets |-> brackets, parts |-> parts, after |-> after]
IsHostText(text) ==
  text.brackets \in BOOLEAN /\ text.parts \in Seq(Part) /\ text.after \in Part \cup {NoPart}
AsText(host) == HostText(FALSE, host, NoPart)

Refused == [host |-> <<>>, port |-> 0]

\* The part that may be a port: after the brackets, or after the last colon.
Embedded(text) ==
  IF text.brackets THEN text.after
  ELSE IF Len(text.parts) > 1 THEN text.parts[Len(text.parts)] ELSE NoPart

HasPort(text) ==
  Embedded(text) # NoPart /\ PortIn[Embedded(text)] \in ValidPort

\* What is left of the host.
HostWithoutPort(text) ==
  IF ~text.brackets /\ HasPort(text)
  THEN SubSeq(text.parts, 1, Len(text.parts) - 1) ELSE text.parts

\* The port that is checked; the faulty form looks at the port field alone.
CheckedField(text, field) == field
CheckedPort(text, field) == IF HasPort(text) THEN PortIn[Embedded(text)] ELSE field

LoopbackNames == {<<"localhost">>, <<"127.0.0.1">>, <<"", "", "1">>}
Canonical(host) == IF host \in LoopbackNames THEN <<"127.0.0.1">> ELSE host

parseProxySettings(text, field) ==
  LET host == Canonical(HostWithoutPort(text))
      port == IF HasPort(text) THEN PortIn[Embedded(text)] ELSE field
      checked == CheckedPort(text, field)
  IN  IF host \in {<<>>, <<"">>} \/ checked \notin ValidPort \/ checked \in AdminPorts
      THEN Refused ELSE [host |-> host, port |-> port]

\* The options page opens: it shows what is stored as it parses, and as it is
\* if it does not.
Shown(endpoint) ==
  LET parsed == parseProxySettings(AsText(endpoint.host), endpoint.port)
  IN  IF parsed # Refused THEN parsed ELSE endpoint
=============================================================================
