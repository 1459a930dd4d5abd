---------------------------- MODULE MCExtension ----------------------------
(* Host fields with a port, one that names the admin API, and an IPv6      *)
(* address, whose last groups pass for a port when it is shown and saved.  *)
EXTENDS Extension

MCPortIn == [p \in {"", "localhost", "127.0.0.1", "1", "old", "2001", "db8", "8081", "9001"} |->
               CASE p = "1" -> 1 [] p = "2001" -> 2001 [] p = "8081" -> 8081 [] p = "9001" -> 9001
                 [] p = "127.0.0.1" -> 127 [] OTHER -> 0]
MCLegacyHost == <<"old">>
Local == HostText(FALSE, <<"localhost">>, NoPart)
Typed(text, field) == [text |-> text, port |-> field]

MCInputs ==
  {Typed(HostText(FALSE, <<"localhost", "8081">>, NoPart), 8080),
   Typed(HostText(FALSE, <<"localhost", "9001">>, NoPart), 8080),
   Typed(HostText(TRUE, <<"2001", "db8", "", "1">>, "8081"), 8080)}
MCLogins == {[id |-> "u1", password |-> TRUE]}

\* For what older versions left: an id is entered or cleared, the port is the
\* default one or another.
MCTwoLogins == MCLogins \cup {[id |-> None, password |-> TRUE]}
MCTwoPorts == {Typed(Local, 8080), Typed(Local, 8081)}
=============================================================================
