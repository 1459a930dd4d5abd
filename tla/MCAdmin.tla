------------------------------ MODULE MCAdmin ------------------------------
(***************************************************************************)
(* A user u with three keys, one without a domain, and one called [u],     *)
(* whose pattern is a glob that matches all of u's keys and misses its     *)
(* own.  Three slots; the key of [u] shares one.                           *)
(***************************************************************************)
EXTENDS Admin

MCKey == {"u:", "u:a.io", "u:b.io", "[u]:a.io"}
MCOwn == [i \in {"u", "[u]"} |-> IF i = "u" THEN {"u:", "u:a.io", "u:b.io"} ELSE {"[u]:a.io"}]
MCMatching == [i \in {"u", "[u]"} |-> {"u:", "u:a.io", "u:b.io"}]
\* [u]: is two characters longer than u: is.
MCBare == [i \in {"u", "[u]"} |-> {"u:"}]
MCSlotOf == [k \in MCKey |-> CASE k = "u:" -> 1 [] k = "u:b.io" -> 3 [] OTHER -> 2]
=============================================================================
