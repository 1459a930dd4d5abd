--------------------------- MODULE MCSessionStore ---------------------------
(* One user, the host a.b and two concurrent requests.  The TTL spans one  *)
(* or two ticks and an answer may travel one.                              *)
EXTENDS SessionStore, TLC

MCLabel == {"", "a", "b", "c"}
MCLower == [l \in MCLabel |-> l]
MCHosts == {[labels |-> <<"a", "b">>, form |-> "bare"]}
MCShortHosts == {[labels |-> <<"b">>, form |-> "bare"]}
MCSymmetry == Permutations(Requests)
=============================================================================
