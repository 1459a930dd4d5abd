----------------------------- MODULE Authorize -----------------------------
(***************************************************************************)
(* The gate every request passes: authorizeRequest in                      *)
(* node-proxy/src/proxyHandler.js and authorize in                         *)
(* go-proxy/internal/proxy/handler.go.                                     *)
(***************************************************************************)
EXTENDS Integers

CONSTANT RequireProxyAuth
ASSUME AuthAssumption == RequireProxyAuth \in BOOLEAN

\* What the gate reads of a request: whether the allowlist has its address,
\* whether its host is public, whether it carries Basic credentials.
Facts == [ipAllowed : BOOLEAN, public : BOOLEAN, creds : BOOLEAN]

\* How authorizeDomain ends: a domain, domain_not_allowed, another error.
Lookup == {"granted", "denied", "failed"}

Pass == 200

\* The status of an error of the lookup other than a denial.
InternalError == 502

\* The order of the checks is the code's.
authorize(req, lookup) ==
  CASE ~req.ipAllowed -> 403
    [] req.ipAllowed /\ req.public -> Pass
    [] req.ipAllowed /\ ~req.public /\ ~RequireProxyAuth -> Pass
    [] req.ipAllowed /\ ~req.public /\ RequireProxyAuth /\ ~req.creds -> 407
    [] OTHER -> CASE lookup = "granted" -> Pass
                  [] lookup = "denied" -> 403
                  [] lookup = "failed" -> InternalError
=============================================================================
