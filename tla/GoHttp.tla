------------------------------- MODULE GoHttp -------------------------------
(***************************************************************************)
(* One plain HTTP request in the Go proxy: HandleHTTP in                   *)
(* go-proxy/internal/proxy/handler.go, under the http.Server that          *)
(* go-proxy/cmd/proxy/main.go sets up.                                     *)
(*                                                                         *)
(* One goroutine runs the handler; the deadlines and the two ends act      *)
(* between its steps.  client.Timeout covers the whole exchange with the   *)
(* upstream, the body included.                                            *)
(***************************************************************************)
EXTENDS Authorize, Sequences

CONSTANT MaxChunks    \* bound: chunks of the upstream's body
ASSUME HttpAssumption == MaxChunks \in Nat

OK == 200                         \* the upstream's status, whatever it is
Refusals == {400, 403, 407, 502}

VARIABLES
  req,         \* what the gate reads, and whether the URL is a proxy request's
  pc,          \* "check", "authorize", "do", "copy" or "returned"
  status,      \* what authorize returned
  resp,        \* the status written, 0 before
  res,         \* the response: "open", "ended", or "lost" with the connection
  framed,      \* the upstream's response has a Content-Length
  upstream,    \* the exchange: "none", "open" or "closed"
  upstreamEnd, \* the upstream: "open", "whole" (all sent) or "lost"
  expired,     \* client.Timeout has passed, or the request's context is done
  bodyIn,      \* chunks of the body, not read yet
  sent,        \* how many chunks the upstream sent
  toClient     \* the chunks written to w

handlerVars == <<req, pc, status, resp>>
bodyVars == <<framed, bodyIn, sent, toClient>>
exchangeVars == <<upstream, upstreamEnd, expired>>
vars == <<handlerVars, bodyVars, exchangeVars, res>>

Request == [ipAllowed : BOOLEAN, public : BOOLEAN, creds : BOOLEAN, proxyURL : BOOLEAN]

-----------------------------------------------------------------------------
(* Pieces of the code; the forms before them are faults for mutants.       *)

\* The status of a failed exchange.
DoFailure == 502

\* The Timeout of http.Client.
HasTimeout == upstream = "open"

\* The WriteTimeout of http.Server.
NoWriteTimeout == FALSE
HasWriteTimeout == res = "open"

\* The server ends the response when the handler has returned: a response
\* shorter than its Content-Length by cutting the connection, any other as
\* complete.
ShortIsComplete == TRUE
Complete == framed => upstreamEnd = "whole" /\ Len(toClient) = sent

-----------------------------------------------------------------------------
Init ==
  /\ req \in Request
  /\ pc = "check" /\ status = 0 /\ resp = 0 /\ res = "open"
  /\ framed \in BOOLEAN
  /\ upstream = "none" /\ upstreamEnd = "open" /\ expired = FALSE
  /\ bodyIn = <<>> /\ sent = 0 /\ toClient = <<>>

\* WriteJSON: a status and a whole body, if the connection still takes it.
Send(code) ==
  /\ resp' = code
  /\ res' = IF res = "open" THEN "ended" ELSE res

\* The prefix of RequestURI, and NewRequestWithContext.
Check ==
  /\ pc = "check"
  /\ \/ req.proxyURL /\ pc' = "authorize" /\ UNCHANGED <<resp, res>>
     \/ ~req.proxyURL /\ pc' = "returned" /\ Send(400)
  /\ UNCHANGED <<bodyVars, exchangeVars, req, status>>

AuthorizeReturns ==
  /\ pc = "authorize"
  /\ \E lookup \in Lookup : status' = authorize(req, lookup)
  /\ \/ /\ status' = Pass
        /\ pc' = "do" /\ upstream' = "open" /\ UNCHANGED <<resp, res>>
     \/ /\ status' # Pass
        /\ pc' = "returned" /\ Send(status') /\ UNCHANGED upstream
  /\ UNCHANGED <<bodyVars, req, upstreamEnd, expired>>

\* client.Do: no upstream, a broken exchange, or one that took too long.
DoFails ==
  /\ pc = "do" /\ (upstreamEnd = "lost" \/ expired)
  /\ pc' = "returned" /\ upstream' = "closed"
  /\ Send(DoFailure)
  /\ UNCHANGED <<bodyVars, req, status, upstreamEnd, expired>>

\* The upstream's status and headers go into w.
DoReturns ==
  /\ pc = "do" /\ upstreamEnd # "lost" /\ ~expired
  /\ pc' = "copy" /\ resp' = OK
  /\ UNCHANGED <<bodyVars, exchangeVars, req, status, res>>

\* io.Copy writes a chunk; a client that does not read keeps it waiting.
CopyChunk ==
  /\ pc = "copy" /\ bodyIn # <<>> /\ res = "open"
  /\ toClient' = Append(toClient, Head(bodyIn))
  /\ bodyIn' = Tail(bodyIn)
  /\ UNCHANGED <<handlerVars, exchangeVars, res, framed, sent>>

\* io.Copy ends with the body, or at an error of either side that nobody
\* looks at; a body whose copy is waiting for the client is not read.
CopyReturns ==
  /\ pc = "copy"
  /\ \/ bodyIn = <<>> /\ (upstreamEnd # "open" \/ expired)
     \/ bodyIn # <<>> /\ res = "lost"
  /\ pc' = "returned" /\ upstream' = "closed"
  /\ res' = IF res = "open" THEN (IF Complete THEN "ended" ELSE "lost") ELSE res
  /\ UNCHANGED <<bodyVars, req, status, resp, upstreamEnd, expired>>

-----------------------------------------------------------------------------
(* The deadlines and the two ends.                                         *)

\* The Timeout of the exchange, or the ReadTimeout of the server, which ends
\* the request's context; a body not read yet cannot be read any more.
Expire ==
  /\ HasTimeout /\ ~expired
  /\ expired' = TRUE
  /\ bodyIn' \in {<<>>, bodyIn}
  /\ UNCHANGED <<handlerVars, res, framed, upstream, upstreamEnd, sent, toClient>>

\* WriteTimeout: every later write fails.
WriteDeadline ==
  /\ HasWriteTimeout
  /\ res' = "lost"
  /\ UNCHANGED <<handlerVars, bodyVars, exchangeVars>>

\* The client goes, which ends the request's context as well.
ClientGoes ==
  /\ res = "open"
  /\ res' = "lost"
  /\ expired' = (upstream = "open")
  /\ UNCHANGED <<handlerVars, bodyVars, upstream, upstreamEnd>>

UpstreamSends ==
  /\ pc = "copy" /\ upstreamEnd = "open" /\ ~expired /\ sent < MaxChunks
  /\ sent' = sent + 1 /\ bodyIn' = Append(bodyIn, sent + 1)
  /\ UNCHANGED <<handlerVars, exchangeVars, res, framed, toClient>>

UpstreamEnds ==
  /\ pc = "copy" /\ upstreamEnd = "open" /\ ~expired
  /\ upstreamEnd' = "whole"
  /\ UNCHANGED <<handlerVars, bodyVars, res, upstream, expired>>

\* Not found, refused, reset, or a body that breaks off.
UpstreamLost ==
  /\ upstream = "open" /\ upstreamEnd = "open"
  /\ upstreamEnd' = "lost" /\ bodyIn' \in {<<>>, bodyIn}
  /\ UNCHANGED <<handlerVars, res, framed, upstream, expired, sent, toClient>>

Handler == Check \/ AuthorizeReturns \/ DoFails \/ DoReturns \/ CopyReturns
Ends == ClientGoes \/ UpstreamSends \/ UpstreamEnds \/ UpstreamLost

Next == Handler \/ CopyChunk \/ Expire \/ WriteDeadline \/ Ends

\* The runtime runs the handler and its timers.  DoReturns needs an upstream
\* that answers and CopyChunk a client that reads: neither can be counted on.
Fairness ==
  /\ WF_vars(Check \/ AuthorizeReturns \/ DoFails \/ CopyReturns)
  /\ WF_vars(Expire) /\ WF_vars(WriteDeadline)

Spec == Init /\ [][Next]_vars /\ Fairness
-----------------------------------------------------------------------------
TypeOK ==
  /\ req \in Request
  /\ pc \in {"check", "authorize", "do", "copy", "returned"}
  /\ status \in {0, Pass} \cup Refusals /\ resp \in {0, OK} \cup Refusals
  /\ res \in {"open", "ended", "lost"}
  /\ upstream \in {"none", "open", "closed"}
  /\ upstreamEnd \in {"open", "whole", "lost"}
  /\ framed \in BOOLEAN /\ expired \in BOOLEAN
  /\ bodyIn \in Seq(1..MaxChunks) /\ toClient \in Seq(1..MaxChunks)
  /\ sent \in 0..MaxChunks

(***************************************************************************)
(* HandleHTTP keeps the promise of HttpService: one status however the     *)
(* exchange ends, and no response with a Content-Length that the client    *)
(* takes for complete when io.Copy's error cut it short.                   *)
(***************************************************************************)
Service == INSTANCE HttpService WITH
  Upstream <- OK,
  Statuses <- Refusals,
  EndsShort <- FALSE,
  gate <- IF status = 0 /\ resp = 0 THEN "undecided"
          ELSE IF status = Pass THEN "pass" ELSE "refuse",
  fetched <- upstream # "none",
  whole <- upstreamEnd = "whole",
  outcome <- IF res = "open" THEN "open" ELSE IF res = "ended" THEN "complete" ELSE "cut"

Implements == Service!Spec

(***************************************************************************)
(* The handler always returns, with a status and its upstream closed: a    *)
(* client that does not read is cut off by WriteTimeout, an upstream that  *)
(* accepts the connection and says nothing by client.Timeout.              *)
(***************************************************************************)
Returns == <>(pc = "returned" /\ resp # 0 /\ upstream # "open")
=============================================================================
