------------------------------ MODULE NodeHttp ------------------------------
(***************************************************************************)
(* One plain HTTP request in the Node proxy: handleHttp in                 *)
(* node-proxy/src/proxyHandler.js.                                         *)
(*                                                                         *)
(* The listeners for the response, the timeout and the error of proxyReq   *)
(* run one at a time, in any order the upstream and the clock bring about; *)
(* each looks at res.headersSent before it answers.                        *)
(***************************************************************************)
EXTENDS Authorize, Sequences

CONSTANT MaxChunks    \* bound: chunks of the upstream's body
ASSUME HttpAssumption == MaxChunks \in Nat

OK == 200                         \* the upstream's status, whatever it is
Refusals == {400, 403, 407, 502, 504}

VARIABLES
  req,        \* what the gate reads, and the form of the request's URL
  phase,      \* "received", "authorizing", "refused", "fetching",
              \* "streaming" or "failed"
  resp,       \* the status of res, 0 while headersSent is false
  client,     \* the client's connection: "open" or "gone"
  res,        \* the response: "open", "ended", or "lost" with the connection
  framed,     \* the upstream's response has a Content-Length
  upstream,   \* proxyReq: "none", "open", "done" or "destroyed"
              \* ("done": its connection was closed or given back)
  whole,      \* the upstream has sent the end of its body
  bodyIn,     \* chunks of the body, not read yet
  sent,       \* how many chunks the upstream sent
  active,     \* there was traffic since the timer last looked
  toClient    \* the chunks written to res

handlerVars == <<req, phase, resp>>
bodyVars == <<framed, whole, bodyIn, sent, toClient>>
vars == <<handlerVars, bodyVars, client, res, upstream, active>>

Request == [ipAllowed : BOOLEAN, public : BOOLEAN, creds : BOOLEAN,
            url : {"http", "scheme", "invalid"}]

-----------------------------------------------------------------------------
(* Pieces of the code; the forms before them are faults for mutants.       *)

\* The guard of the error and the timeout listeners.
HeadersIgnored == TRUE
HeadersNotSent == resp = 0

\* What .catch answers when http.request throws.
ThrowIs500 == 500
ThrowReply == 502

\* proxyReq.on('timeout').
TimeoutIgnored == FALSE
TimeoutHandled == TRUE

\* pipe() ends res when the body has ended, after all of it.
EndsEarly == TRUE
Drained == bodyIn = <<>>

-----------------------------------------------------------------------------
Init ==
  /\ req \in Request
  /\ phase = "received" /\ resp = 0
  /\ client = "open" /\ res = "open"
  /\ framed \in BOOLEAN
  /\ upstream = "none" /\ whole = FALSE /\ bodyIn = <<>> /\ sent = 0
  /\ active = FALSE /\ toClient = <<>>

\* sendJson: a status and a whole body, or nothing if the client is gone.
Send(status) ==
  /\ resp' = status
  /\ res' = IF client = "open" THEN "ended" ELSE "lost"

\* new URL(req.url).
Received ==
  /\ phase = "received"
  /\ \/ req.url = "invalid" /\ phase' = "refused" /\ Send(400)
     \/ req.url # "invalid" /\ phase' = "authorizing" /\ UNCHANGED <<resp, res>>
  /\ UNCHANGED <<bodyVars, req, client, upstream, active>>

\* authorizeRequest resolves; http.request throws on any scheme but http:,
\* and .catch answers.
Authorized ==
  /\ phase = "authorizing"
  /\ \E lookup \in Lookup :
       LET status == authorize(req, lookup) IN
       \/ /\ status # Pass
          /\ phase' = "refused" /\ Send(status)
          /\ UNCHANGED <<upstream, active>>
       \/ /\ status = Pass /\ req.url = "scheme"
          /\ phase' = "failed" /\ Send(ThrowReply)
          /\ UNCHANGED <<upstream, active>>
       \/ /\ status = Pass /\ req.url = "http"
          /\ phase' = "fetching" /\ upstream' = "open" /\ active' = TRUE
          /\ UNCHANGED <<resp, res>>
  /\ UNCHANGED <<bodyVars, req, client>>

\* The response listener: the upstream's status, and the pipe.
Response ==
  /\ phase = "fetching" /\ upstream = "open"
  /\ phase' = "streaming" /\ resp' = OK /\ active' = TRUE
  /\ UNCHANGED <<bodyVars, req, client, res, upstream>>

PipeChunk ==
  /\ phase = "streaming" /\ res = "open" /\ bodyIn # <<>>
  /\ toClient' = Append(toClient, Head(bodyIn))
  /\ bodyIn' = Tail(bodyIn)
  /\ UNCHANGED <<handlerVars, client, res, framed, upstream, whole, sent, active>>

PipeEnd ==
  /\ phase = "streaming" /\ res = "open" /\ Drained /\ whole
  /\ res' = "ended" /\ upstream' = "done"
  /\ UNCHANGED <<handlerVars, bodyVars, client, active>>

\* What was not read of the response is dropped.
Lost ==
  /\ upstream' = "destroyed" /\ bodyIn' = <<>>
  /\ phase' = "failed"

\* Before the end of the response.  Once it has begun nobody is told: pipe()
\* does not end its destination, and res stays as it is.
UpstreamError ==
  /\ upstream = "open" /\ ~whole
  /\ Lost
  /\ IF HeadersNotSent THEN Send(502) ELSE UNCHANGED <<resp, res>>
  /\ UNCHANGED <<req, client, framed, whole, sent, active, toClient>>

\* No traffic for timeoutMs.  destroy() brings about an error event of its
\* own, which finds headersSent true.  It dumps the response first: one that
\* is whole but waits for the client ends at once, and pipe() ends res.
Timeout ==
  /\ upstream = "open" /\ ~active /\ TimeoutHandled
  /\ Lost
  /\ IF HeadersNotSent THEN Send(504)
     ELSE /\ res' = IF whole /\ res = "open" THEN "ended" ELSE res
          /\ UNCHANGED resp
  /\ UNCHANGED <<req, client, framed, whole, sent, active, toClient>>

QuietPeriod ==
  /\ upstream = "open" /\ active
  /\ active' = FALSE
  /\ UNCHANGED <<handlerVars, bodyVars, client, res, upstream>>

-----------------------------------------------------------------------------
(* The two ends.                                                           *)

ClientGoes ==
  /\ client = "open"
  /\ client' = "gone"
  /\ res' = IF res = "open" THEN "lost" ELSE res
  /\ UNCHANGED <<handlerVars, bodyVars, upstream, active>>

UpstreamSends ==
  /\ phase = "streaming" /\ upstream = "open" /\ ~whole /\ sent < MaxChunks
  /\ sent' = sent + 1 /\ bodyIn' = Append(bodyIn, sent + 1) /\ active' = TRUE
  /\ UNCHANGED <<handlerVars, client, res, framed, upstream, whole, toClient>>

UpstreamEnds ==
  /\ phase = "streaming" /\ upstream = "open" /\ ~whole
  /\ whole' = TRUE
  /\ UNCHANGED <<handlerVars, client, res, framed, upstream, bodyIn, sent, active,
                 toClient>>

\* After the whole response; what is buffered of it is still piped.
UpstreamCloses ==
  /\ upstream = "open" /\ whole
  /\ upstream' = "done"
  /\ UNCHANGED <<handlerVars, bodyVars, client, res, active>>

Next ==
  \/ Received \/ Authorized \/ Response \/ PipeChunk \/ PipeEnd
  \/ UpstreamError \/ Timeout \/ QuietPeriod
  \/ ClientGoes \/ UpstreamSends \/ UpstreamEnds \/ UpstreamCloses

\* The event loop runs what is ready and its timers; the store answers.  The
\* client need not read, and nobody makes the upstream act.
Fairness ==
  /\ WF_vars(Received) /\ WF_vars(Authorized)
  /\ WF_vars(Timeout) /\ WF_vars(QuietPeriod)

Spec == Init /\ [][Next]_vars /\ Fairness
-----------------------------------------------------------------------------
TypeOK ==
  /\ req \in Request
  /\ phase \in {"received", "authorizing", "refused", "fetching", "streaming", "failed"}
  /\ resp \in {0, OK} \cup Refusals
  /\ client \in {"open", "gone"} /\ res \in {"open", "ended", "lost"}
  /\ upstream \in {"none", "open", "done", "destroyed"}
  /\ {framed, whole, active} \subseteq BOOLEAN
  /\ bodyIn \in Seq(1..MaxChunks) /\ toClient \in Seq(1..MaxChunks)
  /\ sent \in 0..MaxChunks

(***************************************************************************)
(* handleHttp keeps the promise of HttpService: however the response, the  *)
(* timeout and the error of proxyReq race, one status is written, and a    *)
(* response that the upstream broke off is never ended.                    *)
(***************************************************************************)
Service == INSTANCE HttpService WITH
  Upstream <- OK,
  Statuses <- Refusals,
  EndsShort <- TRUE,
  gate <- IF phase \in {"received", "authorizing"} THEN "undecided"
          ELSE IF phase = "refused" THEN "refuse" ELSE "pass",
  fetched <- upstream # "none",
  outcome <- IF res = "open" THEN "open" ELSE IF res = "ended" THEN "complete" ELSE "cut"

Implements == Service!Spec

(***************************************************************************)
(* A response that handleHttp ends is one the upstream has sent the whole  *)
(* of, Content-Length or not, and every chunk was written before the end,  *)
(* but for one exception: the idle timer destroyed a whole response while  *)
(* a slow client kept it waiting.                                          *)
(***************************************************************************)
CompleteMeansAll ==
  (res = "ended" /\ resp = OK) =>
    /\ whole
    /\ Len(toClient) = sent \/ upstream = "destroyed"

(***************************************************************************)
(* Every HTTP request is answered with some status while the client waits, *)
(* and its upstream request does not outlive timeoutMs of silence.         *)
(***************************************************************************)
Settled == <>(resp # 0 /\ upstream # "open")
=============================================================================
