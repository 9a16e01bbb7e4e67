---------------------------- MODULE HttpClient ----------------------------
(***************************************************************************)
(* The HTTP client (src/src/http_client.cpp) behind its rate limiter: the  *)
(* actions of RateLimiter, with HttpClient::send_http as its send_fn.      *)
(*                                                                         *)
(* send_fn is called on the limiter's strand and dispatches to the         *)
(* client's: a request is in in_flight before the client starts on it.     *)
(* One call of send_http is under way at a time, because the limiter sends *)
(* one request at a time.  The connection is used through what             *)
(* HttpConnection promises: a request is answered once, with its own       *)
(* response or with an error, and with an error if the connection was      *)
(* dropped before.  The server may execute a request whose answer is lost. *)
(***************************************************************************)
EXTENDS RateLimiter

VARIABLES
  m_token,          \* the token is set
  m_http,           \* None, "fresh", or "failed": an error was seen on it
  call,             \* the request send_http works on, or None
  shutdown_called   \* shutdown runs: the limiter's part was posted to its strand

clientVars == <<m_token, m_http, call, shutdown_called>>
allVars == <<vars, clientVars>>

\* runs counts how often the server executed the request (history).
Call == [req : Requests, attempt : 0..1, ran : BOOLEAN, runs : Nat, dropped : BOOLEAN,
         pc : {"connecting", "requested", "answered", "failed"}]

ClientTypeOK ==
  /\ TypeOK
  /\ m_token \in BOOLEAN
  /\ m_http \in {None, "fresh", "failed"}
  /\ call \in Call \cup {None}
  /\ shutdown_called \in BOOLEAN

ClientInit ==
  /\ Init
  /\ m_token = TRUE /\ m_http = None /\ call = None /\ shutdown_called = FALSE

-----------------------------------------------------------------------------
\* The handler of send_http is called with an error, with the limiter's
\* completion of the request as its body.
GiveUp(r) == TransportError(r) /\ call' = None

\* send_http_attempt, with the connection http: fail without a token, connect
\* first without a connection, or pass the request on.
send_http_attempt(r, attempt, http) ==
  \/ /\ ~m_token
     /\ GiveUp(r)
  \/ /\ m_token
     /\ call' = [req |-> r, attempt |-> attempt, ran |-> FALSE, dropped |-> FALSE,
                 runs |-> IF call = None THEN 0 ELSE call.runs,
                 pc |-> IF http = None THEN "connecting" ELSE "requested"]
     /\ UNCHANGED vars

\* send_http on the client's strand.
SendHttp ==
  /\ call = None
  /\ \E r \in in_flight : send_http_attempt(r, 0, m_http)
  /\ UNCHANGED <<m_token, m_http, shutdown_called>>

Calls(pc) == call # None /\ call.pc = pc

\* The connect handler.  It does not look at the token.
Connected ==
  /\ Calls("connecting")
  /\ m_http' = "fresh"
  /\ call' = [call EXCEPT !.pc = "requested"]
  /\ UNCHANGED <<vars, m_token, shutdown_called>>

ConnectFailed ==
  /\ Calls("connecting")
  /\ GiveUp(call.req)
  /\ UNCHANGED <<m_token, m_http, shutdown_called>>

-----------------------------------------------------------------------------
(* The connection and the server                                           *)

ServerExecutes ==
  /\ Calls("requested") /\ ~call.ran
  /\ call' = [call EXCEPT !.ran = TRUE, !.runs = @ + 1]
  /\ UNCHANGED <<vars, m_token, m_http, shutdown_called>>

\* The connection posts the response, or an error, to the client's strand.
ResponseArrives ==
  /\ Calls("requested") /\ call.ran /\ ~call.dropped
  /\ call' = [call EXCEPT !.pc = "answered"]
  /\ UNCHANGED <<vars, m_token, m_http, shutdown_called>>

RequestFails ==
  /\ Calls("requested")
  /\ call' = [call EXCEPT !.pc = "failed"]
  /\ m_http' = IF m_http = None \/ call.dropped THEN m_http ELSE "failed"
  /\ UNCHANGED <<vars, m_token, shutdown_called>>

-----------------------------------------------------------------------------
(* retry_or_finish                                                         *)

OnResponse ==
  /\ Calls("answered")
  /\ call' = None
  /\ \E res \in Status :
       \/ PlainResponse(call.req, res)
       \/ \E left \in 0..1, reset \in now..MaxTime : Response(call.req, res, left, reset)
  /\ UNCHANGED <<m_token, m_http, shutdown_called>>

\* Mutation: the retry does not count as one.
RetryForever ==
  /\ Calls("failed")
  /\ m_http' = None
  /\ send_http_attempt(call.req, 0, None)
  /\ UNCHANGED <<m_token, shutdown_called>>

\* Mutation: the retry goes over the connection that failed.
RetryOnSameConnection ==
  /\ Calls("failed")
  /\ \/ /\ call.attempt = 1
        /\ GiveUp(call.req)
     \/ /\ call.attempt = 0
        /\ send_http_attempt(call.req, 1, m_http)
  /\ UNCHANGED <<m_http, m_token, shutdown_called>>

\* Mutation: nobody is told about the second failure.
SecondErrorIsDropped ==
  /\ Calls("failed") /\ call.attempt = 0
  /\ m_http' = None
  /\ send_http_attempt(call.req, 1, None)
  /\ UNCHANGED <<m_token, shutdown_called>>

\* After the first error the connection is dropped and the request is sent once
\* more; the second one is reported, and the connection stays.
OnError ==
  /\ Calls("failed")
  /\ \/ /\ call.attempt = 1
        /\ GiveUp(call.req)
        /\ UNCHANGED m_http
     \/ /\ call.attempt = 0
        /\ m_http' = None
        /\ send_http_attempt(call.req, 1, None)
  /\ UNCHANGED <<m_token, shutdown_called>>

-----------------------------------------------------------------------------
\* shutdown on the client's strand: the limiter's shutdown is dispatched to its
\* own strand, the token goes, and the connection, which is cancelled with the
\* request it may carry.
ClientShutdown ==
  /\ ~shutdown_called
  /\ shutdown_called' = TRUE
  /\ m_token' = FALSE /\ m_http' = None
  /\ call' = IF Calls("requested") THEN [call EXCEPT !.dropped = TRUE] ELSE call
  /\ UNCHANGED vars

Limiter ==
  /\ \/ \E r \in Requests : Send(r) \/ SendRejected(r)
     \/ shutdown_called /\ Shutdown
     \/ TimerExpires \/ WaitOver \/ WaitSpurious \/ Finished \/ Tick
  /\ UNCHANGED clientVars

ClientRuns == SendHttp \/ Connected \/ ConnectFailed \/ OnResponse \/ OnError

ClientNext ==
  \/ Limiter
  \/ ClientRuns
  \/ ServerExecutes \/ ResponseArrives \/ RequestFails
  \/ ClientShutdown

ClientSpec == ClientInit /\ [][ClientNext]_allVars

\* The strands run what is queued, a connect ends and so does a request (both
\* have a 30 s timeout).  The server need not execute anything.
ClientFairness ==
  /\ WF_allVars(Limiter /\ (Tick \/ TimerExpires \/ WaitOver \/ Finished))
  /\ WF_allVars(ClientRuns)
  /\ WF_allVars(ResponseArrives \/ RequestFails)

FairClientSpec == ClientSpec /\ ClientFairness

-----------------------------------------------------------------------------
(* Properties.                                                             *)

\* The server executes a request at most twice, whatever fails and whenever the
\* client is shut down.
AtMostTwice == call # None => call.runs <= 2

\* The one retry is not wasted on the connection that just failed.
RetryIsOnFreshConnection ==
  Calls("requested") /\ call.attempt = 1 => m_http = "fresh" \/ call.dropped
=============================================================================
