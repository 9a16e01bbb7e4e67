---------------------------- MODULE RateLimiter ----------------------------
(***************************************************************************)
(* The rate limiter of the HTTP client (src/src/rate_limiter.cpp,          *)
(* src/include/ekizu/rate_limiter.hpp).                                    *)
(*                                                                         *)
(* async_send_impl, shutdown and the wait timer's handler run on m_strand, *)
(* so each is one action that runs start_next inline.  The completion of   *)
(* send_fn is invoked by the HttpClient on its own strand: it records the  *)
(* headers under m_mtx and posts the caller's handler (Response), and its  *)
(* "m_busy = false; start_next()" is dispatched to m_strand, where other   *)
(* handlers may come first (Finished).  send_fn is modelled by its         *)
(* answers: a transport error, or a response with a status and possibly    *)
(* the three X-RateLimit headers.                                          *)
(*                                                                         *)
(* Time is counted in ticks, TicksPerSecond of them to a second.           *)
(***************************************************************************)
EXTENDS Naturals, Sequences, FiniteSets

CONSTANTS
  Requests,         \* the calls of send; each is made at most once
  Routes,           \* pairs of method and target
  RouteOf,          \* the route of each request
  None,             \* std::nullopt
  TicksPerSecond,   \* resolution of the X-RateLimit-Reset header
  MaxTime           \* bound on the clock

ASSUME NoneAssumption == None \notin Requests /\ None # "stopped"
ASSUME RouteAssumption == RouteOf \in [Requests -> Routes]
ASSUME TimeAssumption == TicksPerSecond \in Nat \ {0} /\ MaxTime \in Nat

VARIABLES
  m_queue,        \* accepted requests that were not started
  m_busy,         \* a request was started and is not finished
  m_waiting,      \* the request that waits for its route to reset, or None
  wait_timer,     \* its timer: "off", "armed", "fired" or "aborted"
  wait_until,     \* the time it is armed for
  m_stopping,
  m_rate_limits,  \* per route: None, or the last headers
  in_flight,      \* requests handed to send_fn and not answered by it
  finishing,      \* finish_one's dispatch to m_strand is queued
  now,            \* the system clock
  \* History variables.
  accepted,       \* requests accepted, in order
  sent,           \* requests handed to send_fn, in order
  completions,    \* how often each completion handler was posted
  outcome         \* what it was given

vars == <<m_queue, m_busy, m_waiting, wait_timer, wait_until, m_stopping,
          m_rate_limits, in_flight, finishing, now, accepted, sent, completions, outcome>>

Limit == [remaining : 0..1, reset_time : 0..MaxTime]
Failure == {"stopped", "transport", "http_rate_limited", "http_error"}
Outcome == {"ok"} \cup Failure

TypeOK ==
  /\ m_queue \in Seq(Requests)
  /\ m_busy \in BOOLEAN
  /\ m_waiting \in Requests \cup {None}
  /\ wait_timer \in {"off", "armed", "fired", "aborted"}
  /\ wait_until \in 0..MaxTime
  /\ m_stopping \in BOOLEAN
  /\ m_rate_limits \in [Routes -> Limit \cup {None}]
  /\ in_flight \in SUBSET Requests
  /\ finishing \in BOOLEAN
  /\ now \in 0..MaxTime
  /\ accepted \in Seq(Requests)
  /\ sent \in Seq(Requests)
  /\ completions \in [Requests -> Nat]
  /\ outcome \in [Requests -> Outcome \cup {None}]

Init ==
  /\ m_queue = <<>> /\ m_busy = FALSE /\ m_waiting = None
  /\ wait_timer = "off" /\ wait_until = 0
  /\ m_stopping = FALSE
  /\ m_rate_limits = [k \in Routes |-> None]
  /\ in_flight = {} /\ finishing = FALSE
  /\ now = 0
  /\ accepted = <<>> /\ sent = <<>>
  /\ completions = [r \in Requests |-> 0]
  /\ outcome = [r \in Requests |-> None]

-----------------------------------------------------------------------------
\* from_time_t(stol(value)): the fraction of the second is dropped.
parse_reset(t) == (t \div TicksPerSecond) * TicksPerSecond

should_wait(r) ==
  LET rl == m_rate_limits[RouteOf[r]]
  IN  rl # None /\ rl.remaining = 0 /\ now < rl.reset_time

do_send(r) == in_flight' = in_flight \cup {r} /\ sent' = Append(sent, r)

\* Mutation: an exhausted route does not hold the request back.
SendAtOnce(r) == do_send(r) /\ UNCHANGED <<m_waiting, wait_timer, wait_until>>

\* maybe_wait_then_send: park the request until its route resets, or send it.
maybe_wait_then_send(r) ==
  \/ /\ should_wait(r)
     /\ m_waiting' = r
     /\ wait_timer' = "armed"
     /\ wait_until' = m_rate_limits[RouteOf[r]].reset_time
     /\ UNCHANGED <<in_flight, sent>>
  \/ /\ ~should_wait(r)
     /\ do_send(r)
     /\ UNCHANGED <<m_waiting, wait_timer, wait_until>>

\* start_next when m_busy has just been cleared or was clear, on the queue q.
start_next(q) ==
  \/ /\ m_stopping \/ q = <<>>
     /\ m_queue' = q /\ m_busy' = FALSE
     /\ UNCHANGED <<m_waiting, wait_timer, wait_until, in_flight, sent>>
  \/ /\ ~m_stopping /\ q # <<>>
     /\ m_queue' = Tail(q) /\ m_busy' = TRUE
     /\ maybe_wait_then_send(Head(q))

\* The handlers of the requests R are posted with the result res.
Post(R, res) ==
  /\ completions' = [r \in Requests |-> completions[r] + (IF r \in R THEN 1 ELSE 0)]
  /\ outcome' = [r \in Requests |-> IF r \in R THEN res ELSE outcome[r]]

Elems(q) == {q[i] : i \in DOMAIN q}

IsNew(r) == completions[r] = 0 /\ r \notin Elems(accepted)

-----------------------------------------------------------------------------
\* async_send_impl
SendRejected(r) ==
  /\ IsNew(r) /\ m_stopping
  /\ Post({r}, "stopped")
  /\ UNCHANGED <<m_queue, m_busy, m_waiting, wait_timer, wait_until, m_stopping,
                 m_rate_limits, in_flight, finishing, now, accepted, sent>>

\* Mutation: m_busy is not looked at.
SendIgnoringBusy(r) ==
  /\ IsNew(r) /\ ~m_stopping
  /\ accepted' = Append(accepted, r)
  /\ start_next(Append(m_queue, r))
  /\ UNCHANGED <<m_stopping, m_rate_limits, finishing, now, completions, outcome>>

Send(r) ==
  /\ IsNew(r) /\ ~m_stopping
  /\ accepted' = Append(accepted, r)
  /\ \/ /\ m_busy
        /\ m_queue' = Append(m_queue, r)
        /\ UNCHANGED <<m_busy, m_waiting, wait_timer, wait_until, in_flight, sent>>
     \/ /\ ~m_busy
        /\ start_next(Append(m_queue, r))
  /\ UNCHANGED <<m_stopping, m_rate_limits, finishing, now, completions, outcome>>

\* Mutation: m_waiting is failed but not reset.
ShutdownLeavesWaiting ==
  /\ ~m_stopping
  /\ m_stopping' = TRUE
  /\ wait_timer' = IF wait_timer = "armed" THEN "aborted" ELSE wait_timer
  /\ Post(Elems(m_queue) \cup ({m_waiting} \ {None}), "stopped")
  /\ m_queue' = <<>> /\ m_busy' = FALSE
  /\ UNCHANGED <<m_waiting, wait_until, m_rate_limits, in_flight, finishing, now,
                 accepted, sent>>

\* Mutation: the request in flight is failed as well.
ShutdownFailsInFlight ==
  /\ ~m_stopping
  /\ m_stopping' = TRUE
  /\ wait_timer' = IF wait_timer = "armed" THEN "aborted" ELSE wait_timer
  /\ Post(Elems(m_queue) \cup ({m_waiting} \ {None}) \cup in_flight, "stopped")
  /\ m_waiting' = None /\ m_queue' = <<>> /\ m_busy' = FALSE
  /\ UNCHANGED <<wait_until, m_rate_limits, in_flight, finishing, now, accepted, sent>>

\* shutdown; a second call changes nothing.
Shutdown ==
  /\ ~m_stopping
  /\ m_stopping' = TRUE
  /\ wait_timer' = IF wait_timer = "armed" THEN "aborted" ELSE wait_timer
  /\ Post(Elems(m_queue) \cup ({m_waiting} \ {None}), "stopped")
  /\ m_waiting' = None /\ m_queue' = <<>> /\ m_busy' = FALSE
  /\ UNCHANGED <<wait_until, m_rate_limits, in_flight, finishing, now, accepted, sent>>

TimerExpires ==
  /\ wait_timer = "armed" /\ now >= wait_until
  /\ wait_timer' = "fired"
  /\ UNCHANGED <<m_queue, m_busy, m_waiting, wait_until, m_stopping, m_rate_limits,
                 in_flight, finishing, now, accepted, sent, completions, outcome>>

\* The timer's handler.  Only shutdown cancels the wait, and it takes the
\* waiting request: with a request waiting, the wait has expired.
WaitOver ==
  /\ wait_timer = "fired" /\ m_waiting # None
  /\ wait_timer' = "off"
  /\ m_waiting' = None
  /\ do_send(m_waiting)
  /\ UNCHANGED <<m_queue, m_busy, wait_until, m_stopping, m_rate_limits, finishing,
                 now, accepted, completions, outcome>>

WaitSpurious ==
  /\ wait_timer \in {"fired", "aborted"} /\ m_waiting = None
  /\ m_stopping       \* m_busy = false; start_next() only clears m_busy
  /\ wait_timer' = "off"
  /\ m_busy' = FALSE
  /\ UNCHANGED <<m_queue, m_waiting, wait_until, m_stopping, m_rate_limits, in_flight,
                 finishing, now, accepted, sent, completions, outcome>>

\* What send_fn answers: the headers are recorded whatever the status.
Answered(r, res, limit) ==
  /\ r \in in_flight
  /\ in_flight' = in_flight \ {r}
  /\ Post({r}, res)
  /\ finishing' = TRUE
  /\ m_rate_limits' = IF limit = None THEN m_rate_limits
                      ELSE [m_rate_limits EXCEPT ![RouteOf[r]] = limit]
  /\ UNCHANGED <<m_queue, m_busy, m_waiting, wait_timer, wait_until, m_stopping, now,
                 accepted, sent>>

TransportError(r) == Answered(r, "transport", None)

\* A response without the three headers leaves the limits alone.
PlainResponse(r, res) == Answered(r, res, None)

Response(r, res, left, reset) ==
  Answered(r, res, [remaining |-> left, reset_time |-> parse_reset(reset)])

\* Mutation: m_busy is cleared but the next request is not started.
FinishedWithoutStart ==
  /\ finishing
  /\ finishing' = FALSE
  /\ m_busy' = FALSE
  /\ UNCHANGED <<m_queue, m_waiting, wait_timer, wait_until, in_flight, sent,
                 m_stopping, m_rate_limits, now, accepted, completions, outcome>>

\* finish_one's second half, on m_strand.
Finished ==
  /\ finishing
  /\ finishing' = FALSE
  /\ start_next(m_queue)
  /\ UNCHANGED <<m_stopping, m_rate_limits, now, accepted, completions, outcome>>

Tick ==
  /\ now < MaxTime
  /\ now' = now + 1
  /\ UNCHANGED <<m_queue, m_busy, m_waiting, wait_timer, wait_until, m_stopping,
                 m_rate_limits, in_flight, finishing, accepted, sent, completions, outcome>>

Status == {"ok", "http_rate_limited", "http_error"}

SendFnAnswers ==
  \E r \in in_flight :
    \/ TransportError(r)
    \/ \E res \in Status :
         \/ PlainResponse(r, res)
         \/ \E left \in 0..1, reset \in now..MaxTime : Response(r, res, left, reset)

Next ==
  \/ \E r \in Requests : Send(r) \/ SendRejected(r)
  \/ Shutdown
  \/ TimerExpires \/ WaitOver \/ WaitSpurious
  \/ SendFnAnswers \/ Finished
  \/ Tick

Spec == Init /\ [][Next]_vars

\* The clock runs, timers fire, the strand runs what is queued on it, and
\* send_fn answers; callers may send or shut down or not.
Fairness ==
  /\ WF_vars(Tick) /\ WF_vars(TimerExpires) /\ WF_vars(WaitOver)
  /\ WF_vars(SendFnAnswers) /\ WF_vars(Finished)

FairSpec == Spec /\ Fairness

-----------------------------------------------------------------------------
(* Properties.                                                             *)

\* Every accepted request is in exactly one place -- queued, waiting for its
\* route, in flight, or completed -- and is completed at most once: no order
\* of shutdown, timer and response loses or repeats a completion.
Places(r) ==
  (IF r \in Elems(m_queue) THEN 1 ELSE 0) + (IF m_waiting = r THEN 1 ELSE 0)
    + (IF r \in in_flight THEN 1 ELSE 0) + completions[r]

ExactlyOnce ==
  \A r \in Requests : Places(r) = IF IsNew(r) THEN 0 ELSE 1

\* One request at a time: a started request excludes another one until its
\* completion was handled, also around a shutdown.
OneAtATime ==
  /\ Cardinality(in_flight) <= 1
  /\ in_flight # {} => m_waiting = None

\* Nothing is handed to send_fn once shutdown ran, whatever timer or response
\* handlers were already queued.
NoSendAfterShutdown == [][m_stopping => sent' = sent]_vars

\* A request is handed to send_fn only when the last headers of its route
\* leave room or their reset time has come.
WithinLimit ==
  [][\A r \in Requests : r \in in_flight' \ in_flight => ~should_wait(r)]_vars

\* A request that shutdown failed was never handed to send_fn: the caller may
\* safely repeat it elsewhere.
StoppedWasNotSent ==
  \A r \in Requests : outcome[r] = "stopped" => r \notin Elems(sent)

\* The abstract service: the request in service comes first.
Service ==
  INSTANCE SerialService WITH
    pending <- (IF m_waiting # None THEN <<m_waiting>>
                ELSE IF in_flight # {} THEN <<CHOOSE r \in in_flight : TRUE>>
                ELSE <<>>) \o m_queue,
    answered <- {r \in Requests : completions[r] > 0},
    stopping <- m_stopping,
    stopped <- m_stopping

\* The rate limiter is a serial service: in order, one at a time, every
\* accepted request answered exactly once and eventually.
IsSerialService == Service!SSpec
=============================================================================
