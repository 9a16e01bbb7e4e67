--------------------------- MODULE SerialService ---------------------------
(***************************************************************************)
(* What the request queues of ekizu promise their callers: requests are    *)
(* served one at a time in the order they were accepted, each one is       *)
(* answered exactly once, and after a stop everything that was accepted is *)
(* still answered, except that only the request being served may be        *)
(* answered by the service; nothing new is served.  A stop may be asked    *)
(* for before it happens: from then on new requests may be refused.        *)
(***************************************************************************)
EXTENDS Sequences

CONSTANT Requests

VARIABLES pending,   \* accepted and not answered, in order; the head is served
          answered,  \* answered requests
          stopping,  \* a stop was asked for
          stopped

svars == <<pending, answered, stopping, stopped>>

SInit == pending = <<>> /\ answered = {} /\ stopping = FALSE /\ stopped = FALSE

Known == answered \cup {pending[i] : i \in DOMAIN pending}

Accept(r) ==
  /\ ~stopped /\ r \notin Known
  /\ pending' = Append(pending, r)
  /\ UNCHANGED <<answered, stopping, stopped>>

Reject(r) ==
  /\ stopping /\ r \notin Known
  /\ answered' = answered \cup {r}
  /\ UNCHANGED <<pending, stopping, stopped>>

Answer ==
  /\ pending # <<>>
  /\ pending' = Tail(pending)
  /\ answered' = answered \cup {Head(pending)}
  /\ UNCHANGED <<stopping, stopped>>

AskStop ==
  /\ ~stopping
  /\ stopping' = TRUE
  /\ UNCHANGED <<pending, answered, stopped>>

\* Everything is answered at once, except possibly the request being served.
Stop ==
  /\ ~stopped
  /\ stopped' = TRUE /\ stopping' = TRUE
  /\ pending' \in {<<>>, IF pending = <<>> THEN <<>> ELSE <<Head(pending)>>}
  /\ answered' = Known \ {pending'[i] : i \in DOMAIN pending'}

SNext == (\E r \in Requests : Accept(r) \/ Reject(r)) \/ Answer \/ AskStop \/ Stop

SSpec == SInit /\ [][SNext]_svars /\ WF_svars(Answer)
=============================================================================
