----------------------------- MODULE VoiceDave -----------------------------
(***************************************************************************)
(* End-to-end encryption of a voice connection: dave::Session              *)
(* (src/src/dave/session.cpp), the handlers of the DAVE opcodes            *)
(* (src/src/voice/voice_dave_handler.cpp, voice_websocket.cpp) and the key *)
(* the encryptor uses.                                                     *)
(*                                                                         *)
(* An MLS state is [g, e]: the group, numbered by the initialisations of   *)
(* the session, and the epoch.  MLS itself is external: whether a          *)
(* proposal, a commit or a welcome is accepted is open where the code does *)
(* not decide it.  A handler that sends waits for the send; the listen     *)
(* loop reads the next opcode when the handler is done.                    *)
(***************************************************************************)
EXTENDS Naturals

CONSTANTS
  MaxGroups, MaxEpochs,   \* bounds on initialisations and on epochs of a group
  Tids,                   \* transition ids other than 0
  NoState

ASSUME GroupsAssumption == MaxGroups \in Nat \ {0} /\ MaxEpochs \in Nat

VARIABLES
  m_dave,             \* the DAVE state exists
  protocol_version,
  session,            \* dave::Session
  encryptor,          \* the epoch of its ratchet, and passthrough mode
  prepared,           \* m_dave_transition_versions
  made,               \* how often the session was initialised
  handler,            \* what the listen loop waits for
  stage               \* how far the server's handshake is

dvars == <<m_dave, protocol_version, session, encryptor, prepared, made, handler, stage>>

MlsState == [g : 1..MaxGroups, e : 0..MaxEpochs]

ASSUME NoStateAssumption == NoState \notin MlsState

Session == [
  m_session_group_id : 0..MaxGroups,      \* 0: empty
  m_mls_external_sender : BOOLEAN,
  m_self_leaf_node : BOOLEAN,             \* and m_hpke_private_key
  m_join_key_package : BOOLEAN,           \* and m_join_init_private_key
  m_pending_group_state : BOOLEAN,
  m_current_state : MlsState \cup {NoState},
  m_state_with_proposals : MlsState \cup {NoState}]

Encryptor == [ratchet : MlsState \cup {NoState}, passthrough : BOOLEAN]

\* After the send: nothing, the rest of execute_dave_transition_now, the start
\* of the loops, the execution of transition 0, or the recovery.  Transition 0
\* uses m_dave without looking: "crashed" when request_stop dropped it.
Continuation == {"idle", "done", "execute", "describe", "transition 0", "recover", "crashed"}

DTypeOK ==
  /\ m_dave \in BOOLEAN /\ protocol_version \in 0..1
  /\ session \in Session /\ encryptor \in Encryptor
  /\ prepared \in [Tids \cup {0} -> {0, 1, NoState}]
  /\ made \in 0..MaxGroups
  /\ handler \in Continuation
  /\ stage \in {"hello", "ready", "described", "stopped"}

NoSession == [
  m_session_group_id |-> 0, m_mls_external_sender |-> FALSE, m_self_leaf_node |-> FALSE,
  m_join_key_package |-> FALSE, m_pending_group_state |-> FALSE,
  m_current_state |-> NoState, m_state_with_proposals |-> NoState]

\* set_passthrough_mode(true) on a new Encryptor.
NewEncryptor == [ratchet |-> NoState, passthrough |-> TRUE]

DInit ==
  /\ m_dave = FALSE /\ protocol_version = 0 /\ session = NoSession /\ encryptor = NewEncryptor
  /\ prepared = [t \in Tids \cup {0} |-> NoState]
  /\ made = 0 /\ handler = "idle" /\ stage = "hello"

-----------------------------------------------------------------------------
(* dave::Session                                                           *)

clear_pending_state(s) ==
  [s EXCEPT !.m_pending_group_state = FALSE, !.m_join_key_package = FALSE,
            !.m_self_leaf_node = FALSE, !.m_state_with_proposals = NoState]

\* The external sender is kept.
reset(s) ==
  [clear_pending_state(s) EXCEPT !.m_current_state = NoState, !.m_session_group_id = 0]

create_pending_group(s) ==
  [s EXCEPT !.m_pending_group_state =
     @ \/ (s.m_session_group_id # 0 /\ s.m_mls_external_sender /\ s.m_self_leaf_node)]

\* init, with the leaf node made or not (no persisted key, or MLS refuses).
init(s, group, leaf) ==
  create_pending_group([reset(s) EXCEPT !.m_session_group_id = group, !.m_self_leaf_node = leaf])

set_external_sender(s) ==
  IF s.m_current_state # NoState THEN s
  ELSE create_pending_group([s EXCEPT !.m_mls_external_sender = TRUE])

get_marshalled_key_package(s) == [s EXCEPT !.m_join_key_package = @ \/ s.m_self_leaf_node]

\* The state proposals apply to: a pending group goes before the current one.
ProposalBase(s) ==
  IF s.m_state_with_proposals # NoState THEN s.m_state_with_proposals
  ELSE IF s.m_pending_group_state THEN [g |-> s.m_session_group_id, e |-> 0]
  ELSE s.m_current_state

\* The session after process_proposals, accepted or not.
process_proposals(s) == [s EXCEPT !.m_state_with_proposals = ProposalBase(s)]

\* process_commit, when MLS accepts the commit: replace_state.
process_commit(s) ==
  [clear_pending_state(s) EXCEPT
     !.m_current_state = [s.m_state_with_proposals EXCEPT !.e = @ + 1]]

CanJoin(s) ==
  s.m_join_key_package /\ s.m_mls_external_sender /\ s.m_current_state = NoState

process_welcome(s, e) ==
  [clear_pending_state(s) EXCEPT !.m_current_state = [g |-> s.m_session_group_id, e |-> e]]

-----------------------------------------------------------------------------
(* The helpers of the handlers                                             *)

\* Mutation: the encryptor of the last group is used on.
NewGroupKeepsEncryptor(enc) == enc

\* maybe_start_mls_async's encryptor for the new group.
GroupEncryptor(enc) == NewEncryptor

\* maybe_start_mls_async: what it makes of the session, and whether it sends
\* the key package.  Without a leaf node there is no package and it fails.
MaybeStart(s, enc, v, force) ==
  LET f == IF force THEN reset(s) ELSE s
  IN IF v = 0 THEN {[s |-> s, enc |-> enc, sends |-> "no"]}
     ELSE IF (f.m_session_group_id # 0 /\ ~force) \/ ~f.m_mls_external_sender
     THEN {[s |-> f, enc |-> enc, sends |-> "no"]}
     ELSE {[s |-> get_marshalled_key_package(init(f, made + 1, leaf)),
            enc |-> GroupEncryptor(enc), sends |-> IF leaf THEN "yes" ELSE "failed"] :
              leaf \in BOOLEAN}

\* update_ratchets (m_dave_user_list is always empty) and what follows it in
\* execute_dave_transition_now_async: an encryptor without a key passes through.
UpdateRatchets(s, enc) ==
  LET key == IF s.m_current_state # NoState THEN s.m_current_state ELSE enc.ratchet
  IN [ratchet |-> key, passthrough |-> key = NoState]

\* maybe_start_mls_async with its completion: at once, or after the send.
StartMls(s, enc, v, force, then) ==
  \E r \in MaybeStart(s, enc, v, force) :
    /\ r.sends # "no" => made < MaxGroups
    /\ made' = IF r.sends = "no" THEN made ELSE made + 1
    /\ session' = r.s
    /\ handler' = IF r.sends = "yes" THEN then ELSE "idle"
    /\ encryptor' = IF then = "execute" /\ r.sends = "no" THEN UpdateRatchets(r.s, r.enc)
                    ELSE r.enc

\* execute_dave_transition_now_async
Execute(v) ==
  IF ~m_dave THEN handler' = "idle" /\ UNCHANGED <<protocol_version, session, encryptor, made>>
  ELSE /\ protocol_version' = v
       /\ \/ /\ v = 0
             /\ session' = reset(session) /\ encryptor' = [encryptor EXCEPT !.passthrough = TRUE]
             /\ handler' = "idle" /\ UNCHANGED made
          \/ v # 0 /\ StartMls(session, encryptor, v, FALSE, "execute")

-----------------------------------------------------------------------------
(* The opcodes                                                             *)

Reading == handler = "idle" /\ stage # "stopped"

\* Ready, as far as DAVE goes: setup_udp_async.
OnReady ==
  /\ Reading /\ stage = "hello" /\ stage' = "ready"
  /\ m_dave' = TRUE /\ encryptor' = [encryptor EXCEPT !.passthrough = TRUE]
  /\ UNCHANGED <<protocol_version, session, prepared, made, handler>>

\* The server may describe the session again, with any protocol version: a
\* description with version 0 leaves session and encryptor alone.
OnSessionDescription(v) ==
  /\ Reading /\ stage \in {"ready", "described"} /\ stage' = "described"
  /\ protocol_version' = v
  /\ StartMls(session, encryptor, v, FALSE, "describe")
  /\ UNCHANGED <<m_dave, prepared>>

Opcode == Reading /\ stage = "described" /\ UNCHANGED <<m_dave, stage>>

\* The external sender may be told before the session is described.
OnExternalSender ==
  /\ Reading /\ stage \in {"ready", "described"}
  /\ StartMls(set_external_sender(session), encryptor, protocol_version, FALSE, "done")
  /\ UNCHANGED <<m_dave, protocol_version, prepared, stage>>

\* A commit is sent for accepted proposals; others are ignored, although the
\* state with proposals stays.
OnProposals ==
  /\ Opcode /\ ProposalBase(session) # NoState
  /\ session' = process_proposals(session)
  /\ handler' \in {"idle", "done"}
  /\ UNCHANGED <<protocol_version, encryptor, prepared, made>>

\* A commit that is processed is acknowledged and transition 0 executed; one
\* that is not, for whatever reason, starts the recovery.
OnAnnounceCommit(tid) ==
  /\ Opcode
  /\ \/ /\ session.m_state_with_proposals # NoState
        /\ session.m_state_with_proposals.e < MaxEpochs
        /\ session' = process_commit(session)
        /\ handler' = IF tid = 0 THEN "transition 0" ELSE "done"
     \/ handler' = "recover" /\ UNCHANGED session
  /\ UNCHANGED <<protocol_version, encryptor, prepared, made>>

OnWelcome(tid) ==
  /\ Opcode
  /\ \/ /\ CanJoin(session)
        /\ \E e \in 1..MaxEpochs : session' = process_welcome(session, e)
        /\ handler' = IF tid = 0 THEN "transition 0" ELSE "done"
     \/ handler' = "recover" /\ UNCHANGED session
  /\ UNCHANGED <<protocol_version, encryptor, prepared, made>>

\* DavePrepareTransition: 0 is executed at once when there is a group, a
\* downgrade stops the encryption already now.
OnPrepareTransition(tid, v) ==
  /\ Opcode
  /\ prepared' = [prepared EXCEPT ![tid] = v]
  /\ \/ tid = 0 /\ session.m_current_state # NoState /\ Execute(v)
     \/ /\ tid = 0 /\ session.m_current_state = NoState
        /\ UNCHANGED <<protocol_version, session, encryptor, made, handler>>
     \/ /\ tid # 0 /\ handler' = "done"
        /\ encryptor' = [encryptor EXCEPT !.passthrough = @ \/ v = 0]
        /\ UNCHANGED <<protocol_version, session, made>>

OnExecuteTransition(tid) ==
  /\ Opcode
  /\ Execute(IF prepared[tid] # NoState THEN prepared[tid] ELSE protocol_version)
  /\ prepared' = [prepared EXCEPT ![tid] = NoState]

\* DavePrepareEpoch for epoch 1, with any version: with version 0 the session is
\* reset and nothing takes its place, nor the encryptor's.
OnPrepareEpoch(v) ==
  /\ Opcode
  /\ protocol_version' = v
  /\ StartMls(reset(session), encryptor, v, FALSE, "done")
  /\ UNCHANGED prepared

-----------------------------------------------------------------------------
(* The handler's send completes                                            *)

\* A failed send ends the handler with the error, which the loop ignores.
SendFails ==
  /\ handler \notin {"idle", "crashed"} /\ handler' = "idle"
  /\ UNCHANGED <<m_dave, protocol_version, session, encryptor, prepared, made, stage>>

\* A send that succeeds.
SendDone ==
  /\ \/ handler \in {"done", "describe"} /\ handler' = "idle"
        /\ UNCHANGED <<protocol_version, session, encryptor, made>>
     \/ /\ handler = "execute" /\ m_dave
        /\ encryptor' = UpdateRatchets(session, encryptor) /\ handler' = "idle"
        /\ UNCHANGED <<protocol_version, session, made>>
     \/ handler = "transition 0" /\ m_dave /\ Execute(protocol_version)
     \/ /\ handler \in {"execute", "recover", "transition 0"} /\ ~m_dave
        /\ handler' = IF handler = "transition 0" THEN "crashed" ELSE "idle"
        /\ UNCHANGED <<protocol_version, session, encryptor, made>>
     \/ /\ handler = "recover" /\ m_dave
        /\ StartMls(reset(session), encryptor, protocol_version, TRUE, "done")
        /\ UNCHANGED protocol_version
  /\ UNCHANGED <<m_dave, prepared, stage>>

\* request_stop drops the DAVE state, whatever a handler waits for.
DStop ==
  /\ stage # "stopped" /\ stage' = "stopped"
  /\ m_dave' = FALSE /\ session' = NoSession /\ encryptor' = NewEncryptor
  /\ UNCHANGED <<protocol_version, prepared, made, handler>>

-----------------------------------------------------------------------------
(* Properties.                                                             *)

\* The encryptor encrypts only with a key of the group the session is in, of an
\* epoch it has reached: no sequence of resets, recoveries, new epochs, failed
\* sends and changes of version leaves it encrypting for a group that is gone,
\* with one exception: when the version went down to 0 without a transition, the
\* session may be reset with nothing in its place, and maybe_start_mls_async
\* returns before it replaces the encryptor.
EncryptsInGroup ==
  ~encryptor.passthrough =>
    /\ encryptor.ratchet # NoState
    /\ \/ session.m_session_group_id = 0 /\ protocol_version = 0
       \/ /\ session.m_current_state # NoState
          /\ encryptor.ratchet.g = session.m_current_state.g
          /\ encryptor.ratchet.e <= session.m_current_state.e
=============================================================================
