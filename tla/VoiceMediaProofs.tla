-------------------------- MODULE VoiceMediaProofs --------------------------
(***************************************************************************)
(* Proofs about VoiceMedia, for any sets of frames, loops and transitions  *)
(* and any bound on groups and epochs: the encryptor uses keys of the      *)
(* current group only, and the count of pending frames is exact.           *)
(***************************************************************************)
EXTENDS VoiceMedia, FiniteSetTheorems, TLAPS

-----------------------------------------------------------------------------
(* The end-to-end encryption                                               *)

\* What is left of a group in the session belongs to the group it is in: the
\* proposals continue the current epoch, a pending group replaces none.
GroupInv(s) ==
  /\ s.m_current_state # NoState =>
       /\ s.m_mls_external_sender
       /\ s.m_session_group_id # 0 /\ s.m_current_state.g = s.m_session_group_id
  /\ s.m_state_with_proposals # NoState =>
       /\ s.m_mls_external_sender
       /\ s.m_session_group_id # 0 /\ s.m_state_with_proposals.g = s.m_session_group_id
       /\ s.m_current_state # NoState => s.m_current_state.e <= s.m_state_with_proposals.e
  /\ s.m_pending_group_state =>
       s.m_mls_external_sender /\ s.m_session_group_id # 0 /\ s.m_current_state = NoState
  /\ s.m_join_key_package => s.m_session_group_id # 0

\* The encryptor's key belongs to the session's group, if the session is in
\* one; and a key was only ever made when the external sender was known, so
\* that a new group replaces the encryptor.
KeyInv(s, enc) ==
  /\ enc.ratchet = NoState => enc.passthrough
  /\ enc.ratchet # NoState =>
       /\ s.m_mls_external_sender
       /\ s.m_session_group_id # 0 =>
            /\ s.m_current_state # NoState
            /\ enc.ratchet.g = s.m_current_state.g
            /\ enc.ratchet.e <= s.m_current_state.e

\* Without a group frames pass through, unless the version went down to 0.
PassInv(s, enc, v) == s.m_session_group_id = 0 /\ v # 0 => enc.passthrough

DType ==
  /\ m_dave \in BOOLEAN /\ protocol_version \in 0..1
  /\ session \in Session /\ encryptor \in Encryptor
  /\ prepared \in [Tids \cup {0} -> {0, 1, NoState}]
  /\ made \in 0..MaxGroups

DInv ==
  /\ DType
  /\ GroupInv(session) /\ KeyInv(session, encryptor)
  /\ PassInv(session, encryptor, protocol_version)
  /\ handler = "execute" /\ m_dave => protocol_version = 1 /\ session.m_session_group_id # 0

LEMMA ResetKeeps ==
  ASSUME NEW s \in Session
  PROVE  /\ reset(s) \in Session /\ GroupInv(reset(s))
         /\ reset(s).m_session_group_id = 0
         /\ reset(s).m_mls_external_sender = s.m_mls_external_sender
         /\ reset(s).m_current_state = NoState /\ reset(s).m_state_with_proposals = NoState
<1> DEFINE c == clear_pending_state(s)
           r == [c EXCEPT !.m_current_state = NoState, !.m_session_group_id = 0]
<1>1. /\ c \in Session /\ c.m_mls_external_sender = s.m_mls_external_sender
      /\ c.m_pending_group_state = FALSE /\ c.m_join_key_package = FALSE
      /\ c.m_state_with_proposals = NoState
  BY DEF clear_pending_state, Session
<1> HIDE DEF c
<1>2. 0 \in 0..MaxGroups
  BY GroupsAssumption
<1>3. /\ r \in Session /\ r.m_mls_external_sender = s.m_mls_external_sender
      /\ r.m_pending_group_state = FALSE /\ r.m_join_key_package = FALSE
      /\ r.m_state_with_proposals = NoState /\ r.m_current_state = NoState
      /\ r.m_session_group_id = 0
  BY <1>1, <1>2 DEF Session
<1> HIDE DEF r
<1>4. GroupInv(r)
  BY <1>3 DEF GroupInv
<1>5. reset(s) = r
  BY DEF reset, r, c
<1> QED BY <1>3, <1>4, <1>5

LEMMA InitKeeps ==
  ASSUME NEW s \in Session, s.m_mls_external_sender, NEW group \in 1..MaxGroups, NEW leaf \in BOOLEAN
  PROVE  LET t == get_marshalled_key_package(init(s, group, leaf))
         IN t \in Session /\ GroupInv(t) /\ t.m_session_group_id # 0
<1> DEFINE a == [reset(s) EXCEPT !.m_session_group_id = group, !.m_self_leaf_node = leaf]
           b == create_pending_group(a)
           t == get_marshalled_key_package(b)
<1>1. /\ a \in Session /\ a.m_session_group_id = group /\ a.m_current_state = NoState
      /\ a.m_state_with_proposals = NoState /\ a.m_mls_external_sender
  <2>1. group \in 0..MaxGroups
    BY GroupsAssumption
  <2> QED BY <2>1, ResetKeeps DEF Session
<1> HIDE DEF a
<1>2. /\ b \in Session /\ b.m_session_group_id = group /\ b.m_current_state = NoState
      /\ b.m_state_with_proposals = NoState /\ b.m_mls_external_sender
  BY <1>1 DEF Session, create_pending_group
<1>3. /\ t \in Session /\ t.m_session_group_id = group /\ t.m_current_state = NoState
      /\ t.m_state_with_proposals = NoState /\ t.m_mls_external_sender
  BY <1>2 DEF Session, get_marshalled_key_package
<1>4. group # 0
  BY GroupsAssumption
<1>5. GroupInv(t)
  BY <1>3, <1>4 DEF GroupInv
<1> QED BY <1>3, <1>4, <1>5 DEF init, a

\* What the new key is: of the current epoch, or the old one.
LEMMA UpdateKeeps ==
  ASSUME NEW s \in Session, NEW enc \in Encryptor, GroupInv(s), KeyInv(s, enc),
         s.m_session_group_id # 0 \/ enc.ratchet = NoState
  PROVE  LET u == UpdateRatchets(s, enc)
         IN u \in Encryptor /\ KeyInv(s, u) /\ PassInv(s, u, 1)
<1> DEFINE u == UpdateRatchets(s, enc)
<1>1. CASE s.m_current_state # NoState
  <2>1. u = [ratchet |-> s.m_current_state, passthrough |-> FALSE]
    BY <1>1 DEF UpdateRatchets
  <2>2. s.m_current_state \in MlsState
    BY <1>1 DEF Session
  <2>3. s.m_current_state.e <= s.m_current_state.e
    BY <2>2, GroupsAssumption DEF MlsState
  <2> QED BY <1>1, <2>1, <2>2, <2>3 DEF Encryptor, KeyInv, GroupInv, PassInv
<1>2. CASE s.m_current_state = NoState
  <2>1. enc.ratchet = NoState
    BY <1>2 DEF KeyInv
  <2>2. u = [ratchet |-> NoState, passthrough |-> TRUE]
    BY <1>2, <2>1 DEF UpdateRatchets
  <2> QED BY <2>2 DEF Encryptor, KeyInv, PassInv
<1> QED BY <1>1, <1>2

\* maybe_start_mls_async leaves a key that fits, whatever it does.
LEMMA StartKeeps ==
  ASSUME NEW s \in Session, NEW enc \in Encryptor, NEW v \in 0..1, NEW force \in BOOLEAN, NEW then,
         made \in 0..MaxGroups, GroupInv(s), KeyInv(s, enc),
         then = "execute" => v = 1,
         StartMls(s, enc, v, force, then)
  PROVE  /\ session' \in Session /\ encryptor' \in Encryptor /\ made' \in 0..MaxGroups
         /\ GroupInv(session') /\ KeyInv(session', encryptor') /\ PassInv(session', encryptor', v)
         /\ handler' = then \/ handler' = "idle"
         /\ handler' = "execute" => session'.m_session_group_id # 0 \/ then # "execute"
<1> DEFINE f == IF force THEN reset(s) ELSE s
<1>1. f \in Session /\ GroupInv(f) /\ f.m_mls_external_sender = s.m_mls_external_sender
        /\ (force => f.m_session_group_id = 0)
  BY ResetKeeps
<1>2. PICK r \in MaybeStart(s, enc, v, force) :
        /\ r.sends # "no" => made < MaxGroups
        /\ made' = IF r.sends = "no" THEN made ELSE made + 1
        /\ session' = r.s
        /\ handler' = IF r.sends = "yes" THEN then ELSE "idle"
        /\ encryptor' = IF then = "execute" /\ r.sends = "no" THEN UpdateRatchets(r.s, r.enc)
                        ELSE r.enc
  BY DEF StartMls
<1>3. made' \in 0..MaxGroups /\ (handler' = then \/ handler' = "idle")
  BY <1>2, GroupsAssumption
<1>4. CASE v = 0
  <2>1. r = [s |-> s, enc |-> enc, sends |-> "no"] /\ then # "execute"
    BY <1>4 DEF MaybeStart
  <2>2. session' = s /\ encryptor' = enc /\ handler' = "idle"
    BY <1>2, <2>1
  <2> QED BY <1>3, <1>4, <2>2 DEF PassInv
<1>5. CASE v = 1 /\ ((f.m_session_group_id # 0 /\ ~force) \/ ~f.m_mls_external_sender)
  <2>1. r = [s |-> f, enc |-> enc, sends |-> "no"]
    BY <1>5 DEF MaybeStart
  <2>2. session' = f /\ handler' = "idle" /\ r.enc = enc
          /\ encryptor' = (IF then = "execute" THEN UpdateRatchets(f, enc) ELSE enc)
    BY <1>2, <2>1
  <2>3. KeyInv(f, enc) /\ (f.m_session_group_id # 0 \/ enc.ratchet = NoState)
    <3>1. CASE ~f.m_mls_external_sender
      BY <1>1, <3>1 DEF KeyInv
    <3>2. CASE f.m_session_group_id # 0 /\ ~force
      BY <3>2
    <3> QED BY <1>5, <3>1, <3>2
  <2>4. PassInv(f, enc, 1)
    BY <2>3 DEF KeyInv, PassInv
  <2>5. CASE then = "execute"
    BY <1>1, <1>3, <1>5, <2>2, <2>3, <2>5, UpdateKeeps
  <2>6. CASE then # "execute"
    BY <1>1, <1>3, <1>5, <2>2, <2>3, <2>4, <2>6
  <2> QED BY <2>5, <2>6
<1>6. CASE v = 1 /\ (f.m_session_group_id = 0 \/ force) /\ f.m_mls_external_sender
  <2>1. PICK leaf \in BOOLEAN :
          r = [s |-> get_marshalled_key_package(init(f, made + 1, leaf)),
               enc |-> GroupEncryptor(enc), sends |-> IF leaf THEN "yes" ELSE "failed"]
    BY <1>6 DEF MaybeStart
  <2>2. made + 1 \in 1..MaxGroups
    BY <1>2, <2>1, GroupsAssumption
  <2> DEFINE t == get_marshalled_key_package(init(f, made + 1, leaf))
  <2>3. t \in Session /\ GroupInv(t) /\ t.m_session_group_id # 0
    BY <1>1, <1>6, <2>2, InitKeeps
  <2> HIDE DEF t
  <2>4. session' = t /\ encryptor' = NewEncryptor
    BY <1>2, <2>1 DEF t, GroupEncryptor
  <2>5. NewEncryptor \in Encryptor /\ KeyInv(t, NewEncryptor) /\ PassInv(t, NewEncryptor, v)
    BY DEF NewEncryptor, Encryptor, KeyInv, PassInv
  <2> QED BY <1>3, <2>3, <2>4, <2>5
<1> QED BY <1>4, <1>5, <1>6

\* What StartMls does to the invariant, the version and the transitions aside.
LEMMA StartInv ==
  ASSUME NEW s \in Session, NEW v \in 0..1, NEW force \in BOOLEAN, NEW then,
         DInv, GroupInv(s), KeyInv(s, encryptor),
         then = "execute" => v = 1, StartMls(s, encryptor, v, force, then), UNCHANGED m_dave,
         protocol_version' = v, prepared' \in [Tids \cup {0} -> {0, 1, NoState}]
  PROVE  DInv'
<1>1. /\ session' \in Session /\ encryptor' \in Encryptor /\ made' \in 0..MaxGroups
      /\ GroupInv(session') /\ KeyInv(session', encryptor') /\ PassInv(session', encryptor', v)
      /\ handler' = then \/ handler' = "idle"
      /\ handler' = "execute" => session'.m_session_group_id # 0 \/ then # "execute"
  BY StartKeeps DEF DInv, DType
<1> QED BY <1>1 DEF DInv, DType, GroupInv, KeyInv, PassInv

\* execute_dave_transition_now_async
LEMMA ExecuteInv ==
  ASSUME DInv, NEW v \in 0..1, Execute(v), UNCHANGED m_dave,
         prepared' \in [Tids \cup {0} -> {0, 1, NoState}]
  PROVE  DInv'
<1>1. CASE ~m_dave
  BY <1>1 DEF Execute, DInv, DType, GroupInv, KeyInv, PassInv
<1>2. CASE m_dave /\ v = 0
  <2>1. /\ protocol_version' = 0 /\ session' = reset(session) /\ handler' = "idle"
        /\ encryptor' = [encryptor EXCEPT !.passthrough = TRUE] /\ UNCHANGED made
    BY <1>2 DEF Execute
  <2>2. encryptor' \in Encryptor /\ encryptor'.passthrough = TRUE
          /\ encryptor'.ratchet = encryptor.ratchet
    BY <2>1 DEF DInv, DType, Encryptor
  <2>3. session' \in Session /\ GroupInv(session') /\ session'.m_session_group_id = 0
          /\ session'.m_mls_external_sender = session.m_mls_external_sender
    BY <2>1, ResetKeeps DEF DInv, DType
  <2>4. KeyInv(session', encryptor') /\ PassInv(session', encryptor', 0)
    BY <2>2, <2>3 DEF DInv, KeyInv, PassInv
  <2> QED BY <2>1, <2>2, <2>3, <2>4 DEF DInv, DType, GroupInv, KeyInv, PassInv
<1>3. CASE m_dave /\ v = 1
  <2>1. protocol_version' = v /\ StartMls(session, encryptor, v, FALSE, "execute")
    <3>1. v # 0
      BY <1>3
    <3> QED BY <1>3, <3>1, Zenon DEF Execute
  <2>2. session \in Session /\ GroupInv(session) /\ KeyInv(session, encryptor)
    BY DEF DInv, DType
  <2> QED BY <1>3, <2>1, <2>2, StartInv
<1> QED BY <1>1, <1>2, <1>3

\* After a reset the encryptor's key still waits for a new group to replace it.
LEMMA ResetInv ==
  ASSUME DInv
  PROVE  reset(session) \in Session /\ GroupInv(reset(session)) /\ KeyInv(reset(session), encryptor)
BY ResetKeeps DEF DInv, DType, KeyInv

\* The external sender is learned.
LEMMA SenderInv ==
  ASSUME DInv
  PROVE  LET s == set_external_sender(session)
         IN s \in Session /\ GroupInv(s) /\ KeyInv(s, encryptor)
<1> DEFINE s == set_external_sender(session)
           a == [session EXCEPT !.m_mls_external_sender = TRUE]
<1>1. session \in Session /\ GroupInv(session) /\ KeyInv(session, encryptor)
  BY DEF DInv, DType
<1>2. CASE session.m_current_state # NoState
  BY <1>1, <1>2 DEF set_external_sender
<1>3. CASE session.m_current_state = NoState
  <2>1. /\ a \in Session /\ a.m_mls_external_sender = TRUE
        /\ a.m_current_state = NoState /\ a.m_session_group_id = session.m_session_group_id
        /\ a.m_state_with_proposals = session.m_state_with_proposals
        /\ a.m_pending_group_state = session.m_pending_group_state
        /\ a.m_join_key_package = session.m_join_key_package
    BY <1>1, <1>3 DEF Session
  <2> HIDE DEF a
  <2>2. s = create_pending_group(a)
    BY <1>3 DEF set_external_sender, a
  <2>3. /\ s \in Session /\ s.m_mls_external_sender = TRUE
        /\ s.m_current_state = NoState /\ s.m_session_group_id = a.m_session_group_id
        /\ s.m_state_with_proposals = a.m_state_with_proposals
        /\ s.m_join_key_package = a.m_join_key_package
        /\ s.m_pending_group_state =>
             a.m_pending_group_state \/ a.m_session_group_id # 0
    BY <2>1, <2>2 DEF Session, create_pending_group
  <2> HIDE DEF s
  <2>4. GroupInv(s) /\ KeyInv(s, encryptor)
    BY <1>1, <1>3, <2>1, <2>3 DEF GroupInv, KeyInv
  <2> QED BY <2>3, <2>4 DEF s
<1> QED BY <1>2, <1>3

\* A handler that leaves the encryption alone and waits for a send.
LEMMA IdleInv ==
  ASSUME DInv, UNCHANGED <<m_dave, protocol_version, session, encryptor, made>>,
         prepared' \in [Tids \cup {0} -> {0, 1, NoState}], handler' # "execute" \/ handler' = handler
  PROVE  DInv'
BY DEF DInv, DType, GroupInv, KeyInv, PassInv

\* The session changes, the group and the encryptor stay.
LEMMA SessionInv ==
  ASSUME DInv, UNCHANGED <<m_dave, protocol_version, encryptor, prepared, made>>,
         handler' # "execute", session' \in Session, GroupInv(session'),
         session'.m_session_group_id = session.m_session_group_id,
         session'.m_mls_external_sender = session.m_mls_external_sender,
         session.m_current_state # NoState =>
           session'.m_current_state # NoState /\ session'.m_current_state.e >= session.m_current_state.e
  PROVE  DInv'
<1>1. KeyInv(session', encryptor')
  <2>1. CASE encryptor.ratchet = NoState
    BY <2>1 DEF DInv, KeyInv
  <2>2. CASE encryptor.ratchet # NoState /\ session.m_session_group_id = 0
    BY <2>2 DEF DInv, KeyInv
  <2>3. CASE encryptor.ratchet # NoState /\ session.m_session_group_id # 0
    <3>1. /\ session.m_current_state # NoState /\ session'.m_current_state # NoState
          /\ encryptor.ratchet.g = session.m_current_state.g
          /\ encryptor.ratchet.e <= session.m_current_state.e
      BY <2>3 DEF DInv, KeyInv
    <3>2. session'.m_current_state.g = session.m_current_state.g
      BY <3>1 DEF DInv, GroupInv
    <3>3. /\ encryptor.ratchet \in MlsState /\ session.m_current_state \in MlsState
          /\ session'.m_current_state \in MlsState
      BY <2>3, <3>1 DEF DInv, DType, Session, Encryptor
    <3>4. encryptor.ratchet.e <= session'.m_current_state.e
      BY <3>1, <3>3, GroupsAssumption DEF MlsState
    <3> QED BY <2>3, <3>1, <3>2, <3>4 DEF DInv, KeyInv
  <2> QED BY <2>1, <2>2, <2>3
<1>2. PassInv(session', encryptor', protocol_version')
  BY DEF DInv, PassInv
<1> QED BY <1>1, <1>2 DEF DInv, DType, GroupInv, KeyInv, PassInv

LEMMA ProposalsInv ==
  ASSUME DInv, OnProposals
  PROVE  DInv'
<1> DEFINE b == ProposalBase(session)
<1>1. session \in Session /\ GroupInv(session) /\ b # NoState
  BY DEF DInv, DType, OnProposals
<1>2. b \in MlsState /\ session.m_mls_external_sender /\ session.m_session_group_id # 0
        /\ b.g = session.m_session_group_id
        /\ (session.m_current_state # NoState => session.m_current_state.e <= b.e)
  <2>1. CASE session.m_state_with_proposals # NoState
    BY <1>1, <2>1 DEF ProposalBase, GroupInv, Session
  <2>2. CASE session.m_state_with_proposals = NoState /\ session.m_pending_group_state
    <3>1. b = [g |-> session.m_session_group_id, e |-> 0]
      BY <2>2 DEF ProposalBase
    <3>2. session.m_session_group_id \in 1..MaxGroups /\ 0 \in 0..MaxEpochs
      BY <1>1, <2>2, GroupsAssumption DEF Session, GroupInv
    <3> QED BY <1>1, <2>2, <3>1, <3>2 DEF GroupInv, MlsState
  <2>3. CASE session.m_state_with_proposals = NoState /\ ~session.m_pending_group_state
    <3>1. b = session.m_current_state /\ b \in MlsState
      BY <1>1, <2>3 DEF ProposalBase, Session
    <3>2. b.e <= b.e
      BY <3>1, GroupsAssumption DEF MlsState
    <3> QED BY <1>1, <3>1, <3>2 DEF GroupInv
  <2> QED BY <2>1, <2>2, <2>3
<1>3. session' = [session EXCEPT !.m_state_with_proposals = b]
  BY DEF OnProposals, process_proposals
<1> HIDE DEF b
<1>4. /\ session' \in Session /\ session'.m_state_with_proposals = b
      /\ session'.m_session_group_id = session.m_session_group_id
      /\ session'.m_mls_external_sender = session.m_mls_external_sender
      /\ session'.m_current_state = session.m_current_state
      /\ session'.m_pending_group_state = session.m_pending_group_state
      /\ session'.m_join_key_package = session.m_join_key_package
  BY <1>1, <1>2, <1>3 DEF Session
<1>5. GroupInv(session')
  BY <1>1, <1>2, <1>4 DEF GroupInv
<1>6. session.m_current_state # NoState => session.m_current_state.e >= session.m_current_state.e
  BY <1>1, GroupsAssumption DEF Session, MlsState
<1> QED
  BY <1>4, <1>5, <1>6, SessionInv DEF OnProposals, Opcode

\* A commit or a welcome: a new epoch, and nothing is pending any more.
LEMMA EpochInv ==
  ASSUME DInv, UNCHANGED <<m_dave, protocol_version, encryptor, prepared, made>>,
         handler' # "execute", NEW m \in MlsState, session.m_mls_external_sender,
         session.m_session_group_id # 0, m.g = session.m_session_group_id,
         session.m_current_state # NoState => m.e >= session.m_current_state.e,
         session' = [clear_pending_state(session) EXCEPT !.m_current_state = m]
  PROVE  DInv'
<1> DEFINE c == clear_pending_state(session)
<1>1. session \in Session
  BY DEF DInv, DType
<1>2. /\ c \in Session /\ c.m_mls_external_sender = session.m_mls_external_sender
      /\ c.m_session_group_id = session.m_session_group_id
      /\ c.m_pending_group_state = FALSE /\ c.m_join_key_package = FALSE
      /\ c.m_state_with_proposals = NoState
  BY <1>1 DEF clear_pending_state, Session
<1> HIDE DEF c
<1>3. /\ session' \in Session /\ session'.m_mls_external_sender = session.m_mls_external_sender
      /\ session'.m_session_group_id = session.m_session_group_id
      /\ session'.m_pending_group_state = FALSE /\ session'.m_join_key_package = FALSE
      /\ session'.m_state_with_proposals = NoState /\ session'.m_current_state = m
  <2>1. session' = [c EXCEPT !.m_current_state = m]
    BY DEF c
  <2> QED BY <1>2, <2>1 DEF Session
<1>4. m # NoState
  BY NoStateAssumption
<1>5. GroupInv(session')
  BY <1>3, <1>4 DEF GroupInv
<1> QED BY <1>3, <1>4, <1>5, SessionInv

LEMMA CommitInv ==
  ASSUME DInv, NEW tid \in Tids \cup {0}, OnAnnounceCommit(tid) \/ OnWelcome(tid)
  PROVE  DInv'
<1>1. session \in Session /\ GroupInv(session)
  BY DEF DInv, DType
<1>2. /\ UNCHANGED <<m_dave, protocol_version, encryptor, prepared, made>>
      /\ handler' # "execute"
  BY DEF OnAnnounceCommit, OnWelcome, Opcode
<1>3. CASE UNCHANGED session
  BY <1>2, <1>3, IdleInv DEF DInv, DType
<1>4. CASE /\ session.m_state_with_proposals # NoState
           /\ session.m_state_with_proposals.e < MaxEpochs
           /\ session' = process_commit(session)
  <2> DEFINE b == session.m_state_with_proposals
             m == [b EXCEPT !.e = @ + 1]
  <2>1. b \in MlsState
    BY <1>1, <1>4 DEF Session
  <2>2. m \in MlsState /\ m.g = b.g /\ m.e = b.e + 1
    BY <1>4, <2>1, GroupsAssumption DEF MlsState
  <2>3. /\ session.m_mls_external_sender /\ session.m_session_group_id # 0
        /\ b.g = session.m_session_group_id
        /\ session.m_current_state # NoState => session.m_current_state.e <= b.e
    BY <1>1, <1>4 DEF GroupInv
  <2>4. session.m_current_state # NoState => m.e >= session.m_current_state.e
    <3>1. session.m_current_state # NoState => session.m_current_state \in MlsState
      BY <1>1 DEF Session
    <3> QED BY <2>1, <2>2, <2>3, <3>1, GroupsAssumption DEF MlsState
  <2>5. session' = [clear_pending_state(session) EXCEPT !.m_current_state = m]
    BY <1>4 DEF process_commit
  <2> HIDE DEF m, b
  <2> QED BY <1>2, <2>2, <2>3, <2>4, <2>5, EpochInv
<1>5. ASSUME CanJoin(session), NEW e \in 1..MaxEpochs, session' = process_welcome(session, e)
      PROVE  DInv'
  <2> DEFINE m == [g |-> session.m_session_group_id, e |-> e]
  <2>1. /\ session.m_mls_external_sender /\ session.m_session_group_id # 0
        /\ session.m_current_state = NoState
    BY <1>1, <1>5 DEF CanJoin, GroupInv
  <2>2. session.m_session_group_id \in 1..MaxGroups /\ e \in 0..MaxEpochs
    BY <1>1, <2>1, GroupsAssumption DEF Session
  <2>3. m \in MlsState /\ m.g = session.m_session_group_id
    BY <2>2 DEF MlsState
  <2>4. session' = [clear_pending_state(session) EXCEPT !.m_current_state = m]
    BY <1>5 DEF process_welcome
  <2> HIDE DEF m
  <2> QED BY <1>2, <2>1, <2>3, <2>4, EpochInv
<1> QED
  BY <1>3, <1>4, <1>5 DEF OnAnnounceCommit, OnWelcome

LEMMA TransitionInv ==
  ASSUME DInv, NEW tid \in Tids \cup {0}, NEW v \in 0..1,
         OnPrepareTransition(tid, v) \/ OnExecuteTransition(tid)
  PROVE  DInv'
<1>1. UNCHANGED m_dave /\ handler = "idle"
  BY DEF OnPrepareTransition, OnExecuteTransition, Opcode, Reading
<1>2. prepared \in [Tids \cup {0} -> {0, 1, NoState}] /\ protocol_version \in 0..1
        /\ encryptor \in Encryptor
  BY DEF DInv, DType
<1>3. prepared' \in [Tids \cup {0} -> {0, 1, NoState}]
  <2>1. v \in {0, 1, NoState}
    OBVIOUS
  <2> QED BY <1>2, <2>1 DEF OnPrepareTransition, OnExecuteTransition
<1>4. CASE OnExecuteTransition(tid)
  <2> DEFINE w == IF prepared[tid] # NoState THEN prepared[tid] ELSE protocol_version
  <2>1. w \in 0..1
    BY <1>2
  <2>2. Execute(w)
    BY <1>4 DEF OnExecuteTransition
  <2> HIDE DEF w
  <2> QED BY <1>1, <1>3, <2>1, <2>2, ExecuteInv
<1>5. CASE OnPrepareTransition(tid, v)
  <2>1. CASE Execute(v)
    BY <1>1, <1>3, <2>1, ExecuteInv
  <2>2. CASE UNCHANGED <<protocol_version, session, encryptor, made, handler>>
    BY <1>1, <1>3, <2>2, IdleInv
  <2>3. CASE /\ handler' = "done" /\ UNCHANGED <<protocol_version, session, made>>
             /\ encryptor' = [encryptor EXCEPT !.passthrough = @ \/ v = 0]
    <3>1. encryptor' \in Encryptor /\ encryptor'.ratchet = encryptor.ratchet
            /\ (encryptor.passthrough => encryptor'.passthrough)
      BY <1>2, <2>3 DEF Encryptor
    <3>2. KeyInv(session', encryptor') /\ PassInv(session', encryptor', protocol_version')
      BY <2>3, <3>1 DEF DInv, KeyInv, PassInv
    <3> QED BY <1>1, <1>3, <2>3, <3>1, <3>2 DEF DInv, DType, GroupInv, KeyInv, PassInv
  <2> QED BY <1>5, <2>1, <2>2, <2>3 DEF OnPrepareTransition
<1> QED BY <1>4, <1>5

LEMMA SendInv ==
  ASSUME DInv, SendFails \/ SendDone
  PROVE  DInv'
<1>1. UNCHANGED <<m_dave, prepared>>
  BY DEF SendFails, SendDone
<1>2. prepared' \in [Tids \cup {0} -> {0, 1, NoState}]
  BY <1>1 DEF DInv, DType
<1>3. CASE UNCHANGED <<protocol_version, session, encryptor, made>> /\ handler' \in {"idle", "crashed"}
  BY <1>1, <1>2, <1>3, IdleInv
<1>4. CASE /\ handler = "execute" /\ m_dave
           /\ encryptor' = UpdateRatchets(session, encryptor) /\ handler' = "idle"
           /\ UNCHANGED <<protocol_version, session, made>>
  <2>1. protocol_version = 1 /\ session.m_session_group_id # 0 /\ session \in Session
          /\ encryptor \in Encryptor /\ GroupInv(session) /\ KeyInv(session, encryptor)
    BY <1>4 DEF DInv, DType
  <2>2. encryptor' \in Encryptor /\ KeyInv(session, encryptor') /\ PassInv(session, encryptor', 1)
    BY <1>4, <2>1, UpdateKeeps
  <2> QED BY <1>1, <1>2, <1>4, <2>1, <2>2 DEF DInv, DType, GroupInv, KeyInv, PassInv
<1>5. CASE Execute(protocol_version)
  BY <1>1, <1>2, <1>5, ExecuteInv DEF DInv, DType
<1>6. CASE StartMls(reset(session), encryptor, protocol_version, TRUE, "done") /\ UNCHANGED protocol_version
  <2>1. protocol_version \in 0..1
    BY DEF DInv, DType
  <2> QED BY <1>1, <1>2, <1>6, <2>1, ResetInv, StartInv
<1> QED
  BY <1>3, <1>4, <1>5, <1>6 DEF SendFails, SendDone

\* The step case of DInv.
LEMMA DaveStep == DInv /\ [MNext]_mvars => DInv'
<1> SUFFICES ASSUME DInv, [MNext]_mvars PROVE DInv'
  OBVIOUS
<1>1. protocol_version \in 0..1
        /\ prepared \in [Tids \cup {0} -> {0, 1, NoState}] /\ session \in Session
        /\ encryptor \in Encryptor /\ GroupInv(session) /\ KeyInv(session, encryptor)
  BY DEF DInv, DType
<1>2. ASSUME NEW v \in 0..1, OnSessionDescription(v) PROVE DInv'
  <2>1. StartMls(session, encryptor, v, FALSE, "describe") /\ protocol_version' = v
          /\ UNCHANGED <<m_dave, prepared>>
    BY <1>2 DEF OnSessionDescription
  <2> QED BY <1>1, <2>1, StartInv
<1>3. CASE OnExternalSender
  <2> DEFINE s == set_external_sender(session)
  <2>1. s \in Session /\ GroupInv(s) /\ KeyInv(s, encryptor)
    BY SenderInv
  <2>2. StartMls(s, encryptor, protocol_version, FALSE, "done")
          /\ UNCHANGED <<m_dave, protocol_version, prepared>>
    BY <1>3 DEF OnExternalSender
  <2> HIDE DEF s
  <2> QED BY <1>1, <2>1, <2>2, StartInv
<1>4. ASSUME NEW v \in 0..1, OnPrepareEpoch(v) PROVE DInv'
  <2>1. StartMls(reset(session), encryptor, v, FALSE, "done")
          /\ UNCHANGED <<m_dave, prepared>> /\ protocol_version' = v
    BY <1>4 DEF OnPrepareEpoch, Opcode
  <2> QED BY <1>1, <2>1, ResetInv, StartInv
<1>5. CASE OnReady
  <2>1. UNCHANGED <<protocol_version, session, prepared, made, handler>> /\ m_dave' = TRUE
          /\ handler = "idle" /\ encryptor' = [encryptor EXCEPT !.passthrough = TRUE]
    BY <1>5 DEF OnReady, Reading
  <2>2. encryptor' \in Encryptor /\ encryptor'.ratchet = encryptor.ratchet
          /\ encryptor'.passthrough = TRUE
    BY <1>1, <2>1 DEF Encryptor
  <2>3. KeyInv(session', encryptor') /\ PassInv(session', encryptor', protocol_version')
    BY <1>1, <2>1, <2>2 DEF KeyInv, PassInv
  <2> QED BY <2>1, <2>2, <2>3 DEF DInv, DType, GroupInv, KeyInv, PassInv
<1>6. CASE DStop
  <2>1. NoSession \in Session /\ GroupInv(NoSession) /\ NewEncryptor \in Encryptor
          /\ KeyInv(NoSession, NewEncryptor) /\ NewEncryptor.passthrough = TRUE
    BY GroupsAssumption DEF NoSession, Session, GroupInv, NewEncryptor, Encryptor, KeyInv
  <2>2. session' = NoSession /\ encryptor' = NewEncryptor /\ m_dave' = FALSE
          /\ UNCHANGED <<protocol_version, prepared, made>>
    BY <1>6 DEF DStop
  <2> QED BY <2>1, <2>2 DEF DInv, DType, GroupInv, KeyInv, PassInv
<1>7. CASE UNCHANGED dvars
  BY <1>7 DEF dvars, DInv, DType, GroupInv, KeyInv, PassInv
<1>8. UNCHANGED mvars => UNCHANGED dvars
  BY DEF mvars
<1>9. CASE OnProposals
  BY <1>9, ProposalsInv
<1>10. CASE SendFails \/ SendDone
  BY <1>10, SendInv
<1>11. ASSUME NEW tid \in Tids \cup {0}, NEW v \in 0..1,
              OnAnnounceCommit(tid) \/ OnWelcome(tid) \/ OnPrepareTransition(tid, v)
                \/ OnExecuteTransition(tid)
       PROVE  DInv'
  BY <1>11, CommitInv, TransitionInv
<1>12. CASE MNext
  <2>1. 0 \in 0..1
    OBVIOUS
  <2> QED
    BY <1>12, <1>2, <1>3, <1>4, <1>5, <1>6, <1>7, <1>9, <1>10, <1>11, <2>1
    DEF MNext, Described, DescribedLater
<1> QED BY <1>7, <1>8, <1>12

\* The inductive invariant of the end-to-end encryption, under every order of
\* opcodes and versions, failed sends, recoveries and request_stop.
THEOREM DaveInductive == MSpec => []DInv
<1>1. MInit => DInv
  <2> SUFFICES ASSUME DInit PROVE DInv
    BY DEF MInit
  <2>1. session \in Session /\ GroupInv(session) /\ encryptor \in Encryptor
          /\ KeyInv(session, encryptor) /\ encryptor.passthrough = TRUE
    BY GroupsAssumption
    DEF DInit, NoSession, Session, GroupInv, NewEncryptor, Encryptor, KeyInv
  <2>2. made \in 0..MaxGroups /\ protocol_version = 0 /\ m_dave = FALSE /\ handler = "idle"
          /\ prepared \in [Tids \cup {0} -> {0, 1, NoState}]
    BY GroupsAssumption DEF DInit
  <2>3. DType
    <3>1. protocol_version \in 0..1
      BY <2>2
    <3>2. m_dave \in BOOLEAN
      BY <2>2, Zenon
    <3> QED BY <2>1, <2>2, <3>1, <3>2, Zenon DEF DType
  <2>4. PassInv(session, encryptor, protocol_version)
    BY <2>1 DEF PassInv
  <2> QED BY <2>1, <2>2, <2>3, <2>4 DEF DInv
<1>2. DInv /\ [MNext]_mvars => DInv'
  BY DaveStep
<1> QED BY <1>1, <1>2, PTL DEF MSpec

\* No sequence of resets, recoveries, new epochs, failed sends and changes of
\* version leaves the encryptor using the key of a group that is gone, but for
\* the downgrade to version 0 that EncryptsInGroup names.
THEOREM KeyOfTheGroup == MSpec => []EncryptsInGroup
<1>1. DInv => EncryptsInGroup
  BY DEF DInv, DType, KeyInv, PassInv, EncryptsInGroup
<1> QED BY <1>1, DaveInductive, PTL

-----------------------------------------------------------------------------
(* The sender                                                              *)

Queued(f) == \E i \in DOMAIN waiting : waiting[i] = f
Held(f) == \E l \in Loops : pkt[l] = f

\* The frames the counter stands for.
Counted == {f \in Frames : Queued(f) \/ f \in cancelled \/ Held(f) \/ f \in lost}

SType ==
  /\ waiting \in Seq(Frames) /\ cancelled \subseteq Frames /\ lost \subseteq Frames
  /\ accepted \subseteq Frames
  /\ pkt \in [Loops -> Frames \cup {None}]
  /\ DOMAIN op = Loops

\* A frame is in one place: once in the channel, or with a send that failed, or
\* with one SenderOp, or lost; and a SenderOp between two frames holds none.
OnePlace ==
  /\ \A i, j \in DOMAIN waiting : waiting[i] = waiting[j] => i = j
  /\ \A k, l \in Loops : pkt[k] = pkt[l] /\ pkt[k] # None => k = l
  /\ \A l \in Loops : op[l] \in {"got", "timer", "due", "sending"} <=> pkt[l] # None
  /\ \A f \in Frames :
       /\ Queued(f) => f \notin cancelled /\ ~Held(f) /\ f \notin lost
       /\ f \in cancelled => ~Held(f) /\ f \notin lost
       /\ Held(f) => f \notin lost
  /\ Counted \subseteq accepted

SInv == SType /\ OnePlace /\ m_pending_frames = Cardinality(Counted)

\* Frames are few, and so are the counted ones.
LEMMA CountedFinite == IsFiniteSet(Counted) /\ Cardinality(Counted) \in Nat
<1>1. Counted \in SUBSET Frames
  BY DEF Counted
<1>2. IsFiniteSet(Counted)
  BY <1>1, FramesAssumption, FS_Subset
<1> QED BY <1>2, FS_CardinalityType

\* A step that moves frames from place to place.
LEMMA SameCount ==
  ASSUME m_pending_frames = Cardinality(Counted), UNCHANGED m_pending_frames, Counted' = Counted
  PROVE  (m_pending_frames = Cardinality(Counted))'
OBVIOUS

\* A step after which one frame is no longer on its way.
LEMMA OneLess ==
  ASSUME m_pending_frames = Cardinality(Counted), NEW f \in Counted, Counted' = Counted \ {f},
         m_pending_frames' = m_pending_frames - 1
  PROVE  (m_pending_frames = Cardinality(Counted))'
BY CountedFinite, FS_RemoveElement

LEMMA SendOpusInv ==
  ASSUME SInv, NEW f \in Frames, send_opus(f)
  PROVE  SInv'
<1> USE DEF SInv
<1>1. /\ f \notin accepted /\ waiting' = Append(waiting, f) /\ accepted' = accepted \cup {f}
      /\ m_pending_frames' = m_pending_frames + 1 /\ UNCHANGED <<cancelled, op, pkt, lost>>
  BY DEF send_opus, Count, opVars
<1>2. f \notin Counted
  BY <1>1 DEF OnePlace
<1>3. /\ waiting' \in Seq(Frames) /\ DOMAIN waiting = 1..Len(waiting) /\ Len(waiting) \in Nat
      /\ DOMAIN waiting' = 1..Len(waiting) + 1
      /\ \A i \in 1..Len(waiting) : waiting'[i] = waiting[i]
      /\ waiting'[Len(waiting) + 1] = f
  BY <1>1 DEF SType
<1>4. \A i \in 1..Len(waiting) + 1 : i \in 1..Len(waiting) \/ i = Len(waiting) + 1
  BY <1>3
<1>5. \A i \in 1..Len(waiting) : i \in 1..Len(waiting) + 1
  BY <1>3
<1>6. Len(waiting) + 1 \in 1..Len(waiting) + 1
  BY <1>3
<1>7. \A g \in Frames : (Queued(g)' <=> Queued(g) \/ g = f) /\ (Held(g)' <=> Held(g))
  BY <1>1, <1>3, <1>4, <1>5, <1>6 DEF Queued, Held
<1>8. Counted' = Counted \cup {f}
  BY <1>1, <1>7 DEF Counted
<1>9. SType'
  BY <1>1, <1>3 DEF SType
<1>10. ~Queued(f) /\ f \notin cancelled /\ ~Held(f) /\ f \notin lost
  BY <1>2 DEF Counted
<1>11. \A i, j \in DOMAIN waiting' : waiting'[i] = waiting'[j] => i = j
  BY <1>3, <1>4, <1>10 DEF OnePlace, Queued
<1>12. OnePlace'
  BY <1>1, <1>7, <1>8, <1>10, <1>11 DEF OnePlace
<1>13. Cardinality(Counted') = Cardinality(Counted) + 1
  BY <1>2, <1>8, CountedFinite, FS_AddElement
<1> QED BY <1>1, <1>9, <1>12, <1>13

LEMMA PassesInv ==
  ASSUME SInv, NEW l \in Loops, ChannelPasses(l)
  PROVE  SInv'
<1> USE DEF SInv
<1>0. PICK f : f = Head(waiting)
  OBVIOUS
<1>1. /\ op[l] = "receiving" /\ waiting # <<>> /\ waiting' = Tail(waiting)
      /\ op' = [op EXCEPT ![l] = "got"] /\ pkt' = [pkt EXCEPT ![l] = f]
      /\ UNCHANGED <<m_pending_frames, cancelled, accepted, lost>>
  BY <1>0 DEF ChannelPasses, Put
<1>2. /\ waiting' \in Seq(Frames) /\ f \in Frames
      /\ DOMAIN waiting = 1..Len(waiting) /\ Len(waiting) \in Nat \ {0}
      /\ DOMAIN waiting' = 1..Len(waiting) - 1 /\ f = waiting[1]
      /\ \A i \in 1..Len(waiting) - 1 : waiting'[i] = waiting[i + 1]
  BY <1>0, <1>1 DEF SType
<1>3. pkt[l] = None /\ f # None
  BY <1>1, <1>2, FramesAssumption DEF OnePlace
<1>4. Queued(f) /\ ~Held(f) /\ f \notin lost /\ f \notin cancelled
  BY <1>2 DEF OnePlace, Queued
<1>5. \A i \in 1..Len(waiting) - 1 : i + 1 \in 1..Len(waiting) /\ i + 1 # 1
  BY <1>2
<1>6. \A i \in 1..Len(waiting) : i = 1 \/ (i - 1 \in 1..Len(waiting) - 1 /\ (i - 1) + 1 = i)
  BY <1>2
<1>7. ~Queued(f)'
  BY <1>2, <1>5 DEF OnePlace, Queued
<1>8. \A g \in Frames : g # f => (Queued(g)' <=> Queued(g))
  <2>1. \A g \in Frames : Queued(g)' => Queued(g)
    BY <1>2, <1>5 DEF Queued
  <2>2. ASSUME NEW g \in Frames, g # f, NEW i \in DOMAIN waiting, waiting[i] = g
        PROVE  Queued(g)'
    <3>1. i - 1 \in 1..Len(waiting) - 1 /\ (i - 1) + 1 = i
      BY <1>2, <1>6, <2>2
    <3>2. waiting'[i - 1] = waiting[(i - 1) + 1]
      BY <1>2, <3>1
    <3> QED BY <1>2, <2>2, <3>1, <3>2 DEF Queued
  <2> QED BY <2>1, <2>2 DEF Queued
<1>9. \A g \in Frames : Held(g)' <=> Held(g) \/ g = f
  BY <1>1, <1>2, <1>3, FramesAssumption DEF Held, SType
<1>10. Counted' = Counted
  BY <1>1, <1>2, <1>4, <1>7, <1>8, <1>9 DEF Counted
<1>11. SType'
  BY <1>1, <1>2 DEF SType
<1>12. OnePlace'
  <2>1. \A i, j \in DOMAIN waiting' : waiting'[i] = waiting'[j] => i = j
    <3> SUFFICES ASSUME NEW i \in 1..Len(waiting) - 1, NEW j \in 1..Len(waiting) - 1,
                        waiting[i + 1] = waiting[j + 1]
                 PROVE  i = j
      BY <1>2
    <3>1. i + 1 = j + 1
      BY <1>2, <1>5 DEF OnePlace
    <3> QED BY <1>2, <3>1
  <2>2. \A k, m \in Loops : pkt'[k] = pkt'[m] /\ pkt'[k] # None => k = m
    BY <1>1, <1>4 DEF OnePlace, Held, SType
  <2>3. \A k \in Loops : op'[k] \in {"got", "timer", "due", "sending"} <=> pkt'[k] # None
    BY <1>1, <1>3 DEF OnePlace, SType
  <2>4. \A g \in Frames :
          /\ Queued(g)' => g \notin cancelled' /\ ~Held(g)' /\ g \notin lost'
          /\ g \in cancelled' => ~Held(g)' /\ g \notin lost'
          /\ Held(g)' => g \notin lost'
    BY <1>1, <1>4, <1>7, <1>8, <1>9 DEF OnePlace
  <2> QED BY <1>1, <1>10, <2>1, <2>2, <2>3, <2>4 DEF OnePlace
<1> QED BY <1>1, <1>10, <1>11, <1>12, SameCount

LEMMA FailedInv ==
  ASSUME SInv, NEW f \in Frames, SendFailed(f)
  PROVE  SInv'
<1> USE DEF SInv
<1>1. /\ f \in cancelled /\ cancelled' = cancelled \ {f}
      /\ m_pending_frames' = m_pending_frames - 1 /\ UNCHANGED <<waiting, accepted, op, pkt, lost>>
  BY DEF SendFailed, opVars
<1>2. \A g \in Frames : (Queued(g)' <=> Queued(g)) /\ (Held(g)' <=> Held(g))
  BY <1>1 DEF Queued, Held
<1>3. ~Queued(f) /\ ~Held(f) /\ f \notin lost
  BY <1>1 DEF OnePlace
<1>4. f \in Counted /\ Counted' = Counted \ {f}
  BY <1>1, <1>2, <1>3 DEF Counted
<1>5. SType'
  BY <1>1 DEF SType
<1>6. OnePlace'
  BY <1>1, <1>2, <1>4 DEF OnePlace
<1> QED BY <1>1, <1>4, <1>5, <1>6, OneLess

\* SenderOp is done with its frame.
LEMMA DoneInv ==
  ASSUME SInv, NEW l \in Loops, op[l] \in {"got", "due", "sending"},
         NEW where \in {"step", "ended", "gave up"}, Put(l, where, None),
         m_pending_frames' = m_pending_frames - 1,
         UNCHANGED <<waiting, cancelled, accepted, lost>>
  PROVE  SInv'
<1> USE DEF SInv
<1>0. PICK f : f = pkt[l]
  OBVIOUS
<1>1. op' = [op EXCEPT ![l] = where] /\ pkt' = [pkt EXCEPT ![l] = None]
  BY DEF Put
<1>2. f # None /\ f \in Frames /\ Held(f)
  BY <1>0 DEF OnePlace, SType, Held
<1>3. \A g \in Frames : Queued(g)' <=> Queued(g)
  BY DEF Queued
<1>4. \A g \in Frames : Held(g)' <=> Held(g) /\ g # f
  BY <1>0, <1>1, <1>2, FramesAssumption DEF Held, SType, OnePlace
<1>5. ~Queued(f) /\ f \notin cancelled /\ f \notin lost
  BY <1>2 DEF OnePlace
<1>6. f \in Counted /\ Counted' = Counted \ {f}
  BY <1>2, <1>3, <1>4, <1>5 DEF Counted
<1>7. SType'
  BY <1>1 DEF SType
<1>8. OnePlace'
  <2>1. \A k, m \in Loops : pkt'[k] = pkt'[m] /\ pkt'[k] # None => k = m
    BY <1>1 DEF OnePlace, SType
  <2>2. \A k \in Loops : op'[k] \in {"got", "timer", "due", "sending"} <=> pkt'[k] # None
    BY <1>1 DEF OnePlace, SType
  <2> QED BY <1>3, <1>4, <1>6, <2>1, <2>2 DEF OnePlace
<1> QED BY <1>6, <1>7, <1>8, OneLess

\* A SenderOp goes on and keeps what it holds.
LEMMA MovesInv ==
  ASSUME SInv, NEW l \in Loops, NEW where, op' = [op EXCEPT ![l] = where],
         where \in {"got", "timer", "due", "sending"} <=> op[l] \in {"got", "timer", "due", "sending"},
         UNCHANGED <<m_pending_frames, waiting, cancelled, accepted, pkt, lost>>
  PROVE  SInv'
<1>1. \A g \in Frames : (Queued(g)' <=> Queued(g)) /\ (Held(g)' <=> Held(g))
  BY DEF Queued, Held
<1>2. Counted' = Counted
  BY <1>1 DEF Counted
<1>3. \A k \in Loops : op'[k] \in {"got", "timer", "due", "sending"} <=> pkt'[k] # None
  BY DEF SInv, OnePlace, SType
<1>4. OnePlace'
  BY <1>1, <1>2, <1>3 DEF SInv, OnePlace
<1>5. SType'
  BY DEF SInv, SType
<1> QED BY <1>2, <1>4, <1>5, SameCount DEF SInv

\* Waits on the timer are cancelled: their frames are lost.
LEMMA LosesInv ==
  ASSUME SInv, NEW others \in SUBSET {k \in Loops : op[k] = "timer"},
         lost' = lost \cup {pkt[k] : k \in others},
         pkt' = [k \in Loops |-> IF k \in others THEN None ELSE pkt[k]],
         DOMAIN op' = Loops,
         \A k \in Loops : op'[k] \in {"got", "timer", "due", "sending"}
                            <=> k \notin others /\ op[k] \in {"got", "timer", "due", "sending"},
         waiting' \in Seq(Frames), cancelled' \subseteq Frames,
         \A i, j \in DOMAIN waiting' : waiting'[i] = waiting'[j] => i = j,
         \A g \in Frames : (Queued(g)' \/ g \in cancelled') <=> (Queued(g) \/ g \in cancelled),
         \A g \in Frames : Queued(g)' => g \notin cancelled',
         UNCHANGED <<m_pending_frames, accepted>>
  PROVE  SInv'
<1> USE DEF SInv
<1>1. \A k \in others : k \in Loops /\ pkt[k] \in Frames
  BY DEF OnePlace, SType
<1>2. \A g \in Frames : Held(g)' <=> Held(g) /\ ~(\E k \in others : pkt[k] = g)
  BY <1>1, FramesAssumption DEF Held, OnePlace, SType
<1>3. \A g \in Frames : g \in lost' <=> g \in lost \/ \E k \in others : pkt[k] = g
  BY <1>1
<1>4. \A g \in Frames : (\E k \in others : pkt[k] = g) => Held(g)
  BY <1>1 DEF Held
<1>5. Counted' = Counted
  BY <1>2, <1>3, <1>4 DEF Counted
<1>6. SType'
  <2>1. pkt' \in [Loops -> Frames \cup {None}]
    BY DEF SType
  <2>2. lost' \subseteq Frames
    BY <1>1 DEF SType
  <2> QED BY <2>1, <2>2 DEF SType
<1>7. OnePlace'
  <2>1. \A k, m \in Loops : pkt'[k] = pkt'[m] /\ pkt'[k] # None => k = m
    BY DEF OnePlace
  <2>2. \A k \in Loops : op'[k] \in {"got", "timer", "due", "sending"} <=> pkt'[k] # None
    BY DEF OnePlace
  <2>3. \A g \in Frames :
          /\ Queued(g)' => g \notin cancelled' /\ ~Held(g)' /\ g \notin lost'
          /\ g \in cancelled' => ~Held(g)' /\ g \notin lost'
          /\ Held(g)' => g \notin lost'
    BY <1>2, <1>3, <1>4 DEF OnePlace
  <2> QED BY <1>5, <2>1, <2>2, <2>3 DEF OnePlace
<1> QED BY <1>5, <1>6, <1>7, SameCount

LEMMA ReleaseInv ==
  ASSUME SInv, Release
  PROVE  SInv'
<1>0. PICK others : others = {k \in Loops : op[k] = "timer"}
  OBVIOUS
<1>1. /\ cancelled' = cancelled \cup ToSet(waiting) /\ waiting' = <<>>
      /\ op' = [l \in Loops |-> IF op[l] \in {"receiving", "timer"} THEN "ended" ELSE op[l]]
      /\ lost' = lost \cup {pkt[l] : l \in others}
      /\ UNCHANGED <<m_pending_frames, accepted>>
  BY <1>0 DEF Release
<1>2. pkt' = [k \in Loops |-> IF k \in others THEN None ELSE pkt[k]]
  BY <1>0 DEF Release
<1>3. \A k \in Loops : op'[k] \in {"got", "timer", "due", "sending"}
                         <=> k \notin others /\ op[k] \in {"got", "timer", "due", "sending"}
  BY <1>0, <1>1
<1>4. \A g : g \in ToSet(waiting) <=> Queued(g)
  BY DEF ToSet, Queued
<1>5. ToSet(waiting) \subseteq Frames
  BY DEF ToSet, SInv, SType
<1>6. cancelled' \subseteq Frames /\ waiting' \in Seq(Frames) /\ DOMAIN waiting' = {}
  BY <1>1, <1>5 DEF SInv, SType
<1>7. \A g \in Frames : ~Queued(g)' /\ (g \in cancelled' <=> Queued(g) \/ g \in cancelled)
  BY <1>1, <1>4, <1>6 DEF Queued
<1>8. DOMAIN op' = Loops
  BY <1>1
<1> QED BY <1>0, <1>1, <1>2, <1>3, <1>6, <1>7, <1>8, LosesInv

\* A step that touches no frame.
LEMMA SenderUnchanged ==
  ASSUME SInv, UNCHANGED <<m_pending_frames, waiting, cancelled, accepted, op, pkt, lost>>
  PROVE  SInv'
<1>1. \A g \in Frames : (Queued(g)' <=> Queued(g)) /\ (Held(g)' <=> Held(g))
  BY DEF Queued, Held
<1>2. Counted' = Counted
  BY <1>1 DEF Counted
<1> QED BY <1>1, <1>2 DEF SInv, SType, OnePlace

LEMMA EarlyInv ==
  ASSUME SInv, NEW l \in Loops, ProcessEarly(l)
  PROVE  SInv'
<1>0. PICK others : others = {k \in Loops \ {l} : op[k] = "timer"}
  OBVIOUS
<1>1. op[l] = "got" /\ UNCHANGED <<m_pending_frames, waiting, cancelled, accepted>>
  BY DEF ProcessEarly
<1>2. \A g \in Frames : Queued(g)' <=> Queued(g)
  BY <1>1 DEF Queued
<1>3. CASE UNCHANGED <<op, pkt, lost>>
  BY <1>1, <1>3, SenderUnchanged
<1>4. CASE
    /\ op' = [k \in Loops |-> IF k = l THEN "timer" ELSE IF k \in others THEN "ended" ELSE op[k]]
    /\ pkt' = [k \in Loops |-> IF k \in others THEN None ELSE pkt[k]]
    /\ lost' = lost \cup {pkt[k] : k \in others}
  <2>1. others \subseteq {k \in Loops : op[k] = "timer"} /\ l \notin others
    BY <1>0
  <2>2. \A k \in Loops : op'[k] \in {"got", "timer", "due", "sending"}
                           <=> k \notin others /\ op[k] \in {"got", "timer", "due", "sending"}
    BY <1>1, <1>4, <2>1
  <2>3. DOMAIN op' = Loops
    BY <1>4
  <2>4. /\ waiting' \in Seq(Frames) /\ cancelled' \subseteq Frames
        /\ \A i, j \in DOMAIN waiting' : waiting'[i] = waiting'[j] => i = j
        /\ \A g \in Frames : Queued(g)' => g \notin cancelled'
    BY <1>1, <1>2 DEF SInv, SType, OnePlace
  <2> QED BY <1>1, <1>2, <1>4, <2>1, <2>2, <2>3, <2>4, LosesInv
<1> QED BY <1>0, <1>3, <1>4 DEF ProcessEarly

\* The step case of SInv.
LEMMA SenderStep == SInv /\ [MNext]_mvars => SInv'
<1> SUFFICES ASSUME SInv, [MNext]_mvars PROVE SInv'
  OBVIOUS
<1>1. ASSUME NEW l \in Loops, opus_sender_loop(l) PROVE SInv'
  <2>1. op[l] = "none" /\ UNCHANGED <<m_pending_frames, waiting, cancelled, accepted, lost>>
    BY <1>1 DEF opus_sender_loop
  <2>2. CASE Put(l, "step", None)
    <3>1. pkt[l] = None
      BY <2>1 DEF SInv, OnePlace
    <3>2. UNCHANGED pkt /\ op' = [op EXCEPT ![l] = "step"]
      BY <2>2, <3>1 DEF Put, SInv, SType
    <3> QED BY <2>1, <3>2, MovesInv
  <2>3. CASE UNCHANGED <<op, pkt>>
    BY <2>1, <2>3, SenderUnchanged
  <2> QED BY <1>1, <2>2, <2>3 DEF opus_sender_loop
<1>2. CASE Close \/ RequestStop
  BY <1>2, ReleaseInv DEF Close, RequestStop
<1>3. CASE \E f \in Frames : send_opus(f) \/ SendFailed(f)
  BY <1>3, SendOpusInv, FailedInv
<1>4. CASE Flush \/ Check
  BY <1>4, SenderUnchanged DEF Flush, Check, opVars
<1>5. ASSUME NEW l \in Loops, Sending(l) PROVE SInv'
  <2>1. CASE Step(l)
    BY <2>1, MovesInv DEF Step
  <2>2. CASE TimerExpires(l)
    BY <2>2, MovesInv DEF TimerExpires
  <2>3. CASE ChannelPasses(l) \/ ProcessEarly(l)
    BY <2>3, PassesInv, EarlyInv
  <2>4. CASE Send(l)
    <3>1. op[l] \in {"got", "due"} /\ UNCHANGED <<waiting, cancelled, accepted, lost>>
      BY <2>4 DEF Send
    <3>2. ASSUME NEW where \in {"step", "ended"}, Put(l, where, None),
                 m_pending_frames' = m_pending_frames - 1
          PROVE  SInv'
      BY <3>1, <3>2, DoneInv
    <3>3. CASE Put(l, "sending", pkt[l]) /\ UNCHANGED m_pending_frames
      <4>1. UNCHANGED pkt /\ op' = [op EXCEPT ![l] = "sending"]
        BY <3>3 DEF Put, SInv, SType
      <4> QED BY <3>1, <3>3, <4>1, MovesInv
    <3> QED BY <2>4, <3>2, <3>3 DEF Send, FrameDone
  <2>5. CASE Sent(l)
    <3>1. op[l] = "sending" /\ UNCHANGED <<waiting, cancelled, accepted, lost>>
      BY <2>5 DEF Sent
    <3>2. PICK where \in {"step", "gave up"} : FrameDone(l, where)
      BY <2>5 DEF Sent
    <3> QED BY <3>1, <3>2, DoneInv DEF FrameDone
  <2> QED BY <1>5, <2>1, <2>2, <2>3, <2>4, <2>5 DEF Sending
<1>6. CASE UNCHANGED svars
  BY <1>6, SenderUnchanged DEF svars, opVars
<1>7. UNCHANGED mvars => UNCHANGED svars
  BY DEF mvars
<1>8. CASE MNext
  BY <1>1, <1>2, <1>3, <1>4, <1>5, <1>6, <1>8 DEF MNext, Described, DescribedLater, App, Sender
<1> QED BY <1>6, <1>7, <1>8

\* m_pending_frames is the number of frames on their way, and of those a
\* cancelled timer lost, on every path: any number of sender loops, failures,
\* restarts and closes.
THEOREM CounterExact == MSpec => []PendingCountsFrames
<1>1. MInit => SInv
  <2> SUFFICES ASSUME SInit PROVE SInv
    BY DEF MInit
  <2>1. waiting = <<>> /\ waiting \in Seq(Frames) /\ DOMAIN waiting = {}
    BY DEF SInit
  <2>2. \A f \in Frames : ~Queued(f) /\ ~Held(f) /\ f \notin cancelled /\ f \notin lost
    BY <2>1, FramesAssumption DEF SInit, Queued, Held
  <2>3. Counted = {}
    BY <2>2 DEF Counted
  <2>4. SType
    BY <2>1 DEF SInit, SType
  <2>5. OnePlace
    BY <2>1, <2>2, <2>3 DEF SInit, OnePlace
  <2> QED BY <2>3, <2>4, <2>5, FS_EmptySet DEF SInv, SInit
<1>2. SInv => PendingCountsFrames
  <2> SUFFICES ASSUME SInv PROVE PendingCountsFrames
    OBVIOUS
  <2>1. \A f : f \in InFlight => f \in Frames
    BY DEF InFlight, ToSet, SInv, SType
  <2>2. \A f \in Frames : f \in InFlight <=> Queued(f) \/ f \in cancelled \/ Held(f)
    BY FramesAssumption DEF InFlight, ToSet, Queued, Held
  <2>3. Counted = InFlight \cup lost
    BY <2>1, <2>2 DEF Counted, SInv, SType
  <2>4. InFlight \cap lost = {}
    BY <2>1, <2>2 DEF SInv, OnePlace
  <2>5. IsFiniteSet(InFlight) /\ IsFiniteSet(lost)
    BY <2>1, FramesAssumption, FS_Subset DEF SInv, SType
  <2>6. /\ Cardinality(InFlight) \in Nat /\ Cardinality(lost) \in Nat
        /\ Cardinality(InFlight \cap lost) = 0
    BY <2>4, <2>5, FS_CardinalityType, FS_EmptySet
  <2>7. Cardinality(InFlight \cup lost)
          = Cardinality(InFlight) + Cardinality(lost) - Cardinality(InFlight \cap lost)
    BY <2>5, FS_Union
  <2> QED BY <2>3, <2>6, <2>7 DEF SInv, PendingCountsFrames
<1> QED BY <1>1, <1>2, SenderStep, PTL DEF MSpec
=============================================================================
