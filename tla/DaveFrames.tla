---------------------------- MODULE DaveFrames ----------------------------
(***************************************************************************)
(* End-to-end encrypted media frames between a sender's Encryptor and a    *)
(* receiver's Decryptor, over a network that loses, repeats and reorders   *)
(* them.  A frame carries the sender's 32-bit nonce, whose upper byte is   *)
(* the key generation; a Decryptor keeps one CipherManager per ratchet it  *)
(* was given, and each manager a window of the nonces it has not seen yet. *)
(*                                                                         *)
(* Abstractions: AES-GCM is ideal (a frame opens exactly with the ratchet  *)
(* and generation it was sealed with); the clocks are the actions Expire,  *)
(* ManagerExpires and Lives; m_missing_nonces, a deque that is always      *)
(* sorted, is a set.  The sender stays below 2^32 frames per ratchet.      *)
(***************************************************************************)
EXTENDS Integers, Sequences

CONSTANTS
  Epochs,                \* the ratchets, numbered in the order they are made
  MaxNonce,              \* bound on the frames sent with each ratchet
  MaxManagers,           \* bound on m_managers
  NoncesPerGeneration,   \* 2^RATCHET_GENERATION_SHIFT_BITS
  GENERATION_WRAP,       \* generations a byte can tell apart
  MAX_GENERATION_GAP,
  MAX_MISSING_NONCES

ASSUME FrameConstants ==
  /\ Epochs \subseteq Nat
  /\ {NoncesPerGeneration, GENERATION_WRAP} \subseteq Nat \ {0}
  /\ {MaxManagers, MAX_GENERATION_GAP, MAX_MISSING_NONCES} \subseteq Nat
  /\ MaxNonce \in [Epochs -> 0..(NoncesPerGeneration * GENERATION_WRAP - 1)]

VARIABLES
  m_ratchet,          \* the Encryptor's ratchet
  m_truncated_nonce,  \* the Encryptor's counter
  network,            \* frames the network may deliver, any number of times
  m_managers          \* the Decryptor's CipherManagers, oldest first

fvars == <<m_ratchet, m_truncated_nonce, network, m_managers>>

Frame == [epoch : Epochs, nonce : Nat]
Generation(nonce) == nonce \div NoncesPerGeneration
NoNonce == -1

(* A CipherManager.  played and again are history: the nonces whose frames *)
(* it opened, and those it opened more than once.                          *)
CipherManager ==
  [epoch : Epochs, newest_nonce : Nat \cup {NoNonce}, missing : SUBSET Nat,
   oldest : Nat, newest : Nat, ciphers : SUBSET Nat, aging : SUBSET Nat,
   lifetime : Nat, dying : BOOLEAN, played : SUBSET Nat, again : SUBSET Nat]

NewManager(e) ==
  [epoch |-> e, newest_nonce |-> NoNonce, missing |-> {}, oldest |-> 0,
   newest |-> 0, ciphers |-> {}, aging |-> {}, lifetime |-> 0,
   dying |-> FALSE, played |-> {}, again |-> {}]

\* The generation a frame's byte stands for, not older than the oldest key.
compute_wrapped_generation(m, generation) ==
  (m.oldest \div GENERATION_WRAP
     + (IF generation < m.oldest % GENERATION_WRAP THEN 1 ELSE 0))
  * GENERATION_WRAP + generation

compute_wrapped_big_nonce(generation, nonce) ==
  (generation * NoncesPerGeneration) + (nonce % NoncesPerGeneration)

can_process_nonce(m, big) ==
  m.newest_nonce = NoNonce \/ big > m.newest_nonce \/ big \in m.missing

\* Expired ciphers are gone; keys of generations without a cipher are deleted
\* up to the newest generation.
CleanUp(m) ==
  [m EXCEPT !.oldest =
     CHOOSE g \in m.oldest..m.newest :
       /\ g = m.newest \/ g \in m.ciphers
       /\ \A h \in m.oldest..(g - 1) : h \notin m.ciphers]

\* A ratchet has the key of every generation (a byte) it has not deleted.
HasKey(m, generation) ==
  \A h \in 0..(m.oldest - 1) : h % GENERATION_WRAP # generation % GENERATION_WRAP

GetsCipher(m, generation) ==
  /\ generation >= m.oldest
  /\ generation <= m.newest + MAX_GENERATION_GAP
  /\ generation <= m.lifetime
  /\ generation \in m.ciphers \/ HasKey(m, generation)

\* get_cipher, by the manager it leaves; a key fetched late expires.
get_cipher(m, generation) ==
  LET c == CleanUp(m) IN
  IF ~GetsCipher(c, generation) \/ generation \in c.ciphers THEN c
  ELSE [c EXCEPT !.ciphers = @ \cup {generation},
                 !.aging = IF generation < c.newest THEN @ \cup {generation} ELSE @]

\* Mutant: the trimmed window keeps the nonces below it.
TrackWithoutTrim(m, big) ==
  IF m.newest_nonce = NoNonce
  THEN [m EXCEPT !.newest_nonce = big]
  ELSE IF big > m.newest_nonce
  THEN [m EXCEPT !.newest_nonce = big,
                 !.missing = @ \cup (m.newest_nonce + 1)..(big - 1)]
  ELSE [m EXCEPT !.missing = @ \ {big}]

\* The nonce part of report_cipher_success: the window moves with the newest
\* nonce and loses the one that arrived late.
Track(m, big) ==
  IF m.newest_nonce = NoNonce
  THEN [m EXCEPT !.newest_nonce = big]
  ELSE IF big > m.newest_nonce
  THEN LET oldest_missing == IF big > MAX_MISSING_NONCES
                             THEN big - MAX_MISSING_NONCES ELSE 0
       IN  [m EXCEPT !.newest_nonce = big,
                     !.missing = {n \in @ : n >= oldest_missing}
                                 \cup {n \in (m.newest_nonce + 1)..(big - 1) :
                                         n >= oldest_missing}]
  ELSE [m EXCEPT !.missing = @ \ {big}]

\* The generation part: a newer generation starts the expiry of the others.
Advance(m, generation) ==
  IF generation <= m.newest THEN m
  ELSE [m EXCEPT !.newest = generation,
                 !.aging = {g \in m.ciphers : g < generation}]

report_cipher_success(m, generation, big) ==
  [Advance(Track(m, big), generation)
     EXCEPT !.played = @ \cup {big},
            !.again = IF big \in m.played THEN @ \cup {big} ELSE @]
-----------------------------------------------------------------------------
(* Decryptor::decrypt_impl for one manager: whether the frame opens, and   *)
(* the manager afterwards.                                                 *)

GenerationFor(m, f) == compute_wrapped_generation(m, Generation(f.nonce))
BigNonceFor(m, f) == compute_wrapped_big_nonce(GenerationFor(m, f), f.nonce)

Opens(m, f) ==
  /\ can_process_nonce(m, BigNonceFor(m, f))
  /\ GetsCipher(CleanUp(m), GenerationFor(m, f))
  /\ m.epoch = f.epoch

decrypt_impl(m, f) ==
  IF ~can_process_nonce(m, BigNonceFor(m, f)) THEN m
  ELSE IF ~Opens(m, f) THEN get_cipher(m, GenerationFor(m, f))
  ELSE report_cipher_success(get_cipher(m, GenerationFor(m, f)),
                             GenerationFor(m, f), BigNonceFor(m, f))
-----------------------------------------------------------------------------
FInit ==
  /\ m_ratchet \in Epochs
  /\ m_truncated_nonce = 0
  /\ network = {}
  /\ m_managers = <<>>

\* Encryptor::encrypt: the counter is incremented before it is used.
Encrypt ==
  /\ m_truncated_nonce < MaxNonce[m_ratchet]
  /\ m_truncated_nonce' = m_truncated_nonce + 1
  /\ network' = network \cup {[epoch |-> m_ratchet, nonce |-> m_truncated_nonce']}
  /\ UNCHANGED <<m_ratchet, m_managers>>

\* Encryptor::set_key_ratchet restarts the counter, with the same ratchet too.
SetKeyRatchet(e) ==
  /\ e >= m_ratchet
  /\ m_ratchet' = e
  /\ m_truncated_nonce' = 0
  /\ UNCHANGED <<network, m_managers>>

\* Decryptor::decrypt of an encrypted frame: newest manager first, until one
\* opens it.
Deliver(f) ==
  /\ m_managers' =
       [i \in DOMAIN m_managers |->
          IF \E j \in DOMAIN m_managers : j > i /\ Opens(m_managers[j], f)
          THEN m_managers[i]
          ELSE decrypt_impl(m_managers[i], f)]
  /\ UNCHANGED <<m_ratchet, m_truncated_nonce, network>>

\* transition_to_key_ratchet of the decryptor in use: every older manager is
\* given an expiry.
TransitionToKeyRatchet(e) ==
  /\ Len(m_managers) < MaxManagers
  /\ m_managers' = Append([i \in DOMAIN m_managers |->
                             [m_managers[i] EXCEPT !.dying = TRUE]],
                          NewManager(e))
  /\ UNCHANGED <<m_ratchet, m_truncated_nonce, network>>

\* A Welcome and a Speaking event install a decryptor of its own.
InstallDecryptor(e) ==
  /\ m_managers' = <<NewManager(e)>>
  /\ UNCHANGED <<m_ratchet, m_truncated_nonce, network>>

\* cleanup_expired_managers, of the oldest manager.
ManagerExpires ==
  /\ m_managers # <<>>
  /\ m_managers[1].dying
  /\ m_managers' = Tail(m_managers)
  /\ UNCHANGED <<m_ratchet, m_truncated_nonce, network>>

\* The clock passes the expiry of a cipher: the next get_cipher erases it.
Expire(i, g) ==
  /\ m_managers' = [m_managers EXCEPT ![i].ciphers = @ \ {g},
                                      ![i].aging = @ \ {g}]
  /\ UNCHANGED <<m_ratchet, m_truncated_nonce, network>>

\* The clock lets a manager reach one more generation.
Lives(i) ==
  /\ m_managers[i].lifetime < Generation(MaxNonce[m_managers[i].epoch])
  /\ m_managers' = [m_managers EXCEPT ![i].lifetime = @ + 1]
  /\ UNCHANGED <<m_ratchet, m_truncated_nonce, network>>

FNext ==
  \/ Encrypt
  \/ \E e \in Epochs : \/ SetKeyRatchet(e)
                       \/ TransitionToKeyRatchet(e)
                       \/ InstallDecryptor(e)
  \/ \E f \in network : Deliver(f)
  \/ ManagerExpires
  \/ \E i \in DOMAIN m_managers : \/ \E g \in m_managers[i].aging : Expire(i, g)
                                  \/ Lives(i)

FSpec == FInit /\ [][FNext]_fvars
-----------------------------------------------------------------------------
(* Properties.                                                             *)

\* The nonces of the window: later than one that was played, within
\* MAX_MISSING_NONCES of the newest.
Window(m) ==
  {n \in 0..m.newest_nonce :
     n >= m.newest_nonce - MAX_MISSING_NONCES /\ \E p \in m.played : p < n}

\* A manager opens no frame twice, however often and in whatever order the
\* network delivers it; and it misses exactly the frames of its window it has
\* not played, so that a late one still plays while its key is kept.
ReplayWindow ==
  \A i \in DOMAIN m_managers :
    LET m == m_managers[i] IN
    /\ m.again = {}
    /\ m.missing = Window(m) \ m.played
    /\ \A n \in m.missing :
         Generation(n) \in m.ciphers => Opens(m, [epoch |-> m.epoch, nonce |-> n])
=============================================================================
