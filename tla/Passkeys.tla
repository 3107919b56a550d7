-------------------------------- MODULE Passkeys --------------------------------
(***************************************************************************)
(* The passkeys of a user and the ceremonies that register and use them:   *)
(* the passkey part of services/auth.py over models/passkey.py.  An        *)
(* authenticator answers a challenge with the passkey it holds, which      *)
(* takes a person, so a ceremony is open for a while between two requests. *)
(* Left out: the counter of signatures and what else describes a passkey.  *)
(***************************************************************************)
EXTENDS Naturals, UnitOfWork

CONSTANTS Ceremonies,
          Credentials,   \* the credential ids of the authenticators
          Answerers,     \* the requests that answer a ceremony
          Nothing

ASSUME PasskeysAssumption == Nothing \notin Ceremonies \cup Credentials

Flows == {"registration", "authentication"}

Challenge == [life : Life, flow : Flows, consumed : BOOLEAN, expired : BOOLEAN]

\* A request that has loaded what it answers, up to its commit.
Answer == [ceremony : Ceremonies \cup {Nothing}, credential : Credentials \cup {Nothing}]

NoAnswer == [ceremony |-> Nothing, credential |-> Nothing]

VARIABLES
    challenge,    \* the table passkey_challenges
    passkey,      \* the credentials with a live row in passkey_credentials
    answer,       \* the requests being served
    successes,    \* how often a ceremony was answered with success, at most 2
    overlapped    \* the ceremonies two requests have answered at the same time
passkeyVars == <<challenge, passkey, answer, successes, overlapped>>

PasskeysTypeOK ==
    /\ challenge \in [Ceremonies -> Challenge] /\ passkey \subseteq Credentials
    /\ answer \in [Answerers -> Answer]
    /\ successes \in [Ceremonies -> 0 .. 2] /\ overlapped \subseteq Ceremonies

PasskeysInit ==
    /\ challenge = [c \in Ceremonies |-> [life |-> "unused", flow |-> "registration",
                                         consumed |-> FALSE, expired |-> FALSE]]
    /\ passkey = {} /\ overlapped = {}
    /\ answer = [a \in Answerers |-> NoAnswer]
    /\ successes = [c \in Ceremonies |-> 0]

StartCeremony(c, flow) ==
    /\ challenge[c].life = "unused"
    /\ challenge' = [challenge EXCEPT ![c].life = "live", ![c].flow = flow]
    /\ UNCHANGED <<passkey, answer, successes, overlapped>>

StartRegistration(c)   == StartCeremony(c, "registration")
StartAuthentication(c) == StartCeremony(c, "authentication")

Expire(c) ==
    /\ challenge[c].life = "live" /\ ~ challenge[c].expired
    /\ challenge' = [challenge EXCEPT ![c].expired = TRUE]
    /\ UNCHANGED <<passkey, answer, successes, overlapped>>

\* _get_passkey_ceremony.
Answerable(ch) == ch.life = "live" /\ ~ ch.consumed /\ ~ ch.expired

\* finish_passkey_* up to the commit.
LoadAnswer(a, c, k, flow) ==
    /\ answer[a] = NoAnswer /\ Answerable(challenge[c]) /\ challenge[c].flow = flow
    /\ answer' = [answer EXCEPT ![a] = [ceremony |-> c, credential |-> k]]
    /\ overlapped' = IF \E b \in Answerers : answer[b].ceremony = c
                     THEN overlapped \cup {c} ELSE overlapped
    /\ UNCHANGED <<challenge, passkey, successes>>

\* A registration finds the credential nowhere, a login finds it.
FinishRegistration(a, c, k)   == k \notin passkey /\ LoadAnswer(a, c, k, "registration")
FinishAuthentication(a, c, k) == k \in passkey /\ LoadAnswer(a, c, k, "authentication")

\* Slip: only a registration consumes its ceremony.
ConsumedByRegistration(ch) == [ch EXCEPT !.consumed = (ch.flow = "registration")]

\* Slip: that it is consumed is kept as its flow.
ConsumedAsFlow(ch) == [ch EXCEPT !.flow = "consumed"]

Consumed(ch) == [ch EXCEPT !.consumed = TRUE]

\* The ceremony is consumed in the commit that keeps what was answered.
CommitAnswer(a) ==
    LET c == answer[a].ceremony IN
    /\ challenge' = [challenge EXCEPT ![c] = Consumed(@)]
    /\ successes' = [successes EXCEPT ![c] = IF @ = 2 THEN 2 ELSE @ + 1]
    /\ answer' = [answer EXCEPT ![a] = NoAnswer]
    /\ UNCHANGED overlapped

Answers(a, flow) == answer[a] # NoAnswer /\ challenge[answer[a].ceremony].flow = flow

\* Not if another registration has the credential by now: the unique index refuses it.
CommitRegistration(a) ==
    /\ Answers(a, "registration") /\ answer[a].credential \notin passkey
    /\ passkey' = passkey \cup {answer[a].credential}
    /\ CommitAnswer(a)

\* The counter of a passkey is written even if the passkey is deleted by now.
CommitAuthentication(a) ==
    /\ Answers(a, "authentication")
    /\ CommitAnswer(a)
    /\ UNCHANGED passkey

\* The authenticator's answer does not verify, or the commit fails.
Unverified(a) ==
    /\ answer[a] # NoAnswer
    /\ answer' = [answer EXCEPT ![a] = NoAnswer]
    /\ UNCHANGED <<challenge, passkey, successes, overlapped>>

DeletePasskey(k) ==
    /\ k \in passkey
    /\ passkey' = passkey \ {k}
    /\ UNCHANGED <<challenge, answer, successes, overlapped>>

PasskeysNext ==
    \/ \E c \in Ceremonies :
          \/ StartRegistration(c)
          \/ StartAuthentication(c)
          \/ Expire(c)
          \/ \E a \in Answerers, k \in Credentials :
                FinishRegistration(a, c, k) \/ FinishAuthentication(a, c, k)
    \/ \E a \in Answerers : CommitRegistration(a) \/ CommitAuthentication(a) \/ Unverified(a)
    \/ \E k \in Credentials : DeletePasskey(k)

PasskeysSpec == PasskeysInit /\ [][PasskeysNext]_passkeyVars
-----------------------------------------------------------------------------
(* Properties.                                                             *)

\* A ceremony lets its user in or registers a passkey once, also when a login and a
\* deletion of the passkey cross, unless two requests have answered it at the same time
\* ("Passkey ceremony has already been used"; nothing but the earlier read guards it).
CeremonyOnce == \A c \in Ceremonies \ overlapped : successes[c] <= 1
=============================================================================
