------------------------------ MODULE AccountProofs -----------------------------
(***************************************************************************)
(* The invariants of Sessions, Passkeys, Technicians and Settings, for any *)
(* number of requests and rows and any bounds.                             *)
(***************************************************************************)
EXTENDS Sessions, Passkeys, Technicians, Settings, TLAPS

-----------------------------------------------------------------------------
(* Sessions.                                                               *)

LEMMA SecondType ==
    ASSUME NEW t \in Moment
    PROVE  SecondOf(t) \in Moment /\ SecondOf(t) <= t
<1>1. t \in Nat /\ t <= MaxMoments /\ Second \in Nat /\ Second > 0 /\ MaxMoments \in Nat
  BY SessionsAssumption DEF SessionsAssumption, Moment
<1>2. t % Second \in 0 .. t
  <2>1. t = Second * (t \div Second) + (t % Second) /\ t % Second \in 0 .. Second - 1
    BY <1>1
  <2>2. t \div Second >= 0
    BY <1>1
  <2> QED
    BY <1>1, <2>1, <2>2
<1> QED
  BY <1>1, <1>2 DEF SecondOf, Moment

LEMMA NoSessionType == NoSession \in SessionWork
  BY SessionsAssumption DEF SessionsAssumption, NoSession, SessionWork, Moment

\* A request that ends the sessions has taken a moment that is over.
EndingsTaken == \A r \in Sessioners : session[r].at <= moment

LEMMA SessionsTypeInit == SessionsInit => SessionsTypeOK /\ EndingsTaken
<1> SUFFICES ASSUME SessionsInit PROVE SessionsTypeOK /\ EndingsTaken
  OBVIOUS
<1>1. 0 \in Moment /\ 0 \in 0 .. 0
  BY SessionsAssumption DEF SessionsAssumption, Moment
<1>2. session \in [Sessioners -> SessionWork] /\ \A r \in Sessioners : session[r].at = 0
  BY NoSessionType DEF SessionsInit, NoSession
<1>3. account \in AccountRow
  BY <1>1 DEF SessionsInit, AccountRow, Life
<1> QED
  BY <1>1, <1>2, <1>3 DEF SessionsInit, SessionsTypeOK, EndingsTaken

LEMMA SessionsTypeStep ==
    SessionsTypeOK /\ EndingsTaken /\ [SessionsNext]_sessionVars => SessionsTypeOK' /\ EndingsTaken'
<1> SUFFICES ASSUME SessionsTypeOK, EndingsTaken, [SessionsNext]_sessionVars
             PROVE  SessionsTypeOK' /\ EndingsTaken'
  OBVIOUS
<1> USE DEF SessionsTypeOK, EndingsTaken
<1>m. /\ MaxMoments \in Nat /\ Moment = 0 .. MaxMoments /\ moment \in 0 .. MaxMoments
      /\ ended \in 0 .. moment /\ \A r \in Sessioners : session[r].at \in 0 .. moment
  <2>1. MaxMoments \in Nat /\ Moment = 0 .. MaxMoments
    BY SessionsAssumption DEF SessionsAssumption, Moment
  <2>2. moment \in 0 .. MaxMoments /\ ended \in 0 .. moment
    BY <2>1
  <2>3. \A r \in Sessioners : session[r].at \in Moment /\ session[r].at <= moment
    BY DEF SessionWork
  <2>4. \A r \in Sessioners : session[r].at \in 0 .. moment
    BY <2>1, <2>2, <2>3
  <2> QED
    BY <2>1, <2>2, <2>4
<1>n. NoSession \in SessionWork /\ NoSession.at = 0
  BY NoSessionType DEF NoSession
<1>1. ASSUME NEW r \in Sessioners, LoadLogin(r)
      PROVE  SessionsTypeOK' /\ EndingsTaken'
  <2>1. [NoSession EXCEPT !.pc = "login", !.since = moment] \in SessionWork
    BY <1>n DEF SessionWork
  <2>2. [NoSession EXCEPT !.pc = "login", !.since = moment].at = 0
    BY <1>n DEF NoSession
  <2> QED
    BY <1>1, <1>m, <2>1, <2>2 DEF LoadLogin
<1>2. ASSUME NEW r \in Sessioners, NEW t \in token, LoadRenewal(r, t)
      PROVE  SessionsTypeOK' /\ EndingsTaken'
  <2> DEFINE w == [NoSession EXCEPT !.pc = "renewal", !.since = t.since, !.crossed = t.raced]
  <2>1. t \in Token
    OBVIOUS
  <2>2. w \in SessionWork
    BY <1>n, <2>1 DEF SessionWork, Token
  <2>3. w.at = 0
    BY <1>n DEF NoSession
  <2> QED
    BY <1>2, <1>m, <2>2, <2>3 DEF LoadRenewal
<1>3. ASSUME NEW r \in Sessioners, Mint(r)
      PROVE  SessionsTypeOK' /\ EndingsTaken'
  <2>1. moment' = moment + 1 /\ moment' \in Moment
    BY <1>3, <1>m DEF Mint
  <2>2. SecondOf(moment') \in Moment
    BY <2>1, SecondType
  <2>3. ASSUME NEW kind \in {"access", "refresh"}
        PROVE  Minted(r, kind) \in Token
    <3>1. PICK raced \in BOOLEAN : raced = (session[r].crossed \/ \E q \in Sessioners : Ending(q))
      OBVIOUS
    <3> QED
      BY <2>2, <3>1 DEF Minted, Token, SessionWork
  <2>4. token' \subseteq Token
    BY <1>3, <2>3 DEF Mint
  <2>5. PICK w : session' = [session EXCEPT ![r] = w] /\ w \in SessionWork /\ w.at <= moment
    <3>1. [session[r] EXCEPT !.pc = "cookie"] \in SessionWork
      BY DEF SessionWork
    <3>2. [session[r] EXCEPT !.pc = "cookie"].at <= moment
      BY <1>m DEF SessionWork
    <3>3. NoSession.at <= moment
      BY <1>m, <1>n
    <3> QED
      BY <1>3, <1>n, <3>1, <3>2, <3>3 DEF Mint
  <2>6. ended' \in 0 .. moment'
    BY <1>3, <1>m, <2>1 DEF Mint
  <2>7. ASSUME NEW q \in Sessioners
        PROVE  session'[q].at <= moment'
    <3>1. session'[q].at <= moment
      BY <2>5
    <3>2. session'[q] \in SessionWork
      BY <2>5
    <3>3. session'[q].at \in 0 .. MaxMoments
      BY <1>m, <3>2 DEF SessionWork
    <3> QED
      BY <1>m, <2>1, <3>1, <3>3
  <2> QED
    BY <1>3, <2>1, <2>4, <2>5, <2>6, <2>7 DEF Mint
<1>4. ASSUME NEW r \in Sessioners, NEW column \in {"revoked", "credentials"}, TakeMoment(r, column)
      PROVE  SessionsTypeOK' /\ EndingsTaken'
  <2> DEFINE w == [NoSession EXCEPT !.pc = "ending", !.column = column, !.at = moment + 1]
  <2>1. moment + 1 \in Moment /\ moment' = moment + 1
    BY <1>4, <1>m DEF TakeMoment
  <2>2. w \in SessionWork /\ w.at = moment + 1
    BY <1>n, <2>1 DEF SessionWork, NoSession
  <2>3. session' = [session EXCEPT ![r] = w]
    BY <1>4 DEF TakeMoment
  <2>4. ended' \in 0 .. moment' /\ \A q \in Sessioners : session'[q].at <= moment'
    BY <1>4, <1>m, <2>1, <2>2, <2>3 DEF TakeMoment
  <2> QED
    BY <1>4, <2>1, <2>2, <2>3, <2>4 DEF TakeMoment
<1>5. ASSUME NEW r \in Sessioners, CommitEnd(r)
      PROVE  SessionsTypeOK' /\ EndingsTaken'
  <2>1. session[r].at \in Moment /\ session[r].at \in 0 .. moment
    BY <1>m DEF SessionWork
  <2>2. EndStamped(account, session[r]) \in AccountRow
    BY <2>1 DEF EndStamped, AccountRow
  <2>3. \A q \in Sessioners : session'[q] \in SessionWork /\ session'[q].at <= moment
    <3> TAKE q \in Sessioners
    <3>1. [session[q] EXCEPT !.crossed = TRUE] \in SessionWork
      BY DEF SessionWork
    <3>2. [session[q] EXCEPT !.crossed = TRUE].at = session[q].at
      BY DEF SessionWork
    <3> QED
      BY <1>5, <1>m, <1>n, <3>1, <3>2 DEF CommitEnd
  <2>4. session' \in [Sessioners -> SessionWork]
    BY <1>5, <2>3 DEF CommitEnd
  <2>5. ended' \in 0 .. moment'
    BY <1>5, <1>m, <2>1 DEF CommitEnd
  <2> QED
    BY <1>5, <2>2, <2>3, <2>4, <2>5 DEF CommitEnd
<1>6. ASSUME NEW r \in Sessioners, FailSession(r)
      PROVE  SessionsTypeOK' /\ EndingsTaken'
  BY <1>6, <1>m, <1>n DEF FailSession
<1>7. ASSUME SetStatus
      PROVE  SessionsTypeOK' /\ EndingsTaken'
  <2>1. account' \in AccountRow
    BY <1>7 DEF SetStatus, AccountRow, SoftDeleted, Life
  <2> QED
    BY <1>7, <2>1 DEF SetStatus
<1>8. ASSUME UNCHANGED sessionVars
      PROVE  SessionsTypeOK' /\ EndingsTaken'
  BY <1>8 DEF sessionVars
<1> QED
  BY <1>1, <1>2, <1>3, <1>4, <1>5, <1>6, <1>7, <1>8
  DEF SessionsNext, Logout, ChangePassword, ResetPassword

\* The account, the tokens and every request keep their types, and no request has taken a
\* moment that is still to come.
THEOREM SessionsTypes == SessionsSpec => [](SessionsTypeOK /\ EndingsTaken)
  BY SessionsTypeInit, SessionsTypeStep, PTL DEF SessionsSpec

\* A request that mints and has missed no end of sessions is of a session that was opened
\* after the last one.
MintersAfterEnd ==
    \A r \in Sessioners :
       session[r].pc \in {"login", "cookie", "renewal"} /\ ~ session[r].crossed
          => session[r].since >= ended

\* A token nobody raced with is of a session opened after the last end of sessions, or one
\* of the two columns rules it out.
TokensAfterEnd ==
    \A t \in token : ~ t.raced =>
       \/ t.since >= ended
       \/ account.credentials > t.iat
       \/ account.revoked > t.iat

\* An end of sessions that is under way will rule it out whichever column it writes, also
\* one that lowers the column.
EndingsRuleOut ==
    \A t \in token, r \in Sessioners : ~ t.raced /\ Ending(r) => session[r].at > t.iat

\* No token is from the future.
TokensIssued == \A t \in token : t.iat <= moment

SessionsInv == MintersAfterEnd /\ TokensAfterEnd /\ EndingsRuleOut /\ TokensIssued

LEMMA SessionsInvStep ==
    /\ SessionsTypeOK /\ SessionsTypeOK' /\ EndingsTaken /\ SessionsInv /\ [SessionsNext]_sessionVars
    => SessionsInv'
<1> SUFFICES ASSUME SessionsTypeOK, SessionsTypeOK', EndingsTaken, SessionsInv,
                    [SessionsNext]_sessionVars
             PROVE  SessionsInv'
  OBVIOUS
<1> USE DEF SessionsInv, MintersAfterEnd, TokensAfterEnd, EndingsRuleOut, TokensIssued, Ending
<1>m. /\ \A t \in Moment : t \in Nat
      /\ moment \in Nat /\ ended \in Nat /\ ended <= moment /\ moment' \in Nat
      /\ \A t \in token : t.iat \in Nat /\ t.since \in Nat /\ t.raced \in BOOLEAN
      /\ \A r \in Sessioners : session[r].at \in Nat /\ session[r].since \in Nat
      /\ account.credentials \in Nat /\ account.revoked \in Nat
  <2>1. MaxMoments \in Nat
    BY SessionsAssumption DEF SessionsAssumption
  <2>2. \A t \in Moment : t \in Nat
    BY <2>1 DEF Moment
  <2>3. moment \in Nat /\ moment' \in Nat /\ ended \in Nat /\ ended <= moment
    BY <2>2 DEF SessionsTypeOK
  <2> QED
    BY <2>2, <2>3 DEF SessionsTypeOK, Token, SessionWork, AccountRow
<1>1. ASSUME NEW r \in Sessioners, LoadLogin(r)
      PROVE  SessionsInv'
  <2>1. session'[r].pc = "login" /\ session'[r].since = moment
    BY <1>1 DEF LoadLogin, NoSession, SessionsTypeOK
  <2>2. \A q \in Sessioners : q # r => session'[q] = session[q]
    BY <1>1 DEF LoadLogin, SessionsTypeOK
  <2> QED
    BY <1>1, <1>m, <2>1, <2>2 DEF LoadLogin
<1>2. ASSUME NEW r \in Sessioners, NEW t \in token, LoadRenewal(r, t)
      PROVE  SessionsInv'
  <2>1. session'[r].pc = "renewal" /\ session'[r].since = t.since /\ session'[r].crossed = t.raced
    BY <1>2 DEF LoadRenewal, NoSession, SessionsTypeOK
  <2>2. \A q \in Sessioners : q # r => session'[q] = session[q]
    BY <1>2 DEF LoadRenewal, SessionsTypeOK
  <2>3. ~ t.raced => t.since >= ended
    BY <1>2, <1>m DEF LoadRenewal, Accepted, Unrevoked
  <2> QED
    BY <1>2, <1>m, <2>1, <2>2, <2>3 DEF LoadRenewal
<1>3. ASSUME NEW r \in Sessioners, Mint(r)
      PROVE  SessionsInv'
  <2> DEFINE kind == IF session[r].pc = "cookie" THEN "refresh" ELSE "access"
  <2> DEFINE new == Minted(r, kind)
  <2>1. /\ new.since = session[r].since /\ new.iat <= moment'
        /\ new.raced = (session[r].crossed \/ \E q \in Sessioners : session[q].pc = "ending")
    <3>1. moment' \in Moment
      BY DEF SessionsTypeOK
    <3> QED
      BY <3>1, SecondType DEF Minted
  <2>2. token' = token \cup {new} /\ moment' = moment + 1
    BY <1>3 DEF Mint
  <2>3. \A q \in Sessioners : q # r => session'[q] = session[q]
    BY <1>3 DEF Mint, SessionsTypeOK
  <2>4. /\ session'[r].pc \in {"idle", "cookie"}
        /\ session'[r].pc = "cookie" => /\ session'[r].since = session[r].since
                                        /\ session'[r].crossed = session[r].crossed
                                        /\ session[r].pc = "login"
    <3>1. session[r] \in SessionWork
      BY DEF SessionsTypeOK
    <3>2. CASE session[r].pc = "login"
      <4>1. session'[r] = [session[r] EXCEPT !.pc = "cookie"]
        BY <1>3, <3>1, <3>2 DEF Mint, SessionsTypeOK, SessionWork
      <4> QED
        BY <3>1, <3>2, <4>1 DEF SessionWork
    <3>3. CASE session[r].pc # "login"
      <4>1. session' = [session EXCEPT ![r] = NoSession]
        BY <1>3, <3>3, Zenon DEF Mint
      <4> QED
        BY <4>1 DEF NoSession, SessionsTypeOK
    <3> QED
      BY <3>2, <3>3
  <2>5. ~ new.raced => new.since >= ended
    BY <1>3, <2>1 DEF Mint
  <2>6. \A q \in Sessioners : session'[q].pc = "ending" => q # r /\ session[q].pc = "ending"
    BY <2>3, <2>4
  <2>7. MintersAfterEnd'
    BY <1>3, <2>3, <2>4 DEF Mint
  <2>8. TokensAfterEnd'
    BY <1>3, <2>2, <2>5 DEF Mint
  <2>9. EndingsRuleOut'
    BY <2>1, <2>2, <2>3, <2>6
  <2>10. TokensIssued'
    BY <1>m, <2>1, <2>2
  <2> QED
    BY <2>7, <2>8, <2>9, <2>10
<1>4. ASSUME NEW r \in Sessioners, NEW column \in {"revoked", "credentials"}, TakeMoment(r, column)
      PROVE  SessionsInv'
  <2>1. session'[r].pc = "ending" /\ session'[r].at = moment + 1
    BY <1>4 DEF TakeMoment, NoSession, SessionsTypeOK
  <2>2. \A q \in Sessioners : q # r => session'[q] = session[q]
    BY <1>4 DEF TakeMoment, SessionsTypeOK
  <2> QED
    BY <1>4, <1>m, <2>1, <2>2 DEF TakeMoment
<1>5. ASSUME NEW r \in Sessioners, CommitEnd(r)
      PROVE  SessionsInv'
  <2>1. /\ session'[r].pc = "idle"
        /\ \A q \in Sessioners : q # r =>
              /\ session'[q].pc = session[q].pc /\ session'[q].at = session[q].at
              /\ session'[q].pc \in {"login", "cookie", "renewal"} => session'[q].crossed
    BY <1>5 DEF CommitEnd, NoSession, SessionsTypeOK, SessionWork
  <2>2. account'.credentials = session[r].at \/ account'.revoked = session[r].at
    BY <1>5 DEF CommitEnd, EndStamped, SessionsTypeOK, AccountRow
  <2>3. MintersAfterEnd'
    BY <2>1
  <2>4. TokensAfterEnd'
    BY <1>5, <2>2 DEF CommitEnd
  <2>5. EndingsRuleOut'
    BY <1>5, <2>1 DEF CommitEnd
  <2> QED
    BY <1>5, <2>3, <2>4, <2>5 DEF CommitEnd
<1>6. ASSUME NEW r \in Sessioners, FailSession(r)
      PROVE  SessionsInv'
  <2>1. session'[r].pc = "idle" /\ \A q \in Sessioners : q # r => session'[q] = session[q]
    BY <1>6 DEF FailSession, NoSession, SessionsTypeOK
  <2> QED
    BY <1>6, <2>1 DEF FailSession
<1>7. ASSUME SetStatus
      PROVE  SessionsInv'
  <2>1. account'.credentials = account.credentials /\ account'.revoked = account.revoked
    BY <1>7 DEF SetStatus, SoftDeleted, SessionsTypeOK, AccountRow
  <2> QED
    BY <1>7, <2>1 DEF SetStatus
<1>8. ASSUME UNCHANGED sessionVars
      PROVE  SessionsInv'
  BY <1>8 DEF sessionVars
<1> QED
  BY <1>1, <1>2, <1>3, <1>4, <1>5, <1>6, <1>7, <1>8
  DEF SessionsNext, Logout, ChangePassword, ResetPassword

\* Once an end of the sessions is committed, no token of a session opened before is
\* accepted, whatever requests of any number cross, renew and fail.
THEOREM SessionEndsAlways == SessionsSpec => []SessionEnds
<1>1. SessionsInit => SessionsInv
  <2> SUFFICES ASSUME SessionsInit PROVE SessionsInv
    OBVIOUS
  <2>1. token = {} /\ \A r \in Sessioners : session[r].pc = "idle"
    BY DEF SessionsInit, NoSession
  <2> QED
    BY <2>1 DEF SessionsInv, MintersAfterEnd, TokensAfterEnd, EndingsRuleOut, TokensIssued
<1>2. SessionsTypeOK /\ SessionsInv => SessionEnds
  BY DEF SessionsTypeOK, SessionsInv, TokensAfterEnd, SessionEnds, Accepted, Unrevoked, Token,
         AccountRow, Moment
<1> QED
  BY <1>1, <1>2, SessionsTypes, SessionsInvStep, PTL DEF SessionsSpec
-----------------------------------------------------------------------------
(* Passkeys.                                                               *)

\* A request that answers has loaded a ceremony and a credential.
AnswersReal ==
    \A a \in Answerers : answer[a] # NoAnswer =>
       answer[a].ceremony \in Ceremonies /\ answer[a].credential \in Credentials

\* Of a ceremony no two requests have overlapped on, one request at most is answering it,
\* and none once it was answered with success: it is then consumed.
AnsweredAlone ==
    \A c \in Ceremonies \ overlapped :
       /\ \A a, b \in Answerers : answer[a].ceremony = c /\ answer[b].ceremony = c => a = b
       /\ successes[c] # 0 => /\ successes[c] = 1 /\ challenge[c].consumed
                              /\ \A a \in Answerers : answer[a].ceremony # c

PasskeysInv == PasskeysTypeOK /\ AnswersReal /\ AnsweredAlone

LEMMA NoAnswerType == NoAnswer \in Answer /\ NoAnswer.ceremony \notin Ceremonies
  BY PasskeysAssumption DEF PasskeysAssumption, NoAnswer, Answer

LEMMA PasskeysInvInit == PasskeysInit => PasskeysInv
<1> SUFFICES ASSUME PasskeysInit PROVE PasskeysInv
  OBVIOUS
<1>1. /\ \A c \in Ceremonies : successes[c] = 0
      /\ \A a \in Answerers : answer[a] = NoAnswer
  BY DEF PasskeysInit
<1>2. PasskeysTypeOK
  BY NoAnswerType DEF PasskeysInit, PasskeysTypeOK, Challenge, Life, Flows
<1> QED
  BY <1>1, <1>2, NoAnswerType DEF PasskeysInv, AnswersReal, AnsweredAlone

\* What becomes of the rows if a request answers, or is done with its answer.
LEMMA AnswerLoaded ==
    ASSUME PasskeysInv, NEW a \in Answerers, NEW c \in Ceremonies, NEW k \in Credentials,
           NEW flow, LoadAnswer(a, c, k, flow)
    PROVE  PasskeysInv'
<1> USE DEF PasskeysInv
<1>1. /\ answer'[a].ceremony = c /\ answer'[a].credential = k
      /\ \A b \in Answerers : b # a => answer'[b] = answer[b]
      /\ answer' \in [Answerers -> Answer]
  BY DEF LoadAnswer, PasskeysTypeOK, Answer
<1>2. UNCHANGED <<challenge, passkey, successes>> /\ overlapped \subseteq overlapped'
      /\ overlapped' \subseteq Ceremonies /\ ~ challenge[c].consumed
  BY DEF LoadAnswer, Answerable, PasskeysTypeOK
<1>3. c \notin overlapped' => \A b \in Answerers : answer[b].ceremony # c
  BY DEF LoadAnswer
<1>4. AnswersReal'
  BY <1>1 DEF AnswersReal
<1>5. AnsweredAlone'
  <2> SUFFICES ASSUME NEW d \in Ceremonies, d \notin overlapped'
               PROVE  /\ \A x, y \in Answerers : answer'[x].ceremony = d /\ answer'[y].ceremony = d => x = y
                      /\ successes'[d] # 0 => /\ successes'[d] = 1 /\ challenge'[d].consumed
                                              /\ \A x \in Answerers : answer'[x].ceremony # d
    BY DEF AnsweredAlone
  <2>1. /\ \A x, y \in Answerers : answer[x].ceremony = d /\ answer[y].ceremony = d => x = y
        /\ successes[d] # 0 => /\ successes[d] = 1 /\ challenge[d].consumed
                               /\ \A x \in Answerers : answer[x].ceremony # d
    BY <1>2 DEF AnsweredAlone
  <2>2. CASE d = c
    BY <1>1, <1>2, <1>3, <2>1, <2>2
  <2>3. CASE d # c
    BY <1>1, <1>2, <2>1, <2>3
  <2> QED
    BY <2>2, <2>3
<1> QED
  BY <1>1, <1>2, <1>4, <1>5 DEF PasskeysTypeOK

LEMMA AnswerCommitted ==
    ASSUME PasskeysInv, NEW a \in Answerers, answer[a] # NoAnswer, CommitAnswer(a),
           passkey' \subseteq Credentials
    PROVE  PasskeysInv'
<1> USE DEF PasskeysInv
<1> DEFINE c == answer[a].ceremony
<1>1. c \in Ceremonies
  BY DEF AnswersReal
<1>2. /\ \A b \in Answerers : b # a => answer'[b] = answer[b]
      /\ answer'[a] = NoAnswer /\ answer'[a].ceremony \notin Ceremonies
      /\ answer' \in [Answerers -> Answer]
  BY NoAnswerType DEF CommitAnswer, PasskeysTypeOK
<1>3. /\ successes' = [successes EXCEPT ![c] = IF @ = 2 THEN 2 ELSE @ + 1]
      /\ successes[c] \in 0 .. 2
  BY <1>1 DEF CommitAnswer, PasskeysTypeOK
<1>4. successes'[c] = IF successes[c] = 2 THEN 2 ELSE successes[c] + 1
  BY <1>1, <1>3 DEF PasskeysTypeOK
<1>5. /\ successes' \in [Ceremonies -> 0 .. 2]
      /\ \A d \in Ceremonies : d # c => successes'[d] = successes[d]
  BY <1>1, <1>3, <1>4 DEF PasskeysTypeOK
<1>6. challenge[c] \in Challenge
  BY <1>1 DEF PasskeysTypeOK
<1>7. /\ challenge' \in [Ceremonies -> Challenge] /\ challenge'[c].consumed
      /\ \A d \in Ceremonies : d # c => challenge'[d] = challenge[d]
  BY <1>1, <1>6 DEF CommitAnswer, Consumed, PasskeysTypeOK, Challenge
<1>8. AnswersReal'
  BY <1>2 DEF AnswersReal
<1>9. AnsweredAlone'
  <2> SUFFICES ASSUME NEW d \in Ceremonies, d \notin overlapped
               PROVE  /\ \A x, y \in Answerers : answer'[x].ceremony = d /\ answer'[y].ceremony = d => x = y
                      /\ successes'[d] # 0 => /\ successes'[d] = 1 /\ challenge'[d].consumed
                                              /\ \A x \in Answerers : answer'[x].ceremony # d
    BY DEF AnsweredAlone, CommitAnswer
  <2>1. /\ \A x, y \in Answerers : answer[x].ceremony = d /\ answer[y].ceremony = d => x = y
        /\ successes[d] # 0 => /\ successes[d] = 1 /\ challenge[d].consumed
                               /\ \A x \in Answerers : answer[x].ceremony # d
    BY DEF AnsweredAlone
  <2>2. CASE d = c
    <3>1. successes[c] = 0
      BY <2>1, <2>2
    <3>2. \A x \in Answerers : answer'[x].ceremony # d
      BY <1>2, <2>1, <2>2
    <3> QED
      BY <1>4, <1>7, <2>2, <3>1, <3>2
  <2>3. CASE d # c
    BY <1>2, <1>5, <1>7, <2>1, <2>3
  <2> QED
    BY <2>2, <2>3
<1> QED
  BY <1>2, <1>5, <1>7, <1>8, <1>9 DEF PasskeysTypeOK, CommitAnswer

LEMMA PasskeysInvStep == PasskeysInv /\ [PasskeysNext]_passkeyVars => PasskeysInv'
<1> SUFFICES ASSUME PasskeysInv, [PasskeysNext]_passkeyVars PROVE PasskeysInv'
  OBVIOUS
<1>0. PasskeysTypeOK /\ AnswersReal /\ AnsweredAlone
  BY DEF PasskeysInv
<1>1. ASSUME NEW c \in Ceremonies, NEW flow \in Flows, StartCeremony(c, flow)
      PROVE  PasskeysInv'
  <2>1. /\ challenge' \in [Ceremonies -> Challenge]
        /\ \A d \in Ceremonies : challenge'[d].consumed = challenge[d].consumed
    BY <1>0, <1>1 DEF StartCeremony, PasskeysTypeOK, Challenge, Life
  <2> QED
    BY <1>0, <1>1, <2>1 DEF StartCeremony, PasskeysInv, PasskeysTypeOK, AnswersReal, AnsweredAlone
<1>2. ASSUME NEW c \in Ceremonies, Expire(c)
      PROVE  PasskeysInv'
  <2>1. /\ challenge' \in [Ceremonies -> Challenge]
        /\ \A d \in Ceremonies : challenge'[d].consumed = challenge[d].consumed
    BY <1>0, <1>2 DEF Expire, PasskeysTypeOK, Challenge
  <2> QED
    BY <1>0, <1>2, <2>1 DEF Expire, PasskeysInv, PasskeysTypeOK, AnswersReal, AnsweredAlone
<1>3. ASSUME NEW c \in Ceremonies, NEW a \in Answerers, NEW k \in Credentials,
             FinishRegistration(a, c, k) \/ FinishAuthentication(a, c, k)
      PROVE  PasskeysInv'
  BY <1>3, AnswerLoaded DEF FinishRegistration, FinishAuthentication
<1>4. ASSUME NEW a \in Answerers, CommitRegistration(a)
      PROVE  PasskeysInv'
  <2>1. answer[a] # NoAnswer /\ CommitAnswer(a)
    BY <1>4 DEF CommitRegistration, Answers
  <2>2. passkey' \subseteq Credentials
    BY <1>0, <1>4, <2>1 DEF CommitRegistration, AnswersReal, PasskeysTypeOK
  <2> QED
    BY <2>1, <2>2, AnswerCommitted
<1>5. ASSUME NEW a \in Answerers, CommitAuthentication(a)
      PROVE  PasskeysInv'
  <2>1. answer[a] # NoAnswer /\ CommitAnswer(a)
    BY <1>5 DEF CommitAuthentication, Answers
  <2>2. passkey' \subseteq Credentials
    BY <1>0, <1>5 DEF CommitAuthentication, PasskeysTypeOK
  <2> QED
    BY <2>1, <2>2, AnswerCommitted
<1>6. ASSUME NEW a \in Answerers, Unverified(a)
      PROVE  PasskeysInv'
  <2>1. /\ \A b \in Answerers : b # a => answer'[b] = answer[b]
        /\ answer'[a] = NoAnswer /\ answer' \in [Answerers -> Answer]
    BY <1>0, <1>6, NoAnswerType DEF Unverified, PasskeysTypeOK
  <2> QED
    BY <1>0, <1>6, <2>1, NoAnswerType
    DEF Unverified, PasskeysInv, PasskeysTypeOK, AnswersReal, AnsweredAlone
<1>7. ASSUME NEW k \in Credentials, DeletePasskey(k)
      PROVE  PasskeysInv'
  BY <1>0, <1>7 DEF DeletePasskey, PasskeysInv, PasskeysTypeOK, AnswersReal, AnsweredAlone
<1>8. ASSUME UNCHANGED passkeyVars
      PROVE  PasskeysInv'
  BY <1>0, <1>8 DEF passkeyVars, PasskeysInv, PasskeysTypeOK, AnswersReal, AnsweredAlone
<1> QED
  BY <1>1, <1>2, <1>3, <1>4, <1>5, <1>6, <1>7, <1>8
  DEF PasskeysNext, StartRegistration, StartAuthentication, Flows

\* The ceremonies, the passkeys and every request keep their types.
THEOREM PasskeysTypes == PasskeysSpec => []PasskeysTypeOK
<1>1. PasskeysInv => PasskeysTypeOK
  BY DEF PasskeysInv
<1> QED
  BY <1>1, PasskeysInvInit, PasskeysInvStep, PTL DEF PasskeysSpec

\* Among any number of requests and ceremonies, one that no two requests have answered at
\* the same time succeeds once at most.
THEOREM CeremonyOnceAlways == PasskeysSpec => []CeremonyOnce
<1>1. PasskeysInv => CeremonyOnce
  <2> SUFFICES ASSUME PasskeysInv, NEW c \in Ceremonies, c \notin overlapped
               PROVE  successes[c] <= 1
    BY DEF CeremonyOnce
  <2>1. successes[c] = 0 \/ successes[c] = 1
    BY DEF PasskeysInv, AnsweredAlone
  <2> QED
    BY <2>1
<1> QED
  BY <1>1, PasskeysInvInit, PasskeysInvStep, PTL DEF PasskeysSpec
-----------------------------------------------------------------------------
(* Settings.                                                               *)

LEMMA SettingsRanges ==
    /\ 0 \in 0 .. MaxChanges /\ 0 \in 0 .. MaxNow /\ 1 \in 1 .. MaxNow
    /\ Default \notin 0 .. MaxChanges /\ Unset \notin Value /\ NoLookup \in Lookup
    /\ MaxNow \in Nat /\ MaxChanges \in Nat /\ Ttl \in Nat
<1>1. /\ MaxNow \in Nat /\ MaxNow > 0 /\ MaxChanges \in Nat /\ Ttl \in Nat
      /\ Default \notin Nat /\ Unset \notin Nat /\ Default # Unset
  BY SettingsAssumption DEF SettingsAssumption
<1>2. 0 \in 0 .. MaxChanges /\ 0 \in 0 .. MaxNow /\ 1 \in 1 .. MaxNow
  BY <1>1
<1>3. \A n \in 0 .. MaxChanges : n \in Nat
  BY <1>1
<1> QED
  BY <1>1, <1>2, <1>3 DEF Value, NoLookup, Lookup

LEMMA SettingsTypeInit == SettingsInit => SettingsTypeOK
<1> SUFFICES ASSUME SettingsInit PROVE SettingsTypeOK
  OBVIOUS
<1>1. replaced \in [0 .. MaxChanges -> 0 .. MaxNow] /\ lookup \in [Lookups -> Lookup]
  BY SettingsRanges DEF SettingsInit
<1>2. copied \in CopiedValue /\ copiedAt \in CopiedTime
  BY SettingsRanges DEF SettingsInit, CopiedValue, CopiedTime
<1> QED
  BY <1>1, <1>2, SettingsRanges DEF SettingsInit, SettingsTypeOK

LEMMA SettingsTypeStep == SettingsTypeOK /\ [SettingsNext]_settingsVars => SettingsTypeOK'
<1> SUFFICES ASSUME SettingsTypeOK, [SettingsNext]_settingsVars PROVE SettingsTypeOK'
  OBVIOUS
<1> USE DEF SettingsTypeOK
<1>m. /\ MaxNow \in Nat /\ MaxChanges \in Nat /\ clock \in Nat /\ clock \in 0 .. MaxNow
      /\ setting \in Nat /\ setting \in Value /\ setting <= MaxChanges
  BY SettingsRanges DEF Value
<1>1. ASSUME NEW l \in Lookups, StartLookup(l)
      PROVE  SettingsTypeOK'
  <2>1. ASSUME NEW k \in Lookups
        PROVE  lookup'[k] \in Lookup
    <3>1. PICK alone \in BOOLEAN : alone = (Busy = {})
      OBVIOUS
    <3>2. [NoLookup EXCEPT !.pc = "reading", !.at = clock, !.alone = alone] \in Lookup
      BY <1>m, SettingsRanges DEF Lookup
    <3>3. [lookup[k] EXCEPT !.alone = FALSE] \in Lookup
      BY DEF Lookup
    <3> QED
      BY <1>1, <3>1, <3>2, <3>3 DEF StartLookup
  <2>2. lookup' \in [Lookups -> Lookup]
    BY <1>1, <2>1 DEF StartLookup
  <2> QED
    BY <1>1, <2>2 DEF StartLookup
<1>2. ASSUME NEW l \in Lookups, ReadSetting(l)
      PROVE  SettingsTypeOK'
  BY <1>2, <1>m DEF ReadSetting, Lookup
<1>3. ASSUME NEW l \in Lookups, StoreValue(l)
      PROVE  SettingsTypeOK'
  <2>1. lookup' \in [Lookups -> Lookup]
    BY <1>3 DEF StoreValue, Lookup
  <2>2. copied' \in CopiedValue
    BY <1>3 DEF StoreValue, Lookup, CopiedValue
  <2>3. mixed' \in BOOLEAN
    BY <1>3 DEF StoreValue
  <2> QED
    BY <1>3, <2>1, <2>2, <2>3 DEF StoreValue
<1>4. ASSUME NEW l \in Lookups, StampCopy(l)
      PROVE  SettingsTypeOK'
  <2>1. lookup' \in [Lookups -> Lookup]
    BY <1>4, SettingsRanges DEF StampCopy
  <2>2. copiedAt' \in CopiedTime
    BY <1>4 DEF StampCopy, LookedUpAt, Lookup, CopiedTime
  <2>3. mixed' \in BOOLEAN
    BY <1>4 DEF StampCopy
  <2> QED
    BY <1>4, <2>1, <2>2, <2>3 DEF StampCopy
<1>5. ASSUME NEW l \in Lookups, FailLookup(l)
      PROVE  SettingsTypeOK'
  BY <1>5 DEF FailLookup, Lookup
<1>6. ASSUME NEW l \in Lookups, StampDefaults(l)
      PROVE  SettingsTypeOK'
  <2>1. lookup' \in [Lookups -> Lookup]
    BY <1>6 DEF StampDefaults, Lookup
  <2>2. copiedAt' \in CopiedTime
    BY <1>6 DEF StampDefaults, Lookup, CopiedTime
  <2> QED
    BY <1>6, <2>1, <2>2 DEF StampDefaults
<1>7. ASSUME NEW l \in Lookups, StoreDefaults(l)
      PROVE  SettingsTypeOK'
  <2>1. lookup' \in [Lookups -> Lookup]
    BY <1>7, SettingsRanges DEF StoreDefaults
  <2>2. copied' \in CopiedValue
    BY <1>7 DEF StoreDefaults, CopiedValue, Value
  <2> QED
    BY <1>7, <2>1, <2>2 DEF StoreDefaults
<1>8. ASSUME NEW a \in Admins, StartChange(a)
      PROVE  SettingsTypeOK'
  BY <1>8 DEF StartChange
<1>9. ASSUME NEW a \in Admins, CommitSetting(a)
      PROVE  SettingsTypeOK'
  <2>1. setting' \in 0 .. MaxChanges
    BY <1>9, <1>m DEF CommitSetting
  <2>2. replaced' \in [0 .. MaxChanges -> 0 .. MaxNow]
    BY <1>9, <1>m DEF CommitSetting
  <2>3. admin' \in [Admins -> {"idle", "update", "announce", "bulk", "commit"}]
    BY <1>9 DEF CommitSetting
  <2> QED
    BY <1>9, <2>1, <2>2, <2>3 DEF CommitSetting
<1>10. ASSUME NEW a \in Admins, AnnounceSetting(a)
       PROVE  SettingsTypeOK'
  <2>1. copied' \in CopiedValue
    BY <1>10 DEF AnnounceSetting, AnnounceChange, Invalidated, CopiedValue
  <2>2. copiedAt' \in CopiedTime
    BY <1>10, SettingsRanges DEF AnnounceSetting, AnnounceChange, Invalidated, CopiedTime
  <2>3. admin' \in [Admins -> {"idle", "update", "announce", "bulk", "commit"}]
    BY <1>10 DEF AnnounceSetting
  <2>4. announced' \in 0 .. MaxChanges
    BY <1>10 DEF AnnounceSetting
  <2> QED
    BY <1>10, <2>1, <2>2, <2>3, <2>4 DEF AnnounceSetting
<1>11. ASSUME NEW a \in Admins, FailChange(a)
       PROVE  SettingsTypeOK'
  BY <1>11 DEF FailChange
<1>12. ASSUME PassSeconds
       PROVE  SettingsTypeOK'
  BY <1>12, <1>m DEF PassSeconds
<1>13. ASSUME UNCHANGED settingsVars
       PROVE  SettingsTypeOK'
  BY <1>13 DEF settingsVars
<1> QED
  BY <1>1, <1>2, <1>3, <1>4, <1>5, <1>6, <1>7, <1>8, <1>9, <1>10, <1>11, <1>12, <1>13 DEF SettingsNext

\* The row, the copy, the lookups and the changes keep their types, for any number of
\* threads and requests.
THEOREM SettingsTypes == SettingsSpec => []SettingsTypeOK
  BY SettingsTypeInit, SettingsTypeStep, PTL DEF SettingsSpec

\* The value v was the setting at time t or later.
SinceThen(v, t) == v \in 0 .. setting /\ (v = setting \/ t <= replaced[v])

\* A lookup has read what was the setting after it began; one that is alone has found an
\* older copy, and makes the next one without anybody's help.
LookupOK(l) ==
    /\ lookup[l].at <= clock
    /\ lookup[l].pc \in {"store", "stamp"} => SinceThen(lookup[l].value, lookup[l].at)
    /\ lookup[l].alone => /\ copiedAt.at <= lookup[l].at
                          /\ \A k \in Lookups \ {l} : lookup[k].pc = "idle"
                          /\ lookup[l].pc = "stamp" => copied.made /\ copied.value = lookup[l].value

\* While the copy is served, what is in it was the setting at the time it is stamped with,
\* and no lookup that failed is about to overwrite it.
CopyOK ==
    /\ copiedAt.at <= clock
    /\ available /\ ~ mixed =>
          /\ copied.value # Unset => SinceThen(copied.value, copiedAt.at)
          /\ \A l \in Lookups : lookup[l].pc \notin {"late", "default"}

SettingsInv == CopyOK /\ \A l \in Lookups : LookupOK(l)

LEMMA SettingsInvStep ==
    SettingsTypeOK /\ SettingsInv /\ [SettingsNext]_settingsVars => SettingsInv'
<1> SUFFICES ASSUME SettingsTypeOK, SettingsInv, [SettingsNext]_settingsVars PROVE SettingsInv'
  OBVIOUS
<1> USE DEF SettingsInv
<1>m. /\ clock \in Nat /\ setting \in Nat /\ copiedAt.at \in Nat
      /\ \A l \in Lookups : lookup[l] \in Lookup /\ lookup[l].at \in Nat
      /\ \A v \in 0 .. setting : v \in 0 .. MaxChanges /\ replaced[v] \in Nat
  BY SettingsRanges DEF SettingsTypeOK, Lookup, CopiedTime
<1>n. NoLookup.pc = "idle" /\ NoLookup.alone = FALSE /\ NoLookup.at = 0
  BY DEF NoLookup
<1>1. ASSUME NEW l \in Lookups, StartLookup(l)
      PROVE  SettingsInv'
  <2>1. /\ lookup'[l].pc = "reading" /\ lookup'[l].at = clock /\ lookup'[l].alone = (Busy = {})
        /\ \A k \in Lookups \ {l} : /\ lookup'[k].pc = lookup[k].pc /\ lookup'[k].at = lookup[k].at
                                    /\ lookup'[k].value = lookup[k].value /\ ~ lookup'[k].alone
    BY <1>1, <1>m DEF StartLookup, NoLookup, Lookup
  <2>2. Busy = {} => \A k \in Lookups : lookup[k].pc = "idle"
    BY DEF Busy
  <2>0. UNCHANGED <<clock, setting, replaced, copied, copiedAt, available, mixed>>
    BY <1>1 DEF StartLookup
  <2>3. CopyOK'
    BY <2>0, <2>1 DEF CopyOK, SinceThen
  <2>4. ASSUME NEW k \in Lookups
        PROVE  LookupOK(k)'
    <3>1. CASE k = l
      <4>1. lookup'[l].alone => \A d \in Lookups \ {l} : lookup'[d].pc = "idle"
        BY <2>1, <2>2
      <4>2. lookup'[l].at = clock /\ lookup'[l].pc = "reading" /\ copiedAt.at <= clock
        BY <2>1 DEF CopyOK
      <4> QED
        BY <1>m, <2>0, <3>1, <4>1, <4>2 DEF LookupOK
    <3>2. CASE k # l
      BY <2>0, <2>1, <3>2 DEF LookupOK, SinceThen
    <3> QED
      BY <3>1, <3>2
  <2> QED
    BY <2>3, <2>4
<1>2. ASSUME NEW l \in Lookups, ReadSetting(l)
      PROVE  SettingsInv'
  <2>1. /\ lookup'[l].pc = "store" /\ lookup'[l].at = lookup[l].at /\ lookup'[l].alone = lookup[l].alone
        /\ lookup'[l].value = setting
        /\ \A k \in Lookups \ {l} : lookup'[k] = lookup[k]
    BY <1>2, <1>m DEF ReadSetting, Lookup, SettingsTypeOK
  <2>2. SinceThen(setting, lookup[l].at)
    BY <1>m DEF SinceThen
  <2>3. CopyOK'
    BY <1>2, <2>1 DEF ReadSetting, CopyOK, SinceThen
  <2>4. ASSUME NEW k \in Lookups
        PROVE  LookupOK(k)'
    <3>1. CASE k = l
      BY <1>2, <2>1, <2>2, <3>1 DEF ReadSetting, LookupOK, SinceThen
    <3>2. CASE k # l
      BY <1>2, <2>1, <3>2 DEF ReadSetting, LookupOK, SinceThen
    <3> QED
      BY <3>1, <3>2
  <2> QED
    BY <2>3, <2>4
<1>3. ASSUME NEW l \in Lookups, StoreValue(l)
      PROVE  SettingsInv'
  <2>1. /\ lookup'[l].pc = "stamp" /\ lookup'[l].at = lookup[l].at /\ lookup'[l].alone = lookup[l].alone
        /\ lookup'[l].value = lookup[l].value
        /\ \A k \in Lookups \ {l} : lookup'[k] = lookup[k]
    BY <1>3, <1>m DEF StoreValue, Lookup, SettingsTypeOK
  <2>2. copied'.made /\ copied'.value = lookup[l].value
    BY <1>3 DEF StoreValue
  <2>3. SinceThen(lookup[l].value, lookup[l].at)
    BY <1>3 DEF StoreValue, LookupOK
  <2>4. CopyOK'
    <3>1. ASSUME ~ mixed'
          PROVE  SinceThen(lookup[l].value, copiedAt.at)
      <4>1. lookup[l].alone
        BY <1>3, <3>1 DEF StoreValue
      <4>2. copiedAt.at <= lookup[l].at
        BY <4>1 DEF LookupOK
      <4> QED
        BY <1>m, <2>3, <4>2 DEF SinceThen
    <3>2. ~ mixed' => ~ mixed
      BY <1>3 DEF StoreValue
    <3> QED
      BY <1>3, <2>1, <2>2, <3>1, <3>2 DEF StoreValue, CopyOK, SinceThen
  <2>5. \A k \in Lookups : LookupOK(k)'
    BY <1>3, <2>1, <2>2 DEF StoreValue, LookupOK, SinceThen
  <2> QED
    BY <2>4, <2>5
<1>4. ASSUME NEW l \in Lookups, StampCopy(l)
      PROVE  SettingsInv'
  <2>1. lookup'[l] = NoLookup /\ \A k \in Lookups \ {l} : lookup'[k] = lookup[k]
    BY <1>4 DEF StampCopy, SettingsTypeOK
  <2>2. copiedAt'.at = lookup[l].at /\ lookup[l].at <= clock
    BY <1>4 DEF StampCopy, LookedUpAt, LookupOK
  <2>3. CopyOK'
    <3>1. ASSUME ~ mixed'
          PROVE  SinceThen(copied.value, lookup[l].at) /\ \A k \in Lookups \ {l} : lookup[k].pc = "idle"
      <4>1. lookup[l].alone
        BY <1>4, <3>1 DEF StampCopy
      <4> QED
        BY <1>4, <4>1 DEF StampCopy, LookupOK
    <3> QED
      BY <1>4, <1>n, <2>1, <2>2, <3>1 DEF StampCopy, CopyOK, SinceThen
  <2>4. \A k \in Lookups : LookupOK(k)'
    <3>1. \A k \in Lookups \ {l} : lookup[k].alone => lookup[l].pc = "idle"
      BY DEF LookupOK
    <3>2. \A k \in Lookups : ~ lookup'[k].alone
      BY <1>4, <1>n, <2>1, <3>1 DEF StampCopy
    <3> QED
      BY <1>4, <1>m, <1>n, <2>1, <3>2 DEF StampCopy, LookupOK, SinceThen
  <2> QED
    BY <2>3, <2>4
<1>5. ASSUME NEW l \in Lookups, FailLookup(l)
      PROVE  SettingsInv'
  <2>1. /\ lookup'[l].pc = "late" /\ lookup'[l].at = lookup[l].at /\ lookup'[l].alone = lookup[l].alone
        /\ \A k \in Lookups \ {l} : lookup'[k] = lookup[k]
    BY <1>5, <1>m DEF FailLookup, Lookup, SettingsTypeOK
  <2> QED
    BY <1>5, <2>1 DEF FailLookup, CopyOK, LookupOK, SinceThen
<1>6. ASSUME NEW l \in Lookups, StampDefaults(l)
      PROVE  SettingsInv'
  <2>1. /\ lookup'[l].pc = "default" /\ lookup'[l].at = lookup[l].at /\ lookup'[l].alone = lookup[l].alone
        /\ \A k \in Lookups \ {l} : lookup'[k] = lookup[k]
    BY <1>6, <1>m DEF StampDefaults, Lookup, SettingsTypeOK
  <2>2. copiedAt'.at = lookup[l].at /\ lookup[l].at <= clock
    BY <1>6 DEF StampDefaults, LookupOK
  <2>3. ~ (available /\ ~ mixed)
    BY <1>6 DEF StampDefaults, CopyOK
  <2>4. \A k \in Lookups \ {l} : ~ lookup[k].alone
    BY <1>6 DEF StampDefaults, LookupOK
  <2>5. CopyOK'
    BY <1>6, <2>2, <2>3 DEF StampDefaults, CopyOK
  <2>6. \A k \in Lookups : LookupOK(k)'
    BY <1>6, <1>m, <2>1, <2>2, <2>4 DEF StampDefaults, LookupOK, SinceThen
  <2> QED
    BY <2>5, <2>6
<1>7. ASSUME NEW l \in Lookups, StoreDefaults(l)
      PROVE  SettingsInv'
  <2>1. lookup'[l] = NoLookup /\ \A k \in Lookups \ {l} : lookup'[k] = lookup[k]
    BY <1>7 DEF StoreDefaults, SettingsTypeOK
  <2>2. ~ (available /\ ~ mixed)
    BY <1>7 DEF StoreDefaults, CopyOK
  <2>3. \A k \in Lookups : ~ lookup'[k].alone
    BY <1>7, <1>n, <2>1 DEF StoreDefaults, LookupOK
  <2>4. CopyOK'
    BY <1>7, <2>2 DEF StoreDefaults, CopyOK
  <2>5. \A k \in Lookups : LookupOK(k)'
    BY <1>7, <1>m, <1>n, <2>1, <2>3 DEF StoreDefaults, LookupOK, SinceThen
  <2> QED
    BY <2>4, <2>5
<1>8. ASSUME NEW a \in Admins, CommitSetting(a)
      PROVE  SettingsInv'
  <2>1. setting' = setting + 1 /\ setting' \in Nat /\ setting \in 0 .. MaxChanges
    BY <1>8, <1>m DEF CommitSetting, SettingsTypeOK
  <2>2. replaced'[setting] = clock /\ \A v \in 0 .. MaxChanges : v # setting => replaced'[v] = replaced[v]
    BY <1>8, <2>1 DEF CommitSetting, SettingsTypeOK
  <2>3. ASSUME NEW v, NEW t \in Nat, SinceThen(v, t), t <= clock
        PROVE  SinceThen(v, t)'
    BY <1>m, <2>1, <2>2, <2>3 DEF SinceThen
  <2>4. CopyOK'
    BY <1>8, <1>m, <2>3 DEF CommitSetting, CopyOK
  <2>5. \A k \in Lookups : LookupOK(k)'
    BY <1>8, <1>m, <2>3 DEF CommitSetting, LookupOK
  <2> QED
    BY <2>4, <2>5
<1>9. ASSUME NEW a \in Admins, AnnounceSetting(a)
      PROVE  SettingsInv'
  <2>1. copied' = copied \/ (~ copied.made /\ copied'.value = Unset)
    BY <1>9 DEF AnnounceSetting, AnnounceChange, Invalidated
  <2>2. copiedAt'.at = copiedAt.at \/ copiedAt'.at = 0
    BY <1>9 DEF AnnounceSetting, AnnounceChange, Invalidated
  <2>3. CopyOK'
    BY <1>9, <1>m, <2>1, <2>2 DEF AnnounceSetting, CopyOK, SinceThen
  <2>4. \A k \in Lookups : LookupOK(k)'
    BY <1>9, <1>m, <2>1, <2>2 DEF AnnounceSetting, LookupOK, SinceThen
  <2> QED
    BY <2>3, <2>4
<1>10. ASSUME NEW a \in Admins, StartChange(a) \/ FailChange(a)
       PROVE  SettingsInv'
  BY <1>10 DEF StartChange, FailChange, CopyOK, LookupOK, SinceThen
<1>11. ASSUME PassSeconds
       PROVE  SettingsInv'
  BY <1>11, <1>m DEF PassSeconds, CopyOK, LookupOK, SinceThen
<1>12. ASSUME UNCHANGED settingsVars
       PROVE  SettingsInv'
  BY <1>12 DEF settingsVars, CopyOK, LookupOK, SinceThen
<1> QED
  BY <1>1, <1>2, <1>3, <1>4, <1>5, <1>6, <1>7, <1>8, <1>9, <1>10, <1>11, <1>12 DEF SettingsNext

\* However many lookups and changes cross and fail, a copy that lookups one at a time have
\* made serves nothing that was replaced longer ago than the time it is kept.
THEOREM ServedFreshAlways == SettingsSpec => []ServedFresh
<1>1. SettingsInit => SettingsInv
  <2> SUFFICES ASSUME SettingsInit PROVE SettingsInv
    OBVIOUS
  <2>1. \A l \in Lookups : lookup[l] = NoLookup
    BY DEF SettingsInit
  <2> QED
    BY <2>1 DEF SettingsInit, SettingsInv, CopyOK, LookupOK, NoLookup
<1>2. SettingsTypeOK /\ SettingsInv => ServedFresh
  <2> SUFFICES ASSUME SettingsTypeOK, SettingsInv, Served, available, ~ mixed, copied.value # setting
               PROVE  clock < replaced[copied.value] + Ttl
    BY DEF ServedFresh
  <2>1. copied.value \in 0 .. setting /\ copiedAt.at <= replaced[copied.value]
    BY DEF SettingsInv, CopyOK, Served, SinceThen
  <2>2. clock < copiedAt.at + Ttl
    BY DEF Served
  <2>3. copiedAt.at \in Nat /\ clock \in Nat /\ Ttl \in Nat /\ replaced[copied.value] \in Nat
    BY <2>1, SettingsRanges DEF SettingsTypeOK, CopiedTime
  <2> QED
    BY <2>1, <2>2, <2>3
<1> QED
  BY <1>1, <1>2, SettingsTypes, SettingsInvStep, PTL DEF SettingsSpec
-----------------------------------------------------------------------------
(* Technicians.                                                            *)

\* A request that takes a profile away, and its user's activity or account with it, and
\* one that gives a deleted profile to its user.
TakesAway(w) ==
    /\ w.profileSeen.life = "live" /\ w.profileNext.life = "deleted"
    /\ w.profileSeen.user = w.user /\ w.profileNext.user = w.user
    /\ w.userNext.life = "live" => ~ w.userNext.active

Restores(w) ==
    /\ w.profileSeen.life = "deleted" /\ w.profileNext.life = "live" /\ w.profileNext.user = w.user

\* What a request holds and what it assigned, by its kind.
ClerkOK(w) ==
    /\ w.user \in Users => w.userNext.life # "unused"
    /\ w.op = "idle"    => w = Idle
    /\ w.op = "user"    => w.user \in Users /\ w.profile = Nobody
    /\ w.op = "insert"  => /\ w.user \in Users /\ w.profile = Nobody
                           /\ w.profileNext.life = "live" /\ w.profileNext.user = w.user
    /\ w.op = "profile" => /\ w.user = Nobody /\ w.profile \in Profiles
                           /\ w.profileNext.life = w.profileSeen.life
                           /\ w.profileNext.user = w.profileSeen.user
    /\ w.op = "both"    => /\ w.user \in Users /\ w.profile \in Profiles
                           /\ TakesAway(w) \/ Restores(w)

\* A row nobody overlapped on is as the request that holds it has read it.  Of any profile
\* it holds with a user, the owner is the one it read, or both users are contested; and one
\* it is to restore is still deleted, or has gone to a contested user.
SeenOK(w) ==
    /\ w.user \in Users => user[w.user].life # "unused"
    /\ w.user \in Users \ contested => user[w.user] = w.userSeen
    /\ w.profile \in Profiles =>
          /\ profile[w.profile].life # "unused"
          /\ w.profile \notin contested => profile[w.profile] = w.profileSeen
          /\ w.op = "both" =>
                \/ profile[w.profile].user = w.profileSeen.user
                \/ {w.user, profile[w.profile].user} \subseteq contested
          /\ w.op = "both" /\ Restores(w) =>
                profile[w.profile].life = "deleted" \/ profile[w.profile].user \in contested

Works(row) == row.life = "live" /\ row.technician /\ row.active

\* Who is to be an active technician has a profile, gets one in the same commit, or is left
\* as create_user made him.
PreparedOK(w) ==
    w.user \in Users \ contested /\ Works(w.userNext) =>
       \/ ProfilesOf(w.user) # {}
       \/ w.op \in {"both", "insert"} /\ w.profileNext.life = "live" /\ w.profileNext.user = w.user
       \/ w.op = "user" /\ w.userNext = w.userSeen /\ w.user \in unset

\* Two requests that hold something in common have made all they hold contested.
Flagged ==
    \A c, d \in Clerks :
       c # d /\ Held(clerk[c]) \cap Held(clerk[d]) # {} =>
          Held(clerk[c]) \cup Held(clerk[d]) \subseteq contested

ProfilesOwned ==
    \A p \in Profiles : profile[p].life # "unused" =>
       profile[p].user \in Users /\ user[profile[p].user].life # "unused"

ClerksOK == \A c \in Clerks : ClerkOK(clerk[c]) /\ SeenOK(clerk[c]) /\ PreparedOK(clerk[c])

TechniciansInv == TechniciansTypeOK /\ ProfilesOwned /\ Flagged /\ ClerksOK /\ TechnicianProfiled

LEMMA IdleType == Idle \in Clerk /\ Held(Idle) = {} /\ ClerkOK(Idle) /\ SeenOK(Idle) /\ PreparedOK(Idle)
<1>1. Nobody \notin Users /\ Nobody \notin Profiles
  BY TechniciansAssumption DEF TechniciansAssumption
<1>2. Idle.op = "idle" /\ Idle.user = Nobody /\ Idle.profile = Nobody
  BY DEF Idle
<1>3. NoUser \in UserRow /\ NoProfile \in ProfileRow
  BY DEF NoUser, NoProfile, UserRow, ProfileRow, Life
<1>4. Idle \in Clerk
  BY <1>3 DEF Idle, Clerk
<1> QED
  BY <1>1, <1>2, <1>4 DEF Held, ClerkOK, SeenOK, PreparedOK

LEMMA TechniciansInvInit == TechniciansInit => TechniciansInv
<1> SUFFICES ASSUME TechniciansInit PROVE TechniciansInv
  OBVIOUS
<1>1. NoUser \in UserRow /\ NoProfile \in ProfileRow
  BY DEF NoUser, NoProfile, UserRow, ProfileRow, Life
<1>2. TechniciansTypeOK
  BY <1>1, IdleType DEF TechniciansInit, TechniciansTypeOK
<1>3. \A c \in Clerks : clerk[c] = Idle
  BY DEF TechniciansInit
<1>4. /\ \A p \in Profiles : profile[p].life = "unused"
      /\ \A u \in Users : user[u].life = "unused"
  BY DEF TechniciansInit, NoUser, NoProfile
<1>5. Flagged /\ ClerksOK
  BY <1>3, IdleType DEF Flagged, ClerksOK
<1> QED
  BY <1>2, <1>4, <1>5 DEF TechniciansInv, ProfilesOwned, TechnicianProfiled

\* Beginning: what the handler loaded is what the rows are.
LEMMA ClerkBegins ==
    ASSUME TechniciansInv, NEW c \in Clerks, NEW w \in Clerk, Begin(c, w),
           ClerkOK(w), PreparedOK(w),
           w.user \in Users => w.userSeen = user[w.user] /\ w.userSeen.life # "unused",
           w.profile \in Profiles => w.profileSeen = profile[w.profile] /\ w.profileSeen.life # "unused"
    PROVE  TechniciansInv'
<1>0. TechniciansTypeOK /\ ProfilesOwned /\ Flagged /\ ClerksOK /\ TechnicianProfiled
  BY DEF TechniciansInv
<1>1. /\ clerk[c] = Idle /\ clerk'[c] = w /\ clerk' \in [Clerks -> Clerk]
      /\ \A d \in Clerks : d # c => clerk'[d] = clerk[d]
      /\ UNCHANGED <<user, profile, unset>>
  BY <1>0 DEF Begin, TechniciansTypeOK
<1>2. \A d \in Clerks : Held(clerk[d]) \subseteq Users \cup Profiles
  BY <1>0 DEF TechniciansTypeOK, Clerk, Held
<1>3. Held(w) \subseteq Users \cup Profiles
  BY DEF Clerk, Held
<1>4. /\ contested \subseteq contested' /\ contested' \subseteq Users \cup Profiles
      /\ \A d \in Clerks : Held(w) \cap Held(clerk[d]) # {} => Held(w) \cup Held(clerk[d]) \subseteq contested'
  BY <1>0, <1>2, <1>3 DEF Begin, TechniciansTypeOK
<1>5. TechniciansTypeOK'
  BY <1>0, <1>1, <1>4 DEF TechniciansTypeOK
<1>6. Flagged'
  <2> SUFFICES ASSUME NEW d \in Clerks, NEW e \in Clerks, d # e,
                      Held(clerk'[d]) \cap Held(clerk'[e]) # {}
               PROVE  Held(clerk'[d]) \cup Held(clerk'[e]) \subseteq contested'
    BY DEF Flagged, Held
  <2>1. CASE d = c
    BY <1>1, <1>4, <2>1
  <2>2. CASE e = c
    BY <1>1, <1>4, <2>2
  <2>3. CASE d # c /\ e # c
    BY <1>0, <1>1, <1>4, <2>3 DEF Flagged
  <2> QED
    BY <2>1, <2>2, <2>3
<1>7. ASSUME NEW d \in Clerks
      PROVE  ClerkOK(clerk'[d]) /\ SeenOK(clerk[d])' /\ PreparedOK(clerk[d])'
  <2>1. CASE d = c
    BY <1>1, <1>4, <2>1 DEF SeenOK, PreparedOK, ProfilesOf, Restores
  <2>2. CASE d # c
    <3>1. ClerkOK(clerk[d]) /\ SeenOK(clerk[d]) /\ PreparedOK(clerk[d])
      BY <1>0 DEF ClerksOK
    <3> QED
      BY <1>1, <1>4, <2>2, <3>1 DEF SeenOK, PreparedOK, ProfilesOf
  <2> QED
    BY <2>1, <2>2
<1>8. ClerksOK'
  BY <1>7 DEF ClerksOK, ClerkOK, TakesAway, Restores
<1>9. TechnicianProfiled'
  BY <1>0, <1>1, <1>4 DEF TechnicianProfiled, ProfilesOf
<1>10. ProfilesOwned'
  BY <1>0, <1>1 DEF ProfilesOwned
<1> QED
  BY <1>5, <1>6, <1>8, <1>9, <1>10 DEF TechniciansInv

\* Being done with the rows as they are.
LEMMA ClerkLetsGo ==
    ASSUME TechniciansInv, NEW c \in Clerks, clerk' = [clerk EXCEPT ![c] = Idle],
           UNCHANGED <<user, profile, unset, contested>>
    PROVE  TechniciansInv'
<1>0. TechniciansTypeOK /\ ProfilesOwned /\ Flagged /\ ClerksOK /\ TechnicianProfiled
  BY DEF TechniciansInv
<1>1. /\ clerk'[c] = Idle /\ clerk' \in [Clerks -> Clerk]
      /\ \A d \in Clerks : d # c => clerk'[d] = clerk[d]
  BY <1>0, IdleType DEF TechniciansTypeOK
<1>2. TechniciansTypeOK'
  BY <1>0, <1>1 DEF TechniciansTypeOK
<1>3. Flagged'
  BY <1>0, <1>1, IdleType DEF Flagged, Held
<1>4. ASSUME NEW d \in Clerks
      PROVE  ClerkOK(clerk'[d]) /\ SeenOK(clerk[d])' /\ PreparedOK(clerk[d])'
  <2>1. CASE d = c
    BY <1>1, <2>1, IdleType DEF SeenOK, PreparedOK, ProfilesOf
  <2>2. CASE d # c
    BY <1>0, <1>1, <2>2 DEF ClerksOK, SeenOK, PreparedOK, ProfilesOf
  <2> QED
    BY <2>1, <2>2
<1>5. ClerksOK'
  BY <1>4 DEF ClerksOK, ClerkOK, TakesAway, Restores
<1> QED
  BY <1>0, <1>2, <1>3, <1>5 DEF TechniciansInv, TechnicianProfiled, ProfilesOf, ProfilesOwned

\* Being done with other rows: those of its own user and profile, and a row nobody had.
LEMMA ClerkWrites ==
    ASSUME TechniciansInv, TechniciansTypeOK', ProfilesOwned', NEW c \in Clerks,
           clerk' = [clerk EXCEPT ![c] = Idle], UNCHANGED contested,
           \A u \in Users : user[u].life # "unused" => user'[u].life # "unused",
           \A u \in Users : u # clerk[c].user =>
              /\ user'[u] = user[u]
              /\ u \in unset' <=> u \in unset
              /\ u \notin contested => ProfilesOf(u) \subseteq ProfilesOf(u)',
           \A u \in Users \ contested : u = clerk[c].user /\ Works(user'[u])
              => ProfilesOf(u)' # {} \/ u \in unset',
           \A p \in Profiles : profile[p].life # "unused" =>
              IF p # clerk[c].profile THEN profile'[p] = profile[p]
              ELSE /\ profile'[p].life # "unused"
                   /\ \/ profile'[p].user \in Held(clerk[c]) \cup contested
                      \/ /\ profile'[p].user = profile[p].user
                         /\ profile'[p].life \in {"deleted", profile[p].life}
    PROVE  TechniciansInv'
<1>0. TechniciansTypeOK /\ ProfilesOwned /\ Flagged /\ ClerksOK /\ TechnicianProfiled
  BY DEF TechniciansInv
<1>1. clerk'[c] = Idle /\ \A d \in Clerks : d # c => clerk'[d] = clerk[d]
  BY <1>0 DEF TechniciansTypeOK
<1>2. Flagged'
  <2> SUFFICES ASSUME NEW d \in Clerks, NEW e \in Clerks, d # e,
                      Held(clerk'[d]) \cap Held(clerk'[e]) # {}
               PROVE  Held(clerk'[d]) \cup Held(clerk'[e]) \subseteq contested
    BY DEF Flagged, Held
  <2>1. d # c /\ e # c
    BY <1>1, IdleType
  <2> QED
    BY <1>0, <1>1, <2>1 DEF Flagged
<1>3. TechnicianProfiled'
  <2> SUFFICES ASSUME NEW u \in Users \ (contested \cup unset'), Works(user'[u])
               PROVE  ProfilesOf(u)' # {}
    BY DEF TechnicianProfiled, Works
  <2>1. CASE u = clerk[c].user
    BY <2>1
  <2>2. CASE u # clerk[c].user
    <3>1. user'[u] = user[u] /\ u \notin unset /\ ProfilesOf(u) \subseteq ProfilesOf(u)'
      BY <2>2
    <3>2. ProfilesOf(u) # {}
      BY <1>0, <3>1 DEF TechnicianProfiled, Works
    <3> QED
      BY <3>1, <3>2
  <2> QED
    BY <2>1, <2>2
<1>4. ASSUME NEW d \in Clerks, d # c
      PROVE  ClerkOK(clerk[d]) /\ SeenOK(clerk[d])' /\ PreparedOK(clerk[d])'
  <2> DEFINE v == clerk[d]
             w == clerk[c]
  <2>1. ClerkOK(v) /\ SeenOK(v) /\ PreparedOK(v) /\ clerk'[d] = v
    BY <1>0, <1>1, <1>4 DEF ClerksOK
  <2>2. v.user \in Users \ contested => v.user # w.user
    BY <1>0, <1>4, TechniciansAssumption DEF TechniciansAssumption, Flagged, Held
  <2>3. v.profile \in Profiles /\ v.profile = w.profile => Held(v) \cup Held(w) \subseteq contested
    BY <1>0, <1>4, TechniciansAssumption DEF TechniciansAssumption, Flagged, Held
  <2>4. v.profile \in Profiles => v.profile \in Held(v)
    BY TechniciansAssumption DEF TechniciansAssumption, Held
  <2>5. v.op = "both" => v.user \in Users /\ v.user \in Held(v)
    BY <2>1, TechniciansAssumption DEF TechniciansAssumption, Held, ClerkOK
  <2>6. SeenOK(v)'
    <3>1. /\ v.user \in Users \ contested' => user'[v.user] = v.userSeen
          /\ v.user \in Users => user'[v.user].life # "unused"
      BY <2>1, <2>2 DEF SeenOK
    <3>2. ASSUME v.profile \in Profiles
          PROVE  /\ profile'[v.profile].life # "unused"
                 /\ v.profile \notin contested' => profile'[v.profile] = v.profileSeen
                 /\ v.op = "both" =>
                       \/ profile'[v.profile].user = v.profileSeen.user
                       \/ {v.user, profile'[v.profile].user} \subseteq contested'
                 /\ v.op = "both" /\ Restores(v) =>
                       profile'[v.profile].life = "deleted" \/ profile'[v.profile].user \in contested'
      <4>1. profile[v.profile].life # "unused"
        BY <2>1, <3>2 DEF SeenOK
      <4>2. CASE v.profile # w.profile
        <5>1. profile'[v.profile] = profile[v.profile]
          BY <3>2, <4>1, <4>2
        <5> QED
          BY <2>1, <3>2, <5>1 DEF SeenOK
      <4>3. CASE v.profile = w.profile
        <5>1. /\ profile'[v.profile].life # "unused"
              /\ \/ profile'[v.profile].user \in contested
                 \/ /\ profile'[v.profile].user = profile[v.profile].user
                    /\ profile'[v.profile].life \in {"deleted", profile[v.profile].life}
          BY <2>3, <3>2, <4>1, <4>3
        <5>2. v.profile \in contested /\ (v.op = "both" => v.user \in contested)
          BY <2>3, <2>4, <2>5, <3>2, <4>3
        <5> QED
          BY <2>1, <3>2, <5>1, <5>2 DEF SeenOK
      <4> QED
        BY <4>2, <4>3
    <3> QED
      BY <2>1, <3>1, <3>2 DEF SeenOK, Restores
  <2>7. PreparedOK(v)'
    <3> SUFFICES ASSUME v.user \in Users \ contested, Works(v.userNext)
                 PROVE  \/ ProfilesOf(v.user)' # {}
                        \/ v.op \in {"both", "insert"} /\ v.profileNext.life = "live" /\ v.profileNext.user = v.user
                        \/ v.op = "user" /\ v.userNext = v.userSeen /\ v.user \in unset'
      BY <2>1 DEF PreparedOK, Works, ProfilesOf
    <3>1. ProfilesOf(v.user) \subseteq ProfilesOf(v.user)' /\ (v.user \in unset' <=> v.user \in unset)
      BY <2>2
    <3> QED
      BY <2>1, <3>1 DEF PreparedOK
  <2> QED
    BY <2>1, <2>6, <2>7
<1>5. ClerkOK(clerk'[c]) /\ SeenOK(clerk[c])' /\ PreparedOK(clerk[c])'
  <2>1. Idle.user \notin Users /\ Idle.profile \notin Profiles
    BY TechniciansAssumption DEF TechniciansAssumption, Idle
  <2> QED
    BY <1>1, <2>1, IdleType DEF SeenOK, PreparedOK
<1>6. ClerksOK'
  <2> SUFFICES ASSUME NEW d \in Clerks
               PROVE  (ClerkOK(clerk[d]) /\ SeenOK(clerk[d]) /\ PreparedOK(clerk[d]))'
    BY DEF ClerksOK
  <2>1. CASE d = c
    BY <1>5, <2>1
  <2>2. CASE d # c
    BY <1>1, <1>4, <2>2 DEF ClerkOK, TakesAway, Restores
  <2> QED
    BY <2>1, <2>2
<1> QED
  BY <1>2, <1>3, <1>6 DEF TechniciansInv

LEMMA FlushTypes ==
    /\ \A now, seen, next \in UserRow : UserFlushed(now, seen, next) \in UserRow
    /\ \A now, seen, next \in ProfileRow : ProfileFlushed(now, seen, next) \in ProfileRow
  BY DEF UserFlushed, ProfileFlushed, UserRow, ProfileRow, Written

\* What a commit makes of rows that are as they were read.
LEMMA FlushUnchanged ==
    /\ \A seen, next \in UserRow : UserFlushed(seen, seen, next) = next
    /\ \A seen, next \in ProfileRow : ProfileFlushed(seen, seen, next) = next
<1>1. ASSUME NEW seen \in UserRow, NEW next \in UserRow
      PROVE  UserFlushed(seen, seen, next) = next
  BY DEF UserFlushed, UserRow, Written
<1>2. ASSUME NEW seen \in ProfileRow, NEW next \in ProfileRow
      PROVE  ProfileFlushed(seen, seen, next) = next
  BY DEF ProfileFlushed, ProfileRow, Written
<1> QED
  BY <1>1, <1>2

\* The user's row after a commit or an insertion.
LEMMA UserFlushes ==
    ASSUME TechniciansInv, NEW c \in Clerks, FlushUser(clerk[c])
    PROVE  /\ user' \in [Users -> UserRow]
           /\ \A u \in Users : u # clerk[c].user => user'[u] = user[u]
           /\ \A u \in Users \ contested : u = clerk[c].user => user'[u] = clerk[c].userNext
           /\ \A u \in Users : user[u].life # "unused" => user'[u].life # "unused"
<1> DEFINE w == clerk[c]
<1>0. /\ user \in [Users -> UserRow] /\ w \in Clerk /\ SeenOK(w) /\ ClerkOK(w)
      /\ w.user \in Users \cup {Nobody} /\ w.userSeen \in UserRow /\ w.userNext \in UserRow
  BY DEF TechniciansInv, TechniciansTypeOK, ClerksOK, Clerk
<1>1. CASE w.user = Nobody
  <2>1. user' = user
    BY <1>1 DEF FlushUser
  <2> QED
    BY <1>0, <1>1, <2>1, TechniciansAssumption DEF TechniciansAssumption
<1>2. CASE w.user # Nobody
  <2>1. w.user \in Users
    BY <1>0, <1>2
  <2>2. UserFlushed(user[w.user], w.userSeen, w.userNext) \in UserRow
    BY <1>0, <2>1, FlushTypes
  <2>3. user' = [user EXCEPT ![w.user] = UserFlushed(user[w.user], w.userSeen, w.userNext)]
    BY <1>2 DEF FlushUser
  <2>4. w.user \notin contested => user[w.user] = w.userSeen
    BY <1>0, <2>1 DEF SeenOK
  <2>5. user[w.user].life # "unused" => UserFlushed(user[w.user], w.userSeen, w.userNext).life # "unused"
    BY <1>0, <2>1 DEF UserFlushed, Written, ClerkOK
  <2> QED
    BY <1>0, <2>1, <2>2, <2>3, <2>4, <2>5, FlushUnchanged
<1> QED
  BY <1>1, <1>2

\* The profile after a commit that holds one: it keeps its user, goes to the request's, or
\* has been between two contested users.
LEMMA ProfileFlushes ==
    ASSUME TechniciansInv, NEW c \in Clerks, clerk[c].op \in {"profile", "both"},
           NEW row, row = ProfileFlushed(profile[clerk[c].profile], clerk[c].profileSeen, clerk[c].profileNext)
    PROVE  LET w == clerk[c]
               p == clerk[c].profile IN
           /\ p \in Profiles /\ row \in ProfileRow /\ row.life # "unused" /\ row.user \in Users
           /\ user[row.user].life # "unused"
           /\ p \notin contested => row = w.profileNext
           /\ w.op = "profile" => row.life = profile[p].life /\ row.user = profile[p].user
           /\ w.op = "both" /\ TakesAway(w) =>
                 /\ row.life = "deleted" /\ row.user = profile[p].user
                 /\ profile[p].user = w.user \/ profile[p].user \in contested
           /\ w.op = "both" /\ Restores(w) =>
                 /\ row.life = "live"
                 /\ row.user = w.user \/ {w.user, row.user} \subseteq contested
                 /\ profile[p].life = "deleted" \/ profile[p].user \in contested
<1> DEFINE w == clerk[c]
           p == clerk[c].profile
<1>0. /\ profile \in [Profiles -> ProfileRow] /\ w \in Clerk /\ SeenOK(w) /\ ClerkOK(w)
      /\ w.profileSeen \in ProfileRow /\ w.profileNext \in ProfileRow
  BY DEF TechniciansInv, TechniciansTypeOK, ClerksOK, Clerk
<1>1. p \in Profiles /\ (w.op = "both" => w.user \in Users)
  BY <1>0 DEF ClerkOK
<1>2. /\ profile[p] \in ProfileRow /\ profile[p].life # "unused" /\ profile[p].user \in Users
      /\ user[profile[p].user].life # "unused"
      /\ p \notin contested => profile[p] = w.profileSeen
      /\ w.op = "both" =>
            \/ profile[p].user = w.profileSeen.user
            \/ {w.user, profile[p].user} \subseteq contested
      /\ w.op = "both" /\ Restores(w) =>
            profile[p].life = "deleted" \/ profile[p].user \in contested
  BY <1>0, <1>1 DEF SeenOK, TechniciansInv, ProfilesOwned
<1>3. row \in ProfileRow /\ (p \notin contested => row = w.profileNext)
  BY <1>0, <1>2, FlushTypes, FlushUnchanged
<1>4. /\ row.life = Written(profile[p].life, w.profileSeen.life, w.profileNext.life)
      /\ row.user = Written(profile[p].user, w.profileSeen.user, w.profileNext.user)
  BY DEF ProfileFlushed
<1>5. w.op = "profile" => row.life = profile[p].life /\ row.user = profile[p].user
  BY <1>0, <1>4 DEF ClerkOK, Written
<1>6. ASSUME w.op = "both", TakesAway(w)
      PROVE  /\ row.life = "deleted" /\ row.user = profile[p].user
             /\ profile[p].user = w.user \/ profile[p].user \in contested
  BY <1>2, <1>4, <1>6 DEF TakesAway, Written
<1>7. ASSUME w.op = "both", Restores(w)
      PROVE  /\ row.life = "live"
             /\ row.user = w.user \/ {w.user, row.user} \subseteq contested
             /\ profile[p].life = "deleted" \/ profile[p].user \in contested
  BY <1>2, <1>4, <1>7 DEF Restores, Written
<1>8. row.life # "unused" /\ row.user \in {profile[p].user, w.user}
  <2>1. CASE w.op = "profile"
    BY <1>2, <1>5, <2>1
  <2>2. CASE w.op = "both"
    BY <1>0, <1>1, <1>2, <1>4, <1>6, <1>7, <2>2 DEF ClerkOK, Written, Restores
  <2> QED
    BY <2>1, <2>2
<1>9. row.user \in Users /\ user[row.user].life # "unused"
  <2>1. w.user \in Users => user[w.user].life # "unused"
    BY <1>0 DEF SeenOK
  <2>2. w.op = "profile" => row.user = profile[p].user
    BY <1>5
  <2> QED
    BY <1>1, <1>2, <1>8, <2>1, <2>2
<1> QED
  BY <1>1, <1>2, <1>3, <1>5, <1>6, <1>7, <1>8, <1>9

LEMMA ClerkCommits ==
    ASSUME TechniciansInv, NEW c \in Clerks, CommitClerk(c)
    PROVE  TechniciansInv'
<1> DEFINE w == clerk[c]
           p == clerk[c].profile
           row == ProfileFlushed(profile[p], w.profileSeen, w.profileNext)
<1>0. /\ TechniciansTypeOK /\ ProfilesOwned /\ Flagged /\ ClerksOK /\ TechnicianProfiled
      /\ w \in Clerk /\ w.op \in {"user", "profile", "both"}
      /\ ClerkOK(w) /\ SeenOK(w) /\ PreparedOK(w)
      /\ clerk' = [clerk EXCEPT ![c] = Idle] /\ UNCHANGED contested
      /\ clerk' \in [Clerks -> Clerk]
  BY IdleType DEF TechniciansInv, TechniciansTypeOK, ClerksOK, CommitClerk
<1>1. CASE UNCHANGED <<user, profile, unset>>
  BY <1>0, <1>1, ClerkLetsGo
<1>2. CASE /\ FlushUser(w)
           /\ profile' = IF w.op # "user" THEN [profile EXCEPT ![p] = row] ELSE profile
           /\ unset' = unset \ {u \in Users : user'[u] # user[u]}
  <2>1. /\ user' \in [Users -> UserRow]
        /\ \A u \in Users : u # w.user => user'[u] = user[u]
        /\ \A u \in Users \ contested : u = w.user => user'[u] = w.userNext
        /\ \A u \in Users : user[u].life # "unused" => user'[u].life # "unused"
    BY <1>2, UserFlushes
  <2>2. w.op \in {"profile", "both"} =>
           /\ p \in Profiles /\ row \in ProfileRow /\ row.life # "unused" /\ row.user \in Users
           /\ user[row.user].life # "unused"
           /\ w.op = "profile" => row.life = profile[p].life /\ row.user = profile[p].user
           /\ w.op = "both" /\ TakesAway(w) =>
                 /\ row.life = "deleted" /\ row.user = profile[p].user
                 /\ profile[p].user = w.user \/ profile[p].user \in contested
           /\ w.op = "both" /\ Restores(w) =>
                 /\ row.life = "live"
                 /\ row.user = w.user \/ {w.user, row.user} \subseteq contested
                 /\ profile[p].life = "deleted" \/ profile[p].user \in contested
    BY ProfileFlushes
  <2>3. /\ w.op = "both" => w.user \in Users /\ w.user \in Held(w) /\ (TakesAway(w) \/ Restores(w))
        /\ w.op = "user" => p \notin Profiles /\ w.user \in Users
        /\ w.op = "profile" => w.user \notin Users
    BY <1>0, TechniciansAssumption DEF TechniciansAssumption, ClerkOK, Held
  <2>4. /\ w.op = "user" => profile' = profile
        /\ w.op \in {"profile", "both"} => profile' = [profile EXCEPT ![p] = row]
    BY <1>2
  <2>5. profile \in [Profiles -> ProfileRow]
    BY <1>0 DEF TechniciansTypeOK
  <2>6. /\ profile' \in [Profiles -> ProfileRow]
        /\ \A q \in Profiles : q # p => profile'[q] = profile[q]
        /\ p \in Profiles => profile'[p] = row /\ w.op \in {"profile", "both"}
    BY <1>0, <2>2, <2>3, <2>4, <2>5
  <2>7. TechniciansTypeOK'
    BY <1>0, <1>2, <2>1, <2>6 DEF TechniciansTypeOK
  <2>8. ProfilesOwned'
    BY <1>0, <2>1, <2>2, <2>6 DEF ProfilesOwned
  <2>9. ASSUME NEW u \in Users, u # w.user
        PROVE  /\ user'[u] = user[u]
               /\ u \in unset' <=> u \in unset
               /\ u \notin contested => ProfilesOf(u) \subseteq ProfilesOf(u)'
    <3>1. user'[u] = user[u] /\ (u \in unset' <=> u \in unset)
      BY <1>2, <2>1, <2>9
    <3>2. ASSUME u \notin contested, NEW q \in ProfilesOf(u)
          PROVE  q \in ProfilesOf(u)'
      <4>1. q \in Profiles /\ profile[q].life = "live" /\ profile[q].user = u
        BY DEF ProfilesOf
      <4>2. CASE q # p
        BY <2>6, <4>1, <4>2 DEF ProfilesOf
      <4>3. CASE q = p /\ w.op = "profile"
        BY <2>2, <2>6, <4>1, <4>3 DEF ProfilesOf
      <4>4. CASE q = p /\ w.op = "both"
        BY <2>2, <2>3, <2>9, <3>2, <4>1, <4>4
      <4> QED
        BY <2>6, <4>1, <4>2, <4>3, <4>4
    <3> QED
      BY <3>1, <3>2
  <2>10. ASSUME NEW u \in Users \ contested, u = w.user, Works(user'[u])
         PROVE  ProfilesOf(u)' # {} \/ u \in unset'
    <3>1. user'[u] = w.userNext /\ user[u] = w.userSeen
      BY <1>0, <2>1, <2>10 DEF SeenOK
    <3>2. \/ ProfilesOf(u) # {}
          \/ w.op = "both" /\ w.profileNext.life = "live" /\ w.profileNext.user = u
          \/ w.op = "user" /\ w.userNext = w.userSeen /\ u \in unset
      BY <1>0, <2>10, <3>1 DEF PreparedOK
    <3>3. CASE w.op = "user"
      <4>1. profile' = profile
        BY <2>4, <3>3
      <4>2. ProfilesOf(u)' = ProfilesOf(u)
        BY <4>1 DEF ProfilesOf
      <4>3. w.userNext = w.userSeen /\ u \in unset => u \in unset'
        BY <1>2, <3>1
      <4> QED
        BY <3>2, <3>3, <4>2, <4>3
    <3>4. CASE w.op = "both"
      <4>1. ~ TakesAway(w)
        BY <2>10, <3>1 DEF TakesAway, Works
      <4>2. p \in Profiles /\ row.life = "live" /\ row.user = u
        BY <2>2, <2>3, <2>10, <3>4, <4>1
      <4>3. p \in ProfilesOf(u)'
        BY <2>6, <4>2 DEF ProfilesOf
      <4> QED
        BY <4>3
    <3> QED
      BY <1>0, <2>3, <2>10, <3>3, <3>4
  <2>11. ASSUME NEW q \in Profiles, profile[q].life # "unused"
         PROVE  IF q # p THEN profile'[q] = profile[q]
                ELSE /\ profile'[q].life # "unused"
                     /\ \/ profile'[q].user \in Held(w) \cup contested
                        \/ /\ profile'[q].user = profile[q].user
                           /\ profile'[q].life \in {"deleted", profile[q].life}
    BY <2>2, <2>3, <2>6
  <2>12. \A u \in Users : u # w.user =>
              /\ user'[u] = user[u]
              /\ u \in unset' <=> u \in unset
              /\ u \notin contested => ProfilesOf(u) \subseteq ProfilesOf(u)'
    BY <2>9
  <2>13. \A u \in Users \ contested : u = w.user /\ Works(user'[u])
              => ProfilesOf(u)' # {} \/ u \in unset'
    BY <2>10
  <2> HIDE DEF w, p, row
  <2> QED
    BY <1>0, <2>1, <2>7, <2>8, <2>11, <2>12, <2>13, ClerkWrites DEF w, p
<1> QED
  BY <1>1, <1>2 DEF CommitClerk

LEMMA ClerkInserts ==
    ASSUME TechniciansInv, NEW c \in Clerks, NEW p \in Profiles, InsertProfile(c, p)
    PROVE  TechniciansInv'
<1> DEFINE w == clerk[c]
<1>0. /\ TechniciansTypeOK /\ ProfilesOwned /\ Flagged /\ ClerksOK /\ TechnicianProfiled
      /\ w \in Clerk /\ w.op = "insert" /\ ClerkOK(w) /\ SeenOK(w)
      /\ clerk' = [clerk EXCEPT ![c] = Idle] /\ UNCHANGED <<unset, contested>>
      /\ clerk' \in [Clerks -> Clerk] /\ profile[p].life = "unused"
  BY IdleType DEF TechniciansInv, TechniciansTypeOK, ClerksOK, InsertProfile
<1>1. CASE UNCHANGED <<user, profile>>
  BY <1>0, <1>1, ClerkLetsGo
<1>2. CASE FlushUser(w) /\ profile' = [profile EXCEPT ![p] = w.profileNext]
  <2>1. /\ user' \in [Users -> UserRow]
        /\ \A u \in Users : u # w.user => user'[u] = user[u]
        /\ \A u \in Users \ contested : u = w.user => user'[u] = w.userNext
        /\ \A u \in Users : user[u].life # "unused" => user'[u].life # "unused"
    BY <1>2, UserFlushes
  <2>2. /\ w.user \in Users /\ w.profile \notin Profiles /\ w.profileNext \in ProfileRow
        /\ w.profileNext.life = "live" /\ w.profileNext.user = w.user
        /\ user[w.user].life # "unused"
    BY <1>0, TechniciansAssumption DEF TechniciansAssumption, ClerkOK, SeenOK, Clerk
  <2>3. /\ profile' \in [Profiles -> ProfileRow] /\ profile'[p] = w.profileNext
        /\ \A q \in Profiles : q # p => profile'[q] = profile[q]
    BY <1>0, <1>2, <2>2 DEF TechniciansTypeOK
  <2>4. TechniciansTypeOK' /\ ProfilesOwned'
    BY <1>0, <2>1, <2>2, <2>3 DEF TechniciansTypeOK, ProfilesOwned
  <2>5. \A u \in Users : ProfilesOf(u) \subseteq ProfilesOf(u)'
    BY <1>0, <2>3 DEF ProfilesOf
  <2>6. ASSUME NEW u \in Users, u = w.user
        PROVE  p \in ProfilesOf(u)'
    BY <2>2, <2>3, <2>6 DEF ProfilesOf
  <2>7. \A u \in Users \ contested : u = w.user => ProfilesOf(u)' # {}
    BY <2>6
  <2>8. \A q \in Profiles : profile[q].life # "unused" => q # w.profile /\ profile'[q] = profile[q]
    BY <1>0, <2>2, <2>3
  <2> QED
    BY <1>0, <2>1, <2>2, <2>3, <2>4, <2>5, <2>7, <2>8, ClerkWrites
<1> QED
  BY <1>1, <1>2 DEF InsertProfile

\* Whatever a handler reads and assigns, it is what the requests hold that the invariant
\* asks of.
LEMMA ClerkLoads ==
    ASSUME TechniciansInv, NEW c \in Clerks,
           \/ \E u \in Users : \/ LoadCreate(c, u)
                               \/ LoadDeleteUser(c, u)
                               \/ LoadActivate(c, u)
                               \/ LoadDeactivate(c, u)
                               \/ LoadSetRole(c, u)
           \/ \E p \in Profiles : LoadDeleteTechnician(c, p) \/ LoadUpdateTechnician(c, p)
    PROVE  TechniciansInv'
<1>0. /\ user \in [Users -> UserRow] /\ profile \in [Profiles -> ProfileRow]
      /\ ProfilesOwned /\ TechnicianProfiled
      /\ Nobody \notin Users /\ Nobody \notin Profiles
  BY TechniciansAssumption DEF TechniciansAssumption, TechniciansInv, TechniciansTypeOK
<1>1. /\ NoUser \in UserRow /\ NoProfile \in ProfileRow
      /\ Idle.user = Nobody /\ Idle.userSeen = NoUser /\ Idle.userNext = NoUser
      /\ Idle.profile = Nobody /\ Idle.profileSeen = NoProfile /\ Idle.profileNext = NoProfile
      /\ Idle \in Clerk /\ ~ Works(NoUser)
  BY IdleType DEF Idle, NoUser, NoProfile, UserRow, ProfileRow, Life, Works
<1>2. ASSUME NEW u \in Users, NEW next \in UserRow, Begin(c, OnUser(u, next)),
             user[u].life # "unused", next.life # "unused",
             u \notin contested /\ Works(next) =>
                ProfilesOf(u) # {} \/ (next = user[u] /\ u \in unset)
      PROVE  TechniciansInv'
  <2> DEFINE w == OnUser(u, next)
  <2>1. user[u] \in UserRow
    BY <1>0
  <2>2. /\ w \in Clerk /\ w.op = "user" /\ w.user = u /\ w.userSeen = user[u] /\ w.userNext = next
        /\ w.profile = Nobody
    BY <1>1, <2>1 DEF OnUser, Clerk
  <2> HIDE DEF w
  <2>3. ClerkOK(w) /\ PreparedOK(w)
    BY <1>2, <2>2 DEF ClerkOK, PreparedOK
  <2>4. Begin(c, w)
    BY <1>2 DEF w
  <2> QED
    BY <1>0, <1>2, <2>2, <2>3, <2>4, ClerkBegins
<1>3. ASSUME NEW u \in Users, NEW unext \in UserRow, NEW p \in Profiles, NEW pnext \in ProfileRow,
             Begin(c, OnBoth(u, unext, p, pnext)), profile[p].life # "unused", pnext.user = u,
             user[u].life # "unused", unext.life # "unused",
             \/ /\ profile[p].life = "live" /\ profile[p].user = u
                /\ pnext.life = "deleted" /\ ~ Works(unext)
                /\ unext.life = "live" => ~ unext.active
             \/ profile[p].life = "deleted" /\ pnext.life = "live"
      PROVE  TechniciansInv'
  <2> DEFINE w == OnBoth(u, unext, p, pnext)
  <2>1. user[u] \in UserRow /\ profile[p] \in ProfileRow
    BY <1>0
  <2>2. /\ w \in Clerk /\ w.op = "both" /\ w.user = u /\ w.userSeen = user[u] /\ w.userNext = unext
        /\ w.profile = p /\ w.profileSeen = profile[p] /\ w.profileNext = pnext
    BY <1>1, <2>1 DEF OnBoth, Clerk
  <2> HIDE DEF w
  <2>3. TakesAway(w) \/ Restores(w)
    BY <1>3, <2>2 DEF TakesAway, Restores
  <2>4. ClerkOK(w) /\ PreparedOK(w)
    BY <1>3, <2>2, <2>3 DEF ClerkOK, PreparedOK
  <2>5. Begin(c, w)
    BY <1>3 DEF w
  <2> QED
    BY <1>0, <1>3, <2>2, <2>4, <2>5, ClerkBegins
<1>4. ASSUME NEW u \in Users, LoadCreate(c, u)
      PROVE  TechniciansInv'
  <2>1. Activated(user[u]) \in UserRow /\ user[u].life = "live" /\ Activated(user[u]).life = "live"
    BY <1>0, <1>4 DEF LoadCreate, Activated, UserRow
  <2>2. PICK identity \in Identities :
           LET row == [life |-> "live", user |-> u, identity |-> identity] IN
           \/ \E p \in Restorable(u, identity) : Begin(c, OnBoth(u, Activated(user[u]), p, row))
           \/ Begin(c, [OnUser(u, Activated(user[u])) EXCEPT !.op = "insert", !.profileNext = row])
    BY <1>4 DEF LoadCreate
  <2> DEFINE row == [life |-> "live", user |-> u, identity |-> identity]
  <2>3. row \in ProfileRow /\ row.life = "live" /\ row.user = u
    BY DEF ProfileRow, Life
  <2>4. CASE \E p \in Restorable(u, identity) : Begin(c, OnBoth(u, Activated(user[u]), p, row))
    <3>1. PICK p \in Profiles : profile[p].life = "deleted" /\ Begin(c, OnBoth(u, Activated(user[u]), p, row))
      BY <2>4 DEF Restorable
    <3> HIDE DEF row
    <3> QED
      BY <1>3, <2>1, <2>3, <3>1
  <2>5. CASE Begin(c, [OnUser(u, Activated(user[u])) EXCEPT !.op = "insert", !.profileNext = row])
    <3> DEFINE w == [OnUser(u, Activated(user[u])) EXCEPT !.op = "insert", !.profileNext = row]
    <3>1. user[u] \in UserRow
      BY <1>0
    <3> HIDE DEF row
    <3>2. /\ w \in Clerk /\ w.op = "insert" /\ w.user = u /\ w.userSeen = user[u]
          /\ w.userNext = Activated(user[u]) /\ w.profile = Nobody /\ w.profileNext = row
      BY <1>1, <2>1, <2>3, <3>1 DEF OnUser, Clerk
    <3>3. Begin(c, w)
      BY <2>5
    <3> HIDE DEF w
    <3>4. ClerkOK(w) /\ PreparedOK(w)
      BY <2>1, <2>3, <3>2 DEF ClerkOK, PreparedOK
    <3> QED
      BY <1>0, <2>1, <3>2, <3>3, <3>4, ClerkBegins
  <2> QED
    BY <2>2, <2>4, <2>5
<1>5. ASSUME NEW p \in Profiles, LoadDeleteTechnician(c, p)
      PROVE  TechniciansInv'
  <2> DEFINE u == profile[p].user
             unext == [user[u] EXCEPT !.active = FALSE]
  <2>1. u \in Users /\ user[u].life # "unused" /\ profile[p].life = "live" /\ profile[p] \in ProfileRow
    BY <1>0, <1>5 DEF LoadDeleteTechnician, ProfilesOwned
  <2>2. unext \in UserRow /\ ~ unext.active /\ unext.life # "unused"
    BY <1>0, <2>1 DEF UserRow
  <2>3. /\ SoftDeleted(profile[p]) \in ProfileRow /\ SoftDeleted(profile[p]).life = "deleted"
        /\ SoftDeleted(profile[p]).user = u
    BY <2>1 DEF SoftDeleted, ProfileRow, Life
  <2>4. Begin(c, OnBoth(u, unext, p, SoftDeleted(profile[p])))
    BY <1>5 DEF LoadDeleteTechnician
  <2>5. ~ Works(unext)
    BY <2>2 DEF Works
  <2> HIDE DEF unext
  <2> QED
    BY <1>3, <2>1, <2>2, <2>3, <2>4, <2>5
<1>6. ASSUME NEW p \in Profiles, LoadUpdateTechnician(c, p)
      PROVE  TechniciansInv'
  <2>1. PICK identity \in Identities :
           Begin(c, [Idle EXCEPT !.op = "profile", !.profile = p, !.profileSeen = profile[p],
                                 !.profileNext = [profile[p] EXCEPT !.identity = identity]])
    BY <1>6 DEF LoadUpdateTechnician
  <2> DEFINE next == [profile[p] EXCEPT !.identity = identity]
             w == [Idle EXCEPT !.op = "profile", !.profile = p, !.profileSeen = profile[p],
                               !.profileNext = next]
  <2>2. profile[p] \in ProfileRow /\ profile[p].life = "live"
    BY <1>0, <1>6 DEF LoadUpdateTechnician
  <2>3. next \in ProfileRow /\ next.life = profile[p].life /\ next.user = profile[p].user
    BY <2>2 DEF ProfileRow
  <2>4. Begin(c, w)
    BY <2>1
  <2> HIDE DEF next
  <2>5. /\ w \in Clerk /\ w.op = "profile" /\ w.user = Nobody
        /\ w.profile = p /\ w.profileSeen = profile[p] /\ w.profileNext = next
    BY <1>1, <2>2, <2>3 DEF Clerk
  <2> HIDE DEF w
  <2>6. ClerkOK(w) /\ PreparedOK(w)
    BY <1>0, <2>3, <2>5 DEF ClerkOK, PreparedOK
  <2> QED
    BY <1>0, <2>2, <2>4, <2>5, <2>6, ClerkBegins
<1>7. ASSUME NEW u \in Users, LoadDeleteUser(c, u)
      PROVE  TechniciansInv'
  <2>1. /\ SoftDeleted(user[u]) \in UserRow /\ SoftDeleted(user[u]).life = "deleted"
        /\ user[u].life = "live"
    BY <1>0, <1>7 DEF LoadDeleteUser, SoftDeleted, UserRow, Life
  <2>2. ~ Works(SoftDeleted(user[u]))
    BY <2>1 DEF Works
  <2>3. ASSUME NEW p \in ProfilesOf(u), Begin(c, OnBoth(u, SoftDeleted(user[u]), p, SoftDeleted(profile[p])))
        PROVE  TechniciansInv'
    <3>1. p \in Profiles /\ profile[p].life = "live" /\ profile[p].user = u /\ profile[p] \in ProfileRow
      BY <1>0 DEF ProfilesOf
    <3>2. /\ SoftDeleted(profile[p]) \in ProfileRow /\ SoftDeleted(profile[p]).life = "deleted"
          /\ SoftDeleted(profile[p]).user = u
      BY <3>1 DEF SoftDeleted, ProfileRow, Life
    <3> QED
      BY <1>3, <2>1, <2>2, <2>3, <3>1, <3>2
  <2>4. ASSUME Begin(c, OnUser(u, SoftDeleted(user[u])))
        PROVE  TechniciansInv'
    BY <1>2, <2>1, <2>2, <2>4
  <2> QED
    BY <1>7, <2>3, <2>4 DEF LoadDeleteUser
<1>8. ASSUME NEW u \in Users, LoadActivate(c, u)
      PROVE  TechniciansInv'
  <2>1. /\ Activated(user[u]) \in UserRow /\ Activated(user[u]).technician = user[u].technician
        /\ user[u].life = "live" /\ Activated(user[u]).life = "live"
    BY <1>0, <1>8 DEF LoadActivate, Activable, Activated, UserRow
  <2>2. Works(Activated(user[u])) => ProfilesOf(u) # {}
    BY <1>8, <2>1 DEF LoadActivate, Activable, Works
  <2> QED
    BY <1>2, <1>8, <2>1, <2>2 DEF LoadActivate
<1>9. ASSUME NEW u \in Users, LoadDeactivate(c, u)
      PROVE  TechniciansInv'
  <2>1. /\ [user[u] EXCEPT !.active = FALSE] \in UserRow /\ ~ Works([user[u] EXCEPT !.active = FALSE])
        /\ user[u].life = "live" /\ [user[u] EXCEPT !.active = FALSE].life = "live"
    BY <1>0, <1>9 DEF LoadDeactivate, UserRow, Works
  <2> QED
    BY <1>2, <1>9, <2>1 DEF LoadDeactivate
<1>10. ASSUME NEW u \in Users, LoadSetRole(c, u)
       PROVE  TechniciansInv'
  <2>1. user[u] \in UserRow /\ user[u].life = "live"
    BY <1>0, <1>10 DEF LoadSetRole
  <2>2. PICK technician \in BOOLEAN :
           Begin(c, OnUser(u, [user[u] EXCEPT
              !.technician = technician,
              !.active = @ /\ ~ (technician /\ ~ user[u].technician /\ ProfilesOf(u) = {})]))
    BY <1>10 DEF LoadSetRole
  <2>3. PICK active \in BOOLEAN :
           active = (user[u].active /\ ~ (technician /\ ~ user[u].technician /\ ProfilesOf(u) = {}))
    OBVIOUS
  <2> DEFINE next == [user[u] EXCEPT !.technician = technician, !.active = active]
  <2>4. /\ next \in UserRow /\ next.life = "live" /\ next.technician = technician
        /\ next.active = active
    BY <2>1 DEF UserRow
  <2>5. Begin(c, OnUser(u, next))
    BY <2>2, <2>3
  <2>6. ASSUME u \notin contested, Works(next), ProfilesOf(u) = {}
        PROVE  next = user[u] /\ u \in unset
    <3>1. technician = TRUE /\ active = TRUE /\ user[u].technician /\ user[u].active
      BY <2>3, <2>4, <2>6 DEF Works
    <3>2. user[u].technician = TRUE /\ user[u].active = TRUE
      BY <2>1, <3>1 DEF UserRow
    <3>3. next = user[u]
      BY <2>1, <3>1, <3>2 DEF UserRow
    <3>4. u \in unset
      BY <1>0, <2>1, <2>6, <3>1 DEF TechnicianProfiled
    <3> QED
      BY <3>3, <3>4
  <2> HIDE DEF next
  <2> QED
    BY <1>2, <2>1, <2>4, <2>5, <2>6
<1> QED
  BY <1>4, <1>5, <1>6, <1>7, <1>8, <1>9, <1>10

LEMMA UserCreated ==
    ASSUME TechniciansInv, NEW u \in Users, CreateUser(u)
    PROVE  TechniciansInv'
<1>0. TechniciansTypeOK /\ ProfilesOwned /\ Flagged /\ ClerksOK /\ TechnicianProfiled
  BY DEF TechniciansInv
<1>1. /\ user[u].life = "unused" /\ unset' = unset \cup {u} /\ UNCHANGED <<profile, clerk, contested>>
      /\ \E row \in UserRow : row.life = "live" /\ user' = [user EXCEPT ![u] = row]
  BY DEF CreateUser, UserRow, Life
<1>2. PICK row \in UserRow : row.life = "live" /\ user' = [user EXCEPT ![u] = row]
  BY <1>1
<1>3. user' \in [Users -> UserRow] /\ user'[u] = row /\ \A x \in Users : x # u => user'[x] = user[x]
  BY <1>0, <1>2 DEF TechniciansTypeOK
<1>4. TechniciansTypeOK'
  BY <1>0, <1>1, <1>3 DEF TechniciansTypeOK
<1>5. ProfilesOwned'
  BY <1>0, <1>1, <1>2, <1>3 DEF ProfilesOwned
<1>6. Flagged'
  BY <1>0, <1>1 DEF Flagged, Held
<1>7. \A x \in Users : ProfilesOf(x)' = ProfilesOf(x)
  BY <1>1 DEF ProfilesOf
<1>8. TechnicianProfiled'
  BY <1>0, <1>1, <1>3, <1>7 DEF TechnicianProfiled
<1>9. ASSUME NEW d \in Clerks
      PROVE  SeenOK(clerk[d])' /\ PreparedOK(clerk[d])' /\ ClerkOK(clerk[d])'
  <2>1. ClerkOK(clerk[d]) /\ SeenOK(clerk[d]) /\ PreparedOK(clerk[d])
    BY <1>0 DEF ClerksOK
  <2>2. clerk[d].user \in Users => clerk[d].user # u
    BY <1>1, <2>1 DEF SeenOK
  <2>3. clerk'[d] = clerk[d]
    BY <1>1
  <2>4. SeenOK(clerk[d])'
    BY <1>1, <1>3, <2>1, <2>2, <2>3 DEF SeenOK, Restores
  <2>5. PreparedOK(clerk[d])'
    <3>1. ProfilesOf(clerk[d].user)' = ProfilesOf(clerk[d].user)
      BY <1>1 DEF ProfilesOf
    <3> QED
      BY <1>1, <2>1, <2>2, <2>3, <3>1 DEF PreparedOK, Works
  <2>6. ClerkOK(clerk[d])'
    BY <2>1, <2>3 DEF ClerkOK, TakesAway, Restores
  <2> QED
    BY <2>4, <2>5, <2>6
<1>10. ClerksOK'
  BY <1>9 DEF ClerksOK
<1> QED
  BY <1>4, <1>5, <1>6, <1>8, <1>10 DEF TechniciansInv

LEMMA TechniciansInvStep == TechniciansInv /\ [TechniciansNext]_technicianVars => TechniciansInv'
<1> SUFFICES ASSUME TechniciansInv, [TechniciansNext]_technicianVars PROVE TechniciansInv'
  OBVIOUS
<1>1. ASSUME NEW c \in Clerks, FailClerk(c)
      PROVE  TechniciansInv'
  <2>1. clerk' = [clerk EXCEPT ![c] = Idle] /\ UNCHANGED <<user, profile, unset, contested>>
    BY <1>1 DEF FailClerk
  <2> QED
    BY <2>1, ClerkLetsGo
<1>2. ASSUME UNCHANGED technicianVars
      PROVE  TechniciansInv'
  <2>1. UNCHANGED <<user, profile, clerk, unset, contested>>
    BY <1>2 DEF technicianVars
  <2>2. TechniciansTypeOK' /\ ProfilesOwned' /\ Flagged'
    BY <2>1 DEF TechniciansInv, TechniciansTypeOK, ProfilesOwned, Flagged, Held
  <2>3. TechnicianProfiled'
    BY <2>1 DEF TechniciansInv, TechnicianProfiled, ProfilesOf
  <2>4. ASSUME NEW d \in Clerks
        PROVE  (ClerkOK(clerk[d]) /\ SeenOK(clerk[d]) /\ PreparedOK(clerk[d]))'
    <3>1. ClerkOK(clerk[d]) /\ SeenOK(clerk[d]) /\ PreparedOK(clerk[d]) /\ clerk'[d] = clerk[d]
      BY <2>1 DEF TechniciansInv, ClerksOK
    <3>2. ClerkOK(clerk[d])'
      BY <3>1 DEF ClerkOK, TakesAway, Restores
    <3>3. SeenOK(clerk[d])'
      BY <2>1, <3>1 DEF SeenOK, Restores
    <3>4. ProfilesOf(clerk[d].user)' = ProfilesOf(clerk[d].user)
      BY <2>1 DEF ProfilesOf
    <3>5. PreparedOK(clerk[d])'
      BY <2>1, <3>1, <3>4 DEF PreparedOK, Works
    <3> QED
      BY <3>2, <3>3, <3>5
  <2>5. ClerksOK'
    BY <2>4 DEF ClerksOK
  <2> QED
    BY <2>2, <2>3, <2>5 DEF TechniciansInv
<1> QED
  BY <1>1, <1>2, UserCreated, ClerkLoads, ClerkCommits, ClerkInserts DEF TechniciansNext

\* The users, the profiles and the requests keep their types, requests that overlap are
\* known, and what each holds and prepares fits the rows it read.
THEOREM TechniciansTypes == TechniciansSpec => []TechniciansInv
  BY TechniciansInvInit, TechniciansInvStep, PTL DEF TechniciansSpec

\* Of any number of requests on users and profiles, none leaves an active technician
\* without a profile, short of two that held him at the same time.
THEOREM TechnicianProfiledAlways == TechniciansSpec => []TechnicianProfiled
<1>1. TechniciansInv => TechnicianProfiled
  BY DEF TechniciansInv
<1> QED
  BY <1>1, TechniciansTypes, PTL

LEMMA KeepsProfiles ==
    TechniciansInv /\ [TechniciansNext]_technicianVars =>
       [\A p \in Profiles \ contested :
           profile[p].life = "live" /\ profile'[p].life = "live"
              => profile'[p].user = profile[p].user]_technicianVars
<1> SUFFICES ASSUME TechniciansInv, TechniciansNext, NEW p \in Profiles \ contested,
                    profile[p].life = "live", profile'[p].life = "live"
             PROVE  profile'[p].user = profile[p].user
  OBVIOUS
<1>1. ASSUME NEW c \in Clerks, CommitClerk(c)
      PROVE  profile'[p].user = profile[p].user
  <2> DEFINE w == clerk[c]
             row == ProfileFlushed(profile[w.profile], w.profileSeen, w.profileNext)
  <2>0. profile \in [Profiles -> ProfileRow] /\ w \in Clerk /\ ClerkOK(w) /\ SeenOK(w)
    BY DEF TechniciansInv, TechniciansTypeOK, ClerksOK
  <2>1. CASE profile'[p] = profile[p]
    BY <2>1
  <2>2. CASE profile'[p] # profile[p]
    <3>1. p = w.profile /\ w.op \in {"profile", "both"} /\ profile' = [profile EXCEPT ![p] = row]
      BY <1>1, <2>0, <2>2 DEF CommitClerk
    <3>2. /\ w.op = "profile" => row.user = profile[p].user
          /\ w.op = "both" /\ TakesAway(w) => row.life = "deleted"
          /\ w.op = "both" /\ Restores(w) => w.profileSeen.life = "deleted"
      BY <3>1, ProfileFlushes DEF Restores
    <3>3. profile'[p] = row /\ w.profileSeen = profile[p]
      BY <2>0, <3>1 DEF SeenOK
    <3>4. w.op = "both" => TakesAway(w) \/ Restores(w)
      BY <2>0 DEF ClerkOK
    <3> QED
      BY <3>1, <3>2, <3>3, <3>4
  <2> QED
    BY <2>1, <2>2
<1>2. ASSUME NEW c \in Clerks, NEW q \in Profiles, InsertProfile(c, q)
      PROVE  profile'[p].user = profile[p].user
  <2>1. p # q
    BY <1>2 DEF InsertProfile
  <2>2. profile \in [Profiles -> ProfileRow]
    BY DEF TechniciansInv, TechniciansTypeOK
  <2>3. profile'[p] = profile[p]
    BY <1>2, <2>1, <2>2 DEF InsertProfile
  <2> QED
    BY <2>3
<1>3. ASSUME NEW u \in Users, CreateUser(u)
      PROVE  profile' = profile
  BY <1>3 DEF CreateUser
<1>4. ASSUME NEW c \in Clerks, NEW w, Begin(c, w)
      PROVE  profile' = profile
  BY <1>4 DEF Begin
<1>5. ASSUME NEW c \in Clerks, NEW u \in Users, LoadCreate(c, u)
      PROVE  profile' = profile
  BY <1>4, <1>5 DEF LoadCreate
<1>6. ASSUME NEW c \in Clerks, NEW u \in Users, LoadDeleteUser(c, u)
      PROVE  profile' = profile
  BY <1>4, <1>6 DEF LoadDeleteUser
<1>7. ASSUME NEW c \in Clerks, NEW u \in Users,
             LoadActivate(c, u) \/ LoadDeactivate(c, u)
      PROVE  profile' = profile
  BY <1>4, <1>7 DEF LoadActivate, LoadDeactivate
<1>8. ASSUME NEW c \in Clerks, NEW u \in Users, LoadSetRole(c, u)
      PROVE  profile' = profile
  BY <1>4, <1>8 DEF LoadSetRole
<1>9. ASSUME NEW c \in Clerks, NEW q \in Profiles, LoadDeleteTechnician(c, q)
      PROVE  profile' = profile
  BY <1>4, <1>9 DEF LoadDeleteTechnician
<1>10. ASSUME NEW c \in Clerks, NEW q \in Profiles, LoadUpdateTechnician(c, q)
       PROVE  profile' = profile
  BY <1>4, <1>10 DEF LoadUpdateTechnician
<1>11. ASSUME NEW c \in Clerks, FailClerk(c)
       PROVE  profile' = profile
  BY <1>11 DEF FailClerk
<1> QED
  BY <1>1, <1>2, <1>3, <1>5, <1>6, <1>7, <1>8, <1>9, <1>10, <1>11 DEF TechniciansNext

\* A live profile only one request at a time has held stays with its user: it is restored
\* for another only after it was deleted.
THEOREM ProfileKeptAlways == TechniciansSpec => ProfileKept
  BY TechniciansTypes, KeepsProfiles, PTL DEF TechniciansSpec, ProfileKept
=============================================================================
