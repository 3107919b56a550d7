-------------------------------- MODULE Sessions --------------------------------
(***************************************************************************)
(* The sessions of one account: services/auth.py, the password reset and   *)
(* the status handlers of services/user.py, core/security.py,              *)
(* core/cookies.py and models/user.py.  Accounts share nothing.            *)
(*                                                                         *)
(* A session is opened by a password or a passkey and carried by signed    *)
(* tokens nobody stores; renewal mints another one.  It is ended by moving *)
(* credentials_updated_at or sessions_revoked_at past the second the token *)
(* says it was issued in.                                                  *)
(*                                                                         *)
(* Time counts the moments a handler asks for: no two ask for the same     *)
(* microsecond.  Left out: the expiry of a token, which only takes tokens  *)
(* away; the login audit, whose errors are swallowed; names and roles.     *)
(***************************************************************************)
EXTENDS Naturals, UnitOfWork

CONSTANTS Sessioners,   \* the requests
          Second,       \* the moments that fall into one second
          MaxMoments    \* a bound on the moments

ASSUME SessionsAssumption == Second \in Nat \ {0} /\ MaxMoments \in Nat

Moment == 0 .. MaxMoments

AccountRow == [life : Life, active : BOOLEAN,
               credentials : Moment,  \* credentials_updated_at
               revoked : Moment]      \* sessions_revoked_at, 0 for NULL

\* `since' and `raced' are not in the token: when the password or the passkey behind
\* it was accepted, and whether an end of sessions was under way as it was minted or
\* as one it was renewed from was.
Token == [kind : {"access", "refresh"}, iat : Moment, since : Moment, raced : BOOLEAN]

\* A request that mints, from its load on, and one that ends the sessions, from the
\* time it took on.
SessionWork == [pc : {"idle", "login", "cookie", "renewal", "ending"},
                since : Moment, crossed : BOOLEAN,
                column : {"", "credentials", "revoked"}, at : Moment]

NoSession == [pc |-> "idle", since |-> 0, crossed |-> FALSE, column |-> "", at |-> 0]

VARIABLES
    account,   \* the row of the table users
    token,     \* the tokens that were handed out
    session,   \* the requests being served
    moment,    \* the time now
    ended      \* the last moment at which sessions were ended by a committed request
sessionVars == <<account, token, session, moment, ended>>

SessionsTypeOK ==
    /\ account \in AccountRow /\ token \subseteq Token
    /\ session \in [Sessioners -> SessionWork]
    /\ moment \in Moment /\ ended \in 0 .. moment

\* create_user, which leaves sessions_revoked_at NULL.
SessionsInit ==
    /\ account = [life |-> "live", active |-> TRUE, credentials |-> 0, revoked |-> 0]
    /\ token = {} /\ moment = 0 /\ ended = 0
    /\ session = [r \in Sessioners |-> NoSession]

Serving == account.life = "live" /\ account.active

\* The moment, cut off to the second it falls into.
SecondOf(t) == t - (t % Second)

\* Slip: a token is compared with the second in which the sessions were ended.
UnrevokedBySecond(t) ==
    t.iat >= SecondOf(account.credentials) /\ t.iat >= SecondOf(account.revoked)

\* _ensure_token_not_revoked.
Unrevoked(t) == t.iat >= account.credentials /\ t.iat >= account.revoked

Accepted(t) == Serving /\ Unrevoked(t)

Ending(r) == session[r].pc = "ending"
-----------------------------------------------------------------------------
(* Opening and renewing a session.                                         *)

\* authenticate and finish_passkey_authentication, up to the token.
LoadLogin(r) ==
    /\ session[r].pc = "idle" /\ Serving
    /\ session' = [session EXCEPT ![r] = [NoSession EXCEPT !.pc = "login", !.since = moment]]
    /\ UNCHANGED <<account, token, moment, ended>>

\* get_current_user, of an access token near its end or of a refresh token.
LoadRenewal(r, t) ==
    /\ session[r].pc = "idle" /\ Accepted(t)
    /\ session' = [session EXCEPT ![r] = [NoSession EXCEPT !.pc = "renewal", !.since = t.since,
                                                          !.crossed = t.raced]]
    /\ UNCHANGED <<account, token, moment, ended>>

Minted(r, kind) == [kind |-> kind, iat |-> SecondOf(moment'), since |-> session[r].since,
                    raced |-> session[r].crossed \/ \E q \in Sessioners : Ending(q)]

\* create_token, and after a login create_refresh_token for the second cookie.
Mint(r) ==
    /\ session[r].pc \in {"login", "renewal", "cookie"} /\ moment < MaxMoments
    /\ moment' = moment + 1
    /\ token' = token \cup {Minted(r, IF session[r].pc = "cookie" THEN "refresh" ELSE "access")}
    /\ session' = [session EXCEPT ![r] =
                      IF session[r].pc = "login" THEN [session[r] EXCEPT !.pc = "cookie"] ELSE NoSession]
    /\ UNCHANGED <<account, ended>>
-----------------------------------------------------------------------------
(* Ending the sessions.                                                    *)

TakeMoment(r, column) ==
    /\ session[r].pc = "idle" /\ moment < MaxMoments
    /\ account.life = "live"
    /\ moment' = moment + 1
    /\ session' = [session EXCEPT ![r] = [NoSession EXCEPT !.pc = "ending", !.column = column,
                                                          !.at = moment + 1]]
    /\ UNCHANGED <<account, token, ended>>

HasAccess == \E t \in token : t.kind = "access" /\ Accepted(t)

\* logout and change_password, of a caller get_current_user has let in.
Logout(r)         == HasAccess /\ TakeMoment(r, "revoked")
ChangePassword(r) == HasAccess /\ TakeMoment(r, "credentials")

\* reset_password, of an administrator.
ResetPassword(r) == TakeMoment(r, "credentials")

\* A moment nobody else took, so the column is written.
EndStamped(row, w) ==
    CASE w.column = "revoked" -> [row EXCEPT !.revoked = w.at]
      [] OTHER -> [row EXCEPT !.credentials = w.at]

\* The commit, which requests that have loaded the account and are yet to mint miss.
CommitEnd(r) ==
    /\ Ending(r)
    /\ account' = EndStamped(account, session[r])
    /\ ended' = IF session[r].at > ended THEN session[r].at ELSE ended
    /\ session' = [q \in Sessioners |->
                      IF q = r THEN NoSession
                      ELSE IF session[q].pc \in {"login", "cookie", "renewal"}
                           THEN [session[q] EXCEPT !.crossed = TRUE]
                           ELSE session[q]]
    /\ UNCHANGED <<token, moment>>

FailSession(r) ==
    /\ session[r].pc # "idle"
    /\ session' = [session EXCEPT ![r] = NoSession]
    /\ UNCHANGED <<account, token, moment, ended>>

\* activate_user, deactivate_user and delete_user, whose one column is the same
\* whatever was read before.
SetStatus ==
    /\ account.life = "live"
    /\ account' \in {[account EXCEPT !.active = TRUE], [account EXCEPT !.active = FALSE],
                     SoftDeleted(account)}
    /\ UNCHANGED <<token, session, moment, ended>>

SessionsNext ==
    \/ \E r \in Sessioners : \/ LoadLogin(r)
                             \/ \E t \in token : LoadRenewal(r, t)
                             \/ Mint(r)
                             \/ Logout(r)
                             \/ ChangePassword(r)
                             \/ ResetPassword(r)
                             \/ CommitEnd(r)
                             \/ FailSession(r)
    \/ SetStatus

SessionsSpec == SessionsInit /\ [][SessionsNext]_sessionVars
-----------------------------------------------------------------------------
(* Properties.                                                             *)

\* Once a logout, a change or a reset of the password is committed, no token of a
\* session opened before it is accepted again, however often it was renewed, in
\* whatever order the ends of sessions commit and although a token knows its second
\* only; but for a token minted while an end of sessions was under way, and what was
\* renewed from it ("this is a global logout across every device").
SessionEnds ==
    \A t \in token : Accepted(t) /\ ~ t.raced => t.since >= ended
=============================================================================
