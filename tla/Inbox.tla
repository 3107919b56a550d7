---------------------------------- MODULE Inbox --------------------------------
(***************************************************************************)
(* The notices of a user: services/notification.py over                    *)
(* models/notification.py, behind api/v1/notification.py and the call for  *)
(* help of api/v1/incident.py.                                             *)
(*                                                                         *)
(* A notice to several users is one commit for each, and one that fails is *)
(* passed over.  Marking and deleting look first and commit later; two     *)
(* requests, or a request and a delivery, come between each other.         *)
(***************************************************************************)
EXTENDS Naturals, FiniteSets, UnitOfWork

CONSTANTS Notices,
          Recipients,   \* the users
          Chiefs,       \* those of management
          OnDuty,       \* NOC operators and managers, who are called for help
          Openers,      \* the requests
          NoReader

ASSUME InboxAssumption == Chiefs \subseteq Recipients /\ OnDuty \subseteq Recipients /\ IsFiniteSet(Notices)

Deliveries == 0 .. Cardinality(Notices)

\* A notice, and how many there were when it came.  `by' and `seen' record who marked or
\* deleted it last, and how many notices there were when that request looked.
NoticeRow == [life : Life, owner : Recipients \cup {NoReader}, read : BOOLEAN, arrived : Deliveries,
              by : Recipients \cup {NoReader}, seen : Deliveries]

\* A request: whose it is and whose inbox it is about, the notices it loaded, the users
\* still to be told, how many were, and how many notices there were when it began.
Opening == [pc : {"idle", "telling", "known", "opened", "commit", "answered"},
            op : {"send", "all", "read", "delete"},
            by : Recipients \cup {NoReader}, whose : Recipients \cup {NoReader},
            found : SUBSET Notices, left : SUBSET Recipients, sent : Deliveries, at : Deliveries]

VARIABLES
    inbox,     \* the table notifications
    gone,      \* the users that are deleted
    opening    \* the requests being served
inboxVars == <<inbox, gone, opening>>

NoNotice == [life |-> "unused", owner |-> NoReader, read |-> FALSE, arrived |-> 0,
             by |-> NoReader, seen |-> 0]
NotOpening == [pc |-> "idle", op |-> "read", by |-> NoReader, whose |-> NoReader, found |-> {}, left |-> {},
               sent |-> 0, at |-> 0]

InboxTypeOK ==
    /\ inbox \in [Notices -> NoticeRow]
    /\ gone \subseteq Recipients
    /\ opening \in [Openers -> Opening]

InboxInit ==
    /\ inbox = [n \in Notices |-> NoNotice]
    /\ gone = {}
    /\ opening = [r \in Openers |-> NotOpening]

Delivered == {n \in Notices : inbox[n].life # "unused"}
Unread(u) == {n \in Notices : inbox[n].life = "live" /\ inbox[n].owner = u /\ ~ inbox[n].read}

\* Slip: whoever knows the id may open the notice.
MayOpenAny(u, owner) == u \in Recipients

\* _assert_can_access_user_notifications
MayOpen(u, owner) == u = owner \/ u \in Chiefs

Serve(r, pc, op, u, owner, found, left) ==
    /\ opening[r].pc = "idle"
    /\ opening' = [opening EXCEPT ![r] = [pc |-> pc, op |-> op, by |-> u, whose |-> owner, found |-> found,
                                          left |-> left, sent |-> 0, at |-> Cardinality(Delivered)]]
    /\ UNCHANGED <<inbox, gone>>

\* A notice for one user, of their own or from management; and a technician's call for
\* help, to everyone on duty.
Send(r, u, owner) == MayOpen(u, owner) /\ Serve(r, "telling", "send", NoReader, NoReader, {}, {owner})

CallForHelp(r, u) ==
    /\ u \notin OnDuty \cup Chiefs
    /\ Serve(r, IF OnDuty \subseteq gone THEN "answered" ELSE "telling", "send", NoReader, NoReader, {}, OnDuty \ gone)

\* The answer is given, and the request forgotten.
Answered(r) == opening[r].pc = "answered" /\ opening' = [opening EXCEPT ![r] = NotOpening] /\ UNCHANGED <<inbox, gone>>

\* The request has dealt with one user, and goes on with those that are left.
Passed(r, u, told) ==
    LET w == opening[r] IN
    opening' = [opening EXCEPT ![r] = [w EXCEPT !.pc = IF w.left = {u} THEN "answered" ELSE "telling",
                                                !.left = w.left \ {u}, !.sent = w.sent + told, !.whose = NoReader]]

\* create_notification: the user is looked up, and then the notice is committed.  Whatever
\* fails on the way is swallowed, and the notice does not count as sent.
LookUpUser(r, u) ==
    /\ opening[r].pc = "telling" /\ u \in opening[r].left
    /\ IF u \in gone THEN Passed(r, u, 0)
       ELSE opening' = [opening EXCEPT ![r].pc = "known", ![r].whose = u]
    /\ UNCHANGED <<inbox, gone>>

Arrives(u) ==
    \E n \in Notices \ Delivered :
       inbox' = [inbox EXCEPT ![n] = [life |-> "live", owner |-> u, read |-> FALSE,
                                      arrived |-> Cardinality(Delivered) + 1, by |-> NoReader, seen |-> 0]]

\* Slip: the users tried are counted, whether the notice was stored or not.
DeliverTried(r) ==
    /\ opening[r].pc = "known"
    /\ Arrives(opening[r].whose) \/ UNCHANGED inbox
    /\ Passed(r, opening[r].whose, 1)
    /\ UNCHANGED gone

\* A notice that is stored and then fails to be read back does not count as sent either.
Deliver(r) ==
    /\ opening[r].pc = "known"
    /\ \/ \E told \in {0, 1} : Arrives(opening[r].whose) /\ Passed(r, opening[r].whose, told)
       \/ UNCHANGED inbox /\ Passed(r, opening[r].whose, 0)
    /\ UNCHANGED gone

\* mark_all_as_read loads what is unread of one user; with nothing to do it answers.
OpenAll(r, u, owner) ==
    /\ MayOpen(u, owner)
    /\ Serve(r, IF Unread(owner) = {} THEN "answered" ELSE "commit", "all", u, owner, Unread(owner), {})

\* The routes of one notice load it, see whether the caller may, and load it again.
OpenOne(r, u, n, op) ==
    /\ inbox[n].life = "live" /\ MayOpen(u, inbox[n].owner)
    /\ Serve(r, "opened", op, u, NoReader, {n}, {})

OpenAgain(r) ==
    /\ opening[r].pc = "opened"
    /\ LET there == \A n \in opening[r].found : inbox[n].life = "live" IN
       opening' = [opening EXCEPT ![r] = IF there THEN [@ EXCEPT !.pc = "commit"] ELSE NotOpening]
    /\ UNCHANGED <<inbox, gone>>

\* Slip: one statement marks what is unread when it runs.
MarksAtCommit(w) == IF w.op = "all" THEN Unread(w.whose) ELSE w.found

\* What the commit writes: the rows the request loaded, whatever became of them.
Marks(w) == w.found

Handle(row, w) ==
    [row EXCEPT !.by = w.by, !.seen = w.at,
                !.read = IF w.op = "delete" THEN @ ELSE TRUE,
                !.life = IF w.op = "delete" THEN "deleted" ELSE @]

CommitMarks(r) ==
    /\ opening[r].pc = "commit"
    /\ inbox' = [n \in Notices |-> IF n \in Marks(opening[r]) THEN Handle(inbox[n], opening[r]) ELSE inbox[n]]
    /\ opening' = [opening EXCEPT ![r] = IF @.op = "all" THEN [@ EXCEPT !.pc = "answered", !.found = {}]
                                         ELSE NotOpening]
    /\ UNCHANGED gone

\* The commit fails and is rolled back.
FailOpening(r) ==
    /\ opening[r].pc = "commit"
    /\ opening' = [opening EXCEPT ![r] = NotOpening]
    /\ UNCHANGED <<inbox, gone>>

\* delete_user of services/user.py, of a user this service then looks up in vain.
CloseAccount(u) == u \notin gone /\ gone' = gone \cup {u} /\ UNCHANGED <<inbox, opening>>

InboxNext ==
    \/ \E r \in Openers : Answered(r) \/ OpenAgain(r) \/ Deliver(r) \/ CommitMarks(r) \/ FailOpening(r)
    \/ \E r \in Openers, u \in Recipients : LookUpUser(r, u) \/ (u \notin gone /\ CallForHelp(r, u))
    \/ \E r \in Openers, u \in Recipients \ gone, owner \in Recipients :
          Send(r, u, owner) \/ OpenAll(r, u, owner)
    \/ \E r \in Openers, u \in Recipients \ gone, n \in Notices :
          \E op \in {"read", "delete"} : OpenOne(r, u, n, op)
    \/ \E u \in Recipients : CloseAccount(u)

InboxSpec == InboxInit /\ [][InboxNext]_inboxVars

\* Nobody's news disappears: a notice is marked or deleted by its owner or by management
\* alone, in a request that began when it was there already.  One that arrives while
\* all are being marked stays unread.
HandledKnowingly ==
    \A n \in Notices : inbox[n].by # NoReader =>
       (inbox[n].by = inbox[n].owner \/ inbox[n].by \in Chiefs) /\ inbox[n].arrived <= inbox[n].seen

\* mark_all_as_read, once answered, left nothing unread of what there was when it began.
AllWasMarked ==
    \A r \in Openers : opening[r].pc = "answered" /\ opening[r].op = "all" =>
       \A n \in Unread(opening[r].whose) : inbox[n].arrived > opening[r].at

\* A call for help that answers how many were told has stored a notice for each of them,
\* though some failed.
SentWereStored ==
    \A r \in Openers : opening[r].op = "send" =>
       opening[r].sent <= Cardinality({n \in Delivered : inbox[n].arrived > opening[r].at})

\* The three promises of the inbox to its owner, to who empties it and to who fills it.
InboxKept == HandledKnowingly /\ AllWasMarked /\ SentWereStored
=============================================================================
