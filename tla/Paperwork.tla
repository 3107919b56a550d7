------------------------------- MODULE Paperwork -------------------------------
(***************************************************************************)
(* Routine inspections and the access requests that are left: papers whose *)
(* status is committed first and told to those concerned in a second       *)
(* transaction.  services/routine_inspection.py, services/access_request.py *)
(* and their models.                                                       *)
(*                                                                         *)
(* No access request is made or approved any more: those there are date    *)
(* from before.  Left out: what the papers say but a number for it, and    *)
(* the notice that an inspection has begun, which changes nothing.         *)
(***************************************************************************)
EXTENDS Naturals, UnitOfWork

CONSTANTS Inspections, AccessRequests,
          Handlers,   \* the requests
          MaxText,    \* a bound on the contents
          Nopaper

Papers == Inspections \cup AccessRequests

ASSUME PaperworkAssumption == /\ MaxText \in Nat /\ Nopaper \notin Papers
                              /\ Inspections \cap AccessRequests = {}

\* `data' is the data of an inspection or the description of a request.
PaperRow == [life : Life, status : {"draft", "completed", "requested", "rejected"}, data : 0 .. MaxText]

UnusedPaper == [life |-> "unused", status |-> "draft", data |-> 0]

\* A request: what it read and assigned; then, its status committed, it is to tell.
Handler == [pc : {"idle", "commit", "tell"}, tells : BOOLEAN, paper : Papers \cup {Nopaper},
            seen : PaperRow, next : PaperRow]

NoHandler == [pc |-> "idle", tells |-> FALSE, paper |-> Nopaper, seen |-> UnusedPaper, next |-> UnusedPaper]

VARIABLES
    paper,    \* the tables routine_inspections and access_requests
    handler,  \* the requests being served
    tellings, \* how often the new status of a paper was told, at most 2
    shared    \* the papers two requests have held at the same time
paperVars == <<paper, handler, tellings, shared>>

PaperworkTypeOK ==
    /\ paper \in [Papers -> PaperRow] /\ handler \in [Handlers -> Handler]
    /\ tellings \in [Papers -> 0 .. 2] /\ shared \subseteq Papers

PaperworkInit ==
    /\ paper = [p \in Papers |-> IF p \in Inspections THEN UnusedPaper
                                 ELSE [life |-> "live", status |-> "requested", data |-> 0]]
    /\ handler = [h \in Handlers |-> NoHandler]
    /\ tellings = [p \in Papers |-> 0] /\ shared = {}

\* create_inspection, with any status the caller gives it.
CreateInspection(p) ==
    /\ p \in Inspections /\ paper[p].life = "unused"
    /\ \E status \in {"draft", "completed"}, n \in 0 .. MaxText :
          paper' = [paper EXCEPT ![p] = [life |-> "live", status |-> status, data |-> n]]
    /\ UNCHANGED <<handler, tellings, shared>>

LoadPaper(h, p, next, tells) ==
    /\ handler[h] = NoHandler
    /\ handler' = [handler EXCEPT ![h] = [pc |-> "commit", tells |-> tells, paper |-> p,
                                          seen |-> paper[p], next |-> next]]
    /\ shared' = IF \E g \in Handlers : handler[g].paper = p THEN shared \cup {p} ELSE shared
    /\ UNCHANGED <<paper, tellings>>

\* Slip: the status is not asked for.
AnyLivePaper(p) == paper[p].life = "live"

\* An inspection that is completed is neither edited nor submitted; a request always is.
OpenPaper(p) == paper[p].life = "live" /\ paper[p].status # "completed"

\* update_inspection, which may set the status itself, and update_access_request.
LoadEdit(h, p) ==
    /\ OpenPaper(p)
    /\ \E n \in 0 .. MaxText, status \in {"draft", "completed"} :
          LoadPaper(h, p, [paper[p] EXCEPT !.data = n,
                                           !.status = IF p \in Inspections THEN status ELSE @], FALSE)

\* submit_inspection and reject_access_request.
LoadSettle(h, p) ==
    /\ OpenPaper(p)
    /\ LoadPaper(h, p, [paper[p] EXCEPT !.status = IF p \in Inspections THEN "completed" ELSE "rejected"],
                 TRUE)

\* delete_inspection and delete_access_request.
LoadDelete(h, p) == paper[p].life = "live" /\ LoadPaper(h, p, SoftDeleted(paper[p]), FALSE)

CommitPaper(h) ==
    /\ handler[h].pc = "commit"
    /\ LET w == handler[h] IN
       /\ paper' = [paper EXCEPT ![w.paper] =
                       [life   |-> Written(@.life, w.seen.life, w.next.life),
                        status |-> Written(@.status, w.seen.status, w.next.status),
                        data   |-> Written(@.data, w.seen.data, w.next.data)]]
       /\ handler' = [handler EXCEPT ![h] = IF w.tells THEN [w EXCEPT !.pc = "tell"] ELSE NoHandler]
    /\ UNCHANGED <<tellings, shared>>

\* The second transaction.
Tell(h) ==
    /\ handler[h].pc = "tell"
    /\ tellings' = [tellings EXCEPT ![handler[h].paper] = IF @ = 2 THEN 2 ELSE @ + 1]
    /\ handler' = [handler EXCEPT ![h] = NoHandler]
    /\ UNCHANGED <<paper, shared>>

\* Either transaction fails, and the caller is answered with an error.
FailPaper(h) ==
    /\ handler[h].pc # "idle"
    /\ handler' = [handler EXCEPT ![h] = NoHandler]
    /\ UNCHANGED <<paper, tellings, shared>>

\* What is still served of a paper that is there.  POST /access-requests and the approval
\* of one are refused before they read anything.
ServePaper(h, p) == LoadEdit(h, p) \/ LoadSettle(h, p) \/ LoadDelete(h, p)

PaperworkNext ==
    \/ \E p \in Papers : CreateInspection(p)
    \/ \E h \in Handlers : \/ \E p \in Papers : ServePaper(h, p)
                           \/ CommitPaper(h)
                           \/ Tell(h)
                           \/ FailPaper(h)

PaperworkSpec == PaperworkInit /\ [][PaperworkNext]_paperVars
-----------------------------------------------------------------------------
(* Properties.                                                             *)

\* An inspection that is completed is told at most once, whatever fails and is tried
\* again, and keeps its data and its status, unless two requests have held it at the
\* same time ("Cannot update a completed routine inspection").
CompletedOnce ==
    [][\A p \in Inspections \ shared' :
          paper[p].life = "live" /\ paper[p].status = "completed"
             => /\ paper'[p].status = "completed" /\ paper'[p].data = paper[p].data
                /\ tellings'[p] <= 1]_paperVars
=============================================================================
