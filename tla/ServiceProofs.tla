------------------------------ MODULE ServiceProofs -----------------------------
(***************************************************************************)
(* The invariants of the services that keep to tables of their own:        *)
(* Clients, Paperwork, HostedSite, Inbox and Forms, for any number of      *)
(* requests and rows and any bounds.  In each of them what a waiting       *)
(* request may still rely on of the rows it read is part of the invariant, *)
(* and the property follows from it.  Then the sums of Compliance and      *)
(* Diesel, which are of a state, and all services in one behaviour.        *)
(***************************************************************************)
EXTENDS MCServices, SheqProofs, AccountProofs, PresenceProofs, FiniteSetTheorems, TLAPS

-----------------------------------------------------------------------------
(* Clients.                                                                *)

\* A request that overlapped no other still sees the register it looked at.
AskingOK(a) ==
    LET w == asking[a] IN
    w.pc = "commit" =>
       /\ w.client \in Clients /\ (w.op = "create" => w.next.used)
       /\ w.alone => /\ \A b \in Askers : b # a => asking[b].pc # "commit"
                     /\ w.op = "create" => /\ ~ client[w.client].used
                                           /\ ActiveNamesakes(w.next.name) = {}
                                           /\ w.next.code = CodeFor(w.next.name)

ClientsInv == ClientsTypeOK /\ Unique(client) /\ \A a \in Askers : AskingOK(a)

LEMMA NotAskingType ==
    NoClient \in ClientRow /\ ~ NoClient.used /\ NotAsking \in Asking /\ NotAsking.pc = "idle"
<1>1. AnyName \in Names
  BY ClientsAssumption DEF ClientsAssumption, AnyName
<1>2. NoClient \in ClientRow /\ ~ NoClient.used
  BY <1>1 DEF NoClient, ClientRow, Codes
<1> QED
  BY <1>2 DEF NotAsking, Asking

LEMMA ClientsInvInit == ClientsInit => ClientsInv
<1> SUFFICES ASSUME ClientsInit PROVE ClientsInv
  OBVIOUS
<1>1. (\A c \in Clients : client[c] = NoClient) /\ (\A a \in Askers : asking[a] = NotAsking)
  BY DEF ClientsInit
<1>2. ClientsTypeOK
  BY NotAskingType DEF ClientsInit, ClientsTypeOK
<1>3. Unique(client)
  BY <1>1, NotAskingType DEF Unique
<1>4. \A a \in Askers : AskingOK(a)
  BY <1>1, NotAskingType DEF AskingOK
<1> QED
  BY <1>2, <1>3, <1>4 DEF ClientsInv

\* The codes looked up are codes.
LEMMA CodeForType == \A n \in Names : CodeFor(n) \in Codes
  BY DEF CodeFor, Codes

LEMMA AskKept ==
    ASSUME ClientsInv, NEW a \in Askers, NEW c \in Clients, NEW op \in {"create", "change"},
           NEW next \in ClientRow, Ask(a, op, c, next),
           op = "create" => /\ ~ client[c].used /\ next.used /\ ActiveNamesakes(next.name) = {}
                            /\ next.code = CodeFor(next.name)
    PROVE  ClientsInv'
<1> DEFINE others == {b \in Askers \ {a} : asking[b].pc = "commit"}
           w == [pc |-> "commit", op |-> op, client |-> c, seen |-> client[c], next |-> next, alone |-> others = {}]
<1>1. /\ client \in [Clients -> ClientRow] /\ asking \in [Askers -> Asking] /\ UNCHANGED client
      /\ Unique(client) /\ \A b \in Askers : AskingOK(b)
  BY DEF ClientsInv, ClientsTypeOK, Ask
<1>2. asking' = [b \in Askers |-> IF b = a THEN w
                                  ELSE IF b \in others THEN [asking[b] EXCEPT !.alone = FALSE] ELSE asking[b]]
  BY DEF Ask
<1>3. w \in Asking /\ w.pc = "commit" /\ w.op = op /\ w.client = c /\ w.next = next /\ (w.alone <=> others = {})
  <2>1. PICK alone \in BOOLEAN : alone = (others = {})
    OBVIOUS
  <2>2. w = [pc |-> "commit", op |-> op, client |-> c, seen |-> client[c], next |-> next, alone |-> alone]
    BY <2>1
  <2>3. w \in Asking
    BY <1>1, <2>2 DEF Asking
  <2> QED
    BY <2>1, <2>2, <2>3
<1>4. \A b \in Askers : /\ [asking[b] EXCEPT !.alone = FALSE] \in Asking
                        /\ ~ [asking[b] EXCEPT !.alone = FALSE].alone
                        /\ [asking[b] EXCEPT !.alone = FALSE].pc = asking[b].pc
                        /\ [asking[b] EXCEPT !.alone = FALSE].op = asking[b].op
                        /\ [asking[b] EXCEPT !.alone = FALSE].client = asking[b].client
                        /\ [asking[b] EXCEPT !.alone = FALSE].next = asking[b].next
  BY <1>1 DEF Asking
<1> HIDE DEF w
<1>5. asking' \in [Askers -> Asking] /\ asking'[a] = w
  BY <1>1, <1>2, <1>3, <1>4
<1>6. ASSUME NEW b \in Askers, b # a, asking'[b].pc = "commit"
      PROVE  /\ asking[b].pc = "commit" /\ ~ asking'[b].alone /\ asking'[b].op = asking[b].op
             /\ asking'[b].client = asking[b].client /\ asking'[b].next = asking[b].next
  <2>1. asking'[b] = IF b \in others THEN [asking[b] EXCEPT !.alone = FALSE] ELSE asking[b]
    BY <1>2, <1>6
  <2>2. b \in others
    BY <1>6, <2>1
  <2> QED
    BY <1>4, <1>6, <2>1, <2>2
<1>7. \A b \in Askers : b # a => AskingOK(b)'
  BY <1>1, <1>6 DEF AskingOK
<1>8. AskingOK(a)'
  <2>1. ActiveNamesakes(next.name)' = ActiveNamesakes(next.name) /\ CodeFor(next.name)' = CodeFor(next.name)
    BY <1>1 DEF ActiveNamesakes, CodeFor, Registered
  <2>2. asking'[a].next = next /\ asking'[a].client = c /\ asking'[a].op = op /\ (asking'[a].alone <=> others = {})
    BY <1>3, <1>5
  <2>3. others = {} => \A b \in Askers : b # a => asking'[b].pc # "commit"
    BY <1>6
  <2>4. ActiveNamesakes(asking[a].next.name)' = ActiveNamesakes(next.name)'
    <3>1. \A n : n = next.name => ActiveNamesakes(n)' = ActiveNamesakes(next.name)'
      OBVIOUS
    <3> QED
      BY <2>2 DEF ActiveNamesakes, Registered
  <2>5. CodeFor(asking[a].next.name)' = CodeFor(next.name)'
    BY <2>2 DEF CodeFor, Registered
  <2> QED
    BY <1>1, <1>5, <2>1, <2>2, <2>3, <2>4, <2>5 DEF AskingOK
<1>9. Unique(client)'
  BY <1>1 DEF Unique
<1> QED
  BY <1>1, <1>5, <1>7, <1>8, <1>9 DEF ClientsInv, ClientsTypeOK

\* A request that ends leaves the others as they were.
LEMMA AskingEnds ==
    ASSUME ClientsInv, NEW a \in Askers, asking[a].pc = "commit", NEW w \in Asking, w.pc # "commit",
           asking' = [asking EXCEPT ![a] = w], client' \in [Clients -> ClientRow], Unique(client'),
           UNCHANGED client \/ asking'[a] = NotAsking
    PROVE  ClientsInv'
<1>1. asking \in [Askers -> Asking] /\ \A b \in Askers : AskingOK(b)
  BY DEF ClientsInv, ClientsTypeOK
<1>2. asking' \in [Askers -> Asking] /\ asking'[a] = w /\ \A b \in Askers : b # a => asking'[b] = asking[b]
  BY <1>1
<1>3. \A b \in Askers : asking'[b].pc = "commit" => b # a /\ asking'[b] = asking[b] /\ ~ asking[b].alone
  BY <1>1, <1>2 DEF AskingOK
<1>4. \A b \in Askers : AskingOK(b)'
  BY <1>1, <1>3 DEF AskingOK
<1> QED
  BY <1>2, <1>4 DEF ClientsInv, ClientsTypeOK

LEMMA ClientsInvStep == ClientsInv /\ [ClientsNext]_clientVars => ClientsInv'
<1> SUFFICES ASSUME ClientsInv, [ClientsNext]_clientVars PROVE ClientsInv'
  OBVIOUS
<1>1. client \in [Clients -> ClientRow] /\ asking \in [Askers -> Asking] /\ Unique(client)
  BY DEF ClientsInv, ClientsTypeOK
<1>2. ASSUME NEW a \in Askers, NEW c \in Clients, AskCreate(a, c)
      PROVE  ClientsInv'
  <2>1. PICK n \in Names, active \in BOOLEAN :
           /\ ActiveNamesakes(n) = {}
           /\ Ask(a, "create", c, [used |-> TRUE, name |-> n, active |-> active, code |-> CodeFor(n)])
    BY <1>2 DEF AskCreate
  <2> DEFINE next == [used |-> TRUE, name |-> n, active |-> active, code |-> CodeFor(n)]
  <2>2. next \in ClientRow /\ next.used /\ next.name = n /\ next.code = CodeFor(n)
    BY CodeForType DEF ClientRow
  <2>3. Ask(a, "create", c, next) /\ ~ client[c].used
    BY <1>2, <2>1 DEF AskCreate
  <2> HIDE DEF next
  <2> QED
    BY <2>1, <2>2, <2>3, AskKept
<1>3. ASSUME NEW a \in Askers, NEW c \in Clients, AskUpdate(a, c)
      PROVE  ClientsInv'
  <2>1. PICK n \in Names, active \in BOOLEAN : Ask(a, "change", c, [client[c] EXCEPT !.name = n, !.active = active])
    BY <1>3 DEF AskUpdate
  <2>2. [client[c] EXCEPT !.name = n, !.active = active] \in ClientRow
    BY <1>1 DEF ClientRow
  <2> QED
    BY <2>1, <2>2, AskKept
<1>4. ASSUME NEW a \in Askers, NEW c \in Clients, AskActivate(a, c)
      PROVE  ClientsInv'
  <2>1. PICK active \in BOOLEAN : Ask(a, "change", c, [client[c] EXCEPT !.active = active])
    BY <1>4 DEF AskActivate
  <2>2. [client[c] EXCEPT !.active = active] \in ClientRow
    BY <1>1 DEF ClientRow
  <2> QED
    BY <2>1, <2>2, AskKept
<1>5. ASSUME NEW a \in Askers, CommitClient(a)
      PROVE  ClientsInv'
  <2> DEFINE w == asking[a]
             line == client[w.client]
             name == Written(line.name, w.seen.name, w.next.name)
             active == Written(line.active, w.seen.active, w.next.active)
  <2>1. w.client \in Clients /\ w \in Asking /\ w.pc = "commit" /\ w.next \in ClientRow /\ line \in ClientRow
    BY <1>1, <1>5 DEF ClientsInv, AskingOK, CommitClient, Asking
  <2>2. name \in Names /\ active \in BOOLEAN
    BY <2>1 DEF Written, ClientRow
  <2>3. [line EXCEPT !.name = name, !.active = active] \in ClientRow
    BY <2>1, <2>2 DEF ClientRow
  <2>4. client' = [client EXCEPT ![w.client] =
                     IF w.op = "create" THEN w.next ELSE [line EXCEPT !.name = name, !.active = active]]
    <3>1. client' = TableAfter(a)
      BY <1>5 DEF CommitClient
    <3>2. TableAfter(a) = [client EXCEPT ![w.client] =
                             IF w.op = "create" THEN w.next ELSE [line EXCEPT !.name = name, !.active = active]]
      BY DEF TableAfter
    <3> QED
      BY <3>1, <3>2
  <2>5. client' \in [Clients -> ClientRow]
    BY <1>1, <2>1, <2>3, <2>4
  <2>6. Unique(client')
    BY <1>5 DEF CommitClient
  <2> QED
    BY <1>1, <1>5, <2>1, <2>5, <2>6, NotAskingType, AskingEnds DEF CommitClient
<1>6. ASSUME NEW a \in Askers, RefuseClient(a)
      PROVE  ClientsInv'
  <2> DEFINE w == IF asking[a].op = "create" THEN [asking[a] EXCEPT !.pc = "refused", !.client = Nowhere] ELSE NotAsking
  <2>1. w \in Asking /\ w.pc # "commit"
    BY <1>1, NotAskingType DEF Asking
  <2>2. asking[a].pc = "commit" /\ asking' = [asking EXCEPT ![a] = w] /\ UNCHANGED client
    BY <1>1, <1>6 DEF RefuseClient
  <2> HIDE DEF w
  <2> QED
    BY <1>1, <2>1, <2>2, AskingEnds
<1>7. ASSUME NEW a \in Askers, FailClient(a)
      PROVE  ClientsInv'
  BY <1>1, <1>7, NotAskingType, AskingEnds DEF FailClient
<1>8. CASE UNCHANGED clientVars
  BY <1>8 DEF clientVars, ClientsInv, ClientsTypeOK, Unique, AskingOK, ActiveNamesakes, CodeFor, Registered
<1> QED
  BY <1>2, <1>3, <1>4, <1>5, <1>6, <1>7, <1>8 DEF ClientsNext

\* The register has no two clients of one name or code, and what a request that overlapped
\* no other looked up still holds when it commits.
THEOREM ClientsTypes == ClientsSpec => []ClientsInv
<1>1. ClientsInit => ClientsInv
  BY ClientsInvInit
<1>2. ClientsInv /\ [ClientsNext]_clientVars => ClientsInv'
  BY ClientsInvStep
<1> QED
  BY <1>1, <1>2, PTL DEF ClientsSpec

LEMMA RefusalHasHolder ==
    ASSUME ClientsInv, NEW a \in Askers, RefuseClient(a), asking[a].op = "create", asking[a].alone
    PROVE  \E c \in HoldersOf(asking[a].next.name) : ~ client[c].active
<1> DEFINE w == asking[a]
<1>1. /\ client \in [Clients -> ClientRow] /\ Unique(client) /\ w.pc = "commit" /\ w.client \in Clients
      /\ ~ client[w.client].used /\ ActiveNamesakes(w.next.name) = {} /\ w.next.code = CodeFor(w.next.name)
  BY DEF ClientsInv, ClientsTypeOK, RefuseClient, AskingOK
<1>2. ~ Unique(TableAfter(a)) /\ TableAfter(a) = [client EXCEPT ![w.client] = w.next]
  BY DEF RefuseClient, TableAfter
<1>3. PICK d \in Clients : /\ d # w.client /\ client[d].used
                           /\ \/ client[d].name = w.next.name
                              \/ w.next.code # Fresh /\ client[d].code = w.next.code
  <2>1. PICK c \in Clients, d \in Clients :
           /\ TableAfter(a)[c].used /\ TableAfter(a)[d].used /\ c # d
           /\ \/ TableAfter(a)[c].name = TableAfter(a)[d].name
              \/ TableAfter(a)[c].code # Fresh /\ TableAfter(a)[c].code = TableAfter(a)[d].code
    BY <1>2 DEF Unique
  <2>2. \A e \in Clients : TableAfter(a)[e] = IF e = w.client THEN w.next ELSE client[e]
    BY <1>1, <1>2
  <2>3. CASE c # w.client /\ d # w.client
    BY <1>1, <2>1, <2>2, <2>3 DEF Unique
  <2>4. CASE c = w.client
    BY <2>1, <2>2, <2>4
  <2>5. CASE d = w.client
    BY <2>1, <2>2, <2>5
  <2> QED
    BY <2>3, <2>4, <2>5
\* No client had the code when it was chosen.
<1>4. ~ (w.next.code # Fresh /\ client[d].code = w.next.code)
  BY <1>1, <1>3 DEF CodeFor, Registered
<1>5. d \in HoldersOf(w.next.name) /\ ~ client[d].active
  BY <1>1, <1>3, <1>4 DEF HoldersOf, ActiveNamesakes, Registered
<1> QED
  BY <1>5

\* A creation that an index refuses, though no other request overlapped it, has run into an
\* inactive client of its very name, as the answer says.
THEOREM RefusedHasHolderAlways == ClientsSpec => RefusedHasHolder
<1> DEFINE Told == \A a \in Askers :
                      asking[a].pc = "commit" /\ asking'[a].pc = "refused" /\ asking[a].alone
                         => \E c \in HoldersOf(asking[a].next.name) : ~ client[c].active
<1>1. ASSUME ClientsInv, ClientsNext PROVE Told
  <2> SUFFICES ASSUME NEW a \in Askers, asking[a].pc = "commit", asking'[a].pc = "refused", asking[a].alone
               PROVE  \E c \in HoldersOf(asking[a].next.name) : ~ client[c].active
    OBVIOUS
  <2>1. asking \in [Askers -> Asking] /\ \A b \in Askers : AskingOK(b)
    BY <1>1 DEF ClientsInv, ClientsTypeOK
  <2>2. ASSUME NEW b \in Askers, NEW c, NEW op, NEW next, Ask(b, op, c, next)
        PROVE  FALSE
    <3>1. asking[b].pc # "commit"
      BY <2>2 DEF Ask
    <3>2. asking'[a].pc = asking[a].pc
      BY <2>1, <2>2, <3>1 DEF Ask, Asking
    <3> QED
      BY <3>2
  <2>3. ASSUME NEW b \in Askers, CommitClient(b) \/ FailClient(b) \/ RefuseClient(b)
        PROVE  b = a
    BY <2>1, <2>3 DEF CommitClient, FailClient, RefuseClient
  <2>4. ~ CommitClient(a) /\ ~ FailClient(a)
    BY <2>1, NotAskingType DEF CommitClient, FailClient
  <2>5. RefuseClient(a)
    BY <1>1, <2>2, <2>3, <2>4 DEF ClientsNext, AskCreate, AskUpdate, AskActivate
  <2>6. asking[a].op = "create"
    BY <2>1, <2>5, NotAskingType DEF RefuseClient
  <2> QED
    BY <1>1, <2>5, <2>6, RefusalHasHolder
<1>2. ASSUME UNCHANGED clientVars PROVE Told
  BY <1>2 DEF clientVars
<1>3. ClientsInv /\ [ClientsNext]_clientVars => [Told]_clientVars
  BY <1>1, <1>2
<1> QED
  BY <1>3, ClientsTypes, PTL DEF ClientsSpec, RefusedHasHolder

-----------------------------------------------------------------------------
(* Paperwork.                                                              *)

\* A request that is under way has a paper in hand.
HandlerOK(h) ==
    IF handler[h].pc = "idle" THEN handler[h] = NoHandler
    ELSE handler[h].paper \in Papers /\ handler[h].next.life # "unused"

\* An inspection that one request at a time has held: the request still sees it as it is,
\* it was told once at most, and then it was completed.
HeldAlone(p) ==
    /\ \A g, h \in Handlers : handler[g].paper = p /\ handler[h].paper = p => g = h
    /\ \A h \in Handlers : handler[h].paper = p =>
          LET w == handler[h] IN
          /\ paper[p].life # "unused"
          /\ w.pc = "commit" => /\ w.seen = paper[p]
                                /\ w.tells => w.next.status = "completed"
                                /\ paper[p].status = "completed" =>
                                      /\ w.next.status = "completed" /\ w.next.data = paper[p].data
                                      /\ ~ w.tells
          /\ w.pc = "tell" => tellings[p] = 0 /\ paper[p].status = "completed"
    /\ tellings[p] \in {0, 1}
    /\ tellings[p] = 1 => paper[p].life # "unused" /\ paper[p].status = "completed"

PaperworkInv ==
    /\ PaperworkTypeOK /\ \A h \in Handlers : HandlerOK(h)
    /\ \A p \in Inspections \ shared : HeldAlone(p)

LEMMA NoHandlerType ==
    UnusedPaper \in PaperRow /\ NoHandler \in Handler /\ NoHandler.pc = "idle" /\ NoHandler.paper \notin Papers
<1>1. MaxText \in Nat /\ Nopaper \notin Papers
  BY PaperworkAssumption DEF PaperworkAssumption
<1>2. UnusedPaper \in PaperRow
  BY <1>1 DEF UnusedPaper, PaperRow, Life
<1> QED
  BY <1>1, <1>2 DEF NoHandler, Handler

LEMMA PaperworkInvInit == PaperworkInit => PaperworkInv
<1> SUFFICES ASSUME PaperworkInit PROVE PaperworkInv
  OBVIOUS
<1>1. \A h \in Handlers : handler[h] = NoHandler
  BY DEF PaperworkInit
<1>2. PaperworkTypeOK
  <2>1. [life |-> "live", status |-> "requested", data |-> 0] \in PaperRow
    BY PaperworkAssumption DEF PaperworkAssumption, PaperRow, Life
  <2> QED
    BY <2>1, NoHandlerType DEF PaperworkInit, PaperworkTypeOK
<1>3. \A h \in Handlers : HandlerOK(h)
  BY <1>1, NoHandlerType DEF HandlerOK
<1>4. \A p \in Inspections : tellings[p] = 0 /\ \A h \in Handlers : handler[h].paper # p
  BY <1>1, NoHandlerType DEF PaperworkInit, Papers
<1>5. \A p \in Inspections \ shared : HeldAlone(p)
  BY <1>4 DEF HeldAlone
<1> QED
  BY <1>2, <1>3, <1>5 DEF PaperworkInv

LEMMA PaperLoaded ==
    ASSUME PaperworkInv, NEW h \in Handlers, NEW p \in Papers, NEW next \in PaperRow, NEW tells \in BOOLEAN,
           LoadPaper(h, p, next, tells), paper[p].life = "live", next.life # "unused",
           tells /\ p \in Inspections => next.status = "completed",
           p \in Inspections /\ paper[p].status = "completed" =>
              next.status = "completed" /\ next.data = paper[p].data /\ ~ tells
    PROVE  PaperworkInv'
<1> DEFINE w == [pc |-> "commit", tells |-> tells, paper |-> p, seen |-> paper[p], next |-> next]
<1>1. /\ paper \in [Papers -> PaperRow] /\ handler \in [Handlers -> Handler] /\ UNCHANGED <<paper, tellings>>
      /\ handler[h] = NoHandler /\ PaperworkTypeOK /\ Inspections \subseteq Papers
      /\ \A g \in Handlers : HandlerOK(g)
  BY DEF PaperworkInv, PaperworkTypeOK, LoadPaper, Papers
<1>2. /\ w \in Handler /\ w.pc = "commit" /\ w.tells = tells /\ w.paper = p /\ w.seen = paper[p] /\ w.next = next
  BY <1>1 DEF Handler
<1>3. /\ handler' = [handler EXCEPT ![h] = w]
      /\ shared' = IF \E g \in Handlers : handler[g].paper = p THEN shared \cup {p} ELSE shared
  BY DEF LoadPaper
<1> HIDE DEF w
<1>4. handler' \in [Handlers -> Handler] /\ handler'[h] = w /\ \A g \in Handlers : g # h => handler'[g] = handler[g]
  BY <1>1, <1>2, <1>3
<1>5. PaperworkTypeOK'
  BY <1>1, <1>3, <1>4 DEF PaperworkTypeOK
<1>6. \A g \in Handlers : HandlerOK(g)'
  BY <1>1, <1>2, <1>4 DEF HandlerOK
<1>7. ASSUME NEW q \in Inspections, q \notin shared'
      PROVE  HeldAlone(q)'
  <2>1. HeldAlone(q) /\ q \notin shared /\ (q = p => \A g \in Handlers : handler[g].paper # p)
    BY <1>3, <1>7 DEF PaperworkInv
  <2>2. CASE q = p
    BY <1>1, <1>2, <1>4, <2>1, <2>2 DEF HeldAlone
  <2>3. CASE q # p
    <3>1. \A g \in Handlers : handler'[g].paper = q => g # h /\ handler'[g] = handler[g]
      BY <1>2, <1>4, <2>3
    <3> QED
      BY <1>1, <2>1, <3>1 DEF HeldAlone
  <2> QED
    BY <2>2, <2>3
<1> QED
  BY <1>5, <1>6, <1>7 DEF PaperworkInv

\* A request lets its paper go.
LEMMA PaperLetGo ==
    ASSUME PaperworkInv, NEW h \in Handlers, handler' = [handler EXCEPT ![h] = NoHandler],
           UNCHANGED <<paper, shared>>, tellings' \in [Papers -> 0 .. 2],
           \A p \in Inspections : \/ tellings'[p] = tellings[p]
                                  \/ handler[h].paper = p /\ handler[h].pc = "tell" /\ tellings'[p] \in {tellings[p] + 1, 2}
                                     /\ (tellings[p] < 2 => tellings'[p] = tellings[p] + 1)
    PROVE  PaperworkInv'
<1>1. /\ PaperworkTypeOK /\ handler \in [Handlers -> Handler] /\ Inspections \subseteq Papers
      /\ \A g \in Handlers : HandlerOK(g)
  BY DEF PaperworkInv, PaperworkTypeOK, Papers
<1>2. handler' \in [Handlers -> Handler] /\ handler'[h] = NoHandler /\ \A g \in Handlers : g # h => handler'[g] = handler[g]
  BY <1>1, NoHandlerType
<1>3. PaperworkTypeOK' /\ \A g \in Handlers : HandlerOK(g)'
  BY <1>1, <1>2, NoHandlerType DEF PaperworkTypeOK, HandlerOK
<1>4. ASSUME NEW q \in Inspections, q \notin shared
      PROVE  HeldAlone(q)'
  <2>1. HeldAlone(q) /\ q \in Papers
    BY <1>1, <1>4 DEF PaperworkInv
  <2>2. \A g \in Handlers : handler'[g].paper = q => g # h /\ handler'[g] = handler[g] /\ handler[g].paper = q
    BY <1>1, <1>2, <2>1, NoHandlerType
  <2>3. CASE tellings'[q] = tellings[q]
    BY <2>1, <2>2, <2>3 DEF HeldAlone
  <2>4. CASE handler[h].paper = q /\ handler[h].pc = "tell" /\ (tellings[q] < 2 => tellings'[q] = tellings[q] + 1)
    <3>1. tellings[q] = 0 /\ tellings'[q] = 1 /\ paper[q].status = "completed" /\ paper[q].life # "unused"
      BY <2>1, <2>4 DEF HeldAlone
    <3>2. \A g \in Handlers : handler'[g].paper # q
      BY <2>1, <2>2, <2>4 DEF HeldAlone
    <3> QED
      BY <3>1, <3>2 DEF HeldAlone
  <2> QED
    BY <1>4, <2>3, <2>4
<1> QED
  BY <1>3, <1>4 DEF PaperworkInv

\* What a commit makes of a paper that one request has held.
LEMMA PaperCommitted ==
    ASSUME PaperworkInv, NEW h \in Handlers, CommitPaper(h)
    PROVE  /\ PaperworkInv'
           /\ \A p \in Inspections \ shared : paper[p].status = "completed" =>
                 paper'[p].status = "completed" /\ paper'[p].data = paper[p].data
<1> DEFINE w == handler[h]
           p == handler[h].paper
           line == [life   |-> Written(paper[p].life, w.seen.life, w.next.life),
                   status |-> Written(paper[p].status, w.seen.status, w.next.status),
                   data   |-> Written(paper[p].data, w.seen.data, w.next.data)]
           new == IF w.tells THEN [w EXCEPT !.pc = "tell"] ELSE NoHandler
<1>1. /\ PaperworkTypeOK /\ paper \in [Papers -> PaperRow] /\ handler \in [Handlers -> Handler]
      /\ Inspections \subseteq Papers /\ w.pc = "commit" /\ UNCHANGED <<tellings, shared>>
      /\ \A g \in Handlers : HandlerOK(g)
  BY DEF PaperworkInv, PaperworkTypeOK, Papers, CommitPaper
<1>2. p \in Papers /\ w.next.life # "unused" /\ w \in Handler /\ w.seen \in PaperRow /\ w.next \in PaperRow /\ paper[p] \in PaperRow
  BY <1>1 DEF HandlerOK, Handler
<1>3. line \in PaperRow
  BY <1>2 DEF PaperRow, Written
<1>4. /\ new \in Handler
      /\ w.tells => new.pc = "tell" /\ new.paper = p /\ new.next = w.next
      /\ ~ w.tells => new = NoHandler
  BY <1>2, NoHandlerType DEF Handler
<1>5. paper' = [paper EXCEPT ![p] = line] /\ handler' = [handler EXCEPT ![h] = new]
  BY DEF CommitPaper
<1>6. /\ w.seen = paper[p] => /\ line.status = w.next.status /\ line.data = w.next.data
                              /\ line.life = w.next.life
  BY <1>2 DEF Written
<1>7. line.life = "unused" => paper[p].life = "unused" \/ w.next.life = "unused"
  BY DEF Written
<1> HIDE DEF line, new
<1>8. /\ paper' \in [Papers -> PaperRow] /\ handler' \in [Handlers -> Handler]
      /\ paper'[p] = line /\ handler'[h] = new
      /\ \A q \in Papers : q # p => paper'[q] = paper[q]
      /\ \A g \in Handlers : g # h => handler'[g] = handler[g]
  BY <1>1, <1>2, <1>3, <1>4, <1>5
<1>9. PaperworkTypeOK' /\ \A g \in Handlers : HandlerOK(g)'
  BY <1>1, <1>2, <1>4, <1>8, NoHandlerType DEF PaperworkTypeOK, HandlerOK
<1>10. ASSUME NEW q \in Inspections, q \notin shared
       PROVE  /\ HeldAlone(q)'
              /\ paper[q].status = "completed" => paper'[q].status = "completed" /\ paper'[q].data = paper[q].data
  <2>1. HeldAlone(q) /\ q \in Papers
    BY <1>1, <1>10 DEF PaperworkInv
  <2>2. CASE q # p
    <3>1. \A g \in Handlers : handler'[g].paper = q => g # h /\ handler'[g] = handler[g]
      BY <1>4, <1>8, <2>1, <2>2, NoHandlerType
    <3>2. paper'[q] = paper[q]
      BY <1>8, <2>1, <2>2
    <3> QED
      BY <1>1, <2>1, <3>1, <3>2 DEF HeldAlone
  <2>3. CASE q = p
    <3>1. /\ \A g \in Handlers : handler[g].paper = p => g = h
          /\ w.seen = paper[p] /\ paper[p].life # "unused"
          /\ w.tells => w.next.status = "completed"
          /\ paper[p].status = "completed" =>
                w.next.status = "completed" /\ w.next.data = paper[p].data /\ ~ w.tells
          /\ tellings[p] \in {0, 1} /\ (tellings[p] = 1 => paper[p].status = "completed")
      BY <1>1, <2>1, <2>3 DEF HeldAlone
    <3>2. /\ line.status = w.next.status /\ line.data = w.next.data /\ line.life # "unused"
      BY <1>2, <1>6, <3>1
    <3>3. \A g \in Handlers : handler'[g].paper = q => g = h /\ w.tells
      BY <1>4, <1>8, <2>1, <2>3, <3>1, NoHandlerType
    <3>4. tellings[q] = 1 => line.status = "completed"
      BY <2>3, <3>1, <3>2
    <3>5. w.tells => tellings[q] = 0 /\ line.status = "completed"
      BY <2>3, <3>1, <3>2
    <3>6. HeldAlone(q)'
      BY <1>1, <1>4, <1>8, <2>3, <3>1, <3>2, <3>3, <3>4, <3>5 DEF HeldAlone
    <3> QED
      BY <1>8, <2>3, <3>1, <3>2, <3>6
  <2> QED
    BY <2>2, <2>3
<1> QED
  BY <1>1, <1>9, <1>10 DEF PaperworkInv

LEMMA PaperworkInvStep == PaperworkInv /\ [PaperworkNext]_paperVars => PaperworkInv'
<1> SUFFICES ASSUME PaperworkInv, [PaperworkNext]_paperVars PROVE PaperworkInv'
  OBVIOUS
<1>1. /\ PaperworkTypeOK /\ paper \in [Papers -> PaperRow] /\ handler \in [Handlers -> Handler]
      /\ tellings \in [Papers -> 0 .. 2] /\ \A h \in Handlers : HandlerOK(h)
  BY DEF PaperworkInv, PaperworkTypeOK
<1>2. ASSUME NEW p \in Papers, CreateInspection(p)
      PROVE  PaperworkInv'
  <2>1. PICK status \in {"draft", "completed"}, n \in 0 .. MaxText :
           paper' = [paper EXCEPT ![p] = [life |-> "live", status |-> status, data |-> n]]
    BY <1>2 DEF CreateInspection
  <2>2. [life |-> "live", status |-> status, data |-> n] \in PaperRow
    BY DEF PaperRow, Life
  <2>3. paper[p].life = "unused" /\ UNCHANGED <<handler, tellings, shared>>
    BY <1>2 DEF CreateInspection
  <2>4. paper' \in [Papers -> PaperRow] /\ \A q \in Papers : q # p => paper'[q] = paper[q]
    BY <1>1, <2>1, <2>2
  <2>5. ASSUME NEW q \in Inspections, q \notin shared
        PROVE  HeldAlone(q)'
    <3>1. HeldAlone(q) /\ q \in Papers
      BY <2>5 DEF PaperworkInv, Papers
    <3>2. q = p => tellings[q] = 0 /\ \A h \in Handlers : handler[h].paper # q
      BY <2>3, <3>1 DEF HeldAlone
    <3> QED
      BY <2>3, <2>4, <3>1, <3>2 DEF HeldAlone
  <2>6. PaperworkTypeOK' /\ \A h \in Handlers : HandlerOK(h)'
    BY <1>1, <2>3, <2>4 DEF PaperworkTypeOK, HandlerOK
  <2> QED
    BY <2>3, <2>5, <2>6 DEF PaperworkInv
<1>3. ASSUME NEW h \in Handlers, NEW p \in Papers, ServePaper(h, p)
      PROVE  PaperworkInv'
  <2>0. paper[p] \in PaperRow
    BY <1>1
  <2>1. CASE LoadEdit(h, p)
    <3>1. PICK n \in 0 .. MaxText, status \in {"draft", "completed"} :
             LoadPaper(h, p, [paper[p] EXCEPT !.data = n,
                                              !.status = IF p \in Inspections THEN status ELSE @], FALSE)
      BY <2>1 DEF LoadEdit
    <3> DEFINE new == IF p \in Inspections THEN status ELSE paper[p].status
               next == [paper[p] EXCEPT !.data = n, !.status = new]
    <3>2. LoadPaper(h, p, next, FALSE) /\ paper[p].life = "live" /\ paper[p].status # "completed"
      BY <2>1, <3>1 DEF LoadEdit, OpenPaper
    <3>3. next \in PaperRow /\ next.life = paper[p].life
      BY <2>0 DEF PaperRow
    <3> HIDE DEF next
    <3> QED
      BY <3>2, <3>3, PaperLoaded
  <2>2. CASE LoadSettle(h, p)
    <3> DEFINE new == IF p \in Inspections THEN "completed" ELSE "rejected"
               next == [paper[p] EXCEPT !.status = new]
    <3>1. LoadPaper(h, p, next, TRUE) /\ paper[p].life = "live" /\ paper[p].status # "completed"
      BY <2>2 DEF LoadSettle, OpenPaper
    <3>2. next \in PaperRow /\ next.life = paper[p].life /\ next.status = new
      BY <2>0 DEF PaperRow
    <3> HIDE DEF next
    <3> QED
      BY <3>1, <3>2, PaperLoaded
  <2>3. CASE LoadDelete(h, p)
    <3> DEFINE next == SoftDeleted(paper[p])
    <3>1. LoadPaper(h, p, next, FALSE) /\ paper[p].life = "live"
      BY <2>3 DEF LoadDelete
    <3>2. /\ next \in PaperRow /\ next.life = "deleted" /\ next.status = paper[p].status
          /\ next.data = paper[p].data
      BY <2>0 DEF PaperRow, SoftDeleted, Life
    <3> HIDE DEF next
    <3> QED
      BY <3>1, <3>2, PaperLoaded
  <2> QED
    BY <1>3, <2>1, <2>2, <2>3 DEF ServePaper
<1>4. ASSUME NEW h \in Handlers, Tell(h)
      PROVE  PaperworkInv'
  <2> DEFINE p == handler[h].paper
             n == IF tellings[p] = 2 THEN 2 ELSE tellings[p] + 1
  <2>1. /\ handler[h].pc = "tell" /\ tellings' = [tellings EXCEPT ![p] = n]
        /\ handler' = [handler EXCEPT ![h] = NoHandler] /\ UNCHANGED <<paper, shared>>
    BY <1>4 DEF Tell
  <2>2. p \in Papers /\ n \in 0 .. 2 /\ tellings[p] \in 0 .. 2
    BY <1>1, <2>1 DEF HandlerOK
  <2>3. tellings' \in [Papers -> 0 .. 2] /\ tellings'[p] = n /\ \A q \in Papers : q # p => tellings'[q] = tellings[q]
    BY <1>1, <2>1, <2>2
  <2>4. n \in {tellings[p] + 1, 2} /\ (tellings[p] < 2 => n = tellings[p] + 1)
    BY <2>2
  <2>5. Inspections \subseteq Papers
    BY DEF Papers
  <2> HIDE DEF n
  <2> QED
    BY <2>1, <2>2, <2>3, <2>4, <2>5, PaperLetGo
<1>5. ASSUME NEW h \in Handlers, FailPaper(h)
      PROVE  PaperworkInv'
  BY <1>1, <1>5, PaperLetGo DEF FailPaper
<1>6. CASE UNCHANGED paperVars
  BY <1>6 DEF paperVars, PaperworkInv, PaperworkTypeOK, HandlerOK, HeldAlone
<1> QED
  BY <1>2, <1>3, <1>4, <1>5, <1>6, PaperCommitted DEF PaperworkNext

\* The papers and the requests keep their types, and a request that has a paper to itself still
\* sees it as it is; of an inspection nobody was told but when it was completed.
THEOREM PaperworkTypes == PaperworkSpec => []PaperworkInv
<1>1. PaperworkInit => PaperworkInv
  BY PaperworkInvInit
<1>2. PaperworkInv /\ [PaperworkNext]_paperVars => PaperworkInv'
  BY PaperworkInvStep
<1> QED
  BY <1>1, <1>2, PTL DEF PaperworkSpec

\* An inspection that is completed stays as it is and is told at most once, whatever fails
\* and is tried again, unless two requests have held it at the same time.
THEOREM CompletedOnceAlways == PaperworkSpec => CompletedOnce
<1> DEFINE Kept == \A p \in Inspections \ shared' :
                      paper[p].life = "live" /\ paper[p].status = "completed"
                         => /\ paper'[p].status = "completed" /\ paper'[p].data = paper[p].data
                            /\ tellings'[p] <= 1
<1>1. ASSUME PaperworkInv, PaperworkInv', PaperworkNext PROVE Kept
  <2> SUFFICES ASSUME NEW p \in Inspections, p \notin shared', paper[p].life = "live", paper[p].status = "completed"
               PROVE  paper'[p].status = "completed" /\ paper'[p].data = paper[p].data /\ tellings'[p] <= 1
    OBVIOUS
  <2>1. tellings'[p] <= 1
    <3>1. HeldAlone(p)'
      BY <1>1 DEF PaperworkInv
    <3> QED
      BY <3>1 DEF HeldAlone
  <2>2. p \in Papers /\ paper \in [Papers -> PaperRow]
    BY <1>1 DEF Papers, PaperworkInv, PaperworkTypeOK
  <2>3. ASSUME NEW h \in Handlers, CommitPaper(h)
        PROVE  paper'[p].status = "completed" /\ paper'[p].data = paper[p].data
    <3>1. p \notin shared
      BY <2>3 DEF CommitPaper
    <3> QED
      BY <1>1, <2>3, <3>1, PaperCommitted
  <2>4. ASSUME NEW q \in Papers, CreateInspection(q)
        PROVE  UNCHANGED paper[p]
    <3>1. q # p
      BY <2>4 DEF CreateInspection
    <3> QED
      BY <2>2, <2>4, <3>1 DEF CreateInspection
  <2>5. ASSUME NEW h \in Handlers, Tell(h) \/ FailPaper(h) \/ \E q \in Papers : ServePaper(h, q)
        PROVE  UNCHANGED paper
    BY <2>5 DEF Tell, FailPaper, ServePaper, LoadEdit, LoadSettle, LoadDelete, LoadPaper
  <2> QED
    BY <1>1, <2>1, <2>3, <2>4, <2>5 DEF PaperworkNext
<1>2. ASSUME PaperworkInv, UNCHANGED paperVars PROVE [Kept]_paperVars
  BY <1>2
<1>3. PaperworkInv /\ PaperworkInv' /\ [PaperworkNext]_paperVars => [Kept]_paperVars
  BY <1>1, <1>2
<1> QED
  BY <1>3, PaperworkTypes, PTL DEF PaperworkSpec, CompletedOnce

-----------------------------------------------------------------------------
(* HostedSite.                                                             *)

\* A sheet: some questions answered, and a list of cabinets the schema accepts.
Sheet ==
    [header : SUBSET HeaderFields, checks : UNION {[D -> SiteCheckItem] : D \in SUBSET CheckKeys},
     power : [Blocks -> PowerBlock], cabinets : Seq({c \in CabinetInspection : ValidCabinet(c)}),
     extras : Seq(ExtraSection)]

SheetOK == sheet \in Sheet

LEMMA BlankSheetType == BlankSheet \in Sheet
<1>1. [key \in {} |-> 0] \in UNION {[D -> SiteCheckItem] : D \in SUBSET CheckKeys}
  <2>1. [key \in {} |-> 0] \in [{} -> SiteCheckItem]
    OBVIOUS
  <2>2. {} \in SUBSET CheckKeys
    OBVIOUS
  <2> QED
    BY <2>1, <2>2
<1>2. [b \in Blocks |-> [status |-> "no", filled |-> FALSE]] \in [Blocks -> PowerBlock]
  BY DEF PowerBlock, Answers3
<1>3. <<>> \in Seq({c \in CabinetInspection : ValidCabinet(c)}) /\ <<>> \in Seq(ExtraSection)
  OBVIOUS
<1> QED
  BY <1>1, <1>2, <1>3 DEF BlankSheet, Sheet

LEMMA SheetTypes == SheetOK => HostedTypeOK
<1> SUFFICES ASSUME SheetOK PROVE HostedTypeOK
  OBVIOUS
<1>1. /\ sheet.header \subseteq HeaderFields /\ sheet.power \in [Blocks -> PowerBlock]
      /\ sheet.cabinets \in Seq({c \in CabinetInspection : ValidCabinet(c)})
      /\ sheet.extras \in Seq(ExtraSection)
  BY DEF SheetOK, Sheet
<1>2. PICK D \in SUBSET CheckKeys : sheet.checks \in [D -> SiteCheckItem]
  BY DEF SheetOK, Sheet
<1>3. DOMAIN sheet.checks \subseteq CheckKeys /\ \A key \in DOMAIN sheet.checks : sheet.checks[key] \in SiteCheckItem
  BY <1>2
<1>4. \A i \in DOMAIN sheet.cabinets : sheet.cabinets[i] \in {c \in CabinetInspection : ValidCabinet(c)}
  BY <1>1
<1>5. \A i \in DOMAIN sheet.extras : sheet.extras[i] \in ExtraSection
  BY <1>1
<1> QED
  BY <1>1, <1>3, <1>4, <1>5 DEF HostedTypeOK

LEMMA SheetStep == SheetOK /\ [HostedNext]_hostedVars => SheetOK'
<1> SUFFICES ASSUME SheetOK, [HostedNext]_hostedVars PROVE SheetOK'
  OBVIOUS
<1> DEFINE Checks == UNION {[D -> SiteCheckItem] : D \in SUBSET CheckKeys}
           Cabinets == {c \in CabinetInspection : ValidCabinet(c)}
<1>0. /\ sheet.header \subseteq HeaderFields /\ sheet.power \in [Blocks -> PowerBlock]
      /\ sheet.cabinets \in Seq(Cabinets)
      /\ sheet.checks \in Checks /\ sheet.extras \in Seq(ExtraSection) /\ sheet \in Sheet
  BY DEF SheetOK, Sheet
<1>1. CASE SaveDetails
  BY <1>0, <1>1 DEF SaveDetails, SheetOK, Sheet
<1>2. ASSUME NEW key \in CheckKeys, SaveCheck(key)
      PROVE  SheetOK'
  <2>1. PICK item \in SiteCheckItem :
           sheet' = [sheet EXCEPT !.checks = [k \in DOMAIN sheet.checks \cup {key} |->
                                                IF k = key THEN item ELSE sheet.checks[k]]]
    BY <1>2 DEF SaveCheck
  <2> DEFINE checks == [k \in DOMAIN sheet.checks \cup {key} |-> IF k = key THEN item ELSE sheet.checks[k]]
  <2>2. checks \in Checks
    <3>1. PICK D \in SUBSET CheckKeys : sheet.checks \in [D -> SiteCheckItem]
      BY <1>0
    <3>2. checks \in [D \cup {key} -> SiteCheckItem]
      BY <3>1
    <3>3. D \cup {key} \in SUBSET CheckKeys
      OBVIOUS
    <3> QED
      BY <3>2, <3>3
  <2>3. sheet' = [sheet EXCEPT !.checks = checks]
    BY <2>1
  <2> HIDE DEF checks, Checks
  <2> QED
    BY <1>0, <2>2, <2>3 DEF SheetOK, Sheet, Checks
<1>3. ASSUME NEW b \in Blocks, SavePower(b)
      PROVE  SheetOK'
  <2>1. PICK block \in PowerBlock : sheet' = [sheet EXCEPT !.power = [sheet.power EXCEPT ![b] = block]]
    BY <1>3 DEF SavePower
  <2>2. [sheet.power EXCEPT ![b] = block] \in [Blocks -> PowerBlock]
    BY <1>0
  <2> QED
    BY <1>0, <2>1, <2>2 DEF SheetOK, Sheet
<1>4. ASSUME SaveCabinets
      PROVE  SheetOK'
  <2> DEFINE n == Len(sheet.cabinets)
  <2>1. n \in Nat /\ DOMAIN sheet.cabinets = 1 .. n /\ \A j \in 1 .. n : sheet.cabinets[j] \in Cabinets
    BY <1>0
  <2>2. ASSUME NEW cabinets \in Seq(Cabinets), sheet' = [sheet EXCEPT !.cabinets = cabinets]
        PROVE  SheetOK'
    BY <1>0, <2>2 DEF SheetOK, Sheet
  <2>3. ASSUME NEW c \in CabinetInspection, NEW i \in 1 .. n + 1, ValidCabinet(c),
               sheet' = [sheet EXCEPT !.cabinets = [j \in 1 .. (IF i > n THEN i ELSE n) |->
                                                      IF j = i THEN c ELSE sheet.cabinets[j]]]
        PROVE  SheetOK'
    <3> DEFINE m == IF i > n THEN i ELSE n
               cabinets == [j \in 1 .. m |-> IF j = i THEN c ELSE sheet.cabinets[j]]
    <3>1. m \in Nat /\ \A j \in 1 .. m : j = i \/ j \in 1 .. n
      BY <2>1
    <3>2. \A j \in 1 .. m : (IF j = i THEN c ELSE sheet.cabinets[j]) \in Cabinets
      BY <2>1, <2>3, <3>1
    <3>3. sheet' = [sheet EXCEPT !.cabinets = cabinets]
      BY <2>3
    <3> HIDE DEF m
    <3>4. cabinets \in [1 .. m -> Cabinets]
      BY <3>2
    <3>5. cabinets \in Seq(Cabinets)
      BY <3>1, <3>4
    <3> HIDE DEF cabinets, Cabinets
    <3> QED
      BY <2>2, <3>3, <3>5
  <2>4. ASSUME n > 0, sheet' = [sheet EXCEPT !.cabinets = SubSeq(sheet.cabinets, 1, n - 1)]
        PROVE  SheetOK'
    <3>1. SubSeq(sheet.cabinets, 1, n - 1) \in Seq(Cabinets)
      BY <1>0, <2>1, <2>4
    <3> QED
      BY <2>2, <2>4, <3>1
  <2> QED
    BY <1>4, <2>3, <2>4 DEF SaveCabinets
<1>5. ASSUME SaveExtras
      PROVE  SheetOK'
  <2>1. PICK extras \in ListsUpTo(ExtraSection, MaxExtras) : sheet' = [sheet EXCEPT !.extras = extras]
    BY <1>5 DEF SaveExtras
  <2>2. extras \in Seq(ExtraSection)
    BY HostedSiteAssumption DEF ListsUpTo, HostedSiteAssumption
  <2> QED
    BY <1>0, <2>1, <2>2 DEF SheetOK, Sheet
<1>6. CASE UNCHANGED hostedVars
  BY <1>6 DEF hostedVars, SheetOK
<1> QED
  BY <1>1, <1>2, <1>3, <1>4, <1>5, <1>6 DEF HostedNext

\* A sheet holds a header and rows and sections that are dictionaries or none, filled in or blank, as
\* the routes write them.
THEOREM HostedTypes == HostedSpec => []SheetOK
<1>1. HostedInit => SheetOK
  BY BlankSheetType DEF HostedInit, SheetOK
<1>2. SheetOK /\ [HostedNext]_hostedVars => SheetOK'
  BY SheetStep
<1> QED
  BY <1>1, <1>2, PTL DEF HostedSpec

\* A cabinet the progress counts as done lacks nothing, and the other way round.
LEMMA CabinetGaps == \A c \in CabinetInspection : CabinetDone(c) <=> Lacks(c) = {}
<1> SUFFICES ASSUME NEW c \in CabinetInspection PROVE CabinetDone(c) <=> Lacks(c) = {}
  OBVIOUS
<1>1. /\ "location" \in Lacks(c) <=> ~ c.location
      /\ "alarm_note" \in Lacks(c) <=> c.alarms = "yes" /\ ~ c.note
      /\ "pdu_photo" \in Lacks(c) <=> ~ c.pdu
      /\ "cabinet_photo" \in Lacks(c) <=> ~ c.front
  BY DEF Lacks
<1>2. \A f \in Lacks(c) : f \in {"location", "alarm_note", "pdu_photo", "cabinet_photo"}
  BY DEF Lacks
<1>3. CabinetDone(c) <=> "location" \notin Lacks(c) /\ "alarm_note" \notin Lacks(c) /\ "pdu_photo" \notin Lacks(c)
                         /\ "cabinet_photo" \notin Lacks(c)
  BY <1>1 DEF CabinetDone, CabinetInspection
<1> HIDE DEF Lacks
<1> QED
  BY <1>2, <1>3

LEMMA SectionGaps ==
    ASSUME SheetOK, NEW s \in Sections
    PROVE  Complete(s) <=> Missing(s) = {}
<1>1. /\ sheet.header \subseteq HeaderFields /\ sheet.power \in [Blocks -> PowerBlock]
      /\ sheet.cabinets \in Seq({c \in CabinetInspection : ValidCabinet(c)})
      /\ DOMAIN sheet.checks \subseteq CheckKeys
      /\ \A key \in DOMAIN sheet.checks : sheet.checks[key] \in SiteCheckItem
  BY SheetTypes DEF SheetOK, Sheet, HostedTypeOK
<1>2. CASE s = "details"
  BY <1>1, <1>2 DEF Complete, Missing
<1>3. CASE s = "site_checks"
  <2>1. Missing(s) = MissingChecks /\ (Complete(s) <=> \A key \in CheckKeys : CheckDone(key))
    BY <1>3 DEF Missing, Complete
  <2>2. ASSUME \A key \in CheckKeys : CheckDone(key)
        PROVE  MissingChecks = {}
    <3>1. CheckKeys \ DOMAIN sheet.checks = {}
      BY <2>2 DEF CheckDone
    <3>2. {k \in DOMAIN sheet.checks : sheet.checks[k].status = BadWhen(k) /\ ~ sheet.checks[k].issue} = {}
      BY <1>1, <2>2 DEF CheckDone
    <3> QED
      BY <3>1, <3>2 DEF MissingChecks
  <2>3. ASSUME MissingChecks = {}, NEW key \in CheckKeys
        PROVE  CheckDone(key)
    <3>1. key \in DOMAIN sheet.checks
      <4>1. key \notin DOMAIN sheet.checks => <<key, "status">> \in MissingChecks
        BY DEF MissingChecks
      <4> QED
        BY <2>3, <4>1
    <3>2. ~ (sheet.checks[key].status = BadWhen(key) /\ ~ sheet.checks[key].issue)
      <4>1. sheet.checks[key].status = BadWhen(key) /\ ~ sheet.checks[key].issue => <<key, "issue">> \in MissingChecks
        BY <3>1 DEF MissingChecks
      <4> QED
        BY <2>3, <4>1
    <3> QED
      BY <3>1, <3>2 DEF CheckDone
  <2> QED
    BY <2>1, <2>2, <2>3
<1>4. CASE s = "power_readings"
  <2>1. \A b \in Blocks : PowerBlockDone(sheet.power[b]) <=> ~ (sheet.power[b].status = "yes" /\ ~ sheet.power[b].filled)
    BY DEF PowerBlockDone
  <2>2. /\ Missing(s) = {b \in Blocks : sheet.power[b].status = "yes" /\ ~ sheet.power[b].filled}
        /\ Complete(s) <=> \A b \in Blocks : PowerBlockDone(sheet.power[b])
    BY <1>4 DEF Missing, Complete
  <2> QED
    BY <2>1, <2>2
<1>5. CASE s = "cabinets"
  <2>1. /\ Missing(s) = MissingInCabinets
        /\ Complete(s) <=> /\ Len(sheet.cabinets) > 0
                           /\ \A i \in DOMAIN sheet.cabinets : CabinetDone(sheet.cabinets[i])
    BY <1>5 DEF Missing, Complete
  <2>2. CASE sheet.cabinets = <<>>
    <3>1. MissingInCabinets = {<<0, "empty">>} /\ Len(sheet.cabinets) = 0
      BY <2>2 DEF MissingInCabinets
    <3>2. {<<0, "empty">>} # {} /\ ~ (0 > 0)
      OBVIOUS
    <3> QED
      BY <2>1, <3>1, <3>2
  <2>3. CASE sheet.cabinets # <<>>
    <3>1. Len(sheet.cabinets) > 0
      BY <1>1, <2>3
    <3>2. \A i \in DOMAIN sheet.cabinets : CabinetDone(sheet.cabinets[i]) <=> Lacks(sheet.cabinets[i]) = {}
      <4>1. \A i \in DOMAIN sheet.cabinets : sheet.cabinets[i] \in CabinetInspection
        BY <1>1
      <4> QED
        BY <4>1, CabinetGaps
    <3>3. MissingInCabinets = UNION {{<<i, f>> : f \in Lacks(sheet.cabinets[i])} : i \in DOMAIN sheet.cabinets}
      BY <2>3 DEF MissingInCabinets
    <3>4. MissingInCabinets = {} <=> \A i \in DOMAIN sheet.cabinets : Lacks(sheet.cabinets[i]) = {}
      <4>1. ASSUME MissingInCabinets = {}, NEW i \in DOMAIN sheet.cabinets, NEW f \in Lacks(sheet.cabinets[i])
            PROVE  FALSE
        <5>1. <<i, f>> \in {<<i, g>> : g \in Lacks(sheet.cabinets[i])}
          BY <4>1
        <5>2. {<<i, g>> : g \in Lacks(sheet.cabinets[i])} \subseteq MissingInCabinets
          BY <3>3
        <5> QED
          BY <4>1, <5>1, <5>2
      <4>2. ASSUME \A i \in DOMAIN sheet.cabinets : Lacks(sheet.cabinets[i]) = {}
            PROVE  MissingInCabinets = {}
        BY <3>3, <4>2
      <4> QED
        BY <4>1, <4>2
    <3> QED
      BY <2>1, <3>1, <3>2, <3>4
  <2> QED
    BY <2>2, <2>3
<1>6. CASE s = "extra_sections"
  <2>1. /\ Missing(s) = {i \in DOMAIN sheet.extras : ~ (sheet.extras[i].label /\ sheet.extras[i].photos)}
        /\ Complete(s) <=> \A i \in DOMAIN sheet.extras : sheet.extras[i].label /\ sheet.extras[i].photos
    BY <1>6 DEF Missing, Complete
  <2> QED
    BY <2>1
<1>7. CASE s = "other_issues"
  BY <1>7 DEF Missing, Complete
<1> QED
  BY <1>2, <1>3, <1>4, <1>5, <1>6, <1>7 DEF Sections, RequiredSections

\* The progress of a sheet and the list of its gaps, computed apart, agree on every section
\* and on how many are done, for sheets of any length.
THEOREM ProgressMatchesGapsAlways == HostedSpec => []ProgressMatchesGaps
<1>1. SheetOK => ProgressMatchesGaps
  <2> SUFFICES ASSUME SheetOK PROVE ProgressMatchesGaps
    OBVIOUS
  <2>1. \A s \in Sections : Complete(s) <=> Missing(s) = {}
    BY SectionGaps
  <2>2. {s \in RequiredSections : Complete(s)} = {s \in RequiredSections : Missing(s) = {}}
    BY <2>1 DEF Sections
  <2>3. CompletedCount = Cardinality({s \in RequiredSections : Missing(s) = {}})
    BY <2>2 DEF CompletedCount
  <2> QED
    BY <2>1, <2>3 DEF ProgressMatchesGaps
<1> QED
  BY <1>1, HostedTypes, PTL

-----------------------------------------------------------------------------
(* Inbox.                                                                  *)

\* The notices that came after a request began.
Since(r) == {n \in Delivered : inbox[n].arrived > opening[r].at}

\* A request: it looked at notices its user may open that had come by then, and what it is to
\* mark is all that was unread; what it told is stored.
OpeningOK(r) ==
    LET w == opening[r] IN
    /\ w.at <= Cardinality(Delivered)
    /\ w.pc \in {"telling", "known"} => w.op = "send"
    /\ w.pc = "opened" => w.op \in {"read", "delete"}
    /\ w.pc \in {"opened", "commit"} =>
          /\ w.op # "send"
          /\ \A n \in w.found : /\ n \in Delivered /\ inbox[n].arrived <= w.at
                                /\ w.by = inbox[n].owner \/ w.by \in Chiefs
    /\ w.pc = "commit" /\ w.op = "all" =>
          \A n \in Unread(w.whose) : n \in w.found \/ inbox[n].arrived > w.at
    /\ w.pc = "answered" /\ w.op = "all" => \A n \in Unread(w.whose) : inbox[n].arrived > w.at
    /\ w.op = "send" => w.sent <= Cardinality(Since(r))

NoticeOK(n) ==
    /\ n \in Delivered => inbox[n].arrived <= Cardinality(Delivered)
    /\ n \notin Delivered => inbox[n].by = NoReader
    /\ inbox[n].by # NoReader =>
          (inbox[n].by = inbox[n].owner \/ inbox[n].by \in Chiefs) /\ inbox[n].arrived <= inbox[n].seen

InboxInv == InboxTypeOK /\ (\A n \in Notices : NoticeOK(n)) /\ \A r \in Openers : OpeningOK(r)

\* A step that delivers, marks or deletes notices, and takes none back.
Grows ==
    /\ Delivered \subseteq Delivered' /\ Cardinality(Delivered) <= Cardinality(Delivered')
    /\ \A n \in Delivered : /\ inbox'[n].arrived = inbox[n].arrived /\ inbox'[n].owner = inbox[n].owner
                            /\ \A u : n \in Unread(u)' => n \in Unread(u)
    /\ \A n \in Delivered' : n \in Delivered \/ inbox'[n].arrived > Cardinality(Delivered)

LEMMA InboxCounts ==
    ASSUME NEW S \in SUBSET Notices
    PROVE  IsFiniteSet(S) /\ Cardinality(S) \in Nat /\ Cardinality(S) \in Deliveries
<1>1. IsFiniteSet(Notices)
  BY InboxAssumption DEF InboxAssumption
<1>2. IsFiniteSet(S) /\ Cardinality(S) <= Cardinality(Notices)
  BY <1>1, FS_Subset
<1>3. Cardinality(S) \in Nat /\ Cardinality(Notices) \in Nat
  BY <1>1, <1>2, FS_CardinalityType
<1> QED
  BY <1>2, <1>3 DEF Deliveries

LEMMA InboxRanges ==
    ASSUME InboxTypeOK
    PROVE  /\ Delivered \in SUBSET Notices /\ IsFiniteSet(Delivered) /\ Cardinality(Delivered) \in Deliveries
           /\ Cardinality(Delivered) \in Nat /\ Deliveries \subseteq Nat
           /\ \A n \in Notices : inbox[n].arrived \in Nat
           /\ \A r \in Openers : opening[r] \in Opening /\ opening[r].at \in Nat /\ opening[r].sent \in Nat
           /\ \A u : Unread(u) \subseteq Delivered
<1>1. Delivered \in SUBSET Notices /\ Deliveries \subseteq Nat /\ \A u : Unread(u) \subseteq Delivered
  BY DEF Delivered, Deliveries, Unread
<1>2. \A n \in Notices : inbox[n].arrived \in Deliveries
  BY DEF InboxTypeOK, NoticeRow
<1>3. \A r \in Openers : opening[r] \in Opening /\ opening[r].at \in Deliveries /\ opening[r].sent \in Deliveries
  BY DEF InboxTypeOK, Opening
<1> QED
  BY <1>1, <1>2, <1>3, InboxCounts

\* What holds of a request goes on holding while it waits.
LEMMA OpeningWaits ==
    ASSUME InboxTypeOK, InboxTypeOK', Grows, NEW r \in Openers, OpeningOK(r), opening'[r] = opening[r]
    PROVE  OpeningOK(r)'
<1> DEFINE w == opening[r]
<1>1. /\ Cardinality(Delivered) \in Nat /\ w.at \in Nat /\ w.sent \in Nat /\ w \in Opening
      /\ \A n \in Notices : inbox[n].arrived \in Nat
      /\ Delivered \subseteq Notices /\ \A u : Unread(u) \subseteq Delivered
  BY InboxRanges
<1>2. Cardinality(Delivered)' \in Nat /\ Delivered' \in SUBSET Notices /\ \A n \in Notices : inbox'[n].arrived \in Nat
  <2>1. Delivered' \in SUBSET Notices
    BY DEF Delivered
  <2>2. \A n \in Notices : inbox'[n].arrived \in Nat
    BY DEF InboxTypeOK, NoticeRow, Deliveries
  <2> QED
    BY <2>1, <2>2, InboxCounts
<1>3. w.at <= Cardinality(Delivered') /\ w.at <= Cardinality(Delivered)
  BY <1>1, <1>2 DEF Grows, OpeningOK
<1>4. \A u : \A n \in Unread(u)' : n \in Unread(u) \/ inbox'[n].arrived > w.at
  <2> SUFFICES ASSUME NEW u, NEW n \in Unread(u)', n \notin Unread(u)
               PROVE  inbox'[n].arrived > w.at
    OBVIOUS
  <2>1. n \in Delivered' /\ n \notin Delivered /\ n \in Notices
    BY DEF Grows, Unread, Delivered
  <2>2. inbox'[n].arrived > Cardinality(Delivered)
    BY <2>1 DEF Grows
  <2> QED
    BY <1>1, <1>2, <1>3, <2>1, <2>2
<1>5. \A u : \A n \in Unread(u)' : n \in Unread(u) => inbox'[n].arrived = inbox[n].arrived
  BY <1>1 DEF Grows
<1>6. /\ Since(r) \subseteq Since(r)'
      /\ w.op = "send" => w.sent <= Cardinality(Since(r)')
  <2>1. Since(r) \subseteq Since(r)'
    BY DEF Since, Grows
  <2>2. Since(r)' \in SUBSET Notices /\ Since(r) \in SUBSET Notices
    BY <1>1, <1>2 DEF Since
  <2>3. /\ IsFiniteSet(Since(r)') /\ Cardinality(Since(r)') \in Nat /\ Cardinality(Since(r)) \in Nat
    BY <2>2, InboxCounts
  <2>4. Cardinality(Since(r)) <= Cardinality(Since(r)')
    BY <2>1, <2>3, FS_Subset
  <2>5. w.op = "send" => w.sent <= Cardinality(Since(r))
    BY DEF OpeningOK
  <2> QED
    BY <1>1, <2>1, <2>3, <2>4, <2>5
<1>7. w.pc \in {"opened", "commit"} =>
          \A n \in w.found : /\ n \in Delivered' /\ inbox'[n].arrived <= w.at
                             /\ w.by = inbox'[n].owner \/ w.by \in Chiefs
  <2>1. w.pc \in {"opened", "commit"} =>
          \A n \in w.found : /\ n \in Delivered /\ inbox[n].arrived <= w.at
                             /\ w.by = inbox[n].owner \/ w.by \in Chiefs
    BY DEF OpeningOK
  <2>2. \A n \in Delivered : /\ n \in Delivered' /\ inbox'[n].arrived = inbox[n].arrived
                             /\ inbox'[n].owner = inbox[n].owner
    BY DEF Grows
  <2> QED
    BY <2>1, <2>2
<1>8. w.pc = "commit" /\ w.op = "all" =>
          \A n \in Unread(opening[r].whose)' : n \in w.found \/ inbox'[n].arrived > w.at
  <2> SUFFICES ASSUME w.pc = "commit", w.op = "all", NEW u, u = w.whose
               PROVE  \A n \in Unread(u)' : n \in w.found \/ inbox'[n].arrived > w.at
    BY DEF Unread
  <2>1. \A n \in Unread(u) : n \in w.found \/ inbox[n].arrived > w.at
    BY DEF OpeningOK
  <2> QED
    BY <1>4, <1>5, <2>1
<1>9. w.pc = "answered" /\ w.op = "all" => \A n \in Unread(opening[r].whose)' : inbox'[n].arrived > w.at
  <2> SUFFICES ASSUME w.pc = "answered", w.op = "all", NEW u, u = w.whose
               PROVE  \A n \in Unread(u)' : inbox'[n].arrived > w.at
    BY DEF Unread
  <2>1. \A n \in Unread(u) : inbox[n].arrived > w.at
    BY DEF OpeningOK
  <2> QED
    BY <1>4, <1>5, <2>1
<1>10. /\ w.pc \in {"telling", "known"} => w.op = "send"
       /\ w.pc = "opened" => w.op \in {"read", "delete"}
       /\ w.pc \in {"opened", "commit"} => w.op # "send"
  BY DEF OpeningOK
<1>11. opening'[r] = w
  OBVIOUS
<1>12. /\ opening'[r].pc = "commit" /\ opening'[r].op = "all" =>
            \A n \in Unread(opening[r].whose)' : n \in opening'[r].found \/ inbox'[n].arrived > opening'[r].at
       /\ opening'[r].pc = "answered" /\ opening'[r].op = "all" =>
            \A n \in Unread(opening[r].whose)' : inbox'[n].arrived > opening'[r].at
  BY <1>8, <1>9
<1>13. /\ opening'[r].at <= Cardinality(Delivered)'
       /\ opening'[r].op = "send" => opening'[r].sent <= Cardinality(Since(r))'
  BY <1>3, <1>6
<1> QED
  BY <1>7, <1>10, <1>11, <1>12, <1>13 DEF OpeningOK

LEMMA NotOpeningType == NotOpening \in Opening /\ NotOpening.at = 0 /\ NotOpening.op = "read" /\ NotOpening.pc = "idle"
<1>1. 0 \in Deliveries
  <2>1. {} \in SUBSET Notices /\ Cardinality({}) = 0
    BY FS_EmptySet
  <2> QED
    BY <2>1, InboxCounts
<1> QED
  BY <1>1 DEF NotOpening, Opening

LEMMA InboxInvInit == InboxInit => InboxInv
<1> SUFFICES ASSUME InboxInit PROVE InboxInv
  OBVIOUS
<1>1. /\ inbox = [n \in Notices |-> NoNotice] /\ gone = {} /\ opening = [r \in Openers |-> NotOpening]
      /\ \A n \in Notices : inbox[n] = NoNotice
      /\ \A r \in Openers : opening[r] = NotOpening
  BY DEF InboxInit
<1>2. NoNotice \in NoticeRow
  BY NotOpeningType DEF NoNotice, NoticeRow, Life, NotOpening, Opening
<1>3. InboxTypeOK
  BY <1>1, <1>2, NotOpeningType DEF InboxTypeOK
<1>4. Cardinality(Delivered) \in Nat
  BY <1>3, InboxRanges
<1>5. \A r \in Openers : OpeningOK(r)
  BY <1>1, <1>4, NotOpeningType DEF OpeningOK
<1>6. \A n \in Notices : NoticeOK(n)
  BY <1>1 DEF NoticeOK, NoNotice, Delivered
<1> QED
  BY <1>3, <1>5, <1>6 DEF InboxInv

\* A step of a request that leaves the inbox as it is.
LEMMA OpeningMoves ==
    ASSUME InboxInv, NEW r \in Openers, NEW w \in Opening, opening' = [opening EXCEPT ![r] = w],
           UNCHANGED inbox, gone' \subseteq Recipients, OpeningOK(r)'
    PROVE  InboxInv'
<1>1. InboxTypeOK /\ opening \in [Openers -> Opening]
  BY DEF InboxInv, InboxTypeOK
<1>2. opening' \in [Openers -> Opening] /\ \A s \in Openers : s # r => opening'[s] = opening[s]
  BY <1>1
<1>3. InboxTypeOK'
  BY <1>1, <1>2 DEF InboxTypeOK
<1>4. Delivered' = Delivered /\ \A u : Unread(u)' = Unread(u)
  BY DEF Delivered, Unread
<1>5. Grows
  BY <1>1, <1>4, InboxRanges DEF Grows
<1>6. \A s \in Openers : OpeningOK(s)'
  BY <1>1, <1>2, <1>3, <1>5, OpeningWaits DEF InboxInv
<1>7. \A n \in Notices : NoticeOK(n)'
  BY <1>4 DEF InboxInv, NoticeOK
<1> QED
  BY <1>3, <1>6, <1>7 DEF InboxInv

\* A request is taken on.
LEMMA ServeKept ==
    ASSUME InboxInv, NEW r \in Openers, NEW pc \in {"telling", "opened", "commit", "answered"},
           NEW op \in {"send", "all", "read", "delete"}, NEW u \in Recipients \cup {NoReader},
           NEW owner \in Recipients \cup {NoReader}, NEW found \in SUBSET Delivered,
           NEW left \in SUBSET Recipients, Serve(r, pc, op, u, owner, found, left),
           pc = "telling" => op = "send", pc = "opened" => op \in {"read", "delete"},
           pc \in {"opened", "commit"} => /\ op # "send"
                                          /\ \A n \in found : u = inbox[n].owner \/ u \in Chiefs,
           pc = "commit" /\ op = "all" => Unread(owner) \subseteq found,
           pc = "answered" /\ op = "all" => Unread(owner) = {}
    PROVE  InboxInv'
<1> DEFINE w == [pc |-> pc, op |-> op, by |-> u, whose |-> owner, found |-> found, left |-> left,
                 sent |-> 0, at |-> Cardinality(Delivered)]
<1>1. InboxTypeOK /\ opening' = [opening EXCEPT ![r] = w] /\ UNCHANGED inbox /\ gone' \subseteq Recipients
  BY DEF InboxInv, InboxTypeOK, Serve
<1>2. /\ Cardinality(Delivered) \in Deliveries /\ Cardinality(Delivered) \in Nat /\ Delivered \subseteq Notices
      /\ 0 \in Deliveries
  <2>1. 0 \in Deliveries
    BY NotOpeningType DEF Opening
  <2> QED
    BY <1>1, <2>1, InboxRanges
<1>3. w \in Opening
  BY <1>2 DEF Opening
<1>4. opening'[r] = w
  BY <1>1 DEF InboxTypeOK
<1>5. Delivered' = Delivered /\ Unread(owner)' = Unread(owner) /\ Unread(opening[r].whose)' = Unread(owner)
  BY <1>1, <1>4 DEF Delivered, Unread
<1>6. \A n \in found : n \in Delivered /\ inbox[n].arrived <= Cardinality(Delivered)
  BY <1>2 DEF InboxInv, NoticeOK
<1>7. 0 <= Cardinality(Since(r)')
  <2>1. Since(r)' \in SUBSET Notices
    BY <1>2, <1>5 DEF Since
  <2> QED
    BY <2>1, InboxCounts
<1>8. OpeningOK(r)'
  <2>1. w.at <= Cardinality(Delivered)'
    BY <1>2, <1>5
  <2>2. w.pc \in {"opened", "commit"} =>
          /\ w.op # "send"
          /\ \A n \in w.found : /\ n \in Delivered' /\ inbox'[n].arrived <= w.at
                                /\ w.by = inbox'[n].owner \/ w.by \in Chiefs
    BY <1>1, <1>5, <1>6
  <2>3. w.pc = "commit" /\ w.op = "all" => \A n \in Unread(owner) : n \in w.found \/ inbox'[n].arrived > w.at
    OBVIOUS
  <2>4. w.pc = "answered" /\ w.op = "all" => \A n \in Unread(owner) : inbox'[n].arrived > w.at
    OBVIOUS
  <2>5. /\ w.pc \in {"telling", "known"} => w.op = "send"
        /\ w.pc = "opened" => w.op \in {"read", "delete"}
        /\ w.sent = 0
    OBVIOUS
  <2> HIDE DEF w
  <2> QED
    BY <1>4, <1>5, <1>7, <2>1, <2>2, <2>3, <2>4, <2>5 DEF OpeningOK
<1> HIDE DEF w
<1> QED
  BY <1>1, <1>3, <1>8, OpeningMoves

\* A request is forgotten.
LEMMA ForgetKept ==
    ASSUME InboxInv, NEW r \in Openers, opening' = [opening EXCEPT ![r] = NotOpening], UNCHANGED <<inbox, gone>>
    PROVE  InboxInv'
<1>1. InboxTypeOK /\ gone' \subseteq Recipients /\ UNCHANGED inbox
  BY DEF InboxInv, InboxTypeOK
<1>2. Delivered' = Delivered /\ Cardinality(Delivered) \in Nat
  BY <1>1, InboxRanges DEF Delivered
<1>3. opening'[r] = NotOpening
  BY <1>1 DEF InboxTypeOK
<1>4. OpeningOK(r)'
  BY <1>2, <1>3, NotOpeningType DEF OpeningOK
<1> QED
  BY <1>1, <1>4, NotOpeningType, OpeningMoves

\* A request goes on from one user to the next.
LEMMA PassedIs ==
    ASSUME InboxTypeOK, NEW r \in Openers, NEW u \in Recipients \cup {NoReader}, NEW one \in {0, 1},
           Passed(r, u, one), opening[r].sent + one \in Deliveries
    PROVE  \E w \in Opening : /\ opening' = [opening EXCEPT ![r] = w] /\ opening'[r] = w
                              /\ w.pc \in {"answered", "telling"} /\ w.op = opening[r].op
                              /\ w.sent = opening[r].sent + one /\ w.at = opening[r].at
<1> DEFINE v == opening[r]
           pc == IF v.left = {u} THEN "answered" ELSE "telling"
           left == v.left \ {u}
           sent == v.sent + one
           w == [v EXCEPT !.pc = pc, !.left = left, !.sent = sent, !.whose = NoReader]
<1>1. opening \in [Openers -> Opening] /\ v \in Opening
  BY DEF InboxTypeOK
<1>2. opening' = [opening EXCEPT ![r] = w]
  BY DEF Passed
<1>3. pc \in {"answered", "telling"} /\ left \in SUBSET Recipients /\ sent \in Deliveries
  BY <1>1 DEF Opening
<1> HIDE DEF v, pc, left, sent
<1>4. /\ w \in Opening /\ w.pc = pc /\ w.op = v.op /\ w.sent = sent /\ w.at = v.at
  BY <1>1, <1>3 DEF Opening
<1>5. opening'[r] = w
  BY <1>1, <1>2
<1> HIDE DEF w
<1> QED
  BY <1>2, <1>3, <1>4, <1>5 DEF v, sent

\* A step of one request that delivers, marks or deletes notices.
LEMMA InboxGrows ==
    ASSUME InboxInv, InboxTypeOK', Grows, NEW r \in Openers, OpeningOK(r)',
           \A s \in Openers \ {r} : opening'[s] = opening[s], \A n \in Notices : NoticeOK(n)'
    PROVE  InboxInv'
<1>1. \A s \in Openers \ {r} : OpeningOK(s)'
  BY OpeningWaits DEF InboxInv
<1> QED
  BY <1>1 DEF InboxInv

\* A user is looked up.
LEMMA LookUpKept ==
    ASSUME InboxInv, NEW r \in Openers, NEW u \in Recipients, LookUpUser(r, u)
    PROVE  InboxInv'
<1> DEFINE v == opening[r]
<1>1. /\ InboxTypeOK /\ v \in Opening /\ v.pc = "telling" /\ v.op = "send" /\ UNCHANGED inbox
      /\ gone' \subseteq Recipients /\ opening \in [Openers -> Opening]
      /\ v.at <= Cardinality(Delivered) /\ v.sent <= Cardinality(Since(r))
  BY DEF InboxInv, InboxTypeOK, LookUpUser, OpeningOK
<1>2. Delivered' = Delivered /\ v.sent \in Deliveries /\ v.sent \in Nat
  BY <1>1, InboxRanges DEF Delivered, Opening
<1>3. ASSUME NEW w \in Opening, opening' = [opening EXCEPT ![r] = w], w.pc \in {"answered", "telling", "known"},
             w.op = "send", w.at = v.at, w.sent = v.sent
      PROVE  InboxInv'
  <2>1. opening'[r] = w
    BY <1>1, <1>3
  <2>2. Since(r)' = Since(r)
    BY <1>1, <1>2, <1>3, <2>1 DEF Since
  <2>3. OpeningOK(r)'
    BY <1>1, <1>2, <1>3, <2>1, <2>2 DEF OpeningOK
  <2> QED
    BY <1>1, <1>3, <2>3, OpeningMoves
<1>4. CASE u \in gone
  <2>1. Passed(r, u, 0) /\ v.sent + 0 = v.sent
    BY <1>2, <1>4 DEF LookUpUser
  <2>2. PICK w \in Opening : /\ opening' = [opening EXCEPT ![r] = w] /\ w.pc \in {"answered", "telling"}
                             /\ w.op = v.op /\ w.sent = v.sent + 0 /\ w.at = v.at
    BY <1>1, <1>2, <2>1, PassedIs
  <2> QED
    BY <1>1, <1>3, <2>1, <2>2
<1>5. CASE u \notin gone
  <2> DEFINE w == [v EXCEPT !.pc = "known", !.whose = u]
  <2>1. opening' = [opening EXCEPT ![r] = w]
    BY <1>1, <1>5 DEF LookUpUser
  <2>2. w \in Opening /\ w.pc = "known" /\ w.op = v.op /\ w.sent = v.sent /\ w.at = v.at
    BY <1>1 DEF Opening
  <2> HIDE DEF w
  <2> QED
    BY <1>1, <1>3, <2>1, <2>2
<1> QED
  BY <1>4, <1>5

\* A notice is loaded a second time before it is marked or deleted.
LEMMA OpenAgainKept ==
    ASSUME InboxInv, NEW r \in Openers, OpenAgain(r)
    PROVE  InboxInv'
<1> DEFINE v == opening[r]
           w == [v EXCEPT !.pc = "commit"]
<1>1. /\ InboxTypeOK /\ v \in Opening /\ v.pc = "opened" /\ UNCHANGED <<inbox, gone>> /\ gone' \subseteq Recipients
      /\ opening \in [Openers -> Opening]
      /\ opening' = [opening EXCEPT ![r] = NotOpening] \/ opening' = [opening EXCEPT ![r] = w]
  BY DEF InboxInv, InboxTypeOK, OpenAgain
<1>2. CASE opening' = [opening EXCEPT ![r] = w]
  <2>1. w \in Opening /\ w.pc = "commit" /\ w.op = v.op /\ w.by = v.by /\ w.found = v.found /\ w.at = v.at
    BY <1>1 DEF Opening
  <2>2. opening'[r] = w
    BY <1>1, <1>2
  <2> HIDE DEF w
  <2>3. /\ v.op \in {"read", "delete"} /\ v.at <= Cardinality(Delivered)
        /\ \A n \in v.found : /\ n \in Delivered /\ inbox[n].arrived <= v.at
                              /\ v.by = inbox[n].owner \/ v.by \in Chiefs
    BY <1>1 DEF InboxInv, OpeningOK
  <2>4. Delivered' = Delivered
    BY <1>1 DEF Delivered
  <2>5. OpeningOK(r)'
    BY <1>1, <2>1, <2>2, <2>3, <2>4 DEF OpeningOK
  <2> QED
    BY <1>1, <1>2, <2>1, <2>5, OpeningMoves
<1> HIDE DEF w
<1>3. CASE opening' = [opening EXCEPT ![r] = NotOpening]
  BY <1>1, <1>3, ForgetKept
<1> QED
  BY <1>1, <1>2, <1>3

\* A notice is stored, or is not; and the request goes on.
LEMMA DeliverKept ==
    ASSUME InboxInv, NEW r \in Openers, Deliver(r)
    PROVE  InboxInv'
<1> DEFINE v == opening[r]
           N == Cardinality(Delivered)
           since == Since(r)
<1>1. /\ InboxTypeOK /\ v \in Opening /\ v.pc = "known" /\ v.op = "send" /\ UNCHANGED gone
      /\ opening \in [Openers -> Opening] /\ inbox \in [Notices -> NoticeRow] /\ gone \subseteq Recipients
      /\ v.at <= N /\ v.sent <= Cardinality(since) /\ v.whose \in Recipients \cup {NoReader}
      /\ \A n \in Notices : NoticeOK(n)
  BY DEF InboxInv, InboxTypeOK, Deliver, OpeningOK, Opening
<1>2. /\ Delivered \in SUBSET Notices /\ N \in Nat /\ IsFiniteSet(Delivered)
      /\ since \in SUBSET Notices /\ Cardinality(since) \in Nat /\ Cardinality(since) \in Deliveries /\ IsFiniteSet(since)
      /\ v.sent \in Nat /\ v.at \in Nat /\ Deliveries \subseteq Nat /\ v.sent \in Deliveries
      /\ \A n \in Notices : inbox[n].arrived \in Nat
  <2>1. Delivered \in SUBSET Notices /\ since \in SUBSET Notices
    BY DEF Delivered, Since
  <2>2. v.sent \in Deliveries
    BY <1>1 DEF Opening
  <2> QED
    BY <1>1, <2>1, <2>2, InboxCounts, InboxRanges
<1>3. CASE UNCHANGED inbox /\ Passed(r, v.whose, 0)
  <2>1. Delivered' = Delivered /\ v.sent + 0 = v.sent
    BY <1>2, <1>3 DEF Delivered
  <2>2. PICK w \in Opening : /\ opening' = [opening EXCEPT ![r] = w] /\ opening'[r] = w
                             /\ w.pc \in {"answered", "telling"}
                             /\ w.op = v.op /\ w.sent = v.sent + 0 /\ w.at = v.at
    BY <1>1, <1>2, <1>3, <2>1, PassedIs
  <2>3. Since(r)' = Since(r)
    BY <1>1, <1>3, <2>1, <2>2 DEF Since
  <2>4. OpeningOK(r)'
    BY <1>1, <2>1, <2>2, <2>3 DEF OpeningOK
  <2> QED
    BY <1>1, <1>3, <2>2, <2>4, OpeningMoves
<1>4. ASSUME NEW n \in Notices \ Delivered, NEW one \in {0, 1}, Passed(r, v.whose, one),
             inbox' = [inbox EXCEPT ![n] = [life |-> "live", owner |-> v.whose, read |-> FALSE,
                                            arrived |-> N + 1, by |-> NoReader, seen |-> 0]]
      PROVE  InboxInv'
  <2> DEFINE line == [life |-> "live", owner |-> v.whose, read |-> FALSE, arrived |-> N + 1, by |-> NoReader, seen |-> 0]
  <2>1. inbox'[n] = line /\ \A m \in Notices : m # n => inbox'[m] = inbox[m]
    BY <1>1, <1>4
  <2>2. Delivered' = Delivered \cup {n}
    BY <2>1 DEF Delivered
  <2>3. N + 1 = Cardinality(Delivered') /\ N + 1 \in Deliveries
    <3>1. Cardinality(Delivered \cup {n}) = N + 1
      BY <1>2, FS_AddElement
    <3>2. Delivered \cup {n} \in SUBSET Notices
      BY <1>2
    <3> QED
      BY <2>2, <3>1, <3>2, InboxCounts
  <2>4. line \in NoticeRow
    <3>1. 0 \in Deliveries
      BY NotOpeningType DEF Opening
    <3> QED
      BY <1>1, <2>3, <3>1 DEF NoticeRow, Life
  <2>5. Grows
    <3>1. /\ Delivered \subseteq Delivered' /\ N <= Cardinality(Delivered')
          /\ \A m \in Delivered' : m \in Delivered \/ inbox'[m].arrived > N
      BY <1>2, <2>1, <2>2, <2>3
    <3>2. \A m \in Delivered : inbox'[m] = inbox[m] /\ \A u : m \in Unread(u)' => m \in Unread(u)
      BY <1>2, <2>1, <1>4 DEF Unread
    <3> QED
      BY <3>1, <3>2 DEF Grows
  <2>6. v.sent + one <= Cardinality(since \cup {n}) /\ v.sent + one \in Deliveries /\ (since \cup {n}) \in SUBSET Notices
    <3>1. n \notin since
      BY <1>4 DEF Since
    <3>2. Cardinality(since \cup {n}) = Cardinality(since) + 1
      BY <1>2, <3>1, FS_AddElement
    <3>3. (since \cup {n}) \in SUBSET Notices
      BY <1>2
    <3>4. Cardinality(since \cup {n}) \in Deliveries
      BY <3>3, InboxCounts
    <3>5. Cardinality(Notices) \in Nat
      BY InboxCounts
    <3> QED
      BY <1>1, <1>2, <3>2, <3>3, <3>4, <3>5 DEF Deliveries
  <2>7. PICK w \in Opening : /\ opening' = [opening EXCEPT ![r] = w] /\ opening'[r] = w
                             /\ w.pc \in {"answered", "telling"}
                             /\ w.op = v.op /\ w.sent = v.sent + one /\ w.at = v.at
    BY <1>1, <1>4, <2>6, PassedIs
  <2>8. Since(r)' = since \cup {n}
    <3>1. Since(r)' = {m \in Delivered' : inbox'[m].arrived > v.at}
      BY <2>7 DEF Since
    <3>2. \A m \in Delivered : inbox'[m].arrived = inbox[m].arrived
      BY <1>2, <1>4, <2>1
    <3>3. inbox'[n].arrived > v.at
      BY <1>1, <1>2, <2>1
    <3> QED
      BY <2>2, <3>1, <3>2, <3>3 DEF Since
  <2>9. OpeningOK(r)'
    <3>1. w.at <= Cardinality(Delivered)'
      BY <1>1, <1>2, <2>3, <2>7
    <3>2. w.sent <= Cardinality(Since(r)')
      BY <2>6, <2>7, <2>8
    <3> QED
      BY <1>1, <2>7, <3>1, <3>2 DEF OpeningOK
  <2>10. InboxTypeOK'
    BY <1>1, <1>4, <2>4, <2>7 DEF InboxTypeOK
  <2>11. \A m \in Notices : NoticeOK(m)'
    <3>1. NoticeOK(n)'
      BY <1>2, <2>1, <2>2, <2>3 DEF NoticeOK
    <3>2. ASSUME NEW m \in Notices, m # n PROVE NoticeOK(m)'
      BY <1>1, <1>2, <2>1, <2>2, <2>3, <3>2 DEF NoticeOK
    <3> QED
      BY <3>1, <3>2
  <2>12. \A s \in Openers \ {r} : opening'[s] = opening[s]
    BY <1>1, <2>7
  <2> QED
    BY <2>5, <2>9, <2>10, <2>11, <2>12, InboxGrows
<1> QED
  BY <1>3, <1>4 DEF Deliver, Arrives

\* The notices of a request are marked or deleted.
LEMMA CommitMarksKept ==
    ASSUME InboxInv, NEW r \in Openers, CommitMarks(r)
    PROVE  InboxInv'
<1> DEFINE v == opening[r]
           new == [v EXCEPT !.pc = "answered", !.found = {}]
<1>1. /\ InboxTypeOK /\ v \in Opening /\ v.pc = "commit" /\ v.op # "send" /\ UNCHANGED gone
      /\ opening \in [Openers -> Opening] /\ inbox \in [Notices -> NoticeRow] /\ gone \subseteq Recipients
      /\ v.at <= Cardinality(Delivered) /\ v.at \in Deliveries /\ v.by \in Recipients \cup {NoReader}
      /\ \A n \in Notices : NoticeOK(n)
      /\ \A n \in v.found : /\ n \in Delivered /\ inbox[n].arrived <= v.at
                            /\ v.by = inbox[n].owner \/ v.by \in Chiefs
      /\ inbox' = [n \in Notices |-> IF n \in v.found THEN Handle(inbox[n], v) ELSE inbox[n]]
      /\ \/ v.op = "all" /\ opening' = [opening EXCEPT ![r] = new]
         \/ v.op # "all" /\ opening' = [opening EXCEPT ![r] = NotOpening]
  BY DEF InboxInv, InboxTypeOK, CommitMarks, OpeningOK, Opening, Marks
<1>2. /\ Delivered \in SUBSET Notices /\ Cardinality(Delivered) \in Nat /\ v.found \subseteq Notices
      /\ \A n \in Notices : inbox[n].arrived \in Nat
  BY <1>1, InboxRanges DEF Opening
<1>3. \A n \in v.found :
         /\ Handle(inbox[n], v) \in NoticeRow
         /\ Handle(inbox[n], v).owner = inbox[n].owner /\ Handle(inbox[n], v).arrived = inbox[n].arrived
         /\ Handle(inbox[n], v).by = v.by /\ Handle(inbox[n], v).seen = v.at
         /\ v.op # "delete" => Handle(inbox[n], v).read /\ Handle(inbox[n], v).life = inbox[n].life
         /\ v.op = "delete" => Handle(inbox[n], v).life = "deleted"
  <2> SUFFICES ASSUME NEW n \in v.found, NEW line \in NoticeRow, line = inbox[n]
               PROVE  /\ Handle(line, v) \in NoticeRow
                      /\ Handle(line, v).owner = line.owner /\ Handle(line, v).arrived = line.arrived
                      /\ Handle(line, v).by = v.by /\ Handle(line, v).seen = v.at
                      /\ v.op # "delete" => Handle(line, v).read /\ Handle(line, v).life = line.life
                      /\ v.op = "delete" => Handle(line, v).life = "deleted"
    BY <1>1, <1>2
  <2> DEFINE read == IF v.op = "delete" THEN line.read ELSE TRUE
             life == IF v.op = "delete" THEN "deleted" ELSE line.life
  <2>1. Handle(line, v) = [line EXCEPT !.by = v.by, !.seen = v.at, !.read = read, !.life = life]
    BY DEF Handle
  <2>2. read \in BOOLEAN /\ life \in Life
    BY DEF NoticeRow, Life
  <2> HIDE DEF read, life
  <2>3. /\ [line EXCEPT !.by = v.by, !.seen = v.at, !.read = read, !.life = life] \in NoticeRow
        /\ Handle(line, v).owner = line.owner /\ Handle(line, v).arrived = line.arrived
        /\ Handle(line, v).by = v.by /\ Handle(line, v).seen = v.at
        /\ Handle(line, v).read = read /\ Handle(line, v).life = life
    BY <1>1, <2>1, <2>2 DEF NoticeRow
  <2>4. /\ v.op # "delete" => read = TRUE /\ life = line.life
        /\ v.op = "delete" => life = "deleted"
    BY DEF read, life
  <2> QED
    BY <2>1, <2>3, <2>4
<1>4. /\ \A n \in v.found : inbox'[n] = Handle(inbox[n], v)
      /\ \A n \in Notices \ v.found : inbox'[n] = inbox[n]
  BY <1>1, <1>2
<1>5. /\ inbox' \in [Notices -> NoticeRow]
      /\ \A n \in Notices : inbox'[n].owner = inbox[n].owner /\ inbox'[n].arrived = inbox[n].arrived
  BY <1>1, <1>2, <1>3, <1>4
<1>6. Delivered' = Delivered
  BY <1>1, <1>2, <1>3, <1>4 DEF Delivered
<1>7. \A u : \A n \in Unread(u)' : n \in Unread(u) /\ (v.op = "all" => n \notin v.found)
  BY <1>1, <1>2, <1>3, <1>4 DEF Unread
<1>8. Grows
  BY <1>2, <1>5, <1>6, <1>7 DEF Grows
<1>9. \A n \in Notices : NoticeOK(n)'
  BY <1>1, <1>2, <1>3, <1>4, <1>5, <1>6 DEF NoticeOK
<1>10. CASE v.op = "all" /\ opening' = [opening EXCEPT ![r] = new]
  <2>1. new \in Opening /\ new.pc = "answered" /\ new.op = "all" /\ new.at = v.at /\ new.whose = v.whose
    BY <1>1, <1>10 DEF Opening
  <2>2. opening'[r] = new /\ (\A s \in Openers \ {r} : opening'[s] = opening[s]) /\ opening' \in [Openers -> Opening]
    BY <1>1, <1>10, <2>1
  <2> HIDE DEF new
  <2>3. \A n \in Unread(v.whose) : n \in v.found \/ inbox[n].arrived > v.at
    BY <1>1, <1>10 DEF InboxInv, OpeningOK
  <2>4. \A n \in Unread(opening[r].whose)' : inbox'[n].arrived > v.at
    <3>1. \A n \in Unread(opening[r].whose)' : n \in Unread(v.whose) /\ n \notin v.found
      <4> SUFFICES ASSUME NEW u, u = v.whose PROVE \A n \in Unread(u)' : n \in Unread(u) /\ n \notin v.found
        BY <2>1, <2>2 DEF Unread
      <4> QED
        BY <1>7, <1>10
    <3> QED
      BY <1>2, <1>5, <2>3, <3>1 DEF Unread
  <2>5. OpeningOK(r)'
    BY <1>1, <1>6, <2>1, <2>2, <2>4 DEF OpeningOK
  <2>6. InboxTypeOK'
    BY <1>1, <1>5, <2>2 DEF InboxTypeOK
  <2> QED
    BY <1>8, <1>9, <2>2, <2>5, <2>6, InboxGrows
<1> HIDE DEF new
<1>11. CASE opening' = [opening EXCEPT ![r] = NotOpening]
  <2>1. opening'[r] = NotOpening /\ (\A s \in Openers \ {r} : opening'[s] = opening[s]) /\ opening' \in [Openers -> Opening]
    BY <1>1, <1>11, NotOpeningType
  <2>2. OpeningOK(r)'
    BY <1>2, <1>6, <2>1, NotOpeningType DEF OpeningOK
  <2>3. InboxTypeOK'
    BY <1>1, <1>5, <2>1 DEF InboxTypeOK
  <2> QED
    BY <1>8, <1>9, <2>1, <2>2, <2>3, InboxGrows
<1> QED
  BY <1>1, <1>10, <1>11

\* The requests that begin.
LEMMA InboxServed ==
    ASSUME InboxInv, NEW r \in Openers, NEW u \in Recipients
    PROVE  /\ \A owner \in Recipients : Send(r, u, owner) => InboxInv'
           /\ CallForHelp(r, u) => InboxInv'
           /\ \A owner \in Recipients : OpenAll(r, u, owner) => InboxInv'
           /\ \A n \in Notices, op \in {"read", "delete"} : OpenOne(r, u, n, op) => InboxInv'
<1>1. ASSUME NEW owner \in Recipients, Send(r, u, owner) PROVE InboxInv'
  <2> DEFINE left == {owner}
             none == {}
  <2>1. Serve(r, "telling", "send", NoReader, NoReader, none, left)
    BY <1>1 DEF Send
  <2>2. left \in SUBSET Recipients /\ none \in SUBSET Delivered
    OBVIOUS
  <2> HIDE DEF left, none
  <2> QED
    BY <2>1, <2>2, ServeKept
<1>2. ASSUME CallForHelp(r, u) PROVE InboxInv'
  <2> DEFINE left == OnDuty \ gone
             pc == IF OnDuty \subseteq gone THEN "answered" ELSE "telling"
  <2>1. Serve(r, pc, "send", NoReader, NoReader, {}, left)
    BY <1>2 DEF CallForHelp
  <2>2. left \in SUBSET Recipients /\ pc \in {"answered", "telling"}
    BY InboxAssumption DEF InboxAssumption
  <2> HIDE DEF left, pc
  <2> QED
    BY <2>1, <2>2, ServeKept
<1>3. ASSUME NEW owner \in Recipients, OpenAll(r, u, owner) PROVE InboxInv'
  <2> DEFINE found == Unread(owner)
             pc == IF found = {} THEN "answered" ELSE "commit"
  <2>1. MayOpen(u, owner) /\ Serve(r, pc, "all", u, owner, found, {})
    BY <1>3 DEF OpenAll
  <2>2. found \in SUBSET Delivered /\ \A n \in found : u = inbox[n].owner \/ u \in Chiefs
    BY <2>1 DEF Unread, Delivered, MayOpen
  <2>3. pc \in {"answered", "commit"} /\ (pc = "answered" => found = {})
    OBVIOUS
  <2>4. found = Unread(owner)
    OBVIOUS
  <2> HIDE DEF found, pc
  <2> QED
    BY <2>1, <2>2, <2>3, <2>4, ServeKept
<1>4. ASSUME NEW n \in Notices, NEW op \in {"read", "delete"}, OpenOne(r, u, n, op) PROVE InboxInv'
  <2> DEFINE found == {n}
             none == {}
  <2>1. Serve(r, "opened", op, u, NoReader, found, none) /\ none \in SUBSET Recipients
    BY <1>4 DEF OpenOne
  <2>2. found \in SUBSET Delivered /\ \A m \in found : u = inbox[m].owner \/ u \in Chiefs
    BY <1>4 DEF OpenOne, MayOpen, Delivered
  <2> HIDE DEF found, none
  <2> QED
    BY <2>1, <2>2, ServeKept
<1> QED
  BY <1>1, <1>2, <1>3, <1>4

LEMMA InboxInvStutter == InboxInv /\ UNCHANGED inboxVars => InboxInv'
<1> SUFFICES ASSUME InboxInv, UNCHANGED inboxVars PROVE InboxInv'
  OBVIOUS
<1>1. inbox' = inbox /\ gone' = gone /\ opening' = opening
  BY DEF inboxVars
<1>2. Delivered' = Delivered /\ InboxTypeOK' /\ InboxTypeOK /\ \A u : Unread(u)' = Unread(u)
  BY <1>1 DEF InboxInv, InboxTypeOK, Delivered, Unread
<1>3. Grows
  BY <1>1, <1>2, InboxRanges DEF Grows
<1>4. \A r \in Openers : OpeningOK(r)'
  BY <1>1, <1>2, <1>3, OpeningWaits DEF InboxInv
<1>5. \A n \in Notices : NoticeOK(n)'
  BY <1>1, <1>2 DEF InboxInv, NoticeOK
<1> QED
  BY <1>2, <1>4, <1>5 DEF InboxInv

LEMMA InboxInvNext == InboxInv /\ InboxNext => InboxInv'
<1> SUFFICES ASSUME InboxInv, InboxNext PROVE InboxInv'
  OBVIOUS
<1>1. ASSUME NEW r \in Openers,
             Answered(r) \/ OpenAgain(r) \/ Deliver(r) \/ CommitMarks(r) \/ FailOpening(r)
      PROVE  InboxInv'
  <2>1. CASE Answered(r) \/ FailOpening(r)
    BY <2>1, ForgetKept DEF Answered, FailOpening
  <2>2. CASE OpenAgain(r)
    BY <2>2, OpenAgainKept
  <2>3. CASE Deliver(r)
    BY <2>3, DeliverKept
  <2>4. CASE CommitMarks(r)
    BY <2>4, CommitMarksKept
  <2> QED
    BY <1>1, <2>1, <2>2, <2>3, <2>4
<1>2. ASSUME NEW r \in Openers, NEW u \in Recipients,
             LookUpUser(r, u) \/ (u \notin gone /\ CallForHelp(r, u))
      PROVE  InboxInv'
  BY <1>2, LookUpKept, InboxServed
<1>3. ASSUME NEW r \in Openers, NEW u \in Recipients \ gone, NEW owner \in Recipients,
             Send(r, u, owner) \/ OpenAll(r, u, owner)
      PROVE  InboxInv'
  BY <1>3, InboxServed
<1>4. ASSUME NEW r \in Openers, NEW u \in Recipients \ gone, NEW n \in Notices,
             NEW op \in {"read", "delete"}, OpenOne(r, u, n, op)
      PROVE  InboxInv'
  BY <1>4, InboxServed
<1>5. ASSUME NEW u \in Recipients, CloseAccount(u) PROVE InboxInv'
  <2>1. InboxTypeOK' /\ UNCHANGED <<inbox, opening>> /\ InboxTypeOK
    BY <1>5 DEF InboxInv, InboxTypeOK, CloseAccount
  <2>2. Delivered' = Delivered /\ \A v : Unread(v)' = Unread(v)
    BY <2>1 DEF Delivered, Unread
  <2>3. Grows
    BY <2>1, <2>2, InboxRanges DEF Grows
  <2>4. \A r \in Openers : OpeningOK(r)'
    BY <2>1, <2>3, OpeningWaits DEF InboxInv
  <2>5. \A n \in Notices : NoticeOK(n)'
    BY <2>1, <2>2 DEF InboxInv, NoticeOK
  <2> QED
    BY <2>1, <2>4, <2>5 DEF InboxInv
<1> QED
  BY <1>1, <1>2, <1>3, <1>4, <1>5 DEF InboxNext

\* Every request to the inbox has looked only at notices its user may open and that had come when
\* it began, its marks are all that was unread then, and each user it says it told has the notice.
THEOREM InboxTypes == InboxSpec => []InboxInv
<1>1. InboxInv /\ [InboxNext]_inboxVars => InboxInv'
  BY InboxInvNext, InboxInvStutter
<1> QED
  BY <1>1, InboxInvInit, PTL DEF InboxSpec

\* Nobody but its owner or management marks or deletes a notice, and only in a request that began
\* after it came; marking all leaves nothing unread of what there was; and a send that counts those
\* it told has stored a notice for each.
THEOREM InboxKeptAlways == InboxSpec => []InboxKept
<1>1. InboxInv => InboxKept
  <2> SUFFICES ASSUME InboxInv PROVE InboxKept
    OBVIOUS
  <2>1. HandledKnowingly
    BY DEF InboxInv, NoticeOK, HandledKnowingly
  <2>2. AllWasMarked
    BY DEF InboxInv, OpeningOK, AllWasMarked
  <2>3. SentWereStored
    BY DEF InboxInv, OpeningOK, SentWereStored, Since
  <2> QED
    BY <2>1, <2>2, <2>3 DEF InboxKept
<1> QED
  BY <1>1, InboxTypes, PTL

-----------------------------------------------------------------------------
(* Forms.                                                                  *)

\* A value that a field has taken is taken again, as it is.
LEMMA CoercedTwice ==
    ASSUME NEW f, IsField(f), NEW v, IsRaw(v), ~ IsEmpty(v), Coerced(f, v) # Refused
    PROVE  Coerced(f, Coerced(f, v)) = Coerced(f, v) /\ ~ IsEmpty(Coerced(f, v))
<1> DEFINE c == Coerced(f, v)
<1>1. CASE f.type = "string"
  <2>1. \A x : Coerced(f, x) = ValidString(f, x)
    BY <1>1 DEF Coerced
  <2>2. c = v
    BY <2>1 DEF ValidString
  <2> QED
    BY <2>2
<1>2. CASE f.type = "number"
  <2>1. \A x : Coerced(f, x) = ValidNumber(f, x)
    BY <1>2 DEF Coerced
  <2>2. c = Amount(v.amount) /\ v.amount \in f.range
    BY <2>1 DEF ValidNumber
  <2>3. c.kind = "number" /\ c.amount = v.amount
    <3>1. \A n : Amount(n).kind = "number" /\ Amount(n).amount = n
      BY DEF Amount
    <3> HIDE DEF c
    <3> QED
      BY <2>2, <3>1
  <2>4. ValidNumber(f, c) = Amount(c.amount)
    BY <2>2, <2>3 DEF ValidNumber
  <2> QED
    BY <2>1, <2>2, <2>3, <2>4 DEF IsEmpty
<1>3. CASE f.type = "boolean"
  <2>1. \A x : Coerced(f, x) = ValidBoolean(f, x)
    BY <1>3 DEF Coerced
  <2>2. c = Truth(v.reads)
    BY <2>1 DEF ValidBoolean
  <2>3. c.kind = "bool" /\ c.reads = v.reads
    BY <2>2 DEF Truth
  <2>4. ValidBoolean(f, c) = Truth(c.reads)
    BY <2>3 DEF ValidBoolean
  <2> QED
    BY <2>1, <2>2, <2>3, <2>4 DEF IsEmpty
<1>4. CASE f.type = "date"
  <2>1. \A x : Coerced(f, x) = ValidDate(f, x)
    BY <1>4 DEF Coerced
  <2>2. c = [v EXCEPT !.reads = "date"] /\ v.kind = "text"
    BY <2>1 DEF ValidDate
  <2>3. IsRaw(c) /\ c.kind = "text" /\ c.reads = "date"
    <3>1. v = [kind |-> v.kind, reads |-> v.reads, amount |-> v.amount, length |-> v.length]
      BY DEF IsRaw
    <3>2. [v EXCEPT !.reads = "date"]
          = [kind |-> v.kind, reads |-> "date", amount |-> v.amount, length |-> v.length]
      BY <3>1
    <3> HIDE DEF c
    <3> QED
      BY <2>2, <3>2 DEF IsRaw
  <2>4. [c EXCEPT !.reads = "date"] = c
    BY <2>3 DEF IsRaw
  <2>5. ValidDate(f, c) = c
    BY <2>3, <2>4 DEF ValidDate
  <2> QED
    BY <2>1, <2>3, <2>5 DEF IsEmpty
<1>5. CASE f.type = "enum"
  <2>1. \A x : Coerced(f, x) = ValidEnum(f, x)
    BY <1>5 DEF Coerced
  <2>2. c = v
    BY <2>1 DEF ValidEnum
  <2> QED
    BY <2>2
<1>6. CASE f.type = "attachment"
  <2>1. \A x : Coerced(f, x) = ValidAttachment(f, x)
    BY <1>6 DEF Coerced
  <2>2. c = v
    BY <2>1 DEF ValidAttachment
  <2> QED
    BY <2>2
<1> QED
  BY <1>1, <1>2, <1>3, <1>4, <1>5, <1>6 DEF IsField

\* What was filed and found valid is found valid again, and comes out as it went in.
LEMMA ValidatedTwice ==
    ASSUME NEW s \in Structures, NEW p \in Payloads, Validated(s, p) # Refused
    PROVE  Validated(s, Validated(s, p)) = Validated(s, p)
<1> DEFINE files  == {k \in DOMAIN s : s[k].type = "attachment"}
           inputs == DOMAIN s \ files
           q == [values |-> CoercedAll(s, p.values), attachments |-> CoercedAll(s, p.attachments)]
<1>1. /\ Validated(s, p) = q
      /\ DOMAIN p.values \subseteq inputs /\ DOMAIN p.attachments \subseteq files
      /\ \A k \in DOMAIN s : s[k].required => k \in Given(p.values) \cup Given(p.attachments)
      /\ \A k \in Given(p.values) : Coerced(s[k], p.values[k]) # Refused
      /\ \A k \in Given(p.attachments) : Coerced(s[k], p.attachments[k]) # Refused
  BY DEF Validated
<1>2. ASSUME NEW source, DOMAIN source \subseteq DOMAIN s, \A k \in DOMAIN source : IsRaw(source[k]),
             \A k \in Given(source) : Coerced(s[k], source[k]) # Refused
      PROVE  /\ DOMAIN CoercedAll(s, source) = Given(source)
             /\ Given(CoercedAll(s, source)) = Given(source)
             /\ \A k \in Given(source) : Coerced(s[k], CoercedAll(s, source)[k]) # Refused
             /\ CoercedAll(s, CoercedAll(s, source)) = CoercedAll(s, source)
  <2> DEFINE once == CoercedAll(s, source)
  <2>1. DOMAIN once = Given(source) /\ \A k \in Given(source) : once[k] = Coerced(s[k], source[k])
    BY DEF CoercedAll
  <2>2. \A k \in Given(source) : Coerced(s[k], once[k]) = once[k] /\ ~ IsEmpty(once[k]) /\ once[k] # Refused
    <3> SUFFICES ASSUME NEW k \in Given(source)
                 PROVE  Coerced(s[k], once[k]) = once[k] /\ ~ IsEmpty(once[k]) /\ once[k] # Refused
      OBVIOUS
    <3>1. k \in DOMAIN source /\ ~ IsEmpty(source[k]) /\ IsRaw(source[k]) /\ k \in DOMAIN s
      BY <1>2 DEF Given
    <3>2. IsField(s[k])
      BY <3>1, FormsAssumption DEF FormsAssumption
    <3> QED
      BY <1>2, <2>1, <3>1, <3>2, CoercedTwice
  <2>3. Given(once) = Given(source)
    BY <2>1, <2>2 DEF Given
  <2>4. CoercedAll(s, once) = [k \in Given(once) |-> Coerced(s[k], once[k])]
    BY DEF CoercedAll
  <2>5. once = [k \in Given(source) |-> Coerced(s[k], source[k])]
    BY DEF CoercedAll
  <2>6. CoercedAll(s, once) = once
    <3>1. \A k \in Given(source) : Coerced(s[k], once[k]) = Coerced(s[k], source[k])
      BY <2>1, <2>2
    <3> HIDE DEF once
    <3> QED
      BY <2>3, <2>4, <2>5, <3>1
  <2> QED
    BY <2>1, <2>2, <2>3, <2>6
<1>3. /\ \A k \in DOMAIN p.values : IsRaw(p.values[k])
      /\ \A k \in DOMAIN p.attachments : IsRaw(p.attachments[k])
  BY FormsAssumption DEF FormsAssumption
<1>4. /\ DOMAIN q.values = Given(p.values) /\ Given(q.values) = Given(p.values)
      /\ \A k \in Given(p.values) : Coerced(s[k], q.values[k]) # Refused
      /\ CoercedAll(s, q.values) = q.values
  BY <1>1, <1>2, <1>3
<1>5. /\ DOMAIN q.attachments = Given(p.attachments) /\ Given(q.attachments) = Given(p.attachments)
      /\ \A k \in Given(p.attachments) : Coerced(s[k], q.attachments[k]) # Refused
      /\ CoercedAll(s, q.attachments) = q.attachments
  BY <1>1, <1>2, <1>3
<1>6. Given(p.values) \subseteq DOMAIN p.values /\ Given(p.attachments) \subseteq DOMAIN p.attachments
  BY DEF Given
<1>7. q = [values |-> q.values, attachments |-> q.attachments]
  OBVIOUS
<1> HIDE DEF q
<1>8. Validated(s, q) = [values |-> CoercedAll(s, q.values), attachments |-> CoercedAll(s, q.attachments)]
  BY <1>1, <1>4, <1>5, <1>6 DEF Validated
<1> QED
  BY <1>1, <1>4, <1>5, <1>7, <1>8

\* Some filed submission, or one about to be filed, carries structure x as version v of t.
Carries(t, v, x) ==
    \/ \E s \in Filings : /\ filed[s] # NotFiled /\ filed[s].template = t
                          /\ filed[s].version = v /\ filed[s].snapshot = x
    \/ \E e \in Editors : /\ edit[e].op = "submit" /\ edit[e].template = t
                          /\ edit[e].seen.version = v /\ edit[e].seen.structure = x

\* What is carried is an earlier version of the template or the present one, of one structure each.
Versioned(t) ==
    \A v, x : Carries(t, v, x) =>
       /\ v \in 0 .. template[t].version
       /\ v = template[t].version => x = template[t].structure
       /\ \A y : Carries(t, v, y) => x = y

EditOK(e) ==
    LET w == edit[e] IN
    /\ w.op \in {"update", "submit"} => w.template \in Templates /\ template[w.template].life # "unused"
    /\ w.op = "submit" => Validated(w.seen.structure, w.filled) = w.filled
    /\ w.op = "update" => \/ w.next.version = w.seen.version /\ w.next.structure = w.seen.structure
                          \/ w.next.version = w.seen.version + 1
    /\ Restructures(w) /\ w.template \notin forked =>
          /\ w.seen.version = template[w.template].version
          /\ w.seen.structure = template[w.template].structure
          /\ \A d \in Editors \ {e} : Restructures(edit[d]) => edit[d].template # w.template

FiledOK(s) == filed[s] # NotFiled => Validated(filed[s].snapshot, filed[s].filled) = filed[s].filled

FormsInv ==
    /\ FormsTypeOK
    /\ DOMAIN filed = Filings /\ filed = [s \in Filings |-> filed[s]]
    /\ DOMAIN edit = Editors /\ edit = [e \in Editors |-> edit[e]]
    /\ \A t \in Templates : template[t].life = "unused" => template[t].version = 0
    /\ \A t \in Templates \ forked : Versioned(t)
    /\ \A e \in Editors : EditOK(e)
    /\ \A s \in Filings : FiledOK(s)

LEMMA NoTemplateType == NoTemplate \in TemplateRow /\ NoTemplate.life = "unused" /\ NoTemplate.version = 0
  BY FormsAssumption DEF FormsAssumption, NoTemplate, TemplateRow, Life

LEMMA NoEditIs ==
    /\ NoEdit.op = "idle" /\ NoEdit.seen \in TemplateRow /\ NoEdit.next \in TemplateRow
    /\ ~ Restructures(NoEdit)
  BY NoTemplateType DEF NoEdit, Restructures

LEMMA FormsInvInit == FormsInit => FormsInv
<1> SUFFICES ASSUME FormsInit PROVE FormsInv
  OBVIOUS
<1>1. /\ filed = [s \in Filings |-> NotFiled] /\ edit = [e \in Editors |-> NoEdit] /\ forked = {}
      /\ template = [t \in Templates |-> NoTemplate]
      /\ \A s \in Filings : filed[s] = NotFiled
      /\ \A e \in Editors : edit[e] = NoEdit
      /\ \A t \in Templates : template[t] = NoTemplate
  BY DEF FormsInit
<1>2. category \in CategoryRow
  BY DEF FormsInit, CategoryRow, Life
<1>3. FormsTypeOK
  BY <1>1, <1>2, NoTemplateType, NoEditIs DEF FormsTypeOK
<1>4. \A t, v, x : ~ Carries(t, v, x)
  BY <1>1, NoEditIs DEF Carries
<1>5. \A e \in Editors : EditOK(e)
  BY <1>1, NoEditIs DEF EditOK
<1> QED
  BY <1>1, <1>3, <1>4, <1>5, NoTemplateType DEF FormsInv, Versioned, FiledOK

\* A template keeps its version and its structure, or goes to a later version: what is carried
\* stays versioned, if nothing but what is present is carried from now on.
LEMMA StaysVersioned ==
    ASSUME NEW t \in Templates, Versioned(t), template[t].version \in Nat, template'[t].version \in Nat,
           \/ template'[t].version = template[t].version /\ template'[t].structure = template[t].structure
           \/ /\ template'[t].version > template[t].version
              /\ \A v, x : Carries(t, v, x)' => Carries(t, v, x),
           \A v, x : Carries(t, v, x)' =>
              Carries(t, v, x) \/ (v = template[t].version /\ x = template[t].structure)
    PROVE  Versioned(t)'
<1>1. \A v, x : Carries(t, v, x) =>
         /\ v \in 0 .. template[t].version
         /\ v = template[t].version => x = template[t].structure
         /\ \A y : Carries(t, v, y) => x = y
  BY DEF Versioned
<1> SUFFICES ASSUME NEW v, NEW x, Carries(t, v, x)'
             PROVE  /\ v \in 0 .. template'[t].version
                    /\ v = template'[t].version => x = template'[t].structure
                    /\ \A y : Carries(t, v, y)' => x = y
  BY DEF Versioned
<1>2. v \in 0 .. template[t].version /\ (v = template[t].version => x = template[t].structure)
  BY <1>1
<1>3. v \in 0 .. template'[t].version
  BY <1>2
<1>4. v = template'[t].version => x = template'[t].structure
  BY <1>1, <1>2
<1>5. ASSUME NEW y, Carries(t, v, y)' PROVE x = y
  BY <1>1, <1>2, <1>5
<1> QED
  BY <1>3, <1>4, <1>5

\* What holds of a request goes on holding while it waits.
LEMMA EditWaits ==
    ASSUME FormsInv, NEW d \in Editors, edit'[d] = edit[d], forked \subseteq forked',
           \A t \in Templates : template[t].life # "unused" => template'[t].life # "unused",
           Restructures(edit[d]) /\ edit[d].template \in Templates \ forked' =>
              /\ template'[edit[d].template].version = template[edit[d].template].version
              /\ template'[edit[d].template].structure = template[edit[d].template].structure
              /\ \A c \in Editors \ {d} : Restructures(edit'[c]) => edit'[c].template # edit[d].template
    PROVE  EditOK(d)'
<1>1. EditOK(d) /\ Restructures(edit[d])' = Restructures(edit[d])
  BY DEF FormsInv, Restructures
<1>2. /\ edit[d].op \in {"update", "submit"} =>
            edit[d].template \in Templates /\ template'[edit[d].template].life # "unused"
      /\ Restructures(edit[d]) => edit[d].op = "update"
  BY <1>1 DEF EditOK, Restructures
<1>3. \A c \in Editors : Restructures(edit[c])' = Restructures(edit'[c])
  BY DEF Restructures
<1> QED
  BY <1>1, <1>2, <1>3 DEF EditOK

\* A step that leaves the templates, the filings and the requests as they are.
LEMMA FormsRest ==
    ASSUME FormsInv, category' \in CategoryRow, UNCHANGED <<template, filed, edit, forked>>
    PROVE  FormsInv'
<1>1. \A t, v, x : Carries(t, v, x)' = Carries(t, v, x)
  BY DEF Carries
<1>2. \A t \in Templates \ forked' : Versioned(t)'
  BY <1>1 DEF FormsInv, Versioned
<1>3. \A e \in Editors : EditOK(e)'
  BY DEF FormsInv, EditOK, Restructures
<1>4. FormsTypeOK'
  BY DEF FormsInv, FormsTypeOK
<1> QED
  BY <1>2, <1>3, <1>4 DEF FormsInv, FiledOK

\* A template is created, or changes but for its version and its structure, and a request may end.
LEMMA TemplateMoves ==
    ASSUME FormsInv, NEW t \in Templates, NEW line \in TemplateRow, line.life # "unused",
           template' = [template EXCEPT ![t] = line], UNCHANGED <<category, filed, forked>>,
           DOMAIN edit' = Editors, edit' = [d \in Editors |-> edit'[d]],
           \A d \in Editors : edit'[d] = edit[d] \/ edit'[d] = NoEdit,
           \/ line.version = template[t].version /\ line.structure = template[t].structure
           \/ line.version > template[t].version /\ template[t].life = "unused"
    PROVE  FormsInv'
<1>1. /\ FormsTypeOK /\ template \in [Templates -> TemplateRow]
      /\ \A u \in Templates : template[u].version \in Nat
  BY DEF FormsInv, FormsTypeOK, TemplateRow
<1>2. /\ template' \in [Templates -> TemplateRow] /\ template'[t] = line
      /\ \A u \in Templates : u # t => template'[u] = template[u]
      /\ \A u \in Templates : template'[u].version \in Nat
  BY <1>1 DEF TemplateRow
<1>3. FormsTypeOK'
  BY <1>1, <1>2, NoEditIs DEF FormsTypeOK
<1>4. \A u, v, x : Carries(u, v, x)' => Carries(u, v, x)
  BY NoEditIs DEF Carries
<1>5. ASSUME NEW u \in Templates \ forked' PROVE Versioned(u)'
  <2>1. Versioned(u)
    BY DEF FormsInv
  <2>2. \/ template'[u].version = template[u].version /\ template'[u].structure = template[u].structure
        \/ template'[u].version > template[u].version
    BY <1>2
  <2> QED
    BY <1>1, <1>2, <1>4, <2>1, <2>2, StaysVersioned
<1>6. ASSUME NEW d \in Editors PROVE EditOK(d)'
  <2>1. \A u \in Templates : template[u].life # "unused" =>
           /\ template'[u].life # "unused" /\ template'[u].version = template[u].version
           /\ template'[u].structure = template[u].structure
    BY <1>2
  <2>2. EditOK(d) /\ (Restructures(edit[d]) => edit[d].op = "update")
    BY DEF FormsInv, Restructures
  <2>3. edit[d].op = "update" => edit[d].template \in Templates /\ template[edit[d].template].life # "unused"
    BY <2>2 DEF EditOK
  <2>4. Restructures(edit[d]) /\ edit[d].template \notin forked =>
           \A c \in Editors \ {d} : Restructures(edit'[c]) => edit'[c].template # edit[d].template
    BY <2>2, NoEditIs DEF EditOK
  <2>5. CASE edit'[d] = edit[d]
    BY <2>1, <2>2, <2>3, <2>4, <2>5, EditWaits
  <2>6. CASE edit'[d] = NoEdit
    BY <2>6, NoEditIs DEF EditOK, Restructures
  <2> QED
    BY <2>5, <2>6
<1>7. \A u \in Templates : template'[u].life = "unused" => template'[u].version = 0
  BY <1>2 DEF FormsInv
<1> QED
  BY <1>3, <1>5, <1>6, <1>7 DEF FormsInv, FiledOK

\* A request begins or ends, and the templates stay as they are.
LEMMA EditMoves ==
    ASSUME FormsInv, NEW e \in Editors, edit'[e].op \in {"idle", "create", "update", "submit"},
           {edit'[e].seen, edit'[e].next} \subseteq TemplateRow, edit' = [edit EXCEPT ![e] = edit'[e]],
           category' = category, template' = template, forked \subseteq forked', forked' \subseteq Templates,
           DOMAIN filed' = Filings, filed' = [s \in Filings |-> filed'[s]],
           \A s \in Filings : filed'[s] = NotFiled \/ filed'[s].template \in Templates,
           \A s \in Filings : FiledOK(s)',
           \A t \in Templates : \A v, x : Carries(t, v, x)' =>
              Carries(t, v, x) \/ (v = template[t].version /\ x = template[t].structure),
           \A d \in Editors \ {e} : Restructures(edit[d]) /\ edit[d].template \notin forked' =>
              ~ (Restructures(edit'[e]) /\ edit'[e].template = edit[d].template),
           EditOK(e)'
    PROVE  FormsInv'
<1>1. /\ FormsTypeOK /\ template' = template /\ template \in [Templates -> TemplateRow]
      /\ \A u \in Templates : template[u].version \in Nat
  BY DEF FormsInv, FormsTypeOK, TemplateRow
<1>2. /\ \A d \in Editors : d # e => edit'[d] = edit[d]
      /\ DOMAIN edit' = Editors /\ edit' = [d \in Editors |-> edit'[d]]
  BY DEF FormsInv
<1>3. FormsTypeOK'
  <2>1. \A d \in Editors : /\ edit'[d].op \in {"idle", "create", "update", "submit"}
                          /\ {edit'[d].seen, edit'[d].next} \subseteq TemplateRow
    BY <1>1, <1>2 DEF FormsTypeOK
  <2> QED
    BY <1>1, <2>1 DEF FormsTypeOK
<1>4. ASSUME NEW u \in Templates \ forked' PROVE Versioned(u)'
  <2>1. Versioned(u)
    BY DEF FormsInv
  <2> QED
    BY <1>1, <2>1, StaysVersioned
<1>5. ASSUME NEW d \in Editors, d # e PROVE EditOK(d)'
  <2>1. Restructures(edit[d]) /\ edit[d].template \notin forked =>
           \A c \in Editors \ {d} : Restructures(edit[c]) => edit[c].template # edit[d].template
    BY DEF FormsInv, EditOK
  <2>2. Restructures(edit[d]) /\ edit[d].template \notin forked' =>
           \A c \in Editors \ {d} : Restructures(edit'[c]) => edit'[c].template # edit[d].template
    BY <1>2, <1>5, <2>1
  <2> QED
    BY <1>1, <1>2, <1>5, <2>2, EditWaits
<1>6. \A t \in Templates : template'[t].life = "unused" => template'[t].version = 0
  BY <1>1 DEF FormsInv
<1> QED
  BY <1>2, <1>3, <1>4, <1>5, <1>6 DEF FormsInv

\* What is filed is as it was: only what the request newly carries can be carried anew.
LEMMA EditCarries ==
    ASSUME FormsInv, NEW e \in Editors, edit' = [edit EXCEPT ![e] = edit'[e]], UNCHANGED filed
    PROVE  /\ DOMAIN filed' = Filings /\ filed' = [s \in Filings |-> filed'[s]]
           /\ \A s \in Filings : filed'[s] = NotFiled \/ filed'[s].template \in Templates
           /\ \A s \in Filings : FiledOK(s)'
           /\ \A t, v, x : Carries(t, v, x)' =>
                 \/ Carries(t, v, x)
                 \/ /\ edit'[e].op = "submit" /\ edit'[e].template = t
                    /\ edit'[e].seen.version = v /\ edit'[e].seen.structure = x
<1>1. \A d \in Editors : d # e => edit'[d] = edit[d]
  BY DEF FormsInv
<1>2. \A t, v, x : Carries(t, v, x)' =>
                 \/ Carries(t, v, x)
                 \/ /\ edit'[e].op = "submit" /\ edit'[e].template = t
                    /\ edit'[e].seen.version = v /\ edit'[e].seen.structure = x
  BY <1>1 DEF Carries
<1> QED
  BY <1>2 DEF FormsInv, FormsTypeOK, FiledOK

LEMMA FailEditKept ==
    ASSUME FormsInv, NEW e \in Editors, FailEdit(e)
    PROVE  FormsInv'
<1>1. edit' = [edit EXCEPT ![e] = NoEdit] /\ UNCHANGED <<category, template, filed, forked>>
  BY DEF FailEdit
<1>2. edit'[e] = NoEdit /\ forked' \subseteq Templates
  BY <1>1 DEF FormsInv, FormsTypeOK
<1>3. EditOK(e)'
  BY <1>2, NoEditIs DEF EditOK, Restructures
<1>4. /\ edit'[e].op = "idle" /\ ~ Restructures(edit'[e]) /\ {edit'[e].seen, edit'[e].next} \subseteq TemplateRow
      /\ edit' = [edit EXCEPT ![e] = edit'[e]]
  BY <1>1, <1>2, NoEditIs
<1>5. \A t, v, x : Carries(t, v, x)' => Carries(t, v, x)
  BY <1>1, <1>4, EditCarries
<1>6. /\ DOMAIN filed' = Filings /\ filed' = [s \in Filings |-> filed'[s]]
      /\ \A s \in Filings : filed'[s] = NotFiled \/ filed'[s].template \in Templates
      /\ \A s \in Filings : FiledOK(s)'
  BY <1>1, <1>4, EditCarries
<1>7. edit'[e].op \in {"idle", "update", "submit"}
  BY <1>4
<1>8. category' = category /\ template' = template /\ forked \subseteq forked'
  BY <1>1
<1>9. \A t \in Templates : \A v, x : Carries(t, v, x)' =>
              Carries(t, v, x) \/ (v = template[t].version /\ x = template[t].structure)
  BY <1>5
<1>10. \A d \in Editors \ {e} : Restructures(edit[d]) /\ edit[d].template \notin forked' =>
              ~ (Restructures(edit'[e]) /\ edit'[e].template = edit[d].template)
  BY <1>4
<1> QED
  BY <1>2, <1>3, <1>4, <1>6, <1>7, <1>8, <1>9, <1>10, EditMoves

LEMMA LoadUpdateKept ==
    ASSUME FormsInv, NEW e \in Editors, NEW t \in Templates, LoadUpdate(e, t)
    PROVE  FormsInv'
<1> DEFINE line == template[t]
<1>1. line \in TemplateRow /\ line.life = "live" /\ line.version < MaxVersion /\ FormsTypeOK /\ forked \subseteq Templates
      /\ line.version \in Nat /\ MaxVersion \in Nat
  BY FormsAssumption DEF FormsInv, FormsTypeOK, LoadUpdate, TemplateRow, FormsAssumption
<1>2. PICK active \in BOOLEAN, s \in Structures, structural \in BOOLEAN :
          LET next == IF structural
                      THEN [line EXCEPT !.active = active, !.structure = s, !.version = @ + 1]
                      ELSE [line EXCEPT !.active = active]
              w == [NoEdit EXCEPT !.op = "update", !.template = t, !.seen = line, !.next = next] IN
          /\ BeginEdit(e, w)
          /\ forked' = IF structural /\ \E d \in Editors : Restructures(edit[d]) /\ edit[d].template = t
                       THEN forked \cup {t} ELSE forked
  BY DEF LoadUpdate
<1> DEFINE next == IF structural
                   THEN [line EXCEPT !.active = active, !.structure = s, !.version = @ + 1]
                   ELSE [line EXCEPT !.active = active]
           w == [NoEdit EXCEPT !.op = "update", !.template = t, !.seen = line, !.next = next]
<1>3. /\ next \in TemplateRow
      /\ structural => next.version = line.version + 1
      /\ ~ structural => next.version = line.version /\ next.structure = line.structure
  <2>1. CASE structural
    <3>1. next = [line EXCEPT !.active = active, !.structure = s, !.version = line.version + 1]
      BY <2>1
    <3>2. line.version + 1 \in 0 .. MaxVersion
      BY <1>1
    <3> HIDE DEF next, line
    <3>3. next \in TemplateRow /\ next.version = line.version + 1
      BY <1>1, <3>1, <3>2 DEF TemplateRow
    <3> QED
      BY <2>1, <3>3
  <2>2. CASE ~ structural
    <3>1. next = [line EXCEPT !.active = active]
      BY <2>2
    <3> HIDE DEF next, line
    <3>2. next \in TemplateRow /\ next.version = line.version /\ next.structure = line.structure
      BY <1>1, <3>1 DEF TemplateRow
    <3> QED
      BY <2>2, <3>2
  <2> QED
    BY <2>1, <2>2
<1>4. /\ edit' = [edit EXCEPT ![e] = w] /\ UNCHANGED <<category, template, filed>> /\ edit[e].op = "idle"
      /\ forked' = IF structural /\ \E d \in Editors : Restructures(edit[d]) /\ edit[d].template = t
                   THEN forked \cup {t} ELSE forked
  BY <1>2 DEF LoadUpdate, BeginEdit
<1> HIDE DEF next
<1>5. w.op = "update" /\ w.template = t /\ w.seen = line /\ w.next = next
  BY DEF NoEdit
<1> HIDE DEF w
<1>6. /\ {w.seen, w.next} \subseteq TemplateRow /\ (Restructures(w) <=> structural)
      /\ edit'[e] = w /\ forked \subseteq forked' /\ forked' \subseteq Templates
      /\ \A d \in Editors : d # e => edit'[d] = edit[d]
  <2>1. Restructures(w) <=> structural
    BY <1>1, <1>3, <1>5 DEF Restructures
  <2> QED
    BY <1>1, <1>3, <1>4, <1>5, <2>1 DEF FormsInv
<1>7. \A d \in Editors \ {e} : structural /\ t \notin forked' => ~ (Restructures(edit[d]) /\ edit[d].template = t)
  BY <1>4
<1>8. EditOK(e)'
  <2>1. (Restructures(edit[e])' <=> structural) /\ \A d \in Editors : Restructures(edit[d])' = Restructures(edit'[d])
    BY <1>6 DEF Restructures
  <2> QED
    BY <1>1, <1>3, <1>4, <1>5, <1>6, <1>7, <2>1 DEF EditOK
<1>9. /\ DOMAIN filed' = Filings /\ filed' = [q \in Filings |-> filed'[q]]
      /\ \A q \in Filings : filed'[q] = NotFiled \/ filed'[q].template \in Templates
      /\ \A q \in Filings : FiledOK(q)'
      /\ \A u, v, x : Carries(u, v, x)' => Carries(u, v, x)
  BY <1>4, <1>5, <1>6, EditCarries
<1>10. /\ edit'[e].op = "update" /\ {edit'[e].seen, edit'[e].next} \subseteq TemplateRow
       /\ edit' = [edit EXCEPT ![e] = edit'[e]] /\ category' = category /\ template' = template
  BY <1>4, <1>5, <1>6
<1>11. \A d \in Editors \ {e} : Restructures(edit[d]) /\ edit[d].template \notin forked' =>
          ~ (Restructures(edit'[e]) /\ edit'[e].template = edit[d].template)
  BY <1>5, <1>6, <1>7
<1> QED
  BY <1>6, <1>8, <1>9, <1>10, <1>11, EditMoves

LEMMA LoadCategoryKept ==
    ASSUME FormsInv, NEW e \in Editors, LoadCategory(e)
    PROVE  FormsInv'
<1>1. PICK w : w = [NoEdit EXCEPT !.op = "create"]
  OBVIOUS
<1>2. w.op = "create" /\ w.seen = NoEdit.seen /\ w.next = NoEdit.next
  BY <1>1 DEF NoEdit
<1>3. edit' = [edit EXCEPT ![e] = w] /\ UNCHANGED <<category, template, filed, forked>>
  BY <1>1 DEF LoadCategory, BeginEdit
<1>4. edit'[e] = w /\ forked' \subseteq Templates
  BY <1>3 DEF FormsInv, FormsTypeOK
<1>5. EditOK(e)'
  BY <1>2, <1>4 DEF EditOK, Restructures
<1>6. /\ edit'[e].op = "create" /\ ~ Restructures(edit'[e]) /\ {edit'[e].seen, edit'[e].next} \subseteq TemplateRow
  BY <1>2, <1>4, NoEditIs DEF Restructures
<1>7. edit' = [edit EXCEPT ![e] = edit'[e]] /\ UNCHANGED filed
  BY <1>3, <1>4
<1>8. /\ DOMAIN filed' = Filings /\ filed' = [s \in Filings |-> filed'[s]]
      /\ \A s \in Filings : filed'[s] = NotFiled \/ filed'[s].template \in Templates
      /\ \A s \in Filings : FiledOK(s)'
      /\ \A t, v, x : Carries(t, v, x)' => Carries(t, v, x)
  BY <1>6, <1>7, EditCarries
<1> QED
  BY <1>3, <1>4, <1>5, <1>6, <1>7, <1>8, EditMoves

LEMMA LoadSubmissionKept ==
    ASSUME FormsInv, NEW e \in Editors, NEW t \in Templates, NEW p \in Payloads, LoadSubmission(e, t, p)
    PROVE  FormsInv'
<1> DEFINE line == template[t]
           filled == Validated(line.structure, p)
           w == [NoEdit EXCEPT !.op = "submit", !.template = t, !.seen = line, !.filled = filled]
<1>1. line \in TemplateRow /\ line.life = "live" /\ line.structure \in Structures /\ forked \subseteq Templates
  BY DEF FormsInv, FormsTypeOK, LoadSubmission, TemplateRow
<1>2. /\ edit' = [edit EXCEPT ![e] = w] /\ UNCHANGED <<category, template, filed, forked>> /\ filled # Refused
  BY DEF LoadSubmission, BeginEdit
<1>3. Validated(line.structure, filled) = filled
  BY <1>1, <1>2, ValidatedTwice
<1> HIDE DEF filled
<1>4. w.op = "submit" /\ w.template = t /\ w.seen = line /\ w.next = NoEdit.next /\ w.filled = filled
  BY DEF NoEdit
<1> HIDE DEF w
<1>5. {w.seen, w.next} \subseteq TemplateRow /\ ~ Restructures(w) /\ edit'[e] = w
  BY <1>1, <1>2, <1>4, NoEditIs DEF Restructures, FormsInv
<1>6. EditOK(e)'
  BY <1>1, <1>2, <1>3, <1>4, <1>5 DEF EditOK, Restructures
<1>7. /\ DOMAIN filed' = Filings /\ filed' = [q \in Filings |-> filed'[q]]
      /\ \A q \in Filings : filed'[q] = NotFiled \/ filed'[q].template \in Templates
      /\ \A q \in Filings : FiledOK(q)'
      /\ \A u, v, x : Carries(u, v, x)' =>
            Carries(u, v, x) \/ (t = u /\ line.version = v /\ line.structure = x)
  <2>1. edit' = [edit EXCEPT ![e] = edit'[e]] /\ UNCHANGED filed
    BY <1>2, <1>5
  <2>2. \A u, v, x : Carries(u, v, x)' =>
            \/ Carries(u, v, x)
            \/ /\ edit'[e].op = "submit" /\ edit'[e].template = u
               /\ edit'[e].seen.version = v /\ edit'[e].seen.structure = x
    BY <2>1, EditCarries
  <2>3. edit'[e].template = t /\ edit'[e].seen = line
    BY <1>4, <1>5
  <2>4. \A u, v, x : Carries(u, v, x)' =>
            Carries(u, v, x) \/ (t = u /\ line.version = v /\ line.structure = x)
    BY <2>2, <2>3
  <2> QED
    BY <2>1, <2>4, EditCarries
<1>8. /\ edit'[e].op = "submit" /\ {edit'[e].seen, edit'[e].next} \subseteq TemplateRow /\ ~ Restructures(edit'[e])
      /\ edit' = [edit EXCEPT ![e] = edit'[e]] /\ category' = category /\ template' = template
      /\ forked \subseteq forked' /\ forked' \subseteq Templates
  BY <1>1, <1>2, <1>4, <1>5
<1> QED
  BY <1>6, <1>7, <1>8, EditMoves

LEMMA InsertSubmissionKept ==
    ASSUME FormsInv, NEW e \in Editors, NEW s \in Filings, InsertSubmission(e, s)
    PROVE  FormsInv'
<1> DEFINE v == edit[e]
           new == [life |-> "live", template |-> v.template, version |-> v.seen.version,
                   snapshot |-> v.seen.structure, filled |-> v.filled]
           w == NoEdit
<1>1. /\ v.op = "submit" /\ filed' = [filed EXCEPT ![s] = new] /\ edit' = [edit EXCEPT ![e] = w]
      /\ UNCHANGED <<category, template, forked>> /\ forked \subseteq Templates
      /\ v.template \in Templates /\ Validated(v.seen.structure, v.filled) = v.filled
  BY DEF InsertSubmission, FormsInv, FormsTypeOK, EditOK
<1>2. /\ filed'[s] = new /\ \A q \in Filings : q # s => filed'[q] = filed[q]
      /\ DOMAIN filed' = Filings /\ filed' = [q \in Filings |-> filed'[q]]
      /\ edit'[e] = w /\ \A d \in Editors : d # e => edit'[d] = edit[d]
  BY <1>1 DEF FormsInv
<1>3. w.op = "idle" /\ ~ Restructures(w) /\ {w.seen, w.next} \subseteq TemplateRow
  BY NoEditIs
<1>4. EditOK(e)'
  BY <1>2, <1>3 DEF EditOK, Restructures
<1> HIDE DEF w
<1>5. /\ new.template = v.template /\ new.version = v.seen.version /\ new.snapshot = v.seen.structure
      /\ new.filled = v.filled
  OBVIOUS
<1> HIDE DEF new
<1>6. \A q \in Filings : (filed'[q] = NotFiled \/ filed'[q].template \in Templates) /\ FiledOK(q)'
  BY <1>1, <1>2, <1>5 DEF FormsInv, FormsTypeOK, FiledOK
<1>7. \A t, n, x : Carries(t, n, x)' => Carries(t, n, x)
  BY <1>1, <1>2, <1>3, <1>5 DEF Carries
<1>8. /\ edit'[e].op = "idle" /\ {edit'[e].seen, edit'[e].next} \subseteq TemplateRow /\ ~ Restructures(edit'[e])
      /\ edit' = [edit EXCEPT ![e] = edit'[e]] /\ category' = category /\ template' = template
      /\ forked \subseteq forked' /\ forked' \subseteq Templates
  BY <1>1, <1>2, <1>3
<1> QED
  BY <1>2, <1>4, <1>6, <1>7, <1>8, EditMoves

LEMMA CommitUpdateKept ==
    ASSUME FormsInv, NEW e \in Editors, CommitUpdate(e)
    PROVE  FormsInv'
<1> DEFINE v == edit[e]
           t == v.template
           line == template[t]
           active == Written(line.active, v.seen.active, v.next.active)
           version == Written(line.version, v.seen.version, v.next.version)
           structure == Written(line.structure, v.seen.structure, v.next.structure)
           new == [line EXCEPT !.active = active, !.version = version, !.structure = structure]
           restructures == Restructures(v)
<1>1. /\ v.op = "update" /\ t \in Templates /\ line.life # "unused" /\ EditOK(e) /\ FormsTypeOK
      /\ v.seen \in TemplateRow /\ v.next \in TemplateRow /\ line \in TemplateRow
      /\ template \in [Templates -> TemplateRow] /\ forked \subseteq Templates
  BY DEF CommitUpdate, FormsInv, FormsTypeOK, EditOK
<1>2. /\ template' = [template EXCEPT ![t] = new] /\ edit' = [edit EXCEPT ![e] = NoEdit]
      /\ UNCHANGED <<category, filed, forked>>
  BY DEF CommitUpdate
<1>3. active \in BOOLEAN /\ version \in 0 .. MaxVersion /\ structure \in Structures
  BY <1>1 DEF Written, TemplateRow
<1>4. /\ ~ restructures => version = line.version /\ structure = line.structure
      /\ restructures /\ t \notin forked => version = line.version + 1
  <2>1. v.seen.version \in Nat /\ v.seen.structure = v.seen.structure
    BY <1>1 DEF TemplateRow
  <2> QED
    BY <1>1, <2>1 DEF EditOK, Restructures, Written
<1> HIDE DEF active, version, structure
<1>5. new \in TemplateRow /\ new.life = line.life /\ new.version = version /\ new.structure = structure
  BY <1>1, <1>3 DEF TemplateRow
<1> HIDE DEF new, line
<1>6. /\ template' \in [Templates -> TemplateRow] /\ template'[t] = new
      /\ \A u \in Templates : u # t => template'[u] = template[u]
      /\ \A u \in Templates : template[u].version \in Nat /\ template'[u].version \in Nat
  <2>1. /\ template' \in [Templates -> TemplateRow] /\ template'[t] = new
        /\ \A u \in Templates : u # t => template'[u] = template[u]
    BY <1>1, <1>2, <1>5
  <2> QED
    BY <1>1, <2>1 DEF TemplateRow
<1>7. edit' = [edit EXCEPT ![e] = edit'[e]] /\ edit'[e] = NoEdit /\ \A d \in Editors : d # e => edit'[d] = edit[d]
  BY <1>2 DEF FormsInv
<1>8. /\ DOMAIN filed' = Filings /\ filed' = [s \in Filings |-> filed'[s]]
      /\ \A s \in Filings : filed'[s] = NotFiled \/ filed'[s].template \in Templates
      /\ \A s \in Filings : FiledOK(s)'
      /\ \A u, n, x : Carries(u, n, x)' => Carries(u, n, x)
  <2>1. edit'[e].op = "idle"
    BY <1>7, NoEditIs
  <2> QED
    BY <1>2, <1>7, <2>1, EditCarries
<1>9. DOMAIN edit' = Editors /\ edit' = [d \in Editors |-> edit'[d]]
  BY <1>2 DEF FormsInv
<1>10. FormsTypeOK'
  <2>1. \A d \in Editors : /\ edit'[d].op \in {"idle", "create", "update", "submit"}
                          /\ {edit'[d].seen, edit'[d].next} \subseteq TemplateRow
    BY <1>1, <1>7, NoEditIs DEF FormsTypeOK
  <2> QED
    BY <1>1, <1>2, <1>6, <1>8, <2>1 DEF FormsTypeOK
<1>11. \A u \in Templates : /\ template[u].life # "unused" => template'[u].life # "unused"
                            /\ template'[u].life = "unused" => template'[u].version = 0
  BY <1>1, <1>5, <1>6 DEF line, FormsInv
<1>12. ASSUME NEW u \in Templates \ forked' PROVE Versioned(u)'
  <2>1. Versioned(u)
    BY <1>2 DEF FormsInv
  <2>2. \/ template'[u].version = template[u].version /\ template'[u].structure = template[u].structure
        \/ template'[u].version > template[u].version
    BY <1>2, <1>4, <1>5, <1>6 DEF line
  <2> QED
    BY <1>6, <1>8, <2>1, <2>2, StaysVersioned
<1>13. ASSUME NEW d \in Editors PROVE EditOK(d)'
  <2>1. CASE d = e
    BY <1>7, <2>1, NoEditIs DEF EditOK, Restructures
  <2>2. CASE d # e
    <3>1. EditOK(d) /\ edit'[d] = edit[d]
      BY <1>7, <2>2 DEF FormsInv
    <3>2. Restructures(edit[d]) /\ edit[d].template \in Templates \ forked' =>
             /\ template'[edit[d].template].version = template[edit[d].template].version
             /\ template'[edit[d].template].structure = template[edit[d].template].structure
      <4>1. Restructures(edit[d]) /\ edit[d].template \notin forked => ~ restructures \/ edit[d].template # t
        BY <2>2, <3>1 DEF EditOK
      <4> QED
        BY <1>2, <1>4, <1>5, <1>6, <4>1 DEF line
    <3>3. Restructures(edit[d]) /\ edit[d].template \notin forked' =>
             \A c \in Editors \ {d} : Restructures(edit'[c]) => edit'[c].template # edit[d].template
      BY <1>2, <1>7, <3>1, NoEditIs DEF EditOK
    <3> QED
      BY <1>2, <1>11, <3>1, <3>2, <3>3, EditWaits
  <2> QED
    BY <2>1, <2>2
<1> QED
  BY <1>8, <1>9, <1>10, <1>11, <1>12, <1>13 DEF FormsInv

LEMMA FormsInvNext == FormsInv /\ [FormsNext]_formVars => FormsInv'
<1> SUFFICES ASSUME FormsInv, [FormsNext]_formVars PROVE FormsInv'
  OBVIOUS
<1>1. category \in CategoryRow /\ template \in [Templates -> TemplateRow]
  BY DEF FormsInv, FormsTypeOK
<1>2. CASE CreateCategory \/ UpdateCategory \/ DeleteCategory
  <2>1. category' \in CategoryRow
    <3>1. CASE CreateCategory
      BY <3>1 DEF CreateCategory, CategoryRow, Life
    <3>2. CASE UpdateCategory
      <4>1. PICK active \in BOOLEAN : category' = [category EXCEPT !.active = active]
        BY <3>2 DEF UpdateCategory
      <4> QED
        BY <1>1, <4>1 DEF CategoryRow
    <3>3. CASE DeleteCategory
      BY <1>1, <3>3 DEF DeleteCategory, SoftDeleted, CategoryRow, Life
    <3> QED
      BY <1>2, <3>1, <3>2, <3>3
  <2>2. UNCHANGED <<template, filed, edit, forked>>
    BY <1>2 DEF CreateCategory, UpdateCategory, DeleteCategory
  <2> QED
    BY <2>1, <2>2, FormsRest
<1>3. ASSUME NEW e \in Editors, NEW t \in Templates, InsertTemplate(e, t) PROVE FormsInv'
  <2>1. PICK active \in BOOLEAN, s \in Structures :
           template' = [template EXCEPT ![t] = [life |-> "live", active |-> active, version |-> 1, structure |-> s]]
    BY <1>3 DEF InsertTemplate
  <2> DEFINE line == [life |-> "live", active |-> active, version |-> 1, structure |-> s]
  <2>2. line \in TemplateRow /\ line.life # "unused" /\ line.version = 1
    BY FormsAssumption DEF FormsAssumption, TemplateRow, Life
  <2>3. template[t].life = "unused" /\ template[t].version = 0 /\ UNCHANGED <<category, filed, forked>>
    BY <1>3 DEF InsertTemplate, FormsInv
  <2>4. template' = [template EXCEPT ![t] = line]
    BY <2>1
  <2> HIDE DEF line
  <2>5. line.version > template[t].version
    BY <2>2, <2>3
  <2>6. /\ DOMAIN edit' = Editors /\ edit' = [d \in Editors |-> edit'[d]]
        /\ \A d \in Editors : edit'[d] = edit[d] \/ edit'[d] = NoEdit
    BY <1>3 DEF InsertTemplate, FormsInv
  <2> QED
    BY <2>2, <2>3, <2>4, <2>5, <2>6, TemplateMoves
<1>4. ASSUME NEW t \in Templates, DeleteTemplate(t) PROVE FormsInv'
  <2> DEFINE line == [template[t] EXCEPT !.life = "deleted"]
  <2>1. template' = [template EXCEPT ![t] = line] /\ UNCHANGED <<category, filed, edit, forked>>
    BY <1>4 DEF DeleteTemplate, SoftDeleted
  <2>2. /\ line \in TemplateRow /\ line.life = "deleted" /\ line.version = template[t].version
        /\ line.structure = template[t].structure
    <3>1. template[t] \in TemplateRow
      BY <1>1
    <3> QED
      BY <3>1 DEF TemplateRow, Life
  <2>3. DOMAIN edit' = Editors /\ edit' = [d \in Editors |-> edit'[d]] /\ edit' = edit
    BY <2>1 DEF FormsInv
  <2> HIDE DEF line
  <2> QED
    BY <2>1, <2>2, <2>3, TemplateMoves
<1>5. ASSUME NEW e \in Editors,
             \/ \E t \in Templates : LoadUpdate(e, t) \/ \E p \in Payloads : LoadSubmission(e, t, p)
             \/ CommitUpdate(e) \/ LoadCategory(e)
             \/ \E s \in Filings : InsertSubmission(e, s)
             \/ FailEdit(e)
      PROVE  FormsInv'
  BY <1>5, LoadUpdateKept, LoadCategoryKept, LoadSubmissionKept, CommitUpdateKept, InsertSubmissionKept, FailEditKept
<1>6. CASE UNCHANGED formVars
  BY <1>1, <1>6, FormsRest DEF formVars
<1> QED
  BY <1>2, <1>3, <1>4, <1>5, <1>6 DEF FormsNext

\* What is filed under a form, or about to be, carries the present structure of it or that of an
\* earlier version, one for each version, and is valid under it; an update that gives a form a new
\* structure is the only one under way, unless two have crossed.
THEOREM FormsTypes == FormsSpec => []FormsInv
  BY FormsInvInit, FormsInvNext, PTL DEF FormsSpec

\* However a form has been edited since, what was filed is still valid under the copy it carries,
\* value by value, and two filings of one version carry the same copy, but for forms of which two
\* structural updates have crossed.
THEOREM FiledStaysValidAlways == FormsSpec => []FiledStaysValid
<1>1. FormsInv => FiledStaysValid
  <2> SUFFICES ASSUME FormsInv PROVE FiledStaysValid
    OBVIOUS
  <2>1. \A s \in Filed : Validated(filed[s].snapshot, filed[s].filled) = filed[s].filled
    BY DEF FormsInv, FiledOK, Filed
  <2>2. ASSUME NEW s \in Filed, NEW q \in Filed, filed[s].template = filed[q].template,
               filed[s].version = filed[q].version, filed[s].template \notin forked
        PROVE  filed[s].snapshot = filed[q].snapshot
    <3>1. filed[s].template \in Templates
      BY DEF FormsInv, FormsTypeOK, Filed
    <3>2. Versioned(filed[s].template)
      BY <2>2, <3>1 DEF FormsInv
    <3>3. /\ Carries(filed[s].template, filed[s].version, filed[s].snapshot)
          /\ Carries(filed[s].template, filed[s].version, filed[q].snapshot)
      BY <2>2 DEF Carries, Filed
    <3> QED
      BY <3>2, <3>3 DEF Versioned
  <2> QED
    BY <2>1, <2>2 DEF FiledStaysValid
<1> QED
  BY <1>1, FormsTypes, PTL
-----------------------------------------------------------------------------
(* Sums over finite sets. *)

\* f adds up v over the subsets of S as a fold does.
AddsUp(f, v, S) ==
    f = [s \in SUBSET S |-> IF s = {} THEN 0
                            ELSE v[CHOOSE x \in s : TRUE] + f[s \ {CHOOSE x \in s : TRUE}]]

LEMMA AddsUpOneWay ==
    ASSUME NEW S, IsFiniteSet(S), NEW v, NEW f, AddsUp(f, v, S), NEW g, AddsUp(g, v, S)
    PROVE  f = g
<1> DEFINE T == {s \in SUBSET S : f[s] # g[s]}
<1>1. SUFFICES ASSUME T # {} PROVE FALSE
  <2>1. T = {} => \A s \in SUBSET S : f[s] = g[s]
    OBVIOUS
  <2>2. f = [s \in SUBSET S |-> f[s]] /\ g = [s \in SUBSET S |-> g[s]]
    BY DEF AddsUp
  <2> QED
    BY <1>1, <2>1, <2>2
<1>2. T \subseteq FiniteSubsetsOf(S)
  BY FS_FiniteSubsetsOfFinite
<1> HIDE DEF T
<1>3. PICK s \in T : \A t \in T : ~ (<<t, s>> \in StrictSubsetOrdering(S))
  BY <1>1, <1>2, FS_StrictSubsetOrderingWellFounded, WFMin
<1>4. s \in SUBSET S /\ f[s] # g[s]
  BY <1>3 DEF T
<1> DEFINE c == CHOOSE x \in s : TRUE
<1>5. /\ f[s] = IF s = {} THEN 0 ELSE v[c] + f[s \ {c}]
      /\ g[s] = IF s = {} THEN 0 ELSE v[c] + g[s \ {c}]
  BY <1>4 DEF AddsUp
<1>6. s # {} /\ c \in s
  BY <1>4, <1>5
<1> HIDE DEF c
<1>7. s \ {c} \in SUBSET S /\ s \ {c} # s /\ s \ {c} \subseteq s
  BY <1>4, <1>6
<1>8. s \ {c} \notin T
  BY <1>3, <1>4, <1>7 DEF StrictSubsetOrdering
<1>9. f[s \ {c}] = g[s \ {c}]
  BY <1>7, <1>8 DEF T
<1> QED
  BY <1>4, <1>5, <1>6, <1>9

LEMMA SumIsThat ==
    ASSUME NEW S, IsFiniteSet(S), NEW v, DOMAIN v = S, NEW f, AddsUp(f, v, S)
    PROVE  SumFunction(v) = f[S]
<1> DEFINE iter[s \in SUBSET S] == IF s = {} THEN 0
                            ELSE v[CHOOSE x \in s : TRUE] + iter[s \ {CHOOSE x \in s : TRUE}]
<1>1. SumFunction(v) = iter[S]
  BY DEF SumFunction, SumFunctionOnSet, FoldFunctionOnSet, MapThenFoldSet
<1>2. iter = CHOOSE g : AddsUp(g, v, S)
  BY DEF AddsUp
<1>3. AddsUp(iter, v, S)
  BY <1>2
<1>4. iter = f
  <2> HIDE DEF iter
  <2> QED BY <1>3, AddsUpOneWay
<1> QED
  BY <1>1, <1>4

\* The parts of a disjoint union, counted one by one, are as many as the whole.
LEMMA CardinalityAddsUp ==
    ASSUME NEW S, IsFiniteSet(S), NEW g, DOMAIN g = S,
           \A p \in S : IsFiniteSet(g[p]),
           \A p, q \in S : p # q => g[p] \cap g[q] = {}
    PROVE  SumFunction([p \in S |-> Cardinality(g[p])]) = Cardinality(UNION {g[p] : p \in S})
<1> DEFINE v == [p \in S |-> Cardinality(g[p])]
           All(s) == UNION {g[p] : p \in s}
<1>1. PICK f : f = [s \in SUBSET S |-> Cardinality(All(s))]
  OBVIOUS
<1>2. ASSUME NEW s \in SUBSET S PROVE IsFiniteSet(All(s))
  <2>1. IsFiniteSet(s)
    BY FS_Subset
  <2>2. PICK h : h = [p \in s |-> g[p]]
    OBVIOUS
  <2>3. h \in Surjection(s, {g[p] : p \in s})
    BY <2>2 DEF Surjection
  <2>4. IsFiniteSet({g[p] : p \in s})
    BY <2>1, <2>3, FS_Surjection
  <2> QED
    BY <1>2, <2>4, FS_UNION
<1>3. AddsUp(f, v, S)
  <2>1. SUFFICES ASSUME NEW s \in SUBSET S
                 PROVE  f[s] = IF s = {} THEN 0
                            ELSE v[CHOOSE x \in s : TRUE] + f[s \ {CHOOSE x \in s : TRUE}]
    BY <1>1 DEF AddsUp
  <2>2. CASE s = {}
    <3>1. All(s) = {}
      BY <2>2
    <3> QED
      BY <1>1, <2>2, <3>1, FS_EmptySet
  <2>3. CASE s # {}
    <3>1. PICK c : c = CHOOSE x \in s : TRUE
      OBVIOUS
    <3>2. c \in s /\ c \in S
      BY <2>3, <3>1
    <3>3. PICK rest : rest = All(s \ {c})
      OBVIOUS
    <3>4. All(s) = g[c] \cup rest /\ g[c] \cap rest = {}
      BY <3>2, <3>3
    <3>5. IsFiniteSet(rest) /\ IsFiniteSet(g[c])
      BY <1>2, <3>2, <3>3
    <3>6. Cardinality(g[c] \cup rest) = Cardinality(g[c]) + Cardinality(rest) - 0
      BY <3>4, <3>5, FS_Union, FS_EmptySet
    <3>7. Cardinality(g[c]) \in Nat /\ Cardinality(rest) \in Nat
      BY <3>5, FS_CardinalityType
    <3>8. f[s] = Cardinality(g[c]) + Cardinality(rest)
      <4>1. f[s] = Cardinality(g[c] \cup rest)
        BY <1>1, <3>4
      <4> HIDE DEF All
      <4> QED
        BY <3>6, <3>7, <4>1
    <3>9. f[s \ {c}] = Cardinality(rest) /\ v[c] = Cardinality(g[c])
      BY <1>1, <3>2, <3>3
    <3> QED
      BY <2>3, <3>1, <3>8, <3>9
  <2> QED
    BY <2>2, <2>3
<1>4. DOMAIN v = S
  OBVIOUS
<1> HIDE DEF v
<1>5. SumFunction(v) = f[S]
  BY <1>3, <1>4, SumIsThat
<1>6. f[S] = Cardinality(All(S))
  BY <1>1
<1> QED
  BY <1>5, <1>6 DEF v

LEMMA CountsAddUp ==
    ASSUME NEW S, IsFiniteSet(S), NEW g, DOMAIN g = S, NEW whole, IsFiniteSet(whole),
           whole = UNION {g[p] : p \in S},
           \A p, q \in S : p # q => g[p] \cap g[q] = {}
    PROVE  Cardinality(whole) = SumFunction([p \in S |-> Cardinality(g[p])])
<1>1. \A p \in S : g[p] \subseteq whole
  OBVIOUS
<1>2. \A p \in S : IsFiniteSet(g[p])
  BY <1>1, FS_Subset
<1> QED
  BY <1>2, CardinalityAddsUp

\* A sum counts, of each x, as many tallies as x has.
Tallied(w, X) == UNION {{x} \X (1 .. w[x]) : x \in X}

LEMMA SumCountsTallies ==
    ASSUME NEW X, IsFiniteSet(X), NEW w, \A x \in X : w[x] \in Nat
    PROVE  /\ SumFunction([x \in X |-> w[x]]) = Cardinality(Tallied(w, X))
           /\ IsFiniteSet(Tallied(w, X))
<1>1. PICK g : g = [x \in X |-> {x} \X (1 .. w[x])]
  OBVIOUS
<1>2. \A x \in X : IsFiniteSet(g[x]) /\ Cardinality(g[x]) = w[x]
  <2> SUFFICES ASSUME NEW x \in X PROVE IsFiniteSet(g[x]) /\ Cardinality(g[x]) = w[x]
    OBVIOUS
  <2>1. IsFiniteSet(1 .. w[x]) /\ Cardinality(1 .. w[x]) = w[x]
    BY FS_Interval
  <2>2. PICK b : b = [i \in 1 .. w[x] |-> <<x, i>>]
    OBVIOUS
  <2>3. b \in Bijection(1 .. w[x], {x} \X (1 .. w[x]))
    <3>1. b \in [1 .. w[x] -> {x} \X (1 .. w[x])]
      BY <2>2
    <3>2. \A i, j \in 1 .. w[x] : b[i] = b[j] => i = j
      BY <2>2
    <3>3. ASSUME NEW y \in {x} \X (1 .. w[x]) PROVE \E i \in 1 .. w[x] : b[i] = y
      <4>1. y = <<x, y[2]>> /\ y[2] \in 1 .. w[x]
        OBVIOUS
      <4> QED
        BY <2>2, <4>1
    <3> QED
      BY <3>1, <3>2, <3>3 DEF Bijection, Injection, Surjection, IsInjective
  <2>4. ExistsBijection(1 .. w[x], {x} \X (1 .. w[x]))
    BY <2>3 DEF ExistsBijection
  <2> QED
    BY <1>1, <2>1, <2>4, FS_Bijection
<1>3. \A x, y \in X : x # y => g[x] \cap g[y] = {}
  BY <1>1
<1>4. DOMAIN g = X
  BY <1>1
<1>5. UNION {g[x] : x \in X} = Tallied(w, X)
  BY <1>1 DEF Tallied
<1>6. [x \in X |-> Cardinality(g[x])] = [x \in X |-> w[x]]
  BY <1>2
<1>7. IsFiniteSet(Tallied(w, X))
  <2>1. g \in Surjection(X, {g[x] : x \in X})
    BY <1>1 DEF Surjection
  <2>2. IsFiniteSet({g[x] : x \in X})
    BY <2>1, FS_Surjection
  <2> QED
    BY <1>2, <1>5, <2>2, FS_UNION
<1> QED
  BY <1>2, <1>3, <1>4, <1>5, <1>6, <1>7, CardinalityAddsUp

\* A sum adds up from those over the parts of its domain.
LEMMA SumAddsUp ==
    ASSUME NEW S, IsFiniteSet(S), NEW g, DOMAIN g = S, NEW whole, IsFiniteSet(whole),
           whole = UNION {g[p] : p \in S},
           \A p, q \in S : p # q => g[p] \cap g[q] = {},
           NEW w \in [whole -> Nat],
           NEW sums, sums = [p \in S |-> SumFunction([x \in g[p] |-> w[x]])]
    PROVE  SumFunction(w) = SumFunction(sums)
<1>1. ASSUME NEW p \in S
      PROVE  SumFunction([x \in g[p] |-> w[x]]) = Cardinality(Tallied(w, g[p])) /\ IsFiniteSet(Tallied(w, g[p]))
  <2>1. g[p] \subseteq whole
    OBVIOUS
  <2>2. IsFiniteSet(g[p]) /\ \A x \in g[p] : w[x] \in Nat
    BY <2>1, FS_Subset
  <2> QED
    BY <2>2, SumCountsTallies
<1>2. PICK m : m = [p \in S |-> Tallied(w, g[p])]
  OBVIOUS
<1>3. Tallied(w, whole) = UNION {m[p] : p \in S}
  BY <1>2 DEF Tallied
<1>4. \A p, q \in S : p # q => m[p] \cap m[q] = {}
  <2> SUFFICES ASSUME NEW p \in S, NEW q \in S, p # q, NEW z \in m[p], z \in m[q] PROVE FALSE
    OBVIOUS
  <2>1. z[1] \in g[p] /\ z[1] \in g[q]
    BY <1>2 DEF Tallied
  <2> QED
    BY <2>1
<1>5. SumFunction(w) = Cardinality(Tallied(w, whole)) /\ IsFiniteSet(Tallied(w, whole))
  <2>1. w = [x \in whole |-> w[x]]
    OBVIOUS
  <2>2. SumFunction([x \in whole |-> w[x]]) = Cardinality(Tallied(w, whole)) /\ IsFiniteSet(Tallied(w, whole))
    BY SumCountsTallies
  <2> QED
    BY <2>1, <2>2
<1>6. DOMAIN m = S
  BY <1>2
<1>7. Cardinality(Tallied(w, whole)) = SumFunction([p \in S |-> Cardinality(m[p])])
  BY <1>3, <1>4, <1>5, <1>6, CountsAddUp
<1>8. [p \in S |-> Cardinality(m[p])] = sums
  BY <1>1, <1>2
<1> QED
  BY <1>5, <1>7, <1>8

LEMMA SumOfTwo ==
    ASSUME NEW A, IsFiniteSet(A), NEW B, IsFiniteSet(B), A \cap B = {},
           NEW w, \A x \in A \cup B : w[x] \in Nat
    PROVE  SumFunction([x \in A \cup B |-> w[x]])
              = SumFunction([x \in A |-> w[x]]) + SumFunction([x \in B |-> w[x]])
<1>1. /\ SumFunction([x \in A |-> w[x]]) = Cardinality(Tallied(w, A)) /\ IsFiniteSet(Tallied(w, A))
      /\ SumFunction([x \in B |-> w[x]]) = Cardinality(Tallied(w, B)) /\ IsFiniteSet(Tallied(w, B))
  BY SumCountsTallies
<1>2. IsFiniteSet(A \cup B)
  BY FS_Union
<1>3. SumFunction([x \in A \cup B |-> w[x]]) = Cardinality(Tallied(w, A \cup B))
  BY <1>2, SumCountsTallies
<1>4. Tallied(w, A \cup B) = Tallied(w, A) \cup Tallied(w, B)
  BY DEF Tallied
<1>5. Tallied(w, A) \cap Tallied(w, B) = {}
  <2> SUFFICES ASSUME NEW z \in Tallied(w, A), z \in Tallied(w, B) PROVE FALSE
    OBVIOUS
  <2>1. z[1] \in A /\ z[1] \in B
    BY DEF Tallied
  <2> QED
    BY <2>1
<1>6. Cardinality(Tallied(w, A) \cup Tallied(w, B)) = Cardinality(Tallied(w, A)) + Cardinality(Tallied(w, B)) - 0
  BY <1>1, <1>5, FS_Union, FS_EmptySet
<1>7. Cardinality(Tallied(w, A)) \in Nat /\ Cardinality(Tallied(w, B)) \in Nat
  BY <1>1, FS_CardinalityType
<1>8. Cardinality(Tallied(w, A \cup B)) = Cardinality(Tallied(w, A)) + Cardinality(Tallied(w, B))
  <2>1. PICK a, b : a = Cardinality(Tallied(w, A)) /\ b = Cardinality(Tallied(w, B))
    OBVIOUS
  <2>2. a + b - 0 = a + b
    BY <1>7, <2>1
  <2> QED
    BY <1>4, <1>6, <2>1, <2>2, Zenon
<1> QED
  BY <1>1, <1>3, <1>8

\* A set of naturals has a least one.
LEMMA LeastNumber == ASSUME NEW T, T \subseteq Nat, T # {} PROVE \E x \in T : \A y \in T : x <= y
<1> DEFINE R == {ss \in Nat \X Nat : ss[1] < ss[2]}
<1>1. IsWellFoundedOn(R, Nat)
  BY NatLessThanWellFounded DEF OpToRel
<1> HIDE DEF R
<1>2. PICK x \in T : \A y \in T : ~(<<y, x>> \in R)
  BY <1>1, WFMin
<1>3. \A y \in T : ~(y < x)
  BY <1>2 DEF R
<1> QED
  BY <1>3

-----------------------------------------------------------------------------
(* Compliance. *)

LEMMA ComplianceTypeInit == ComplianceInit => ComplianceTypeOK
<1> SUFFICES ASSUME ComplianceInit PROVE ComplianceTypeOK
  OBVIOUS
<1>1. Someone \in Crew /\ (CHOOSE k \in Kinds : TRUE) \in Kinds
  BY ComplianceAssumption DEF Someone
<1>2. 0 \in 0 .. MaxDate
  BY ComplianceAssumption
<1>3. NoChecklist \in ChecklistRow
  BY <1>1, <1>2 DEF NoChecklist, ChecklistRow, Life, ChecklistStatuses
<1>4. [life |-> "unused", by |-> Someone, on |-> 0, pending |-> TRUE] \in JobRow
  BY <1>1, <1>2 DEF JobRow, Life
<1> QED
  BY <1>2, <1>3, <1>4 DEF ComplianceInit, ComplianceTypeOK

LEMMA ComplianceTypeStep == ComplianceTypeOK /\ [ComplianceNext]_complianceVars => ComplianceTypeOK'
<1> SUFFICES ASSUME ComplianceTypeOK, [ComplianceNext]_complianceVars PROVE ComplianceTypeOK'
  OBVIOUS
<1>1. /\ checklist \in [Checklists -> ChecklistRow] /\ job \in [Jobs -> JobRow]
      /\ date \in 0 .. MaxDate /\ date \in Nat
  BY ComplianceAssumption DEF ComplianceTypeOK
<1>2. ASSUME NEW c \in Checklists, NEW line \in ChecklistRow, checklist' = [checklist EXCEPT ![c] = line],
             UNCHANGED <<job, date>>
      PROVE  ComplianceTypeOK'
  BY <1>1, <1>2 DEF ComplianceTypeOK
<1>3. ASSUME NEW status, NEW line \in ChecklistRow PROVE SubmittedAt(line, status) \in 0 .. MaxDate
  BY <1>1 DEF SubmittedAt, ChecklistRow
<1>4. 0 .. date \subseteq 0 .. MaxDate
  BY <1>1, ComplianceAssumption
<1>5. ASSUME NEW c \in Checklists, FileChecklist(c) PROVE ComplianceTypeOK'
  <2>1. PICK kind \in Kinds, by \in Crew, on \in 0 .. date, region \in Regions \cup {Anyone},
             status \in ChecklistStatuses, decision \in {"Go", "No-Go"} :
             /\ decision = "No-Go" => kind = "technician-master-safety"
             /\ checklist' = [checklist EXCEPT ![c] =
                [life |-> "live", kind |-> kind, by |-> by, on |-> on, at |-> SubmittedAt(NoChecklist, status),
                 status |-> status, region |-> region, decision |-> decision, countersigned |-> FALSE]]
    BY <1>5, ZenonT(30) DEF FileChecklist
  <2>2. PICK at : at = SubmittedAt(NoChecklist, status)
    OBVIOUS
  <2>3. at \in 0 .. MaxDate
    <3>1. NoChecklist.at = 0
      BY DEF NoChecklist
    <3> QED
      BY <1>1, <2>2, <3>1, ComplianceAssumption DEF SubmittedAt
  <2>4. PICK no : no = FALSE
    OBVIOUS
  <2>5. [life |-> "live", kind |-> kind, by |-> by, on |-> on, at |-> at,
         status |-> status, region |-> region, decision |-> decision, countersigned |-> no] \in ChecklistRow
    BY <1>4, <2>3, <2>4 DEF ChecklistRow, Life
  <2>6. UNCHANGED <<job, date>>
    BY <1>5 DEF FileChecklist
  <2> QED
    BY <1>2, <2>1, <2>2, <2>4, <2>5, <2>6
<1>6. ASSUME NEW c \in Checklists, EditChecklist(c) PROVE ComplianceTypeOK'
  <2>1. PICK on \in 0 .. date, status \in ChecklistStatuses :
             checklist' = [checklist EXCEPT ![c].status = status, ![c].on = on,
                                            ![c].at = SubmittedAt(checklist[c], status)]
    BY <1>6 DEF EditChecklist
  <2>2. PICK at : at = SubmittedAt(checklist[c], status)
    OBVIOUS
  <2>3. at \in 0 .. MaxDate /\ checklist[c] \in ChecklistRow
    BY <1>1, <1>3, <2>2
  <2>4. PICK line : line = [checklist[c] EXCEPT !.status = status, !.on = on, !.at = at]
    OBVIOUS
  <2>5. line \in ChecklistRow
    BY <1>4, <2>3, <2>4 DEF ChecklistRow
  <2>6. checklist' = [checklist EXCEPT ![c] = line]
    BY <1>1, <2>1, <2>2, <2>4
  <2>7. UNCHANGED <<job, date>>
    BY <1>6 DEF EditChecklist
  <2> QED
    BY <1>2, <2>5, <2>6, <2>7
<1>7. ASSUME NEW c \in Checklists, Countersign(c) PROVE ComplianceTypeOK'
  <2>1. checklist' = [checklist EXCEPT ![c].status = "signed_off", ![c].countersigned = TRUE]
    BY <1>7 DEF Countersign
  <2>2. PICK line : line = [checklist[c] EXCEPT !.status = "signed_off", !.countersigned = TRUE]
    OBVIOUS
  <2>3. line \in ChecklistRow
    BY <1>1, <2>2 DEF ChecklistRow, ChecklistStatuses
  <2>4. checklist' = [checklist EXCEPT ![c] = line]
    BY <1>1, <2>1, <2>2
  <2>5. UNCHANGED <<job, date>>
    BY <1>7 DEF Countersign
  <2> QED
    BY <1>2, <2>3, <2>4, <2>5
<1>8. ASSUME NEW c \in Checklists, DeleteChecklist(c) PROVE ComplianceTypeOK'
  <2>1. SoftDeleted(checklist[c]) \in ChecklistRow
    BY <1>1 DEF SoftDeleted, ChecklistRow, Life
  <2>2. checklist' = [checklist EXCEPT ![c] = SoftDeleted(checklist[c])] /\ UNCHANGED <<job, date>>
    BY <1>8 DEF DeleteChecklist
  <2> QED
    BY <1>2, <2>1, <2>2
<1>9. ASSUME NEW j \in Jobs, PlanJob(j) PROVE ComplianceTypeOK'
  <2>1. PICK by \in Crew, on \in 0 .. MaxDate :
           job' = [job EXCEPT ![j] = [life |-> "live", by |-> by, on |-> on, pending |-> TRUE]]
    BY <1>9 DEF PlanJob
  <2>2. [life |-> "live", by |-> by, on |-> on, pending |-> TRUE] \in JobRow
    BY DEF JobRow, Life
  <2>3. UNCHANGED <<checklist, date>>
    BY <1>9 DEF PlanJob
  <2> QED
    BY <1>1, <2>1, <2>2, <2>3 DEF ComplianceTypeOK
<1>10. ASSUME NEW j \in Jobs, BeginJob(j) PROVE ComplianceTypeOK'
  <2>1. PICK line : line = [job[j] EXCEPT !.pending = FALSE]
    OBVIOUS
  <2>2. line \in JobRow
    BY <1>1, <2>1 DEF JobRow
  <2>3. job' = [job EXCEPT ![j] = line] /\ UNCHANGED <<checklist, date>>
    BY <1>1, <1>10, <2>1 DEF BeginJob
  <2> QED
    BY <1>1, <2>2, <2>3 DEF ComplianceTypeOK
<1>11. CASE NextDate
  BY <1>1, <1>11, ComplianceAssumption DEF NextDate, ComplianceTypeOK
<1>12. CASE UNCHANGED complianceVars
  BY <1>1, <1>12 DEF complianceVars, ComplianceTypeOK
<1> QED
  BY <1>5, <1>6, <1>7, <1>8, <1>9, <1>10, <1>11, <1>12 DEF ComplianceNext

\* The submissions, the tasks and the date keep their types, for any number of either.
THEOREM ComplianceTypes == ComplianceSpec => []ComplianceTypeOK
  BY ComplianceTypeInit, ComplianceTypeStep, PTL DEF ComplianceSpec

\* A report adds up from those of parts that share out its rows and its missed checks.
LEMMA PartsAddUp ==
    ASSUME NEW f, NEW parts, IsFiniteSet(parts),
           RowsFor(f) = UNION {RowsFor(p) : p \in parts},
           \A p, q \in parts : p # q => RowsFor(p) \cap RowsFor(q) = {},
           MissedChecks(f) = UNION {MissedChecks(p) : p \in parts}
    PROVE  SumsUp(f, parts)
<1>1. IsFiniteSet(RowsFor(f))
  BY FS_Subset, ComplianceAssumption DEF RowsFor
<1>2. ASSUME NEW kind \in Kinds, NEW status \in ChecklistStatuses
      PROVE  Volume(f, kind, status) = SumFunction([p \in parts |-> Volume(p, kind, status)])
  <2> DEFINE Of(x) == {c \in RowsFor(x) : checklist[c].kind = kind /\ checklist[c].status = status}
  <2>1. PICK g : g = [p \in parts |-> Of(p)]
    OBVIOUS
  <2>2. Of(f) = UNION {g[p] : p \in parts}
    BY <2>1
  <2>3. \A p, q \in parts : p # q => g[p] \cap g[q] = {}
    BY <2>1
  <2>4. IsFiniteSet(Of(f))
    BY <1>1, FS_Subset
  <2>5. PICK whole : whole = Of(f)
    OBVIOUS
  <2>6. Cardinality(whole) = SumFunction([p \in parts |-> Cardinality(g[p])])
    <3>1. DOMAIN g = parts /\ IsFiniteSet(whole) /\ whole = UNION {g[p] : p \in parts}
      BY <2>1, <2>2, <2>4, <2>5
    <3> HIDE DEF Of
    <3> QED
      BY <2>3, <3>1, CountsAddUp
  <2>7. [p \in parts |-> Cardinality(g[p])] = [p \in parts |-> Volume(p, kind, status)]
    BY <2>1 DEF Volume
  <2> QED
    BY <2>5, <2>6, <2>7 DEF Volume
<1>3. Cardinality(NoGoes(f)) = SumFunction([p \in parts |-> Cardinality(NoGoes(p))])
  <2>1. PICK g : g = [p \in parts |-> NoGoes(p)]
    OBVIOUS
  <2>2. NoGoes(f) = UNION {g[p] : p \in parts}
    BY <2>1 DEF NoGoes, MasterRows
  <2>3. \A p, q \in parts : p # q => g[p] \cap g[q] = {}
    BY <2>1 DEF NoGoes, MasterRows
  <2>4. IsFiniteSet(NoGoes(f))
    BY <1>1, FS_Subset DEF NoGoes, MasterRows
  <2>5. Cardinality(NoGoes(f)) = SumFunction([p \in parts |-> Cardinality(g[p])])
    <3>1. DOMAIN g = parts
      BY <2>1
    <3> QED
      BY <2>2, <2>3, <2>4, <3>1, CountsAddUp
  <2>6. [p \in parts |-> Cardinality(g[p])] = [p \in parts |-> Cardinality(NoGoes(p))]
    BY <2>1
  <2> QED
    BY <2>5, <2>6
<1>4. OverdueSignoffs(f) = UNION {OverdueSignoffs(p) : p \in parts}
  BY DEF OverdueSignoffs
<1>5. SignatureGaps(f) = UNION {SignatureGaps(p) : p \in parts}
  BY DEF SignatureGaps
<1> QED
  BY <1>2, <1>3, <1>4, <1>5 DEF SumsUp

LEMMA FiltersPartitionNow == ComplianceTypeOK => FiltersPartition
<1> SUFFICES ASSUME ComplianceTypeOK,
                    NEW from \in Dated \cup {Anyone}, NEW to \in Dated \cup {Anyone},
                    NEW kind \in Kinds \cup {Anyone}
             PROVE  LET f == Filter(from, to, kind, Anyone, Anyone) IN
                    /\ SumsUp(f, {[f EXCEPT !.by = k] : k \in Crew})
                    /\ Anyone \notin {from, to} =>
                          \A cut \in from .. to - 1 :
                             SumsUp(f, {[f EXCEPT !.to = cut], [f EXCEPT !.from = cut + 1]})
  BY DEF FiltersPartition
<1>1. /\ \A c \in Checklists : checklist[c].by \in Crew /\ checklist[c].on \in Nat
      /\ \A j \in Jobs : job[j].by \in Crew /\ job[j].on \in Nat
  BY ComplianceAssumption DEF ComplianceTypeOK, ChecklistRow, JobRow
<1>2. from \in Nat \cup {Anyone} /\ to \in Nat \cup {Anyone} /\ Anyone \notin Nat
  BY <1>1, ComplianceAssumption DEF Dated, ComplianceAssumption
<1>3. PICK f : f = Filter(from, to, kind, Anyone, Anyone)
  OBVIOUS
<1>4. /\ f.from = from /\ f.to = to /\ f.kind = kind /\ f.by = Anyone /\ f.region = Anyone
      /\ DOMAIN f = {"from", "to", "kind", "by", "region"}
  BY <1>3 DEF Filter
<1>5. SumsUp(f, {[f EXCEPT !.by = k] : k \in Crew})
  <2>1. PICK of : of = [k \in Crew |-> [f EXCEPT !.by = k]]
    OBVIOUS
  <2>2. PICK parts : parts = {of[k] : k \in Crew}
    OBVIOUS
  <2>3. \A k \in Crew : /\ of[k].from = from /\ of[k].to = to /\ of[k].kind = kind
                        /\ of[k].by = k /\ of[k].region = Anyone /\ k # Anyone
    BY <1>4, <2>1, ComplianceAssumption
  <2>4. IsFiniteSet(parts)
    <3>1. of \in Surjection(Crew, parts)
      BY <2>1, <2>2 DEF Surjection
    <3> QED
      BY <3>1, FS_Surjection, ComplianceAssumption
  <2>5. \A k \in Crew : RowsFor(of[k]) = {c \in RowsFor(f) : checklist[c].by = k}
    BY <1>4, <2>3 DEF RowsFor, Matches, Spans
  <2>6. RowsFor(f) = UNION {RowsFor(p) : p \in parts}
    <3>1. RowsFor(f) \subseteq Checklists
      BY DEF RowsFor
    <3> QED
      BY <1>1, <2>2, <2>5, <3>1
  <2>7. \A p, q \in parts : p # q => RowsFor(p) \cap RowsFor(q) = {}
    BY <2>2, <2>5
  <2>8. \A k \in Crew : MissedChecks(of[k]) = {x \in MissedChecks(f) : x[1] = k}
    <3> SUFFICES ASSUME NEW k \in Crew PROVE MissedChecks(of[k]) = {x \in MissedChecks(f) : x[1] = k}
      OBVIOUS
    <3>1. JobsFor(of[k]) = {j \in JobsFor(f) : job[j].by = k}
      BY <1>4, <2>3 DEF JobsFor, Matches, Spans
    <3>2. ExpectedChecks(of[k]) = {x \in ExpectedChecks(f) : x[1] = k}
      BY <3>1 DEF ExpectedChecks
    <3>3. SubmittedChecks(of[k]) = {x \in SubmittedChecks(f) : x[1] = k}
      BY <2>5 DEF SubmittedChecks
    <3> QED
      BY <1>4, <2>3, <3>2, <3>3 DEF MissedChecks
  <2>9. MissedChecks(f) = UNION {MissedChecks(p) : p \in parts}
    <3>1. \A x \in MissedChecks(f) : x[1] \in Crew
      BY <1>1 DEF MissedChecks, ExpectedChecks, JobsFor
    <3> QED
      BY <2>2, <2>8, <3>1
  <2>10. SumsUp(f, parts)
    BY <2>4, <2>6, <2>7, <2>9, PartsAddUp
  <2>11. parts = {[f EXCEPT !.by = k] : k \in Crew}
    BY <2>1, <2>2
  <2> QED
    BY <2>10, <2>11
<1>6. ASSUME Anyone \notin {from, to}, NEW cut \in from .. to - 1
      PROVE  SumsUp(f, {[f EXCEPT !.to = cut], [f EXCEPT !.from = cut + 1]})
  <2>1. PICK a : a = [f EXCEPT !.to = cut]
    OBVIOUS
  <2>2. PICK b : b = [f EXCEPT !.from = cut + 1]
    OBVIOUS
  <2>3. /\ cut \in Nat /\ cut + 1 \in Nat /\ from <= cut /\ cut < to /\ from \in Nat /\ to \in Nat
        /\ Anyone \notin {from, to, cut, cut + 1}
    BY <1>2, <1>6
  <2>4. /\ a.from = from /\ a.to = cut /\ a.kind = kind /\ a.by = Anyone /\ a.region = Anyone
        /\ b.from = cut + 1 /\ b.to = to /\ b.kind = kind /\ b.by = Anyone /\ b.region = Anyone
    BY <1>4, <2>1, <2>2
  <2>5. IsFiniteSet({a, b})
    <3>1. {a, b} = {a} \cup {b} /\ IsFiniteSet({a})
      BY FS_Singleton
    <3> QED
      BY <3>1, FS_AddElement
  <2>6. /\ RowsFor(a) = {c \in RowsFor(f) : checklist[c].on <= cut}
        /\ RowsFor(b) = {c \in RowsFor(f) : ~ (checklist[c].on <= cut)}
    BY <1>1, <1>2, <1>4, <2>3, <2>4 DEF RowsFor, Spans
  <2>7. /\ JobsFor(a) = {j \in JobsFor(f) : job[j].on <= cut}
        /\ JobsFor(b) = {j \in JobsFor(f) : ~ (job[j].on <= cut)}
    BY <1>1, <1>2, <1>4, <2>3, <2>4 DEF JobsFor, Spans
  <2>8. RowsFor(f) = UNION {RowsFor(p) : p \in {a, b}}
    BY <2>6
  <2>9. \A p, q \in {a, b} : p # q => RowsFor(p) \cap RowsFor(q) = {}
    BY <2>6
  <2>10. /\ ExpectedChecks(a) = {x \in ExpectedChecks(f) : x[2] <= cut}
         /\ ExpectedChecks(b) = {x \in ExpectedChecks(f) : ~ (x[2] <= cut)}
    BY <2>7 DEF ExpectedChecks
  <2>11. /\ SubmittedChecks(a) = {x \in SubmittedChecks(f) : x[2] <= cut}
         /\ SubmittedChecks(b) = {x \in SubmittedChecks(f) : ~ (x[2] <= cut)}
    BY <2>6 DEF SubmittedChecks
  <2>12. MissedChecks(f) = UNION {MissedChecks(p) : p \in {a, b}}
    BY <1>4, <2>3, <2>4, <2>10, <2>11 DEF MissedChecks
  <2>13. SumsUp(f, {a, b})
    BY <2>5, <2>8, <2>9, <2>12, PartsAddUp
  <2> QED
    BY <2>1, <2>2, <2>13
<1> QED
  BY <1>3, <1>5, <1>6

\* FiltersPartition for any number of technicians, submissions and tasks: reports of the
\* technicians one by one, or of a span in two parts, add up to that of all, since each
\* submission and each task a report looks at is in exactly one of the parts.
THEOREM FiltersPartitionAlways == ComplianceSpec => []FiltersPartition
  BY ComplianceTypes, FiltersPartitionNow, PTL
-----------------------------------------------------------------------------
(* Diesel. *)

LEMMA DieselTypeStep == DieselTypeOK /\ [DieselNext]_dieselVars => DieselTypeOK'
<1> SUFFICES ASSUME DieselTypeOK, [DieselNext]_dieselVars PROVE DieselTypeOK'
  OBVIOUS
<1>1. visit \in [Visits -> VisitRow] /\ day \in 0 .. MaxDay
  BY DEF DieselTypeOK
<1>2. ASSUME NEW v \in Visits, NEW line \in VisitRow, visit' = [visit EXCEPT ![v] = line], UNCHANGED day
      PROVE  DieselTypeOK'
  BY <1>1, <1>2 DEF DieselTypeOK
<1>3. ASSUME NEW v \in Visits, FileVisit(v) PROVE DieselTypeOK'
  <2>1. PICK p \in Places, fills \in Fillups :
           visit' = [visit EXCEPT ![v] = [life |-> "live", place |-> p, at |-> day,
                                          done |-> FALSE, fills |-> fills]]
    BY <1>3 DEF FileVisit
  <2>2. [life |-> "live", place |-> p, at |-> day, done |-> FALSE, fills |-> fills] \in VisitRow
    BY <1>1 DEF VisitRow, Life
  <2>3. UNCHANGED day
    BY <1>3 DEF FileVisit
  <2> QED
    BY <1>1, <2>1, <2>2, <2>3 DEF DieselTypeOK
<1>4. ASSUME NEW v \in Visits, EditVisit(v) PROVE DieselTypeOK'
  <2>1. PICK fills \in Fillups, done \in BOOLEAN :
           visit' = [visit EXCEPT ![v].fills = fills, ![v].done = done]
    BY <1>4 DEF EditVisit
  <2>2. PICK line : line = [visit[v] EXCEPT !.fills = fills, !.done = done]
    OBVIOUS
  <2>3. line \in VisitRow
    BY <1>1, <2>2 DEF VisitRow
  <2>4. visit' = [visit EXCEPT ![v] = line] /\ UNCHANGED day
    BY <1>1, <1>4, <2>1, <2>2 DEF EditVisit
  <2> QED
    BY <1>2, <2>3, <2>4
<1>5. ASSUME NEW v \in Visits, MoveVisit(v) PROVE DieselTypeOK'
  <2>1. PICK p \in Places : visit' = [visit EXCEPT ![v].place = p]
    BY <1>5 DEF MoveVisit
  <2>2. PICK line : line = [visit[v] EXCEPT !.place = p]
    OBVIOUS
  <2>3. line \in VisitRow
    BY <1>1, <2>2 DEF VisitRow
  <2>4. visit' = [visit EXCEPT ![v] = line] /\ UNCHANGED day
    BY <1>1, <1>5, <2>1, <2>2 DEF MoveVisit
  <2> QED
    BY <1>2, <2>3, <2>4
<1>6. ASSUME NEW v \in Visits, DeleteVisit(v) PROVE DieselTypeOK'
  <2>1. SoftDeleted(visit[v]) \in VisitRow
    BY <1>1 DEF SoftDeleted, VisitRow, Life
  <2>2. visit' = [visit EXCEPT ![v] = SoftDeleted(visit[v])] /\ UNCHANGED day
    BY <1>6 DEF DeleteVisit
  <2> QED
    BY <1>2, <2>1, <2>2
<1>7. CASE NextDay
  BY <1>1, <1>7, DieselAssumption DEF NextDay, DieselTypeOK
<1>8. CASE UNCHANGED dieselVars
  BY <1>1, <1>8 DEF dieselVars, DieselTypeOK
<1> QED
  BY <1>3, <1>4, <1>5, <1>6, <1>7, <1>8 DEF DieselNext

\* The diesel reports of a site and the clock keep their types.
THEOREM DieselTypes == DieselSpec => []DieselTypeOK
<1>1. DieselInit => DieselTypeOK
  <2>1. (CHOOSE p \in Places : TRUE) \in Places /\ <<>> \in Fillups /\ 0 \in 0 .. MaxDay
    BY DieselAssumption
  <2>2. NoVisit \in VisitRow
    BY <2>1 DEF NoVisit, VisitRow, Life
  <2> QED
    BY <2>1, <2>2 DEF DieselInit, DieselTypeOK
<1> QED
  BY <1>1, DieselTypeStep, PTL DEF DieselSpec
-----------------------------------------------------------------------------
\* The entries a history counts.
Counted(vs) == {e \in EntriesOf(vs) : Entry(e).record}

LEMMA CountedFinite ==
    ASSUME DieselTypeOK, NEW vs \in SUBSET Visits
    PROVE  IsFiniteSet(vs) /\ IsFiniteSet(EntriesOf(vs)) /\ IsFiniteSet(Counted(vs))
<1>1. IsFiniteSet(vs)
  BY FS_Subset, DieselAssumption
<1>2. PICK g : g = [v \in vs |-> {<<v, i>> : i \in DOMAIN visit[v].fills}]
  OBVIOUS
<1>3. \A v \in vs : IsFiniteSet(g[v])
  <2> SUFFICES ASSUME NEW v \in vs PROVE IsFiniteSet(g[v])
    OBVIOUS
  <2>1. visit[v].fills \in Fillups
    BY DEF DieselTypeOK, VisitRow
  <2>2. IsFiniteSet(DOMAIN visit[v].fills)
    BY <2>1, DieselAssumption
  <2>3. PICK h : h = [i \in DOMAIN visit[v].fills |-> <<v, i>>]
    OBVIOUS
  <2>4. h \in Surjection(DOMAIN visit[v].fills, g[v])
    BY <1>2, <2>3 DEF Surjection
  <2> QED
    BY <2>2, <2>4, FS_Surjection
<1>4. IsFiniteSet({g[v] : v \in vs})
  <2>1. g \in Surjection(vs, {g[v] : v \in vs})
    BY <1>2 DEF Surjection
  <2> QED
    BY <1>1, <2>1, FS_Surjection
<1>5. EntriesOf(vs) = UNION {g[v] : v \in vs}
  BY <1>2 DEF EntriesOf
<1>6. IsFiniteSet(EntriesOf(vs))
  BY <1>3, <1>4, <1>5, FS_UNION
<1> QED
  BY <1>1, <1>6, FS_Subset DEF Counted

LEMMA BucketsShareOut ==
    ASSUME NEW vs
    PROVE  /\ UNION {Bucket(vs, gen) : gen \in Generators(vs)} = Counted(vs)
           /\ \A gen, other \in Generators(vs) : gen # other => Bucket(vs, gen) \cap Bucket(vs, other) = {}
<1>1. \A e : CoercedGenNo(Entry(e).gen) \in {1, 2}
  BY DEF CoercedGenNo
<1>2. \A gen : Bucket(vs, gen) = {e \in Counted(vs) : CoercedGenNo(Entry(e).gen) = gen}
  BY DEF Bucket, Counted
<1>3. Counted(vs) \subseteq UNION {Bucket(vs, gen) : gen \in Generators(vs)}
  <2> SUFFICES ASSUME NEW e \in Counted(vs) PROVE \E gen \in Generators(vs) : e \in Bucket(vs, gen)
    OBVIOUS
  <2>1. e \in Bucket(vs, CoercedGenNo(Entry(e).gen))
    BY <1>2
  <2> QED
    BY <1>1, <2>1 DEF Generators
<1> QED
  BY <1>2, <1>3

\* The fill-ups are written so that what the history reads of an entry is what was meant.
Legible ==
    \A fills \in Fillups : \A i \in DOMAIN fills : fills[i].record =>
       /\ CoercedNumber(fills[i].litres) \in Nat
       /\ CoercedNumber(fills[i].amount) = fills[i].meant /\ fills[i].meant \in Nat

LEMMA EntriesRead ==
    ASSUME Legible, DieselTypeOK, NEW vs \in SUBSET Visits, NEW e \in Counted(vs)
    PROVE  /\ CoercedNumber(Entry(e).litres) \in Nat
           /\ CoercedNumber(Entry(e).amount) = Entry(e).meant /\ Entry(e).meant \in Nat
<1>1. PICK v \in vs : \E i \in DOMAIN visit[v].fills : e = <<v, i>>
  BY DEF Counted, EntriesOf
<1>2. PICK i \in DOMAIN visit[v].fills : e = <<v, i>>
  BY <1>1
<1>3. visit[v].fills \in Fillups
  BY DEF DieselTypeOK, VisitRow
<1>4. Entry(e) = visit[v].fills[i] /\ Entry(e).record
  BY <1>2 DEF Entry, Counted
<1> QED
  BY <1>2, <1>4, <1>3 DEF Legible

\* What a history says of the visits it reads.
Tells(h, vs) ==
    /\ h.count = Cardinality(Counted(vs))
    /\ h.litres = Litres(Counted(vs)) /\ h.amount = AmountOf(Counted(vs))
    /\ DOMAIN h.gens = Generators(vs)
    /\ \A gen \in Generators(vs) : /\ h.gens[gen].litres = Litres(Bucket(vs, gen))
                                  /\ h.gens[gen].count = Cardinality(Bucket(vs, gen))
    /\ h.first = IF Counted(vs) = {} THEN NoTime ELSE Min({visit[e[1]].at : e \in Counted(vs)})

LEMMA HistoryTells ==
    ASSUME NEW place, NEW from, NEW to
    PROVE  Tells(History(place, from, to), ReadVisits(place, from, to))
<1>1. PICK vs : vs = ReadVisits(place, from, to)
  OBVIOUS
<1>2. UNION {Bucket(vs, gen) : gen \in Generators(vs)} = Counted(vs)
  BY BucketsShareOut
<1>3. {visit[e[1]].at : e \in Counted(vs)} = {} <=> Counted(vs) = {}
  OBVIOUS
<1> QED
  BY <1>1, <1>2, <1>3 DEF History, Generator, Tells

\* The sums of a history are those of its generators.
LEMMA GeneratorsAddUp ==
    ASSUME Legible, DieselTypeOK, NEW vs \in SUBSET Visits
    PROVE  /\ Litres(Counted(vs)) = SumFunction([gen \in Generators(vs) |-> Litres(Bucket(vs, gen))])
           /\ Cardinality(Counted(vs)) = SumFunction([gen \in Generators(vs) |-> Cardinality(Bucket(vs, gen))])
<1>1. PICK g : g = [gen \in Generators(vs) |-> Bucket(vs, gen)]
  OBVIOUS
<1>2. /\ DOMAIN g = Generators(vs) /\ Counted(vs) = UNION {g[gen] : gen \in Generators(vs)}
      /\ \A gen, other \in Generators(vs) : gen # other => g[gen] \cap g[other] = {}
  BY <1>1, BucketsShareOut
<1>3. IsFiniteSet(Generators(vs))
  <2>1. Generators(vs) \in SUBSET {1, 2}
    BY DEF Generators
  <2>2. IsFiniteSet({1}) /\ {1, 2} = {1} \cup {2}
    BY FS_Singleton
  <2>3. IsFiniteSet({1, 2})
    BY <2>2, FS_AddElement
  <2> QED
    BY <2>1, <2>3, FS_Subset
<1>4. IsFiniteSet(Counted(vs))
  BY CountedFinite
<1>5. Cardinality(Counted(vs)) = SumFunction([gen \in Generators(vs) |-> Cardinality(g[gen])])
  BY <1>2, <1>3, <1>4, CountsAddUp
<1>6. PICK w : w = [e \in Counted(vs) |-> CoercedNumber(Entry(e).litres)]
  OBVIOUS
<1>7. \A e \in Counted(vs) : w[e] \in Nat
  BY <1>6, EntriesRead
<1>8. PICK sums : sums = [gen \in Generators(vs) |-> SumFunction([e \in g[gen] |-> w[e]])]
  OBVIOUS
<1>9. SumFunction(w) = SumFunction(sums)
  <2>1. PICK whole, S : whole = Counted(vs) /\ S = Generators(vs)
    OBVIOUS
  <2>2. w \in [whole -> Nat]
    BY <1>6, <1>7, <2>1
  <2>3. /\ IsFiniteSet(S) /\ DOMAIN g = S /\ IsFiniteSet(whole) /\ whole = UNION {g[p] : p \in S}
        /\ \A p, q \in S : p # q => g[p] \cap g[q] = {}
    BY <1>2, <1>3, <1>4, <2>1
  <2>4. sums = [p \in S |-> SumFunction([x \in g[p] |-> w[x]])]
    BY <1>8, <2>1
  <2> QED
    BY <2>2, <2>3, <2>4, SumAddsUp
<1>10. ASSUME NEW es \in SUBSET Counted(vs) PROVE SumFunction([e \in es |-> w[e]]) = Litres(es)
  <2>1. [e \in es |-> w[e]] = [e \in es |-> CoercedNumber(Entry(e).litres)]
    BY <1>6
  <2> QED
    BY <2>1 DEF Litres
<1>11. sums = [gen \in Generators(vs) |-> Litres(Bucket(vs, gen))]
  <2>1. \A gen \in Generators(vs) : g[gen] \in SUBSET Counted(vs) /\ g[gen] = Bucket(vs, gen)
    BY <1>1, <1>2
  <2> QED
    BY <1>8, <1>10, <2>1
<1>12. SumFunction(w) = Litres(Counted(vs))
  BY <1>6 DEF Litres
<1>13. [gen \in Generators(vs) |-> Cardinality(g[gen])]
          = [gen \in Generators(vs) |-> Cardinality(Bucket(vs, gen))]
  BY <1>1
<1> QED
  BY <1>5, <1>11, <1>12, <1>13, <1>9

\* The amount of a history is what its reports were meant to say, report by report.
LEMMA AmountIsMeant ==
    ASSUME Legible, DieselTypeOK, NEW vs \in SUBSET Visits
    PROVE  AmountOf(Counted(vs)) = SumFunction([v \in vs |-> MeantOf(v)])
<1>1. PICK g : g = [v \in vs |-> Counted({v})]
  OBVIOUS
<1>2. DOMAIN g = vs /\ Counted(vs) = UNION {g[v] : v \in vs}
  BY <1>1 DEF Counted, EntriesOf
<1>3. \A v, u \in vs : v # u => g[v] \cap g[u] = {}
  <2> SUFFICES ASSUME NEW v \in vs, NEW u \in vs, v # u, NEW e \in g[v], e \in g[u] PROVE FALSE
    OBVIOUS
  <2>1. e[1] = v /\ e[1] = u
    BY <1>1 DEF Counted, EntriesOf
  <2> QED
    BY <2>1
<1>4. IsFiniteSet(vs) /\ IsFiniteSet(Counted(vs))
  BY CountedFinite
<1>5. PICK w : w = [e \in Counted(vs) |-> Entry(e).meant]
  OBVIOUS
<1>6. \A e \in Counted(vs) : w[e] \in Nat /\ w[e] = CoercedNumber(Entry(e).amount)
  BY <1>5, EntriesRead
<1>7. PICK sums : sums = [v \in vs |-> SumFunction([e \in g[v] |-> w[e]])]
  OBVIOUS
<1>8. SumFunction(w) = SumFunction(sums)
  <2>1. PICK whole : whole = Counted(vs)
    OBVIOUS
  <2>2. w \in [whole -> Nat]
    BY <1>5, <1>6, <2>1
  <2>3. /\ IsFiniteSet(vs) /\ DOMAIN g = vs /\ IsFiniteSet(whole) /\ whole = UNION {g[p] : p \in vs}
        /\ \A p, q \in vs : p # q => g[p] \cap g[q] = {}
    BY <1>2, <1>3, <1>4, <2>1
  <2>4. sums = [p \in vs |-> SumFunction([x \in g[p] |-> w[x]])]
    BY <1>7
  <2> QED
    BY <2>2, <2>3, <2>4, SumAddsUp
<1>9. w = [e \in Counted(vs) |-> CoercedNumber(Entry(e).amount)]
  BY <1>5, <1>6
<1>10. ASSUME NEW v \in vs PROVE SumFunction([e \in g[v] |-> w[e]]) = MeantOf(v)
  <2>1. g[v] = {x \in EntriesOf({v}) : Entry(x).record} /\ g[v] \subseteq Counted(vs)
    BY <1>1, <1>2 DEF Counted
  <2>2. [e \in g[v] |-> w[e]] = [e \in g[v] |-> Entry(e).meant]
    BY <1>5, <2>1
  <2> QED
    BY <2>1, <2>2 DEF MeantOf
<1>11. sums = [v \in vs |-> MeantOf(v)]
  BY <1>7, <1>10
<1> QED
  BY <1>9, <1>11, <1>8 DEF AmountOf

\* Visits that come all before others share out what is counted of both.
LEMMA PeriodsAddUp ==
    ASSUME Legible, DieselTypeOK, NEW us \in SUBSET Visits, NEW ws \in SUBSET Visits,
           NEW cut \in Nat, \A u \in us : visit[u].at <= cut, \A w \in ws : visit[w].at > cut
    PROVE  /\ Counted(us \cup ws) = Counted(us) \cup Counted(ws)
           /\ AmountOf(Counted(us \cup ws)) = AmountOf(Counted(us)) + AmountOf(Counted(ws))
           /\ Cardinality(Counted(us \cup ws)) = Cardinality(Counted(us)) + Cardinality(Counted(ws))
           /\ Generators(us \cup ws) = Generators(us) \cup Generators(ws)
<1>1. Counted(us \cup ws) = Counted(us) \cup Counted(ws)
  BY DEF Counted, EntriesOf
<1>2. PICK A, B : A = Counted(us) /\ B = Counted(ws)
  OBVIOUS
<1>3. A \cap B = {}
  <2> SUFFICES ASSUME NEW e \in A, e \in B PROVE FALSE
    OBVIOUS
  <2>1. e[1] \in us /\ e[1] \in ws
    BY <1>2 DEF Counted, EntriesOf
  <2>2. visit[e[1]].at \in Nat
    BY <2>1, DieselAssumption DEF DieselTypeOK, VisitRow
  <2> QED
    BY <2>1, <2>2
<1>4. IsFiniteSet(A) /\ IsFiniteSet(B)
  BY <1>2, CountedFinite
<1>5. PICK f : f = [e \in A \cup B |-> CoercedNumber(Entry(e).amount)]
  OBVIOUS
<1>6. \A e \in A \cup B : f[e] \in Nat
  <2>1. us \cup ws \in SUBSET Visits
    OBVIOUS
  <2>2. \A e \in Counted(us \cup ws) : CoercedNumber(Entry(e).amount) \in Nat
    BY <2>1, EntriesRead
  <2> QED
    BY <1>1, <1>2, <1>5, <2>2
<1>7. SumFunction([e \in A \cup B |-> f[e]]) = SumFunction([e \in A |-> f[e]]) + SumFunction([e \in B |-> f[e]])
  BY <1>3, <1>4, <1>6, SumOfTwo
<1>8. /\ [e \in A \cup B |-> f[e]] = [e \in A \cup B |-> CoercedNumber(Entry(e).amount)]
      /\ [e \in A |-> f[e]] = [e \in A |-> CoercedNumber(Entry(e).amount)]
      /\ [e \in B |-> f[e]] = [e \in B |-> CoercedNumber(Entry(e).amount)]
  BY <1>5
<1>9. AmountOf(A \cup B) = AmountOf(A) + AmountOf(B)
  BY <1>7, <1>8 DEF AmountOf
<1>10. Cardinality(A \cup B) = Cardinality(A) + Cardinality(B)
  <2>1. Cardinality(A \cup B) = Cardinality(A) + Cardinality(B) - 0
    BY <1>3, <1>4, FS_Union, FS_EmptySet
  <2>2. Cardinality(A) \in Nat /\ Cardinality(B) \in Nat
    BY <1>4, FS_CardinalityType
  <2>3. PICK a, b : a = Cardinality(A) /\ b = Cardinality(B)
    OBVIOUS
  <2>4. a + b - 0 = a + b
    BY <2>2, <2>3
  <2> QED
    BY <2>1, <2>3, <2>4, Zenon
<1>11. Generators(us \cup ws) = Generators(us) \cup Generators(ws)
  BY DEF Generators, Bucket, EntriesOf
<1> QED
  BY <1>1, <1>2, <1>9, <1>10, <1>11

\* The least of two sets, one of which lies below the other.
LEMMA MinOfLower ==
    ASSUME NEW A \in SUBSET Nat, NEW B \in SUBSET Nat, A # {}, \A x \in A, y \in B : x <= y
    PROVE  Min(A \cup B) = Min(A)
<1>1. PICK x \in A : \A y \in A : x <= y
  BY LeastNumber
<1>2. Min(A) = x
  <2>1. \A z \in A : (\A y \in A : z <= y) <=> z = x
    BY <1>1
  <2> QED
    BY <2>1 DEF Min
<1>3. Min(A \cup B) = x
  <2>1. \A z \in A \cup B : (\A y \in A \cup B : z <= y) <=> z = x
    BY <1>1
  <2> QED
    BY <2>1 DEF Min
<1> QED
  BY <1>2, <1>3

LEMMA HistoryAddsUpNow == Legible /\ DieselTypeOK => HistoryAddsUp
<1> SUFFICES ASSUME Legible, DieselTypeOK, NEW place \in {visit[v].place : v \in {w \in Visits : visit[w].life # "unused"}},
                    NEW from \in 0 .. MaxDay, NEW to \in 0 .. MaxDay, from <= to
             PROVE  LET h == History(place, from, to) IN
                    /\ h.amount = Meant(place, from, to)
                    /\ h.litres = SumFunction([gen \in DOMAIN h.gens |-> h.gens[gen].litres])
                    /\ h.count  = SumFunction([gen \in DOMAIN h.gens |-> h.gens[gen].count])
                    /\ \A cut \in from .. to - 1 :
                          LET before == History(place, from, cut)
                              after  == History(place, cut + 1, to) IN
                          /\ h.amount = before.amount + after.amount
                          /\ h.count = before.count + after.count
                          /\ DOMAIN h.gens = DOMAIN before.gens \cup DOMAIN after.gens
                          /\ h.first = IF before.count > 0 THEN before.first ELSE after.first
  BY DEF HistoryAddsUp
<1>1. from \in Nat /\ to \in Nat /\ \A v \in Visits : visit[v].at \in Nat
  BY DieselAssumption DEF DieselTypeOK, VisitRow
<1>2. PICK h : h = History(place, from, to)
  OBVIOUS
<1>3. PICK vs : vs = ReadVisits(place, from, to)
  OBVIOUS
<1>4. vs \in SUBSET Visits
  BY <1>3 DEF ReadVisits
<1>5. Tells(h, vs)
  BY <1>2, <1>3, HistoryTells
<1>6. h.amount = Meant(place, from, to)
  <2>1. vs = {w \in Visits : /\ visit[w].life = "live" /\ visit[w].done /\ visit[w].place = place
                             /\ from <= visit[w].at /\ visit[w].at <= to}
    BY <1>1, <1>3 DEF ReadVisits
  <2>2. h.amount = AmountOf(Counted(vs))
    BY <1>5 DEF Tells
  <2>3. AmountOf(Counted(vs)) = SumFunction([v \in vs |-> MeantOf(v)])
    BY <1>4, AmountIsMeant
  <2> QED
    BY <2>1, <2>2, <2>3 DEF Meant
<1>7. /\ h.litres = SumFunction([gen \in DOMAIN h.gens |-> h.gens[gen].litres])
      /\ h.count  = SumFunction([gen \in DOMAIN h.gens |-> h.gens[gen].count])
  <2>1. /\ DOMAIN h.gens = Generators(vs)
        /\ \A gen \in Generators(vs) : /\ h.gens[gen].litres = Litres(Bucket(vs, gen))
                                      /\ h.gens[gen].count = Cardinality(Bucket(vs, gen))
        /\ h.litres = Litres(Counted(vs)) /\ h.count = Cardinality(Counted(vs))
    BY <1>5 DEF Tells
  <2>2. /\ [gen \in DOMAIN h.gens |-> h.gens[gen].litres] = [gen \in Generators(vs) |-> Litres(Bucket(vs, gen))]
        /\ [gen \in DOMAIN h.gens |-> h.gens[gen].count] = [gen \in Generators(vs) |-> Cardinality(Bucket(vs, gen))]
    BY <2>1
  <2> QED
    BY <1>4, <2>1, <2>2, GeneratorsAddUp
<1>8. ASSUME NEW cut \in from .. to - 1
      PROVE  LET before == History(place, from, cut)
                 after  == History(place, cut + 1, to) IN
             /\ h.amount = before.amount + after.amount
             /\ h.count = before.count + after.count
             /\ DOMAIN h.gens = DOMAIN before.gens \cup DOMAIN after.gens
             /\ h.first = IF before.count > 0 THEN before.first ELSE after.first
  <2>1. PICK before, after : before = History(place, from, cut) /\ after = History(place, cut + 1, to)
    OBVIOUS
  <2>2. PICK us, ws : us = ReadVisits(place, from, cut) /\ ws = ReadVisits(place, cut + 1, to)
    OBVIOUS
  <2>3. cut \in Nat /\ from <= cut /\ cut < to
    BY <1>1
  <2>4. /\ us \in SUBSET Visits /\ ws \in SUBSET Visits /\ vs = us \cup ws
        /\ (\A u \in us : visit[u].at <= cut) /\ \A w \in ws : visit[w].at > cut
    BY <1>1, <1>3, <2>2, <2>3 DEF ReadVisits
  <2>5. /\ Counted(vs) = Counted(us) \cup Counted(ws)
        /\ AmountOf(Counted(vs)) = AmountOf(Counted(us)) + AmountOf(Counted(ws))
        /\ Cardinality(Counted(vs)) = Cardinality(Counted(us)) + Cardinality(Counted(ws))
        /\ Generators(vs) = Generators(us) \cup Generators(ws)
    BY <2>3, <2>4, PeriodsAddUp
  <2>6. /\ h.amount = AmountOf(Counted(vs)) /\ h.count = Cardinality(Counted(vs))
        /\ DOMAIN h.gens = Generators(vs)
        /\ h.first = IF Counted(vs) = {} THEN NoTime ELSE Min({visit[e[1]].at : e \in Counted(vs)})
    BY <1>5 DEF Tells
  <2>7. Tells(before, us) /\ Tells(after, ws)
    BY <2>1, <2>2, HistoryTells
  <2>8. /\ before.amount = AmountOf(Counted(us)) /\ before.count = Cardinality(Counted(us))
        /\ DOMAIN before.gens = Generators(us)
        /\ before.first = IF Counted(us) = {} THEN NoTime ELSE Min({visit[e[1]].at : e \in Counted(us)})
    BY <2>7 DEF Tells
  <2>9. /\ after.amount = AmountOf(Counted(ws)) /\ after.count = Cardinality(Counted(ws))
        /\ DOMAIN after.gens = Generators(ws)
        /\ after.first = IF Counted(ws) = {} THEN NoTime ELSE Min({visit[e[1]].at : e \in Counted(ws)})
    BY <2>7 DEF Tells
  <2>10. before.count > 0 <=> Counted(us) # {}
    <3>1. IsFiniteSet(Counted(us))
      BY <2>4, CountedFinite
    <3>2. Cardinality(Counted(us)) \in Nat /\ (Cardinality(Counted(us)) = 0 <=> Counted(us) = {})
      BY <3>1, FS_CardinalityType, FS_EmptySet
    <3> QED
      BY <2>8, <3>2
  <2>11. h.first = IF before.count > 0 THEN before.first ELSE after.first
    <3>1. CASE Counted(us) = {}
      <4>1. Counted(vs) = Counted(ws)
        BY <2>5, <3>1
      <4> QED
        BY <2>6, <2>9, <2>10, <3>1, <4>1
    <3>2. CASE Counted(us) # {}
      <4>1. PICK A, B : /\ A = {visit[e[1]].at : e \in Counted(us)}
                        /\ B = {visit[e[1]].at : e \in Counted(ws)}
        OBVIOUS
      <4>2. (\A e \in Counted(us) : e[1] \in us) /\ \A e \in Counted(ws) : e[1] \in ws
        BY DEF Counted, EntriesOf
      <4>3. /\ \A x \in A : x \in Nat /\ x <= cut
            /\ \A y \in B : y \in Nat /\ y > cut
        BY <1>1, <2>4, <4>1, <4>2
      <4>4. A \in SUBSET Nat /\ B \in SUBSET Nat /\ A # {} /\ \A x \in A, y \in B : x <= y
        <5>1. \A x \in A, y \in B : x <= y
          BY <2>3, <4>3
        <5>2. A # {}
          BY <3>2, <4>1
        <5> QED
          BY <4>3, <5>1, <5>2
      <4>5. Min(A \cup B) = Min(A)
        BY <4>4, MinOfLower
      <4>6. {visit[e[1]].at : e \in Counted(vs)} = A \cup B
        BY <2>5, <4>1
      <4>7. Counted(vs) # {}
        BY <2>5, <3>2
      <4> QED
        BY <2>6, <2>8, <2>10, <3>2, <4>1, <4>5, <4>6, <4>7
    <3> QED
      BY <3>1, <3>2
  <2> QED
    BY <2>1, <2>5, <2>6, <2>8, <2>9, <2>11
<1> QED
  BY <1>2, <1>6, <1>7, <1>8

\* HistoryAddsUp for any number of reports, of fill-ups in a report and of days, where
\* numbers are written so that coerce_diesel_number reads them as they were meant: no
\* fill-up is counted twice or lost, by report, by generator and by period.
THEOREM HistoryAddsUpAlways == ASSUME Legible PROVE DieselSpec => []HistoryAddsUp
<1>1. DieselTypeOK => HistoryAddsUp
  BY HistoryAddsUpNow
<1> QED
  BY <1>1, DieselTypes, PTL
-----------------------------------------------------------------------------
(* The services in one behaviour. *)

\* A behaviour of MCServices is one of each service: of the one it is of step by step, of
\* the others in that they rest.
THEOREM ServicesRunEach ==
    ServicesSpec => /\ Spec /\ SessionsSpec /\ PasskeysSpec /\ TechniciansSpec /\ PresenceSpec /\ SettingsSpec
                    /\ FormsSpec /\ PaperworkSpec /\ DieselSpec /\ HostedSpec /\ ComplianceSpec
                    /\ ClientsSpec /\ InboxSpec
<1> DEFINE all == <<part, vars, sessionVars, passkeyVars, technicianVars, presenceVars, settingsVars, formVars,
                    paperVars, dieselVars, hostedVars, complianceVars, clientVars, inboxVars>>
<1>1. ServicesInit => /\ Init /\ SessionsInit /\ PasskeysInit /\ TechniciansInit /\ PresenceInit /\ SettingsInit
                      /\ FormsInit /\ PaperworkInit /\ DieselInit /\ HostedInit /\ ComplianceInit
                      /\ ClientsInit /\ InboxInit
  BY DEF ServicesInit
<1>2. [ServicesNext]_all => [Next]_vars
  BY DEF ServicesNext
<1>3. [ServicesNext]_all => [SessionsNext]_sessionVars
  BY DEF ServicesNext
<1>4. [ServicesNext]_all => [PasskeysNext]_passkeyVars
  BY DEF ServicesNext
<1>5. [ServicesNext]_all => [TechniciansNext]_technicianVars
  BY DEF ServicesNext
<1>6. [ServicesNext]_all => [PresenceNext]_presenceVars
  BY DEF ServicesNext
<1>7. [ServicesNext]_all => [SettingsNext]_settingsVars
  BY DEF ServicesNext
<1>8. [ServicesNext]_all => [FormsNext]_formVars
  BY DEF ServicesNext
<1>9. [ServicesNext]_all => [PaperworkNext]_paperVars
  BY DEF ServicesNext
<1>10. [ServicesNext]_all => [DieselNext]_dieselVars
  BY DEF ServicesNext
<1>11. [ServicesNext]_all => [HostedNext]_hostedVars
  BY DEF ServicesNext
<1>12. [ServicesNext]_all => [ComplianceNext]_complianceVars
  BY DEF ServicesNext
<1>13. [ServicesNext]_all => [ClientsNext]_clientVars
  BY DEF ServicesNext
<1>14. [ServicesNext]_all => [InboxNext]_inboxVars
  BY DEF ServicesNext
<1> HIDE DEF all
<1>15. ServicesInit /\ [][ServicesNext]_all => Spec
  BY <1>1, <1>2, PTL DEF Spec
<1>16. ServicesInit /\ [][ServicesNext]_all => SessionsSpec
  BY <1>1, <1>3, PTL DEF SessionsSpec
<1>17. ServicesInit /\ [][ServicesNext]_all => PasskeysSpec
  BY <1>1, <1>4, PTL DEF PasskeysSpec
<1>18. ServicesInit /\ [][ServicesNext]_all => TechniciansSpec
  BY <1>1, <1>5, PTL DEF TechniciansSpec
<1>19. ServicesInit /\ [][ServicesNext]_all => PresenceSpec
  BY <1>1, <1>6, PTL DEF PresenceSpec
<1>20. ServicesInit /\ [][ServicesNext]_all => SettingsSpec
  BY <1>1, <1>7, PTL DEF SettingsSpec
<1>21. ServicesInit /\ [][ServicesNext]_all => FormsSpec
  BY <1>1, <1>8, PTL DEF FormsSpec
<1>22. ServicesInit /\ [][ServicesNext]_all => PaperworkSpec
  BY <1>1, <1>9, PTL DEF PaperworkSpec
<1>23. ServicesInit /\ [][ServicesNext]_all => DieselSpec
  BY <1>1, <1>10, PTL DEF DieselSpec
<1>24. ServicesInit /\ [][ServicesNext]_all => HostedSpec
  BY <1>1, <1>11, PTL DEF HostedSpec
<1>25. ServicesInit /\ [][ServicesNext]_all => ComplianceSpec
  BY <1>1, <1>12, PTL DEF ComplianceSpec
<1>26. ServicesInit /\ [][ServicesNext]_all => ClientsSpec
  BY <1>1, <1>13, PTL DEF ClientsSpec
<1>27. ServicesInit /\ [][ServicesNext]_all => InboxSpec
  BY <1>1, <1>14, PTL DEF InboxSpec
<1> USE DEF all
<1> QED
  BY <1>15, <1>16, <1>17, <1>18, <1>19, <1>20, <1>21, <1>22, <1>23, <1>24, <1>25, <1>26, <1>27 DEF ServicesSpec

\* ServicesTypeOK for any number of rows and requests of every service.
THEOREM ServicesTypes == ServicesSpec => []ServicesTypeOK
<1>1. SessionsTypeOK /\ EndingsTaken => SessionsTypeOK
  BY DEF SessionsTypeOK
<1>2. TechniciansInv => TechniciansTypeOK
  BY DEF TechniciansInv
<1>3. ListingKept => PresenceTypeOK
  BY DEF ListingKept, CallsKept
<1>4. FormsInv => FormsTypeOK
  BY DEF FormsInv
<1>5. PaperworkInv => PaperworkTypeOK
  BY DEF PaperworkInv
<1>6. SheetOK => HostedTypeOK
  <2> SUFFICES ASSUME SheetOK PROVE HostedTypeOK
    OBVIOUS
  <2>1. /\ sheet.header \subseteq HeaderFields /\ sheet.power \in [Blocks -> PowerBlock]
        /\ sheet.checks \in UNION {[D -> SiteCheckItem] : D \in SUBSET CheckKeys}
        /\ sheet.cabinets \in Seq({c \in CabinetInspection : ValidCabinet(c)})
        /\ sheet.extras \in Seq(ExtraSection)
    BY DEF SheetOK, Sheet
  <2>2. PICK D \in SUBSET CheckKeys : sheet.checks \in [D -> SiteCheckItem]
    BY <2>1
  <2>3. /\ \A i \in DOMAIN sheet.cabinets : sheet.cabinets[i] \in {c \in CabinetInspection : ValidCabinet(c)}
        /\ \A i \in DOMAIN sheet.extras : sheet.extras[i] \in ExtraSection
    BY <2>1
  <2> QED
    BY <2>1, <2>2, <2>3 DEF HostedTypeOK
<1>7. ClientsInv => ClientsTypeOK
  BY DEF ClientsInv
<1>8. InboxInv => InboxTypeOK
  BY DEF InboxInv
<1>9. /\ TypeOK
      /\ SessionsTypeOK
      /\ PasskeysTypeOK
      /\ TechniciansTypeOK
      /\ PresenceTypeOK
      /\ SettingsTypeOK
      /\ FormsTypeOK
      /\ PaperworkTypeOK
      /\ DieselTypeOK
      /\ HostedTypeOK
      /\ ComplianceTypeOK
      /\ ClientsTypeOK
      /\ InboxTypeOK
      => ServicesTypeOK
  BY DEF ServicesTypeOK
<1> QED
  BY <1>1, <1>2, <1>3, <1>4, <1>5, <1>6, <1>7, <1>8, <1>9,
     ServicesRunEach, SheqTypes, SessionsTypes, PasskeysTypes, TechniciansTypes, ListingAlways, SettingsTypes, FormsTypes, PaperworkTypes, DieselTypes, HostedTypes, ComplianceTypes, ClientsTypes, InboxTypes, PTL
=============================================================================
