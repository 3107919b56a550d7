--------------------------------- MODULE Clients -------------------------------
(***************************************************************************)
(* The register of clients: services/client.py over models/client.py.      *)
(*                                                                         *)
(* A name stands for its spelling, and tells which names differ from it in *)
(* case alone and which code it is shortened to.  The table has a unique   *)
(* index on the name and one on the code; requests look first and write    *)
(* later.  Nothing sets deleted_at of a client.                            *)
(***************************************************************************)
EXTENDS Naturals, FiniteSets, UnitOfWork

CONSTANTS Clients,
          Names,   \* spellings: records of a spelling, its lower case and its short code
          Askers,  \* the requests
          Fresh,   \* a code with a random suffix, unlike any other
          Nowhere

ASSUME ClientsAssumption == Names # {}

Codes == {n.code : n \in Names} \cup {Fresh}

ClientRow == [used : BOOLEAN, name : Names, active : BOOLEAN, code : Codes]

\* A request: what it read of a client and what it assigned to it.  `alone' says that no
\* other was under way with it.
Asking == [pc : {"idle", "commit", "refused"}, op : {"create", "change"}, client : Clients \cup {Nowhere},
           seen : ClientRow, next : ClientRow, alone : BOOLEAN]

VARIABLES
    client,  \* the table clients
    asking   \* the requests being served
clientVars == <<client, asking>>

AnyName == CHOOSE n \in Names : TRUE
NoClient == [used |-> FALSE, name |-> AnyName, active |-> FALSE, code |-> Fresh]
NotAsking == [pc |-> "idle", op |-> "change", client |-> Nowhere, seen |-> NoClient, next |-> NoClient, alone |-> TRUE]

ClientsTypeOK == client \in [Clients -> ClientRow] /\ asking \in [Askers -> Asking]

ClientsInit == client = [c \in Clients |-> NoClient] /\ asking = [a \in Askers |-> NotAsking]

Registered == {c \in Clients : client[c].used}

\* Names are compared without case where a client is created, and as spelt elsewhere.
ActiveNamesakes(n) == {c \in Registered : client[c].active /\ client[c].name.lower = n.lower}
HoldersOf(n)       == {c \in Registered : client[c].name = n}

\* Slip: the codes of clients that are not active are not looked at.
CodeOfActive(n) == IF \E c \in Registered : client[c].active /\ client[c].code = n.code THEN Fresh ELSE n.code

CodeFor(n) == IF \E c \in Registered : client[c].code = n.code THEN Fresh ELSE n.code

Ask(a, op, c, next) ==
    /\ asking[a].pc # "commit"
    /\ LET others == {b \in Askers \ {a} : asking[b].pc = "commit"} IN
       asking' = [b \in Askers |->
                     IF b = a THEN [pc |-> "commit", op |-> op, client |-> c, seen |-> client[c],
                                    next |-> next, alone |-> others = {}]
                     ELSE IF b \in others THEN [asking[b] EXCEPT !.alone = FALSE] ELSE asking[b]]
    /\ UNCHANGED client

\* create_client, refused at once where an active client has the name.
AskCreate(a, c) ==
    /\ ~ client[c].used /\ \A b \in Askers : asking[b].client # c
    /\ \E n \in Names : \E active \in BOOLEAN :
          /\ ActiveNamesakes(n) = {}
          /\ Ask(a, "create", c, [used |-> TRUE, name |-> n, active |-> active, code |-> CodeFor(n)])

\* update_client, of a name no other client has.
AskUpdate(a, c) ==
    /\ client[c].used
    /\ \E n \in Names : \E active \in BOOLEAN :
          /\ n # client[c].name => HoldersOf(n) = {}
          /\ Ask(a, "change", c, [client[c] EXCEPT !.name = n, !.active = active])

\* delete_client and reactivate_client.
AskActivate(a, c) ==
    /\ client[c].used
    /\ \E active \in BOOLEAN : Ask(a, "change", c, [client[c] EXCEPT !.active = active])

\* The two indexes.
Unique(table) ==
    \A c, d \in Clients : table[c].used /\ table[d].used /\ c # d =>
       table[c].name # table[d].name /\ (table[c].code = Fresh \/ table[c].code # table[d].code)

TableAfter(a) ==
    LET w   == asking[a]
        row == client[w.client] IN
    [client EXCEPT ![w.client] =
        IF w.op = "create" THEN w.next
        ELSE [row EXCEPT !.name = Written(row.name, w.seen.name, w.next.name),
                         !.active = Written(row.active, w.seen.active, w.next.active)]]

CommitClient(a) ==
    /\ asking[a].pc = "commit" /\ Unique(TableAfter(a))
    /\ client' = TableAfter(a)
    /\ asking' = [asking EXCEPT ![a] = NotAsking]

\* An index refuses: a creation is answered with 409, a change with 500.
RefuseClient(a) ==
    /\ asking[a].pc = "commit" /\ ~ Unique(TableAfter(a))
    /\ asking' = [asking EXCEPT ![a] = IF @.op = "create" THEN [@ EXCEPT !.pc = "refused", !.client = Nowhere] ELSE NotAsking]
    /\ UNCHANGED client

FailClient(a) ==
    /\ asking[a].pc = "commit"
    /\ asking' = [asking EXCEPT ![a] = NotAsking]
    /\ UNCHANGED client

ClientsNext ==
    \E a \in Askers : \/ \E c \in Clients : AskCreate(a, c) \/ AskUpdate(a, c) \/ AskActivate(a, c)
                      \/ CommitClient(a)
                      \/ RefuseClient(a)
                      \/ FailClient(a)

ClientsSpec == ClientsInit /\ [][ClientsNext]_clientVars
-----------------------------------------------------------------------------
(* Properties.                                                             *)

\* A creation that an index refuses is told that a client of that name exists, "possibly
\* inactive", and to reactivate it: that client is there.  Only requests that overlap
\* another may be refused for a code that both chose (client.py:64).
RefusedHasHolder ==
    [][\A a \in Askers :
          asking[a].pc = "commit" /\ asking'[a].pc = "refused" /\ asking[a].alone
             => \E c \in HoldersOf(asking[a].next.name) : ~ client[c].active]_clientVars
=============================================================================
