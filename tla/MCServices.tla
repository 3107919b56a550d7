------------------------------ MODULE MCServices -------------------------------
(***************************************************************************)
(* The services that share no table and call none of each other, in one    *)
(* run: a behaviour is that of one of them, and the others rest.           *)
(***************************************************************************)
EXTENDS Sheq, Sessions, Passkeys, Technicians, Presence, Settings, Forms, Paperwork,
        Diesel, HostedSite, Compliance, Clients, Inbox, TLC

CONSTANT Parts   \* the services the run looks at

VARIABLE part    \* the one this behaviour is of

ServicesInit ==
    /\ part \in Parts
    /\ Init /\ SessionsInit /\ PasskeysInit /\ TechniciansInit /\ PresenceInit /\ SettingsInit
    /\ FormsInit /\ PaperworkInit /\ DieselInit /\ HostedInit /\ ComplianceInit /\ ClientsInit
    /\ InboxInit
    /\ part # "forms" => category.system

\* Bounds.  Requests overlap on a vehicle checklist of one signature at most; on users and
\* a profile no two overlapped on before; on one paper; on a form with something left to
\* file; with one session id in use, and one client.  An account is closed while one
\* request is under way, and notices go to those on duty; two requests on the inbox overlap
\* while nothing of it is handled, where one tells somebody or marks all.  Two submissions
\* or one and a task are reported on, or a submission at a site; the header of a sheet and
\* two sections of it are filled in.
FewAtOnce ==
    CASE part = "sheq" ->
            (\A r \in Requests : work[r] # NoWork) =>
               \A s \in Submissions : Cardinality(row[s].sigs) <= 1 /\ row[s].type = "vehicle-daily"
      [] part = "technicians" ->
            /\ ~ Users \subseteq contested
            /\ (\A c \in Clerks : clerk[c] # Idle) => contested \subseteq UNION {Held(clerk[c]) : c \in Clerks}
            /\ Cardinality({p \in Profiles : profile[p].life # "unused"}) = 2
                  => Cardinality({c \in Clerks : clerk[c] # Idle}) <= 1
      [] part = "paperwork" ->
            \A g, h \in Handlers : NoHandler \notin {handler[g], handler[h]} => handler[g].paper = handler[h].paper
      [] part = "forms" ->
            (\A s \in Filings : filed[s] # NotFiled) => \E e \in Editors : edit[e] = NoEdit
      [] part = "presence" ->
            Cardinality({t \in Tabs : redis[t] # NoEntry \/ rows[t].operator # Never}) = 2
               => Cardinality({c \in Callers : call[c].pc # "idle"}) <= 1
      [] part = "clients" ->
            Registered = Clients => Cardinality({a \in Askers : asking[a].pc = "commit"}) <= 1
      [] part = "compliance" ->
            Cardinality({c \in Checklists : checklist[c].life # "unused"})
               + Cardinality({j \in Jobs : job[j].life # "unused"}) <=
            IF \E c \in Checklists : checklist[c].region # Anyone THEN 1 ELSE 2
      [] part = "hosted" ->
            Cardinality({f \in DOMAIN sheet \ {"header"} : sheet[f] # BlankSheet[f]}) <= 2
      [] part = "inbox" ->
            /\ gone \subseteq OnDuty \ Chiefs
            /\ \A r \in Openers : opening[r].whose \in OnDuty \cup {NoReader}
            /\ (\A r \in Openers : opening[r].pc # "idle") => gone = {}
            /\ (\A r \in Openers : opening[r].pc \notin {"idle", "answered"}) =>
                  /\ \A n \in Notices : inbox[n].by = NoReader
                  /\ \E r \in Openers : opening[r].op \in {"all", "send"}
      [] OTHER -> TRUE

ServicesNext ==
    /\ UNCHANGED part
    /\ \/ part = "sheq"        /\ Next
       \/ part = "sessions"    /\ SessionsNext
       \/ part = "passkeys"    /\ PasskeysNext
       \/ part = "technicians" /\ TechniciansNext
       \/ part = "presence"    /\ PresenceNext
       \/ part = "settings"    /\ SettingsNext
       \/ part = "forms"       /\ FormsNext
       \/ part = "paperwork"   /\ PaperworkNext
       \/ part = "diesel"      /\ DieselNext
       \/ part = "hosted"      /\ HostedNext
       \/ part = "compliance"  /\ ComplianceNext
       \/ part = "clients"     /\ ClientsNext
       \/ part = "inbox"       /\ InboxNext
    /\ part # "sheq"        => UNCHANGED vars
    /\ part # "sessions"    => UNCHANGED sessionVars
    /\ part # "passkeys"    => UNCHANGED passkeyVars
    /\ part # "technicians" => UNCHANGED technicianVars
    /\ part # "presence"    => UNCHANGED presenceVars
    /\ part # "settings"    => UNCHANGED settingsVars
    /\ part # "forms"       => UNCHANGED formVars
    /\ part # "paperwork"   => UNCHANGED paperVars
    /\ part # "diesel"      => UNCHANGED dieselVars
    /\ part # "hosted"      => UNCHANGED hostedVars
    /\ part # "compliance"  => UNCHANGED complianceVars
    /\ part # "clients"     => UNCHANGED clientVars
    /\ part # "inbox"       => UNCHANGED inboxVars
    /\ FewAtOnce'

ServicesSpec == ServicesInit /\ [][ServicesNext]_<<part, vars, sessionVars, passkeyVars,
                   technicianVars, presenceVars, settingsVars, formVars, paperVars, dieselVars, hostedVars,
                   complianceVars, clientVars, inboxVars>>

\* A state is told from another by the service it is of: the others are as they were.
View ==
    <<part, CASE part = "sheq"        -> vars
              [] part = "sessions"    -> sessionVars
              [] part = "passkeys"    -> passkeyVars
              [] part = "technicians" -> technicianVars
              [] part = "presence"    -> presenceVars
              [] part = "settings"    -> settingsVars
              [] part = "forms"       -> formVars
              [] part = "paperwork"   -> paperVars
              [] part = "diesel"      -> dieselVars
              [] part = "hosted"      -> hostedVars
              [] part = "compliance"  -> complianceVars
              [] part = "clients"     -> clientVars
              [] part = "inbox"       -> inboxVars>>

\* The structures of a form and what is filed under them: a number and a text, a truth
\* and a choice, a date and a file.
Field(type, required, range, options) ==
    [type |-> type, required |-> required, range |-> range, options |-> options]

Text(reads, amount, length) == [kind |-> "text", reads |-> reads, amount |-> amount, length |-> length]
File(mime, size) == [kind |-> "file", reads |-> mime, amount |-> size, length |-> 0]

MCStructures ==
    { [level |-> Field("number", TRUE, {1}, {}), note |-> Field("string", FALSE, 0 .. 1, {})],
      [level |-> Field("boolean", TRUE, {}, {}), note |-> Field("enum", FALSE, {}, {"good", "bad"})],
      [level |-> Field("date", FALSE, {}, {}), photo |-> Field("attachment", TRUE, {1}, {"image"})] }

NoFiles == [k \in {} |-> 0]

MCPayloads ==
    { [values |-> [level |-> Text("amount", 1, 1), note |-> Text("good", 0, 1)], attachments |-> NoFiles],
      [values |-> [level |-> Text("amount", 2, 1), note |-> Text("blank", 0, 0)], attachments |-> NoFiles],
      [values |-> [level |-> Text("true", 0, 1), note |-> Text("good", 0, 1)], attachments |-> NoFiles],
      [values |-> [level |-> Text("compact date", 0, 1)], attachments |-> [photo |-> File("image", 1)]] }

\* Fill-ups as the field writes them.  22, R21.28 and R563,30 filled for 1,244.65 and
\* more, or for N/A; and something that is no entry.
Fill(litres, amount, meant, gen, runtime) ==
    [record |-> TRUE, litres |-> litres, amount |-> amount, meant |-> meant, gen |-> gen, runtime |-> runtime]

Junk == [record |-> FALSE, litres |-> AsText(<<>>, <<>>), amount |-> AsText(<<>>, <<>>), meant |-> 0,
         gen |-> 0, runtime |-> [kind |-> "none", h |-> 0, m |-> 0]]

MCFillups ==
    { <<>>,
      << Fill(AsNumber(22000), AsText(<<Group(563, 3), Group(30, 2)>>, <<",">>), 563300, 2,
              [kind |-> "hm", h |-> 1, m |-> 30]),
         Junk >>,
      << Fill(AsText(<<Group(21, 2), Group(28, 2)>>, <<".">>),
              AsText(<<Group(1, 1), Group(244, 3), Group(65, 2)>>, <<",", ".">>), 1244650, 0,
              [kind |-> "hm", h |-> 0, m |-> 70]),
         Fill(AsText(<<>>, <<>>), AsText(<<Group(7, 1)>>, <<>>), 7000, 12, [kind |-> "hours", h |-> 2, m |-> 0]) >> }

\* Two names that differ in case, and one that is shortened to their code.
MCNames == { [spelt |-> "Acme", lower |-> "acme", code |-> "acme"],
             [spelt |-> "ACME", lower |-> "acme", code |-> "acme"],
             [spelt |-> "AC-ME", lower |-> "ac-me", code |-> "acme"] }

\* Requests are interchangeable, and so are users, session ids and submissions of a form.
Symmetry == Permutations(Requests) \cup Permutations(Users)

\* The variables of every service hold what the code may put there: those of the one the
\* behaviour is of, since the others are as they were.
ServicesTypeOK ==
    /\ part = "sheq"        => TypeOK
    /\ part = "sessions"    => SessionsTypeOK
    /\ part = "passkeys"    => PasskeysTypeOK
    /\ part = "technicians" => TechniciansTypeOK
    /\ part = "presence"    => PresenceTypeOK
    /\ part = "settings"    => SettingsTypeOK
    /\ part = "forms"       => FormsTypeOK
    /\ part = "paperwork"   => PaperworkTypeOK
    /\ part = "diesel"      => DieselTypeOK
    /\ part = "hosted"      => HostedTypeOK
    /\ part = "compliance"  => ComplianceTypeOK
    /\ part = "clients"     => ClientsTypeOK
    /\ part = "inbox"       => InboxTypeOK
=============================================================================
