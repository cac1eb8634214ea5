------------------------------- MODULE Wizard --------------------------------
(***************************************************************************)
(* The account wizard (app/account-wizard.go): four pages of fields that   *)
(* fill in each other, a look-up of the servers in a goroutine, and the    *)
(* account that is saved at the end.                                       *)
(***************************************************************************)
EXTENDS Integers, Sequences, FiniteSets, SequencesExt

CONSTANTS
  Sources, Outgoings,  \* the protocols, in the order of the selectors
  Transports,
  Services,            \* what a look-up may find: "IMAP", "plain" without encryption, "JMAP",
                       \* or "none" for no configuration
  Emails,              \* addresses the user may type
  Typable,             \* fields the user types into
  Temporary,           \* the wizard runs without accounts.conf to be written
  Existing,            \* account in accounts.conf, also a name the user may type
  MaxEdits, MaxFaults

VARIABLES
  form,           \* the fields, the two URLs made of them and passwordWarned
  page, focus,    \* AccountWizard.step and focus
  discovered, discoveredFor,
  lookups,        \* goroutines of the first page's button: the address each looks for,
                  \* and whether its services were known when it began
  file,           \* accounts.conf: names of its sections
  accounts,       \* config.Accounts the wizard added, with their URLs
  open,           \* the wizard's tab
  confirmed,      \* ghost: pages left by their button
  wz_astray,      \* ghost: what has gone wrong
  wz_edits, wz_faults

wzVars == <<form, page, focus, discovered, discoveredFor, lookups, file, accounts,
            open, confirmed, wz_astray, wz_edits, wz_faults>>

Pages == <<<<"name", "full", "email", "button">>,
           <<"sProto", "sUser", "sPass", "sServer", "sTransport", "button">>,
           <<"oProto", "oUser", "oPass", "oServer", "oTransport", "copyTo", "button">>,
           <<"button">>>>

-----------------------------------------------------------------------------
(* The URLs: those of local stores and programs have no user, nor password. *)

Scheme(proto, transport) == IF proto \in {"IMAP", "SMTP"} THEN <<proto, transport>> ELSE <<proto>>

Url(proto, transport, server, user, pass) ==
  LET remote == proto \in {"IMAP", "JMAP", "SMTP"}
  IN [scheme |-> Scheme(proto, transport), server |-> server,
      user |-> IF remote THEN user ELSE "", pass |-> IF remote THEN pass ELSE ""]

SourceOf(f) == Url(f.sProto, f.sTransport, f.sServer, f.sUser, f.sPass)
OutgoingOf(f) == Url(f.oProto, f.oTransport, f.oServer, f.oUser, f.oPass)
sourceUri(f) == [f EXCEPT !.source = SourceOf(f)]
outgoingUri(f) == [f EXCEPT !.outgoing = OutgoingOf(f)]

-----------------------------------------------------------------------------
(* What was found fills in empty servers; setting a field calls no         *)
(* OnChange, but selecting the transport makes the URL anew.               *)

FillSource(f, found) ==
  IF found = "nil" \/ f.sServer # "" THEN f
  ELSE CASE f.sProto = "IMAP" /\ found = "IMAP" ->
              sourceUri([f EXCEPT !.sServer = "found", !.sTransport = "STARTTLS"])
         [] f.sProto = "IMAP" /\ found = "plain" -> [f EXCEPT !.sServer = "found"]
         [] f.sProto = "JMAP" /\ found = "JMAP" -> [f EXCEPT !.sServer = "found"]
         [] f.sProto = "Maildir" -> [f EXCEPT !.sServer = "~/mail", !.sUser = "", !.sPass = ""]
         [] f.sProto = "notmuch" -> [f EXCEPT !.sUser = "", !.sPass = ""]
         [] OTHER -> f

FillOutgoing(f, found) ==
  IF found = "nil" \/ f.oServer # "" THEN f
  ELSE CASE f.oProto = "SMTP" /\ found = "IMAP" ->
              outgoingUri([f EXCEPT !.oServer = "found", !.oTransport = "STARTTLS"])
         [] f.oProto = "SMTP" /\ found = "plain" -> [f EXCEPT !.oServer = "found"]
         [] f.oProto = "JMAP" -> outgoingUri([f EXCEPT !.oTransport = "SSL/TLS"])
         [] f.oProto = "sendmail" -> [f EXCEPT !.oServer = "sendmail", !.oUser = "", !.oPass = ""]
         [] OTHER -> f

autofill(f, found) == FillOutgoing(FillSource(f, found), found)

(* OnSelect of the protocols, of the transports.  Select of an option that *)
(* was selected already calls it as well.                                  *)
SelectSource(f, p, found) ==
  sourceUri(autofill([f EXCEPT !.sProto = p, !.sServer = ""], found))
SelectOutgoing(f, p, found) ==
  outgoingUri(autofill([f EXCEPT !.oProto = p, !.oServer = ""], found))

(* OnFocusLost. *)
FocusLost(f, field) ==
  CASE field = "email" ->
         outgoingUri(sourceUri([f EXCEPT !.sUser = IF @ = "" THEN f.email ELSE @,
                                         !.oUser = IF @ = "" THEN f.email ELSE @]))
    [] field = "sServer" ->
         outgoingUri([f EXCEPT !.oServer = IF @ = "" /\ f.sServer = "imap.typed"
                                           THEN "smtp.typed" ELSE @])
    [] field = "sUser" /\ f.oUser = "" -> outgoingUri([f EXCEPT !.oUser = f.sUser])
    [] field = "sPass" /\ f.sPass # "" -> [f EXCEPT !.warned = TRUE]
    [] OTHER -> f

(* OnChange. *)
Typed(f, field, value) ==
  LET g == [f EXCEPT ![field] = value]
  IN CASE field \in {"sServer", "sUser"} -> sourceUri(g)
       [] field \in {"oServer", "oUser"} -> outgoingUri(g)
       [] field = "sPass" -> outgoingUri(sourceUri([g EXCEPT !.oPass = value]))
       [] field = "oPass" -> outgoingUri([g EXCEPT !.warned = @ \/ value # ""])
       [] OTHER -> g

-----------------------------------------------------------------------------
EmptyForm ==
  [name |-> "", email |-> "", sProto |-> Sources[1], sUser |-> "", sPass |-> "", sServer |-> "",
   sTransport |-> Transports[1], oProto |-> Outgoings[1], oUser |-> "", oPass |-> "",
   oServer |-> "", oTransport |-> Transports[1], source |-> "none", outgoing |-> "none",
   warned |-> FALSE]

(* The user has typed a name and an address. *)
Init ==
  /\ \E e \in Emails : form = outgoingUri(sourceUri([EmptyForm EXCEPT !.name = "new", !.email = e]))
  /\ page = 1 /\ focus = 3
  /\ discovered = "nil" /\ discoveredFor = "" /\ lookups = <<>>
  /\ file = {Existing} /\ accounts = <<>>
  /\ open = TRUE /\ confirmed = {} /\ wz_astray = {} /\ wz_edits = 0 /\ wz_faults = 0

Focused == Pages[page][focus]
Edit == wz_edits < MaxEdits /\ wz_edits' = wz_edits + 1
NoEdit == UNCHANGED <<wz_edits, wz_faults>>

(* Causes of a URL that is not made of the fields: the other protocol's    *)
(* OnSelect filled in the server.                                          *)
Stale(f) ==
  (IF f.source # SourceOf(f) THEN {"source"} ELSE {})
    \cup (IF f.outgoing # OutgoingOf(f) THEN {"outgoing"} ELSE {})

(* <Tab> and <Shift+Tab> go round the fields of the page. *)
Move ==
  /\ open
  /\ focus' \in {IF focus = Len(Pages[page]) THEN 1 ELSE focus + 1,
                 IF focus = 1 THEN Len(Pages[page]) ELSE focus - 1}
  /\ form' = FocusLost(form, Focused)
  /\ NoEdit
  /\ UNCHANGED <<page, discovered, discoveredFor, lookups, file, accounts, open,
                 confirmed, wz_astray>>

Values(field) ==
  CASE field \notin Typable -> {}
    [] field = "name" -> {"", Existing}
    [] field = "email" -> Emails
    [] field \in {"sServer", "oServer"} -> {"", "imap.typed"}
    [] field \in {"sUser", "oUser"} -> {"", "u"}
    [] field \in {"sPass", "oPass"} -> {"p"}
    [] OTHER -> {}

Type ==
  /\ open /\ Edit
  /\ \E v \in Values(Focused) : v # form[Focused] /\ form' = Typed(form, Focused, v)
  /\ UNCHANGED <<page, focus, discovered, discoveredFor, lookups, file, accounts, open,
                 confirmed, wz_astray, wz_faults>>

(* <Left> and <Right> of a selector call OnSelect at its ends, too. *)
Beside(options, now) ==
  LET i == SelectInSeq(options, LAMBDA o : o = now)
  IN {options[IF i = 1 THEN 1 ELSE i - 1], options[IF i = Len(options) THEN i ELSE i + 1]}

Choose ==
  /\ open /\ Edit
  /\ \/ /\ Focused = "sProto"
        /\ \E p \in Beside(Sources, form.sProto) : form' = SelectSource(form, p, discovered)
     \/ /\ Focused = "oProto"
        /\ \E p \in Beside(Outgoings, form.oProto) : form' = SelectOutgoing(form, p, discovered)
     \/ /\ Focused = "sTransport"
        /\ \E t \in Beside(Transports, form.sTransport) :
             form' = sourceUri([form EXCEPT !.sTransport = t])
     \/ /\ Focused = "oTransport"
        /\ \E t \in Beside(Transports, form.oTransport) :
             form' = outgoingUri([form EXCEPT !.oTransport = t])
  /\ wz_astray' = wz_astray \cup (Stale(form') \ Stale(form))
  /\ UNCHANGED <<page, focus, discovered, discoveredFor, lookups, file, accounts, open,
                 confirmed, wz_faults>>

-----------------------------------------------------------------------------
(* advance, from the button of a page or from the goroutine of the first. *)
Advance(f, from, next) ==
  /\ page' = IF next THEN (IF page < Len(Pages) THEN page + 1 ELSE page)
             ELSE (IF page > 1 THEN page - 1 ELSE page)
  /\ focus' = 1
  /\ form' = FocusLost(f, from)

(* "Next" on the first page: a goroutine discovers, fills in and advances. *)
LookUp ==
  /\ open /\ page = 1 /\ Focused = "button" /\ Len(lookups) < 2
  /\ lookups' = Append(lookups, [email |-> form.email, known |-> discoveredFor = form.email])
  /\ confirmed' = confirmed \cup {1}
  /\ NoEdit
  /\ UNCHANGED <<form, page, focus, discovered, discoveredFor, file, accounts, open,
                 wz_astray>>

(* discoverServices, autofill and advance, wherever the user is by now. *)
Discovered ==
  \E i \in DOMAIN lookups : \E found \in Services :
    LET email == lookups[i].email
        known == lookups[i].known
        proto == IF found = "JMAP" THEN "JMAP" ELSE "IMAP"
        mail == IF found = "JMAP" THEN "JMAP" ELSE "SMTP"
        selected == SelectOutgoing(SelectSource(form, proto, found), mail, found)
        cleared(f) == [f EXCEPT !.sServer = "", !.oServer = ""]
        got == IF known THEN form
               ELSE IF found = "none" THEN cleared(form)
               ELSE [cleared(selected) EXCEPT !.sUser = email, !.oUser = email]
        now == IF known THEN discovered ELSE IF found = "none" THEN "nil" ELSE found IN
    /\ known => found = "none"
    /\ discovered' = now
    /\ discoveredFor' = IF known \/ found = "none" THEN discoveredFor ELSE email
    /\ lookups' = RemoveAt(lookups, i)
    /\ Advance(outgoingUri(sourceUri(autofill(got, now))), Focused, TRUE)
    /\ wz_astray' = IF page # 1 THEN wz_astray \cup {"twice"} ELSE wz_astray
    /\ NoEdit
    /\ UNCHANGED <<file, accounts, open, confirmed>>

Button ==
  /\ open /\ page > 1 /\ Focused = "button"
  /\ \E next \in BOOLEAN :
       /\ page = Len(Pages) => ~next
       /\ Advance(form, "button", next)
       /\ confirmed' = IF next THEN confirmed \cup {page} ELSE confirmed
  /\ NoEdit
  /\ UNCHANGED <<discovered, discoveredFor, lookups, file, accounts, open, wz_astray>>

-----------------------------------------------------------------------------
(* finish. *)

(* The field errorFor goes to, or "none". *)
Missing(f) ==
  CASE f.name = "" -> "name"
    [] f.name # "" /\ f.email = "" -> "email"
    [] f.name # "" /\ f.email # "" /\ f.sServer = "" /\ f.sProto # "notmuch" -> "sServer"
    [] f.name # "" /\ f.email # "" /\ (f.sServer # "" \/ f.sProto = "notmuch")
         /\ f.oServer = "" /\ f.oProto # "JMAP" -> "oServer"
    [] OTHER -> IF f.name \in file THEN "name" ELSE "none"

errorFor(field) ==
  /\ page' = CHOOSE p \in DOMAIN Pages : Contains(Pages[p], field)
  /\ focus' = SelectInSeq(Pages[page'], LAMBDA x : x = field)
  /\ UNCHANGED <<file, accounts, open>>

Rejected ==
  /\ open /\ page = Len(Pages) /\ Missing(form) # "none"
  /\ errorFor(Missing(form))
  /\ NoEdit
  /\ UNCHANGED <<form, discovered, discoveredFor, lookups, confirmed, wz_astray>>

(* The section is written and the account added; then its view may fail, or *)
(* the terminal of the tutorial, and the wizard stays as it is.            *)
Saved(fails) ==
  /\ file' = IF Temporary THEN file ELSE file \cup {form.name}
  /\ accounts' = IF fails = "parse" THEN accounts
                 ELSE Append(accounts, [name |-> form.name, source |-> form.source,
                                        outgoing |-> form.outgoing, warned |-> form.warned])
  /\ open' = (fails # "none")

Finish ==
  /\ open /\ page = Len(Pages) /\ Missing(form) = "none"
  /\ \E fails \in {"none", "parse", "view", "tutorial"} :
       /\ IF fails = "none" THEN NoEdit
          ELSE /\ wz_faults < MaxFaults /\ wz_faults' = wz_faults + 1 /\ UNCHANGED wz_edits
       /\ Saved(fails)
       /\ wz_astray' = IF fails \in {"view", "tutorial"} THEN wz_astray \cup {"stays"} ELSE wz_astray
  /\ UNCHANGED <<form, page, focus, discovered, discoveredFor, lookups, confirmed>>

Next ==
  \/ Move \/ Type \/ Choose \/ LookUp \/ Discovered \/ Button \/ Rejected \/ Finish

Spec == Init /\ [][Next]_wzVars

-----------------------------------------------------------------------------
(* The account that is saved has the URLs the pages show, made of what      *)
(* their fields hold (sourceUri, outgoingUri), unless a change of one       *)
(* protocol has filled in the server of the other.                         *)
UrlsRight == Stale(form) \subseteq wz_astray

(* Pages come one after the other, each confirmed by its button, unless     *)
(* "Next" was pressed again while the first look-up went on.                *)
PagesInOrder == "twice" \notin wz_astray => \A p \in 1..page - 1 : p \in confirmed

(* One wizard makes one account, and a name that is in the file already is  *)
(* not used again, unless an error left the wizard open.                   *)
OneAccount ==
  /\ "stays" \notin wz_astray => Len(accounts) <= 1 /\ (accounts # <<>> => ~open)
  /\ \A a \in ToSet(accounts) : a.name # Existing

(* A password is not saved in clear before the user has been warned         *)
(* (showPasswordWarning).                                                  *)
WarnedFirst ==
  \A a \in ToSet(accounts) : a.source.pass # "" \/ a.outgoing.pass # "" => a.warned

WizardRight == UrlsRight /\ PagesInOrder /\ OneAccount /\ WarnedFirst
=============================================================================
