------------------------------ MODULE Searches ------------------------------
(***************************************************************************)
(* :filter, :search and :clear (commands/account/search.go, clear.go,      *)
(* lib/msgstore.go), the criteria they add up (worker/types/search.go) and *)
(* what each backend makes of them: the search of worker/lib for Maildir   *)
(* and mbox, the queries sent to IMAP, JMAP and notmuch.                   *)
(*                                                                         *)
(* The criteria of a list are one object: the commands change it in place  *)
(* while a worker reads it, and a request that waits sees what was added   *)
(* after it.  What the servers answer is external, written from the        *)
(* meaning of their query languages; aerc-search(1) is the reference the   *)
(* answers are compared with (Meets).                                      *)
(***************************************************************************)
EXTENDS Integers, SequencesExt, FiniteSetsExt

CONSTANTS
  Mail,         \* a sequence of messages: [subject, body: sets of words, headers: name -> word,
                \* flags: a set, date]; a date counts half days, an even one is a midnight
  CommandLines, \* options of :filter and :search, sequences of [opt, arg]
  MaxCommands   \* bound on the commands

VARIABLES
  backend, unreadable,   \* chosen at the start: the worker, the UIDs of damaged messages
  filter,       \* store.filter, NoCriteria for nil
  object,       \* identity of that criteria object, 0 for nil
  requests,     \* posted and not answered: [kind, criteria, object, line, taken]; object
                \* is 0 for criteria of its own; taken is what the worker has read of them
  shown, results,   \* UIDs of the list and of the last search
  given,        \* command lines of the filters since the last :clear
  last,         \* the last search answered: its command line, and the list then
  failed,       \* the last answer to a list request was an error
  crashed,
  se_commands

seVars == <<backend, unreadable, filter, object, requests, shown, results, given, last, failed,
            crashed, se_commands>>

Backends == {"maildir", "mbox", "imap", "jmap", "notmuch"}
Uids == DOMAIN Mail
Header == {"From", "To", "Cc", "List"}
Missing == ""

(* Words are lower case except the ones with a capital. *)
Lower(w) == IF w = "X" THEN "x" ELSE w
HasUpper(w) == Lower(w) # w

-----------------------------------------------------------------------------
(* SearchFilter and its Parse functions. *)

NoPart == [with |-> {}, without |-> {}, from |-> {}, to |-> {}, cc |-> {},
           headers |-> [h \in Header |-> {}], start |-> 0, end |-> 0,
           body |-> FALSE, all |-> FALSE, terms |-> <<>>, invert |-> FALSE]
Nil == [nil |-> TRUE]

ParseOption(p, o) ==
  CASE o.opt = "-r" -> [p EXCEPT !.with = @ \cup {"seen"}, !.without = @ \ {"seen"}]
    [] o.opt = "-u" -> [p EXCEPT !.with = @ \ {"seen"}, !.without = @ \cup {"seen"}]
    [] o.opt = "-x" -> [p EXCEPT !.with = @ \cup {o.arg}, !.without = @ \ {o.arg}]
    [] o.opt = "-X" -> [p EXCEPT !.with = @ \ {o.arg}, !.without = @ \cup {o.arg}]
    [] o.opt = "-f" -> [p EXCEPT !.from = @ \cup {o.arg}]
    [] o.opt = "-t" -> [p EXCEPT !.to = @ \cup {o.arg}]
    [] o.opt = "-c" -> [p EXCEPT !.cc = @ \cup {o.arg}]
    [] o.opt = "-H" -> [p EXCEPT !.headers[o.arg.name] = @ \cup {o.arg.value}]
    [] o.opt = "-d" -> [p EXCEPT !.start = o.arg.start, !.end = o.arg.end]
    [] o.opt = "-b" -> [p EXCEPT !.body = TRUE]
    [] o.opt = "-a" -> [p EXCEPT !.all = TRUE]
    [] o.opt = "-v" -> [p EXCEPT !.invert = TRUE]
    [] o.opt = "terms" -> [p EXCEPT !.terms = <<o.arg>>]
ParsePart(line) == FoldLeft(ParseOption, NoPart, line)

-----------------------------------------------------------------------------
(* SearchCriteria. *)

NoCriteria == [match |-> Nil, exclude |-> Nil]

(* SearchCriteriaPart.Combine: the later dates and the later values of a   *)
(* header replace the earlier ones.                                        *)
CombinePart(c, other) ==
  IF c = Nil THEN other
  ELSE [with |-> c.with \cup other.with, without |-> c.without \cup other.without,
        from |-> c.from \cup other.from, to |-> c.to \cup other.to, cc |-> c.cc \cup other.cc,
        headers |-> [h \in Header |-> IF other.headers[h] # {} THEN other.headers[h]
                                      ELSE c.headers[h]],
        start |-> IF other.start # 0 THEN other.start ELSE c.start,
        end |-> IF other.end # 0 THEN other.end ELSE c.end,
        body |-> c.body \/ other.body, all |-> c.all \/ other.all,
        terms |-> c.terms \o other.terms, invert |-> c.invert]

Combine(c, other) ==
  IF other.invert THEN [c EXCEPT !.exclude = CombinePart(@, other)]
  ELSE [c EXCEPT !.match = CombinePart(@, other)]

PrepareHeader(p) ==
  IF p = Nil THEN p
  ELSE [p EXCEPT !.headers = [@ EXCEPT !["From"] = @ \cup p.from, !["To"] = @ \cup p.to,
                                       !["Cc"] = @ \cup p.cc]]

-----------------------------------------------------------------------------
(* worker/lib/search.go, for Maildir.                                      *)

Text(m) == m.subject \cup m.body \cup {m.headers[h] : h \in Header}
TermWords(p) == UNION {ToSet(p.terms[i]) : i \in DOMAIN p.terms}

(* containsSmartCase; a missing header is an empty string, which contains the empty one. *)
ContainsSmartCase(text, w) ==
  \/ w = Missing
  \/ IF HasUpper(w) THEN w \in text ELSE w \in {Lower(v) : v \in text}

(* GetRequiredParts joins both parts of the criteria. *)
GetRequiredParts(c) ==
  LET ps == {c.match, c.exclude} \ {Nil} IN
  [flags |-> \E p \in ps : p.with \cup p.without # {},
   date |-> \E p \in ps : p.start # 0 \/ p.end # 0,
   body |-> \E p \in ps : p.body, all |-> \E p \in ps : p.all]

searchPart(m, p, parts) ==
  LET text == IF parts.body THEN m.body ELSE IF parts.all THEN Text(m) ELSE m.subject
      flags == IF parts.flags THEN m.flags ELSE {}
  IN
  \/ p = Nil
  \/ /\ \A h \in Header : \A v \in p.headers[h] : ContainsSmartCase({m.headers[h]}, v)
     /\ \A w \in TermWords(p) : ContainsSmartCase(text, w)
     /\ p.with \subseteq flags
     /\ p.without # {} => ~(p.without \subseteq flags)
     /\ parts.date /\ p.start # 0 => m.date >= p.start
     /\ parts.date /\ p.end # 0 => m.date <= p.end

(* What is excluded comes first. *)
SearchMessage(m, c, parts) ==
  /\ c.exclude = Nil \/ ~searchPart(m, c.exclude, parts)
  /\ searchPart(m, c.match, parts)

(* Maildir's search leaves out what it cannot read.  The messages are      *)
(* judged one by one: those judged late, by what the criteria are by then. *)
MaildirSearch(r, late) ==
  {u \in Uids \ unreadable :
     SearchMessage(Mail[u], IF u \in late THEN r.criteria ELSE r.taken.criteria, r.taken.parts)}

-----------------------------------------------------------------------------
(* The queries of the other backends, with what the servers answer: a word *)
(* is found in any case, dates are days for IMAP.                          *)

Has(text, w) == Lower(w) \in {Lower(v) : v \in text}
HasHeader(m, h, v) ==
  /\ m.headers[h] # Missing
  /\ v = Missing \/ Has({m.headers[h]}, v)

(* translateFlags and flagsToKeywords know no forwarded flag. *)
Keywords(flags) == flags \ {"forwarded"}

ImapPart(m, p) ==
  \/ p = Nil
  \/ /\ Keywords(p.with) \subseteq m.flags /\ Keywords(p.without) \cap m.flags = {}
     /\ p.start # 0 => m.date \div 2 >= p.start \div 2
     /\ p.end # 0 => m.date \div 2 < p.end \div 2
     /\ \A h \in Header : \A v \in PrepareHeader(p).headers[h] : HasHeader(m, h, v)
     /\ \A w \in TermWords(p) :
          Has(IF p.all THEN Text(m) ELSE IF p.body THEN m.body ELSE m.subject, w)
ImapSearch(c) ==
  {u \in Uids : ImapPart(Mail[u], c.match) /\ (c.exclude = Nil \/ ~ImapPart(Mail[u], c.exclude))}

(* translateSearchPart of JMAP: the addresses are alternatives. *)
JmapPart(m, p) ==
  LET addresses == {<<"From", v>> : v \in p.from} \cup {<<"To", v>> : v \in p.to}
                   \cup {<<"Cc", v>> : v \in p.cc}
  IN
  /\ p.start # 0 => m.date >= p.start
  /\ p.end # 0 => m.date < p.end
  /\ \A w \in TermWords(p) :
       Has(IF p.all THEN Text(m) ELSE IF p.body THEN m.body ELSE m.subject, w)
  /\ Keywords(p.with) \subseteq m.flags /\ Keywords(p.without) \cap m.flags = {}
  /\ addresses # {} => \E a \in addresses : HasHeader(m, a[1], a[2])
  /\ \A h \in Header : \A v \in p.headers[h] : HasHeader(m, h, v)
JmapSearch(c) == {u \in Uids : c.match = Nil \/ JmapPart(Mail[u], c.match)}

(* The clauses of a notmuch query, each inverted for itself.  getParsedFlag ignores inverse, *)
(* the headers are left out, and a term is a query of its own: it is found anywhere.         *)
NotmuchClauses(m, p) ==
  {\E v \in p[f[1]] : HasHeader(m, f[2], v) :
     f \in {f \in {<<"from", "From">>, <<"to", "To">>, <<"cc", "Cc">>} : p[f[1]] # {}}}
  \cup {(f \in m.flags) : f \in p.with \cup p.without}
  \cup (IF p.start = 0 /\ p.end = 0 THEN {}
        ELSE {m.date >= p.start /\ (p.end # 0 => m.date <= p.end)})
  \cup (IF p.body THEN {\A w \in TermWords(p) : Has(m.body, w)}
        ELSE {\A w \in ToSet(p.terms[i]) : Has(Text(m), w) : i \in DOMAIN p.terms})
NotmuchPart(m, p) == p = Nil \/ \A holds \in NotmuchClauses(m, p) : holds # p.invert
NotmuchSearch(c) ==
  {u \in Uids : NotmuchPart(Mail[u], c.match) /\ NotmuchPart(Mail[u], c.exclude)}

ServerSearch(c) ==
  CASE backend = "imap" -> ImapSearch(c)
    [] backend = "jmap" -> JmapSearch(c)
    [] backend = "notmuch" -> NotmuchSearch(c)

-----------------------------------------------------------------------------
(* The store.                                                              *)

Request(kind, c, o, line) ==
  [kind |-> kind, criteria |-> c, object |-> o, line |-> line, taken |-> Nil]

(* A folder is opened: its list is asked for without a filter. *)
Init ==
  /\ backend \in Backends
  /\ unreadable \in {{}} \cup {{u} : u \in {u \in Uids : backend = "maildir" /\ u = Len(Mail)}}
  /\ filter = NoCriteria /\ object = 0
  /\ requests = <<Request("list", NoCriteria, 0, <<>>)>>
  /\ shown = {} /\ results = {} /\ given = <<>> /\ last = Nil
  /\ failed = FALSE /\ crashed = FALSE /\ se_commands = 0

Command == ~crashed /\ se_commands < MaxCommands /\ se_commands' = se_commands + 1

(* The requests when the criteria object o has become c. *)
Shared(o, c) ==
  [i \in DOMAIN requests |->
     IF o # 0 /\ requests[i].object = o THEN [requests[i] EXCEPT !.criteria = c] ELSE requests[i]]

(* :filter: SetFilter changes the criteria in place, Sort asks for the list. *)
Filter ==
  /\ Command
  /\ \E line \in CommandLines :
       /\ filter' = Combine(filter, ParsePart(line))
       /\ given' = Append(given, line)
       /\ object' = IF object = 0 THEN se_commands' ELSE object
       /\ requests' = Append(Shared(object, filter'), Request("list", filter', object', line))
  /\ UNCHANGED <<backend, unreadable, shown, results, last, failed, crashed>>

(* :clear, and :filter without arguments. *)
ApplyClear ==
  /\ Command
  /\ filter' = NoCriteria /\ object' = 0 /\ given' = <<>>
  /\ results' = {} /\ last' = Nil
  /\ requests' = Append(requests, Request("list", NoCriteria, 0, <<>>))
  /\ UNCHANGED <<backend, unreadable, shown, failed, crashed>>

(* :search, with criteria of its own. *)
Search ==
  /\ Command
  /\ \E line \in CommandLines :
       requests' = Append(requests,
                          Request("search", Combine(NoCriteria, ParsePart(line)), 0, line))
  /\ UNCHANGED <<backend, unreadable, filter, object, shown, results, given, last, failed,
                 crashed>>

-----------------------------------------------------------------------------
(* The worker takes the requests in order.  Maildir's prepares the headers *)
(* of the criteria it has been given, the store's own ones.                *)
TakeUp ==
  LET r == Head(requests)
      c == IF backend = "maildir"
           THEN [match |-> PrepareHeader(r.criteria.match),
                 exclude |-> PrepareHeader(r.criteria.exclude)]
           ELSE r.criteria
  IN
  /\ ~crashed /\ requests # <<>> /\ r.taken = Nil
  /\ backend # "mbox"
  /\ requests' = [Shared(r.object, c) EXCEPT ![1].criteria = c,
                     ![1].taken = [criteria |-> c, parts |-> GetRequiredParts(c)]]
  /\ filter' = IF r.object # 0 /\ r.object = object THEN c ELSE filter
  /\ UNCHANGED <<backend, unreadable, object, shown, results, given, last, failed, crashed,
                 se_commands>>

(* The mbox worker searches also without a filter, and GetRequiredParts    *)
(* follows the nil pointer.                                                *)
Panics ==
  /\ ~crashed /\ requests # <<>> /\ backend = "mbox"
  /\ Head(requests).criteria = NoCriteria
  /\ crashed' = TRUE
  /\ UNCHANGED <<backend, unreadable, filter, object, requests, shown, results, given, last,
                 failed, se_commands>>

Answer(found) ==
  LET r == Head(requests) IN
  /\ requests' = Tail(requests)
  /\ IF r.kind = "list"
     THEN shown' = found /\ failed' = FALSE /\ UNCHANGED <<results, last>>
     ELSE /\ results' = found \cap shown /\ last' = [line |-> r.line, among |-> shown]
          /\ UNCHANGED <<shown, failed>>
  /\ UNCHANGED <<backend, unreadable, filter, object, given, crashed, se_commands>>

Taken == requests # <<>> /\ Head(requests).taken # Nil

(* Without a filter the whole directory is read. *)
AnswerMaildir ==
  /\ backend = "maildir" /\ Taken
  /\ \E late \in SUBSET Uids :
       Answer(IF Head(requests).taken.criteria = NoCriteria THEN Uids
              ELSE MaildirSearch(Head(requests), late))

Excluding == backend = "jmap" /\ Head(requests).taken.criteria.exclude # Nil
AnswerServer ==
  /\ backend # "maildir" /\ Taken /\ ~Excluding
  /\ Answer(ServerSearch(Head(requests).taken.criteria))

(* JMAP refuses to exclude; the answer is an error. *)
AnswerError ==
  /\ Taken /\ Excluding
  /\ requests' = Tail(requests)
  /\ failed' = IF Head(requests).kind = "list" THEN TRUE ELSE failed
  /\ UNCHANGED <<backend, unreadable, filter, object, shown, results, given, last, crashed,
                 se_commands>>

Next ==
  \/ Filter \/ ApplyClear \/ Search
  \/ TakeUp \/ Panics \/ AnswerMaildir \/ AnswerServer \/ AnswerError

-----------------------------------------------------------------------------
(* The reference: what a command line asks for, written from the manual.   *)

Options(line) == ToSet(line)
Uses(line, opts) == {o \in Options(line) : o.opt \in opts}
Clauses(line) == Options(line) \ Uses(line, {"-v", "-a", "-b"})
Scope(line) ==
  IF Uses(line, {"-a"}) # {} THEN "all" ELSE IF Uses(line, {"-b"}) # {} THEN "body" ELSE "subject"
ScopeText(m, scope) ==
  CASE scope = "body" -> m.body [] scope = "all" -> Text(m) [] OTHER -> m.subject

(* A range excludes its end (aerc-search(1), lib/parse/daterange.go:16-17); against that the     *)
(* search of worker/lib (date.After) and notmuch (date:..@end) find a message of the very        *)
(* instant at which the day of the end begins.                                                   *)
FindsEnd == backend \in {"maildir", "mbox", "notmuch"}
InRange(date, range) ==
  /\ date >= range.start
  /\ range.end # 0 => date < range.end \/ (FindsEnd /\ date = range.end)

Asked(m, o, scope) ==
  CASE o.opt = "-r" -> "seen" \in m.flags
    [] o.opt = "-u" -> "seen" \notin m.flags
    [] o.opt = "-x" -> o.arg \in m.flags
    [] o.opt = "-X" -> o.arg \notin m.flags
    [] o.opt = "-f" -> HasHeader(m, "From", o.arg)
    [] o.opt = "-t" -> HasHeader(m, "To", o.arg)
    [] o.opt = "-c" -> HasHeader(m, "Cc", o.arg)
    [] o.opt = "-H" -> HasHeader(m, o.arg.name, o.arg.value)
    [] o.opt = "-d" -> InRange(m.date, o.arg)
    [] o.opt = "terms" -> \A w \in ToSet(o.arg) : Has(ScopeText(m, scope), w)
    [] OTHER -> TRUE
Meets(m, line) ==
  (\A o \in Options(line) : Asked(m, o, Scope(line))) # (Uses(line, {"-v"}) # {})

(* The lines that go into the same part of the criteria. *)
Excludes(lines) == {i \in DOMAIN lines : Uses(lines[i], {"-v"}) # {}}
Sides(lines) == {Excludes(lines), DOMAIN lines \ Excludes(lines)}
UsesOf(lines, side, opts) == {i_o \in side \X UNION {Options(lines[i]) : i \in side} :
                                i_o[2] \in Uses(lines[i_o[1]], opts)}
ScopesOf(lines, side) ==
  {Scope(lines[i]) : i \in {i \in side : Uses(lines[i], {"-a", "-b", "terms"}) # {}}}
Names(lines, side) == {i_o[2].arg.name : i_o \in UsesOf(lines, side, {"-H"})}

(* Where the backends differ from the manual. *)
Differs(lines) ==
  LET Twice(opts) == \E s \in Sides(lines) : Cardinality(UsesOf(lines, s, opts)) > 1
      Somewhere(opts) == UsesOf(lines, DOMAIN lines, opts) # {}
      words == UNION {ToSet(u[2].arg) : u \in UsesOf(lines, DOMAIN lines, {"terms"})}
  IN
  \* the later dates and values of a header replace the earlier ones
  \/ Twice({"-d"})
  \/ \E s \in Sides(lines) : Cardinality(UsesOf(lines, s, {"-H"})) > Cardinality(Names(lines, s))
  \* the scope of one filter goes for the terms of the others
  \/ \E s \in (IF backend = "maildir" THEN {DOMAIN lines} ELSE Sides(lines)) :
       Cardinality(ScopesOf(lines, s)) > 1
  \* what is excluded has to meet all the filters with -v
  \/ backend \in {"maildir", "imap"} /\ Cardinality(Excludes(lines)) > 1
  \/ backend = "maildir" /\ (\/ \E w \in words : HasUpper(w)
                             \/ Twice({"-u", "-X"})
                             \/ \E u \in UsesOf(lines, DOMAIN lines, {"-H"}) :
                                  u[2].arg.value = Missing)
  \/ backend \in {"imap", "jmap"} /\ \E u \in UsesOf(lines, DOMAIN lines, {"-x", "-X"}) :
                                       u[2].arg = "forwarded"
  \/ backend = "jmap" /\ Twice({"-f", "-t", "-c"})
  \/ backend = "notmuch" /\ (\/ \E o \in {"-f", "-t", "-c"} : Twice({o})
                             \/ Somewhere({"-u", "-X", "-H"})
                             \/ "subject" \in ScopesOf(lines, DOMAIN lines)
                             \/ \E i \in Excludes(lines) : Cardinality(Clauses(lines[i])) > 1)

Agree(found, among, lines) ==
  \A u \in among \ unreadable : u \in found <=> \A i \in DOMAIN lines : Meets(Mail[u], lines[i])

(* SearchesRight: when nothing is pending the list holds what meets every  *)
(* filter given since the last :clear, and the results of a search are     *)
(* those of the listed messages that meet it, except where Differs names a *)
(* difference of the backend and for the end that FindsEnd names; only     *)
(* JMAP fails, for as long as a filter excludes, and only mbox crashes.    *)
SearchesRight ==
  /\ crashed => backend = "mbox"
  /\ requests = <<>> =>
       /\ failed <=> (backend = "jmap" /\ Excludes(given) # {})
       /\ failed \/ Differs(given) \/ Agree(shown, Uids, given)
  /\ last # Nil => Differs(<<last.line>>) \/ Agree(results, last.among, <<last.line>>)

=============================================================================
