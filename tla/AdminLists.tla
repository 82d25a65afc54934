----------------------------- MODULE AdminLists -----------------------------
(***************************************************************************)
(* The five list pages of the admin panel: cases, SMS log, contact         *)
(* messages, users and listings.  A page asks for its rows, shows them,    *)
(* and changes one row at a time through the API; nothing cancels a        *)
(* request, and answers arrive in any order or not at all.  Other staff    *)
(* and the SMS worker change the same rows meanwhile.                      *)
(*                                                                         *)
(* The pages share no state, so a behaviour is about one of them.  A       *)
(* request is served in one step; the steps inside the SMS path are in     *)
(* Notifications.                                                          *)
(***************************************************************************)
EXTENDS Browser

CONSTANTS
  Lists,        \* the pages a run is about
  Rows,         \* ids of the rows of a table
  Narrow        \* rows that pass the second filter: a service type, a form

ListNames == {"cases", "logs", "contacts", "users", "properties"}

ASSUME ListsAssumption ==
  /\ Lists \subseteq ListNames
  /\ Narrow \subseteq Rows
  /\ None \notin Rows

VARIABLES
  list,         \* the page this behaviour is about
  table,        \* the value of each row in Postgres
  page,         \* the state of the page's component
  call,         \* API calls: what they ask for, what they bring back
  ahead,        \* pairs of calls under way: the first was sent before the second
  excuse,       \* history: why the page may differ from the table
  takeover      \* history: in this visit two rows had calls at the same time

listVars == <<list, table, page, call, ahead, excuse, takeover>>

\* BOUND: two of five case statuses, two of three roles, two of three listing
\* statuses; in the log only FAILED is told from the rest.
Values(name) ==
  CASE name = "cases"      -> {"SUBMITTED", "COMPLETED"}
    [] name = "logs"       -> {"PENDING", "FAILED"}
    [] name = "contacts"   -> {"new", "handled"}
    [] name = "users"      -> [role : {"STAFF", "ADMIN"}, active : BOOLEAN]
    [] name = "properties" -> {"ACTIVE", "ARCHIVED"}

\* The status tabs of each page.  BOUND: two of the cases' six and the log's four.
Tabs(name) ==
  CASE name = "cases"                -> {"all", "SUBMITTED"}
    [] name = "logs"                 -> {"all", "FAILED"}
    [] name \in {"contacts", "users"} -> {"all"}
    [] name = "properties"           -> Values(name)

Filters(name) == [status : Tabs(name), form : {"any", "narrow"}]

\* The first filter of a visit.
InitialFilter(name) ==
  [status |-> IF name = "properties" THEN "ACTIVE" ELSE "all", form |-> "any"]

Away == [mounted |-> FALSE, filter |-> None, shown |-> {}, asked |-> None,
         loading |-> TRUE, busy |-> None]
Unused == [pc |-> "idle", kind |-> None, mine |-> FALSE, filter |-> None,
           row |-> None, value |-> None, rows |-> {}]

Mine == {q \in Calls : call[q].mine}
UnderWay == {q \in Calls : call[q].pc # "idle"}

\* No row is listed twice.
OneEach(rows) == \A s, t \in rows : s[1] = t[1] => s = t

ListsTypeOK ==
  /\ list \in Lists
  /\ table \in [Rows -> Values(list)]
  /\ page \in [mounted : BOOLEAN, filter : Filters(list) \cup {None},
               shown : SUBSET (Rows \X Values(list)),
               asked : Tabs(list) \cup {None},
               loading : BOOLEAN, busy : Rows \cup {None}]
  /\ \A q \in Calls :
       /\ call[q].pc \in {"idle", "sent", "answered"}
       /\ call[q].rows \subseteq Rows \X Values(list)
  /\ ahead \subseteq UnderWay \X UnderWay
  /\ \A q, r \in UnderWay : <<q, r>> \in ahead <=> q # r /\ <<r, q>> \notin ahead
  /\ OneEach(page.shown)
  /\ excuse \subseteq {"mishap", "token"}
  /\ takeover \in BOOLEAN

ListsInit ==
  /\ list \in Lists
  /\ table \in [Rows -> Values(list)]
  /\ page = Away
  /\ call = [q \in Calls |-> Unused]
  /\ ahead = {}
  /\ excuse = {}
  /\ takeover = FALSE

-----------------------------------------------------------------------------
(* Loading.  The error line hides nothing and is left out. *)

\* A call is sent behind those under way.
SentLast(q) == ahead' = ahead \cup (UnderWay \X {q})

\* Mutant: every page of rows is asked for with the first filter.
AskInitial(q, filter) ==
  /\ call[q].pc = "idle"
  /\ call' = [call EXCEPT ![q] = [Unused EXCEPT
       !.pc = "sent", !.kind = "list", !.mine = TRUE, !.filter = InitialFilter(list)]]
  /\ SentLast(q)
  /\ excuse' = IF Mine = {} THEN {} ELSE excuse

\* apiFetch for a list: GET with the filters that are set.  A list asked for
\* while nothing else is under way makes up for whatever went wrong before.
Ask(q, filter) ==
  /\ call[q].pc = "idle"
  /\ call' = [call EXCEPT ![q] = [Unused EXCEPT
       !.pc = "sent", !.kind = "list", !.mine = TRUE, !.filter = filter]]
  /\ SentLast(q)
  /\ excuse' = IF Mine = {} THEN {} ELSE excuse

Load(q, p) ==
  /\ Ask(q, p.filter)
  /\ page' = [p EXCEPT !.loading = TRUE]

NoToken(p) ==
  /\ FALSE \in TokenHere
  /\ page' = p
  /\ excuse' = excuse \cup {"token"}
  /\ UNCHANGED <<call, ahead>>

\* Mutant: without a token the page goes on saying that it loads.
LoadCasesSilent(q, p) == Load(q, p) \/ NoToken(p)

\* Without a token two pages stop loading and say so ...
LoadCases(q, p)      == Load(q, p) \/ NoToken([p EXCEPT !.loading = FALSE])
LoadContacts(q, p)   == Load(q, p) \/ NoToken([p EXCEPT !.loading = FALSE])

\* ... and three just return, in whatever state they are.
LoadLogs(q, p)       == Load(q, p) \/ NoToken(p)
LoadUsers(q, p)      == Load(q, p) \/ NoToken(p)
LoadProperties(q, p) == Load(q, p) \/ NoToken(p)

Reload(q, p) ==
  \/ list = "cases"      /\ LoadCases(q, p)
  \/ list = "contacts"   /\ LoadContacts(q, p)
  \/ list = "logs"       /\ LoadLogs(q, p)
  \/ list = "users"      /\ LoadUsers(q, p)
  \/ list = "properties" /\ LoadProperties(q, p)

\* A link of the panel's menu mounts the page and its effect runs.
OpenList(q) ==
  /\ ~ page.mounted
  /\ Reload(q, [Away EXCEPT !.mounted = TRUE, !.filter = InitialFilter(list)])
  /\ UNCHANGED <<list, table, takeover>>

Abandoned == {q \in Calls : call[q].pc = "sent" /\ call[q].kind = "row"}

\* Another page replaces it.  Answers still to come are for nobody and leave the
\* model; a change that was sent still reaches the server.
LeaveList ==
  /\ page.mounted
  /\ page' = Away
  /\ call' = [q \in Calls |->
       IF q \in Abandoned THEN [call[q] EXCEPT !.mine = FALSE] ELSE Unused]
  /\ ahead' = ahead \cap (Abandoned \X Abandoned)
  /\ excuse' = {}
  /\ takeover' = FALSE
  /\ UNCHANGED <<list, table>>

\* The status tabs, which can be clicked while loading: the effect that loads
\* depends on them.
ChooseTab(q, s) ==
  /\ page.mounted
  /\ s \in Tabs(list) \ {page.filter.status}
  /\ Reload(q, [page EXCEPT !.filter.status = s])
  /\ UNCHANGED <<list, table, takeover>>

CaseTab(q, s)     == list = "cases"      /\ ChooseTab(q, s)
LogTab(q, s)      == list = "logs"       /\ ChooseTab(q, s)
PropertyTab(q, s) == list = "properties" /\ ChooseTab(q, s)

\* The service type of the cases: another dependency of the effect.
SetServiceType(q, f) ==
  /\ list = "cases" /\ page.mounted
  /\ f \in {"any", "narrow"} \ {page.filter.form}
  /\ Reload(q, [page EXCEPT !.filter.form = f])
  /\ UNCHANGED <<list, table, takeover>>

\* The form of the listings is a draft until it is submitted or a tab is clicked.
EditForm(f) ==
  /\ list = "properties" /\ page.mounted
  /\ f \in {"any", "narrow"} \ {page.filter.form}
  /\ page' = [page EXCEPT !.filter.form = f]
  /\ UNCHANGED <<list, table, call, ahead, excuse, takeover>>

SubmitForm(q) ==
  /\ list = "properties" /\ page.mounted
  /\ Reload(q, page)
  /\ UNCHANGED <<list, table, takeover>>

-----------------------------------------------------------------------------
(* Changing a row *)

\* What each page puts on the screen: the loading text or the rows it has.
OnScreen == IF page.mounted /\ ~ page.loading THEN page.shown ELSE {}

ShownCases      == IF list = "cases"      THEN OnScreen ELSE {}
ShownLogs       == IF list = "logs"       THEN OnScreen ELSE {}
ShownContacts   == IF list = "contacts"   THEN OnScreen ELSE {}
ShownUsers      == IF list = "users"      THEN OnScreen ELSE {}
ShownProperties == IF list = "properties" THEN OnScreen ELSE {}

RowCalls == {q \in Mine : call[q].kind = "row"}

\* A PATCH or POST for one row, with the token of the moment.
Change(q, i, v) ==
  /\ call[q].pc = "idle"
  /\ call' = [call EXCEPT ![q] = [Unused EXCEPT
       !.pc = "sent", !.kind = "row", !.mine = TRUE, !.row = i, !.value = v]]
  /\ SentLast(q)
  /\ takeover' = (takeover \/ \E r \in RowCalls : call[r].row # i)
  /\ UNCHANGED <<list, table, excuse>>

\* Mutant: the button is not disabled while its row is being resent.
ResendAgain(q, i) ==
  /\ <<i, "FAILED">> \in ShownLogs
  /\ page' = [page EXCEPT !.busy = i]
  /\ Change(q, i, "PENDING")

\* Only failed rows have the button; it is disabled for the one row in busy.
Resend(q, i) ==
  /\ <<i, "FAILED">> \in ShownLogs
  /\ page.busy # i
  /\ page' = [page EXCEPT !.busy = i]
  /\ Change(q, i, "PENDING")

MarkHandled(q, i) ==
  /\ <<i, "new">> \in ShownContacts
  /\ Change(q, i, "handled")
  /\ UNCHANGED page

\* The select an ADMIN sees; the API changes the role and nothing else.
ChangeRole(q, i, role) ==
  /\ \E s \in ShownUsers : s[1] = i /\ s[2].role # role
  /\ page.busy # i
  /\ page' = [page EXCEPT !.busy = i]
  /\ Change(q, i, [role |-> role])

\* Asks for the opposite of what the row shows.
ToggleActive(q, i) ==
  /\ page.busy # i
  /\ page' = [page EXCEPT !.busy = i]
  /\ \E s \in ShownUsers : s[1] = i /\ Change(q, i, [active |-> ~ s[2].active])

Archive(q, i) ==
  /\ \E s \in ShownProperties : s[1] = i /\ s[2] # "ARCHIVED"
  /\ Change(q, i, "ARCHIVED")
  /\ UNCHANGED page

-----------------------------------------------------------------------------
(* The server *)

Matches(filter, i) ==
  /\ filter.status # "all" => table[i] = filter.status
  /\ filter.form = "narrow" => i \in Narrow

Found(filter) == {<<i, table[i]>> : i \in {r \in Rows : Matches(filter, r)}}

\* An earlier call of this visit is still where q now goes on.
Overtakes(q) ==
  /\ call[q].mine
  /\ \E r \in Mine : <<r, q>> \in ahead /\ call[r].pc = call[q].pc

NoteOrder(q) == excuse' = IF Overtakes(q) THEN excuse \cup {"mishap"} ELSE excuse

Consume(q) ==
  /\ call' = [call EXCEPT ![q] = Unused]
  /\ ahead' = {pair \in ahead : q \notin {pair[1], pair[2]}}

\* findAll, findLogs, findAllForAdmin.
ServeList(q) ==
  /\ call[q].pc = "sent" /\ call[q].kind = "list"
  /\ call' = [call EXCEPT ![q].pc = "answered", ![q].rows = Found(call[q].filter)]
  /\ NoteOrder(q)
  /\ UNCHANGED <<list, table, page, ahead, takeover>>

\* updateRole, setActive, markHandled, archive and resend set one column.
Update(i, value) ==
  IF list = "users" /\ "role" \in DOMAIN value THEN [table[i] EXCEPT !.role = value.role]
  ELSE IF list = "users" THEN [table[i] EXCEPT !.active = value.active]
  ELSE value

\* The answer is the row as the update left it.  A change this visit did not
\* ask for is news to the page.
ServeRow(q) ==
  LET v == Update(call[q].row, call[q].value) IN
  /\ call[q].pc = "sent" /\ call[q].kind = "row"
  /\ table' = [table EXCEPT ![call[q].row] = v]
  /\ IF call[q].mine
     THEN /\ call' = [call EXCEPT ![q].pc = "answered", ![q].value = v]
          /\ NoteOrder(q)
          /\ UNCHANGED ahead
     ELSE /\ Consume(q)
          /\ excuse' = excuse \cup {"mishap"}
  /\ UNCHANGED <<list, page, takeover>>

\* Other staff, or the SMS worker, write the row.
Elsewhere(i, v) ==
  /\ "elsewhere" \in Mishaps
  /\ page.mounted
  /\ v # table[i]
  /\ list = "contacts" => v = "handled"
  /\ list = "properties" => table[i] # "ARCHIVED"
  /\ table' = [table EXCEPT ![i] = v]
  /\ excuse' = excuse \cup {"mishap"}
  /\ UNCHANGED <<list, page, call, ahead, takeover>>

-----------------------------------------------------------------------------
(* Answers *)

\* setRows and loading off, whichever filter the page has by now.
AnswerList(q) ==
  /\ call[q].pc = "answered" /\ call[q].kind = "list"
  /\ Consume(q)
  /\ page' = [page EXCEPT !.shown = call[q].rows, !.asked = call[q].filter.status,
                          !.loading = FALSE]
  /\ NoteOrder(q)
  /\ UNCHANGED <<list, table, takeover>>

\* Mutant: the answer is added to the rows.
ReplacedAdded(i, v) == page.shown \cup {<<i, v>>}

Replaced(i, v) == {IF s[1] = i THEN <<i, v>> ELSE s : s \in page.shown}

\* The row is replaced by the answer, a listing that was archived disappears.
AnswerRow(q) ==
  /\ call[q].pc = "answered" /\ call[q].kind = "row"
  /\ Consume(q)
  /\ page' = [page EXCEPT !.busy = None,
       !.shown = IF list = "properties" THEN {s \in @ : s[1] # call[q].row}
                 ELSE Replaced(call[q].row, call[q].value)]
  /\ NoteOrder(q)
  /\ UNCHANGED <<list, table, takeover>>

\* apiFetch throws: refused or unreachable, answered in vain, or given up by the
\* browser while the server still gets to it.
AnswerError(q) ==
  /\ "network" \in Mishaps
  /\ call[q].pc # "idle" /\ call[q].mine
  /\ \/ Consume(q)
     \/ q \in Abandoned /\ call' = [call EXCEPT ![q].mine = FALSE] /\ UNCHANGED ahead
  /\ page' = IF call[q].kind = "list" THEN [page EXCEPT !.loading = FALSE]
             ELSE [page EXCEPT !.busy = None]
  /\ excuse' = excuse \cup {"mishap"}
  /\ UNCHANGED <<list, table, takeover>>

-----------------------------------------------------------------------------
Visit ==
  \/ \E q \in Calls : OpenList(q)
  \/ LeaveList
  \/ \E q \in Calls, s \in Tabs(list) : CaseTab(q, s) \/ LogTab(q, s) \/ PropertyTab(q, s)
  \/ \E q \in Calls, f \in {"any", "narrow"} : SetServiceType(q, f)
  \/ \E f \in {"any", "narrow"} : EditForm(f)
  \/ \E q \in Calls : SubmitForm(q)
  \/ \E q \in Calls, i \in Rows :
       \/ Resend(q, i)
       \/ MarkHandled(q, i)
       \/ \E role \in {"STAFF", "ADMIN"} : ChangeRole(q, i, role)
       \/ ToggleActive(q, i)
       \/ Archive(q, i)

Network(q) == ServeList(q) \/ ServeRow(q) \/ AnswerList(q) \/ AnswerRow(q) \/ AnswerError(q)

ListsNext ==
  \/ Visit
  \/ \E q \in Calls : Network(q)
  \/ \E i \in Rows, v \in Values(list) : Elsewhere(i, v)

ListsSpec == ListsInit /\ [][ListsNext]_listVars

-----------------------------------------------------------------------------
(* Properties *)

Quiet == page.mounted /\ page.asked # None /\ Mine = {}

Screen == ShownCases \cup ShownLogs \cup ShownContacts \cup ShownUsers \cup ShownProperties

\* When all that the page has asked for was served and answered in the order it
\* was sent, the screen shows the rows as they are, asked for with the tab that
\* is marked: the code has no cancelling and needs none for that, order is
\* enough, and after a mishap one load that runs alone restores it.
QuietPageIsTrue ==
  Quiet /\ excuse = {} =>
    /\ \A s \in Screen : table[s[1]] = s[2]
    /\ page.asked = page.filter.status

\* resendingId and busyId hold one row: a row has a second call under way only
\* after another row has taken the slot.
SlotGuardsRow ==
  list \in {"logs", "users"} =>
    \A q, r \in RowCalls : q # r /\ call[q].row = call[r].row => takeover

\* A page that says it is loading has a list under way, or has found no token:
\* a failed load, or one overtaken by another, does not leave it loading.
LoadingIsBacked ==
  page.mounted /\ page.loading =>
    \/ \E q \in Mine : call[q].kind = "list"
    \/ "token" \in excuse /\ list \in {"logs", "users", "properties"}

-----------------------------------------------------------------------------
(* Strengthening: what makes the properties above inductive *)

\* What a change asks for: of a user one of two columns.
Wishes == [role : {"STAFF", "ADMIN"}] \cup [active : BOOLEAN]
Wanted(name) == IF name = "users" THEN Wishes ELSE Values(name)

Pairs == Rows \X Values(list)
PageState == [mounted : BOOLEAN, filter : Filters(list) \cup {None}, shown : SUBSET Pairs,
              asked : Tabs(list) \cup {None}, loading : BOOLEAN, busy : Rows \cup {None}]
CallState == [pc : {"idle", "sent", "answered"}, kind : {None, "list", "row"}, mine : BOOLEAN,
              filter : Filters(list) \cup {None}, row : Rows \cup {None},
              value : Values(list) \cup Wishes \cup {None}, rows : SUBSET Pairs]

ListsStateInv ==
  /\ list \in Lists
  /\ table \in [Rows -> Values(list)]
  /\ page \in PageState
  /\ call \in [Calls -> CallState]
  /\ excuse \subseteq {"mishap", "token"}
  /\ takeover \in BOOLEAN
  /\ page.mounted => page.filter \in Filters(list)

\* A call that carries what its kind needs, and is nobody's only as a change on
\* its way to the server.
Proper(c) ==
  \/ c = Unused
  \/ /\ c.pc \in {"sent", "answered"} /\ c.kind \in {"list", "row"}
     /\ ~ c.mine => c.pc = "sent" /\ c.kind = "row"
     /\ c.kind = "list" => c.filter \in Filters(list)
     /\ c.kind = "row" =>
          c.row \in Rows /\ c.value \in IF c.pc = "sent" THEN Wanted(list) ELSE Values(list)

CallInv ==
  /\ \A q \in Calls : Proper(call[q]) /\ (call[q].mine => page.mounted)
  /\ ahead \subseteq UnderWay \X UnderWay
  /\ \A q, r \in UnderWay : <<q, r>> \in ahead <=> q # r /\ <<r, q>> \notin ahead

\* One row has the slot until another one takes it.
BusyInv ==
  list \in {"logs", "users"} /\ ~ takeover =>
    /\ \A q \in RowCalls : page.busy = call[q].row
    /\ \A q, r \in RowCalls : q = r

Queries == {q \in Mine : call[q].kind = "list"}

\* The answers to own changes of a row that are still to come.
News(i) == {q \in RowCalls : call[q].pc = "answered" /\ call[q].row = i}

\* While nothing went wrong the server has served own calls in the order they
\* were sent, and whatever is not as the table has it is made up for by the
\* answer of a change served later.
OrderInv ==
  excuse = {} =>
    /\ \A q, r \in Mine :
         <<q, r>> \in ahead /\ call[r].pc = "answered" => call[q].pc = "answered"
    /\ \A q \in Queries : call[q].pc = "answered" =>
         \A s \in call[q].rows :
           table[s[1]] = s[2] \/ \E r \in News(s[1]) : <<q, r>> \in ahead
    /\ \A i \in Rows : \A q \in News(i) :
         table[i] = call[q].value \/ \E r \in News(i) : <<q, r>> \in ahead
    /\ Queries = {} => \A s \in page.shown : table[s[1]] = s[2] \/ News(s[1]) # {}

\* ... and the list asked for last has the tab that is marked.
FilterInv ==
  excuse = {} /\ page.mounted =>
    /\ \A q \in Queries :
         \/ call[q].filter.status = page.filter.status
         \/ \E r \in Queries : <<q, r>> \in ahead
    /\ Queries = {} /\ page.asked # None => page.asked = page.filter.status

\* Neither the page nor an answer lists a row twice.
OnceInv == OneEach(page.shown) /\ \A q \in Calls : OneEach(call[q].rows)

ListsInv ==
  /\ ListsStateInv /\ CallInv /\ BusyInv /\ OrderInv /\ FilterInv
  /\ LoadingIsBacked
=============================================================================
